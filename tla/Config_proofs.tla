---------------------------- MODULE Config_proofs ----------------------------
(***************************************************************************)
(* Proofs about the five modules of the run Config: the updates of          *)
(* Updater, the rules of CommandDispatch, the tags of TagStore, the options *)
(* of Settings and the files of ConfigMigration.  They share no state, so   *)
(* each has its own section.                                                *)
(***************************************************************************)
EXTENDS CommandDispatch, ConfigMigration, Settings, TagStore, Updater, FiniteSetTheorems, SequenceTheorems,
        WellFoundedInduction, TLAPS

-----------------------------------------------------------------------------
(* Updates *)

Stage ==
  [at : {"idle", "setAside", "build", "restore"}]
    \cup [at : {"compile", "hash", "compress", "open"}, platform : Platform]
    \cup [at : {"writeHash", "copy"}, platform : Platform, read : Nat]

UTypeOK ==
  /\ remote \in Nat \ {Absent} /\ checkout \in Nat \ {Absent} /\ sweetie \in Nat \ {Absent}
  /\ updater \in Nat /\ aside \in Nat
  /\ turn \in {"nextSweetie", "sweetie", "nextUpdater", "pull", "build"}
  /\ leaving \in BOOLEAN /\ skipped \in BOOLEAN /\ lost \in BOOLEAN /\ ready \in BOOLEAN /\ spoilt \in BOOLEAN
  /\ hook \in [ReadyHook -> Stage]
  /\ offered \in [Platform -> [exe : Nat, md5 : Nat, archive : Nat]]

(* Between the updater's turn and sweetie's, what was built is what was pulled. *)
BuiltAsPulled ==
  /\ turn = "nextSweetie" /\ ~skipped => sweetie = checkout
  /\ RunsWhatWasPulled

(* While a SelfUpdate builds a missing updater, it still has the one it set aside. *)
OneAside == updater = Absent => lost \/ (Building /\ aside # Absent)

(* Who is still to come to a platform, to its hash, to its archive. *)
Ahead(h, p) ==
  \/ hook[h].at \in {"setAside", "build", "restore"}
  \/ hook[h].at \in {"compile", "hash", "writeHash", "compress", "open", "copy"} /\ hook[h].platform < p
  \/ hook[h].at = "compile" /\ hook[h].platform = p
HashesLater(h, p) == Ahead(h, p) \/ (hook[h].at \in {"hash", "writeHash"} /\ hook[h].platform = p)
ArchivesLater(h, p) == HashesLater(h, p) \/ (hook[h].at \in {"compress", "open", "copy"} /\ hook[h].platform = p)
HashFits(p) == offered[p].md5 = offered[p].exe
ArchiveFits(p) == offered[p].archive = offered[p].exe

(* From the first Ready on, what does not fit the program is still to be made, and
   what was read of a program is what it is. *)
SeenTo ==
  ~spoilt =>
    /\ ready \/ (\E h \in ReadyHook : hook[h].at # "idle") =>
         \A p \in Platform :
           /\ HashFits(p) \/ \E h \in ReadyHook : HashesLater(h, p)
           /\ ArchiveFits(p) \/ \E h \in ReadyHook : ArchivesLater(h, p)
    /\ \A h \in ReadyHook, p \in Platform : Reads(h, p) => hook[h].read = offered[p].exe

UpdateInv == UTypeOK /\ BuiltAsPulled /\ OneAside /\ SeenTo

LEMMA PlatformFacts ==
  /\ Platforms \in Nat /\ 1 \in Platform
  /\ \A p \in Platform : p \in Nat /\ p <= Platforms /\ (p < Platforms => p + 1 \in Platform)
  <1>1. Platforms \in Nat /\ Platforms >= 1
    BY UpdaterAssumption
  <1> QED
    BY <1>1 DEF Platform

LEMMA StageFacts ==
  ASSUME hook \in [ReadyHook -> Stage], NEW h \in ReadyHook
  PROVE  /\ hook[h].at \in {"idle", "setAside", "build", "restore", "compile", "hash", "writeHash", "compress", "open", "copy"}
         /\ hook[h].at \notin {"idle", "setAside", "build", "restore"} => hook[h].platform \in Platform
         /\ hook[h].at \in {"writeHash", "copy"} => hook[h].read \in Nat
  <1>1. hook[h] \in Stage
    OBVIOUS
  <1> QED
    BY <1>1 DEF Stage

Offers == [Platform -> [exe : Nat, md5 : Nat, archive : Nat]]

(* The goroutine of a step moves, the others stay. *)
Moves(h) == hook' \in [ReadyHook -> Stage] /\ \A k \in ReadyHook \ {h} : hook'[k] = hook[k]

LEMMA MovesTo ==
  ASSUME hook \in [ReadyHook -> Stage], NEW h \in ReadyHook, NEW s \in Stage, hook' = [hook EXCEPT ![h] = s]
  PROVE  Moves(h) /\ hook'[h] = s
  BY DEF Moves

LEMMA NextFacts ==
  ASSUME UTypeOK, NEW h \in ReadyHook, NEW p \in Platform, NextPlatform(h, p)
  PROVE  /\ Moves(h) /\ ready' \in BOOLEAN
         /\ \/ hook'[h].at = "idle" /\ p = Platforms
            \/ hook'[h].at = "compile" /\ hook'[h].platform = p + 1
  <1>0. hook \in [ReadyHook -> Stage] /\ ready \in BOOLEAN
    BY DEF UTypeOK
  <1>1. CASE p < Platforms
    <2> DEFINE s == [at |-> "compile", platform |-> p + 1]
    <2>1. hook' = [hook EXCEPT ![h] = s] /\ ready' = ready
      BY <1>1 DEF NextPlatform, Proceed
    <2>2. s \in Stage /\ s.at = "compile" /\ s.platform = p + 1
      BY <1>1, PlatformFacts DEF Stage
    <2> HIDE DEF s
    <2>3. Moves(h) /\ hook'[h] = s
      BY <1>0, <2>1, <2>2, MovesTo
    <2> QED
      BY <1>0, <2>1, <2>2, <2>3
  <1>2. CASE ~(p < Platforms)
    <2> DEFINE s == [at |-> "idle"]
    <2>1. hook' = [hook EXCEPT ![h] = s] /\ ready' = TRUE /\ p = Platforms
      BY <1>2, PlatformFacts DEF NextPlatform, Continue
    <2>2. s \in Stage /\ s.at = "idle"
      BY DEF Stage
    <2> HIDE DEF s
    <2>3. Moves(h) /\ hook'[h] = s
      BY <1>0, <2>1, <2>2, MovesTo
    <2> QED
      BY <2>1, <2>2, <2>3
  <1> QED
    BY <1>1, <1>2

(* What the steps that publish do to the goroutine and the files: all they are to,
   or what they make is spoilt.                                                    *)
LEMMA ReadHashDoes ==
  ASSUME UTypeOK, NEW h \in ReadyHook, NEW p \in Platform, NEW success \in BOOLEAN, ReadHash(h, p, success)
  PROVE  /\ hook[h].at = "hash" /\ hook[h].platform = p /\ Moves(h) /\ ready' \in BOOLEAN
         /\ UNCHANGED offered
         /\ hook'[h].at \in {"writeHash", "compress"} /\ hook'[h].platform = p
         /\ spoilt' \/ (hook'[h].at = "writeHash" /\ hook'[h].read = offered[p].exe)
  <1>0. /\ hook \in [ReadyHook -> Stage] /\ ready \in BOOLEAN /\ offered \in Offers
        /\ offered[p].exe \in Nat /\ offered[p].md5 \in Nat
    BY DEF UTypeOK, Offers
  <1>1. hook[h].at = "hash" /\ hook[h].platform = p
    BY DEF ReadHash, Publishing, AtStep
  <1>r. ~success => spoilt'
    BY DEF ReadHash, Written
  <1>2. UNCHANGED <<offered, ready>>
    BY DEF ReadHash
  <1>3. CASE success
    <2> DEFINE s == [at |-> "writeHash", platform |-> p, read |-> offered[p].exe]
    <2>1. hook' = [hook EXCEPT ![h] = s]
      BY <1>3 DEF ReadHash, Keep
    <2>2. s \in Stage /\ s.at = "writeHash" /\ s.platform = p /\ s.read = offered[p].exe
      BY <1>0 DEF Stage
    <2> HIDE DEF s
    <2>3. Moves(h) /\ hook'[h] = s
      BY <1>0, <2>1, <2>2, MovesTo
    <2> QED
      BY <1>0, <1>1, <1>2, <2>2, <2>3
  <1>4. CASE ~success
    <2> DEFINE s == [at |-> "compress", platform |-> p]
    <2>1. hook' = [hook EXCEPT ![h] = s]
      BY <1>4 DEF ReadHash, Proceed
    <2>2. s \in Stage /\ s.at = "compress" /\ s.platform = p
      BY DEF Stage
    <2> HIDE DEF s
    <2>3. Moves(h) /\ hook'[h] = s
      BY <1>0, <2>1, <2>2, MovesTo
    <2> QED
      BY <1>0, <1>1, <1>2, <1>r, <1>4, <2>2, <2>3
  <1> QED
    BY <1>3, <1>4

LEMMA WriteHashDoes ==
  ASSUME UTypeOK, NEW h \in ReadyHook, NEW p \in Platform, NEW success \in BOOLEAN, WriteHash(h, p, success)
  PROVE  /\ hook[h].at = "writeHash" /\ hook[h].platform = p /\ Moves(h) /\ ready' \in BOOLEAN
         /\ hook'[h].at = "compress" /\ hook'[h].platform = p
         /\ offered' \in Offers /\ \A q \in Platform \ {p} : offered'[q] = offered[q]
         /\ offered'[p].exe = offered[p].exe /\ offered'[p].archive = offered[p].archive
         /\ spoilt' \/ offered'[p].md5 = hook[h].read
  <1>0. /\ hook \in [ReadyHook -> Stage] /\ ready \in BOOLEAN /\ offered \in Offers
        /\ offered[p].exe \in Nat /\ offered[p].md5 \in Nat
    BY DEF UTypeOK, Offers
  <1>1. hook[h].at = "writeHash" /\ hook[h].platform = p
    BY DEF WriteHash, Publishing, AtStep
  <1>r. ~success => spoilt'
    BY DEF WriteHash, Written
  <1>2. Moves(h) /\ hook'[h].at = "compress" /\ hook'[h].platform = p
    <2> DEFINE s == [at |-> "compress", platform |-> p]
    <2>1. hook' = [hook EXCEPT ![h] = s]
      BY DEF WriteHash, Proceed
    <2>2. s \in Stage /\ s.at = "compress" /\ s.platform = p
      BY DEF Stage
    <2> HIDE DEF s
    <2>3. Moves(h) /\ hook'[h] = s
      BY <1>0, <2>1, <2>2, MovesTo
    <2> QED
      BY <2>2, <2>3
  <1>3. PICK new \in IF success THEN {hook[h].read} ELSE {offered[p].md5, Absent} : offered' = [offered EXCEPT ![p].md5 = new]
    BY DEF WriteHash
  <1>4. new \in Nat
    BY <1>0, <1>1, <1>3, StageFacts DEF Absent
  <1>5. spoilt' \/ new = hook[h].read
    BY <1>r, <1>3
  <1>6. /\ offered' \in Offers /\ (\A q \in Platform \ {p} : offered'[q] = offered[q])
        /\ offered'[p].exe = offered[p].exe /\ offered'[p].archive = offered[p].archive /\ offered'[p].md5 = new
    BY <1>0, <1>3, <1>4 DEF Offers
  <1>7. ready' \in BOOLEAN
    BY <1>0 DEF WriteHash
  <1> QED
    BY <1>1, <1>2, <1>5, <1>6, <1>7

LEMMA CreateDoes ==
  ASSUME UTypeOK, NEW h \in ReadyHook, NEW p \in Platform, NEW success \in BOOLEAN, Create(h, p, success)
  PROVE  /\ hook[h].at = "compress" /\ hook[h].platform = p /\ Moves(h) /\ ready' \in BOOLEAN
         /\ hook'[h].at \in {"open", "compile", "idle"}
         /\ offered' \in Offers /\ \A q \in Platform \ {p} : offered'[q] = offered[q]
         /\ offered'[p].exe = offered[p].exe /\ offered'[p].md5 = offered[p].md5
         /\ spoilt' \/ (hook'[h].at = "open" /\ hook'[h].platform = p)
  <1>0. /\ hook \in [ReadyHook -> Stage] /\ ready \in BOOLEAN /\ offered \in Offers
        /\ offered[p].exe \in Nat /\ offered[p].md5 \in Nat
    BY DEF UTypeOK, Offers
  <1>1. hook[h].at = "compress" /\ hook[h].platform = p
    BY DEF Create, Publishing, AtStep
  <1>r. ~success => spoilt'
    BY DEF Create, Written
  <1>3. CASE success
    <2> DEFINE s == [at |-> "open", platform |-> p]
    <2>1. hook' = [hook EXCEPT ![h] = s] /\ ready' = ready
      BY <1>3 DEF Create, Proceed
    <2>2. s \in Stage /\ s.at = "open" /\ s.platform = p
      BY DEF Stage
    <2> HIDE DEF s
    <2>3. Moves(h) /\ hook'[h] = s
      BY <1>0, <2>1, <2>2, MovesTo
    <2>4. offered' = [offered EXCEPT ![p].archive = Absent]
      BY <1>3 DEF Create
    <2>5. /\ offered' \in Offers /\ (\A q \in Platform \ {p} : offered'[q] = offered[q])
          /\ offered'[p].exe = offered[p].exe /\ offered'[p].md5 = offered[p].md5
      BY <1>0, <2>4 DEF Offers, Absent
    <2> QED
      BY <1>0, <1>1, <2>1, <2>2, <2>3, <2>5
  <1>4. CASE ~success
    <2>1. NextPlatform(h, p) /\ offered' = offered
      BY <1>4 DEF Create
    <2>2. Moves(h) /\ ready' \in BOOLEAN /\ hook'[h].at \in {"idle", "compile"}
      BY <2>1, NextFacts
    <2> QED
      BY <1>0, <1>1, <1>r, <1>4, <2>1, <2>2
  <1> QED
    BY <1>3, <1>4

LEMMA OpenDoes ==
  ASSUME UTypeOK, NEW h \in ReadyHook, NEW p \in Platform, NEW success \in BOOLEAN, Open(h, p, success)
  PROVE  /\ hook[h].at = "open" /\ hook[h].platform = p /\ Moves(h) /\ ready' \in BOOLEAN
         /\ UNCHANGED offered
         /\ hook'[h].at \in {"copy", "compile", "idle"}
         /\ spoilt' \/ (hook'[h].at = "copy" /\ hook'[h].platform = p /\ hook'[h].read = offered[p].exe)
  <1>0. /\ hook \in [ReadyHook -> Stage] /\ ready \in BOOLEAN /\ offered \in Offers
        /\ offered[p].exe \in Nat /\ offered[p].md5 \in Nat
    BY DEF UTypeOK, Offers
  <1>1. hook[h].at = "open" /\ hook[h].platform = p
    BY DEF Open, Publishing, AtStep
  <1>r. ~success => spoilt'
    BY DEF Open, Written
  <1>3. CASE success
    <2> DEFINE s == [at |-> "copy", platform |-> p, read |-> offered[p].exe]
    <2>1. hook' = [hook EXCEPT ![h] = s] /\ ready' = ready /\ offered' = offered
      BY <1>3 DEF Open, Keep
    <2>2. s \in Stage /\ s.at = "copy" /\ s.platform = p /\ s.read = offered[p].exe
      BY <1>0 DEF Stage
    <2> HIDE DEF s
    <2>3. Moves(h) /\ hook'[h] = s
      BY <1>0, <2>1, <2>2, MovesTo
    <2> QED
      BY <1>0, <1>1, <2>1, <2>2, <2>3
  <1>4. CASE ~success
    <2>1. NextPlatform(h, p) /\ offered' = offered
      BY <1>4 DEF Open
    <2>2. Moves(h) /\ ready' \in BOOLEAN /\ hook'[h].at \in {"idle", "compile"}
      BY <2>1, NextFacts
    <2> QED
      BY <1>0, <1>1, <1>r, <1>4, <2>1, <2>2
  <1> QED
    BY <1>3, <1>4

LEMMA CopyDoes ==
  ASSUME UTypeOK, NEW h \in ReadyHook, NEW p \in Platform, NEW success \in BOOLEAN, Copy(h, p, success)
  PROVE  /\ hook[h].at = "copy" /\ hook[h].platform = p /\ Moves(h) /\ ready' \in BOOLEAN
         /\ NextPlatform(h, p) /\ hook'[h].at \in {"compile", "idle"}
         /\ offered' \in Offers /\ \A q \in Platform \ {p} : offered'[q] = offered[q]
         /\ offered'[p].exe = offered[p].exe /\ offered'[p].md5 = offered[p].md5
         /\ spoilt' \/ offered'[p].archive = hook[h].read
  <1>0. /\ hook \in [ReadyHook -> Stage] /\ ready \in BOOLEAN /\ offered \in Offers
        /\ offered[p].exe \in Nat /\ offered[p].md5 \in Nat
    BY DEF UTypeOK, Offers
  <1>1. hook[h].at = "copy" /\ hook[h].platform = p
    BY DEF Copy, Publishing, AtStep
  <1>r. ~success => spoilt'
    BY DEF Copy, Written
  <1>2. NextPlatform(h, p)
    BY DEF Copy
  <1>3. Moves(h) /\ ready' \in BOOLEAN /\ hook'[h].at \in {"compile", "idle"}
    BY <1>2, NextFacts
  <1>4. CASE success
    <2>1. offered' = [offered EXCEPT ![p].archive = hook[h].read]
      BY <1>4 DEF Copy
    <2>2. hook[h].read \in Nat
      BY <1>0, <1>1, StageFacts
    <2>3. /\ offered' \in Offers /\ (\A q \in Platform \ {p} : offered'[q] = offered[q])
          /\ offered'[p].exe = offered[p].exe /\ offered'[p].md5 = offered[p].md5 /\ offered'[p].archive = hook[h].read
      BY <1>0, <2>1, <2>2 DEF Offers
    <2> QED
      BY <1>1, <1>2, <1>3, <2>3
  <1>5. CASE ~success
    <2>1. offered' = offered
      BY <1>5 DEF Copy
    <2> QED
      BY <1>0, <1>1, <1>2, <1>3, <1>r, <1>5, <2>1
  <1> QED
    BY <1>4, <1>5

LEMMA UpdateTyped == ASSUME UTypeOK, [UNext]_uvars PROVE UTypeOK'
  <1> USE DEF Absent
  <1>0. /\ [at |-> "idle"] \in Stage /\ [at |-> "setAside"] \in Stage
        /\ [at |-> "build"] \in Stage /\ [at |-> "restore"] \in Stage
        /\ \A p \in Platform : [at |-> "compile", platform |-> p] \in Stage /\ [at |-> "hash", platform |-> p] \in Stage
    BY DEF Stage
  <1> USE <1>0
  <1>1. ASSUME NEW h \in ReadyHook, OnReady(h) PROVE UTypeOK'
    <2>1. spoilt' \in BOOLEAN
      <3> DEFINE others == \E g \in ReadyHook : hook[g].at # "idle"
      <3>1. spoilt' = (spoilt /\ others)
        BY <1>1 DEF OnReady
      <3> HIDE DEF others
      <3> QED
        BY <3>1
    <2> QED
      BY <1>1, <2>1 DEF UTypeOK, OnReady, files, process
  <1>2. ASSUME NEW h \in ReadyHook, SetAside(h) PROVE UTypeOK'
    BY <1>2 DEF UTypeOK, SetAside, GivenUp, AtStep, Continue, process
  <1>3. ASSUME NEW h \in ReadyHook, Restore(h) PROVE UTypeOK'
    <2>0. 1 \in Platform
      BY PlatformFacts
    <2>1. hook' \in [ReadyHook -> Stage]
      BY <1>3, <2>0 DEF UTypeOK, Restore, Proceed
    <2>2. updater' \in Nat /\ aside' \in Nat /\ lost' \in BOOLEAN
      BY <1>3 DEF UTypeOK, Restore
    <2> QED
      BY <1>3, <2>1, <2>2 DEF UTypeOK, Restore, process
  <1>4. ASSUME NEW h \in ReadyHook, NEW success \in BOOLEAN, BuildUpdater(h, success) PROVE UTypeOK'
    <2>1. hook' \in [ReadyHook -> Stage]
      BY <1>4 DEF UTypeOK, BuildUpdater, Continue
    <2>2. updater' \in Nat /\ lost' \in BOOLEAN
      BY <1>4 DEF UTypeOK, BuildUpdater
    <2> QED
      BY <1>4, <2>1, <2>2 DEF UTypeOK, BuildUpdater, process
  <1>5. ASSUME NEW h \in ReadyHook, NEW p \in Platform, NEW success \in BOOLEAN, Compile(h, p, success) PROVE UTypeOK'
    <2>1. hook' \in [ReadyHook -> Stage]
      BY <1>5 DEF UTypeOK, Compile, Proceed
    <2>2. offered' \in [Platform -> [exe : Nat, md5 : Nat, archive : Nat]]
      BY <1>5 DEF UTypeOK, Compile
    <2>3. spoilt' \in BOOLEAN
      <3> DEFINE raced == offered'[p].exe # offered[p].exe /\ \E g \in ReadyHook : Reads(g, p)
      <3>1. spoilt' = (spoilt \/ raced)
        BY <1>5 DEF Compile
      <3> HIDE DEF raced
      <3> QED
        BY <3>1
    <2> QED
      BY <1>5, <2>1, <2>2, <2>3 DEF UTypeOK, Compile, process
  <1>7. ASSUME NEW h \in ReadyHook, NEW p \in Platform, NEW success \in BOOLEAN,
               \/ ReadHash(h, p, success) \/ WriteHash(h, p, success)
               \/ Create(h, p, success) \/ Open(h, p, success) \/ Copy(h, p, success)
        PROVE  UTypeOK'
    <2>0. Written(success) /\ offered \in Offers
      BY <1>7 DEF ReadHash, WriteHash, Create, Open, Copy, UTypeOK, Offers
    <2>1. Moves(h) /\ ready' \in BOOLEAN /\ offered' \in Offers
      <3> HIDE DEF Absent
      <3>1. CASE ReadHash(h, p, success)
        BY <2>0, <3>1, ReadHashDoes
      <3>2. CASE WriteHash(h, p, success)
        BY <3>2, WriteHashDoes
      <3>3. CASE Create(h, p, success)
        BY <3>3, CreateDoes
      <3>4. CASE Open(h, p, success)
        BY <2>0, <3>4, OpenDoes
      <3>5. CASE Copy(h, p, success)
        BY <3>5, CopyDoes
      <3> QED
        BY <1>7, <3>1, <3>2, <3>3, <3>4, <3>5
    <2>2. spoilt' \in BOOLEAN
      BY <2>0 DEF Written
    <2> QED
      BY <2>0, <2>1, <2>2 DEF UTypeOK, Written, process, Offers, Moves
  <1>8. ASSUME EndSweetie PROVE UTypeOK'
    <2>1. hook' \in [ReadyHook -> Stage]
      BY <1>8 DEF EndSweetie, Idle
    <2>2. lost' \in BOOLEAN
      BY <1>8 DEF EndSweetie, GivenUp
    <2> QED
      BY <1>8, <2>1, <2>2 DEF UTypeOK, EndSweetie, files
  <1>9. ASSUME Release \/ StartSweetie \/ CheckForUpdate PROVE UTypeOK'
    <2>1. CASE Release
      BY <2>1 DEF UTypeOK, Release, process
    <2>2. CASE StartSweetie
      BY <2>2 DEF UTypeOK, StartSweetie, files
    <2>3. CASE CheckForUpdate
      BY <2>3 DEF UTypeOK, CheckForUpdate
    <2> QED
      BY <1>9, <2>1, <2>2, <2>3
  <1>s. ASSUME StartUpdater \/ UpdaterKilled PROVE UTypeOK'
    <2>1. turn' \in {"nextSweetie", "pull"} /\ skipped' \in BOOLEAN
      BY <1>s DEF UTypeOK, StartUpdater, UpdaterKilled
    <2> HIDE DEF Absent
    <2> QED
      BY <1>s, <2>1 DEF UTypeOK, StartUpdater, UpdaterKilled, files
  <1>10. ASSUME NEW success \in BOOLEAN, Pull(success) \/ BuildSweetie(success) PROVE UTypeOK'
    <2>1. checkout' \in Nat \ {0} /\ sweetie' \in Nat \ {0} /\ skipped' \in BOOLEAN
      BY <1>10 DEF UTypeOK, Pull, BuildSweetie
    <2> QED
      BY <1>10, <2>1 DEF UTypeOK, Pull, BuildSweetie
  <1>11. ASSUME UNCHANGED uvars PROVE UTypeOK'
    BY <1>11 DEF UTypeOK, uvars
  <1> QED
    BY <1>1, <1>2, <1>3, <1>4, <1>5, <1>7, <1>8, <1>9, <1>s, <1>10, <1>11 DEF UNext, Shutdown, Killed

LEMMA StaysBuilt == ASSUME BuiltAsPulled, [UNext]_uvars PROVE BuiltAsPulled'
  <1> USE DEF BuiltAsPulled, RunsWhatWasPulled
  <1>1. ASSUME NEW h \in ReadyHook, OnReady(h) \/ SetAside(h) \/ Restore(h) PROVE BuiltAsPulled'
    BY <1>1 DEF OnReady, SetAside, Restore, files, process
  <1>2. ASSUME NEW h \in ReadyHook, NEW success \in BOOLEAN, BuildUpdater(h, success) PROVE BuiltAsPulled'
    BY <1>2 DEF BuildUpdater, process
  <1>3. ASSUME NEW h \in ReadyHook, NEW p \in Platform, NEW success \in BOOLEAN,
               \/ Compile(h, p, success) \/ ReadHash(h, p, success) \/ WriteHash(h, p, success)
               \/ Create(h, p, success) \/ Open(h, p, success) \/ Copy(h, p, success)
        PROVE  BuiltAsPulled'
    BY <1>3 DEF Compile, ReadHash, WriteHash, Create, Open, Copy, Written, process
  <1>4. ASSUME EndSweetie \/ UNCHANGED uvars PROVE BuiltAsPulled'
    BY <1>4 DEF EndSweetie, files, uvars
  <1>5. ASSUME Release \/ StartSweetie \/ CheckForUpdate \/ StartUpdater \/ UpdaterKilled PROVE BuiltAsPulled'
    BY <1>5 DEF Release, StartSweetie, CheckForUpdate, StartUpdater, UpdaterKilled, files, process
  <1>6. ASSUME NEW success \in BOOLEAN, Pull(success) \/ BuildSweetie(success) PROVE BuiltAsPulled'
    BY <1>6 DEF Pull, BuildSweetie
  <1> QED
    BY <1>1, <1>2, <1>3, <1>4, <1>5, <1>6 DEF UNext, Shutdown, Killed

LEMMA StaysAside == ASSUME UTypeOK, OneAside, [UNext]_uvars PROVE OneAside'
  <1>0. /\ hook \in [ReadyHook -> Stage]
        /\ checkout # Absent
    BY DEF UTypeOK
  (* A goroutine that is not building and does not come to build changes nothing. *)
  <1>a. ASSUME NEW h \in ReadyHook, hook[h].at \notin Midway, hook'[h].at \notin Midway,
               \A k \in ReadyHook \ {h} : hook'[k] = hook[k],
               updater' = updater, aside' = aside, lost' = lost
        PROVE  OneAside'
    BY <1>a DEF OneAside, Building
  <1>1. ASSUME NEW h \in ReadyHook, OnReady(h) PROVE OneAside'
    BY <1>0, <1>1, <1>a DEF OnReady, Midway, files
  <1>2. ASSUME NEW h \in ReadyHook, SetAside(h) PROVE OneAside'
    <2>1. hook'[h].at = "build"
      BY <1>0, <1>2 DEF SetAside, Continue
    <2>2. Building'
      BY <2>1 DEF Building, Midway
    <2>3. updater = Absent => lost'
      BY <1>2 DEF SetAside, GivenUp, OneAside
    <2> QED
      BY <1>2, <2>2, <2>3 DEF SetAside, OneAside
  <1>3. ASSUME NEW h \in ReadyHook, Restore(h) PROVE OneAside'
    <2>1. CASE updater = Absent
      <3>1. updater' = Absent => aside = Absent /\ (lost' <=> lost)
        BY <1>3, <2>1 DEF Restore
      <3> QED
        BY <2>1, <3>1 DEF OneAside
    <2>2. CASE updater # Absent
      BY <1>3, <2>2 DEF Restore, OneAside
    <2> QED
      BY <2>1, <2>2
  <1>4. ASSUME NEW h \in ReadyHook, NEW success \in BOOLEAN, BuildUpdater(h, success) PROVE OneAside'
    <2>1. hook'[h].at = "restore"
      BY <1>0, <1>4 DEF BuildUpdater, Continue
    <2>2. Building'
      BY <2>1 DEF Building, Midway
    <2>3. CASE success
      BY <1>0, <1>4, <2>3 DEF BuildUpdater, OneAside
    <2>4. CASE ~success
      <3>1. updater' = updater /\ aside' = aside /\ (lost' <=> lost)
        BY <1>4, <2>4 DEF BuildUpdater
      <3> QED
        BY <3>1, <2>2 DEF OneAside
    <2> QED
      BY <2>3, <2>4
  <1>5. ASSUME NEW h \in ReadyHook, NEW p \in Platform, NEW success \in BOOLEAN, Compile(h, p, success) PROVE OneAside'
    <2>1. hook[h].at = "compile" /\ hook'[h].at = "hash" /\ \A k \in ReadyHook \ {h} : hook'[k] = hook[k]
      BY <1>0, <1>5 DEF Compile, Publishing, AtStep, Proceed
    <2> QED
      BY <1>5, <2>1, <1>a DEF Compile, Midway
  <1>6. ASSUME NEW h \in ReadyHook, NEW p \in Platform, NEW success \in BOOLEAN,
               \/ ReadHash(h, p, success) \/ WriteHash(h, p, success)
               \/ Create(h, p, success) \/ Open(h, p, success) \/ Copy(h, p, success)
        PROVE  OneAside'
    <2>1. updater' = updater /\ aside' = aside /\ lost' = lost
      BY <1>6 DEF ReadHash, WriteHash, Create, Open, Copy, Written
    <2>2. /\ hook[h].at \in {"hash", "writeHash", "compress", "open", "copy"} /\ Moves(h)
          /\ hook'[h].at \in {"writeHash", "compress", "open", "copy", "compile", "idle"}
      <3>1. CASE ReadHash(h, p, success)
        BY <3>1, ReadHashDoes
      <3>2. CASE WriteHash(h, p, success)
        BY <3>2, WriteHashDoes
      <3>3. CASE Create(h, p, success)
        BY <3>3, CreateDoes
      <3>4. CASE Open(h, p, success)
        BY <3>4, OpenDoes
      <3>5. CASE Copy(h, p, success)
        BY <3>5, CopyDoes
      <3> QED
        BY <1>6, <3>1, <3>2, <3>3, <3>4, <3>5
    <2> QED
      BY <2>1, <2>2, <1>a DEF Midway, Moves
  <1>8. ASSUME EndSweetie PROVE OneAside'
    <2>1. updater' = Absent => lost'
      BY <1>8 DEF EndSweetie, GivenUp, OneAside, files
    <2> QED
      BY <2>1 DEF OneAside
  <1>9. ASSUME UNCHANGED <<updater, aside, hook, lost>> PROVE OneAside'
    BY <1>9 DEF OneAside, Building
  <1>10. ASSUME Release \/ StartSweetie \/ CheckForUpdate \/ StartUpdater \/ UpdaterKilled \/ UNCHANGED uvars PROVE OneAside'
    BY <1>10, <1>9 DEF Release, StartSweetie, CheckForUpdate, StartUpdater, UpdaterKilled, files, uvars
  <1>11. ASSUME NEW success \in BOOLEAN, Pull(success) \/ BuildSweetie(success) PROVE OneAside'
    BY <1>11, <1>9 DEF Pull, BuildSweetie
  <1> QED
    BY <1>1, <1>2, <1>3, <1>4, <1>5, <1>6, <1>8, <1>10, <1>11 DEF UNext, Shutdown, Killed

(* A step that leaves goroutines and programs alone leaves who sees to what. *)
LEMMA SeenToKept == ASSUME SeenTo, UNCHANGED <<hook, offered, ready, spoilt>> PROVE SeenTo'
  BY DEF SeenTo, HashFits, ArchiveFits, HashesLater, ArchivesLater, Ahead, Reads

(* A step of a goroutine that is at work: it keeps to what it is to do or does it, and
   replaces no program that another reads. *)
LEMMA SeenToWork ==
  ASSUME SeenTo, ~spoilt, NEW h \in ReadyHook, hook[h].at # "idle",
         \A k \in ReadyHook \ {h} : hook'[k] = hook[k],
         \A q \in Platform : HashFits(q) \/ HashesLater(h, q) => HashFits(q)' \/ HashesLater(h, q)',
         \A q \in Platform : ArchiveFits(q) \/ ArchivesLater(h, q) => ArchiveFits(q)' \/ ArchivesLater(h, q)',
         \A q \in Platform : Reads(h, q)' => hook'[h].read = offered'[q].exe,
         \A k \in ReadyHook \ {h}, q \in Platform : Reads(k, q) => offered'[q].exe = offered[q].exe
  PROVE  SeenTo'
  <1>1. \A k \in ReadyHook \ {h}, q \in Platform :
          (HashesLater(k, q) => HashesLater(k, q)') /\ (ArchivesLater(k, q) => ArchivesLater(k, q)')
    BY DEF HashesLater, ArchivesLater, Ahead
  <1>2. \A q \in Platform : /\ HashFits(q) \/ \E k \in ReadyHook : HashesLater(k, q)
                            /\ ArchiveFits(q) \/ \E k \in ReadyHook : ArchivesLater(k, q)
    BY DEF SeenTo
  <1>3. \A q \in Platform : /\ HashFits(q)' \/ \E k \in ReadyHook : HashesLater(k, q)'
                            /\ ArchiveFits(q)' \/ \E k \in ReadyHook : ArchivesLater(k, q)'
    <2> SUFFICES ASSUME NEW q \in Platform
                 PROVE  /\ HashFits(q)' \/ \E k \in ReadyHook : HashesLater(k, q)'
                        /\ ArchiveFits(q)' \/ \E k \in ReadyHook : ArchivesLater(k, q)'
      OBVIOUS
    <2>1. HashFits(q)' \/ \E k \in ReadyHook : HashesLater(k, q)'
      BY <1>1, <1>2
    <2>2. ArchiveFits(q)' \/ \E k \in ReadyHook : ArchivesLater(k, q)'
      BY <1>1, <1>2
    <2> QED
      BY <2>1, <2>2
  <1>4. \A k \in ReadyHook, q \in Platform : Reads(k, q)' => hook'[k].read = offered'[q].exe
    <2> SUFFICES ASSUME NEW k \in ReadyHook \ {h}, NEW q \in Platform, Reads(k, q)' PROVE hook'[k].read = offered'[q].exe
      OBVIOUS
    <2>1. hook'[k] = hook[k]
      OBVIOUS
    <2>2. Reads(k, q)
      BY <2>1 DEF Reads
    <2> QED
      BY <2>1, <2>2 DEF SeenTo
  <1> QED
    BY <1>3, <1>4 DEF SeenTo

(* The steps before the first platform, and of a program. *)
LEMMA SeenToBuilding ==
  ASSUME UTypeOK, SeenTo, ~spoilt, NEW h \in ReadyHook, NEW success \in BOOLEAN,
         SetAside(h) \/ BuildUpdater(h, success) \/ Restore(h)
  PROVE  SeenTo'
  <1>0. hook \in [ReadyHook -> Stage]
    BY DEF UTypeOK
  <1>1. /\ hook[h].at \in {"setAside", "build", "restore"} /\ UNCHANGED offered
        /\ \A k \in ReadyHook \ {h} : hook'[k] = hook[k]
    BY <1>0 DEF SetAside, BuildUpdater, Restore, AtStep, Continue, Proceed
  <1>2. hook'[h] \in {[at |-> "build"], [at |-> "restore"], [at |-> "compile", platform |-> 1]}
    BY <1>0 DEF SetAside, BuildUpdater, Restore, Continue, Proceed
  <1>3. \A q \in Platform : Ahead(h, q)' /\ ~Reads(h, q)'
    <2> SUFFICES ASSUME NEW q \in Platform PROVE Ahead(h, q)' /\ ~Reads(h, q)'
      OBVIOUS
    <2>1. q \in Nat /\ q >= 1
      BY PlatformFacts DEF Platform
    <2>2. CASE hook'[h].at \in {"build", "restore"}
      BY <2>2 DEF Ahead, Reads
    <2>3. CASE hook'[h] = [at |-> "compile", platform |-> 1]
      BY <2>1, <2>3 DEF Ahead, Reads
    <2> QED
      BY <1>2, <2>2, <2>3
  <1> QED
    BY <1>1, <1>3, SeenToWork DEF HashesLater, ArchivesLater

LEMMA SeenToCompile ==
  ASSUME UTypeOK, SeenTo, ~spoilt', NEW h \in ReadyHook, NEW p \in Platform, NEW success \in BOOLEAN, Compile(h, p, success)
  PROVE  SeenTo'
  <1>1. /\ hook[h].at = "compile" /\ hook[h].platform = p
        /\ hook'[h] = [at |-> "hash", platform |-> p] /\ (\A k \in ReadyHook \ {h} : hook'[k] = hook[k])
        /\ \A q \in Platform \ {p} : offered'[q] = offered[q]
    BY DEF Compile, Publishing, AtStep, Proceed, UTypeOK
  <1>2. ~spoilt /\ (offered'[p].exe # offered[p].exe => \A g \in ReadyHook : ~Reads(g, p))
    BY DEF Compile
  <1>3. HashesLater(h, p)' /\ ArchivesLater(h, p)' /\ \A q \in Platform : ~Reads(h, q)'
    BY <1>1 DEF HashesLater, ArchivesLater, Reads
  <1>4. \A q \in Platform \ {p} : /\ HashFits(q) \/ HashesLater(h, q) => HashFits(q)' \/ HashesLater(h, q)'
                                  /\ ArchiveFits(q) \/ ArchivesLater(h, q) => ArchiveFits(q)' \/ ArchivesLater(h, q)'
    BY <1>1 DEF HashFits, ArchiveFits, HashesLater, ArchivesLater, Ahead
  <1>5. \A k \in ReadyHook \ {h}, q \in Platform : Reads(k, q) => offered'[q].exe = offered[q].exe
    BY <1>1, <1>2
  <1> QED
    BY <1>1, <1>2, <1>3, <1>4, <1>5, SeenToWork

(* What a goroutine that goes on to the next platform was to do elsewhere, it still is. *)
LEMMA OnToNext ==
  ASSUME UTypeOK, NEW h \in ReadyHook, NEW p \in Platform, NextPlatform(h, p),
         hook[h].at = "copy", hook[h].platform = p, NEW q \in Platform
  PROVE  (Ahead(h, q) => Ahead(h, q)') /\ ~Reads(h, q)'
  <1>1. \/ hook'[h].at = "idle" /\ p = Platforms
        \/ hook'[h].at = "compile" /\ hook'[h].platform = p + 1
    BY NextFacts
  <1>2. p \in Nat /\ q \in Nat /\ q <= Platforms /\ Platforms \in Nat
    BY PlatformFacts
  <1>3. Ahead(h, q) => p < q
    BY DEF Ahead
  <1>4. CASE hook'[h].at = "idle" /\ p = Platforms
    BY <1>2, <1>3, <1>4 DEF Reads
  <1>5. CASE hook'[h].at = "compile" /\ hook'[h].platform = p + 1
    <2>2. p < q => p + 1 < q \/ p + 1 = q
      BY <1>2
    <2> QED
      BY <1>3, <1>5, <2>2 DEF Ahead, Reads
  <1> QED
    BY <1>1, <1>4, <1>5

(* The steps of the hash and of the archive, when none is refused. *)
LEMMA SeenToPublish ==
  ASSUME UTypeOK, SeenTo, ~spoilt', NEW h \in ReadyHook, NEW p \in Platform, NEW success \in BOOLEAN,
         \/ ReadHash(h, p, success) \/ WriteHash(h, p, success)
         \/ Create(h, p, success) \/ Open(h, p, success) \/ Copy(h, p, success)
  PROVE  SeenTo'
  <1>1. ~spoilt
    BY DEF ReadHash, WriteHash, Create, Open, Copy, Written
  <1> USE DEF HashFits, ArchiveFits
  <1>3. CASE ReadHash(h, p, success)
    <2>1. /\ hook[h].at = "hash" /\ hook[h].platform = p /\ UNCHANGED offered /\ Moves(h)
          /\ hook'[h].at = "writeHash" /\ hook'[h].platform = p /\ hook'[h].read = offered[p].exe
      BY <1>3, ReadHashDoes
    <2>2. \A q \in Platform : (HashesLater(h, q) => HashesLater(h, q)') /\ (ArchivesLater(h, q) => ArchivesLater(h, q)')
      BY <2>1 DEF HashesLater, ArchivesLater, Ahead
    <2>3. \A q \in Platform : Reads(h, q)' => hook'[h].read = offered'[q].exe
      BY <2>1 DEF Reads
    <2> QED
      BY <1>1, <2>1, <2>2, <2>3, SeenToWork DEF Moves
  <1>4. CASE WriteHash(h, p, success)
    <2>1. /\ hook[h].at = "writeHash" /\ hook[h].platform = p /\ Moves(h)
          /\ hook'[h].at = "compress" /\ hook'[h].platform = p
          /\ \A q \in Platform \ {p} : offered'[q] = offered[q]
          /\ offered'[p].exe = offered[p].exe /\ offered'[p].archive = offered[p].archive
          /\ offered'[p].md5 = hook[h].read
      BY <1>4, WriteHashDoes
    <2>2. hook[h].read = offered[p].exe
      BY <1>1, <2>1 DEF SeenTo, Reads
    <2>3. \A q \in Platform \ {p} : HashesLater(h, q) => HashesLater(h, q)'
      BY <2>1 DEF HashesLater, Ahead
    <2>4. \A q \in Platform : (ArchivesLater(h, q) => ArchivesLater(h, q)') /\ ~Reads(h, q)'
      BY <2>1 DEF ArchivesLater, HashesLater, Ahead, Reads
    <2> QED
      BY <1>1, <2>1, <2>2, <2>3, <2>4, SeenToWork DEF Moves
  <1>5. CASE Create(h, p, success)
    <2>1. /\ hook[h].at = "compress" /\ hook[h].platform = p /\ Moves(h)
          /\ hook'[h].at = "open" /\ hook'[h].platform = p
          /\ \A q \in Platform \ {p} : offered'[q] = offered[q]
          /\ offered'[p].exe = offered[p].exe /\ offered'[p].md5 = offered[p].md5
      BY <1>5, CreateDoes
    <2>3. \A q \in Platform : /\ HashesLater(h, q) => HashesLater(h, q)'
                              /\ ArchivesLater(h, q) => ArchivesLater(h, q)'
                              /\ ~Reads(h, q)'
      BY <2>1 DEF ArchivesLater, HashesLater, Ahead, Reads
    <2>4. ArchivesLater(h, p)'
      BY <2>1 DEF ArchivesLater
    <2> QED
      BY <1>1, <2>1, <2>3, <2>4, SeenToWork DEF Moves
  <1>6. CASE Open(h, p, success)
    <2>1. /\ hook[h].at = "open" /\ hook[h].platform = p /\ UNCHANGED offered /\ Moves(h)
          /\ hook'[h].at = "copy" /\ hook'[h].platform = p /\ hook'[h].read = offered[p].exe
      BY <1>6, OpenDoes
    <2>2. \A q \in Platform : (HashesLater(h, q) => HashesLater(h, q)') /\ (ArchivesLater(h, q) => ArchivesLater(h, q)')
      BY <2>1 DEF HashesLater, ArchivesLater, Ahead
    <2>3. \A q \in Platform : Reads(h, q)' => hook'[h].read = offered'[q].exe
      BY <2>1 DEF Reads
    <2> QED
      BY <1>1, <2>1, <2>2, <2>3, SeenToWork DEF Moves
  <1>7. CASE Copy(h, p, success)
    <2>1. /\ hook[h].at = "copy" /\ hook[h].platform = p /\ Moves(h) /\ NextPlatform(h, p)
          /\ \A q \in Platform \ {p} : offered'[q] = offered[q]
          /\ offered'[p].exe = offered[p].exe /\ offered'[p].md5 = offered[p].md5
          /\ offered'[p].archive = hook[h].read
      BY <1>7, CopyDoes
    <2>2. hook[h].read = offered[p].exe
      BY <1>1, <2>1 DEF SeenTo, Reads
    <2>5. \A q \in Platform : (Ahead(h, q) => Ahead(h, q)') /\ ~Reads(h, q)'
      BY <2>1, OnToNext
    <2>6. \A q \in Platform : /\ HashesLater(h, q) => Ahead(h, q)
                              /\ q # p /\ ArchivesLater(h, q) => Ahead(h, q)
      BY <2>1 DEF HashesLater, ArchivesLater
    <2>7. \A q \in Platform : Ahead(h, q)' => HashesLater(h, q)' /\ ArchivesLater(h, q)'
      BY DEF HashesLater, ArchivesLater
    <2> QED
      BY <1>1, <2>1, <2>2, <2>5, <2>6, <2>7, SeenToWork DEF Moves
  <1> QED
    BY <1>3, <1>4, <1>5, <1>6, <1>7

LEMMA StaysSeenTo == ASSUME UTypeOK, SeenTo, [UNext]_uvars PROVE SeenTo'
  <1>0. hook \in [ReadyHook -> Stage]
    BY DEF UTypeOK
  <1>. SUFFICES ASSUME ~spoilt' PROVE SeenTo'
    BY DEF SeenTo
  (* The first Ready after what was spoilt does everything again. *)
  <1>1. ASSUME NEW h \in ReadyHook, OnReady(h) PROVE SeenTo'
    <2>1. /\ hook[h].at = "idle" /\ hook'[h] = [at |-> "setAside"] /\ UNCHANGED <<offered, ready>>
          /\ \A k \in ReadyHook \ {h} : hook'[k] = hook[k]
      BY <1>0, <1>1 DEF OnReady, files
    <2>2. \A q \in Platform : Ahead(h, q)' /\ ~Reads(h, q)'
      BY <2>1 DEF Ahead, Reads
    <2>3. \A q \in Platform : HashesLater(h, q)' /\ ArchivesLater(h, q)'
      BY <2>2 DEF HashesLater, ArchivesLater
    <2>4. ~spoilt \/ \A k \in ReadyHook : hook[k].at = "idle"
      BY <1>1 DEF OnReady
    <2>5. \A k \in ReadyHook \ {h}, q \in Platform : Reads(k, q)' => hook'[k].read = offered'[q].exe
      <3> SUFFICES ASSUME NEW k \in ReadyHook \ {h}, NEW q \in Platform, Reads(k, q)' PROVE hook'[k].read = offered'[q].exe
        OBVIOUS
      <3>1. hook'[k] = hook[k] /\ offered' = offered
        BY <2>1
      <3>2. Reads(k, q) /\ hook[k].at # "idle"
        BY <3>1 DEF Reads
      <3> QED
        BY <2>4, <3>1, <3>2 DEF SeenTo
    <2> QED
      BY <2>2, <2>3, <2>5 DEF SeenTo
  <1>2. ASSUME NEW h \in ReadyHook, NEW success \in BOOLEAN,
               SetAside(h) \/ BuildUpdater(h, success) \/ Restore(h)
        PROVE  SeenTo'
    <2>1. spoilt' = spoilt
      BY <1>2 DEF SetAside, BuildUpdater, Restore
    <2> QED
      BY <1>2, <2>1, SeenToBuilding
  <1>4. ASSUME EndSweetie PROVE SeenTo'
    <2>1. ready' = FALSE /\ \A h \in ReadyHook : hook'[h].at = "idle"
      BY <1>4 DEF EndSweetie, Idle
    <2> QED
      BY <2>1 DEF SeenTo, Reads
  <1>5. ASSUME Release \/ StartSweetie \/ CheckForUpdate \/ StartUpdater \/ UpdaterKilled \/ UNCHANGED uvars PROVE SeenTo'
    BY <1>5, SeenToKept DEF Release, StartSweetie, CheckForUpdate, StartUpdater, UpdaterKilled, files, uvars
  <1>6. ASSUME NEW success \in BOOLEAN, Pull(success) \/ BuildSweetie(success) PROVE SeenTo'
    BY <1>6, SeenToKept DEF Pull, BuildSweetie
  <1> QED
    BY <1>1, <1>2, <1>4, <1>5, <1>6, SeenToCompile, SeenToPublish DEF UNext, Shutdown, Killed

-----------------------------------------------------------------------------
(* What was released arrives, here and where it is downloaded, for any number   *)
(* of platforms, releases, failures and Readys at a time, each step of a hash or *)
(* archive apart: sweetie is built from what was pulled, the updater comes back, *)
(* what is offered is whole unless a write was refused or two Readys raced over  *)
(* a program (SelfUpdate, WriteMD5, DoUpdate, run.sh).                           *)
THEOREM UpdatesAlwaysArrive == USpec => []UpdatesArrive
  <1>1. UInit => UpdateInv
    <2> SUFFICES ASSUME UInit PROVE UpdateInv
      OBVIOUS
    <2>0. [at |-> "idle"] \in Stage /\ [exe |-> 1, md5 |-> 1, archive |-> 1] \in [exe : Nat, md5 : Nat, archive : Nat]
      BY DEF Stage
    <2>1. UTypeOK
      <3>1. hook \in [ReadyHook -> Stage] /\ offered \in [Platform -> [exe : Nat, md5 : Nat, archive : Nat]]
        BY <2>0 DEF UInit, Idle
      <3>2. remote = 1 /\ checkout = 1 /\ sweetie = 1 /\ updater = 1 /\ aside = 0
        BY DEF UInit, Absent
      <3>3. turn = "nextSweetie" /\ leaving = FALSE /\ skipped = FALSE /\ lost = FALSE /\ ready = FALSE /\ spoilt = FALSE
        BY DEF UInit
      <3>4. /\ turn \in {"nextSweetie", "sweetie", "nextUpdater", "pull", "build"}
            /\ leaving \in BOOLEAN /\ skipped \in BOOLEAN /\ lost \in BOOLEAN /\ ready \in BOOLEAN /\ spoilt \in BOOLEAN
        BY <3>3
      <3>5. /\ remote \in Nat \ {Absent} /\ checkout \in Nat \ {Absent} /\ sweetie \in Nat \ {Absent}
            /\ updater \in Nat /\ aside \in Nat
        BY <3>2 DEF Absent
      <3> QED
        BY <3>1, <3>4, <3>5 DEF UTypeOK
    <2>2. BuiltAsPulled /\ OneAside
      <3>1. sweetie = checkout /\ turn = "nextSweetie" /\ updater = 1
        BY DEF UInit
      <3> QED
        BY <3>1 DEF BuiltAsPulled, RunsWhatWasPulled, OneAside, Absent
    <2>3. SeenTo
      BY DEF UInit, SeenTo, Reads, Idle, HashFits, ArchiveFits
    <2> QED
      BY <2>1, <2>2, <2>3 DEF UpdateInv
  <1>2. UpdateInv /\ [UNext]_uvars => UpdateInv'
    BY UpdateTyped, StaysBuilt, StaysAside, StaysSeenTo DEF UpdateInv
  <1>3. UpdateInv => UpdatesArrive
    <2> SUFFICES ASSUME UpdateInv PROVE UpdaterStays /\ OfferedIsWhole
      BY DEF UpdateInv, BuiltAsPulled, UpdatesArrive
    <2>1. UpdaterStays
      BY DEF UpdateInv, OneAside, UpdaterStays
    <2>2. OfferedIsWhole
      <3>1. \A h \in ReadyHook, p \in Platform : hook[h].at = "idle" => ~HashesLater(h, p) /\ ~ArchivesLater(h, p)
        BY DEF HashesLater, ArchivesLater, Ahead
      <3> QED
        BY <3>1 DEF UpdateInv, SeenTo, OfferedIsWhole, HashFits, ArchiveFits
    <2> QED
      BY <2>1, <2>2
  <1> QED
    BY <1>1, <1>2, <1>3, PTL DEF USpec

-----------------------------------------------------------------------------
(* Commands and events *)

Before == {"command", "alias", "setup", "hooks", "permission", "run", "unknown"}
Sent == asked.kind \in {"command", "message", "update", "delete"}

(* The modules that may hear of the event. *)
Hearing == called \subseteq IF Sent THEN Hooks(asked.channel) ELSE Hooks("")

(* The server is found; without one, the command was named as one that needs none. *)
Placed == info \in {"this", "empty"} /\ (info = "empty" => Independent)

(* The command found is the one that was meant, its channels were looked up. *)
Ignored == ~asked.private /\ (checkOnCommand \/ Excluded(CommandChannels(Meant), asked.channel))
Judged == Placed /\ command = Meant /\ (ignored <=> Ignored)

Steps ==
  /\ step \in Before \cup {"done", asked.kind}
  /\ asked.kind # "command" => step \in {asked.kind, "done"} /\ outcome = ""
  /\ step \in Before => outcome = "" /\ asked.kind = "command"
  /\ step = "command" /\ ~asked.private => info = "this"
  /\ step \in Before \ {"command"} => Placed
  /\ step \in {"setup", "hooks"} => command = Meant
  /\ step \in {"permission", "run"} => Judged
  /\ step = "run" => UserCanUseCommand(command)
  /\ step = "unknown" => asked.typed \notin {"pick", "p"}

(* What an outcome says of the way to it. *)
Outcomes ==
  /\ outcome \in {"", "ran", "silent", "refused", "invalid", "told"}
  /\ outcome = "ran" => Judged /\ UserCanUseCommand(command)
  /\ outcome = "refused" => Judged /\ ~UserCanUseCommand(command) /\ ~Silently(command)
  /\ outcome = "silent" => asked.typed \notin {"pick", "p"} \/ (Judged /\ ~UserCanUseCommand(command) /\ Silently(command))

DispatchInv == asked \in Requests \cup Events /\ Hearing /\ Steps /\ Outcomes

LEMMA KindsOfEvents ==
  ASSUME asked \in Requests \cup Events
  PROVE  /\ asked.kind = "command" \/ asked.kind \in {"message", "update", "delete", "ban", "unban", "roleDelete", "guild"}
         /\ asked.channel # ""
  BY DispatchAssumption

(* The hooks that were called are among those that may be. *)
LEMMA SomeHooks == ASSUME NEW c PROVE \A S \in Asked(c) : S \subseteq Hooks(c)
  BY DEF Asked

(* A step that changes none of what a judgement rests on. *)
LEMMA JudgementKept ==
  ASSUME UNCHANGED <<asked, info, command, ignored>>
  PROVE  /\ Judged' <=> Judged
         /\ UserCanUseCommand(command)' <=> UserCanUseCommand(command)
         /\ Silently(command)' <=> Silently(command)
         /\ Placed' <=> Placed
         /\ Meant' = Meant
  BY DEF Judged, UserCanUseCommand, Silently, Placed, Meant, Ignored, checkOnCommand, Hooks, ProcessModule, Excluded,
         CommandChannels, CommandRoles, CommandDisabled, OnMainGuild, Ruled, UserIsAdmin, UserIsMod, UserHasRole,
         UserHasAnyRole, Independent

LEMMA HearingKept == ASSUME Hearing, UNCHANGED <<asked, called>> PROVE Hearing'
  BY DEF Hearing, Sent, Hooks, ProcessModule, Excluded

(* A command by its own name, or by the alias of pick. *)
LEMMA NamesMean ==
  /\ "pick" \in Commands /\ "p" \notin Commands /\ "" \notin Commands /\ "blank" \notin Commands
  /\ Aliases["p"] = "pick" /\ Aliases["blank"] = "" /\ DOMAIN Aliases = {"p", "blank"}
  BY DEF Commands, Aliases

LEMMA StepServer ==
  ASSUME asked \in Requests \cup Events, Steps, Outcomes, FindServer \/ OnServer
  PROVE  Steps' /\ Outcomes'
  <1>0. step = "command" /\ asked' = asked /\ command' = command /\ ignored' = ignored /\ asked.kind = "command"
    BY DEF FindServer, OnServer, Steps, Before
  <1>1. CASE step' = "alias"
    <2>1. outcome' = outcome /\ outcome = ""
      BY <1>0, <1>1 DEF FindServer, OnServer, Steps, Before
    <2>2. info' \in {"this", "empty"} /\ (info' = "empty" => Independent)
      BY <1>0, <1>1 DEF FindServer, OnServer, Steps
    <2>3. Placed'
      BY <1>0, <2>2 DEF Placed, Independent
    <2> QED
      BY <1>0, <1>1, <2>1, <2>3 DEF Steps, Outcomes, Before
  <1>2. CASE step' # "alias"
    <2>1. step' = "done" /\ outcome' = "told"
      BY <1>2 DEF FindServer, OnServer
    <2> QED
      BY <1>0, <2>1 DEF Steps, Outcomes, Before
  <1> QED
    BY <1>1, <1>2

LEMMA StepAlias ==
  ASSUME asked \in Requests \cup Events, Steps, Outcomes, ResolveAlias
  PROVE  Steps' /\ Outcomes'
  <1>0. /\ step = "alias" /\ asked' = asked /\ info' = info /\ ignored' = ignored
        /\ asked.kind = "command" /\ Placed /\ outcome = ""
    BY DEF ResolveAlias, Steps, Before
  <1>1. Placed'
    BY <1>0 DEF Placed, Independent
  <1> DEFINE name == IF asked.typed \notin KnownCommands /\ asked.typed \in KnownAliases THEN Aliases[asked.typed] ELSE asked.typed
  <1>2. KnownCommands = Commands /\ (KnownAliases = DOMAIN Aliases \/ asked.typed \in Commands)
    BY <1>0 DEF Placed, Independent, KnownCommands, KnownAliases
  <1>3. name \in Commands => name = Meant
    BY <1>2, NamesMean DEF Meant
  <1>4. asked.typed \in {"pick", "p"} => name \in Commands
    BY <1>2, NamesMean
  <1>5. \/ name \in Commands /\ command' = name /\ step' = "setup" /\ outcome' = outcome
        \/ name \notin Commands /\ step' = "done" /\ outcome' = "told"
        \/ name \notin Commands /\ step' = "unknown" /\ outcome' = outcome
    BY <1>2 DEF ResolveAlias
  <1> HIDE DEF name
  <1>6. CASE name \in Commands /\ command' = name /\ step' = "setup" /\ outcome' = outcome
    <2>1. command' = Meant'
      BY <1>0, <1>3, <1>6 DEF Meant
    <2> QED
      BY <1>0, <1>1, <1>6, <2>1 DEF Steps, Outcomes, Before
  <1>7. CASE name \notin Commands /\ step' = "done" /\ outcome' = "told"
    BY <1>0, <1>7 DEF Steps, Outcomes, Before
  <1>8. CASE name \notin Commands /\ step' = "unknown" /\ outcome' = outcome
    BY <1>0, <1>1, <1>4, <1>8 DEF Steps, Outcomes, Before
  <1> QED
    BY <1>5, <1>6, <1>7, <1>8

LEMMA StepCheckChannel ==
  ASSUME asked \in Requests \cup Events, Steps, Outcomes, CheckChannel
  PROVE  Steps' /\ Outcomes'
  <1>0. /\ step = "hooks" /\ step' = "permission" /\ UNCHANGED <<asked, info, command, outcome>>
        /\ asked.kind = "command" /\ Placed /\ outcome = "" /\ command = Meant
    BY DEF CheckChannel, Steps, Before
  <1>1. ignored' <=> Ignored
    BY <1>0 DEF CheckChannel, Ignored
  <1>2. (Ignored' <=> Ignored) /\ Placed' /\ Meant' = Meant
    BY <1>0 DEF Ignored, checkOnCommand, Hooks, ProcessModule, Excluded, CommandChannels, Ruled, Placed, Independent, Meant
  <1>3. Judged'
    BY <1>0, <1>1, <1>2 DEF Judged
  <1> QED
    BY <1>0, <1>2, <1>3 DEF Steps, Outcomes, Before, Judged

LEMMA StepJudged ==
  ASSUME asked \in Requests \cup Events, Steps, Outcomes, RequireSetup \/ CheckPermission \/ Run
  PROVE  Steps' /\ Outcomes'
  <1>0. UNCHANGED <<asked, info, command, ignored>>
    BY DEF RequireSetup, CheckPermission, Run
  <1>1. /\ Judged' <=> Judged
        /\ UserCanUseCommand(command)' <=> UserCanUseCommand(command)
        /\ Silently(command)' <=> Silently(command)
        /\ Placed' <=> Placed
        /\ Meant' = Meant
    BY <1>0, JudgementKept
  <1>2. CASE RequireSetup
    <2>1. step = "setup" /\ outcome = "" /\ asked.kind = "command" /\ Placed /\ command = Meant
      BY <1>2 DEF RequireSetup, Steps, Before
    <2>2. (step' = "hooks" /\ outcome' = "") \/ (step' = "done" /\ outcome' = "told")
      BY <1>2, <2>1 DEF RequireSetup
    <2> QED
      BY <1>0, <1>1, <2>1, <2>2 DEF Steps, Outcomes, Before
  <1>3. CASE CheckPermission
    <2>1. step = "permission" /\ outcome = "" /\ asked.kind = "command" /\ Judged /\ Placed
      BY <1>3 DEF CheckPermission, Steps, Before, Judged
    <2>2. \/ step' = "run" /\ outcome' = "" /\ UserCanUseCommand(command)
          \/ step' = "done" /\ outcome' = "silent" /\ ~UserCanUseCommand(command) /\ Silently(command)
          \/ step' = "done" /\ outcome' = "refused" /\ ~UserCanUseCommand(command) /\ ~Silently(command)
      BY <1>3, <2>1 DEF CheckPermission
    <2> QED
      BY <1>0, <1>1, <2>1, <2>2 DEF Steps, Outcomes, Before
  <1>4. CASE Run
    <2>1. step = "run" /\ asked.kind = "command" /\ Judged /\ UserCanUseCommand(command)
      BY <1>4 DEF Run, Steps, Before
    <2>2. step' = "done" /\ outcome' = "ran"
      BY <1>4 DEF Run
    <2> QED
      BY <1>0, <1>1, <2>1, <2>2 DEF Steps, Outcomes, Before
  <1> QED
    BY <1>2, <1>3, <1>4

LEMMA StepUnknown ==
  ASSUME asked \in Requests \cup Events, Steps, Outcomes, Unknown
  PROVE  Steps' /\ Outcomes'
  <1>1. /\ step = "unknown" /\ step' = "done" /\ asked' = asked /\ outcome' \in {"invalid", "silent"}
        /\ asked.kind = "command" /\ asked.typed \notin {"pick", "p"}
    BY DEF Unknown, Steps, Before
  <1> QED
    BY <1>1 DEF Steps, Outcomes, Before

LEMMA StepEvent ==
  ASSUME asked \in Requests \cup Events, Steps, Outcomes,
         MessageUpdate \/ MessageDelete \/ MessageToModules \/ GuildEvent \/ GuildUpdate
  PROVE  Steps' /\ Outcomes'
  <1>1. step' = "done" /\ UNCHANGED <<asked, info, command, ignored, outcome>>
    BY DEF MessageUpdate, MessageDelete, MessageToModules, GuildEvent, GuildUpdate
  <1>2. step \in {"update", "delete", "message", "ban", "unban", "roleDelete", "guild"}
    BY DEF MessageUpdate, MessageDelete, MessageToModules, GuildEvent, GuildUpdate
  <1>3. step \notin Before /\ asked.kind # "command" /\ outcome = ""
    BY <1>2, KindsOfEvents DEF Steps, Before
  <1> QED
    BY <1>1, <1>3 DEF Steps, Outcomes, Before

LEMMA StepHearing == ASSUME asked \in Requests \cup Events, Steps, Hearing, [PNext]_pvars PROVE Hearing'
  <1>0. /\ asked.kind = "command" \/ asked.kind \in {"message", "update", "delete", "ban", "unban", "roleDelete", "guild"}
        /\ step \in {"unknown", "hooks"} => asked.kind = "command"
        /\ step \notin Before \cup {"done"} => step = asked.kind
    BY KindsOfEvents DEF Steps, Before
  <1>1. CASE Unknown \/ CheckChannel
    <2>1. asked' = asked /\ asked.kind = "command" /\ called' \subseteq Hooks(asked.channel)
      BY <1>0, <1>1, SomeHooks DEF Unknown, CheckChannel
    <2> QED
      BY <2>1 DEF Hearing, Sent, Hooks, ProcessModule, Excluded
  <1>2. CASE MessageUpdate \/ MessageDelete \/ MessageToModules
    <2>1. asked' = asked /\ asked.kind \in {"update", "delete", "message"} /\ called' \subseteq Hooks(asked.channel)
      BY <1>0, <1>2 DEF MessageUpdate, MessageDelete, MessageToModules, Before
    <2> QED
      BY <2>1 DEF Hearing, Sent, Hooks, ProcessModule, Excluded
  <1>3. CASE GuildEvent \/ GuildUpdate
    <2>1. asked' = asked /\ asked.kind \in {"ban", "unban", "roleDelete", "guild"} /\ called' \subseteq Hooks("")
      BY <1>0, <1>3 DEF GuildEvent, GuildUpdate, Before
    <2> QED
      BY <2>1 DEF Hearing, Sent, Hooks, ProcessModule, Excluded
  <1>4. CASE FindServer \/ OnServer \/ ResolveAlias \/ RequireSetup \/ CheckPermission \/ Run \/ UNCHANGED pvars
    BY <1>4, HearingKept DEF FindServer, OnServer, ResolveAlias, RequireSetup, CheckPermission, Run, pvars
  <1> QED
    BY <1>1, <1>2, <1>3, <1>4 DEF PNext

LEMMA DispatchStep == ASSUME DispatchInv, [PNext]_pvars PROVE DispatchInv'
  <1>0. asked \in Requests \cup Events /\ Steps /\ Outcomes /\ Hearing
    BY DEF DispatchInv
  <1>1. asked' = asked
    BY DEF PNext, FindServer, OnServer, ResolveAlias, RequireSetup, CheckPermission, Run, Unknown, CheckChannel,
           MessageUpdate, MessageDelete, MessageToModules, GuildEvent, GuildUpdate, pvars
  <1>2. CASE UNCHANGED pvars
    <2>1. UNCHANGED <<asked, info, command, ignored, step, outcome>>
      BY <1>2 DEF pvars
    <2>2. Steps' /\ Outcomes'
      BY <1>0, <2>1, JudgementKept DEF Steps, Outcomes, Before
    <2> QED
      BY <1>0, <1>1, <2>2, StepHearing DEF DispatchInv
  <1>3. CASE PNext
    <2>1. Steps' /\ Outcomes'
      BY <1>0, <1>3, StepServer, StepAlias, StepCheckChannel, StepJudged, StepUnknown, StepEvent DEF PNext
    <2> QED
      BY <1>0, <1>1, <2>1, StepHearing DEF DispatchInv
  <1> QED
    BY <1>2, <1>3

(* A channel of a list without "!", or one outside a list with it. *)
LEMMA ListExcludes ==
  ASSUME NEW list, NEW c
  PROVE  Excluded(list, c) <=> (list # {} /\ (("!" \in list) <=> (c \in list)))
  BY DEF Excluded

LEMMA RanByRule ==
  ASSUME Judged, UserCanUseCommand(command)
  PROVE  LET ruled == info = "this" /\ Meant = asked.ruled
             listed == asked.commandChannels # {}
             here == asked.channel \in asked.commandChannels
             barred == ruled /\ ~asked.private /\ listed /\ ("!" \in asked.commandChannels <=> here)
         IN  /\ ruled /\ asked.disabled => (asked.who = "owner" \/ (asked.who = "admin" /\ asked.cached))
             /\ asked.restricted => asked.who = "owner"
             /\ barred => (Special \/ (asked.hasModRole /\ "mods" \in asked.roles))
             /\ (ruled /\ asked.commandRoles = {"trusted"}) => (Special \/ "trusted" \in asked.roles)
  <1> USE DEF Special
  <1>0. command = Meant /\ (ignored <=> Ignored)
    BY DEF Judged
  <1> SUFFICES ASSUME asked.who # "owner"
               PROVE  LET ruled == info = "this" /\ Meant = asked.ruled
                          listed == asked.commandChannels # {}
                          here == asked.channel \in asked.commandChannels
                          barred == ruled /\ ~asked.private /\ listed /\ ("!" \in asked.commandChannels <=> here)
                      IN  /\ ruled /\ asked.disabled => asked.who = "admin" /\ asked.cached
                          /\ ~asked.restricted
                          /\ barred => (Special \/ (asked.hasModRole /\ "mods" \in asked.roles))
                          /\ (ruled /\ asked.commandRoles = {"trusted"}) => (Special \/ "trusted" \in asked.roles)
    OBVIOUS
  <1>1. ~asked.restricted /\ (UserIsAdmin \/ ~CommandDisabled(command))
    BY DEF UserCanUseCommand
  <1>2. UserIsAdmin \/ asked.who = "self" \/ ((ignored => UserIsMod) /\ UserHasAnyRole(CommandRoles(command)))
    BY DEF UserCanUseCommand
  <1>3. UserIsAdmin => asked.who = "admin" /\ asked.cached
    BY DEF UserIsAdmin
  <1>4. ASSUME info = "this", Meant = asked.ruled, asked.disabled PROVE asked.who = "admin" /\ asked.cached
    BY <1>0, <1>1, <1>3, <1>4 DEF CommandDisabled, Ruled
  <1>5. ASSUME info = "this", Meant = asked.ruled, ~asked.private, asked.commandChannels # {},
               ("!" \in asked.commandChannels) <=> (asked.channel \in asked.commandChannels), ~Special
        PROVE  asked.hasModRole /\ "mods" \in asked.roles
    <2>1. CommandChannels(Meant) = asked.commandChannels
      BY <1>5 DEF CommandChannels, Ruled
    <2>2. ignored
      BY <1>0, <1>5, <2>1, ListExcludes DEF Ignored
    <2>3. UserIsMod
      BY <1>2, <1>3, <1>5, <2>2
    <2> QED
      BY <2>3 DEF UserIsMod, UserHasRole
  <1>6. ASSUME info = "this", Meant = asked.ruled, asked.commandRoles = {"trusted"}, ~Special PROVE "trusted" \in asked.roles
    <2>1. CommandRoles(command) = {"trusted"}
      BY <1>0, <1>6 DEF CommandRoles, Ruled
    <2>2. UserHasAnyRole({"trusted"})
      BY <1>2, <1>3, <1>6, <2>1
    <2>3. \E r \in asked.roles : UserHasRole(r) /\ r \in {"trusted"}
      BY <2>2 DEF UserHasAnyRole
    <2> QED
      BY <2>3
  <1> QED
    BY <1>1, <1>4, <1>5, <1>6

LEMMA NotRunByRule ==
  ASSUME Judged, ~UserCanUseCommand(command), asked.channel # ""
  PROVE  LET ruled == info = "this" /\ Meant = asked.ruled
             plain == ~asked.restricted /\ ~asked.mainInstance
             listed == asked.commandChannels # {}
             here == asked.channel \in asked.commandChannels
             barred == ruled /\ ~asked.private /\ listed /\ ("!" \in asked.commandChannels <=> here)
         IN  /\ Silently(command) /\ plain => (barred \/ asked.hookIgnores # {} \/ (ruled /\ asked.disabled))
             /\ ~Silently(command) /\ plain => (ruled /\ asked.commandRoles # {})
             /\ ~Silently(command) /\ asked.who = "admin" /\ asked.cached => asked.restricted
  <1>0. command = Meant /\ (ignored <=> Ignored) /\ Placed
    BY DEF Judged
  <1>1. ASSUME ignored PROVE asked.hookIgnores # {}
                             \/ (info = "this" /\ Meant = asked.ruled /\ ~asked.private /\ asked.commandChannels # {}
                                 /\ (("!" \in asked.commandChannels) <=> (asked.channel \in asked.commandChannels)))
    <2>1. ~asked.private /\ (checkOnCommand \/ Excluded(CommandChannels(Meant), asked.channel))
      BY <1>0, <1>1 DEF Ignored
    <2>2. CASE checkOnCommand
      BY <2>2 DEF checkOnCommand
    <2>3. CASE Excluded(CommandChannels(Meant), asked.channel)
      <3>1. CommandChannels(Meant) # {}
        BY <2>3 DEF Excluded
      <3>2. info = "this" /\ Meant = asked.ruled /\ CommandChannels(Meant) = asked.commandChannels
        BY <3>1 DEF CommandChannels, Ruled
      <3>3. asked.commandChannels # {} /\ (("!" \in asked.commandChannels) <=> (asked.channel \in asked.commandChannels))
        BY <2>3, <3>2, ListExcludes, Zenon
      <3> QED
        BY <2>1, <3>2, <3>3
    <2> QED
      BY <2>1, <2>2, <2>3
  <1>2. CommandDisabled(command) => info = "this" /\ Meant = asked.ruled /\ asked.disabled
    BY <1>0 DEF CommandDisabled, Ruled
  <1>3. ASSUME ~Silently(command), ~asked.restricted
        PROVE  ~UserIsAdmin /\ CommandRoles(command) # {}
    <2>1. (asked.mainInstance => OnMainGuild) /\ ~CommandDisabled(command) /\ (ignored => UserIsMod)
      BY <1>3 DEF Silently
    <2>2. ~UserIsAdmin /\ ~UserHasAnyRole(CommandRoles(command))
      BY <1>3, <2>1 DEF UserCanUseCommand
    <2> QED
      BY <2>2 DEF UserHasAnyRole
  <1>4. CommandRoles(command) # {} => info = "this" /\ Meant = asked.ruled /\ asked.commandRoles # {}
    BY <1>0 DEF CommandRoles, Ruled
  <1>5. ASSUME Silently(command), ~asked.restricted, ~asked.mainInstance
        PROVE  ignored \/ (info = "this" /\ Meant = asked.ruled /\ asked.disabled)
    BY <1>2, <1>5 DEF Silently
  <1>6. ASSUME ~Silently(command), asked.who = "admin", asked.cached PROVE asked.restricted
    <2> SUFFICES ASSUME ~asked.restricted PROVE FALSE
      OBVIOUS
    <2>1. info = "this"
      BY <1>3, <1>4, <1>6
    <2> QED
      BY <1>3, <1>6, <2>1 DEF UserIsAdmin
  <1> QED
    BY <1>1, <1>3, <1>4, <1>5, <1>6

LEMMA HeardByRule ==
  ASSUME Hearing, asked.channel # ""
  PROVE  /\ called \cap asked.disabledModules = {}
         /\ \A m \in called : (asked.kind \in {"command", "message", "update", "delete"}) =>
              (asked.moduleChannels[m] = {} \/ (asked.channel \in asked.moduleChannels[m]) # ("!" \in asked.moduleChannels[m]))
  <1>1. called \cap asked.disabledModules = {}
    BY DEF Hearing, Hooks, ProcessModule
  <1>2. ASSUME NEW m \in called, asked.kind \in {"command", "message", "update", "delete"}
        PROVE  asked.moduleChannels[m] = {} \/ (asked.channel \in asked.moduleChannels[m]) # ("!" \in asked.moduleChannels[m])
    <2>1. ~Excluded(asked.moduleChannels[m], asked.channel)
      BY <1>2 DEF Hearing, Sent, Hooks, ProcessModule
    <2> QED
      BY <2>1, ListExcludes
  <1> QED
    BY <1>1, <1>2

(* What ConfigHelp promises of roles, channels, disabled commands and modules     *)
(* holds for every command, configuration and member (ProcessCommand,             *)
(* UserCanUseCommand, ProcessModule).                                             *)
THEOREM RulesAlwaysKept == PSpec => []RulesAreKept
  <1>1. PInit => DispatchInv
    <2> SUFFICES ASSUME PInit PROVE DispatchInv
      OBVIOUS
    <2>1. asked \in Requests \cup Events /\ step = asked.kind /\ outcome = "" /\ called = {}
          /\ (~asked.private => info = "this")
      BY DEF PInit
    <2>2. step = "command" \/ step \notin Before
      BY <2>1, KindsOfEvents DEF Before
    <2>3. Steps
      BY <2>1, <2>2 DEF Steps, Before
    <2>4. Outcomes /\ Hearing
      BY <2>1 DEF Outcomes, Hearing
    <2> QED
      BY <2>1, <2>3, <2>4 DEF DispatchInv
  <1>2. DispatchInv => RulesAreKept
    <2> SUFFICES ASSUME DispatchInv PROVE RulesAreKept
      OBVIOUS
    <2>0. asked.channel # "" /\ Hearing /\ Outcomes
      BY KindsOfEvents DEF DispatchInv
    <2>1. CASE outcome = "ran"
      <3>1. Judged /\ UserCanUseCommand(command)
        BY <2>0, <2>1 DEF Outcomes
      <3> QED
        BY <2>0, <2>1, <3>1, RanByRule, HeardByRule DEF RulesAreKept
    <2>2. CASE outcome = "refused"
      <3>1. Judged /\ ~UserCanUseCommand(command) /\ ~Silently(command)
        BY <2>0, <2>2 DEF Outcomes
      <3> QED
        BY <2>0, <2>2, <3>1, NotRunByRule, HeardByRule DEF RulesAreKept
    <2>3. CASE outcome = "silent"
      <3>1. CASE asked.typed \notin {"pick", "p"}
        BY <2>0, <2>3, <3>1, HeardByRule DEF RulesAreKept
      <3>2. CASE asked.typed \in {"pick", "p"}
        <4>1. Judged /\ ~UserCanUseCommand(command) /\ Silently(command)
          BY <2>0, <2>3, <3>2 DEF Outcomes
        <4> QED
          BY <2>0, <2>3, <4>1, NotRunByRule, HeardByRule DEF RulesAreKept
      <3> QED
        BY <3>1, <3>2
    <2>4. CASE outcome \notin {"ran", "refused", "silent"}
      BY <2>0, <2>4, HeardByRule DEF RulesAreKept
    <2> QED
      BY <2>1, <2>2, <2>3, <2>4
  <1> QED
    BY <1>1, <1>2, DispatchStep, PTL DEF PSpec


-----------------------------------------------------------------------------
(* Tags.  The tags a command has in hand are of its server or gone, and no     *)
(* row or link bears a number that is still to be given: what it links or      *)
(* unlinks afterwards is its own server's.                                     *)

Jobs ==
  [at : {"idle"}] \cup [at : {"delete"}, guild : Guild, name : TagName]
  \cup [at : {"import"}, guild : Guild, source : Nat, target : Nat]
  \cup [at : {"find", "insert"}, guild : Guild, tags : SUBSET Nat, content : Content]
  \cup [at : {"link", "unlink"}, guild : Guild, tags : SUBSET Nat, item : Nat]
  \cup [at : {"removeItem"}, guild : Guild, item : Nat]
  \cup [at : {"removeGuild"}, guild : Guild]

TagSorts ==
  /\ tagRows \subseteq [id : Nat, name : TagName, guild : Guild]
  /\ itemRows \subseteq [id : Nat, content : Content]
  /\ links \subseteq Nat \X Nat
  /\ nextID \in [tags : Nat, items : Nat]
  /\ job \in [Worker -> Jobs]

Numbered ==
  /\ \A t \in tagRows : t.id < nextID.tags
  /\ \A s, t \in tagRows : s.id = t.id => s = t
  /\ \A l \in links : l[1] < nextID.items /\ l[2] < nextID.tags
  /\ \A i \in itemRows : i.id < nextID.items

InHandTags(j) ==
  CASE j.at = "import" -> {j.target}
    [] j.at \in {"find", "insert", "link", "unlink"} -> j.tags
    [] OTHER -> {}
OwnTags ==
  \A w \in Worker : \A k \in InHandTags(job[w]) :
    k < nextID.tags /\ \A t \in tagRows : t.id = k => t.guild = job[w].guild

TagInv == TagSorts /\ Numbered /\ OwnTags

LEMMA TagTypes ==
  /\ \A g \in Guild, n \in TagName : [at |-> "delete", guild |-> g, name |-> n] \in Jobs
  /\ \A g \in Guild, s, t \in Nat : [at |-> "import", guild |-> g, source |-> s, target |-> t] \in Jobs
  /\ \A a \in {"find", "insert"}, g \in Guild, T \in SUBSET Nat, x \in Content :
       [at |-> a, guild |-> g, tags |-> T, content |-> x] \in Jobs
  /\ \A a \in {"link", "unlink"}, g \in Guild, T \in SUBSET Nat, i \in Nat :
       [at |-> a, guild |-> g, tags |-> T, item |-> i] \in Jobs
  /\ \A g \in Guild, i \in Nat : [at |-> "removeItem", guild |-> g, item |-> i] \in Jobs
  /\ \A g \in Guild : [at |-> "removeGuild", guild |-> g] \in Jobs
  /\ [at |-> "idle"] \in Jobs
  BY DEF Jobs

LEMMA JobFields ==
  ASSUME NEW j \in Jobs
  PROVE  /\ j.at # "idle" => j.guild \in Guild
         /\ j.at = "delete" => j.name \in TagName
         /\ j.at = "import" => j.source \in Nat /\ j.target \in Nat
         /\ j.at \in {"find", "insert"} =>
              j.tags \subseteq Nat /\ j.content \in Content
              /\ j = [at |-> j.at, guild |-> j.guild, tags |-> j.tags, content |-> j.content]
         /\ j.at \in {"link", "unlink"} =>
              j.tags \subseteq Nat /\ j.item \in Nat
              /\ j = [at |-> j.at, guild |-> j.guild, tags |-> j.tags, item |-> j.item]
         /\ j.at = "removeItem" => j.item \in Nat
  <1>1. CASE j \in [at : {"idle"}]
    BY <1>1
  <1>2. CASE j \in [at : {"delete"}, guild : Guild, name : TagName]
    BY <1>2
  <1>3. CASE j \in [at : {"import"}, guild : Guild, source : Nat, target : Nat]
    BY <1>3
  <1>4. CASE j \in [at : {"find", "insert"}, guild : Guild, tags : SUBSET Nat, content : Content]
    BY <1>4
  <1>5. CASE j \in [at : {"link", "unlink"}, guild : Guild, tags : SUBSET Nat, item : Nat]
    BY <1>5
  <1>6. CASE j \in [at : {"removeItem"}, guild : Guild, item : Nat]
    BY <1>6
  <1>7. CASE j \in [at : {"removeGuild"}, guild : Guild]
    BY <1>7
  <1> QED
    BY <1>1, <1>2, <1>3, <1>4, <1>5, <1>6, <1>7 DEF Jobs

(* A server's tags hold the same items if its tags with their items are the same. *)
LEMMA HeldStays ==
  ASSUME NEW g,
         \A t, i : (t \in tagRows /\ i \in itemRows /\ t.guild = g /\ <<i.id, t.id>> \in links)
                   <=> (t \in tagRows' /\ i \in itemRows' /\ t.guild = g /\ <<i.id, t.id>> \in links')
  PROVE  Held(g)' = Held(g)
  <1>1. {q \in tagRows \X itemRows : q[1].guild = g /\ <<q[2].id, q[1].id>> \in links}
        = {q \in tagRows' \X itemRows' : q[1].guild = g /\ <<q[2].id, q[1].id>> \in links'}
    OBVIOUS
  <1> QED
    BY <1>1 DEF Held

(* What a statement on the tags and links of one server keeps of another. *)
LEMMA HeldElsewhere ==
  ASSUME NEW g, TagSorts, NEW gone, tagRows' = tagRows, Unlink(gone),
         \A l \in gone, t \in tagRows : l[2] = t.id => t.guild # g
  PROVE  Held(g)' = Held(g)
  <1>1. \A t, i : (t \in tagRows /\ i \in itemRows /\ t.guild = g /\ <<i.id, t.id>> \in links) =>
                  <<i.id, t.id>> \in links'
    BY DEF Unlink, TagSorts
  <1>2. \A t, i : (t \in tagRows /\ i \in itemRows /\ t.guild = g /\ <<i.id, t.id>> \in links) => i \in itemRows'
    BY <1>1 DEF Unlink, TagSorts
  <1>3. itemRows' \subseteq itemRows /\ links' \subseteq links
    BY DEF Unlink
  <1> QED
    BY <1>1, <1>2, <1>3, HeldStays

LEMMA HeldOnDrop ==
  ASSUME NEW g, TagSorts, NEW ids, DropTags(ids),
         \A t \in tagRows : t.id \in ids => t.guild # g
  PROVE  Held(g)' = Held(g)
  <1>0. tagRows' = {r \in tagRows : r.id \notin ids} /\ Unlink({l \in links : l[2] \in ids})
    BY DEF DropTags
  <1>1. \A t, i : (t \in tagRows /\ i \in itemRows /\ t.guild = g /\ <<i.id, t.id>> \in links) =>
                  t \in tagRows' /\ <<i.id, t.id>> \in links'
    BY <1>0 DEF Unlink, TagSorts
  <1>2. \A t, i : (t \in tagRows /\ i \in itemRows /\ t.guild = g /\ <<i.id, t.id>> \in links) => i \in itemRows'
    BY <1>0, <1>1 DEF Unlink, TagSorts
  <1>3. itemRows' \subseteq itemRows /\ links' \subseteq links /\ tagRows' \subseteq tagRows
    BY <1>0 DEF Unlink
  <1> QED
    BY <1>1, <1>2, <1>3, HeldStays

LEMMA TagsStart == TInit => TagInv
  <1> SUFFICES ASSUME TInit PROVE TagInv
    OBVIOUS
  <1> USE TagAssumption DEF TInit
  <1>1. Cardinality(Existing) \in Nat
    BY FS_CardinalityType
  <1>2. TagSorts
    BY <1>1, TagTypes DEF TagSorts
  <1>3. Numbered
    BY <1>1 DEF Numbered
  <1>4. OwnTags
    BY DEF OwnTags, InHandTags
  <1> QED
    BY <1>2, <1>3, <1>4 DEF TagInv

Owner(w) == \A g \in Guild : Held(g)' # Held(g) => job[w].at # "idle" /\ job[w].guild = g /\ job'[w] # job[w]

LEMMA InHandNumbers ==
  ASSUME NEW j \in Jobs
  PROVE  InHandTags(j) \subseteq Nat
  BY JobFields DEF InHandTags

LEMMA OwnTagsKept ==
  ASSUME TagInv, NEW w \in Worker, NEW j \in Jobs, job' = [job EXCEPT ![w] = j],
         nextID' \in [tags : Nat, items : Nat], nextID'.tags >= nextID.tags,
         \A t \in tagRows' : t \in tagRows \/ ~(t.id < nextID.tags),
         \A k \in InHandTags(j) : k < nextID'.tags /\ \A t \in tagRows' : t.id = k => t.guild = j.guild
  PROVE  OwnTags'
  <1> SUFFICES ASSUME NEW v \in Worker, NEW k \in InHandTags(job'[v])
               PROVE  k < nextID'.tags /\ \A t \in tagRows' : t.id = k => t.guild = job'[v].guild
    BY DEF OwnTags, InHandTags
  <1>1. CASE v = w
    BY <1>1 DEF TagInv, TagSorts
  <1>2. CASE v # w
    <2>1. job'[v] = job[v] /\ job[v] \in Jobs
      BY <1>2 DEF TagInv, TagSorts
    <2>2. k \in Nat
      BY <2>1, InHandNumbers
    <2>3. k < nextID.tags /\ \A t \in tagRows : t.id = k => t.guild = job[v].guild
      BY <2>1 DEF TagInv, OwnTags
    <2>4. nextID.tags \in Nat /\ nextID'.tags \in Nat
      BY DEF TagInv, TagSorts
    <2> QED
      BY <2>1, <2>2, <2>3, <2>4
  <1> QED
    BY <1>1, <1>2

(* Statements that only take away: the rows left are the rows there were. *)
LEMMA NumbersKept ==
  ASSUME TagInv, tagRows' \subseteq tagRows, itemRows' \subseteq itemRows, links' \subseteq links, nextID' = nextID
  PROVE  Numbered' /\ tagRows' \subseteq [id : Nat, name : TagName, guild : Guild]
         /\ itemRows' \subseteq [id : Nat, content : Content] /\ links' \subseteq Nat \X Nat /\ nextID' \in [tags : Nat, items : Nat]
  BY DEF TagInv, Numbered, TagSorts

LEMMA JobsKept ==
  ASSUME TagInv, NEW w \in Worker, NEW j \in Jobs, Goto(w, j)
  PROVE  job' \in [Worker -> Jobs] /\ job' = [job EXCEPT ![w] = j] /\ job'[w] = j
  BY DEF TagInv, TagSorts, Goto

LEMMA TagsSame ==
  ASSUME TagInv, UNCHANGED <<tagRows, itemRows, links, nextID>>, NEW w \in Worker, NEW j \in Jobs, Goto(w, j),
         \A k \in InHandTags(j) : k < nextID.tags /\ \A t \in tagRows : t.id = k => t.guild = j.guild
  PROVE  TagInv' /\ Owner(w)
  <1>1. Numbered' /\ TagSorts'
    BY NumbersKept, JobsKept DEF TagInv, TagSorts
  <1>2. OwnTags'
    BY JobsKept, OwnTagsKept DEF TagInv, TagSorts
  <1>3. \A g : Held(g)' = Held(g)
    BY HeldStays
  <1> QED
    BY <1>1, <1>2, <1>3 DEF TagInv, Owner

(* The tags of names are their server's. *)
LEMMA TagIDsOwn ==
  ASSUME TagInv, NEW g \in Guild, NEW names, NEW k \in TagIDs(names, g)
  PROVE  k \in Nat /\ k < nextID.tags /\ \A t \in tagRows : t.id = k => t.guild = g
  BY DEF TagInv, Numbered, TagSorts, TagIDs

LEMMA NewKeeps ==
  ASSUME TagInv, NEW w \in Worker, NEW g \in Guild, NEW n \in TagName, New(w, g, n)
  PROVE  TagInv' /\ Owner(w)
  <1> DEFINE r == [id |-> nextID.tags, name |-> n, guild |-> g]
  <1>0. /\ tagRows' = tagRows \cup {r} /\ itemRows' = itemRows /\ links' = links /\ job' = job
        /\ nextID' = [nextID EXCEPT !.tags = @ + 1]
    BY DEF New
  <1>1. nextID.tags \in Nat /\ nextID' \in [tags : Nat, items : Nat] /\ nextID'.tags = nextID.tags + 1 /\ nextID'.items = nextID.items
    BY <1>0 DEF TagInv, TagSorts
  <1>2. r \in [id : Nat, name : TagName, guild : Guild] /\ r.id = nextID.tags
    BY <1>1
  <1>3. TagSorts'
    BY <1>0, <1>1, <1>2 DEF TagInv, TagSorts
  <1> HIDE DEF r
  <1>4. \A t \in tagRows : t.id \in Nat /\ t.id < nextID.tags
    BY DEF TagInv, TagSorts, Numbered
  <1>5. \A l \in links : l[1] \in Nat /\ l[2] \in Nat /\ l[1] < nextID.items /\ l[2] < nextID.tags
    BY DEF TagInv, TagSorts, Numbered
  <1>6. Numbered'
    <2>1. \A t \in tagRows' : t.id < nextID'.tags
      BY <1>0, <1>1, <1>2, <1>4
    <2>2. \A s, t \in tagRows' : s.id = t.id => s = t
      BY <1>0, <1>1, <1>2, <1>4 DEF TagInv, Numbered
    <2>3. \A l \in links' : l[1] < nextID'.items /\ l[2] < nextID'.tags
      BY <1>0, <1>1, <1>5
    <2>4. \A i \in itemRows' : i.id < nextID'.items
      BY <1>0, <1>1 DEF TagInv, Numbered
    <2> QED
      BY <2>1, <2>2, <2>3, <2>4 DEF Numbered
  <1>7. OwnTags'
    <2>1. job' = [job EXCEPT ![w] = job[w]] /\ job[w] \in Jobs
      BY <1>0 DEF TagInv, TagSorts
    <2>2. InHandTags(job[w]) \subseteq Nat
      BY <2>1, InHandNumbers
    <2>3. \A k \in InHandTags(job[w]) : k < nextID'.tags /\ \A t \in tagRows' : t.id = k => t.guild = job[w].guild
      BY <1>0, <1>1, <1>2, <2>2 DEF TagInv, OwnTags
    <2>4. \A t \in tagRows' : t \in tagRows \/ ~(t.id < nextID.tags)
      BY <1>0, <1>1, <1>2
    <2>5. nextID'.tags >= nextID.tags
      BY <1>1
    <2> QED
      BY <1>1, <2>1, <2>3, <2>4, <2>5, OwnTagsKept
  <1>8. \A h : Held(h)' = Held(h)
    <2>1. \A i : <<i, nextID.tags>> \notin links
      BY <1>1, <1>5
    <2> QED
      BY <1>0, <1>2, <2>1, HeldStays
  <1> QED
    BY <1>3, <1>6, <1>7, <1>8 DEF TagInv, Owner

LEMMA BeginningsKeep ==
  ASSUME TagInv, NEW w \in Worker,
         \/ \E g \in Guild, n \in TagName : Delete(w, g, n)
         \/ \E g, other \in Guild, n, m \in TagName : Import(w, g, other, n, m)
         \/ \E g \in Guild, names \in SUBSET TagName, x \in Content : AddTags(w, g, names, x) \/ RemoveTags(w, g, names, x)
         \/ \E g \in Guild, x \in Content : RemoveAll(w, g, x)
         \/ \E g \in Guild : RemoveGuildTags(w, g)
  PROVE  TagInv' /\ Owner(w)
  <1>0. itemRows \subseteq [id : Nat, content : Content]
    BY DEF TagInv, TagSorts
  <1>1. ASSUME NEW g \in Guild, NEW n \in TagName, Delete(w, g, n)
        PROVE  TagInv' /\ Owner(w)
    <2>1. UNCHANGED <<tagRows, itemRows, links, nextID>> /\ Goto(w, [at |-> "delete", guild |-> g, name |-> n])
      BY <1>1 DEF Delete
    <2>2. InHandTags([at |-> "delete", guild |-> g, name |-> n]) = {}
      BY DEF InHandTags
    <2> QED
      BY <2>1, <2>2, TagTypes, TagsSame
  <1>2. ASSUME NEW g \in Guild, NEW other \in Guild, NEW n \in TagName, NEW m \in TagName, Import(w, g, other, n, m)
        PROVE  TagInv' /\ Owner(w)
    <2>1. PICK s \in TagIDs({n}, other), t \in TagIDs({m}, g) :
            Goto(w, [at |-> "import", guild |-> g, source |-> s, target |-> t])
      BY <1>2 DEF Import
    <2>2. s \in Nat /\ t \in Nat
      BY <2>1, TagIDsOwn
    <2> DEFINE j == [at |-> "import", guild |-> g, source |-> s, target |-> t]
    <2>3. j \in Jobs
      BY <2>2, TagTypes
    <2>4. InHandTags(j) = {t} /\ j.guild = g
      BY DEF InHandTags
    <2>5. UNCHANGED <<tagRows, itemRows, links, nextID>> /\ Goto(w, j)
      BY <1>2, <2>1 DEF Import
    <2> HIDE DEF j
    <2>6. \A k \in InHandTags(j) : k < nextID.tags /\ \A r \in tagRows : r.id = k => r.guild = j.guild
      BY <2>1, <2>4, TagIDsOwn
    <2> QED
      BY <2>3, <2>5, <2>6, TagsSame
  <1>3. ASSUME NEW g \in Guild, NEW names \in SUBSET TagName, NEW x \in Content, AddTags(w, g, names, x)
        PROVE  TagInv' /\ Owner(w)
    <2> DEFINE j == [at |-> "find", guild |-> g, tags |-> TagIDs(names, g), content |-> x]
    <2>1. TagIDs(names, g) \in SUBSET Nat
      BY TagIDsOwn
    <2>2. j \in Jobs
      BY <2>1, TagTypes
    <2>3. InHandTags(j) = TagIDs(names, g) /\ j.guild = g
      BY DEF InHandTags
    <2>4. UNCHANGED <<tagRows, itemRows, links, nextID>> /\ Goto(w, j)
      BY <1>3 DEF AddTags
    <2> HIDE DEF j
    <2>5. \A k \in InHandTags(j) : k < nextID.tags /\ \A r \in tagRows : r.id = k => r.guild = j.guild
      BY <2>3, TagIDsOwn
    <2> QED
      BY <2>2, <2>4, <2>5, TagsSame
  <1>4. ASSUME NEW g \in Guild, NEW names \in SUBSET TagName, NEW x \in Content, RemoveTags(w, g, names, x)
        PROVE  TagInv' /\ Owner(w)
    <2>1. PICK i \in itemRows : Goto(w, [at |-> "unlink", guild |-> g, tags |-> TagIDs(names, g), item |-> i.id])
      BY <1>4 DEF RemoveTags
    <2> DEFINE j == [at |-> "unlink", guild |-> g, tags |-> TagIDs(names, g), item |-> i.id]
    <2>2. TagIDs(names, g) \in SUBSET Nat /\ i.id \in Nat
      BY <1>0, TagIDsOwn
    <2>3. j \in Jobs
      BY <2>2, TagTypes
    <2>4. InHandTags(j) = TagIDs(names, g) /\ j.guild = g
      BY DEF InHandTags
    <2>5. UNCHANGED <<tagRows, itemRows, links, nextID>> /\ Goto(w, j)
      BY <1>4, <2>1 DEF RemoveTags
    <2> HIDE DEF j
    <2>6. \A k \in InHandTags(j) : k < nextID.tags /\ \A r \in tagRows : r.id = k => r.guild = j.guild
      BY <2>4, TagIDsOwn
    <2> QED
      BY <2>3, <2>5, <2>6, TagsSame
  <1>5. ASSUME NEW g \in Guild, NEW x \in Content, RemoveAll(w, g, x)
        PROVE  TagInv' /\ Owner(w)
    <2>1. PICK i \in itemRows : Goto(w, [at |-> "removeItem", guild |-> g, item |-> i.id])
      BY <1>5 DEF RemoveAll
    <2>2. [at |-> "removeItem", guild |-> g, item |-> i.id] \in Jobs
      BY <1>0, TagTypes
    <2>3. InHandTags([at |-> "removeItem", guild |-> g, item |-> i.id]) = {}
      BY DEF InHandTags
    <2>4. UNCHANGED <<tagRows, itemRows, links, nextID>>
      BY <1>5 DEF RemoveAll
    <2> QED
      BY <2>1, <2>2, <2>3, <2>4, TagsSame
  <1>6. ASSUME NEW g \in Guild, RemoveGuildTags(w, g)
        PROVE  TagInv' /\ Owner(w)
    <2>1. UNCHANGED <<tagRows, itemRows, links, nextID>> /\ Goto(w, [at |-> "removeGuild", guild |-> g])
      BY <1>6 DEF RemoveGuildTags
    <2>2. InHandTags([at |-> "removeGuild", guild |-> g]) = {}
      BY DEF InHandTags
    <2> QED
      BY <2>1, <2>2, TagTypes, TagsSame
  <1> QED
    BY <1>1, <1>2, <1>3, <1>4, <1>5, <1>6

LEMMA AddItemKeeps ==
  ASSUME TagInv, NEW w \in Worker, AddItem(w)
  PROVE  TagInv' /\ Owner(w)
  <1> DEFINE j0 == job[w]
             rows == {i \in itemRows : i.content = j0.content}
  <1>0. j0 \in Jobs /\ j0.at = "find" /\ UNCHANGED <<tagRows, itemRows, links, nextID>>
    BY DEF AddItem, TagInv, TagSorts
  <1>1. j0.guild \in Guild /\ j0.tags \subseteq Nat /\ j0.content \in Content
        /\ j0 = [at |-> "find", guild |-> j0.guild, tags |-> j0.tags, content |-> j0.content]
    BY <1>0, JobFields
  <1>2. InHandTags(j0) = j0.tags
    BY <1>0 DEF InHandTags
  <1>3. \A k \in j0.tags : k < nextID.tags /\ \A t \in tagRows : t.id = k => t.guild = j0.guild
    BY <1>2 DEF TagInv, OwnTags
  <1>4. \/ Goto(w, [j0 EXCEPT !.at = "insert"])
        \/ \E i \in rows : Goto(w, [at |-> "link", guild |-> j0.guild, tags |-> j0.tags, item |-> i.id])
        \/ Done(w)
    BY DEF AddItem
  <1> HIDE DEF j0, rows
  <1>5. CASE Goto(w, [j0 EXCEPT !.at = "insert"])
    <2> DEFINE j == [at |-> "insert", guild |-> j0.guild, tags |-> j0.tags, content |-> j0.content]
    <2>1. [j0 EXCEPT !.at = "insert"] = j
      BY <1>1
    <2>2. j \in Jobs
      BY <1>1, TagTypes
    <2>3. InHandTags(j) = j0.tags /\ j.guild = j0.guild
      BY DEF InHandTags
    <2> HIDE DEF j
    <2> QED
      BY <1>0, <1>3, <1>5, <2>1, <2>2, <2>3, TagsSame
  <1>6. CASE \E i \in rows : Goto(w, [at |-> "link", guild |-> j0.guild, tags |-> j0.tags, item |-> i.id])
    <2>1. PICK i \in itemRows : Goto(w, [at |-> "link", guild |-> j0.guild, tags |-> j0.tags, item |-> i.id])
      BY <1>6 DEF rows
    <2> DEFINE j == [at |-> "link", guild |-> j0.guild, tags |-> j0.tags, item |-> i.id]
    <2>2. i.id \in Nat
      BY DEF TagInv, TagSorts
    <2>3. j \in Jobs
      BY <1>1, <2>2, TagTypes
    <2>4. InHandTags(j) = j0.tags /\ j.guild = j0.guild
      BY DEF InHandTags
    <2>5. Goto(w, j)
      BY <2>1
    <2> HIDE DEF j
    <2> QED
      BY <1>0, <1>3, <2>3, <2>4, <2>5, TagsSame
  <1>7. CASE Done(w)
    <2>1. InHandTags([at |-> "idle"]) = {}
      BY DEF InHandTags
    <2> QED
      BY <1>0, <1>7, <2>1, TagTypes, TagsSame DEF Done
  <1> QED
    BY <1>4, <1>5, <1>6, <1>7

LEMMA InsertItemKeeps ==
  ASSUME TagInv, NEW w \in Worker, InsertItem(w)
  PROVE  TagInv' /\ Owner(w)
  <1> DEFINE j0 == job[w]
             r == [id |-> nextID.items, content |-> j0.content]
             j == [at |-> "link", guild |-> j0.guild, tags |-> j0.tags, item |-> nextID.items]
  <1>0. /\ j0 \in Jobs /\ j0.at = "insert"
        /\ itemRows' = itemRows \cup {r} /\ Goto(w, j) /\ UNCHANGED <<tagRows, links>>
        /\ nextID' = [nextID EXCEPT !.items = @ + 1]
    BY DEF InsertItem, TagInv, TagSorts
  <1>1. j0.guild \in Guild /\ j0.tags \subseteq Nat /\ j0.content \in Content
    BY <1>0, JobFields
  <1>2. InHandTags(j0) = j0.tags
    BY <1>0 DEF InHandTags
  <1>3. \A k \in j0.tags : k < nextID.tags /\ \A t \in tagRows : t.id = k => t.guild = j0.guild
    BY <1>2 DEF TagInv, OwnTags
  <1>4. nextID.items \in Nat /\ nextID.tags \in Nat /\ nextID' \in [tags : Nat, items : Nat]
        /\ nextID'.items = nextID.items + 1 /\ nextID'.tags = nextID.tags
    BY <1>0 DEF TagInv, TagSorts
  <1>5. j \in Jobs /\ InHandTags(j) = j0.tags /\ j.guild = j0.guild
    <2>1. j \in Jobs
      BY <1>1, <1>4, TagTypes
    <2> QED
      BY <2>1 DEF InHandTags
  <1>6. r \in [id : Nat, content : Content] /\ r.id = nextID.items
    BY <1>1, <1>4
  <1> HIDE DEF r, j, j0
  <1>7. TagSorts'
    BY <1>0, <1>4, <1>5, <1>6, JobsKept DEF TagInv, TagSorts
  <1>8. \A l \in links : l[1] \in Nat /\ l[1] < nextID.items /\ l[2] < nextID.tags
    BY DEF TagInv, Numbered, TagSorts
  <1>9. Numbered'
    <2>1. \A i \in itemRows : i.id \in Nat /\ i.id < nextID.items
      BY DEF TagInv, Numbered, TagSorts
    <2>2. \A i \in itemRows' : i.id < nextID'.items
      BY <1>0, <1>4, <1>6, <2>1
    <2>3. \A l \in links' : l[1] < nextID'.items /\ l[2] < nextID'.tags
      BY <1>0, <1>4, <1>8
    <2>4. \A t \in tagRows' : t.id < nextID'.tags
      BY <1>0, <1>4 DEF TagInv, Numbered
    <2>5. \A s, t \in tagRows' : s.id = t.id => s = t
      BY <1>0 DEF TagInv, Numbered
    <2> QED
      BY <2>2, <2>3, <2>4, <2>5 DEF Numbered
  <1>10. OwnTags'
    BY <1>0, <1>3, <1>4, <1>5, JobsKept, OwnTagsKept
  <1>11. \A h : Held(h)' = Held(h)
    <2>1. \A k : <<nextID.items, k>> \notin links
      BY <1>4, <1>8
    <2> QED
      BY <1>0, <1>6, <2>1, HeldStays
  <1> QED
    BY <1>7, <1>9, <1>10, <1>11 DEF TagInv, Owner

(* A command that adds links to a tag it has in hand. *)
LEMMA LinkingKeeps ==
  ASSUME TagInv, NEW w \in Worker, job[w].at \in {"import", "link"}, NEW k \in InHandTags(job[w]), NEW L \in SUBSET Nat,
         \A i \in L : i < nextID.items,
         links' = links \cup {<<i, k>> : i \in L},
         UNCHANGED <<tagRows, itemRows, nextID>>,
         NEW j \in Jobs, Goto(w, j), j # job[w], InHandTags(j) = {} \/ (j.guild = job[w].guild /\ InHandTags(j) \subseteq InHandTags(job[w]))
  PROVE  TagInv' /\ Owner(w)
  <1>0. job[w] \in Jobs /\ job' \in [Worker -> Jobs] /\ job' = [job EXCEPT ![w] = j] /\ job'[w] = j
    BY JobsKept DEF TagInv, TagSorts
  <1>1. k \in Nat /\ k < nextID.tags /\ \A t \in tagRows : t.id = k => t.guild = job[w].guild
    BY <1>0, InHandNumbers DEF TagInv, OwnTags
  <1>2. TagSorts'
    BY <1>0, <1>1 DEF TagInv, TagSorts
  <1>3. \A l \in links' : l[1] < nextID'.items /\ l[2] < nextID'.tags
    BY <1>1 DEF TagInv, Numbered
  <1>4. Numbered'
    BY <1>3 DEF TagInv, Numbered
  <1>5. OwnTags'
    <2>1. \A n \in InHandTags(j) : n < nextID'.tags /\ \A t \in tagRows' : t.id = n => t.guild = j.guild
      BY DEF TagInv, OwnTags
    <2>2. nextID' \in [tags : Nat, items : Nat] /\ nextID'.tags >= nextID.tags
      BY DEF TagInv, TagSorts
    <2> QED
      BY <1>0, <2>1, <2>2, OwnTagsKept
  <1>6. ASSUME NEW g \in Guild, g # job[w].guild PROVE Held(g)' = Held(g)
    <2>1. \A t, i : t \in tagRows /\ t.guild = g => (<<i, t.id>> \in links <=> <<i, t.id>> \in links')
      BY <1>1, <1>6
    <2> QED
      BY <2>1, HeldStays
  <1> QED
    BY <1>0, <1>2, <1>4, <1>5, <1>6 DEF TagInv, Owner

LEMMA ImportTagKeeps ==
  ASSUME TagInv, NEW w \in Worker, ImportTag(w)
  PROVE  TagInv' /\ Owner(w)
  <1> DEFINE j0 == job[w]
             found == \E r \in tagRows : r.id = j0.target
             L == IF found THEN {l[1] : l \in {k \in links : k[2] = j0.source}} ELSE {}
  <1>1. j0.at = "import" /\ Goto(w, [at |-> "idle"]) /\ UNCHANGED <<tagRows, itemRows, nextID>>
        /\ links' = links \cup (IF found THEN {<<l[1], j0.target>> : l \in {k \in links : k[2] = j0.source}} ELSE {})
    BY DEF ImportTag, Done
  <1>2. InHandTags(j0) = {j0.target}
    BY <1>1 DEF InHandTags
  <1>3. L \in SUBSET Nat /\ \A i \in L : i < nextID.items
    BY DEF TagInv, TagSorts, Numbered
  <1>4. links' = links \cup {<<i, j0.target>> : i \in L}
    BY <1>1
  <1>5. InHandTags([at |-> "idle"]) = {} /\ [at |-> "idle"] # j0
    BY <1>1 DEF InHandTags
  <1> HIDE DEF L, found
  <1> QED
    BY <1>1, <1>2, <1>3, <1>4, <1>5, TagTypes, LinkingKeeps

(* A command goes on with one tag less, or ends with its last one. *)
LEMMA OneTagLess ==
  ASSUME TagInv, NEW w \in Worker, job[w].at \in {"link", "unlink"}, NEW t \in job[w].tags,
         IF job[w].tags = {t} THEN Done(w) ELSE Goto(w, [job[w] EXCEPT !.tags = @ \ {t}])
  PROVE  \E j \in Jobs : /\ Goto(w, j) /\ j # job[w]
                         /\ InHandTags(j) = {} \/ (j.guild = job[w].guild /\ InHandTags(j) \subseteq InHandTags(job[w]))
  <1> DEFINE j0 == job[w]
  <1>0. j0 \in Jobs
    BY DEF TagInv, TagSorts
  <1>1. j0.guild \in Guild /\ j0.tags \subseteq Nat /\ j0.item \in Nat
        /\ j0 = [at |-> j0.at, guild |-> j0.guild, tags |-> j0.tags, item |-> j0.item]
    BY <1>0, JobFields
  <1>2. InHandTags(j0) = j0.tags
    BY DEF InHandTags
  <1>3. CASE j0.tags = {t}
    <2>1. InHandTags([at |-> "idle"]) = {} /\ [at |-> "idle"] # j0
      BY DEF InHandTags
    <2> QED
      BY <1>3, <2>1, TagTypes DEF Done
  <1>4. CASE j0.tags # {t}
    <2> DEFINE j == [at |-> j0.at, guild |-> j0.guild, tags |-> j0.tags \ {t}, item |-> j0.item]
    <2>1. [j0 EXCEPT !.tags = @ \ {t}] = j
      BY <1>1
    <2>2. j \in Jobs
      BY <1>1, TagTypes
    <2>3. InHandTags(j) = j0.tags \ {t} /\ j.guild = j0.guild /\ j # j0
      BY DEF InHandTags
    <2>4. Goto(w, j)
      BY <1>4, <2>1
    <2> HIDE DEF j, j0
    <2> QED
      BY <1>2, <2>2, <2>3, <2>4 DEF j0
  <1> QED
    BY <1>3, <1>4

LEMMA AddTagKeeps ==
  ASSUME TagInv, NEW w \in Worker, AddTag(w)
  PROVE  TagInv' /\ Owner(w)
  <1> DEFINE item == job[w].item
  <1>1. PICK t \in job[w].tags :
          /\ links' = links \cup (IF (\E i \in itemRows : i.id = item) /\ (\E r \in tagRows : r.id = t)
                                  THEN {<<item, t>>} ELSE {})
          /\ IF job[w].tags = {t} THEN Done(w) ELSE Goto(w, [job[w] EXCEPT !.tags = @ \ {t}])
    BY DEF AddTag
  <1>2. job[w].at = "link" /\ UNCHANGED <<tagRows, itemRows, nextID>>
    BY DEF AddTag
  <1>3. PICK j \in Jobs : /\ Goto(w, j) /\ j # job[w]
                          /\ InHandTags(j) = {} \/ (j.guild = job[w].guild /\ InHandTags(j) \subseteq InHandTags(job[w]))
    BY <1>1, <1>2, OneTagLess
  <1> DEFINE L == IF (\E i \in itemRows : i.id = item) /\ (\E r \in tagRows : r.id = t) THEN {item} ELSE {}
  <1>4. L \in SUBSET Nat /\ \A i \in L : i < nextID.items
    BY DEF TagInv, TagSorts, Numbered
  <1>5. links' = links \cup {<<i, t>> : i \in L}
    BY <1>1
  <1>6. t \in InHandTags(job[w])
    BY <1>1, <1>2 DEF InHandTags
  <1> HIDE DEF L, item
  <1> QED
    BY <1>2, <1>3, <1>4, <1>5, <1>6, LinkingKeeps

(* A statement that takes away, on its server only. *)
LEMMA TakingKeeps ==
  ASSUME TagInv, NEW w \in Worker, NEW j \in Jobs, Goto(w, j), job[w].at # "idle", j # job[w],
         InHandTags(j) = {} \/ (j.guild = job[w].guild /\ InHandTags(j) \subseteq InHandTags(job[w])),
         tagRows' \subseteq tagRows, itemRows' \subseteq itemRows, links' \subseteq links, nextID' = nextID,
         \A g \in Guild : g # job[w].guild => Held(g)' = Held(g)
  PROVE  TagInv' /\ Owner(w)
  <1>0. job' \in [Worker -> Jobs] /\ job' = [job EXCEPT ![w] = j] /\ job'[w] = j
    BY JobsKept
  <1>1. TagSorts' /\ Numbered'
    BY <1>0, NumbersKept DEF TagSorts
  <1>2. OwnTags'
    <2>1. \A n \in InHandTags(j) : n < nextID'.tags /\ \A t \in tagRows' : t.id = n => t.guild = j.guild
      BY DEF TagInv, OwnTags
    <2>2. nextID' \in [tags : Nat, items : Nat] /\ nextID'.tags >= nextID.tags
      BY DEF TagInv, TagSorts
    <2> QED
      BY <1>0, <2>1, <2>2, OwnTagsKept
  <1> QED
    BY <1>0, <1>1, <1>2 DEF TagInv, Owner

LEMMA RemoveItemKeeps ==
  ASSUME TagInv, NEW w \in Worker, RemoveItem(w)
  PROVE  TagInv' /\ Owner(w)
  <1> DEFINE gone == {l \in links : l[1] = job[w].item /\ l[2] \in OfGuild(job[w].guild)}
  <1>1. job[w].at = "removeItem" /\ Unlink(gone) /\ Goto(w, [at |-> "idle"]) /\ tagRows' = tagRows /\ nextID' = nextID
    BY DEF RemoveItem, Done
  <1>2. InHandTags([at |-> "idle"]) = {} /\ [at |-> "idle"] # job[w]
    BY <1>1 DEF InHandTags
  <1>3. \A l \in gone, t \in tagRows : l[2] = t.id => t.guild = job[w].guild
    BY DEF OfGuild, TagInv, Numbered
  <1> HIDE DEF gone
  <1>4. itemRows' \subseteq itemRows /\ links' \subseteq links
    BY <1>1 DEF Unlink
  <1>5. \A g \in Guild : g # job[w].guild => Held(g)' = Held(g)
    BY <1>1, <1>3, HeldElsewhere DEF TagInv
  <1> QED
    BY <1>1, <1>2, <1>4, <1>5, TagTypes, TakingKeeps

LEMMA RemoveTagKeeps ==
  ASSUME TagInv, NEW w \in Worker, RemoveTag(w)
  PROVE  TagInv' /\ Owner(w)
  <1>1. PICK t \in job[w].tags :
          /\ Unlink({<<job[w].item, t>>})
          /\ IF job[w].tags = {t} THEN Done(w) ELSE Goto(w, [job[w] EXCEPT !.tags = @ \ {t}])
    BY DEF RemoveTag
  <1>2. job[w].at = "unlink" /\ tagRows' = tagRows /\ nextID' = nextID
    BY DEF RemoveTag
  <1>3. PICK j \in Jobs : /\ Goto(w, j) /\ j # job[w]
                          /\ InHandTags(j) = {} \/ (j.guild = job[w].guild /\ InHandTags(j) \subseteq InHandTags(job[w]))
    BY <1>1, <1>2, OneTagLess
  <1>4. \A r \in tagRows : r.id = t => r.guild = job[w].guild
    BY <1>2 DEF TagInv, OwnTags, InHandTags
  <1>5. itemRows' \subseteq itemRows /\ links' \subseteq links
    BY <1>1 DEF Unlink
  <1>6. \A g \in Guild : g # job[w].guild => Held(g)' = Held(g)
    BY <1>1, <1>2, <1>4, HeldElsewhere DEF TagInv
  <1> QED
    BY <1>2, <1>3, <1>5, <1>6, TakingKeeps

LEMMA DroppingKeeps ==
  ASSUME TagInv, NEW w \in Worker, DeleteTag(w) \/ CallRemoveGuild(w)
  PROVE  TagInv' /\ Owner(w)
  <1> DEFINE ids == IF job[w].at = "delete" THEN TagIDs({job[w].name}, job[w].guild) ELSE OfGuild(job[w].guild)
  <1>1. job[w].at # "idle" /\ DropTags(ids) /\ Goto(w, [at |-> "idle"]) /\ nextID' = nextID
    BY DEF DeleteTag, CallRemoveGuild, Done
  <1>2. InHandTags([at |-> "idle"]) = {} /\ [at |-> "idle"] # job[w]
    BY <1>1 DEF InHandTags
  <1>3. \A t \in tagRows : t.id \in ids => t.guild = job[w].guild
    BY DEF OfGuild, TagIDs, TagInv, Numbered
  <1> HIDE DEF ids
  <1>4. itemRows' \subseteq itemRows /\ links' \subseteq links /\ tagRows' \subseteq tagRows
    BY <1>1 DEF DropTags, Unlink
  <1>5. \A g \in Guild : g # job[w].guild => Held(g)' = Held(g)
    BY <1>1, <1>3, HeldOnDrop DEF TagInv
  <1> QED
    BY <1>1, <1>2, <1>4, <1>5, TagTypes, TakingKeeps

LEMMA TagStep ==
  ASSUME TagInv, TNext
  PROVE  TagInv' /\ \E w \in Worker : Owner(w)
  <1>1. PICK w \in Worker :
         \/ \E g \in Guild, n \in TagName : New(w, g, n) \/ Delete(w, g, n)
         \/ \E g, other \in Guild, n, m \in TagName : Import(w, g, other, n, m)
         \/ \E g \in Guild, names \in SUBSET TagName \ {{}}, x \in Content : AddTags(w, g, names, x) \/ RemoveTags(w, g, names, x)
         \/ \E g \in Guild, x \in Content : RemoveAll(w, g, x)
         \/ \E g \in Guild : RemoveGuildTags(w, g)
         \/ ImportTag(w) \/ AddItem(w) \/ InsertItem(w) \/ AddTag(w) \/ RemoveItem(w) \/ RemoveTag(w) \/ DeleteTag(w) \/ CallRemoveGuild(w)
    BY DEF TNext
  <1>2. CASE \E g \in Guild, n \in TagName : New(w, g, n)
    BY <1>2, NewKeeps
  <1>3. CASE \/ \E g \in Guild, n \in TagName : Delete(w, g, n)
             \/ \E g, other \in Guild, n, m \in TagName : Import(w, g, other, n, m)
             \/ \E g \in Guild, names \in SUBSET TagName, x \in Content : AddTags(w, g, names, x) \/ RemoveTags(w, g, names, x)
             \/ \E g \in Guild, x \in Content : RemoveAll(w, g, x)
             \/ \E g \in Guild : RemoveGuildTags(w, g)
    BY <1>3, BeginningsKeep
  <1>4. CASE ImportTag(w) \/ AddItem(w) \/ InsertItem(w) \/ AddTag(w) \/ RemoveItem(w) \/ RemoveTag(w) \/ DeleteTag(w) \/ CallRemoveGuild(w)
    BY <1>4, ImportTagKeeps, AddItemKeeps, InsertItemKeeps, AddTagKeeps, RemoveItemKeeps, RemoveTagKeeps, DroppingKeeps
  <1> QED
    BY <1>1, <1>2, <1>3, <1>4

(* What a command of one server does leaves every other server's tags with the *)
(* items they had (RemoveItem's join on the server, the itemtags_after_delete  *)
(* trigger, the tags a command looked up before).                              *)
THEOREM ServersStayApart == TSpec => ServersApart
  <1> DEFINE Apart == \A g \in Guild : Held(g)' # Held(g) =>
                        \E w \in Worker : job[w].at # "idle" /\ job[w].guild = g /\ job'[w] # job[w]
  <1>1. TInit => TagInv
    BY TagsStart
  <1>2. TagInv /\ [TNext]_tvars => TagInv' /\ [Apart]_tvars
    <2>1. TagInv /\ TNext => TagInv' /\ Apart
      BY TagStep DEF Owner
    <2>2. TagInv /\ UNCHANGED tvars => TagInv'
      BY DEF tvars, TagInv, TagSorts, Numbered, OwnTags, InHandTags
    <2> QED
      BY <2>1, <2>2
  <1> QED
    BY <1>1, <1>2, PTL DEF TSpec, ServersApart

-----------------------------------------------------------------------------
(* Settings.  What a request did is compared with what there was before it, so  *)
(* the property is inductive but for the shape of the configuration.            *)

LEMMA QuotesAreTaken == "" # NoWord
BY DEF NoWord

CShape == /\ options = [o \in Option |-> options[o]] /\ kept = [o \in Option |-> kept[o]]
          /\ answer \in {"none", "set", "deleted", "error"}
          /\ answer # "none" => request \in Typed
          /\ ~saving /\ ~unsaved => kept = options

(* A short name stands for one full name at most, a full one for itself. *)
LEMMA OneName == ASSUME NEW n, NEW x \in FixRequest(n), NEW y \in FixRequest(n) PROVE x = y
<1> DEFINE homes == {c \in DOMAIN Category : n[1] \in Category[c]}
<1>1. CASE n[1] \in DOMAIN Category \/ homes = {}
  BY <1>1 DEF FixRequest
<1>2. CASE ~(n[1] \in DOMAIN Category \/ homes = {})
  <2>1. PICK c \in {d \in homes : homes = {d}} : x = <<c>> \o n
    BY <1>2 DEF FixRequest
  <2>2. PICK d \in {e \in homes : homes = {e}} : y = <<d>> \o n
    BY <1>2 DEF FixRequest
  <2>3. c = d
    BY <2>1, <2>2
  <2> QED
    BY <2>1, <2>2, <2>3
<1> QED
  BY <1>1, <1>2

LEMMA FullName == ASSUME NEW o \in Option PROVE FixRequest(o) = {o} /\ o = <<o[1], o[2]>> /\ Len(o) = 2
<1>1. PICK c \in DOMAIN Category : o \in {c} \X Category[c]
  BY DEF Option
<1>2. o = <<o[1], o[2]>> /\ o[1] = c /\ Len(o) = 2
  BY <1>1
<1> QED
  BY <1>1, <1>2 DEF FixRequest

(* The key of a map is found where it was stored. *)
LEMMA KeyIsKept ==
  ASSUME NEW r \in Typed, r.args # << >>, NEW type, NEW k \in ValueOf(type, KeyOf(r.args))
  PROVE  k = KeyOf(r.args) /\ k # << >>
<1>1. PICK a \in DOMAIN Lower : a = r.args[1]
  <2>1. r.args \in Seq(STRING)
    BY SettingsAssumption
  <2>2. 1 \in DOMAIN r.args
    BY <2>1
  <2> QED
    BY <2>2, SettingsAssumption
<1>2. PICK w : w = IF a = NoWord THEN "" ELSE a
  OBVIOUS
<1>3. Tokens(<<a>>) = <<w>>
  <2>1. DOMAIN <<a>> = 1..1 /\ \A i \in 1..1 : <<a>>[i] = a
    OBVIOUS
  <2>2. Tokens(<<a>>) = [i \in 1..1 |-> w]
    BY <1>2, <2>1 DEF Tokens
  <2> QED
    BY <2>2
<1>4. KeyOf(r.args) = <<Lower[w]>>
  BY <1>1, <1>3 DEF KeyOf, Lowered
<1>5. w \in DOMAIN Lower /\ w # NoWord
  BY <1>1, <1>2, QuotesAreTaken, SettingsAssumption
<1>6. PICK l : l = Lower[w]
  OBVIOUS
<1>7. l # NoWord /\ Lower[l] = l
  BY <1>5, <1>6, SettingsAssumption
<1>8. Lowered(<<l>>) = <<l>>
  BY <1>7 DEF Lowered
<1>9. k = <<l>>
  <2>1. <<l>> # <<NoWord>>
    BY <1>7
  <2> QED
    BY <1>4, <1>6, <1>8, <2>1 DEF ValueOf
<1> QED
  BY <1>4, <1>6, <1>9

(* A list whose words all have a meaning is taken as a whole. *)
Understood(type, words) == UNION {ValueOf(type, <<words[i]>>) : i \in {j \in DOMAIN words : words[1] # ""}}

InOrder(words) == \A j \in DOMAIN words : 1..j \subseteq DOMAIN words

LEMMA TokensAreCounted ==
  ASSUME NEW r \in Typed PROVE InOrder(Tokens(r.args)) /\ (r.args # << >> => InOrder(Tokens(Tail(r.args))))
<1>1. r.args \in Seq(STRING)
  BY SettingsAssumption
<1>2. ASSUME NEW s \in Seq(STRING) PROVE InOrder(Tokens(s))
  <2>1. DOMAIN Tokens(s) = 1..Len(s) /\ Len(s) \in Nat
    BY DEF Tokens
  <2> QED
    BY <2>1 DEF InOrder
<1>3. r.args # << >> => Tail(r.args) \in Seq(STRING)
  BY <1>1, HeadTailProperties
<1> QED
  BY <1>1, <1>2, <1>3

LEMMA WholeList ==
  ASSUME NEW type, NEW words, InOrder(words), AllValid(type, words)
  PROVE  Accepted(type, words) = Understood(type, words)
<1>1. CASE words = << >>
  BY <1>1 DEF Accepted, Understood
<1>2. CASE words # << >> /\ words[1] = ""
  <2>1. {j \in DOMAIN words : words[1] # ""} = {}
    BY <1>2
  <2> QED
    BY <1>2, <2>1 DEF Accepted, Understood
<1>3. CASE words # << >> /\ words[1] # ""
  <2>1. \A i \in DOMAIN words : ValueOf(type, <<words[i]>>) # {}
    BY <1>3 DEF AllValid
  <2>2. PICK I, J : /\ I = {j \in DOMAIN words : \A k \in 1..j : ValueOf(type, <<words[k]>>) # {}}
                    /\ J = {j \in DOMAIN words : words[1] # ""}
    OBVIOUS
  <2>3. Accepted(type, words) = UNION {ValueOf(type, <<words[i]>>) : i \in I}
    BY <1>3, <2>2 DEF Accepted
  <2>4. I = DOMAIN words /\ J = DOMAIN words
    BY <1>3, <2>1, <2>2 DEF InOrder
  <2>5. Understood(type, words) = UNION {ValueOf(type, <<words[i]>>) : i \in J}
    BY <2>2 DEF Understood
  <2> QED
    BY <2>3, <2>4, <2>5
<1> QED
  BY <1>1, <1>2, <1>3

(* A value of one text is the text as it was typed. *)
AsTyped(o, words) ==
  IF Type[o].kind = "flag" \/ Type[o].value = "command" THEN Lowered(words)
  ELSE IF Type[o].value = "string" /\ words = <<NoWord>> THEN << >>
  ELSE words

LEMMA ValueIsPlain ==
  ASSUME NEW o, Type[o].kind # "flag", NEW words, NEW v \in ValueOf(Type[o].value, words)
  PROVE  v = AsTyped(o, words)
<1>1. CASE Type[o].value = "string"
  BY <1>1 DEF ValueOf, AsTyped
<1>2. CASE Type[o].value = "command"
  BY <1>2 DEF ValueOf, AsTyped
<1>3. CASE Type[o].value # "string" /\ Type[o].value # "command"
  BY <1>3 DEF ValueOf, AsTyped
<1> QED
  BY <1>1, <1>2, <1>3

LEMMA ScalarIsSet ==
  ASSUME NEW o \in Option, Type[o].kind \in {"scalar", "flag"}, NEW args, NEW new, new = Changed(o, args)
  PROVE  /\ new.said \in {"set", "error"} /\ (new.said = "error" => new.value = options[o])
         /\ new.said = "set" => new.value = AsTyped(o, args)
<1>1. new = SetScalar(o, args)
  BY DEF Changed
<1>2. PICK v : v = IF Type[o].kind = "flag" THEN {Lowered(args)} \cap {<<"true">>, <<"false">>} ELSE ValueOf(Type[o].value, args)
  OBVIOUS
<1>3. \A x \in v : x = AsTyped(o, args)
  <2>1. CASE Type[o].kind = "flag"
    BY <1>2, <2>1 DEF AsTyped
  <2>2. CASE Type[o].kind # "flag"
    BY <1>2, <2>2, ValueIsPlain
  <2> QED
    BY <2>1, <2>2
<1>4. new = IF v = {} THEN [value |-> options[o], said |-> "error"] ELSE [value |-> CHOOSE x \in v : TRUE, said |-> "set"]
  BY <1>1, <1>2 DEF SetScalar
<1>5. CASE v = {}
  BY <1>4, <1>5
<1>6. CASE v # {}
  <2>1. (CHOOSE x \in v : TRUE) \in v
    BY <1>6
  <2> QED
    BY <1>3, <1>4, <1>6, <2>1
<1> QED
  BY <1>5, <1>6

LEMMA ListIsSet ==
  ASSUME NEW o \in Option, Type[o].kind = "list", NEW r \in Typed, NEW new, new = Changed(o, r.args)
  PROVE  new.said \in {"set", "error"} /\ (new.said = "set" => new.value = Understood(Type[o].value, Tokens(r.args)))
<1>1. new = SetConfigList(o, r.args)
  BY DEF Changed
<1> QED
  BY <1>1, WholeList, TokensAreCounted DEF SetConfigList

(* What becomes of a map, or a map of lists. *)
OnlyKey(new, before, k) == \A x \in (DOMAIN new \cup DOMAIN before) \ {k} : x \in DOMAIN new \cap DOMAIN before /\ new[x] = before[x]

LEMMA PutOnly == ASSUME NEW f, NEW k, NEW v
                 PROVE  OnlyKey(Put(f, k, v), f, k) /\ k \in DOMAIN Put(f, k, v) /\ Put(f, k, v)[k] = v
BY DEF OnlyKey, Put
LEMMA DropOnly == ASSUME NEW f, NEW k PROVE OnlyKey(Drop1(f, k), f, k) /\ k \notin DOMAIN Drop1(f, k)
BY DEF OnlyKey, Drop1
LEMMA SameOnly == ASSUME NEW f, NEW k PROVE OnlyKey(f, f, k)
BY DEF OnlyKey

MapIsSet(new, o, args) ==
  /\ OnlyKey(new.value, options[o], KeyOf(args)) /\ new.said \in {"set", "deleted", "error"}
  /\ new.said = "error" => new.value = options[o]
  /\ new.said = "deleted" => KeyOf(args) \notin DOMAIN new.value
  /\ new.said = "set" => KeyOf(args) \in DOMAIN new.value
  /\ new.said = "set" => new.value[KeyOf(args)] = IF Type[o].kind = "maplist" THEN Understood(Type[o].value, Tokens(Tail(args)))
                                                  ELSE AsTyped(o, Tail(args))

LEMMA KeyIsSet ==
  ASSUME NEW o \in Option, Type[o].kind = "map", NEW r \in Typed, r.args # << >>, NEW new, new = Changed(o, r.args)
  PROVE  MapIsSet(new, o, r.args)
<1> DEFINE keys == ValueOf(Type[o].key, KeyOf(r.args))
           values == ValueOf(Type[o].value, Tail(r.args))
<1>1. new = SetConfigKeyValue(o, r.args)
  BY DEF Changed
<1>2. CASE keys = {}
  BY <1>1, <1>2, SameOnly DEF SetConfigKeyValue, MapIsSet
<1>3. CASE keys # {}
  <2>1. PICK k : k = CHOOSE x \in keys : TRUE
    OBVIOUS
  <2>2. k = KeyOf(r.args)
    <3>1. k \in keys
      BY <1>3, <2>1
    <3> QED
      BY <3>1, KeyIsKept
  <2>3. PICK v : v = CHOOSE x \in values : TRUE
    OBVIOUS
  <2>4. PICK before : before = options[o]
    OBVIOUS
  <2>5. new = CASE Len(r.args) = 1 -> [value |-> Drop1(before, k), said |-> "deleted"]
                [] Len(r.args) > 1 /\ values = {} -> [value |-> before, said |-> "error"]
                [] OTHER -> [value |-> Put(before, k, v), said |-> "set"]
    BY <1>1, <1>3, <2>1, <2>3, <2>4 DEF SetConfigKeyValue
  <2> HIDE DEF values
  <2>6. \/ new = [value |-> Drop1(before, k), said |-> "deleted"]
        \/ new = [value |-> before, said |-> "error"]
        \/ values # {} /\ new = [value |-> Put(before, k, v), said |-> "set"]
    <3>1. r.args \in Seq(STRING) /\ Len(r.args) \in Nat /\ Len(r.args) # 0
      <4>1. r.args \in Seq(STRING)
        BY SettingsAssumption
      <4>2. Len(r.args) \in Nat
        BY <4>1
      <4>3. Len(r.args) # 0
        BY <4>1, EmptySeq
      <4> QED
        BY <4>1, <4>2, <4>3
    <3>2. PICK l, none : l = Len(r.args) /\ none = (values = {}) /\ none \in BOOLEAN
      OBVIOUS
    <3>3. new = CASE l = 1 -> [value |-> Drop1(before, k), said |-> "deleted"]
                  [] l > 1 /\ none -> [value |-> before, said |-> "error"]
                  [] OTHER -> [value |-> Put(before, k, v), said |-> "set"]
      BY <2>5, <3>2
    <3>4. CASE l = 1
      BY <3>2, <3>3, <3>4
    <3>5. CASE l > 1 /\ none
      BY <3>2, <3>3, <3>5
    <3>6. CASE l > 1 /\ ~none
      BY <3>2, <3>3, <3>6
    <3>7. l = 1 \/ l > 1
      <4>1. l \in Nat /\ l # 0
        BY <3>1, <3>2
      <4> QED
        BY <4>1
    <3> QED
      BY <3>2, <3>4, <3>5, <3>6, <3>7
  <2>7. values # {} => v = AsTyped(o, Tail(r.args))
    <3> SUFFICES ASSUME values # {} PROVE v = AsTyped(o, Tail(r.args))
      OBVIOUS
    <3>1. v \in values
      BY <2>3
    <3> QED
      BY <3>1, ValueIsPlain DEF values
  <2> QED
    BY <2>2, <2>4, <2>6, <2>7, PutOnly, DropOnly, SameOnly DEF MapIsSet
<1> QED
  BY <1>2, <1>3

LEMMA ListOfKeyIsSet ==
  ASSUME NEW o \in Option, Type[o].kind = "maplist", NEW r \in Typed, r.args # << >>, NEW new, new = Changed(o, r.args)
  PROVE  MapIsSet(new, o, r.args)
<1>1. new = SetConfigMapList(o, r.args)
  BY DEF Changed
<1>2. PICK keys, values, before : /\ keys = ValueOf(Type[o].key, KeyOf(r.args))
                               /\ values = Tokens(Tail(r.args)) /\ before = options[o]
  OBVIOUS
<1>3. PICK k : k = CHOOSE x \in keys : TRUE
  OBVIOUS
<1>4. PICK bad \in BOOLEAN : bad <=> (keys = {} \/ KeyOf(r.args) = <<"">> \/ ~AllValid(Type[o].value, values))
  OBVIOUS
<1>5. new = CASE bad -> [value |-> before, said |-> "error"]
              [] ~bad /\ Len(r.args) = 1 -> [value |-> Drop1(before, k), said |-> "deleted"]
              [] OTHER -> [value |-> Put(before, k, Accepted(Type[o].value, values)), said |-> "set"]
  BY <1>1, <1>2, <1>3, <1>4 DEF SetConfigMapList
<1>6. CASE bad
  <2>1. new = [value |-> before, said |-> "error"]
    BY <1>5, <1>6
  <2> QED
    BY <1>2, <2>1, SameOnly DEF MapIsSet
<1>7. CASE ~bad
  <2>1. k \in keys /\ AllValid(Type[o].value, values)
    BY <1>3, <1>4, <1>7
  <2>2. k = KeyOf(r.args)
    BY <1>2, <2>1, KeyIsKept
  <2>3. \/ new = [value |-> Drop1(before, k), said |-> "deleted"]
        \/ new = [value |-> Put(before, k, Accepted(Type[o].value, values)), said |-> "set"]
    BY <1>5, <1>7
  <2>4. Accepted(Type[o].value, values) = Understood(Type[o].value, values)
    BY <1>2, <2>1, WholeList, TokensAreCounted
  <2> QED
    BY <1>2, <2>2, <2>3, <2>4, PutOnly, DropOnly DEF MapIsSet
<1> QED
  BY <1>6, <1>7

(* One request: another option stays as it was, and of the one it names what the     *)
(* property says.                                                                     *)
Only(o) == \A p \in Option \ {o} : options'[p] = options[p]

LEMMA KeyIsOne == ASSUME NEW args PROVE KeyOf(args) # << >>
<1>1. PICK a : a = args[1]
  OBVIOUS
<1>2. DOMAIN <<a>> = 1..1
  OBVIOUS
<1>3. DOMAIN KeyOf(args) = 1..1
  BY <1>1, <1>2 DEF KeyOf, Lowered, Tokens
<1> QED
  BY <1>3

LEMMA SettingIsRead ==
  ASSUME CShape, NEW r \in Typed, SetConfig(r)
  PROVE  SettingsReadBack'
<1>0. saving' = TRUE
  BY DEF SetConfig
<1>1. /\ request' = r /\ earlier' = options /\ r.args # << >> /\ r.name \in Seq(STRING) \ {<< >>}
  BY SettingsAssumption DEF SetConfig, BeginSetting
<1>2. PICK name, o, new :
        /\ name \in FixRequest(r.name) /\ o = <<name[1], name[2]>> /\ new = Changed(o, r.args)
        /\ IF IsOption(name) THEN options' = [options EXCEPT ![o] = new.value] /\ answer' = new.said
           ELSE answer' = "error" /\ UNCHANGED options
  BY DEF SetConfig
<1>3. CASE ~IsOption(name)
  <2>1. ~Named'
    BY <1>1, <1>2, <1>3, OneName DEF Named
  <2>2. earlier' = options'
    BY <1>1, <1>2, <1>3
  <2> QED
    BY <1>0, <2>1, <2>2 DEF SettingsReadBack
<1>4. CASE IsOption(name)
  <2>1. o \in Option /\ options' = [options EXCEPT ![o] = new.value] /\ answer' = new.said
    BY <1>2, <1>4 DEF IsOption
  <2>2. Len(r.name) > 0
    BY <1>1
  <2>3. Named'
    BY <1>1, <1>2, <1>4, <2>2 DEF Named
  <2>4. Target' = o
    <3>1. PICK c : c = CHOOSE m \in FixRequest(r.name) : TRUE
      OBVIOUS
    <3>2. c = name
      <4>1. c \in FixRequest(r.name)
        BY <1>2, <3>1
      <4> QED
        BY <1>2, <4>1, OneName
    <3> QED
      BY <1>1, <1>2, <3>1, <3>2 DEF Target
  <2>5. options'[o] = new.value /\ \A p \in Option \ {o} : options'[p] = options[p]
    BY <2>1 DEF CShape
  <2>6. new.value = options[o] => options' = options
    <3>1. options = [p \in Option |-> options[p]]
      BY DEF CShape
    <3>2. options' = [p \in Option |-> IF p = o THEN new.value ELSE options[p]]
      BY <2>1, <3>1
    <3> QED
      BY <3>1, <3>2
  <2>7. PICK kind : kind = Type[o].kind /\ kind \in {"scalar", "flag", "list", "map", "maplist"}
    BY <2>1, SettingsAssumption
  <2>8. RequestKey' = KeyOf(r.args)
    BY <1>1 DEF RequestKey
  <2>9. RequestMeans' = CASE kind \in {"scalar", "flag"} -> AsTyped(o, r.args)
                          [] kind = "map" -> AsTyped(o, Tail(r.args))
                          [] kind = "list" -> Understood(Type[o].value, Tokens(r.args))
                          [] kind = "maplist" -> Understood(Type[o].value, Tokens(Tail(r.args)))
    BY <1>1, <2>4, <2>7 DEF RequestMeans, AsTyped, Understood
  <2>18. PICK full : full = (CHOOSE n \in FixRequest(o) : TRUE) /\ full = o
    BY <2>1, FullName
  <2>19. <<full[1], full[2]>> = o /\ Len(full) = 2
    BY <2>1, <2>18, FullName
  <2>10. \A e : Shown(o, e)' = (CASE e = << >> -> [found |-> TRUE, value |-> options'[o]]
                              [] e # << >> /\ e \in DOMAIN options'[o] -> [found |-> TRUE, value |-> options'[o][e]]
                              [] OTHER -> [found |-> FALSE])
    <3>1. SUFFICES ASSUME NEW e
                   PROVE  Shown(o, e)' = (CASE e = << >> -> [found |-> TRUE, value |-> options'[o]]
                              [] e # << >> /\ e \in DOMAIN options'[o] -> [found |-> TRUE, value |-> options'[o][e]]
                              [] OTHER -> [found |-> FALSE])
      OBVIOUS
    <3>2. PICK k : k = (IF Len(full) > 2 THEN <<full[3]>> ELSE e) /\ k = e
      BY <2>19
    <3>3. Shown(o, e)' = (CASE k = << >> -> [found |-> TRUE, value |-> options'[o]]
                              [] k # << >> /\ k \in DOMAIN options'[o] -> [found |-> TRUE, value |-> options'[o][k]]
                              [] OTHER -> [found |-> FALSE])
      BY <2>18, <2>19, <3>2 DEF Shown
    <3> QED
      BY <3>2, <3>3
  <2>12. KeyOf(r.args) # << >>
    BY KeyIsOne
  <2>13. PICK key : key = KeyOf(r.args)
    OBVIOUS
  <2>14. /\ \A p \in Option : ~(Named' /\ p = Target') /\ answer' # "none" => options'[p] = earlier'[p]
    BY <1>1, <2>4, <2>5, <2>3
  <2>20. ShownBack' = IF kind \in {"map", "maplist"} THEN Shown(o, key)' ELSE Shown(o, << >>)'
    BY <1>1, <2>4, <2>7, <2>8, <2>13 DEF ShownBack
  <2>15. CASE kind \in {"scalar", "flag"}
    <3>1. /\ new.said \in {"set", "error"} /\ (new.said = "error" => new.value = options[o])
          /\ new.said = "set" => new.value = AsTyped(o, r.args)
      BY <1>2, <2>1, <2>7, <2>15, ScalarIsSet
    <3>2. ShownBack' = [found |-> TRUE, value |-> options'[o]]
      BY <2>10, <2>15, <2>20
    <3>3. answer' = "set" => ShownBack' = [found |-> TRUE, value |-> RequestMeans']
      BY <2>1, <2>5, <2>9, <2>15, <3>1, <3>2
    <3> QED
      BY <1>0, <1>1, <2>1, <2>3, <2>4, <2>6, <2>7, <2>14, <2>15, <3>1, <3>3 DEF SettingsReadBack
  <2>16. CASE kind = "list"
    <3>1. new.said \in {"set", "error"} /\ (new.said = "set" => new.value = Understood(Type[o].value, Tokens(r.args)))
      BY <1>2, <2>1, <2>7, <2>16, ListIsSet
    <3>2. ShownBack' = [found |-> TRUE, value |-> options'[o]]
      BY <2>10, <2>16, <2>20
    <3>3. answer' = "set" => ShownBack' = [found |-> TRUE, value |-> RequestMeans']
      BY <2>1, <2>5, <2>9, <2>16, <3>1, <3>2
    <3> QED
      BY <1>0, <1>1, <2>1, <2>3, <2>4, <2>7, <2>14, <2>16, <3>1, <3>3 DEF SettingsReadBack
  <2>17. CASE kind \in {"map", "maplist"}
    <3>1. MapIsSet(new, o, r.args)
      BY <1>1, <1>2, <2>1, <2>7, <2>17, KeyIsSet, ListOfKeyIsSet
    <3>2. new.said = "set" => new.value[key] = RequestMeans'
      BY <2>7, <2>9, <2>13, <2>17, <3>1 DEF MapIsSet
    <3>3. /\ new.said = "set" => Shown(o, key)' = [found |-> TRUE, value |-> options'[o][key]]
          /\ new.said = "deleted" => Shown(o, key)' = [found |-> FALSE]
      BY <2>5, <2>10, <2>12, <2>13, <3>1 DEF MapIsSet
    <3>4. OnlyKey(options'[o], earlier'[o], key) /\ (new.said = "error" => options' = earlier')
      BY <1>1, <2>5, <2>6, <2>13, <3>1 DEF MapIsSet
    <3>5. RequestKey' = key
      BY <2>8, <2>13
    <3>6. /\ \A k \in (DOMAIN options'[Target'] \cup DOMAIN earlier'[Target']) \ {RequestKey'} :
               k \in DOMAIN options'[Target'] \cap DOMAIN earlier'[Target'] /\ options'[Target'][k] = earlier'[Target'][k]
          /\ answer' = "error" => options' = earlier'
      BY <2>1, <2>4, <3>4, <3>5 DEF OnlyKey
    <3>7. /\ answer' = "set" => ShownBack' = [found |-> TRUE, value |-> RequestMeans']
          /\ answer' = "deleted" => ~ShownBack'.found
      BY <2>1, <2>5, <2>17, <2>20, <3>2, <3>3
    <3> QED
      BY <1>0, <2>4, <2>7, <2>14, <2>17, <3>6, <3>7 DEF SettingsReadBack
  <2> QED
    BY <2>7, <2>15, <2>16, <2>17
<1> QED
  BY <1>3, <1>4

LEMMA ShapeStays ==
  ASSUME CShape, NEW r \in Typed, SetConfig(r) PROVE CShape'
<1>1. request' = r /\ kept' = kept /\ r.args # << >> /\ saving' = TRUE
  BY DEF SetConfig, BeginSetting
<1>2. PICK name, o, new :
        /\ name \in FixRequest(r.name) /\ o = <<name[1], name[2]>> /\ new = Changed(o, r.args)
        /\ IF IsOption(name) THEN options' = [options EXCEPT ![o] = new.value] /\ answer' = new.said
           ELSE answer' = "error" /\ UNCHANGED options
  BY DEF SetConfig
<1>3. CASE ~IsOption(name)
  BY <1>1, <1>2, <1>3 DEF CShape
<1>4. CASE IsOption(name)
  <2>1. o \in Option
    BY <1>2, <1>4 DEF IsOption
  <2>2. new.said \in {"set", "deleted", "error"}
    <3>1. Type[o].kind \in {"scalar", "flag", "list", "map", "maplist"}
      BY <2>1, SettingsAssumption
    <3>2. CASE Type[o].kind \in {"scalar", "flag"}
      BY <1>2, <2>1, <3>2, ScalarIsSet
    <3>3. CASE Type[o].kind = "list"
      BY <1>2, <2>1, <3>3, ListIsSet
    <3>4. CASE Type[o].kind \in {"map", "maplist"}
      BY <1>1, <1>2, <2>1, <3>4, KeyIsSet, ListOfKeyIsSet DEF MapIsSet
    <3> QED
      BY <3>1, <3>2, <3>3, <3>4
  <2>3. options' = [p \in Option |-> options'[p]]
    BY <1>2, <1>4 DEF CShape
  <2> QED
    BY <1>1, <1>2, <1>4, <2>2, <2>3 DEF CShape
<1> QED
  BY <1>3, <1>4

(* The property of an instant, in terms of what it looks at. *)
ToldBack(named, target, key, means, shown, opts, was, ans) ==
  /\ \A o \in Option : ~(named /\ o = target) /\ ans # "none" => opts[o] = was[o]
  /\ named /\ ans # "none" =>
       LET kind == Type[target].kind
       IN /\ kind \in {"map", "maplist"} =>
               \A k \in (DOMAIN opts[target] \cup DOMAIN was[target]) \ {key} :
                 k \in DOMAIN opts[target] \cap DOMAIN was[target] /\ opts[target][k] = was[target][k]
          /\ ans = "error" /\ kind # "list" => opts = was
          /\ ans = "deleted" => ~shown.found
          /\ ans = "set" => shown = [found |-> TRUE, value |-> means]

LEMMA ReadBackStays ==
  ASSUME SettingsReadBack, UNCHANGED <<options, request, answer, earlier>>, ~saving' /\ ~unsaved' => kept' = options'
  PROVE  SettingsReadBack'
<1>1. options' = options /\ request' = request /\ answer' = answer /\ earlier' = earlier
  OBVIOUS
<1>2. (Named' <=> Named) /\ Target' = Target
  BY <1>1 DEF Named, Target
<1>3. RequestKey' = RequestKey /\ RequestMeans' = RequestMeans
  BY <1>1, <1>2 DEF RequestKey, RequestMeans
<1>4. \A n, k : Shown(n, k)' = Shown(n, k)
  BY <1>1 DEF Shown
<1>5. ShownBack' = ShownBack
  BY <1>2, <1>3, <1>4 DEF ShownBack
<1>6. SettingsReadBack => ToldBack(Named, Target, RequestKey, RequestMeans, ShownBack, options, earlier, answer)
  BY DEF SettingsReadBack, ToldBack
<1>7. ToldBack(Named', Target', RequestKey', RequestMeans', ShownBack', options', earlier', answer') => SettingsReadBack'
  BY DEF SettingsReadBack, ToldBack
<1>8. PICK n, m : n = Named /\ m = Named' /\ n = m
  BY <1>2
<1> QED
  BY <1>1, <1>2, <1>3, <1>5, <1>6, <1>7, <1>8

SettingsInv == CShape /\ SettingsReadBack

(* Whatever an administrator types, only the option the request names changes, and of *)
(* a map only the key; what was accepted is what !getconfig shows, as it was typed,   *)
(* what was deleted is gone and what was refused leaves what there was, of every kind *)
(* but a list; and the next start reads the same, unless the last save failed.        *)
THEOREM SettingsAlwaysReadBack == CSpec => []SettingsReadBack
<1>1. CInit => SettingsInv
  BY SettingsAssumption DEF CInit, SettingsInv, CShape, SettingsReadBack
<1>2. SettingsInv /\ [CNext]_cvars => SettingsInv'
  <2> SUFFICES ASSUME SettingsInv, [CNext]_cvars PROVE SettingsInv'
    OBVIOUS
  <2> USE DEF SettingsInv
  <2>1. ASSUME NEW r \in Typed, Refused(r) PROVE SettingsInv'
    <3>1. r.args = << >> \/ FixRequest(r.name) = {}
      BY <2>1 DEF Refused
    <3>2. /\ request' = r /\ options' = options /\ earlier' = options /\ kept' = kept /\ answer' = "error"
          /\ saving' = saving /\ unsaved' = unsaved
      BY <2>1 DEF Refused, BeginSetting
    <3>3. ~Named'
      BY <3>1, <3>2 DEF Named
    <3> QED
      BY <3>2, <3>3 DEF CShape, SettingsReadBack
  <2>2. ASSUME NEW r \in Typed, SetConfig(r) PROVE SettingsInv'
    BY <2>2, ShapeStays, SettingIsRead
  <2>3. CASE SaveConfig
    <3>1. /\ UNCHANGED <<options, request, answer, earlier>> /\ kept' \in {options, kept, Default}
          /\ ~unsaved' => kept' = options
      BY <2>3 DEF SaveConfig
    <3> QED
      BY <3>1, ReadBackStays, SettingsAssumption DEF CShape
  <2>4. CASE Reboot
    <3>1. options' = kept /\ kept' = kept /\ answer' = "none"
      BY <2>4 DEF Reboot
    <3> QED
      BY <3>1 DEF CShape, SettingsReadBack
  <2>5. CASE UNCHANGED cvars
    <3>1. UNCHANGED <<options, request, answer, earlier, kept, saving, unsaved>>
      BY <2>5 DEF cvars
    <3> QED
      BY <3>1, ReadBackStays DEF CShape
  <2> QED
    BY <2>1, <2>2, <2>3, <2>4, <2>5 DEF CNext
<1> QED
  BY <1>1, <1>2, PTL DEF CSpec, SettingsInv

-----------------------------------------------------------------------------
(* Induction on the natural numbers, with a set in place of a predicate.       *)
LEMMA SetInduction ==
  ASSUME NEW S, 0 \in S, \A n \in Nat : n \in S => n + 1 \in S
  PROVE  Nat \subseteq S
<1> DEFINE Wrong == {n \in Nat : n \notin S}
           Initials == {0..n : n \in Wrong}
           Below == StrictSubsetOrdering(Nat)
<1>1. ASSUME NEW w \in Wrong PROVE FALSE
  <2>1. IsWellFoundedOn(Below, FiniteSubsetsOf(Nat))
    BY FS_StrictSubsetOrderingWellFounded
  <2>2. Initials \subseteq FiniteSubsetsOf(Nat) /\ Initials # {}
    <3>1. ASSUME NEW n \in Wrong PROVE 0..n \in FiniteSubsetsOf(Nat)
      BY FS_Interval DEF FiniteSubsetsOf
    <3> QED
      BY <1>1, <3>1
  <2>3. PICK U \in Initials : \A V \in Initials : ~(<<V, U>> \in Below)
    <3> HIDE DEF Below, Initials
    <3> QED
      BY <2>1, <2>2, WFMin
  <2>4. PICK n \in Wrong : U = 0..n
    OBVIOUS
  <2>5. n \in Nat /\ n # 0 /\ n - 1 \in Nat /\ n - 1 + 1 = n
    OBVIOUS
  <2>6. 0..(n - 1) \subseteq 0..n /\ 0..(n - 1) # 0..n
    <3>1. n \in 0..n /\ n \notin 0..(n - 1)
      BY <2>5
    <3> QED
      BY <2>5, <3>1
  <2>7. <<0..(n - 1), 0..n>> \in Below
    BY <2>5, <2>6 DEF StrictSubsetOrdering
  <2>8. n - 1 \in S
    BY <2>3, <2>4, <2>5, <2>7
  <2> QED
    BY <2>5, <2>8
<1> QED
  BY <1>1

-----------------------------------------------------------------------------
(* Searching.  BuildWhereClause folds the alternatives of a query; induction, with *)
(* a set in place of a predicate, shows that each step of the fold keeps what the   *)
(* alternatives so far say.                                                        *)
Single(c) == Len(c) = 1 /\ IsTag(c[1]) /\ ~c[1].neg
OnlyTags(c) == \A f \in Range(c) : IsTag(f)
RequiresTag(c) == \E f \in Range(c) : IsTag(f) /\ ~f.neg
Means(clauses, n, good) == \E k \in 1..n : \A f \in Range(clauses[k]) : f \in good

(* good holds of a tag that is not negated whatever holds of one of the names it lists. *)
Joins(good) ==
  \A S, T \in SUBSET TagName :
    [neg |-> FALSE, tags |-> S \cup T] \in good <=> [neg |-> FALSE, tags |-> S] \in good \/ [neg |-> FALSE, tags |-> T] \in good

(* What clauses has of the first n alternatives of q. *)
Built(clauses, q, n, good) ==
  /\ clauses \in Seq(Seq(Factor) \ {<< >>}) /\ (n = 0 <=> Len(clauses) = 0)
  /\ n > 0 => clauses[Len(clauses)] = q[n] \/ (Single(clauses[Len(clauses)]) /\ Single(q[n]))
  /\ Means(clauses, Len(clauses), good) <=> Means(q, n, good)
  /\ (\A k \in 1..n : OnlyTags(q[k])) => \A k \in 1..Len(clauses) : OnlyTags(clauses[k])
  /\ (\A k \in 1..n : k < Len(q) => RequiresTag(q[k])) =>
       \A k \in 1..Len(clauses) : k < Len(clauses) \/ n < Len(q) => RequiresTag(clauses[k])

LEMMA LargestIsIn ==
  ASSUME NEW N \in Nat, NEW s \in SUBSET (1..N), s # {}
  PROVE  Max(s) \in s /\ \A y \in s : Max(s) >= y
  <1> DEFINE K == {n \in Nat : \A t \in SUBSET (1..n) : t # {} => \E x \in t : \A y \in t : x >= y}
  <1>1. 0 \in K
    <2>1. 1..0 = {}
      OBVIOUS
    <2> QED
      BY <2>1
  <1>2. ASSUME NEW n \in Nat, n \in K PROVE n + 1 \in K
    <2> SUFFICES ASSUME NEW t \in SUBSET (1..(n + 1)), t # {} PROVE \E x \in t : \A y \in t : x >= y
      OBVIOUS
    <2>1. CASE n + 1 \in t
      BY <2>1
    <2>2. CASE n + 1 \notin t
      <3>1. t \in SUBSET (1..n)
        BY <2>2
      <3> QED
        BY <1>2, <3>1
    <2> QED
      BY <2>1, <2>2
  <1>3. N \in K
    <2> HIDE DEF K
    <2> QED
      BY <1>1, <1>2, SetInduction
  <1>4. \E x \in s : \A y \in s : x >= y
    BY <1>3
  <1> QED
    BY <1>4 DEF Max

(* What FoldLeft defines of every set of alternatives. *)
FoldRule(g, q) ==
  [s \in SUBSET (DOMAIN q) |-> IF s = {} THEN << >> ELSE MergeNext(g[s \ {Max(s)}], q[Max(s)])]

LEMMA FoldExists ==
  ASSUME NEW q, NEW N \in Nat, DOMAIN q = 1..N
  PROVE  \E g : g = FoldRule(g, q)
  <1> DEFINE S == SUBSET (1..N)
             Upto(k) == {s \in S : s \subseteq 1..k}
             Rule(g, s) == IF s = {} THEN << >> ELSE MergeNext(g[s \ {Max(s)}], q[Max(s)])
             Good(g, k) == g = [s \in Upto(k) |-> Rule(g, s)]
             K == {k \in Nat : \E g : Good(g, k)}
  <1>1. 0 \in K
    <2>1. Good([s \in Upto(0) |-> << >>], 0)
      <3>1. \A s \in Upto(0) : s = {}
        OBVIOUS
      <3> HIDE DEF Upto
      <3> QED
        BY <3>1
    <2> QED
      BY <2>1
  <1>2. ASSUME NEW k \in Nat, k \in K PROVE k + 1 \in K
    <2>1. PICK g : Good(g, k)
      BY <1>2
    <2> DEFINE h == [s \in Upto(k + 1) |-> Rule(g, s)]
    <2>2. \A s \in Upto(k) : s \in Upto(k + 1) /\ g[s] = Rule(g, s)
      <3>1. \A s \in Upto(k) : s \in Upto(k + 1)
        OBVIOUS
      <3>2. g = [s \in Upto(k) |-> Rule(g, s)]
        BY <2>1
      <3>3. \A s \in Upto(k) : g[s] = Rule(g, s)
        <4> HIDE DEF Upto, Rule
        <4> QED
          BY <3>2
      <3> QED
        BY <3>1, <3>3
    <2>3. \A s \in Upto(k) : h[s] = g[s]
      <3> HIDE DEF Upto, Rule
      <3> QED
        BY <2>2
    <2>4. ASSUME NEW s \in Upto(k + 1), s # {} PROVE s \ {Max(s)} \in Upto(k)
      <3>1. Max(s) \in s /\ \A y \in s : Max(s) >= y
        <4>1. s \in SUBSET (1..(k + 1)) /\ k + 1 \in Nat
          OBVIOUS
        <4> QED
          BY <2>4, <4>1, LargestIsIn
      <3>2. PICK m : m = Max(s)
        OBVIOUS
      <3>3. m \in 1..(k + 1) /\ \A y \in s : y \in 1..(k + 1) /\ m >= y
        BY <3>1, <3>2
      <3>4. \A y \in s \ {m} : y \in 1..k
        BY <3>3
      <3> QED
        BY <3>2, <3>4
    <2>5. \A s \in Upto(k + 1) : h[s] = Rule(h, s)
      <3> SUFFICES ASSUME NEW s \in Upto(k + 1) PROVE h[s] = Rule(h, s)
        OBVIOUS
      <3>1. h[s] = Rule(g, s)
        <4> HIDE DEF Rule, Upto
        <4> QED
          OBVIOUS
      <3>2. s # {} => h[s \ {Max(s)}] = g[s \ {Max(s)}]
        BY <2>3, <2>4
      <3> HIDE DEF h, Upto
      <3> QED
        BY <3>1, <3>2
    <2>6. PICK f : f = h
      OBVIOUS
    <2>7. Good(f, k + 1)
      <3>1. f = [s \in Upto(k + 1) |-> f[s]]
        BY <2>6
      <3>2. \A s \in Upto(k + 1) : f[s] = Rule(f, s)
        BY <2>5, <2>6
      <3> HIDE DEF h, Upto, Rule
      <3> QED
        BY <3>1, <3>2
    <2> HIDE DEF Good
    <2> QED
      BY <2>7
  <1>3. N \in K
    <2> HIDE DEF K
    <2> QED
      BY <1>1, <1>2, SetInduction
  <1>4. Upto(N) = S
    OBVIOUS
  <1>5. PICK g : Good(g, N)
    BY <1>3
  <1>6. g = FoldRule(g, q)
    <2>1. SUBSET (DOMAIN q) = Upto(N)
      BY <1>4
    <2> HIDE DEF Upto
    <2> QED
      BY <1>5, <2>1 DEF FoldRule
  <1> QED
    BY <1>6

LEMMA FoldsByRule ==
  ASSUME NEW q, NEW N \in Nat, DOMAIN q = 1..N
  PROVE  \E g : g = FoldRule(g, q) /\ BuildWhereClause(q) = g[DOMAIN q]
  <1> DEFINE fold == CHOOSE g : g = FoldRule(g, q)
  <1>1. fold = FoldRule(fold, q)
    BY FoldExists
  <1>2. BuildWhereClause(q) = fold[DOMAIN q]
    BY DEF BuildWhereClause, FoldLeft, MapThenFoldSet, FoldRule
  <1> QED
    BY <1>1, <1>2

LEMMA FactorFacts ==
  /\ \A f \in TagFactor : f \in Factor /\ IsTag(f) /\ f.neg \in BOOLEAN /\ f.tags \in SUBSET TagName /\ f = [neg |-> f.neg, tags |-> f.tags]
  /\ \A f \in Factor : IsTag(f) => f \in TagFactor
  /\ \A f \in Factor : ~IsTag(f) => f.neg \in BOOLEAN /\ f.sub \in AlternativesOf(TagFactor)
  <1>1. \A f \in [neg : BOOLEAN, sub : AlternativesOf(TagFactor)] : ~IsTag(f) /\ f.neg \in BOOLEAN /\ f.sub \in AlternativesOf(TagFactor)
    <2>1. SUFFICES ASSUME NEW f \in [neg : BOOLEAN, sub : AlternativesOf(TagFactor)] PROVE ~IsTag(f) /\ f.neg \in BOOLEAN /\ f.sub \in AlternativesOf(TagFactor)
      OBVIOUS
    <2>2. DOMAIN f = {"neg", "sub"}
      BY <2>1
    <2> QED
      BY <2>1, <2>2 DEF IsTag
  <1>2. \A f \in TagFactor : f \in Factor /\ IsTag(f) /\ f.neg \in BOOLEAN /\ f.tags \in SUBSET TagName /\ f = [neg |-> f.neg, tags |-> f.tags]
    BY DEF TagFactor, Factor, IsTag
  <1> QED
    BY <1>1, <1>2 DEF Factor

LEMMA MoreTags ==
  ASSUME NEW f \in TagFactor, NEW T \in SUBSET TagName
  PROVE  [f EXCEPT !.tags = @ \cup T] = [neg |-> f.neg, tags |-> f.tags \cup T]
BY DEF TagFactor

LEMMA TailOfOne == ASSUME NEW S, NEW c \in Seq(S), Len(c) = 1 PROVE Tail(c) = << >>
  <1>1. Tail(c) \in Seq(S) /\ Len(Tail(c)) = 0
    OBVIOUS
  <1> QED
    BY <1>1, EmptySeq

LEMMA JoinedClause ==
  ASSUME NEW clauses \in Seq(Seq(Factor) \ {<< >>}), clauses # << >>, NEW b \in Seq(Factor),
         Single(Last(clauses)), Single(b), Merges(Last(clauses), b)
  PROVE  LET m == Len(clauses)  joined == [neg |-> FALSE, tags |-> clauses[m][1].tags \cup b[1].tags]
         IN MergeNext(clauses, b) = [clauses EXCEPT ![m] = <<joined>>]
  <1> DEFINE m == Len(clauses)
             c == clauses[m]
             joined == [neg |-> FALSE, tags |-> c[1].tags \cup b[1].tags]
  <1>1. m \in Nat \ {0} /\ c \in Seq(Factor) /\ Len(c) = 1 /\ Len(b) = 1 /\ c[1] \in Factor /\ b[1] \in Factor
    <2>1. m \in Nat \ {0}
      BY EmptySeq, LenProperties
    <2>2. c \in Seq(Factor) /\ Len(c) = 1 /\ Len(b) = 1
      BY <2>1, ElementOfSeq DEF Single, Last
    <2> QED
      BY <2>1, <2>2, ElementOfSeq
  <1>2. c[1] \in TagFactor /\ b[1] \in TagFactor /\ c[1].neg = FALSE /\ b[1].neg = FALSE
    BY <1>1, FactorFacts DEF Single, Last
  <1>3. Last(clauses) = c /\ Last(c) = c[1] /\ Head(b) = b[1]
    BY <1>1 DEF Last
  <1>4. [Last(c) EXCEPT !.tags = @ \cup Head(b).tags] = joined
    <2>2. \A x, y : x = c[1] /\ y = b[1] => [x EXCEPT !.tags = @ \cup y.tags] = joined
      <3> SUFFICES ASSUME NEW x, NEW y, x = c[1], y = b[1] PROVE [x EXCEPT !.tags = @ \cup y.tags] = joined
        OBVIOUS
      <3>1. x \in TagFactor /\ x.neg = FALSE /\ y.tags \in SUBSET TagName
        BY <1>2, FactorFacts
      <3>2. [x EXCEPT !.tags = @ \cup y.tags] = [neg |-> x.neg, tags |-> x.tags \cup y.tags]
        BY <3>1, MoreTags
      <3> QED
        BY <3>1, <3>2
    <2> HIDE DEF joined, c
    <2> QED
      BY <1>3, <2>2
  <1>5. Front(c) = << >> /\ Tail(b) = << >>
    <2> HIDE DEF c
    <2>1. Front(c) = << >>
      <3>1. Front(c) = SubSeq(c, 1, 0)
        BY <1>1 DEF Front
      <3> QED
        BY <1>1, <3>1, SubSeqProperties, EmptySeq
    <2>2. Tail(b) = << >>
      BY <1>1, TailOfOne
    <2> QED
      BY <2>1, <2>2
  <1>6. MergeNext(clauses, b) = Append(Front(clauses), << >> \o <<joined>> \o << >>)
    <2> HIDE DEF joined
    <2> QED
      BY <1>3, <1>4, <1>5 DEF MergeNext
  <1>7. << >> \o <<joined>> \o << >> = <<joined>>
    OBVIOUS
  <1>8. Append(Front(clauses), <<joined>>) = [clauses EXCEPT ![m] = <<joined>>]
    <2> HIDE DEF joined, c
    <2>1. Front(clauses) = [k \in 1..(m - 1) |-> clauses[k]] /\ clauses = [k \in 1..m |-> clauses[k]]
      BY <1>1, LenProperties DEF Front
    <2>2. Len(Front(clauses)) = m - 1 /\ Front(clauses) \in Seq(Seq(Factor) \ {<< >>})
      BY <1>1 DEF Front
    <2>3. Append(Front(clauses), <<joined>>) = [k \in 1..m |-> IF k = m THEN <<joined>> ELSE clauses[k]]
      BY <1>1, <2>1, <2>2
    <2> QED
      BY <1>1, <2>1, <2>3
  <1> QED
    BY <1>6, <1>7, <1>8

LEMMA OneMore ==
  ASSUME NEW q \in Seq(Seq(Factor) \ {<< >>}), NEW n \in 0..(Len(q) - 1), NEW good, Joins(good), Plain(q),
         NEW clauses, Built(clauses, q, n, good)
  PROVE  Built(MergeNext(clauses, q[n + 1]), q, n + 1, good)
  <1> DEFINE m == Len(clauses)
             b == q[n + 1]
  <1>0. /\ n \in Nat /\ m \in Nat /\ n + 1 \in 1..Len(q) /\ Len(q) \in Nat
        /\ clauses \in Seq(Seq(Factor) \ {<< >>}) /\ b \in Seq(Factor) /\ b # << >>
        /\ \A k \in 1..m : clauses[k] \in Seq(Factor) /\ clauses[k] # << >>
        /\ \A k \in 1..(n + 1) : q[k] \in Seq(Factor) /\ q[k] # << >>
    <2>1. clauses \in Seq(Seq(Factor) \ {<< >>})
      BY DEF Built
    <2>2. Len(q) \in Nat /\ m \in Nat /\ n \in Nat /\ n + 1 \in 1..Len(q)
      BY <2>1, LenProperties
    <2>3. \A k \in 1..m : clauses[k] \in Seq(Factor) \ {<< >>}
      BY <2>1, ElementOfSeq
    <2>4. \A k \in 1..Len(q) : q[k] \in Seq(Factor) \ {<< >>}
      BY ElementOfSeq
    <2> QED
      BY <2>1, <2>2, <2>3, <2>4
  <1>1. CASE clauses # << >> /\ Merges(Last(clauses), b)
    <2>1. m > 0 /\ n > 0 /\ Last(clauses) = clauses[m]
      BY <1>0, <1>1, EmptySeq DEF Built, Last
    <2>2. Single(clauses[m]) /\ Single(b)
      <3>1. CASE clauses[m] = q[n]
        <4>1. Merges(q[n], q[n + 1]) /\ n \in 1..(Len(q) - 1)
          BY <1>0, <1>1, <2>1, <3>1
        <4>2. Len(q[n]) = 1 /\ Len(b) = 1 /\ ~Last(q[n]).neg
          BY <4>1 DEF Plain
        <4>3. Last(q[n]) = q[n][1] /\ Head(b) = b[1]
          BY <1>0, <4>2 DEF Last
        <4> QED
          BY <3>1, <4>1, <4>2, <4>3 DEF Single, Merges
      <3>2. CASE Single(clauses[m]) /\ Single(q[n])
        <4>1. Last(q[n]) = q[n][1]
          BY <3>2 DEF Last, Single
        <4>2. Merges(q[n], q[n + 1]) /\ n \in 1..(Len(q) - 1)
          BY <1>0, <1>1, <2>1, <3>2, <4>1 DEF Merges, Single
        <4>3. Len(b) = 1
          BY <4>2 DEF Plain
        <4>4. Head(b) = b[1]
          BY <1>0
        <4> QED
          BY <1>1, <3>2, <4>3, <4>4 DEF Single, Merges
      <3> QED
        BY <2>1, <3>1, <3>2 DEF Built
    <2> DEFINE S == clauses[m][1].tags
               T == b[1].tags
               joined == [neg |-> FALSE, tags |-> S \cup T]
    <2>3. MergeNext(clauses, b) = [clauses EXCEPT ![m] = <<joined>>]
      BY <1>0, <1>1, <2>1, <2>2, JoinedClause
    <2>4. /\ clauses[m][1] = [neg |-> FALSE, tags |-> S] /\ b[1] = [neg |-> FALSE, tags |-> T]
          /\ S \in SUBSET TagName /\ T \in SUBSET TagName
      <3>1. clauses[m] \in Seq(Factor) /\ Len(clauses[m]) = 1 /\ Len(b) = 1
        BY <1>0, <2>1, <2>2 DEF Single
      <3>2. clauses[m][1] \in Factor /\ b[1] \in Factor
        BY <1>0, <3>1, ElementOfSeq
      <3>3. clauses[m][1] \in TagFactor /\ b[1] \in TagFactor /\ clauses[m][1].neg = FALSE /\ b[1].neg = FALSE
        BY <2>2, <3>2, FactorFacts DEF Single
      <3> QED
        BY <3>3, FactorFacts
    <2>5. PICK new : new = [clauses EXCEPT ![m] = <<joined>>]
      OBVIOUS
    <2>6. /\ DOMAIN new = 1..m /\ Len(new) = m /\ new[m] = <<joined>>
          /\ \A k \in 1..(m - 1) : new[k] = clauses[k]
      <3> HIDE DEF joined
      <3> QED
        BY <1>0, <2>1, <2>5, LenProperties
    <2>7. <<joined>> \in Seq(Factor) \ {<< >>} /\ Single(<<joined>>)
      <3>1. joined \in TagFactor
        BY <2>4 DEF TagFactor
      <3>2. joined \in Factor /\ IsTag(joined) /\ joined.neg = FALSE
        BY <3>1, FactorFacts
      <3> HIDE DEF joined
      <3> QED
        BY <3>2 DEF Single
    <2>8. new \in Seq(Seq(Factor) \ {<< >>})
      <3> HIDE DEF joined
      <3> QED
        BY <1>0, <2>1, <2>5, <2>7, ExceptSeq
    <2>9. \A c : Single(c) => \A P : (\A f \in Range(c) : f \in P) <=> c[1] \in P
      BY DEF Single, Range
    <2>10. Means(new, m, good) <=> Means(q, n + 1, good)
      <3>1. (\A f \in Range(new[m]) : f \in good) <=> (\A f \in Range(clauses[m]) : f \in good) \/ (\A f \in Range(b) : f \in good)
        <4>1. (\A f \in Range(new[m]) : f \in good) <=> joined \in good
          <5> HIDE DEF joined
          <5> QED
            BY <2>6, <2>7, <2>9
        <4>2. (\A f \in Range(clauses[m]) : f \in good) <=> [neg |-> FALSE, tags |-> S] \in good
          BY <2>2, <2>4, <2>9
        <4>3. (\A f \in Range(b) : f \in good) <=> [neg |-> FALSE, tags |-> T] \in good
          BY <2>2, <2>4, <2>9
        <4>4. joined \in good <=> [neg |-> FALSE, tags |-> S] \in good \/ [neg |-> FALSE, tags |-> T] \in good
          BY <2>4 DEF Joins
        <4> QED
          BY <4>1, <4>2, <4>3, <4>4
      <3>2. Means(new, m, good) <=> Means(clauses, m, good) \/ (\A f \in Range(b) : f \in good)
        <4> HIDE DEF joined, b
        <4>1. 1..m = 1..(m - 1) \cup {m}
          BY <1>0, <2>1
        <4> QED
          BY <2>6, <3>1, <4>1 DEF Means
      <3>3. Means(q, n + 1, good) <=> Means(q, n, good) \/ (\A f \in Range(b) : f \in good)
        <4>1. 1..(n + 1) = 1..n \cup {n + 1}
          BY <1>0
        <4> QED
          BY <4>1 DEF Means
      <3>4. Means(clauses, m, good) <=> Means(q, n, good)
        BY DEF Built
      <3> QED
        BY <3>2, <3>3, <3>4
    <2>11. RequiresTag(new[m])
      <3>1. joined = <<joined>>[1] /\ 1 \in DOMAIN <<joined>>
        OBVIOUS
      <3>2. IsTag(joined) /\ ~joined.neg
        BY <2>7, <3>1 DEF Single
      <3>3. joined \in Range(new[m])
        BY <2>6, <3>1 DEF Range
      <3> HIDE DEF joined
      <3> QED
        BY <3>2, <3>3 DEF RequiresTag
    <2>12. (\A k \in 1..(n + 1) : k < Len(q) => RequiresTag(q[k])) =>
             \A k \in 1..m : k < m \/ n + 1 < Len(q) => RequiresTag(new[k])
      <3> SUFFICES ASSUME \A k \in 1..(n + 1) : k < Len(q) => RequiresTag(q[k]), NEW k \in 1..m
                   PROVE  RequiresTag(new[k])
        OBVIOUS
      <3>1. n < Len(q) /\ \A j \in 1..n : j < Len(q) => RequiresTag(q[j])
        BY <1>0
      <3>2. RequiresTag(clauses[k])
        BY <3>1 DEF Built
      <3>3. CASE k = m
        BY <2>11, <3>3
      <3>4. CASE k # m
        <4>1. new[k] = clauses[k]
          <5>1. k \in 1..(m - 1)
            BY <1>0, <3>4
          <5> HIDE DEF joined
          <5> QED
            BY <2>6, <5>1
        <4> QED
          BY <3>2, <4>1
      <3> QED
        BY <3>3, <3>4
    <2>13. MergeNext(clauses, b) = new
      BY <2>3, <2>5
    <2>14. /\ (n + 1 = 0 <=> Len(new) = 0) /\ Single(new[Len(new)])
      <3> HIDE DEF joined
      <3> QED
        BY <1>0, <2>1, <2>6, <2>7
    <2> HIDE DEF joined, b
    <2>15. ASSUME \A k \in 1..(n + 1) : OnlyTags(q[k]), NEW k \in 1..m PROVE OnlyTags(new[k])
      <3>1. k # m => k \in 1..(m - 1)
        BY <1>0
      <3>2. OnlyTags(clauses[k])
        BY <1>0, <2>15 DEF Built
      <3>3. OnlyTags(new[m])
        BY <2>6, <2>7 DEF OnlyTags, Single, Range
      <3> QED
        BY <2>6, <3>1, <3>2, <3>3
    <2>16. Built(new, q, n + 1, good)
      BY <2>2, <2>6, <2>8, <2>10, <2>12, <2>14, <2>15 DEF Built, b
    <2> QED
      BY <2>13, <2>16 DEF b
  <1>2. CASE ~(clauses # << >> /\ Merges(Last(clauses), b))
    <2>1. PICK new : new = Append(clauses, b)
      OBVIOUS
    <2>2. MergeNext(clauses, b) = new
      BY <1>2, <2>1 DEF MergeNext
    <2>3. /\ new \in Seq(Seq(Factor) \ {<< >>}) /\ Len(new) = m + 1 /\ new[m + 1] = b
          /\ \A k \in 1..m : new[k] = clauses[k]
      BY <1>0, <2>1, AppendProperties
    <2>4. Means(new, m + 1, good) <=> Means(q, n + 1, good)
      <3>1. 1..(m + 1) = 1..m \cup {m + 1} /\ 1..(n + 1) = 1..n \cup {n + 1}
        BY <1>0
      <3>2. Means(clauses, m, good) <=> Means(q, n, good)
        BY DEF Built
      <3>3. Means(new, m + 1, good) <=> Means(clauses, m, good) \/ (\A f \in Range(b) : f \in good)
        BY <2>3, <3>1 DEF Means
      <3>4. Means(q, n + 1, good) <=> Means(q, n, good) \/ (\A f \in Range(b) : f \in good)
        BY <3>1 DEF Means
      <3> QED
        BY <3>2, <3>3, <3>4
    <2>5. (\A k \in 1..(n + 1) : k < Len(q) => RequiresTag(q[k])) =>
             \A k \in 1..(m + 1) : k < m + 1 \/ n + 1 < Len(q) => RequiresTag(new[k])
      <3> SUFFICES ASSUME \A k \in 1..(n + 1) : k < Len(q) => RequiresTag(q[k]), NEW k \in 1..(m + 1),
                          k < m + 1 \/ n + 1 < Len(q)
                   PROVE  RequiresTag(new[k])
        OBVIOUS
      <3>1. n < Len(q) /\ \A j \in 1..n : j < Len(q) => RequiresTag(q[j])
        BY <1>0
      <3>2. CASE k = m + 1
        BY <1>0, <2>3, <3>2
      <3>3. CASE k # m + 1
        <4>1. k \in 1..m
          BY <1>0, <3>3
        <4> QED
          BY <2>3, <3>1, <4>1 DEF Built
      <3> QED
        BY <3>2, <3>3
    <2>6. (n + 1 = 0 <=> Len(new) = 0) /\ new[Len(new)] = q[n + 1]
      BY <1>0, <2>3
    <2>7. ASSUME \A k \in 1..(n + 1) : OnlyTags(q[k]), NEW k \in 1..(m + 1) PROVE OnlyTags(new[k])
      <3>0. m \in Nat
        BY <1>0
      <3>1. k # m + 1 => k \in 1..m
        BY <3>0
      <3>2. k \in 1..m => OnlyTags(clauses[k])
        BY <1>0, <2>7 DEF Built
      <3> QED
        BY <1>0, <2>3, <2>7, <3>1, <3>2
    <2>8. Built(new, q, n + 1, good)
      BY <1>0, <2>3, <2>4, <2>5, <2>6, <2>7 DEF Built
    <2> QED
      BY <2>2, <2>8
  <1> QED
    BY <1>1, <1>2

LEMMA WhereClauseMeans ==
  ASSUME NEW q \in AlternativesOf(Factor), Plain(q), NEW good, Joins(good)
  PROVE  Built(BuildWhereClause(q), q, Len(q), good)
  <1>0. q \in Seq(Seq(Factor) \ {<< >>}) /\ Len(q) \in Nat /\ DOMAIN q = 1..Len(q)
    BY LenProperties DEF AlternativesOf
  <1>1. PICK g : g = FoldRule(g, q) /\ BuildWhereClause(q) = g[DOMAIN q]
    BY <1>0, FoldsByRule
  <1> DEFINE K == {n \in Nat : n <= Len(q) => Built(g[1..n], q, n, good)}
  <1>2. 0 \in K
    <2>1. 1..0 = {} /\ g[{}] = << >>
      BY <1>1 DEF FoldRule
    <2>2. << >> \in Seq(Seq(Factor) \ {<< >>}) /\ Len(<< >>) = 0
      BY EmptySeq
    <2>3. Built(<< >>, q, 0, good)
      BY <2>2 DEF Built, Means
    <2> QED
      BY <2>1, <2>3
  <1>3. ASSUME NEW n \in Nat, n \in K PROVE n + 1 \in K
    <2> SUFFICES ASSUME n + 1 <= Len(q) PROVE Built(g[1..(n + 1)], q, n + 1, good)
      OBVIOUS
    <2>1. Built(g[1..n], q, n, good) /\ n \in 0..(Len(q) - 1)
      BY <1>0, <1>3
    <2>2. Max(1..(n + 1)) = n + 1
      <3>1. Max(1..(n + 1)) \in 1..(n + 1) /\ \A y \in 1..(n + 1) : Max(1..(n + 1)) >= y
        <4>1. n + 1 \in Nat /\ 1..(n + 1) \in SUBSET (1..(n + 1)) /\ n + 1 \in 1..(n + 1)
          OBVIOUS
        <4> QED
          BY <4>1, LargestIsIn
      <3>2. PICK m : m = Max(1..(n + 1))
        OBVIOUS
      <3> QED
        BY <3>1, <3>2
    <2>3. g[1..(n + 1)] = MergeNext(g[1..n], q[n + 1])
      <3>1. 1..(n + 1) \in SUBSET (DOMAIN q) /\ 1..(n + 1) # {} /\ (1..(n + 1)) \ {n + 1} = 1..n
        <4>1. 1..(n + 1) \in SUBSET (DOMAIN q)
          BY <1>0
        <4>2. n + 1 \in 1..(n + 1)
          OBVIOUS
        <4>3. (1..(n + 1)) \ {n + 1} = 1..n
          OBVIOUS
        <4> QED
          BY <4>1, <4>2, <4>3
      <3>2. g[1..(n + 1)] = MergeNext(g[(1..(n + 1)) \ {Max(1..(n + 1))}], q[Max(1..(n + 1))])
        BY <1>1, <3>1 DEF FoldRule
      <3> QED
        BY <2>2, <3>1, <3>2
    <2> QED
      BY <1>0, <2>1, <2>3, OneMore
  <1>4. Len(q) \in K
    <2> HIDE DEF K
    <2> QED
      BY <1>0, <1>2, <1>3, SetInduction
  <1> QED
    BY <1>0, <1>1, <1>4

(* What a factor holds of is closed under the joining of lists. *)
Satisfying(i, g) == {f \in Factor : Holds(f, i, g)}

LEMMA HoldsJoins == ASSUME NEW i, NEW g PROVE Joins(Satisfying(i, g))
  <1> SUFFICES ASSUME NEW S \in SUBSET TagName, NEW T \in SUBSET TagName
               PROVE  [neg |-> FALSE, tags |-> S \cup T] \in Satisfying(i, g)
                        <=> [neg |-> FALSE, tags |-> S] \in Satisfying(i, g) \/ [neg |-> FALSE, tags |-> T] \in Satisfying(i, g)
    BY DEF Joins
  <1>1. ASSUME NEW U \in SUBSET TagName
        PROVE  [neg |-> FALSE, tags |-> U] \in Satisfying(i, g) <=> GetItemTags(i, g) \cap U # {}
    <2>1. PICK f : f = [neg |-> FALSE, tags |-> U]
      OBVIOUS
    <2>2. f \in TagFactor /\ f.neg = FALSE /\ f.tags = U
      BY <2>1 DEF TagFactor
    <2>3. f \in Factor /\ IsTag(f)
      BY <2>2, FactorFacts
    <2>4. Holds(f, i, g) <=> GetItemTags(i, g) \cap U # {}
      BY <2>2, <2>3 DEF Holds, HoldsFlat
    <2> QED
      BY <2>1, <2>3, <2>4 DEF Satisfying
  <1>2. S \cup T \in SUBSET TagName
    OBVIOUS
  <1> QED
    BY <1>1, <1>2

LEMMA ByIndex ==
  ASSUME NEW T, NEW q \in Seq(T)
  PROVE  /\ \A good : Means(q, Len(q), good) <=> \E c \in Range(q) : \A f \in Range(c) : f \in good
         /\ \A k \in 1..Len(q) : q[k] \in T
  <1>1. Range(q) = {q[k] : k \in 1..Len(q)}
    BY LenProperties DEF Range
  <1> QED
    BY <1>1, ElementOfSeq DEF Means

LEMMA ElementsAre == ASSUME NEW T, NEW c \in Seq(T) PROVE \A f \in Range(c) : f \in T
  BY LenProperties, ElementOfSeq DEF Range

LEMMA HoldsAnyMeans ==
  ASSUME NEW clauses \in Seq(Seq(Factor) \ {<< >>}), \A k \in 1..Len(clauses) : OnlyTags(clauses[k]), NEW i, NEW g
  PROVE  HoldsAny(clauses, i, g) <=> Means(clauses, Len(clauses), Satisfying(i, g))
  <1>1. \A k \in 1..Len(clauses) : clauses[k] \in Seq(Factor)
    BY ByIndex
  <1>2. \A k \in 1..Len(clauses) : \A f \in Range(clauses[k]) : f \in Satisfying(i, g) <=> HoldsFlat(f, i, g)
    <2> SUFFICES ASSUME NEW k \in 1..Len(clauses), NEW f \in Range(clauses[k]) PROVE f \in Satisfying(i, g) <=> HoldsFlat(f, i, g)
      OBVIOUS
    <2>1. f \in Factor /\ IsTag(f)
      BY <1>1, ElementsAre DEF OnlyTags
    <2> QED
      BY <2>1 DEF Satisfying, Holds
  <1>3. Range(clauses) = {clauses[k] : k \in 1..Len(clauses)}
    BY LenProperties DEF Range
  <1> QED
    BY <1>2, <1>3 DEF HoldsAny, Means

LEMMA TagAlternatives == AlternativesOf(TagFactor) \subseteq AlternativesOf(Factor)
  <1>1. TagFactor \subseteq Factor
    BY DEF Factor
  <1>2. Seq(TagFactor) \ {<< >>} \subseteq Seq(Factor) \ {<< >>}
    BY <1>1
  <1>3. Seq(Seq(TagFactor) \ {<< >>}) \subseteq Seq(Seq(Factor) \ {<< >>})
    BY <1>2
  <1> QED
    BY <1>3 DEF AlternativesOf

(* What a factor says is what the statement for it holds of. *)
LEMMA SaysIsHolds ==
  ASSUME NEW f \in Factor, IsTag(f) \/ Plain(f.sub), NEW i, NEW g
  PROVE  Says(f, i, g) <=> Holds(f, i, g)
  <1>1. CASE IsTag(f)
    BY <1>1 DEF Says, Holds
  <1>2. CASE ~IsTag(f)
    <2>1. f.sub \in AlternativesOf(Factor) /\ f.sub \in AlternativesOf(TagFactor) /\ f.neg \in BOOLEAN
      BY <1>2, FactorFacts, TagAlternatives
    <2> DEFINE w == BuildWhereClause(f.sub)
    <2>2. Built(w, f.sub, Len(f.sub), Satisfying(i, g))
      BY <1>2, <2>1, HoldsJoins, WhereClauseMeans
    <2>3. f.sub \in Seq(Seq(TagFactor) \ {<< >>}) /\ \A k \in 1..Len(f.sub) : OnlyTags(f.sub[k])
      <3>1. f.sub \in Seq(Seq(TagFactor) \ {<< >>})
        BY <2>1 DEF AlternativesOf
      <3>2. \A k \in 1..Len(f.sub) : f.sub[k] \in Seq(TagFactor)
        BY <3>1, ByIndex
      <3> QED
        BY <3>1, <3>2, FactorFacts, ElementsAre DEF OnlyTags
    <2>4. w \in Seq(Seq(Factor) \ {<< >>}) /\ \A k \in 1..Len(w) : OnlyTags(w[k])
      BY <2>2, <2>3 DEF Built
    <2>5. HoldsAny(f.sub, i, g) <=> Means(f.sub, Len(f.sub), Satisfying(i, g))
      <3>1. f.sub \in Seq(Seq(Factor) \ {<< >>})
        BY <2>1 DEF AlternativesOf
      <3> QED
        BY <2>3, <3>1, HoldsAnyMeans
    <2>6. HoldsAny(w, i, g) <=> Means(w, Len(w), Satisfying(i, g))
      BY <2>4, HoldsAnyMeans
    <2> HIDE DEF w
    <2>7. Means(w, Len(w), Satisfying(i, g)) <=> Means(f.sub, Len(f.sub), Satisfying(i, g))
      BY <2>2 DEF Built
    <2>8. HoldsAny(f.sub, i, g) = HoldsAny(w, i, g)
      <3>1. HoldsAny(f.sub, i, g) \in BOOLEAN /\ HoldsAny(w, i, g) \in BOOLEAN
        BY DEF HoldsAny
      <3> QED
        BY <2>5, <2>6, <2>7, <3>1
    <2> QED
      BY <1>2, <2>8 DEF Says, Holds, w
  <1> QED
    BY <1>1, <1>2

LEMMA AnswersAreWritten == SearchAsWritten
  <1> SUFFICES ASSUME NEW q \in Queries, NEW g \in Guild, AllPlain(q)
               PROVE  /\ SearchTags(q, g) = Answer1(q, g)
                      /\ (\A k \in 1..(Len(q) - 1) : \E f \in Range(q[k]) : IsTag(f) /\ ~f.neg) => Tags(q, g) = Answer1(q, g)
    BY DEF SearchAsWritten
  <1> DEFINE w == BuildWhereClause(q)
             Fits(clauses, i) == \E c \in Range(clauses) : \A f \in Range(c) : Holds(f, i, g)
  <1>1. q \in AlternativesOf(Factor) /\ q \in Seq(Seq(Factor) \ {<< >>}) /\ Plain(q)
    BY QueryAssumption DEF AlternativesOf, AllPlain
  <1>2. ASSUME NEW i PROVE Built(w, q, Len(q), Satisfying(i, g))
    BY <1>1, HoldsJoins, WhereClauseMeans
  <1>3. w \in Seq(Seq(Factor) \ {<< >>}) /\ Len(w) \in Nat /\ DOMAIN w = 1..Len(w)
    <2>1. w \in Seq(Seq(Factor) \ {<< >>})
      BY <1>2 DEF Built
    <2> HIDE DEF w
    <2> QED
      BY <2>1, LenProperties
  <1>4. ASSUME NEW c \in Seq(Seq(Factor) \ {<< >>}), NEW i PROVE Fits(c, i) <=> Means(c, Len(c), Satisfying(i, g))
    <2>1. \A a \in Range(c) : \A f \in Range(a) : f \in Satisfying(i, g) <=> Holds(f, i, g)
      BY ElementsAre DEF Satisfying
    <2>2. Range(c) = {c[k] : k \in 1..Len(c)}
      BY LenProperties DEF Range
    <2> QED
      BY <2>1, <2>2 DEF Means
  <1>5. ASSUME NEW i PROVE Fits(w, i) <=> Fits(q, i)
    <2> HIDE DEF Fits, w
    <2> QED
      BY <1>1, <1>2, <1>3, <1>4 DEF Built
  <1>6. ASSUME NEW i PROVE Fits(q, i) <=> \E c \in Range(q) : \A f \in Range(c) : Says(f, i, g)
    <2>1. ASSUME NEW c \in Range(q), NEW f \in Range(c) PROVE Says(f, i, g) <=> Holds(f, i, g)
      <3>1. f \in Factor
        BY <1>1, <2>1, ElementsAre
      <3>2. IsTag(f) \/ Plain(f.sub)
        BY <2>1 DEF AllPlain
      <3> QED
        BY <3>1, <3>2, SaysIsHolds
    <2> QED
      BY <2>1
  <1>7. SearchTags(q, g) = Answer1(q, g)
    <2>1. \A i : Fits(w, i) <=> \E c \in Range(q) : \A f \in Range(c) : Says(f, i, g)
      <3> HIDE DEF Fits, w
      <3> QED
        BY <1>5, <1>6
    <2> QED
      BY <2>1 DEF SearchTags, Answer1
  <1>8. ASSUME \A k \in 1..(Len(q) - 1) : \E f \in Range(q[k]) : IsTag(f) /\ ~f.neg
        PROVE  Tags(q, g) = SearchTags(q, g)
    <2>1. \A k \in 1..(Len(w) - 1) : RequiresTag(w[k])
      <3>1. \A k \in 1..Len(q) : k < Len(q) => RequiresTag(q[k])
        <4>1. Len(q) \in Nat
          BY <1>1, LenProperties
        <4> QED
          BY <1>8, <4>1 DEF RequiresTag
      <3>2. \A k \in 1..Len(w) : k < Len(w) => RequiresTag(w[k])
        BY <1>2, <3>1 DEF Built
      <3> HIDE DEF w
      <3> QED
        BY <1>3, <3>2
    <2> DEFINE Matches(k, i) == \A f \in Range(w[k]) : Holds(f, i, g)
               bound == {l \in Rows : \E k \in DOMAIN w : Matches(k, l[1]) /\ (k = Len(w) => l[2] \in OfGuild(g))}
               own == {l \in Rows : l[2] \in OfGuild(g) /\ \E c \in Range(w) : \A f \in Range(c) : Holds(f, l[1], g)}
    <2>2. Tags(q, g) = ContentsOf(bound) /\ SearchTags(q, g) = ContentsOf(own)
      BY DEF Tags, SearchTags
    <2>3. own \subseteq bound
      BY DEF Range
    <2>4. ASSUME NEW l \in bound PROVE \E r \in own : r[1] = l[1]
      <3>1. PICK k \in DOMAIN w : Matches(k, l[1]) /\ (k = Len(w) => l[2] \in OfGuild(g))
        OBVIOUS
      <3>2. CASE k = Len(w)
        BY <3>1, <3>2 DEF Range
      <3>3. CASE k # Len(w)
        <4>1. k \in 1..(Len(w) - 1)
          <5> HIDE DEF w
          <5> QED
            BY <1>3, <3>1, <3>3
        <4>2. PICK f \in Range(w[k]) : IsTag(f) /\ ~f.neg
          BY <2>1, <4>1 DEF RequiresTag
        <4>3. HoldsFlat(f, l[1], g)
          BY <3>1, <4>2 DEF Holds
        <4>4. f.neg = FALSE
          <5>1. w[k] \in Seq(Factor)
            <6> HIDE DEF w
            <6> QED
              BY <1>3, <3>1, ByIndex
          <5>2. f \in Factor
            <6> HIDE DEF w
            <6> QED
              BY <4>2, <5>1, ElementsAre
          <5> QED
            BY <4>2, <5>2, FactorFacts
        <4>5. GetItemTags(l[1], g) # {}
          BY <4>3, <4>4 DEF HoldsFlat
        <4>6. PICK s \in tagRows : s.guild = g /\ <<l[1], s.id>> \in links
          BY <4>5 DEF GetItemTags
        <4>7. PICK r : r = <<l[1], s.id>>
          OBVIOUS
        <4>8. r[1] = l[1] /\ r[2] \in OfGuild(g) /\ r \in Rows
          BY <4>6, <4>7 DEF OfGuild, Rows
        <4>9. \E c \in Range(w) : \A h \in Range(c) : Holds(h, r[1], g)
          BY <3>1, <4>8 DEF Range
        <4> QED
          BY <4>8, <4>9
      <3> QED
        BY <3>2, <3>3
    <2> HIDE DEF bound, own
    <2> QED
      BY <2>2, <2>3, <2>4 DEF ContentsOf
  <1> QED
    BY <1>7, <1>8

(* !searchtags and !tags answer what the query says: for every query, however the *)
(* statement for it is put together, and whatever the tables hold.                *)
THEOREM SearchesAnswerAsWritten == TSpec => []SearchAsWritten
  BY AnswersAreWritten, PTL

-----------------------------------------------------------------------------
(* Migration.  Block by block, what a file says of its commands is carried over; *)
(* the block for version 26 gives autosilence its new name.                     *)

HasMods(c) == c.modRole # ""

Formed(c) == c = [x \in ConfigFields |-> c[x]] /\ c.version \in 0..ConfigVersion

(* d is c with the commands S restricted of which c says nothing. *)
Keeps(c, d, S) ==
  /\ Formed(d) /\ d.version = c.version
  /\ DOMAIN d.commandRoles = DOMAIN c.commandRoles \cup (IF HasMods(c) THEN S ELSE {})
  /\ \A x \in DOMAIN c.commandRoles : d.commandRoles[x] = c.commandRoles[x]
  /\ HasMods(c) => \A x \in S \ DOMAIN c.commandRoles : d.commandRoles[x] = c.modRole

(* The names, before the block for version v, of the commands a file of configuration o has *)
(* restricted, and the moderators' role then, m being the AlertRole of the file.            *)
NameIn(o, v, x) == IF x = "autosilence" /\ o.version <= 26 /\ v > 26 THEN "raidsilence" ELSE x
NamesIn(o, v) == {NameIn(o, v, x) : x \in DOMAIN o.commandRoles}
ModsIn(o, m, v) == IF o.version <= 20 /\ v > 20 THEN m ELSE o.modRole

(* The versions before v that restrict commands a file of o's version does not know. *)
Since(o, v) == {w \in 21..30 : o.version <= w /\ w < v}
SinceThen(o, v) == UNION {NewCommands[w] : w \in Since(o, v)}
Restricted(o, c, v) ==
  /\ DOMAIN c.commandRoles = NamesIn(o, v) \cup (IF HasMods(c) THEN SinceThen(o, v) ELSE {})
  /\ HasMods(c) => \A x \in SinceThen(o, v) \ NamesIn(o, v) : c.commandRoles[x] = c.modRole

(* c, after the blocks before v, has what the configuration o of a file says. *)
Carried(o, m, c, v) ==
  /\ Formed(c) /\ c.modRole = ModsIn(o, m, v)
  /\ \A x \in DOMAIN o.commandRoles : c.commandRoles[NameIn(o, v, x)] = o.commandRoles[x]
  /\ Restricted(o, c, v)

(* A file of an earlier version has no ModRole, nor a command called raidsilence. *)
Early(o) == (o.version <= 20 => o.modRole = "") /\ (o.version <= 26 => "raidsilence" \notin DOMAIN o.commandRoles)

LEMMA OtherFields ==
  ASSUME NEW c, Formed(c), NEW f \in ConfigFields \ {"version", "commandRoles"}, NEW y,
         NEW d, d = [c EXCEPT ![f] = y]
  PROVE  Keeps(c, d, {}) /\ (f # "modRole" => d.modRole = c.modRole) /\ d[f] = y
  <1>1. Formed(d) /\ d.version = c.version /\ d.commandRoles = c.commandRoles /\ d[f] = y
    BY DEF Formed, ConfigFields
  <1>2. ASSUME f # "modRole" PROVE d.modRole = c.modRole
    BY <1>2 DEF Formed, ConfigFields
  <1> QED
    BY <1>1, <1>2 DEF Keeps

LEMMA ResetKeeps == ASSUME NEW c, Formed(c), NEW S PROVE Keeps(c, Reset(c, S), {}) /\ Reset(c, S).modRole = c.modRole
  <1>1. "replaced" \in ConfigFields \ {"version", "commandRoles"}
    BY DEF ConfigFields
  <1> QED
    BY <1>1, OtherFields DEF Reset

LEMMA RestrictKeeps ==
  ASSUME NEW c, Formed(c), NEW S
  PROVE  Keeps(c, RestrictCommand(c, S), S) /\ RestrictCommand(c, S).modRole = c.modRole
  <1>1. CASE ~HasMods(c)
    BY <1>1 DEF RestrictCommand, HasMods, Keeps
  <1>2. CASE HasMods(c)
    <2>1. PICK r : r = [x \in DOMAIN c.commandRoles \cup S |-> IF x \in DOMAIN c.commandRoles THEN c.commandRoles[x] ELSE c.modRole]
      OBVIOUS
    <2>2. RestrictCommand(c, S) = [c EXCEPT !.commandRoles = r]
      BY <1>2, <2>1 DEF RestrictCommand, HasMods
    <2>3. PICK d : d = [c EXCEPT !.commandRoles = r]
      OBVIOUS
    <2>4. Formed(d) /\ d.version = c.version /\ d.commandRoles = r /\ d.modRole = c.modRole
      BY <2>3 DEF Formed, ConfigFields
    <2>5. Keeps(c, d, S)
      BY <1>2, <2>1, <2>4 DEF Keeps
    <2> QED
      BY <2>2, <2>3, <2>4, <2>5
  <1> QED
    BY <1>1, <1>2

LEMMA KeepsOn ==
  ASSUME NEW c, NEW d, NEW e, NEW S, Keeps(c, d, S), Keeps(d, e, {})
  PROVE  Keeps(c, e, S)
  <1>1. DOMAIN e.commandRoles = DOMAIN d.commandRoles
    BY DEF Keeps
  <1> QED
    BY <1>1 DEF Keeps

LEMMA NewNames ==
  \A v \in 11..30 : "raidsilence" \notin NewCommands[v] /\ "autosilence" \notin NewCommands[v]
  BY DEF NewCommands

LEMMA ModRoleKeeps ==
  ASSUME NEW c, Formed(c) PROVE Keeps(c, ModRoleBlock(c), {}) /\ ModRoleBlock(c).modRole = old.alertRole
  <1>0. {"modRole", "lists", "notify", "raidSilence", "channels"} \subseteq ConfigFields \ {"version", "commandRoles"}
    BY DEF ConfigFields
  <1>1. ASSUME NEW d, Formed(d), NEW f \in ConfigFields \ {"version", "commandRoles"}, NEW y,
               NEW g \in ConfigFields \ {"version", "commandRoles"}, NEW z
        PROVE  Keeps(d, [d EXCEPT ![f] = y, ![g] = z], {})
    <2>1. PICK e : e = [d EXCEPT ![f] = y, ![g] = z]
      OBVIOUS
    <2>2. Formed(e) /\ e.version = d.version /\ e.commandRoles = d.commandRoles
      BY <1>1, <2>1 DEF Formed, ConfigFields
    <2> QED
      BY <2>1, <2>2 DEF Keeps
  <1>2. ASSUME NEW d, Formed(d) PROVE Keeps(d, Lists(d), {}) /\ Lists(d).modRole = old.alertRole
    <2>1. Keeps(d, Lists(d), {})
      BY <1>0, <1>1, <1>2 DEF Lists
    <2>2. Lists(d).modRole = old.alertRole
      BY <1>2 DEF Lists, Formed, ConfigFields
    <2> QED
      BY <2>1, <2>2
  <1>3. ASSUME NEW d, Formed(d) PROVE Keeps(d, Notify(d), {}) /\ Notify(d).modRole = d.modRole
    <2>1. Keeps(d, Notify(d), {})
      BY <1>0, <1>1, <1>3 DEF Notify
    <2>2. Notify(d).modRole = d.modRole
      BY <1>3 DEF Notify, Formed, ConfigFields
    <2> QED
      BY <2>1, <2>2
  <1>4. ASSUME NEW d, Formed(d) PROVE Keeps(d, ModuleNames(d), {}) /\ ModuleNames(d).modRole = d.modRole
    BY <1>0, <1>4, OtherFields DEF ModuleNames
  <1>5. PICK d : d = Lists(c)
    OBVIOUS
  <1>6. PICK e : e = Notify(d)
    OBVIOUS
  <1>7. Keeps(c, d, {}) /\ Formed(d) /\ d.modRole = old.alertRole
    BY <1>2, <1>5 DEF Keeps
  <1>8. Keeps(d, e, {}) /\ Formed(e) /\ e.modRole = old.alertRole
    BY <1>3, <1>6, <1>7 DEF Keeps
  <1>9. Keeps(e, ModuleNames(e), {}) /\ ModuleNames(e).modRole = old.alertRole
    BY <1>4, <1>8
  <1>10. ModRoleBlock(c) = ModuleNames(e)
    BY <1>5, <1>6 DEF ModRoleBlock
  <1> QED
    BY <1>7, <1>8, <1>9, <1>10, KeepsOn

LEMMA RestrictThenReset ==
  ASSUME NEW c, Formed(c), NEW S, NEW N
  PROVE  LET d == Reset(RestrictCommand(c, S), N)
         IN Keeps(c, d, S) /\ d.modRole = c.modRole
  <1>1. PICK e : e = RestrictCommand(c, S)
    OBVIOUS
  <1>2. Keeps(c, e, S) /\ Formed(e) /\ e.modRole = c.modRole
    BY <1>1, RestrictKeeps DEF Keeps
  <1>3. Keeps(e, Reset(e, N), {}) /\ Reset(e, N).modRole = e.modRole
    BY <1>2, ResetKeeps
  <1>4. Keeps(c, Reset(e, N), S)
    BY <1>2, <1>3, KeepsOn
  <1> QED
    BY <1>1, <1>2, <1>3, <1>4

LEMMA BlockKeeps ==
  ASSUME NEW c, Formed(c), NEW v \in 11..30, v # 26
  PROVE  Keeps(c, Block(v, c), NewCommands[v]) /\ Block(v, c).modRole = (IF v = 20 THEN old.alertRole ELSE c.modRole)
  <1>0. \A w \in {12, 16, 17, 20, 27} : NewCommands[w] = {}
    BY DEF NewCommands
  <1>1. CASE v = 12
    BY <1>0, <1>1, ResetKeeps DEF Block, PressureBlock
  <1>2. CASE v = 15
    <2>1. Block(v, c) = Reset(RestrictCommand(c, NewCommands[15]), {"lockdownduration"})
      BY <1>2 DEF Block, LockdownBlock
    <2> QED
      BY <1>2, <2>1, RestrictThenReset
  <1>3. CASE v = 16
    BY <1>0, <1>3, ResetKeeps DEF Block, PrefixBlock
  <1>4. CASE v = 17
    BY <1>0, <1>4, ResetKeeps DEF Block, SetupBlock
  <1>5. CASE v = 18
    <2>1. Block(v, c) = Reset(RestrictCommand(c, NewCommands[18]), {"linepressure"})
      BY <1>5 DEF Block, RaidBlock
    <2> QED
      BY <1>5, <2>1, RestrictThenReset
  <1>6. CASE v = 20
    BY <1>0, <1>6, ModRoleKeeps DEF Block
  <1>7. CASE v = 27
    BY <1>0, <1>7, ResetKeeps DEF Block, ExponentBlock
  <1>8. CASE v \notin {12, 15, 16, 17, 18, 20, 27}
    <2>1. Block(v, c) = RestrictCommand(c, NewCommands[v])
      BY <1>8 DEF Block
    <2>2. PICK S : S = NewCommands[v]
      OBVIOUS
    <2> QED
      BY <1>8, <2>1, <2>2, RestrictKeeps
  <1> QED
    BY <1>1, <1>2, <1>3, <1>4, <1>5, <1>6, <1>7, <1>8

LEMMA SinceNext ==
  ASSUME NEW o, o.version \in Nat, NEW v \in 11..30
  PROVE  SinceThen(o, v + 1) = SinceThen(o, v) \cup (IF v >= 21 /\ o.version <= v THEN NewCommands[v] ELSE {})
  <1>1. Since(o, v + 1) = Since(o, v) \cup (IF v >= 21 /\ o.version <= v THEN {v} ELSE {})
    BY DEF Since
  <1> QED
    BY <1>1 DEF SinceThen

(* A block that restricts S, of a file that is not beyond it, and none of one that is. *)
LEMMA CarriedOn ==
  ASSUME NEW o, o.version \in Nat, Early(o), NEW m, NEW c, NEW v \in 11..30, Carried(o, m, c, v),
         o.version <= 26 => v # 26, NEW S, NEW d, Keeps(c, d, S),
         IF o.version <= v THEN S = NewCommands[v] ELSE S = {},
         d.modRole = (IF v = 20 /\ o.version <= v THEN m ELSE c.modRole)
  PROVE  Carried(o, m, d, v + 1)
  <1>1. NamesIn(o, v + 1) = NamesIn(o, v) /\ \A x : NameIn(o, v + 1, x) = NameIn(o, v, x)
    BY DEF NameIn, NamesIn
  <1>2. d.modRole = ModsIn(o, m, v + 1)
    BY DEF Carried, ModsIn
  <1>3. ASSUME NEW x \in DOMAIN o.commandRoles PROVE d.commandRoles[NameIn(o, v + 1, x)] = o.commandRoles[x]
    <2>1. NameIn(o, v, x) \in DOMAIN c.commandRoles
      BY DEF Carried, Restricted, NamesIn
    <2> QED
      BY <1>1, <2>1 DEF Carried, Keeps
  <1>4. CASE v >= 21
    <2>0. v # 20
      BY <1>4
    <2>1. d.modRole = c.modRole /\ (HasMods(d) <=> HasMods(c))
      BY <2>0 DEF HasMods
    <2>2. SinceThen(o, v + 1) = SinceThen(o, v) \cup S
      BY <1>4, SinceNext
    <2>3. DOMAIN d.commandRoles = NamesIn(o, v + 1) \cup (IF HasMods(d) THEN SinceThen(o, v + 1) ELSE {})
      BY <1>1, <2>1, <2>2 DEF Carried, Restricted, Keeps
    <2>4. ASSUME HasMods(d), NEW x \in SinceThen(o, v + 1) \ NamesIn(o, v + 1) PROVE d.commandRoles[x] = d.modRole
      <3>1. CASE x \in DOMAIN c.commandRoles
        <4>1. x \in SinceThen(o, v)
          BY <1>1, <2>1, <2>4, <3>1 DEF Carried, Restricted
        <4> QED
          BY <1>1, <2>1, <2>4, <3>1, <4>1 DEF Carried, Restricted, Keeps
      <3>2. CASE x \notin DOMAIN c.commandRoles
        <4>1. x \in S
          BY <2>1, <2>2, <2>4, <3>2 DEF Carried, Restricted
        <4> QED
          BY <2>1, <2>4, <3>2, <4>1 DEF Keeps
      <3> QED
        BY <3>1, <3>2
    <2>5. Restricted(o, d, v + 1)
      BY <2>3, <2>4 DEF Restricted
    <2> QED
      BY <1>2, <1>3, <2>5 DEF Carried, Keeps
  <1>5. CASE v <= 20
    <2>1. SinceThen(o, v + 1) = {} /\ SinceThen(o, v) = {}
      BY <1>5 DEF SinceThen, Since
    <2>0. c.modRole = o.modRole
      BY <1>5 DEF Carried, ModsIn
    <2>2. ~HasMods(c) \/ S = {}
      <3>1. CASE o.version <= 20
        BY <2>0, <3>1 DEF Early, HasMods
      <3>2. CASE ~(o.version <= 20)
        <4>1. ~(o.version <= v)
          BY <1>5, <3>2
        <4> QED
          BY <4>1
      <3> QED
        BY <3>1, <3>2
    <2>3. DOMAIN d.commandRoles = DOMAIN c.commandRoles
      BY <2>2 DEF Keeps
    <2>4. Restricted(o, d, v + 1)
      BY <1>1, <2>1, <2>3 DEF Carried, Restricted
    <2> QED
      BY <1>2, <1>3, <2>4 DEF Carried, Keeps
  <1> QED
    BY <1>4, <1>5

LEMMA RenameCarries ==
  ASSUME NEW o, o.version \in Nat, o.version <= 26, Early(o), NEW m, NEW c, Carried(o, m, c, 26)
  PROVE  LET d == RaidSilenceBlock(c) IN Carried(o, m, d, 27) /\ d.version = c.version
  <1>1. PICK e : e = [c EXCEPT !.raidSilence = old.autoSilence]
    OBVIOUS
  <1>2. Formed(e) /\ e.version = c.version /\ e.modRole = c.modRole /\ e.commandRoles = c.commandRoles
    BY <1>1 DEF Carried, Formed, ConfigFields
  <1>3. PICK h : h = Rename(e, "autosilence", "raidsilence")
    OBVIOUS
  <1>4. Formed(h) /\ h.version = c.version /\ h.modRole = c.modRole /\ h.commandRoles = MovedKey(c.commandRoles, "autosilence", "raidsilence")
    BY <1>2, <1>3 DEF Rename, Formed, ConfigFields
  <1>5. \A x : NameIn(o, 26, x) = x
    BY DEF NameIn
  <1>6. NamesIn(o, 26) = DOMAIN o.commandRoles
    BY <1>5 DEF NamesIn
  <1>7. "raidsilence" \notin SinceThen(o, 26) /\ "autosilence" \notin SinceThen(o, 26)
        /\ "raidsilence" \notin NewCommands[26] /\ "autosilence" \notin NewCommands[26]
    <2>1. \A w \in 21..30 : w \in 11..30
      OBVIOUS
    <2> QED
      BY <2>1, NewNames DEF SinceThen, Since
  <1>8. "raidsilence" \notin DOMAIN c.commandRoles
    BY <1>6, <1>7 DEF Carried, Restricted, Early
  <1>9. DOMAIN h.commandRoles = Moved(DOMAIN c.commandRoles, "autosilence", "raidsilence")
    BY <1>4, <1>8 DEF MovedKey, Moved
  <1>10. \A x \in DOMAIN c.commandRoles \ {"autosilence"} : h.commandRoles[x] = c.commandRoles[x]
    BY <1>4, <1>8 DEF MovedKey, Moved
  <1>11. "autosilence" \in DOMAIN c.commandRoles => h.commandRoles["raidsilence"] = c.commandRoles["autosilence"]
    BY <1>4 DEF MovedKey, Moved
  <1>12. PICK d : d = RestrictCommand(h, NewCommands[26])
    OBVIOUS
  <1>13. Keeps(h, d, NewCommands[26]) /\ d.modRole = h.modRole
    BY <1>4, <1>12, RestrictKeeps
  <1>14. d = RaidSilenceBlock(c)
    BY <1>1, <1>3, <1>12 DEF RaidSilenceBlock
  <1>15. NamesIn(o, 27) = Moved(DOMAIN o.commandRoles, "autosilence", "raidsilence")
    <2>1. \A x : NameIn(o, 27, x) = IF x = "autosilence" THEN "raidsilence" ELSE x
      BY DEF NameIn
    <2> QED
      BY <2>1 DEF NamesIn, Moved
  <1>16. SinceThen(o, 27) = SinceThen(o, 26) \cup NewCommands[26]
    <2>1. SinceThen(o, 26 + 1) = SinceThen(o, 26) \cup (IF 26 >= 21 /\ o.version <= 26 THEN NewCommands[26] ELSE {})
      BY SinceNext
    <2> QED
      BY <2>1
  <1>17. DOMAIN c.commandRoles = DOMAIN o.commandRoles \cup (IF HasMods(c) THEN SinceThen(o, 26) ELSE {})
    BY <1>6 DEF Carried, Restricted
  <1>18. DOMAIN h.commandRoles = NamesIn(o, 27) \cup (IF HasMods(c) THEN SinceThen(o, 26) ELSE {})
    BY <1>7, <1>9, <1>15, <1>17 DEF Moved
  <1>19. (HasMods(h) <=> HasMods(c)) /\ (HasMods(d) <=> HasMods(c))
    BY <1>4, <1>13 DEF HasMods
  <1>20. DOMAIN d.commandRoles = NamesIn(o, 27) \cup (IF HasMods(d) THEN SinceThen(o, 27) ELSE {})
    BY <1>13, <1>16, <1>18, <1>19 DEF Keeps
  <1>21. ASSUME HasMods(d), NEW x \in SinceThen(o, 27) \ NamesIn(o, 27) PROVE d.commandRoles[x] = d.modRole
    <2>1. x # "autosilence" /\ x # "raidsilence" /\ x \notin DOMAIN o.commandRoles
      BY <1>7, <1>15, <1>16, <1>21 DEF Moved
    <2>2. CASE x \in SinceThen(o, 26)
      <3>1. c.commandRoles[x] = c.modRole /\ x \in DOMAIN c.commandRoles
        BY <1>6, <1>17, <1>19, <1>21, <2>1, <2>2 DEF Carried, Restricted
      <3>2. h.commandRoles[x] = c.modRole /\ x \in DOMAIN h.commandRoles
        BY <1>10, <1>18, <1>19, <1>21, <2>1, <2>2, <3>1
      <3> QED
        BY <1>4, <1>13, <3>2 DEF Keeps
    <2>3. CASE x \notin SinceThen(o, 26)
      <3>1. x \in NewCommands[26] \ DOMAIN h.commandRoles
        BY <1>16, <1>18, <1>21, <2>3
      <3> QED
        BY <1>4, <1>13, <1>19, <1>21, <3>1 DEF Keeps
    <2> QED
      BY <2>2, <2>3
  <1>22. ASSUME NEW x \in DOMAIN o.commandRoles PROVE d.commandRoles[NameIn(o, 27, x)] = o.commandRoles[x]
    <2>1. x \in DOMAIN c.commandRoles /\ c.commandRoles[x] = o.commandRoles[x]
      BY <1>5, <1>17 DEF Carried
    <2>2. CASE x = "autosilence"
      <3>1. NameIn(o, 27, x) = "raidsilence" /\ "raidsilence" \in DOMAIN h.commandRoles
        BY <1>9, <2>1, <2>2 DEF NameIn, Moved
      <3> QED
        BY <1>11, <1>13, <2>1, <2>2, <3>1 DEF Keeps
    <2>3. CASE x # "autosilence"
      <3>1. NameIn(o, 27, x) = x /\ x \in DOMAIN h.commandRoles
        BY <1>9, <2>1, <2>3 DEF NameIn, Moved
      <3> QED
        BY <1>10, <1>13, <2>1, <2>3, <3>1 DEF Keeps
    <2> QED
      BY <2>2, <2>3
  <1>23. Restricted(o, d, 27)
    BY <1>20, <1>21 DEF Restricted
  <1>24. d.modRole = ModsIn(o, m, 27)
    BY <1>4, <1>13 DEF Carried, ModsIn
  <1>25. Carried(o, m, d, 27)
    BY <1>13, <1>22, <1>23, <1>24 DEF Carried, Keeps
  <1> QED
    BY <1>4, <1>13, <1>14, <1>25 DEF Keeps

(* One block, or none for a file that is beyond it. *)
NextBlock(v, c, d) == IF c.version <= v THEN Block(v, d) ELSE d

SameAge(c, o) == c.version = o.version

LEMMA BlockCarries ==
  ASSUME NEW o, Formed(o), Early(o), NEW m, NEW c, NEW v \in 11..30, v >= 20 => m = old.alertRole, SameAge(c, o),
         NEW d, Carried(o, m, d, v), SameAge(d, o)
  PROVE  Carried(o, m, NextBlock(v, c, d), v + 1) /\ SameAge(NextBlock(v, c, d), o)
  <1>0. Formed(d) /\ o.version \in Nat
    BY DEF Carried, Formed, ConfigVersion
  <1>1. CASE o.version > v
    <2>1. NextBlock(v, c, d) = d
      BY <1>0, <1>1 DEF NextBlock, SameAge
    <2>2. Keeps(d, d, {})
      BY <1>0 DEF Keeps
    <2>3. ~(o.version <= v) /\ (o.version <= 26 => v # 26)
      BY <1>0, <1>1
    <2>4. Carried(o, m, d, v + 1)
      BY <1>0, <2>2, <2>3, CarriedOn
    <2> QED
      BY <2>1, <2>4
  <1>2. CASE o.version <= v /\ v # 26
    <2>1. NextBlock(v, c, d) = Block(v, d)
      BY <1>0, <1>2 DEF NextBlock, SameAge
    <2>2. PICK e : e = Block(v, d)
      OBVIOUS
    <2>3. Keeps(d, e, NewCommands[v]) /\ e.modRole = (IF v = 20 THEN old.alertRole ELSE d.modRole)
      BY <1>0, <1>2, <2>2, BlockKeeps
    <2>4. PICK S : S = NewCommands[v]
      OBVIOUS
    <2>5. e.modRole = (IF v = 20 /\ o.version <= v THEN m ELSE d.modRole)
      BY <1>2, <2>3
    <2>6. Carried(o, m, e, v + 1)
      BY <1>0, <1>2, <2>3, <2>4, <2>5, CarriedOn
    <2> QED
      BY <2>1, <2>2, <2>3, <2>6 DEF Keeps, SameAge
  <1>3. CASE o.version <= v /\ v = 26
    <2>1. NextBlock(v, c, d) = RaidSilenceBlock(d)
      BY <1>0, <1>3 DEF NextBlock, Block, SameAge
    <2>2. PICK e : e = RaidSilenceBlock(d)
      OBVIOUS
    <2>3. Carried(o, m, e, 27) /\ e.version = d.version
      BY <1>0, <1>3, <2>2, RenameCarries
    <2> QED
      BY <1>3, <2>1, <2>2, <2>3 DEF SameAge
  <1> QED
    BY <1>0, <1>1, <1>2, <1>3

IsRun(run, lo, hi, c) == run = [v \in (lo - 1)..hi |-> IF v < lo THEN c ELSE NextBlock(v, c, run[v - 1])]

LEMMA RunsExist ==
  ASSUME NEW lo \in Int, NEW hi \in Int, lo <= hi, NEW c
  PROVE  \E run : IsRun(run, lo, hi, c)
  <1> DEFINE S == {n \in Nat : \E run : IsRun(run, lo, (lo - 1) + n, c)}
  <1>1. 0 \in S
    <2> DEFINE run == [v \in (lo - 1)..(lo - 1) |-> c]
    <2>1. IsRun(run, lo, (lo - 1) + 0, c)
      BY DEF IsRun
    <2> QED
      BY <2>1
  <1>2. ASSUME NEW n \in Nat, n \in S PROVE n + 1 \in S
    <2> DEFINE top == (lo - 1) + (n + 1)
    <2>1. PICK run : IsRun(run, lo, (lo - 1) + n, c)
      BY <1>2
    <2> DEFINE more == [v \in (lo - 1)..top |-> IF v = top THEN NextBlock(top, c, run[top - 1]) ELSE run[v]]
    <2>2. ASSUME NEW v \in (lo - 1)..top PROVE more[v] = IF v < lo THEN c ELSE NextBlock(v, c, more[v - 1])
      BY <2>1 DEF IsRun
    <2>3. IsRun(more, lo, top, c)
      BY <2>2 DEF IsRun
    <2> QED
      BY <2>3
  <1>3. Nat \subseteq S
    <2> HIDE DEF S
    <2> QED
      BY <1>1, <1>2, SetInduction
  <1>4. (hi - lo) + 1 \in S
    BY <1>3
  <1>5. (lo - 1) + ((hi - lo) + 1) = hi
    OBVIOUS
  <1> QED
    BY <1>4, <1>5

LEMMA BlocksByRun ==
  ASSUME NEW lo \in Int, NEW hi \in Int, lo <= hi, NEW c
  PROVE  \E run : IsRun(run, lo, hi, c) /\ Blocks(lo, hi, c) = run[hi]
  <1> DEFINE Rule(run) == [v \in (lo - 1)..hi |-> IF v < lo THEN c ELSE IF c.version <= v THEN Block(v, run[v - 1]) ELSE run[v - 1]]
             all == CHOOSE run : run = Rule(run)
  <1>1. Blocks(lo, hi, c) = all[hi]
    BY DEF Blocks
  <1>2. PICK run : run = Rule(run)
    BY RunsExist DEF IsRun, NextBlock
  <1>3. all = Rule(all)
    <2> HIDE DEF Rule
    <2> QED
      BY <1>2
  <1>4. PICK r : r = Rule(r) /\ Blocks(lo, hi, c) = r[hi]
    BY <1>1, <1>3
  <1> QED
    BY <1>4 DEF IsRun, NextBlock

LEMMA BlocksCarry ==
  ASSUME NEW o, Formed(o), Early(o), NEW m, NEW c, SameAge(c, o), NEW lo \in 11..30, NEW hi \in lo..30,
         hi >= 20 => m = old.alertRole, Carried(o, m, c, lo)
  PROVE  Carried(o, m, Blocks(lo, hi, c), hi + 1) /\ SameAge(Blocks(lo, hi, c), o)
  <1>0. ASSUME NEW v \in lo..hi, NEW d, Carried(o, m, d, v), SameAge(d, o)
        PROVE  Carried(o, m, NextBlock(v, c, d), v + 1) /\ SameAge(NextBlock(v, c, d), o)
    <2>1. v \in 11..30 /\ (v >= 20 => m = old.alertRole)
      OBVIOUS
    <2> QED
      BY <1>0, <2>1, BlockCarries
  <1>1. PICK run : IsRun(run, lo, hi, c) /\ Blocks(lo, hi, c) = run[hi]
    BY BlocksByRun
  <1>2. run[lo - 1] = c /\ \A v \in lo..hi : run[v] = NextBlock(v, c, run[v - 1])
    BY <1>1 DEF IsRun
  <1> DEFINE S == {n \in Nat : lo + n <= hi + 1 => Carried(o, m, run[(lo + n) - 1], lo + n) /\ SameAge(run[(lo + n) - 1], o)}
  <1>3. 0 \in S
    BY <1>2
  <1>4. ASSUME NEW n \in Nat, n \in S PROVE n + 1 \in S
    <2> SUFFICES ASSUME lo + (n + 1) <= hi + 1
                 PROVE  Carried(o, m, run[(lo + (n + 1)) - 1], lo + (n + 1)) /\ SameAge(run[(lo + (n + 1)) - 1], o)
      OBVIOUS
    <2>1. PICK v \in lo..hi : v = lo + n
      OBVIOUS
    <2>2. PICK d : d = run[v - 1]
      OBVIOUS
    <2>3. Carried(o, m, d, v) /\ SameAge(d, o)
      BY <1>4, <2>1, <2>2
    <2>4. run[v] = NextBlock(v, c, d)
      BY <1>2, <2>2
    <2>5. Carried(o, m, run[v], v + 1) /\ SameAge(run[v], o)
      <3>1. Carried(o, m, NextBlock(v, c, d), v + 1) /\ SameAge(NextBlock(v, c, d), o)
        BY <2>3, <1>0
      <3> QED
        BY <2>4, <3>1
    <2>6. (lo + (n + 1)) - 1 = v /\ lo + (n + 1) = v + 1
      BY <2>1
    <2> QED
      BY <2>5, <2>6
  <1>5. Nat \subseteq S
    <2> HIDE DEF S
    <2> QED
      BY <1>3, <1>4, SetInduction
  <1>6. (hi - lo) + 1 \in S
    BY <1>5
  <1>7. lo + ((hi - lo) + 1) = hi + 1 /\ (lo + ((hi - lo) + 1)) - 1 = hi
    OBVIOUS
  <1> QED
    BY <1>1, <1>6, <1>7

(* A file that is beyond the blocks passes them unchanged. *)
LEMMA BlocksPass ==
  ASSUME NEW c, NEW lo \in 11..30, NEW hi \in lo..30, c.version = ConfigVersion
  PROVE  Blocks(lo, hi, c) = c
  <1>1. PICK run : IsRun(run, lo, hi, c) /\ Blocks(lo, hi, c) = run[hi]
    BY BlocksByRun
  <1>2. run[lo - 1] = c /\ \A v \in lo..hi : run[v] = run[v - 1]
    BY <1>1 DEF IsRun, NextBlock, ConfigVersion
  <1> DEFINE S == {n \in Nat : lo + n <= hi + 1 => run[(lo + n) - 1] = c}
  <1>3. 0 \in S
    BY <1>2
  <1>4. ASSUME NEW n \in Nat, n \in S PROVE n + 1 \in S
    BY <1>2, <1>4
  <1>5. Nat \subseteq S
    <2> HIDE DEF S
    <2> QED
      BY <1>3, <1>4, SetInduction
  <1>6. (hi - lo) + 1 \in S
    BY <1>5
  <1> QED
    BY <1>1, <1>6

-----------------------------------------------------------------------------
(* Between two blocks, and through the end of the process.                     *)

(* Only the command roles and the moderators' role matter to what is carried. *)
LEMMA CarriedBy ==
  ASSUME NEW o, NEW m, NEW c, NEW d, NEW v, Carried(o, m, c, v), Formed(d), d.commandRoles = c.commandRoles, d.modRole = c.modRole
  PROVE  Carried(o, m, d, v)
  BY DEF Carried, Restricted, HasMods

(* Before the block for version 20 nothing has to be restricted yet, nor renamed. *)
LEMMA CarriedEarly ==
  ASSUME NEW o, o.version \in Nat, NEW m, NEW c, NEW v \in 11..20, NEW u \in 11..20, Carried(o, m, c, v)
  PROVE  Carried(o, m, c, u)
  <1>1. SinceThen(o, u) = {} /\ SinceThen(o, v) = {}
    BY DEF Since, SinceThen
  <1>2. \A x : NameIn(o, u, x) = NameIn(o, v, x)
    BY DEF NameIn
  <1>3. NamesIn(o, u) = NamesIn(o, v)
    BY <1>2 DEF NamesIn
  <1>4. ModsIn(o, m, u) = ModsIn(o, m, v)
    BY DEF ModsIn
  <1> QED
    BY <1>1, <1>2, <1>3, <1>4 DEF Carried, Restricted

(* The first block that has not run. *)
FirstBlock(a) == CASE a \in {"groups", "middle"} -> 13 [] a \in {"collections", "late"} -> 19 [] OTHER -> 31
Migrating == at \in {"groups", "middle", "collections", "late", "role", "save"}
Current(f) == f.config.version = ConfigVersion

(* cfg, while it is migrated, from a file of an earlier version or from one that is saved. *)
Underway ==
  /\ Formed(cfg)
  /\ Current(disk) => /\ cfg.version = ConfigVersion /\ cfg.commandRoles = chosen
                      /\ changes = 0 => Carried(old.config, old.alertRole, cfg, 31)
  /\ ~Current(disk) => cfg.version = old.config.version /\ Carried(old.config, old.alertRole, cfg, FirstBlock(at))
CMInv ==
  /\ IsFile(disk) /\ IsFile(old) /\ changes \in Nat
  /\ ~Current(disk) => disk = old
  /\ Current(disk) => chosen = disk.config.commandRoles /\ (changes = 0 => Carried(old.config, old.alertRole, disk.config, 31))
  /\ at \in {"groups", "middle", "collections", "late", "role", "save", "up", "down", "dead"}
  /\ Migrating => Underway
  /\ Up => /\ Formed(cfg) /\ cfg.version = ConfigVersion
           /\ changes = 0 => Carried(old.config, old.alertRole, cfg, 31)
           /\ Current(disk) => cfg.commandRoles = chosen

LEMMA FirstBlockOf ==
  /\ FirstBlock("groups") = 13 /\ FirstBlock("middle") = 13 /\ FirstBlock("collections") = 19 /\ FirstBlock("late") = 19
  /\ FirstBlock("role") = 31 /\ FirstBlock("save") = 31
  BY DEF FirstBlock

(* What a start makes of the stored file, before the first block. *)
LEMMA ParsedFile ==
  ASSUME NEW f, IsFile(f)
  PROVE  LET c == Parsed(f)
         IN /\ Formed(f.config) /\ Formed(c) /\ SameAge(c, f.config)
            /\ c.commandRoles = f.config.commandRoles /\ c.modRole = f.config.modRole
            /\ Early(f.config)
  <1>1. Formed(f.config) /\ Early(f.config)
    BY DEF IsFile, IsConfig, Formed, Early
  <1>2. PICK o : o = f.config
    OBVIOUS
  <1>3. PICK c : c = [o EXCEPT !.raidSilence = IF @ = -9 THEN 1 ELSE @]
    OBVIOUS
  <1>4. Formed(c) /\ c.version = o.version /\ c.commandRoles = o.commandRoles /\ c.modRole = o.modRole
    BY <1>1, <1>2, <1>3 DEF Formed, ConfigFields
  <1>5. Parsed(f) = c
    BY <1>2, <1>3 DEF Parsed
  <1> QED
    BY <1>1, <1>2, <1>4, <1>5 DEF SameAge

LEMMA CarriedFirst ==
  ASSUME NEW o, Formed(o), NEW m
  PROVE  Carried(o, m, o, 11)
  <1>1. SinceThen(o, 11) = {}
    BY DEF Since, SinceThen
  <1>2. \A x : NameIn(o, 11, x) = x
    BY DEF NameIn
  <1>3. NamesIn(o, 11) = DOMAIN o.commandRoles
    BY <1>2 DEF NamesIn
  <1>4. ModsIn(o, m, 11) = o.modRole
    BY DEF ModsIn
  <1> QED
    BY <1>1, <1>2, <1>3, <1>4 DEF Carried, Restricted

LEMMA CarriedLast ==
  ASSUME NEW o, Formed(o), o.version = ConfigVersion, NEW m
  PROVE  Carried(o, m, o, 31)
  <1>1. SinceThen(o, 31) = {}
    BY DEF Since, SinceThen, ConfigVersion
  <1>2. \A x : NameIn(o, 31, x) = x
    BY DEF NameIn, ConfigVersion
  <1>3. NamesIn(o, 31) = DOMAIN o.commandRoles
    BY <1>2 DEF NamesIn
  <1>4. ModsIn(o, m, 31) = o.modRole
    BY DEF ModsIn, ConfigVersion
  <1> QED
    BY <1>1, <1>2, <1>3, <1>4 DEF Carried, Restricted

LEMMA MigrationStart == CMInit => CMInv
  <1> SUFFICES ASSUME CMInit PROVE CMInv
    OBVIOUS
  <1>1. IsFile(disk) /\ old = disk /\ chosen = disk.config.commandRoles /\ changes = 0 /\ at = "down"
    BY FilesAssumption DEF CMInit
  <1>2. Current(disk) => Carried(old.config, old.alertRole, disk.config, 31)
    BY <1>1, ParsedFile, CarriedLast DEF Current
  <1> QED
    BY <1>1, <1>2 DEF CMInv, Migrating, Up

LEMMA LoadKeepsChoices == CMInv /\ Load => CMInv'
  <1> SUFFICES ASSUME CMInv, Load PROVE CMInv'
    OBVIOUS
  <1>0. IsFile(disk) /\ IsFile(old) /\ changes \in Nat
    BY DEF CMInv
  <1>1. PICK c : c = Parsed(disk)
    OBVIOUS
  <1>2. /\ Formed(disk.config) /\ Formed(c) /\ SameAge(c, disk.config)
        /\ c.commandRoles = disk.config.commandRoles /\ c.modRole = disk.config.modRole
        /\ Early(disk.config)
    BY <1>0, <1>1, ParsedFile
  <1>3. cfg' = Blocks(11, 12, c) /\ disk' = disk /\ changes' = changes /\ at' \in {"groups", "middle"}
    BY <1>1 DEF Load
  <1>4. disk.config.version \in 0..ConfigVersion
    BY <1>2 DEF Formed
  <1>5. CASE Current(disk)
    <2>1. old' = old /\ chosen' = chosen
      BY <1>4, <1>5 DEF Load, Current, ConfigVersion
    <2>2. cfg' = c
      <3>1. c.version = ConfigVersion
        BY <1>2, <1>5 DEF Current, SameAge
      <3> QED
        BY <1>3, <3>1, BlocksPass
    <2>3. chosen = disk.config.commandRoles /\ (changes = 0 => Carried(old.config, old.alertRole, disk.config, 31))
      BY <1>5 DEF CMInv
    <2>4. changes = 0 => Carried(old.config, old.alertRole, c, 31)
      BY <1>2, <2>3, CarriedBy
    <2>5. c.version = ConfigVersion
      BY <1>2, <1>5 DEF Current, SameAge
    <2>6. Underway'
      BY <1>2, <1>3, <1>5, <2>1, <2>2, <2>3, <2>4, <2>5 DEF Underway, Current
    <2> QED
      BY <1>0, <1>3, <1>5, <2>1, <2>3, <2>6 DEF CMInv, Up, Migrating, Current
  <1>6. CASE ~Current(disk)
    <2>0. disk.config.version < ConfigVersion
      BY <1>4, <1>6 DEF Current, ConfigVersion
    <2>1. old' = disk /\ chosen' = disk.config.commandRoles
      BY <2>0, Zenon DEF Load
    <2>2. Carried(disk.config, disk.alertRole, c, 11)
      BY <1>2, CarriedFirst, CarriedBy
    <2>3. Carried(disk.config, disk.alertRole, cfg', 13) /\ SameAge(cfg', disk.config)
      <3>1. PICK o : o = disk.config
        OBVIOUS
      <3>2. PICK m : m = disk.alertRole
        OBVIOUS
      <3>3. Carried(o, m, Blocks(11, 12, c), 12 + 1) /\ SameAge(Blocks(11, 12, c), o)
        BY <1>2, <2>2, <3>1, <3>2, BlocksCarry
      <3> QED
        BY <1>3, <3>1, <3>2, <3>3
    <2>4. FirstBlock(at') = 13
      BY <1>3, FirstBlockOf
    <2>5. Formed(cfg')
      BY <2>3 DEF Carried
    <2>6. Underway'
      BY <1>3, <1>6, <2>1, <2>3, <2>4, <2>5 DEF Underway, Current, SameAge
    <2> QED
      BY <1>0, <1>3, <1>6, <2>1, <2>6 DEF CMInv, Up, Migrating, Current
  <1> QED
    BY <1>5, <1>6

(* A step that leaves the file and its history alone, and between two blocks. *)
Untouched == disk' = disk /\ old' = old /\ chosen' = chosen /\ changes' = changes

LEMMA UnderwayOn ==
  ASSUME CMInv, Migrating, Untouched, at' \in {"groups", "middle", "collections", "late", "role", "save"},
         Formed(cfg'), cfg'.version = cfg.version, Current(disk) => cfg'.commandRoles = cfg.commandRoles /\ cfg'.modRole = cfg.modRole,
         ~Current(disk) => Carried(old.config, old.alertRole, cfg', FirstBlock(at'))
  PROVE  CMInv'
  <1>1. Underway
    BY DEF CMInv
  <1>2. Current(disk) => cfg.version = ConfigVersion /\ cfg.commandRoles = chosen /\ (changes = 0 => Carried(old.config, old.alertRole, cfg, 31))
    BY <1>1 DEF Underway
  <1>3. Current(disk) => (changes = 0 => Carried(old.config, old.alertRole, cfg', 31))
    BY <1>2, CarriedBy
  <1>4. ~Current(disk) => cfg.version = old.config.version
    BY <1>1 DEF Underway
  <1>5. Underway'
    BY <1>2, <1>3, <1>4 DEF Underway, Untouched, Current
  <1> QED
    BY <1>5 DEF CMInv, Untouched, Up, Migrating, Current

LEMMA GroupsKeepChoices ==
  ASSUME CMInv, (\E g \in old.groups : CreateGroupRole(g)) \/ MoveReminders
  PROVE  CMInv'
  <1>1. at = "groups" /\ at' \in {"groups", "middle"} /\ Untouched
    BY DEF CreateGroupRole, MoveReminders, Untouched
  <1>2. Underway /\ Formed(cfg) /\ FirstBlock(at) = 13 /\ FirstBlock(at') = 13
    BY <1>1, FirstBlockOf DEF CMInv, Migrating, Underway
  <1>3. Formed(cfg') /\ cfg'.version = cfg.version /\ cfg'.commandRoles = cfg.commandRoles /\ cfg'.modRole = cfg.modRole
    <2>1. cfg' = cfg \/ \E id : cfg' = [cfg EXCEPT !.userRoles = @ \cup {id}]
      BY DEF CreateGroupRole, MoveReminders
    <2> QED
      BY <1>2, <2>1 DEF Formed, ConfigFields
  <1>4. ~Current(disk) => Carried(old.config, old.alertRole, cfg', FirstBlock(at'))
    BY <1>2, <1>3, CarriedBy DEF Underway
  <1> QED
    BY <1>1, <1>3, <1>4, UnderwayOn DEF Migrating

LEMMA MiddleKeepsChoices == ASSUME CMInv, MiddleBlocks PROVE CMInv'
  <1>1. at = "middle" /\ at' \in {"collections", "late"} /\ Untouched
    BY DEF MiddleBlocks, Untouched
  <1>2. Underway /\ Formed(cfg) /\ FirstBlock(at) = 13 /\ FirstBlock(at') = 19
    BY <1>1, FirstBlockOf DEF CMInv, Migrating, Underway
  <1>3. IsFile(old)
    BY DEF CMInv
  <1>4. Formed(old.config) /\ Early(old.config)
    BY <1>3, ParsedFile
  <1>5. PICK o, m : o = old.config /\ m = old.alertRole
    OBVIOUS
  <1>6. o.version \in Nat /\ cfg.version \in 0..ConfigVersion
    BY <1>2, <1>4, <1>5 DEF Formed, ConfigVersion
  <1>7. ~Current(disk) => Carried(o, m, cfg, 13) /\ SameAge(cfg, o)
    BY <1>2, <1>5 DEF Underway, SameAge
  <1>8. Current(disk) => cfg.version = ConfigVersion
    BY <1>2 DEF Underway
  <1>9. CASE cfg.version <= 19
    <2>1. PICK d : d = Blocks(14, 18, cfg)
      OBVIOUS
    <2>2. cfg' = [d EXCEPT !.lists = @ \cup (old.basicCollections \cap Builtin)]
      BY <1>9, <2>1 DEF MiddleBlocks, CollectionLists
    <2>3. ~Current(disk)
      BY <1>6, <1>8, <1>9 DEF ConfigVersion
    <2>4. Carried(o, m, cfg, 14)
      BY <1>6, <1>7, <2>3, CarriedEarly
    <2>5. Carried(o, m, d, 18 + 1) /\ SameAge(d, o)
      BY <1>4, <1>5, <1>7, <2>1, <2>3, <2>4, BlocksCarry
    <2>6. Formed(d) /\ d.version = cfg.version
      BY <1>7, <2>3, <2>5 DEF Carried, SameAge
    <2>7. Formed(cfg') /\ cfg'.version = d.version /\ cfg'.commandRoles = d.commandRoles /\ cfg'.modRole = d.modRole
      BY <2>2, <2>6 DEF Formed, ConfigFields
    <2>8. Carried(o, m, cfg', 19)
      BY <2>5, <2>7, CarriedBy
    <2> QED
      BY <1>1, <1>2, <1>5, <2>3, <2>6, <2>7, <2>8, UnderwayOn DEF Migrating
  <1>10. CASE cfg.version > 19
    <2>1. cfg' = cfg
      BY <1>6, <1>10 DEF MiddleBlocks, ConfigVersion
    <2>2. ~Current(disk) => Carried(o, m, cfg', 19)
      BY <1>6, <1>7, <2>1, CarriedEarly
    <2> QED
      BY <1>1, <1>2, <1>5, <2>1, <2>2, UnderwayOn DEF Migrating
  <1> QED
    BY <1>6, <1>9, <1>10 DEF ConfigVersion

LEMMA LateKeepsChoices == ASSUME CMInv, LateBlocks PROVE CMInv'
  <1>1. at \in {"collections", "late"} /\ at' \in {"dead", "role"} /\ Untouched
    BY DEF LateBlocks, Untouched
  <1>2. Underway /\ Formed(cfg) /\ FirstBlock(at) = 19
    BY <1>1, FirstBlockOf DEF CMInv, Migrating, Underway
  <1>3. CASE at' = "dead"
    BY <1>1, <1>3 DEF CMInv, Untouched, Up, Migrating, Current
  <1>4. CASE at' = "role"
    <2>1. cfg' = Blocks(19, 30, cfg) /\ FirstBlock(at') = 31
      BY <1>4, FirstBlockOf DEF LateBlocks
    <2>2. CASE Current(disk)
      <3>1. cfg' = cfg
        BY <1>2, <2>1, <2>2, BlocksPass DEF Underway
      <3> QED
        BY <1>1, <1>2, <1>4, <2>2, <3>1, UnderwayOn DEF Migrating
    <2>3. CASE ~Current(disk)
      <3>1. PICK o, m : o = old.config /\ m = old.alertRole
        OBVIOUS
      <3>2. Formed(o) /\ Early(o)
        BY <3>1, ParsedFile DEF CMInv
      <3>3. Carried(o, m, cfg, 19) /\ SameAge(cfg, o)
        BY <1>2, <2>3, <3>1 DEF Underway, SameAge
      <3>4. Carried(o, m, cfg', 30 + 1) /\ SameAge(cfg', o)
        BY <2>1, <3>1, <3>2, <3>3, BlocksCarry
      <3>5. Formed(cfg') /\ cfg'.version = cfg.version /\ Carried(old.config, old.alertRole, cfg', 31)
        BY <3>1, <3>3, <3>4 DEF Carried, SameAge
      <3> QED
        BY <1>1, <1>4, <2>1, <2>3, <3>5, UnderwayOn DEF Migrating
    <2> QED
      BY <2>2, <2>3
  <1> QED
    BY <1>1, <1>3, <1>4

LEMMA SavedIsFile ==
  ASSUME IsFile(old), NEW c, Formed(c), c.version = ConfigVersion
  PROVE  IsFile(Saved(c)) /\ Saved(c).config = c
  <1>1. IsConfig(c)
    <2>1. ~(c.version <= 26) /\ ~(c.version <= 20)
      BY DEF ConfigVersion
    <2> QED
      BY <2>1 DEF Formed, IsConfig
  <1>2. PICK f : f = Saved(c)
    OBVIOUS
  <1>3. f = [x \in FileFields |-> f[x]] /\ f.config = c
    BY <1>2 DEF Saved, IsFile, FileFields
  <1> QED
    BY <1>1, <1>2, <1>3 DEF IsFile

LEMMA FinishKeepsChoices == ASSUME CMInv, Finish PROVE CMInv'
  <1>1. at = "save" /\ at' = "up" /\ old' = old /\ changes' = changes /\ cfg' = [cfg EXCEPT !.version = ConfigVersion]
    BY DEF Finish
  <1>2. Underway /\ Formed(cfg) /\ FirstBlock(at) = 31
    BY <1>1, FirstBlockOf DEF CMInv, Migrating, Underway
  <1>3. Formed(cfg') /\ cfg'.version = ConfigVersion /\ cfg'.commandRoles = cfg.commandRoles /\ cfg'.modRole = cfg.modRole
    BY <1>1, <1>2 DEF Formed, ConfigFields, ConfigVersion
  <1>4. IsFile(old) /\ IsFile(disk) /\ changes \in Nat
    BY DEF CMInv
  <1>5. changes = 0 => Carried(old.config, old.alertRole, cfg', 31)
    <2>1. changes = 0 => Carried(old.config, old.alertRole, cfg, 31)
      BY <1>2 DEF Underway
    <2> QED
      BY <1>3, <2>1, CarriedBy
  <1>6. CASE cfg.version = ConfigVersion
    <2>1. disk' = disk /\ chosen' = chosen
      BY <1>6 DEF Finish
    <2>2. Current(disk) => cfg'.commandRoles = chosen
      BY <1>2, <1>3 DEF Underway
    <2>3. Current(disk) => chosen = disk.config.commandRoles /\ (changes = 0 => Carried(old.config, old.alertRole, disk.config, 31))
      BY DEF CMInv
    <2>4. ~Current(disk) => disk = old
      BY DEF CMInv
    <2> QED
      BY <1>1, <1>3, <1>4, <1>5, <2>1, <2>2, <2>3, <2>4 DEF CMInv, Migrating, Up, Current
  <1>7. CASE cfg.version # ConfigVersion
    <2>1. disk' \in {Saved(cfg'), disk} /\ chosen' = cfg.commandRoles
      BY <1>7 DEF Finish
    <2>2. ~Current(disk) /\ disk = old
      BY <1>2, <1>7 DEF Underway, CMInv
    <2>3. CASE disk' = disk
      BY <1>1, <1>3, <1>4, <1>5, <2>1, <2>2, <2>3 DEF CMInv, Migrating, Up, Current
    <2>4. CASE disk' = Saved(cfg')
      <3>1. IsFile(disk') /\ disk'.config = cfg'
        BY <1>3, <1>4, <2>4, SavedIsFile
      <3> QED
        BY <1>1, <1>3, <1>4, <1>5, <2>1, <3>1 DEF CMInv, Migrating, Up, Current
    <2> QED
      BY <2>1, <2>3, <2>4
  <1> QED
    BY <1>6, <1>7

LEMMA ChooseKeepsChoices == ASSUME CMInv, NEW n, Choose(n) PROVE CMInv'
  <1>1. at = "up" /\ at' = "up" /\ old' = old /\ changes' = changes + 1 /\ disk' = Saved(cfg')
    BY DEF Choose
  <1>2. Formed(cfg) /\ cfg.version = ConfigVersion /\ IsFile(old) /\ changes \in Nat
    BY <1>1 DEF CMInv, Up
  <1>3. PICK r : cfg' = [cfg EXCEPT !.commandRoles = r] /\ chosen' = r
    BY DEF Choose
  <1>4. Formed(cfg') /\ cfg'.version = ConfigVersion /\ cfg'.commandRoles = r
    BY <1>2, <1>3 DEF Formed, ConfigFields
  <1>5. IsFile(disk') /\ disk'.config = cfg'
    BY <1>1, <1>2, <1>4, SavedIsFile
  <1>6. changes' \in Nat /\ changes' # 0
    BY <1>1, <1>2
  <1> QED
    BY <1>1, <1>2, <1>3, <1>4, <1>5, <1>6 DEF CMInv, Migrating, Up, Current

LEMMA MigrationStep == CMInv /\ [CMNext]_cmvars => CMInv'
  <1> SUFFICES ASSUME CMInv, [CMNext]_cmvars PROVE CMInv'
    OBVIOUS
  <1>1. CASE Load
    BY <1>1, LoadKeepsChoices
  <1>2. CASE MoveReminders \/ \E g \in old.groups : CreateGroupRole(g)
    BY <1>2, GroupsKeepChoices
  <1>3. CASE MiddleBlocks
    BY <1>3, MiddleKeepsChoices
  <1>4. CASE LateBlocks
    BY <1>4, LateKeepsChoices
  <1>5. CASE DropSilenceRole
    <2>1. at = "role" /\ at' = "save" /\ Untouched /\ cfg' = cfg
      BY <1>5 DEF DropSilenceRole, Untouched
    <2>2. Underway /\ Formed(cfg) /\ FirstBlock(at) = 31 /\ FirstBlock(at') = 31
      BY <2>1, FirstBlockOf DEF CMInv, Migrating, Underway
    <2> QED
      BY <2>1, <2>2, UnderwayOn DEF Migrating, Underway
  <1>6. CASE Finish
    BY <1>6, FinishKeepsChoices
  <1>7. CASE Restart
    BY <1>7 DEF Restart, CMInv, Migrating, Up, Current
  <1>8. CASE \E k \in old.basicCollections : ImportCollection(k)
    <2>1. at = "collections" /\ at' = at /\ Untouched /\ cfg' = cfg
      BY <1>8 DEF ImportCollection, Untouched
    <2>2. Underway /\ Formed(cfg)
      BY <2>1 DEF CMInv, Migrating, Underway
    <2> QED
      BY <2>1, <2>2, UnderwayOn DEF Migrating, Underway
  <1>9. CASE \E n \in {"createrole", "wipe"} : Choose(n)
    BY <1>9, ChooseKeepsChoices
  <1>10. CASE UNCHANGED cmvars
    BY <1>10 DEF cmvars, CMInv, Migrating, Underway, Up, Current, FirstBlock
  <1> QED
    BY <1>1, <1>2, <1>3, <1>4, <1>5, <1>6, <1>7, <1>8, <1>9, <1>10 DEF CMNext

(* A server that runs with a migrated file has the file's moderators, every restriction    *)
(* the file had, the moderators' on the newer commands of versions 21 to 30, no other, and  *)
(* what was chosen since: for every file an earlier version can have left, wherever the     *)
(* process ended in between and whatever Discord and the database refused, any number of    *)
(* times.                                                                                   *)
THEOREM MigratedFilesKeepChoices == CMSpec => []MigrationKeepsChoices
  <1>1. CMInit => CMInv
    BY MigrationStart
  <1>2. CMInv => MigrationKeepsChoices
    <2> SUFFICES ASSUME CMInv, Up PROVE MigrationKeepsChoices
      BY DEF MigrationKeepsChoices
    <2> DEFINE own == old.config.commandRoles
               renamed == {After(c) : c \in DOMAIN own}
               newer == IF Mods(old) = "" THEN {} ELSE Newer(old.config.version)
    <2>1. Current(disk) => cfg.commandRoles = chosen
      BY DEF CMInv
    <2>2. ASSUME changes = 0
          PROVE  /\ cfg.modRole = Mods(old)
                 /\ DOMAIN cfg.commandRoles = renamed \cup newer
                 /\ \A c \in DOMAIN own : cfg.commandRoles[After(c)] = own[c]
                 /\ \A c \in newer \ renamed : cfg.commandRoles[c] = Mods(old)
      <3>1. PICK o, m : o = old.config /\ m = old.alertRole
        OBVIOUS
      <3>2. Carried(o, m, cfg, 31)
        BY <2>2, <3>1 DEF CMInv
      <3>3. Formed(o)
        BY <3>1, ParsedFile DEF CMInv
      <3>4. o.version \in Nat
        BY <3>3 DEF Formed, ConfigVersion
      <3>5. \A c : NameIn(o, 31, c) = After(c)
        BY <3>1 DEF NameIn, After
      <3>6. renamed = NamesIn(o, 31)
        BY <3>1, <3>5 DEF NamesIn
      <3>7. Newer(o.version) = SinceThen(o, 31)
        <4>1. {x \in 21..30 : x >= o.version} = Since(o, 31)
          BY <3>4 DEF Since
        <4> QED
          BY <4>1 DEF Newer, SinceThen
      <3>8. Mods(old) = ModsIn(o, m, 31)
        BY <3>1 DEF Mods, ModsIn
      <3>9. cfg.modRole = Mods(old)
        BY <3>2, <3>8 DEF Carried
      <3>10. newer = IF HasMods(cfg) THEN SinceThen(o, 31) ELSE {}
        BY <3>1, <3>7, <3>9 DEF HasMods
      <3> HIDE DEF newer, renamed
      <3>11. DOMAIN cfg.commandRoles = renamed \cup newer
        BY <3>2, <3>6, <3>10 DEF Carried, Restricted
      <3>12. ASSUME NEW c \in newer \ renamed PROVE cfg.commandRoles[c] = Mods(old)
        <4>1. HasMods(cfg) /\ c \in SinceThen(o, 31) \ NamesIn(o, 31)
          BY <3>6, <3>10, <3>12
        <4> QED
          BY <3>2, <3>9, <4>1 DEF Carried, Restricted
      <3>13. \A c \in DOMAIN own : cfg.commandRoles[After(c)] = own[c]
        BY <3>1, <3>2, <3>5 DEF Carried
      <3> QED
        BY <3>9, <3>11, <3>12, <3>13
    <2> QED
      BY <2>1, <2>2, Zenon DEF MigrationKeepsChoices, Current
  <1> QED
    BY <1>1, <1>2, MigrationStep, PTL DEF CMSpec
=============================================================================
