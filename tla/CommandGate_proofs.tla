--------------------------- MODULE CommandGate_proofs ---------------------------
(***************************************************************************)
(* What holds of CommandGate for every number of handlers, keys and         *)
(* settings, and every period.                                              *)
(***************************************************************************)
EXTENDS CommandGate, FiniteSetTheorems, TLAPS

(***************************************************************************)
(* Remainders, by a modulus that is not a constant of the provers.          *)
(***************************************************************************)
LEMMA Unique ==
  ASSUME NEW n \in Nat \ {0}, NEW q \in Int, NEW r \in 0..(n - 1)
  PROVE  (n * q + r) % n = r
OBVIOUS

LEMMA Divided ==
  ASSUME NEW n \in Nat \ {0}, NEW a \in Int
  PROVE  a \div n \in Int /\ a % n \in 0..(n - 1) /\ a = (n * (a \div n)) + (a % n)
OBVIOUS

LEMMA Itself == ASSUME NEW n \in Nat \ {0}, NEW a \in 0..(n - 1) PROVE a % n = a
OBVIOUS

(* Numbers that are n apart, and remainders that are taken twice. *)
LEMMA SameApart == ASSUME NEW n \in Nat \ {0}, NEW a \in Int PROVE (a - n) % n = a % n
<1> DEFINE q == a \div n
           r == a % n
<1>1. q \in Int /\ r \in 0..(n - 1) /\ a = (n * q) + r
  BY Divided
<1>2. n * (q - 1) = (n * q) - n /\ q - 1 \in Int
  BY <1>1
<1>3. a - n = (n * (q - 1)) + r
  BY <1>1, <1>2
<1>4. ((n * (q - 1)) + r) % n = r
  <2> HIDE DEF q, r
  <2> QED
    BY <1>1, <1>2, Unique
<1> QED
  BY <1>3, <1>4

LEMMA TwiceTaken == ASSUME NEW n \in Nat \ {0}, NEW a \in Int, NEW j \in Int PROVE ((a % n) - j) % n = (a - j) % n
<1> DEFINE q == a \div n
           s == a % n
           p == (s - j) \div n
           r == (s - j) % n
<1>1. q \in Int /\ s \in 0..(n - 1) /\ a = (n * q) + s
  BY Divided
<1>2. s - j \in Int
  BY <1>1
<1>3. p \in Int /\ r \in 0..(n - 1) /\ s - j = (n * p) + r
  <2> HIDE DEF s
  <2> QED
    BY <1>2, Divided
<1>4. n * (q + p) = (n * q) + (n * p) /\ q + p \in Int
  <2> HIDE DEF q, p
  <2> QED
    BY <1>1, <1>3
<1>5. a - j = (n * (q + p)) + r
  <2> HIDE DEF q, p, r, s
  <2> QED
    BY <1>1, <1>3, <1>4
<1>6. ((n * (q + p)) + r) % n = r
  <2> HIDE DEF q, p, r
  <2> QED
    BY <1>3, <1>4, Unique
<1> QED
  BY <1>5, <1>6

(* Places of a ring that are less than its size apart are different. *)
LEMMA OtherPlace ==
  ASSUME NEW n \in Nat \ {0}, NEW b \in 0..(n - 1), NEW j \in 1..(n - 1) PROVE (b - j) % n # b
OBVIOUS

(* Numbers with the same remainder are at least n apart. *)
LEMMA FarApart ==
  ASSUME NEW n \in Nat \ {0}, NEW a \in Nat, NEW b \in Nat, a < b, a % n = b % n PROVE a <= b - n
<1> DEFINE p == a \div n
           q == b \div n
           r == a % n
<1>1. p \in Int /\ q \in Int /\ r \in 0..(n - 1) /\ a = (n * p) + r /\ b = (n * q) + r
  BY Divided
<1>2. p < q
  BY <1>1
<1>3. n * (p + 1) <= n * q
  BY <1>1, <1>2
<1> QED
  BY <1>1, <1>3
-----------------------------------------------------------------------------
(* The clock does not go back, and a message is never so old that an unused slot
   could block it.                                                             *)
Typed == /\ TypeOK /\ SlotCount \in Nat
         /\ clock >= Start
         /\ \A h \in Handler : request[h].t > Period

(* While handlers do not overlap and the setting does not change. *)
Steady == changes = 0 /\ ~overlapped

Alone == ~overlapped => \A g, h \in Handler : g = h \/ pc[g] = "idle" \/ pc[h] = "idle"

(* A setting that has not changed: the ring is empty or of the size it has to be. *)
Sized == changes = 0 =>
  /\ ~jammed /\ SlotCount \in {0, 2 * perDuration}
  /\ \A h \in Handler : pc[h] \in {"allocate", "check", "append"} => perDuration > 0
  /\ \A h \in Handler : pc[h] \in {"check", "append"} => SlotCount = 2 * perDuration

(* What the ring holds: all that was accepted or as much as it can, if it was
   not replaced.                                                             *)
Filled == SlotCount > 0 =>
  \E k \in 0..SlotCount : /\ k <= Len(accepted) /\ HoldsLatest(k)
                          /\ Steady => k = Len(accepted) \/ k = SlotCount

Unused == Steady /\ (SlotCount = 0 \/ \E h \in Handler : pc[h] = "allocate") => Len(accepted) = 0

(* Accepted timestamps perDuration apart, and so any whose numbers have the same
   remainder, are further apart than the period.                               *)
Apart(s, p, period) ==
  \A i, j \in 1..Len(s) : i < j /\ i % p = j % p => s[j] - s[i] > period

Chained == Steady => /\ Len(accepted) > 0 => perDuration > 0
                     /\ Apart(accepted, perDuration, Period)

Passed == Steady => \A h \in Handler :
  pc[h] = "append" /\ Len(accepted) >= perDuration =>
    request[h].t - accepted[(Len(accepted) + 1) - perDuration] > Period

(* A command's own limit: its last run is the latest, and a handler about to run
   it again has seen that.                                                     *)
Spaced == ~overlapped =>
  /\ \A i, j \in 1..Len(ran) : i < j /\ ran[i].key = ran[j].key => ran[j].t - ran[i].t > Interval
  /\ \A i \in 1..Len(ran) : ran[i].t <= last[ran[i].key]
  /\ \A h \in Handler : pc[h] = "writeLast" => request[h].t - last[request[h].key] > Interval
-----------------------------------------------------------------------------
(* The types, the clock and the ring's size, over every step. *)
LEMMA TimesAreNumbers ==
  ASSUME Typed
  PROVE  /\ Period \in Nat /\ Lag \in Nat /\ Interval \in Nat /\ Start \in Nat /\ clock \in Nat
         /\ scope.handlers \subseteq Handler /\ scope.keys \subseteq Key
         /\ DOMAIN times = 0..(SlotCount - 1) /\ SlotCount \in Nat
         /\ perDuration \in Nat
<1>1. scope \in [period : Nat, handlers : SUBSET Handler, keys : SUBSET Key, lag : Nat, seconds : Nat, commands : Nat, changes : Nat]
  BY GateAssumption DEF Typed, TypeOK
<1>2. perDuration \in Nat /\ Interval \in Nat
  BY GateAssumption DEF Typed, TypeOK
<1> QED
  BY <1>1, <1>2 DEF Typed, TypeOK, Period, Lag, Start

LEMMA SizeOfNew == ASSUME NEW n \in Nat PROVE Cardinality(0..(n - 1)) = n
<1>1. n - 1 \in Int /\ 0 \in Int
  OBVIOUS
<1>2. Cardinality(0..(n - 1)) = IF 0 > n - 1 THEN 0 ELSE (n - 1) - 0 + 1
  BY <1>1, FS_Interval
<1> QED
  BY <1>2

LEMMA TypedInit == Init => Typed
<1> SUFFICES ASSUME Init PROVE Typed
  OBVIOUS
<1>1. DOMAIN times = {} /\ SlotCount = 0
  <2>1. DOMAIN times = {}
    BY DEF Init
  <2> QED
    BY <2>1, FS_EmptySet DEF SlotCount
<1>2. scope \in [period : Nat, handlers : SUBSET Handler, keys : SUBSET Key, lag : Nat, seconds : Nat, commands : Nat, changes : Nat]
  BY GateAssumption DEF Init
<1>3. Period \in Nat /\ Start \in Nat /\ Start > Period /\ perDuration \in Settings
  BY <1>2, GateAssumption DEF Init, Period, Lag, Start
<1>4. request \in [Handler -> Request] /\ \A h \in Handler : request[h].t = Start
  <2>1. scope.keys \subseteq Key
    BY <1>2
  <2> QED
    BY <1>3, <2>1 DEF Init, Request
<1>5. 0..(SlotCount - 1) = {}
  BY <1>1
<1>6. accepted \in Seq(Nat) /\ ran \in Seq(Request) /\ last \in [Key -> Nat] /\ index \in Nat
      /\ pc \in [Handler -> {"idle", "size", "allocate", "check", "append", "readLast", "writeLast"}]
  BY DEF Init
<1>7. TypeOK
  BY <1>1, <1>3, <1>4, <1>5, <1>6 DEF Init, TypeOK
<1>8. \A h \in Handler : request[h].t > Period
  BY <1>3, <1>4
<1>9. clock >= Start
  BY <1>3 DEF Init
<1> QED
  BY <1>1, <1>7, <1>8, <1>9 DEF Typed

LEMMA GotoTyped ==
  ASSUME Typed, NEW h \in Handler,
         NEW label \in {"idle", "size", "allocate", "check", "append", "readLast", "writeLast"}, Goto(h, label)
  PROVE  pc' \in [Handler -> {"idle", "size", "allocate", "check", "append", "readLast", "writeLast"}]
BY DEF Typed, TypeOK, Goto

LEMMA StepTyped == ASSUME Typed, NEW h \in scope.handlers, Step(h) PROVE Typed'
<1> USE DEF ring, config, traffic, history
<1>0. h \in Handler /\ Period \in Nat /\ Lag \in Nat /\ Interval \in Nat /\ clock >= Start /\ clock \in Nat
      /\ Start = Period + Interval + Lag + 1 /\ TypeOK
      /\ DOMAIN times = 0..(SlotCount - 1) /\ SlotCount \in Nat /\ scope.keys \subseteq Key
  BY TimesAreNumbers DEF Typed, Start
<1>1. CASE Arrive(h)
  <2>1. PICK t \in (clock - Lag)..clock, k \in scope.keys, debug \in BOOLEAN :
          /\ request' = [request EXCEPT ![h] = [t |-> t, key |-> k]]
          /\ Goto(h, IF debug THEN OwnLimit(k) ELSE "size")
    BY <1>1 DEF Arrive
  <2>2. t \in Nat /\ t > Period
    BY <1>0
  <2>3. [t |-> t, key |-> k] \in Request
    BY <1>0, <2>2 DEF Request
  <2>4. request' \in [Handler -> Request] /\ \A g \in Handler : request'[g].t > Period
    BY <1>0, <2>1, <2>2, <2>3 DEF Typed, TypeOK
  <2>5. UNCHANGED <<scope, clock, perDuration, changes, times, index, jammed, last, accepted, ran>>
    BY <1>1 DEF Arrive
  <2>6. \E label \in {"readLast", "idle", "size"} : Goto(h, label)
    BY <2>1 DEF OwnLimit
  <2> QED
    BY <1>0, <2>4, <2>5, <2>6, GotoTyped DEF Typed, TypeOK, SlotCount, Start, Period, Lag
<1>2. CASE CheckSize(h) \/ Check(h) \/ ReadLast(h)
  <2>1. \E label \in {"idle", "size", "allocate", "check", "append", "readLast", "writeLast"} : Goto(h, label)
    BY <1>2 DEF CheckSize, Permit, OwnLimit, Check, ReadLast
  <2>2. pc' \in [Handler -> {"idle", "size", "allocate", "check", "append", "readLast", "writeLast"}]
    BY <1>0, <2>1, GotoTyped
  <2> QED
    BY <1>0, <1>2, <2>2 DEF CheckSize, Check, ReadLast, Typed, TypeOK, SlotCount, Start, Period, Lag
<1>3. CASE Allocate(h)
  <2>1. perDuration \in Nat /\ 2 * perDuration \in Nat
    BY TimesAreNumbers
  <2>2. DOMAIN times' = 0..((2 * perDuration) - 1) /\ \A i \in DOMAIN times' : times'[i] = 0
    BY <1>3 DEF Allocate, EmptyRing
  <2>3. SlotCount' = 2 * perDuration
    BY <2>1, <2>2, SizeOfNew DEF SlotCount
  <2>4. Goto(h, "check") /\ UNCHANGED <<scope, clock, perDuration, changes, index, jammed, last, request, accepted, ran>>
    BY <1>3 DEF Allocate
  <2> QED
    BY <1>0, <2>1, <2>2, <2>3, <2>4, GotoTyped DEF Typed, TypeOK, Start, Period, Lag
<1>4. CASE AppendTime(h)
  <2>1. /\ SlotCount > 0 /\ index' = Slot(index + 1) /\ times' = [times EXCEPT ![index'] = request[h].t]
        /\ accepted' = Append(accepted, request[h].t)
        /\ UNCHANGED <<scope, clock, perDuration, changes, jammed, last, request, ran>>
    BY <1>4 DEF AppendTime, Record
  <2>2. request[h].t \in Nat
    BY <1>0 DEF TypeOK, Request
  <2>3. index' \in 0..(SlotCount - 1)
    <3>1. index + 1 \in Int /\ SlotCount \in Nat \ {0}
      BY <1>0, <2>1 DEF TypeOK
    <3> QED
      BY <2>1, <3>1, Divided DEF Slot
  <2>4. DOMAIN times' = DOMAIN times /\ \A i \in DOMAIN times' : times'[i] \in Nat
    BY <1>0, <2>1, <2>2 DEF TypeOK
  <2>5. accepted' \in Seq(Nat)
    BY <1>0, <2>1, <2>2 DEF TypeOK
  <2>6. \E label \in {"readLast", "idle"} : Goto(h, label)
    BY <1>4 DEF AppendTime, Permit, OwnLimit
  <2> QED
    BY <1>0, <2>1, <2>3, <2>4, <2>5, <2>6, GotoTyped DEF Typed, TypeOK, SlotCount, Start, Period, Lag
<1>5. CASE Panic(h)
  <2>1. UNCHANGED <<scope, clock, perDuration, changes, times, index, last, request, accepted, ran>>
        /\ jammed' \in BOOLEAN /\ Goto(h, "idle")
    BY <1>5 DEF Panic
  <2> QED
    BY <1>0, <2>1, GotoTyped DEF Typed, TypeOK, SlotCount, Start, Period, Lag
<1>6. CASE WriteLast(h)
  <2>1. request[h] \in Request
    BY <1>0 DEF TypeOK
  <2>2. last' \in [Key -> Nat] /\ ran' \in Seq(Request)
    BY <1>0, <1>6, <2>1 DEF WriteLast, TypeOK, Request
  <2>3. UNCHANGED <<scope, clock, perDuration, changes, times, index, jammed, request, accepted>> /\ Goto(h, "idle")
    BY <1>6 DEF WriteLast
  <2> QED
    BY <1>0, <2>2, <2>3, GotoTyped DEF Typed, TypeOK, SlotCount, Start, Period, Lag
<1> QED
  BY <1>1, <1>2, <1>3, <1>4, <1>5, <1>6 DEF Step

LEMMA TypedStep == ASSUME Typed, [Next]_vars PROVE Typed'
<1> USE DEF ring, config, traffic, history
<1>0. TypeOK /\ clock \in Nat /\ Start \in Nat
  BY TimesAreNumbers DEF Typed
<1>1. ASSUME NEW n \in Settings, SetConfig(n) PROVE Typed'
  <2>1. UNCHANGED <<scope, clock, times, index, jammed, last, pc, request, accepted, ran>>
        /\ perDuration' \in Settings /\ changes' \in Nat
    BY <1>0, <1>1 DEF SetConfig, TypeOK
  <2> QED
    BY <1>0, <2>1 DEF Typed, TypeOK, SlotCount, Start, Period, Lag
<1>2. CASE Tick
  <2>1. UNCHANGED <<scope, perDuration, changes, times, index, jammed, last, pc, request, accepted, ran>>
        /\ clock' = clock + 1
    BY <1>2 DEF Tick
  <2> QED
    BY <1>0, <2>1 DEF Typed, TypeOK, SlotCount, Start, Period, Lag
<1>3. CASE UNCHANGED vars
  BY <1>3 DEF vars, Typed, TypeOK, SlotCount, Start, Period, Lag
<1> QED
  BY <1>1, <1>2, <1>3, StepTyped DEF Next

(* The ring is a slice counted from zero whose index and timestamps are never
   negative, whatever replaces it.                                            *)
THEOREM GateTypeCorrect == Spec => []TypeOK
<1>1. Typed => TypeOK
  BY DEF Typed
<1> QED
  BY <1>1, TypedInit, TypedStep, PTL DEF Spec
-----------------------------------------------------------------------------
(***************************************************************************)
(* The ring.  Wherever a reallocation left the index, one entry more comes  *)
(* before those that were the latest.                                       *)
(***************************************************************************)
LEMMA RingGrows ==
  ASSUME Typed, SlotCount > 0, NEW k \in 0..SlotCount, k <= Len(accepted), HoldsLatest(k),
         NEW t \in Nat, Record(t), accepted' = Append(accepted, t),
         NEW m \in Nat, m = IF k < SlotCount THEN k + 1 ELSE k
  PROVE  SlotCount' = SlotCount /\ HoldsLatest(m)'
<1> DEFINE n == SlotCount
<1>0. /\ n \in Nat \ {0} /\ index \in Nat /\ DOMAIN times = 0..(n - 1)
      /\ accepted \in Seq(Nat) /\ Len(accepted) \in Nat
  BY DEF Typed, TypeOK
<1>1. /\ index' = (index + 1) % n /\ times' = [times EXCEPT ![index'] = t] /\ index' \in 0..(n - 1)
  <2>1. index + 1 \in Int
    BY <1>0
  <2>2. (index + 1) % n \in 0..(n - 1)
    <3> HIDE DEF n
    <3> QED
      BY <1>0, <2>1, Divided
  <2> QED
    BY <2>2 DEF Record, Slot
<1>2. SlotCount' = n
  BY <1>1 DEF SlotCount
<1>3. times'[index'] = t /\ \A i \in 0..(n - 1) : i # index' => times'[i] = times[i]
  BY <1>0, <1>1
<1>4. Len(accepted') = Len(accepted) + 1 /\ accepted'[Len(accepted')] = t
      /\ \A i \in 1..Len(accepted) : accepted'[i] = accepted[i]
  BY <1>0
<1>5. ASSUME NEW j \in 0..(n - 1)
      PROVE  times'[(index' - j) % n] = IF j < m THEN accepted'[Len(accepted') - j] ELSE 0
  <2>1. CASE j = 0
    <3>1. (index' - j) % n = index'
      <4>1. index' % n = index'
        <5> HIDE DEF n
        <5> QED
          BY <1>0, <1>1, Itself
      <4>2. index' - j = index'
        BY <1>1, <2>1
      <4> QED
        BY <4>1, <4>2, Zenon
    <3>2. j < m /\ Len(accepted') - j = Len(accepted')
      BY <1>0, <1>4, <2>1
    <3> QED
      BY <1>3, <1>4, <3>1, <3>2
  <2>2. CASE j # 0
    <3>0. j \in 1..(n - 1) /\ j - 1 \in 0..(n - 1) /\ index + 1 \in Int /\ index - (j - 1) \in Int
          /\ (index + 1) - j = index - (j - 1)
      BY <1>0, <2>2
    <3>1. (index' - j) % n = (index - (j - 1)) % n
      <4>1. (((index + 1) % n) - j) % n = ((index + 1) - j) % n
        <5>1. j \in Int
          OBVIOUS
        <5> HIDE DEF n
        <5> QED
          BY <1>0, <3>0, <5>1, TwiceTaken, Zenon
      <4> QED
        BY <1>1, <3>0, <4>1, Zenon
    <3>2. (index' - j) % n # index' /\ (index' - j) % n \in 0..(n - 1)
      <4>1. index' - j \in Int
        BY <1>1
      <4> HIDE DEF n
      <4> QED
        BY <1>0, <1>1, <3>0, <4>1, OtherPlace, Divided
    <3>3. times'[(index' - j) % n] = times[(index - (j - 1)) % n]
      BY <1>3, <3>1, <3>2, Zenon
    <3>4. times[(index - (j - 1)) % n] = IF j - 1 < k THEN accepted[Len(accepted) - (j - 1)] ELSE 0
      BY <3>0 DEF HoldsLatest, Slot
    <3>5. j < m <=> j - 1 < k
      BY <1>0, <3>0
    <3>6. CASE j < m
      <4>1. Len(accepted) - (j - 1) \in 1..Len(accepted) /\ Len(accepted) - (j - 1) = Len(accepted') - j
        BY <1>0, <1>4, <3>0, <3>5, <3>6
      <4> QED
        BY <1>4, <3>3, <3>4, <3>5, <3>6, <4>1
    <3>7. CASE ~(j < m)
      BY <3>3, <3>4, <3>5, <3>7
    <3> QED
      BY <3>6, <3>7
  <2> QED
    BY <2>1, <2>2
<1> QED
  BY <1>2, <1>5, Zenon DEF HoldsLatest, Slot

(* A ring that was just made holds nothing. *)
LEMMA RingIsNew ==
  ASSUME Typed, Typed', times' = EmptyRing(2 * perDuration) PROVE SlotCount' > 0 => HoldsLatest(0)'
<1> SUFFICES ASSUME SlotCount' > 0, NEW j \in 0..(SlotCount' - 1)
             PROVE  times'[(index' - j) % SlotCount'] = 0
  BY DEF HoldsLatest, Slot
<1>1. SlotCount' \in Nat /\ DOMAIN times' = 0..(SlotCount' - 1) /\ index' \in Nat
  BY DEF Typed, TypeOK
<1>2. \A i \in DOMAIN times' : times'[i] = 0
  BY DEF EmptyRing
<1>3. \A n \in Nat \ {0} : (index' - j) % n \in 0..(n - 1)
  <2>1. index' - j \in Int
    BY <1>1
  <2> QED
    BY <2>1, Divided
<1> QED
  BY <1>1, <1>2, <1>3

(* What the histories say of a step: a behaviour that is steady was. *)
LEMMA SteadyBefore ==
  ASSUME Typed, [Next]_vars
  PROVE  /\ ~overlapped' => ~overlapped
         /\ changes' = 0 => changes = 0 /\ perDuration' = perDuration
<1> USE DEF ring, config, traffic, history
<1>1. changes \in Nat
  BY DEF Typed, TypeOK
<1>2. ASSUME NEW h \in scope.handlers, Step(h)
      PROVE  (~overlapped' => ~overlapped) /\ UNCHANGED <<changes, perDuration>>
  <2>1. CASE Arrive(h)
    BY <2>1 DEF Arrive
  <2>2. CASE ~Arrive(h)
    BY <1>2, <2>2 DEF Step, CheckSize, Allocate, Check, AppendTime, Panic, ReadLast, WriteLast
  <2> QED
    BY <2>1, <2>2
<1>3. ASSUME NEW n \in Settings, SetConfig(n) PROVE UNCHANGED overlapped /\ changes' # 0
  BY <1>1, <1>3 DEF SetConfig
<1>4. CASE Tick \/ UNCHANGED vars
  BY <1>4 DEF Tick, vars
<1> QED
  BY <1>2, <1>3, <1>4 DEF Next

(* A handler that takes a step was alone, while none overlap. *)
LEMMA AloneStep == ASSUME Typed, Alone, [Next]_vars PROVE Alone'
<1> USE DEF ring, config, traffic, history
<1>0. pc \in [Handler -> {"idle", "size", "allocate", "check", "append", "readLast", "writeLast"}]
  BY DEF Typed, TypeOK
<1>1. ASSUME NEW h \in scope.handlers, Arrive(h) PROVE Alone'
  <2>1. h \in Handler /\ \A g \in Handler \ {h} : pc'[g] = pc[g]
    BY <1>0, <1>1, TimesAreNumbers DEF Arrive, Goto
  <2>2. ~overlapped' => \A g \in Handler \ {h} : pc[g] = "idle"
    BY <1>1 DEF Arrive
  <2> QED
    BY <2>1, <2>2 DEF Alone
<1>2. ASSUME NEW h \in scope.handlers, ~Arrive(h), Step(h) PROVE Alone'
  <2>1. h \in Handler /\ pc[h] # "idle"
    BY <1>2, TimesAreNumbers DEF Step, CheckSize, Allocate, Check, AppendTime, Panic, ReadLast, WriteLast
  <2>2. UNCHANGED overlapped /\ \A g \in Handler \ {h} : pc'[g] = pc[g]
    BY <1>0, <1>2 DEF Step, CheckSize, Allocate, Check, AppendTime, Panic, ReadLast, WriteLast, Goto, Permit, OwnLimit
  <2> QED
    BY <2>1, <2>2 DEF Alone
<1>3. CASE Tick \/ (\E n \in Settings : SetConfig(n)) \/ UNCHANGED vars
  BY <1>3 DEF Tick, SetConfig, vars, Alone
<1> QED
  BY <1>1, <1>2, <1>3 DEF Next

(* The setting that has not changed is what every handler has seen of it. *)
LEMMA SizedStep == ASSUME Typed, Typed', Sized, [Next]_vars PROVE Sized'
<1> USE DEF ring, config, traffic, history
<1> SUFFICES ASSUME changes' = 0 PROVE Sized'
  BY DEF Sized
<1>0. /\ changes = 0 /\ perDuration' = perDuration /\ perDuration \in Nat /\ SlotCount \in Nat
      /\ pc \in [Handler -> {"idle", "size", "allocate", "check", "append", "readLast", "writeLast"}]
      /\ scope.handlers \subseteq Handler
  BY SteadyBefore, TimesAreNumbers DEF Typed, TypeOK
<1>1. /\ ~jammed /\ SlotCount \in {0, 2 * perDuration}
      /\ \A h \in Handler : pc[h] \in {"allocate", "check", "append"} => perDuration > 0
      /\ \A h \in Handler : pc[h] \in {"check", "append"} => SlotCount = 2 * perDuration
  BY <1>0 DEF Sized
<1>2. ASSUME NEW h \in Handler, UNCHANGED <<jammed, times>>, NEW label \in {"idle", "size", "readLast", "writeLast"},
             Goto(h, label)
      PROVE  Sized'
  BY <1>0, <1>1, <1>2 DEF Goto, Sized, SlotCount
<1>3. ASSUME NEW h \in scope.handlers, Arrive(h) \/ ReadLast(h) \/ WriteLast(h) PROVE Sized'
  <2>1. UNCHANGED <<jammed, times>> /\ \E label \in {"idle", "size", "readLast", "writeLast"} : Goto(h, label)
    BY <1>3 DEF Arrive, ReadLast, WriteLast, OwnLimit
  <2> QED
    BY <1>0, <1>2, <2>1
<1>4. ASSUME NEW h \in scope.handlers, CheckSize(h) PROVE Sized'
  <2>1. UNCHANGED <<jammed, times>> /\ h \in Handler
    BY <1>0, <1>4 DEF CheckSize
  <2>2. CASE perDuration = 0
    BY <1>2, <1>4, <2>1, <2>2 DEF CheckSize, Permit, OwnLimit
  <2>3. CASE perDuration # 0
    <3>1. pc' = [pc EXCEPT ![h] = IF SlotCount < 2 * perDuration THEN "allocate" ELSE "check"]
      BY <1>4, <2>3 DEF CheckSize, Goto
    <3>2. SlotCount' = SlotCount /\ (~(SlotCount < 2 * perDuration) => SlotCount = 2 * perDuration) /\ perDuration > 0
      BY <1>0, <1>1, <2>1, <2>3 DEF SlotCount
    <3> QED
      BY <1>0, <1>1, <2>1, <3>1, <3>2 DEF Sized
  <2> QED
    BY <2>2, <2>3
<1>5. ASSUME NEW h \in scope.handlers, Allocate(h) PROVE Sized'
  <2>1. UNCHANGED jammed /\ pc[h] = "allocate" /\ pc' = [pc EXCEPT ![h] = "check"] /\ h \in Handler
    BY <1>0, <1>5 DEF Allocate, Goto
  <2>2. SlotCount' = 2 * perDuration
    <3>1. DOMAIN times' = 0..((2 * perDuration) - 1)
      BY <1>5 DEF Allocate, EmptyRing
    <3>2. 2 * perDuration \in Nat
      BY <1>0
    <3> QED
      BY <3>1, <3>2, SizeOfNew DEF SlotCount
  <2> QED
    BY <1>0, <1>1, <2>1, <2>2 DEF Sized
<1>6. ASSUME NEW h \in scope.handlers, Check(h) PROVE Sized'
  <2>1. pc[h] = "check" /\ h \in Handler /\ UNCHANGED <<jammed, times>> /\ \E label \in {"idle", "append"} : Goto(h, label)
    BY <1>0, <1>6 DEF Check
  <2>2. SlotCount' = SlotCount
    BY <2>1 DEF SlotCount
  <2> QED
    BY <1>0, <1>1, <2>1, <2>2 DEF Sized, Goto
<1>7. ASSUME NEW h \in scope.handlers, AppendTime(h) PROVE Sized'
  <2>1. UNCHANGED jammed /\ DOMAIN times' = DOMAIN times /\ h \in Handler /\ \E label \in {"idle", "readLast"} : Goto(h, label)
    BY <1>0, <1>7 DEF AppendTime, Permit, OwnLimit, Record
  <2>2. SlotCount' = SlotCount
    BY <2>1 DEF SlotCount
  <2> QED
    BY <1>0, <1>1, <2>1, <2>2 DEF Sized, Goto
<1>8. ASSUME NEW h \in scope.handlers, Panic(h) PROVE FALSE
  BY <1>0, <1>1, <1>8 DEF Panic
<1>9. CASE Tick \/ UNCHANGED vars
  BY <1>0, <1>1, <1>9 DEF Tick, vars, Sized, SlotCount
<1>10. ASSUME NEW n \in Settings, SetConfig(n) PROVE FALSE
  BY <1>0, <1>10 DEF SetConfig, Typed, TypeOK
<1> QED
  BY <1>3, <1>4, <1>5, <1>6, <1>7, <1>8, <1>9, <1>10 DEF Next, Step

(* Only a change of the setting leaves the ring's spinlock set, whichever handlers
   allocate the ring and consult it, however many there are.                   *)
THEOREM SpinlockIsReleased == Spec => []JamsOnlyAfterChange
<1>1. Init => Sized
  BY FS_EmptySet DEF Init, Sized, SlotCount
<1>2. Typed /\ Sized => JamsOnlyAfterChange
  BY DEF Typed, TypeOK, Sized, JamsOnlyAfterChange
<1> QED
  BY <1>1, <1>2, TypedInit, TypedStep, SizedStep, PTL DEF Spec
-----------------------------------------------------------------------------
(* What the parts of the invariant need of a step that leaves the ring alone. *)
LEMMA RingStays ==
  ASSUME Typed, Filled, [Next]_vars, UNCHANGED <<times, index, accepted>> PROVE Filled'
<1>1. SlotCount' = SlotCount
  BY DEF SlotCount
<1>2. Steady' => Steady
  BY SteadyBefore DEF Steady
<1>3. \A k \in Nat : HoldsLatest(k) => HoldsLatest(k)'
  BY <1>1 DEF HoldsLatest, Slot
<1>4. CASE SlotCount > 0
  <2>1. PICK k \in 0..SlotCount : /\ k <= Len(accepted) /\ HoldsLatest(k)
                                  /\ Steady => k = Len(accepted) \/ k = SlotCount
    BY <1>4 DEF Filled
  <2>2. k \in 0..SlotCount' /\ k <= Len(accepted') /\ HoldsLatest(k)'
    BY <1>1, <1>3, <2>1
  <2>3. Steady' => k = Len(accepted') \/ k = SlotCount'
    BY <1>1, <1>2, <2>1
  <2> QED
    BY <2>2, <2>3 DEF Filled
<1> QED
  BY <1>1, <1>4 DEF Filled

LEMMA FilledStep == ASSUME Typed, Typed', Filled, Unused, [Next]_vars PROVE Filled'
<1> USE DEF ring, config, traffic, history
<1>1. ASSUME NEW h \in scope.handlers, Allocate(h) PROVE Filled'
  <2>1. times' = EmptyRing(2 * perDuration) /\ accepted' = accepted /\ pc[h] = "allocate" /\ h \in Handler
    BY <1>1, TimesAreNumbers DEF Allocate
  <2>2. Steady' => Len(accepted) = 0
    BY <2>1, SteadyBefore DEF Steady, Unused
  <2>3. SlotCount' > 0 => HoldsLatest(0)'
    BY <2>1, RingIsNew
  <2>4. 0 \in 0..SlotCount' /\ Len(accepted') \in Nat
    BY DEF Typed, TypeOK
  <2>5. ASSUME SlotCount' > 0
        PROVE  \E k \in 0..SlotCount' : /\ k <= Len(accepted') /\ HoldsLatest(k)'
                                        /\ Steady' => k = Len(accepted') \/ k = SlotCount'
    <3>1. HoldsLatest(0)'
      BY <2>3, <2>5
    <3>2. 0 <= Len(accepted') /\ (Steady' => 0 = Len(accepted'))
      BY <2>1, <2>2, <2>4
    <3> QED
      BY <2>4, <3>1, <3>2
  <2> QED
    BY <2>5 DEF Filled
<1>2. ASSUME NEW h \in scope.handlers, AppendTime(h) PROVE Filled'
  <2>1. SlotCount > 0 /\ Record(request[h].t) /\ accepted' = Append(accepted, request[h].t) /\ h \in Handler
    BY <1>2, TimesAreNumbers DEF AppendTime
  <2>2. PICK k \in 0..SlotCount : /\ k <= Len(accepted) /\ HoldsLatest(k)
                                  /\ Steady => k = Len(accepted) \/ k = SlotCount
    BY <2>1 DEF Filled
  <2>3. request[h].t \in Nat /\ SlotCount \in Nat /\ accepted \in Seq(Nat) /\ Len(accepted) \in Nat
    BY <2>1 DEF Typed, TypeOK, Request
  <2>4. PICK m \in Nat : m = IF k < SlotCount THEN k + 1 ELSE k
    BY <2>3
  <2>5. SlotCount' = SlotCount /\ HoldsLatest(m)'
    BY <2>1, <2>2, <2>3, <2>4, RingGrows
  <2>6. Len(accepted') = Len(accepted) + 1
    BY <2>1, <2>3
  <2>7. m \in 0..SlotCount' /\ m <= Len(accepted')
    BY <2>2, <2>3, <2>4, <2>5, <2>6
  <2>8. Steady' => m = Len(accepted') \/ m = SlotCount'
    <3>1. Steady' => Steady
      BY SteadyBefore DEF Steady
    <3> QED
      BY <2>2, <2>3, <2>4, <2>5, <2>6, <3>1
  <2> QED
    BY <2>5, <2>7, <2>8 DEF Filled
<1>3. ASSUME NEW h \in scope.handlers, ~Allocate(h), ~AppendTime(h), Step(h) PROVE UNCHANGED <<times, index, accepted>>
  BY <1>3 DEF Step, Arrive, CheckSize, Check, Panic, ReadLast, WriteLast
<1>4. CASE Tick \/ (\E n \in Settings : SetConfig(n)) \/ UNCHANGED vars
  <2>1. UNCHANGED <<times, index, accepted>>
    BY <1>4 DEF Tick, SetConfig, vars
  <2> QED
    BY <2>1, RingStays
<1> QED
  BY <1>1, <1>2, <1>3, <1>4, RingStays DEF Next

LEMMA UnusedStep == ASSUME Typed, Typed', Alone, Sized, Unused, [Next]_vars PROVE Unused'
<1> USE DEF ring, config, traffic, history
<1> SUFFICES ASSUME Steady', SlotCount' = 0 \/ \E h \in Handler : pc'[h] = "allocate" PROVE Len(accepted') = 0
  BY DEF Unused
<1>0. /\ Steady /\ scope.handlers \subseteq Handler /\ SlotCount \in Nat /\ perDuration \in Nat
      /\ pc \in [Handler -> {"idle", "size", "allocate", "check", "append", "readLast", "writeLast"}]
  BY SteadyBefore, TimesAreNumbers DEF Steady, Typed, TypeOK
<1>1. ASSUME NEW h \in scope.handlers, CheckSize(h) PROVE Len(accepted') = 0
  <2>1. UNCHANGED <<times, accepted>> /\ h \in Handler /\ \A g \in Handler \ {h} : pc'[g] = pc[g]
    BY <1>0, <1>1 DEF CheckSize, Permit, OwnLimit, Goto
  <2>2. pc'[h] = "allocate" => SlotCount < 2 * perDuration
    BY <1>0, <1>1 DEF CheckSize, Permit, OwnLimit, Goto
  <2>3. pc'[h] = "allocate" => SlotCount = 0
    BY <1>0, <2>2 DEF Steady, Sized
  <2> QED
    BY <1>0, <2>1, <2>3 DEF Unused, SlotCount
<1>2. ASSUME NEW h \in scope.handlers, Allocate(h) PROVE Len(accepted') = 0
  BY <1>0, <1>2 DEF Allocate, Unused
<1>3. ASSUME NEW h \in scope.handlers, AppendTime(h) PROVE FALSE
  <2>1. SlotCount > 0 /\ pc[h] = "append" /\ h \in Handler /\ DOMAIN times' = DOMAIN times
        /\ \A g \in Handler \ {h} : pc'[g] = pc[g]
    BY <1>0, <1>3 DEF AppendTime, Record, Permit, OwnLimit, Goto
  <2>2. pc'[h] \in {"idle", "readLast"}
    BY <1>0, <1>3 DEF AppendTime, Permit, OwnLimit, Goto
  <2>3. \A g \in Handler \ {h} : pc[g] = "idle"
    BY <1>0, <2>1 DEF Alone, Steady
  <2> QED
    BY <1>0, <2>1, <2>2, <2>3 DEF SlotCount
<1>4. ASSUME NEW h \in scope.handlers, Arrive(h) \/ Check(h) \/ Panic(h) \/ ReadLast(h) \/ WriteLast(h)
      PROVE  Len(accepted') = 0
  <2>1. UNCHANGED <<times, accepted>> /\ h \in Handler /\ \A g \in Handler \ {h} : pc'[g] = pc[g]
    BY <1>0, <1>4 DEF Arrive, Check, Panic, ReadLast, WriteLast, Goto
  <2>2. pc'[h] # "allocate"
    BY <1>0, <1>4 DEF Arrive, Check, Panic, ReadLast, WriteLast, Goto, OwnLimit
  <2> QED
    BY <1>0, <2>1, <2>2 DEF Unused, SlotCount
<1>5. CASE Tick \/ (\E n \in Settings : SetConfig(n)) \/ UNCHANGED vars
  BY <1>0, <1>5 DEF Tick, SetConfig, vars, Unused, SlotCount
<1> QED
  BY <1>1, <1>2, <1>3, <1>4, <1>5 DEF Next, Step

(* The entry that Check looks at is the one that was accepted perDuration before. *)
LEMMA OldestAccepted ==
  ASSUME Typed, NEW k \in 0..SlotCount, HoldsLatest(k), 0 < perDuration, perDuration <= SlotCount
  PROVE  Oldest = IF perDuration <= k THEN accepted[(Len(accepted) + 1) - perDuration] ELSE 0
<1>1. perDuration \in Nat /\ SlotCount \in Nat /\ Len(accepted) \in Nat
  BY TimesAreNumbers DEF Typed, TypeOK
<1>2. perDuration - 1 \in 0..(SlotCount - 1)
  BY <1>1
<1>3. Oldest = IF perDuration - 1 < k THEN accepted[Len(accepted) - (perDuration - 1)] ELSE 0
  BY <1>2 DEF Oldest, HoldsLatest
<1>4. (perDuration - 1 < k <=> perDuration <= k) /\ Len(accepted) - (perDuration - 1) = (Len(accepted) + 1) - perDuration
  BY <1>1
<1> QED
  BY <1>3, <1>4, Zenon

LEMMA PassedStep == ASSUME Typed, Alone, Sized, Filled, Passed, [Next]_vars PROVE Passed'
<1> USE DEF ring, config, traffic, history
<1> SUFFICES ASSUME Steady', NEW g \in Handler, pc'[g] = "append", Len(accepted') >= perDuration'
             PROVE  request'[g].t - accepted'[(Len(accepted') + 1) - perDuration'] > Period'
  BY DEF Passed
<1>0. /\ Steady /\ perDuration' = perDuration /\ scope.handlers \subseteq Handler
      /\ SlotCount \in Nat /\ perDuration \in Nat
      /\ pc \in [Handler -> {"idle", "size", "allocate", "check", "append", "readLast", "writeLast"}]
      /\ request \in [Handler -> Request] /\ Len(accepted) \in Nat
  BY SteadyBefore, TimesAreNumbers DEF Steady, Typed, TypeOK
<1>1. ASSUME UNCHANGED <<scope, accepted>>, pc'[g] = pc[g], request'[g] = request[g]
      PROVE  request'[g].t - accepted'[(Len(accepted') + 1) - perDuration'] > Period'
  BY <1>0, <1>1 DEF Passed, Period
<1>2. ASSUME NEW h \in scope.handlers, Check(h)
      PROVE  request'[g].t - accepted'[(Len(accepted') + 1) - perDuration'] > Period'
  <2>0. UNCHANGED <<scope, accepted, request>> /\ pc[h] = "check" /\ h \in Handler
        /\ pc' = [pc EXCEPT ![h] = IF Saturated(request[h].t) THEN "idle" ELSE "append"]
    BY <1>0, <1>2 DEF Check, Goto
  <2>1. CASE g = h
    <3>1. ~Saturated(request[h].t)
      BY <1>0, <2>0, <2>1
    <3>2. SlotCount = 2 * perDuration /\ perDuration > 0
      BY <1>0, <2>0 DEF Sized, Steady
    <3>3. PICK k \in 0..SlotCount : HoldsLatest(k) /\ (k = Len(accepted) \/ k = SlotCount)
      BY <1>0, <3>2 DEF Filled
    <3>4. perDuration <= k
      BY <1>0, <2>0, <3>2, <3>3
    <3>5. Oldest = accepted[(Len(accepted) + 1) - perDuration]
      BY <1>0, <3>2, <3>3, <3>4, OldestAccepted
    <3>6. request[h].t \in Nat /\ Oldest \in Nat /\ Period \in Nat
      <4>1. (Len(accepted) + 1) - perDuration \in 1..Len(accepted)
        BY <1>0, <2>0, <3>2
      <4>2. accepted \in Seq(Nat) /\ request[h] \in Request
        BY <1>0, <2>0 DEF Typed, TypeOK
      <4>3. Oldest \in Nat
        BY <3>5, <4>1, <4>2
      <4> QED
        BY <4>2, <4>3, TimesAreNumbers DEF Request
    <3>7. request[h].t - Oldest > Period
      BY <3>1, <3>6 DEF Saturated
    <3> QED
      BY <1>0, <2>0, <2>1, <3>5, <3>7 DEF Period
  <2>2. CASE g # h
    BY <1>0, <1>1, <2>0, <2>2
  <2> QED
    BY <2>1, <2>2
<1>3. ASSUME NEW h \in scope.handlers, AppendTime(h) PROVE FALSE
  <2>1. pc[h] = "append" /\ h \in Handler /\ pc'[h] \in {"idle", "readLast"} /\ \A i \in Handler \ {h} : pc'[i] = pc[i]
    BY <1>0, <1>3 DEF AppendTime, Permit, OwnLimit, Goto
  <2> QED
    BY <1>0, <2>1 DEF Alone, Steady
<1>4. ASSUME NEW h \in scope.handlers,
             Arrive(h) \/ CheckSize(h) \/ Allocate(h) \/ Panic(h) \/ ReadLast(h) \/ WriteLast(h)
      PROVE  request'[g].t - accepted'[(Len(accepted') + 1) - perDuration'] > Period'
  <2>1. UNCHANGED <<scope, accepted>> /\ h \in Handler
    BY <1>0, <1>4 DEF Arrive, CheckSize, Allocate, Panic, ReadLast, WriteLast
  <2>2. pc'[h] # "append"
    BY <1>0, <1>4 DEF Arrive, CheckSize, Permit, OwnLimit, Allocate, Panic, ReadLast, WriteLast, Goto
  <2>3. pc'[g] = pc[g] /\ request'[g] = request[g]
    BY <1>0, <1>4, <2>1, <2>2 DEF Arrive, CheckSize, Permit, OwnLimit, Allocate, Panic, ReadLast, WriteLast, Goto
  <2> QED
    BY <1>1, <2>1, <2>3
<1>5. CASE Tick \/ (\E n \in Settings : SetConfig(n)) \/ UNCHANGED vars
  BY <1>1, <1>5 DEF Tick, SetConfig, vars
<1> QED
  BY <1>2, <1>3, <1>4, <1>5 DEF Next, Step

LEMMA GapsAdd ==
  ASSUME NEW a \in Nat, NEW b \in Nat, NEW c \in Nat, NEW gap \in Nat, b - a > gap, c - b > gap
  PROVE  c - a > gap
  OBVIOUS

(* One timestamp more. *)
LEMMA ChainGrows ==
  ASSUME NEW s \in Seq(Nat), NEW t \in Nat, NEW p \in Nat \ {0}, NEW period \in Nat,
         NEW u, u = Append(s, t), Apart(s, p, period),
         Len(s) >= p => t - s[(Len(s) + 1) - p] > period
  PROVE  Apart(u, p, period)
<1>1. /\ Len(s) \in Nat /\ Len(u) = Len(s) + 1 /\ u[Len(s) + 1] = t
      /\ \A i \in 1..Len(s) : u[i] = s[i] /\ s[i] \in Nat
  OBVIOUS
<1>0. \A i, j \in 1..(Len(s) + 1) : i < j /\ j # Len(s) + 1 => i \in 1..Len(s) /\ j \in 1..Len(s)
  <2>1. Len(s) \in Nat
    BY <1>1
  <2> QED
    BY <2>1
<1> SUFFICES ASSUME NEW i \in 1..(Len(s) + 1), NEW j \in 1..(Len(s) + 1), i < j, i % p = j % p
             PROVE  u[j] - u[i] > period
  BY <1>1 DEF Apart
<1>2. CASE j # Len(s) + 1
  <2>1. i \in 1..Len(s) /\ j \in 1..Len(s)
    BY <1>0, <1>2, Zenon
  <2> QED
    BY <1>1, <2>1 DEF Apart
<1>3. CASE j = Len(s) + 1
  <2>0. i \in Nat /\ j \in Nat /\ i <= Len(s)
    BY <1>1, <1>3
  <2>1. i <= j - p
    BY <2>0, FarApart, Zenon
  <2>2. j - p \in 1..Len(s) /\ i \in 1..Len(s)
    BY <1>1, <1>3, <2>0, <2>1
  <2>3. t - s[j - p] > period
    BY <1>1, <1>3, <2>0, <2>2
  <2>4. u[j] = t /\ u[i] = s[i] /\ s[i] \in Nat /\ s[j - p] \in Nat
    BY <1>1, <1>3, <2>2
  <2>5. CASE i = j - p
    BY <2>3, <2>4, <2>5
  <2>6. CASE i # j - p
    <3>1. (j - p) % p = j % p
      <4>1. j \in Int
        BY <2>0
      <4> QED
        BY <4>1, SameApart
    <3>2. i < j - p /\ i % p = (j - p) % p
      BY <2>0, <2>1, <2>6, <3>1
    <3>3. s[j - p] - s[i] > period
      BY <2>2, <3>2 DEF Apart
    <3>4. t \in Nat /\ period \in Nat
      OBVIOUS
    <3>5. t - s[i] > period
      BY <2>3, <2>4, <3>3, <3>4, GapsAdd, Zenon
    <3> QED
      BY <2>4, <3>5, Zenon
  <2> QED
    BY <2>5, <2>6
<1> QED
  BY <1>2, <1>3

LEMMA ChainedStep == ASSUME Typed, Sized, Chained, Passed, [Next]_vars PROVE Chained'
<1> USE DEF ring, config, traffic, history
<1> SUFFICES ASSUME Steady' PROVE Chained'
  BY DEF Chained
<1>0. Steady /\ perDuration' = perDuration /\ scope.handlers \subseteq Handler /\ perDuration \in Nat /\ Period \in Nat
  BY SteadyBefore, TimesAreNumbers DEF Steady
<1>1. ASSUME UNCHANGED <<scope, accepted>> PROVE Chained'
  BY <1>0, <1>1 DEF Chained, Period
<1>2. ASSUME NEW h \in scope.handlers, AppendTime(h) PROVE Chained'
  <2>1. accepted' = Append(accepted, request[h].t) /\ scope' = scope /\ pc[h] = "append" /\ h \in Handler
    BY <1>0, <1>2 DEF AppendTime
  <2>2. perDuration > 0 /\ accepted \in Seq(Nat) /\ request[h].t \in Nat
    BY <1>0, <2>1 DEF Steady, Sized, Typed, TypeOK, Request
  <2>3. Apart(accepted, perDuration, Period)
    BY <1>0 DEF Chained
  <2>4. Len(accepted) >= perDuration => request[h].t - accepted[(Len(accepted) + 1) - perDuration] > Period
    BY <1>0, <2>1 DEF Passed
  <2>5. Apart(accepted', perDuration, Period)
    <3>1. perDuration \in Nat \ {0}
      BY <1>0, <2>2
    <3> QED
      BY <1>0, <2>1, <2>2, <2>3, <2>4, <3>1, ChainGrows, Zenon
  <2>6. Period' = Period /\ perDuration' > 0
    BY <1>0, <2>1, <2>2 DEF Period
  <2> QED
    BY <1>0, <2>5, <2>6 DEF Chained
<1>3. ASSUME NEW h \in scope.handlers, ~AppendTime(h), Step(h) PROVE UNCHANGED <<scope, accepted>>
  BY <1>3 DEF Step, Arrive, CheckSize, Allocate, Check, Panic, ReadLast, WriteLast
<1>4. CASE Tick \/ (\E n \in Settings : SetConfig(n)) \/ UNCHANGED vars
  BY <1>1, <1>4 DEF Tick, SetConfig, vars
<1> QED
  BY <1>1, <1>2, <1>3, <1>4 DEF Next
-----------------------------------------------------------------------------
(* A command's own limit. *)
LEMMA SpacedStep == ASSUME Typed, Alone, Spaced, [Next]_vars PROVE Spaced'
<1> USE DEF ring, config, traffic, history
<1> SUFFICES ASSUME ~overlapped' PROVE Spaced'
  BY DEF Spaced
<1>0. /\ ~overlapped /\ scope.handlers \subseteq Handler /\ Interval \in Nat
      /\ pc \in [Handler -> {"idle", "size", "allocate", "check", "append", "readLast", "writeLast"}]
      /\ request \in [Handler -> Request] /\ last \in [Key -> Nat] /\ ran \in Seq(Request)
  BY SteadyBefore, TimesAreNumbers DEF Typed, TypeOK
<1>1. /\ \A i, j \in 1..Len(ran) : i < j /\ ran[i].key = ran[j].key => ran[j].t - ran[i].t > Interval
      /\ \A i \in 1..Len(ran) : ran[i].t <= last[ran[i].key]
      /\ \A h \in Handler : pc[h] = "writeLast" => request[h].t - last[request[h].key] > Interval
  BY <1>0 DEF Spaced
<1>2. ASSUME UNCHANGED <<ran, last>>,
             \A h \in Handler : pc'[h] = "writeLast" => request'[h].t - last[request'[h].key] > Interval
      PROVE  Spaced'
  BY <1>1, <1>2 DEF Spaced
<1>3. ASSUME NEW h \in scope.handlers, WriteLast(h) PROVE Spaced'
  <2> DEFINE r == request[h]
  <2>1. /\ h \in Handler /\ pc[h] = "writeLast" /\ ran' = Append(ran, r) /\ last' = [last EXCEPT ![r.key] = r.t]
        /\ pc'[h] = "idle" /\ \A g \in Handler \ {h} : pc'[g] = pc[g]
    BY <1>0, <1>3 DEF WriteLast, Goto
  <2>2. /\ r \in Request /\ r.key \in Key /\ r.t \in Nat /\ r.t - last[r.key] > Interval /\ last[r.key] \in Nat
    BY <1>0, <1>1, <2>1 DEF Request
  <2>3. \A g \in Handler : pc'[g] # "writeLast"
    BY <1>0, <2>1 DEF Alone
  <2>4. /\ Len(ran) \in Nat /\ Len(ran') = Len(ran) + 1 /\ ran'[Len(ran) + 1] = r
        /\ \A i \in 1..Len(ran) : ran'[i] = ran[i] /\ ran[i] \in Request
    <3> HIDE DEF r
    <3> QED
      BY <1>0, <2>1, <2>2
  <2>5. \A k \in Key : last'[k] = IF k = r.key THEN r.t ELSE last[k]
    <3> HIDE DEF r
    <3> QED
      BY <1>0, <2>1, <2>2
  <2>6. \A i \in 1..Len(ran) : /\ ran[i].t \in Nat /\ ran[i].key \in Key
                               /\ ran[i].t <= last[ran[i].key]
                               /\ last[ran[i].key] \in Nat
    BY <1>0, <1>1, <2>4 DEF Request
  <2> HIDE DEF r
  <2>7. \A i \in 1..Len(ran) : ran[i].key = r.key => r.t - ran[i].t > Interval /\ ran[i].t <= r.t
    BY <1>0, <2>2, <2>6
  <2>8. ASSUME NEW i \in 1..Len(ran'), NEW j \in 1..Len(ran'), i < j, ran'[i].key = ran'[j].key
        PROVE  ran'[j].t - ran'[i].t > Interval
    <3>1. i \in 1..Len(ran) /\ ran'[i] = ran[i]
      BY <2>4, <2>8
    <3>2. CASE j = Len(ran) + 1
      BY <2>4, <2>7, <2>8, <3>1, <3>2
    <3>3. CASE j # Len(ran) + 1
      <4>1. j \in 1..Len(ran) /\ ran'[j] = ran[j]
        BY <2>4, <2>8, <3>3
      <4> QED
        BY <1>1, <2>8, <3>1, <4>1
    <3> QED
      BY <3>2, <3>3
  <2>9. ASSUME NEW i \in 1..Len(ran') PROVE ran'[i].t <= last'[ran'[i].key]
    <3>1. CASE i = Len(ran) + 1
      BY <2>2, <2>4, <2>5, <3>1
    <3>2. CASE i # Len(ran) + 1
      <4>1. i \in 1..Len(ran) /\ ran'[i] = ran[i]
        BY <2>4, <2>9, <3>2
      <4> QED
        BY <2>5, <2>6, <2>7, <4>1
    <3> QED
      BY <3>1, <3>2
  <2> QED
    BY <2>3, <2>8, <2>9 DEF Spaced
<1>4. ASSUME NEW h \in scope.handlers, ReadLast(h) PROVE Spaced'
  <2>1. /\ UNCHANGED <<ran, last, request>> /\ h \in Handler /\ \A g \in Handler \ {h} : pc'[g] = pc[g]
        /\ pc'[h] = IF request[h].t - last[request[h].key] > Interval THEN "writeLast" ELSE "idle"
    BY <1>0, <1>4 DEF ReadLast, Goto
  <2> QED
    BY <1>1, <1>2, <2>1
<1>5. ASSUME NEW h \in scope.handlers,
             Arrive(h) \/ CheckSize(h) \/ Allocate(h) \/ Check(h) \/ AppendTime(h) \/ Panic(h)
      PROVE  Spaced'
  <2>1. UNCHANGED <<ran, last>> /\ h \in Handler /\ \A g \in Handler \ {h} : pc'[g] = pc[g] /\ request'[g] = request[g]
    BY <1>0, <1>5 DEF Arrive, CheckSize, Allocate, Check, AppendTime, Permit, OwnLimit, Panic, Goto
  <2>2. pc'[h] # "writeLast"
    BY <1>0, <1>5 DEF Arrive, CheckSize, Allocate, Check, AppendTime, Permit, OwnLimit, Panic, Goto
  <2> QED
    BY <1>1, <1>2, <2>1, <2>2
<1>6. CASE Tick \/ (\E n \in Settings : SetConfig(n)) \/ UNCHANGED vars
  BY <1>1, <1>2, <1>6 DEF Tick, SetConfig, vars
<1> QED
  BY <1>3, <1>4, <1>5, <1>6 DEF Next, Step

-----------------------------------------------------------------------------
Limited == Typed /\ Alone /\ Sized /\ Filled /\ Unused /\ Chained /\ Passed /\ Spaced

LEMMA LimitedFromStart == Spec => []Limited
<1>1. Init => Limited
  <2> SUFFICES ASSUME Init PROVE Limited
    OBVIOUS
  <2>1. Typed
    BY TypedInit
  <2>2. SlotCount = 0
    BY FS_EmptySet DEF Init, SlotCount
  <2>3. Alone /\ Sized /\ Filled /\ Unused
    BY <2>2 DEF Init, Alone, Sized, Filled, Unused
  <2>4. Chained /\ Passed /\ Spaced
    BY DEF Init, Chained, Apart, Passed, Spaced
  <2> QED
    BY <2>1, <2>3, <2>4 DEF Limited
<1>2. Limited /\ [Next]_vars => Limited'
  <2> SUFFICES ASSUME Limited, [Next]_vars PROVE Limited'
    OBVIOUS
  <2>1. Typed'
    BY TypedStep DEF Limited
  <2>2. Alone' /\ Sized' /\ Filled' /\ Unused'
    BY <2>1, AloneStep, SizedStep, FilledStep, UnusedStep DEF Limited
  <2>3. Chained' /\ Passed' /\ Spaced'
    BY ChainedStep, PassedStep, SpacedStep DEF Limited
  <2> QED
    BY <2>1, <2>2, <2>3 DEF Limited
<1> QED
  BY <1>1, <1>2, PTL DEF Spec

(* Of perDuration + 1 numbers two have the same remainder. *)
LEMMA WindowIsSmall == Limited => AtMostPerDurationInTurn
<1> SUFFICES ASSUME Limited, Steady, NEW w \in 1..Len(accepted)
             PROVE  Cardinality(InWindow(accepted[w])) <= perDuration
  BY DEF AtMostPerDurationInTurn, AtMostPerDuration, Steady
<1> DEFINE W == InWindow(accepted[w])
<1>1. perDuration \in Nat \ {0} /\ Period \in Nat /\ accepted \in Seq(Nat) /\ Len(accepted) \in Nat
  <2>1. Typed /\ Chained
    BY DEF Limited
  <2>2. accepted \in Seq(Nat) /\ Len(accepted) \in Nat
    BY <2>1 DEF Typed, TypeOK
  <2> QED
    BY <2>1, <2>2, TimesAreNumbers DEF Chained
<1>2. W \subseteq 1..Len(accepted) /\ IsFiniteSet(W) /\ Cardinality(W) \in Nat
  <2>1. W \subseteq 1..Len(accepted)
    BY DEF InWindow
  <2>2. 1 \in Int /\ Len(accepted) \in Int
    BY <1>1
  <2>3. IsFiniteSet(1..Len(accepted))
    BY <2>2, FS_Interval
  <2>4. IsFiniteSet(W)
    <3> HIDE DEF W
    <3> QED
      BY <2>1, <2>3, FS_Subset
  <2> QED
    BY <2>1, <2>4, FS_CardinalityType
<1>3. IsFiniteSet(0..(perDuration - 1)) /\ Cardinality(0..(perDuration - 1)) = perDuration
  <2>1. 0 \in Int /\ perDuration - 1 \in Int
    BY <1>1
  <2> QED
    BY <1>1, <2>1, FS_Interval, SizeOfNew
<1>4. ASSUME Cardinality(W) > perDuration PROVE FALSE
  <2> DEFINE f == [i \in W |-> i % perDuration]
  <2>1. f \in [W -> 0..(perDuration - 1)]
    <3>1. \A i \in W : i % perDuration \in 0..(perDuration - 1)
      <4>1. \A i \in W : i \in Int
        BY <1>1, <1>2
      <4> HIDE DEF W
      <4> QED
        BY <1>1, <4>1, Divided
    <3> HIDE DEF W
    <3> QED
      BY <3>1
  <2>2. Cardinality(0..(perDuration - 1)) < Cardinality(W)
    <3> HIDE DEF W
    <3> QED
      BY <1>1, <1>2, <1>3, <1>4
  <2>3. PICK x, y \in W : x # y /\ f[x] = f[y]
    <3> HIDE DEF f, W
    <3> QED
      BY <1>2, <1>3, <2>1, <2>2, FS_PigeonHole
  <2>4. x % perDuration = y % perDuration
    BY <2>3
  <2>5. Apart(accepted, perDuration, Period)
    BY DEF Limited, Chained
  <2>6. x \in 1..Len(accepted) /\ y \in 1..Len(accepted) /\ accepted[x] \in Nat /\ accepted[y] \in Nat
        /\ accepted[w] \in Nat
    BY <1>1, <1>2, <2>3
  <2>7. accepted[x] \in accepted[w]..(accepted[w] + Period) /\ accepted[y] \in accepted[w]..(accepted[w] + Period)
    BY <2>3 DEF InWindow
  <2>8. ~(accepted[x] - accepted[y] > Period) /\ ~(accepted[y] - accepted[x] > Period)
    BY <1>1, <2>6, <2>7
  <2>9. x < y \/ y < x
    <3>1. x \in Int /\ y \in Int
      BY <1>1, <2>6
    <3> HIDE DEF f
    <3>2. x # y
      BY <2>3
    <3> QED
      BY <3>1, <3>2
  <2> QED
    BY <2>4, <2>5, <2>6, <2>8, <2>9 DEF Apart
<1> QED
  BY <1>1, <1>2, <1>4

(***************************************************************************)
(* No window of CommandMaxDuration seconds holds more than                  *)
(* CommandPerDuration accepted commands, a command does not run twice       *)
(* within its own limit, both while commands come one at a time, and the    *)
(* ring is a sound record of the latest accepted ones whatever happens.     *)
(***************************************************************************)
THEOREM LimitsAlwaysHold == Spec => []LimitsHold
<1>1. Limited => LimitsHold
  <2> SUFFICES ASSUME Limited PROVE LimitsHold
    OBVIOUS
  <2>1. OncePerInterval
    BY DEF Limited, Spaced, OncePerInterval
  <2>2. RingHoldsLatest
    BY DEF Limited, Filled, RingHoldsLatest
  <2> QED
    BY <2>1, <2>2, WindowIsSmall DEF LimitsHold
<1> QED
  BY <1>1, LimitedFromStart, PTL

(* What SaturationLimit.check turns away has perDuration accepted timestamps
   before it within the period.                                               *)
LEMMA RefusedAfterMany ==
  ASSUME Typed, Filled, NEW h \in Handler, Check(h), pc'[h] = "idle",
         InOrder(request[h].t), perDuration <= SlotCount
  PROVE  Cardinality(InWindow(request[h].t - Period)) >= perDuration
<1> DEFINE t == request[h].t
           n == Len(accepted)
           W == InWindow(t - Period)
           first == (n + 1) - perDuration
<1>1. /\ t \in Nat /\ t > Period /\ Period \in Nat /\ perDuration \in Nat /\ SlotCount \in Nat
      /\ accepted \in Seq(Nat) /\ n \in Nat
  <2>1. request[h] \in Request /\ accepted \in Seq(Nat) /\ request[h].t > Period
    BY DEF Typed, TypeOK
  <2> QED
    BY <2>1, TimesAreNumbers DEF Request
<1>2. SlotCount > 0 /\ Saturated(t)
  <2>1. h \in DOMAIN pc
    BY DEF Typed, TypeOK
  <2> QED
    BY <2>1 DEF Check, Goto
<1>3. IsFiniteSet(W) /\ Cardinality(W) \in Nat
  <2>1. W \subseteq 1..n
    BY DEF InWindow
  <2>2. 1 \in Int /\ n \in Int
    BY <1>1
  <2>3. IsFiniteSet(1..n)
    BY <2>2, FS_Interval
  <2>4. IsFiniteSet(W)
    <3> HIDE DEF W, n
    <3> QED
      BY <2>1, <2>3, FS_Subset
  <2> QED
    BY <2>4, FS_CardinalityType
<1>4. CASE perDuration = 0
  <2>1. Cardinality(W) >= perDuration
    <3> HIDE DEF W
    <3> QED
      BY <1>3, <1>4
  <2> QED
    BY <2>1
<1>5. CASE perDuration > 0
  <2>1. PICK k \in 0..SlotCount : k <= n /\ HoldsLatest(k)
    BY <1>2 DEF Filled
  <2>2. Oldest = IF perDuration <= k THEN accepted[first] ELSE 0
    BY <1>5, <2>1, OldestAccepted
  <2>3. t - Oldest <= Period
    BY <1>2 DEF Saturated
  <2>4. perDuration <= k
    <3> HIDE DEF t
    <3> QED
      BY <1>1, <2>2, <2>3
  <2>5. first \in 1..n /\ first + (perDuration - 1) = n /\ first \in Int /\ n \in Int
    <3> HIDE DEF n
    <3> QED
      BY <1>1, <1>5, <2>1, <2>4
  <2>6. accepted[first] \in Nat /\ accepted[first] >= t - Period
    <3>1. accepted[first] \in Nat
      BY <1>1, <2>5
    <3>2. Oldest = accepted[first]
      BY <2>2, <2>4
    <3> HIDE DEF t, first
    <3> QED
      BY <1>1, <2>3, <3>1, <3>2
  <2>7. ASSUME NEW i \in first..n PROVE i \in W
    <3>1. i \in 1..n /\ i \in Int
      <4> HIDE DEF n, first
      <4> QED
        BY <1>1, <2>5
    <3>2. accepted[i] \in Nat
      BY <1>1, <3>1
    <3> DEFINE all == Append(accepted, t)
    <3>3. Len(all) = n + 1 /\ all[n + 1] = t /\ \A x \in 1..n : all[x] = accepted[x]
      BY <1>1
    <3>4. \A x, y \in 1..Len(all) : x < y => all[x] <= all[y]
      BY DEF InOrder
    <3> HIDE DEF all, n
    <3>5. accepted[i] <= t
      <4>1. i \in 1..Len(all) /\ n + 1 \in 1..Len(all) /\ i < n + 1
        BY <1>1, <3>1, <3>3
      <4> QED
        BY <3>1, <3>3, <3>4, <4>1
    <3>6. accepted[first] <= accepted[i]
      <4> HIDE DEF first
      <4>1. CASE first = i
        BY <2>6, <4>1
      <4>2. CASE first # i
        <5>1. i \in 1..Len(all) /\ first \in 1..Len(all) /\ first < i
          BY <1>1, <2>5, <2>7, <3>1, <3>3, <4>2
        <5> QED
          BY <2>5, <3>1, <3>3, <3>4, <5>1
      <4> QED
        BY <4>1, <4>2
    <3>7. accepted[i] \in (t - Period)..((t - Period) + Period)
      <4> HIDE DEF t, first
      <4> QED
        BY <1>1, <2>6, <3>2, <3>5, <3>6
    <3> QED
      BY <3>1, <3>7 DEF InWindow, n
  <2>8. Cardinality(first..n) = perDuration
    <3> HIDE DEF first, n
    <3>1. Cardinality(first..n) = IF first > n THEN 0 ELSE n - first + 1
      BY <2>5, FS_Interval
    <3> QED
      BY <1>1, <2>5, <3>1
  <2>9. Cardinality(first..n) <= Cardinality(W)
    <3> HIDE DEF first, n, W
    <3> QED
      BY <1>3, <2>7, FS_Subset
  <2>10. Cardinality(W) >= perDuration
    <3> HIDE DEF first, n, W
    <3> QED
      BY <1>1, <1>3, <2>8, <2>9
  <2> QED
    BY <2>10
<1> QED
  BY <1>1, <1>4, <1>5

(***************************************************************************)
(* A command whose message is in order is refused only for perDuration      *)
(* accepted ones in the CommandMaxDuration seconds before it, however       *)
(* handlers overlap and whenever the setting changes between their steps.   *)
(***************************************************************************)
THEOREM NeverRefusedWithoutCause == Spec => RefusedForCause
<1> DEFINE A == \A h \in Handler :
                  Refuses(h) /\ InOrder(request[h].t) /\ ~jammed' /\ perDuration <= SlotCount
                    => Cardinality(InWindow(request[h].t - Period)) >= perDuration
<1>1. Limited /\ [Next]_vars => A
  <2> SUFFICES ASSUME Limited, [Next]_vars, NEW h \in Handler, Refuses(h),
                      InOrder(request[h].t), ~jammed', perDuration <= SlotCount
               PROVE  Cardinality(InWindow(request[h].t - Period)) >= perDuration
    OBVIOUS
  <2> USE DEF ring, config, traffic, history
  <2>1. /\ pc[h] = "check" /\ pc'[h] = "idle" /\ scope.handlers \subseteq Handler /\ Typed /\ Filled
        /\ pc \in [Handler -> {"idle", "size", "allocate", "check", "append", "readLast", "writeLast"}]
    BY TimesAreNumbers DEF Refuses, Limited, Typed, TypeOK
  <2>2. ASSUME NEW g \in scope.handlers, Step(g) PROVE g = h
    BY <2>1, <2>2 DEF Step, Arrive, CheckSize, Allocate, Check, AppendTime, Permit, OwnLimit, Panic, ReadLast, WriteLast, Goto
  <2>3. ASSUME Step(h) PROVE Check(h)
    BY <2>1, <2>3 DEF Step, Arrive, CheckSize, Allocate, AppendTime, Panic, ReadLast, WriteLast
  <2>4. ASSUME Tick \/ (\E n \in Settings : SetConfig(n)) \/ UNCHANGED vars PROVE FALSE
    BY <2>1, <2>4 DEF Tick, SetConfig, vars
  <2>5. Check(h)
    BY <2>2, <2>3, <2>4 DEF Next
  <2> QED
    BY <2>1, <2>5, RefusedAfterMany
<1> QED
  BY <1>1, LimitedFromStart, PTL DEF Spec, RefusedForCause
=============================================================================
