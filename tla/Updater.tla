------------------------------- MODULE Updater -------------------------------
(***************************************************************************)
(* How the main instance updates itself (override.go, whose methods replace *)
(* those of SelfhostBase).  run.sh runs sweetie and updater by turns, for   *)
(* ever.  !update pulls the sources and, if there were any, ends sweetie    *)
(* (GuildLifecycle has the wait for raids); the updater pulls again and     *)
(* builds sweetie; the new sweetie, at every Ready from Discord, builds the *)
(* updater and publishes builds for the self-hosted instances.              *)
(*                                                                          *)
(* Every event of discordgo has a goroutine: two Readys publish at once.    *)
(* Pulls, builds and writes fail, processes are killed.  A version is a     *)
(* commit; a failed build leaves the file it was to replace; a build under  *)
(* way when its process ends is lost.  UpgradeDatabase finds no script: it  *)
(* is given the root of the repository, the scripts are in docs.            *)
(***************************************************************************)
EXTENDS Integers

CONSTANTS ReadyHook,                (* goroutines of OnReady                 *)
          Platforms,                (* pairs of system and architecture      *)
          MaxReleases, MaxFaults    (* bounds                                *)

ASSUME UpdaterAssumption == {Platforms, MaxReleases, MaxFaults} \subseteq Nat \ {0}

VARIABLES
  remote, checkout,   (* the latest commit, the one pulled                    *)
  sweetie, updater,   (* versions of the programs on disk                     *)
  aside,              (* version of ~updater                                  *)
  turn,               (* what run.sh is about to run or runs                  *)
  running,            (* version of the sweetie that runs                     *)
  leaving,            (* SweetieBot.quit is QuitRaid                          *)
  hook,               (* where each SelfUpdate stands                         *)
  ready,              (* Selfhost.ready                                       *)
  offered,            (* per platform: program, hash and archive              *)
  faults,             (* bound used up                                        *)
  skipped,            (* history: the updater did not replace sweetie         *)
  lost,               (* history: an updater that was set aside was given up  *)
  spoilt              (* history: a hash or archive could not be written, or  *)
                      (* the program was replaced while another made it       *)

uvars == <<remote, checkout, sweetie, updater, aside, turn, running, leaving, hook, ready, offered, faults, skipped, lost, spoilt>>
files == <<remote, checkout, sweetie, updater, aside, offered>>
process == <<turn, running, leaving, skipped>>

Absent == 0
Platform == 1..Platforms
Idle == [at |-> "idle"]
Midway == {"build", "restore"}
Building == \E h \in ReadyHook : hook[h].at \in Midway

(* Nothing is left to replace the updater with while it is being built. *)
GivenUp == lost \/ (updater = Absent /\ Building)

UInit ==
  /\ remote = 1 /\ checkout = 1 /\ sweetie = 1 /\ updater = 1 /\ aside = Absent
  /\ turn = "nextSweetie" /\ running = Absent /\ leaving = FALSE
  /\ hook = [h \in ReadyHook |-> Idle] /\ ready = FALSE
  /\ offered = [p \in Platform |-> [exe |-> 1, md5 |-> 1, archive |-> 1]]
  /\ faults = 0 /\ skipped = FALSE /\ lost = FALSE /\ spoilt = FALSE

Fault == faults < MaxFaults /\ faults' = faults + 1
Tried(success) == IF success THEN UNCHANGED faults ELSE Fault

Release == /\ remote <= MaxReleases /\ remote' = remote + 1
           /\ UNCHANGED <<checkout, sweetie, updater, aside, offered, process, hook, ready, faults, lost, spoilt>>

-----------------------------------------------------------------------------
(* sweetie *)

StartSweetie ==
  /\ turn = "nextSweetie" /\ turn' = "sweetie" /\ running' = sweetie
  /\ UNCHANGED <<files, leaving, skipped, hook, ready, faults, lost, spoilt>>

(* CheckForUpdate pulls; if nothing came, or the pull failed, nothing happens. *)
CheckForUpdate ==
  /\ turn = "sweetie" /\ ~leaving
  /\ remote # checkout /\ checkout' = remote /\ leaving' = TRUE
  /\ UNCHANGED <<remote, sweetie, updater, aside, offered, turn, running, skipped, hook, ready, faults, lost, spoilt>>

(* The process ends, with what its goroutines were doing. *)
EndSweetie ==
  /\ turn = "sweetie" /\ turn' = "nextUpdater" /\ running' = Absent /\ leaving' = FALSE /\ ready' = FALSE
  /\ hook' = [h \in ReadyHook |-> Idle]
  /\ lost' = GivenUp
  /\ UNCHANGED <<files, skipped, spoilt>>
Shutdown == leaving /\ EndSweetie /\ UNCHANGED faults
Killed == Fault /\ EndSweetie

OnReady(h) ==
  /\ turn = "sweetie" /\ hook[h].at = "idle"
  /\ hook' = [hook EXCEPT ![h] = [at |-> "setAside"]]
  /\ spoilt' = (spoilt /\ \E g \in ReadyHook : hook[g].at # "idle")
  /\ UNCHANGED <<files, process, ready, faults, lost>>

-----------------------------------------------------------------------------
(* SelfUpdate *)

AtStep(h, at) == turn = "sweetie" /\ hook[h].at = at
Continue(h, at) == hook' = [hook EXCEPT ![h] = [at |-> at]]
Publishing(h, step, p) == AtStep(h, step) /\ hook[h].platform = p
Proceed(h, step, p) == hook' = [hook EXCEPT ![h] = [at |-> step, platform |-> p]]
Keep(h, step, p) == hook' = [hook EXCEPT ![h] = [at |-> step, platform |-> p, read |-> offered[p].exe]]
Reads(g, p) == hook[g].at \in {"writeHash", "copy"} /\ hook[g].platform = p

(* ~updater is removed, even when there is no updater to take its place. *)
SetAside(h) ==
  /\ AtStep(h, "setAside") /\ Continue(h, "build")
  /\ aside' = updater /\ updater' = Absent
  /\ lost' = GivenUp
  /\ UNCHANGED <<remote, checkout, sweetie, offered, process, ready, faults, spoilt>>

BuildUpdater(h, success) ==
  /\ AtStep(h, "build") /\ Continue(h, "restore") /\ Tried(success)
  /\ updater' = IF success THEN checkout ELSE updater
  /\ lost' = (lost /\ ~success)
  /\ UNCHANGED <<remote, checkout, sweetie, aside, offered, process, ready, spoilt>>

Restore(h) ==
  /\ AtStep(h, "restore") /\ Proceed(h, "compile", 1)
  /\ IF updater = Absent THEN updater' = aside /\ aside' = Absent
     ELSE UNCHANGED <<updater, aside>>
  /\ lost' = (lost /\ updater' = Absent)
  /\ UNCHANGED <<remote, checkout, sweetie, offered, process, ready, faults, spoilt>>

Compile(h, p, success) ==
  /\ Publishing(h, "compile", p) /\ Proceed(h, "hash", p) /\ Tried(success)
  /\ offered' = IF success THEN [offered EXCEPT ![p].exe = checkout] ELSE offered
  /\ spoilt' = (spoilt \/ (offered'[p].exe # offered[p].exe /\ \E g \in ReadyHook : Reads(g, p)))
  /\ UNCHANGED <<remote, checkout, sweetie, updater, aside, process, ready, lost>>

(* What the steps of WriteMD5 and of the archive leave alone, and what one that fails spoils. *)
Written(success) ==
  /\ Tried(success) /\ spoilt' = (spoilt \/ ~success)
  /\ UNCHANGED <<remote, checkout, sweetie, updater, aside, process, lost>>

(* WriteMD5: the program is read and hashed, *)
ReadHash(h, p, success) ==
  /\ Publishing(h, "hash", p) /\ Written(success) /\ UNCHANGED <<offered, ready>>
  /\ IF success THEN Keep(h, "writeHash", p) ELSE Proceed(h, "compress", p)

(* and the hash is written. *)
WriteHash(h, p, success) ==
  /\ Publishing(h, "writeHash", p) /\ Proceed(h, "compress", p) /\ Written(success) /\ UNCHANGED ready
  /\ \E new \in IF success THEN {hook[h].read} ELSE {offered[p].md5, Absent} :
       offered' = [offered EXCEPT ![p].md5 = new]

NextPlatform(h, p) ==
  IF p < Platforms THEN Proceed(h, "compile", p + 1) /\ UNCHANGED ready
  ELSE Continue(h, "idle") /\ ready' = TRUE

(* The archive is truncated, *)
Create(h, p, success) ==
  /\ Publishing(h, "compress", p) /\ Written(success)
  /\ IF success THEN offered' = [offered EXCEPT ![p].archive = Absent] /\ Proceed(h, "open", p) /\ UNCHANGED ready
     ELSE UNCHANGED offered /\ NextPlatform(h, p)

(* the program opened *)
Open(h, p, success) ==
  /\ Publishing(h, "open", p) /\ Written(success) /\ UNCHANGED offered
  /\ IF success THEN Keep(h, "copy", p) /\ UNCHANGED ready ELSE NextPlatform(h, p)

(* and copied into it. *)
Copy(h, p, success) ==
  /\ Publishing(h, "copy", p) /\ Written(success) /\ NextPlatform(h, p)
  /\ offered' = IF success THEN [offered EXCEPT ![p].archive = hook[h].read] ELSE offered

-----------------------------------------------------------------------------
(* updater *)

(* run.sh goes on to sweetie when there is no updater to run. *)
StartUpdater ==
  /\ turn = "nextUpdater"
  /\ IF updater = Absent THEN turn' = "nextSweetie" /\ skipped' = TRUE
     ELSE turn' = "pull" /\ UNCHANGED skipped
  /\ UNCHANGED <<files, running, leaving, hook, ready, faults, lost, spoilt>>

(* DoUpdate *)
Pull(success) ==
  /\ turn = "pull" /\ turn' = "build" /\ Tried(success)
  /\ checkout' = IF success THEN remote ELSE checkout
  /\ UNCHANGED <<remote, sweetie, updater, aside, offered, running, leaving, skipped, hook, ready, lost, spoilt>>

(* Faulty: the updater publishes what it is itself. *)
BuildOwnVersion(success) ==
  /\ turn = "build" /\ turn' = "nextSweetie" /\ Tried(success)
  /\ sweetie' = IF success THEN updater ELSE sweetie
  /\ skipped' = ~success
  /\ UNCHANGED <<remote, checkout, updater, aside, offered, running, leaving, hook, ready, lost, spoilt>>

BuildSweetie(success) ==
  /\ turn = "build" /\ turn' = "nextSweetie" /\ Tried(success)
  /\ sweetie' = IF success THEN checkout ELSE sweetie
  /\ skipped' = ~success
  /\ UNCHANGED <<remote, checkout, updater, aside, offered, running, leaving, hook, ready, lost, spoilt>>

UpdaterKilled ==
  /\ turn \in {"pull", "build"} /\ turn' = "nextSweetie" /\ Fault /\ skipped' = TRUE
  /\ UNCHANGED <<files, running, leaving, hook, ready, lost, spoilt>>

UNext ==
  \/ \E h \in ReadyHook :
       \/ OnReady(h) \/ SetAside(h) \/ Restore(h)
       \/ \E success \in BOOLEAN : BuildUpdater(h, success)
       \/ \E p \in Platform, success \in BOOLEAN :
            \/ Compile(h, p, success) \/ ReadHash(h, p, success) \/ WriteHash(h, p, success)
            \/ Create(h, p, success) \/ Open(h, p, success) \/ Copy(h, p, success)
  \/ Release \/ StartSweetie \/ CheckForUpdate \/ Shutdown \/ Killed \/ StartUpdater \/ UpdaterKilled
  \/ \E success \in BOOLEAN : Pull(success) \/ BuildSweetie(success)

USpec == UInit /\ [][UNext]_uvars

-----------------------------------------------------------------------------
(* The sweetie that runs is the commit that was pulled, unless the run of the  *)
(* updater before it failed or could not happen: !update would call it up to   *)
(* date (DoUpdate).                                                            *)
RunsWhatWasPulled == turn = "sweetie" /\ ~leaving /\ ~skipped => running = checkout

(* The updater is never gone for good, whatever builds fail, unless the one set *)
(* aside was given up: sweetie ended, or another SelfUpdate began, before it    *)
(* was replaced (SelfUpdate).                                                   *)
UpdaterStays == updater = Absent /\ ~Building => lost

(* Once SelfUpdate is done, every platform's hash and archive are those of the *)
(* program offered, else DownloadFile refuses it; whatever builds fail, and    *)
(* although !update may pull meanwhile.  A hash or archive that the disk        *)
(* refuses is missed by the SelfUpdate it happens to, and a second Ready may    *)
(* replace a program while the first is between reading it and writing what it  *)
(* read (WriteMD5, io.Copy): nothing else leaves them different.                *)
OfferedIsWhole ==
  ready /\ (\A h \in ReadyHook : hook[h].at = "idle") /\ ~spoilt =>
    \A p \in Platform : offered[p].md5 = offered[p].exe /\ offered[p].archive = offered[p].exe

(* What was released arrives, here and where it is downloaded (run.sh).        *)
UpdatesArrive == RunsWhatWasPulled /\ UpdaterStays /\ OfferedIsWhole
==============================================================================
