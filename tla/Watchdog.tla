------------------------------ MODULE Watchdog ------------------------------
(***************************************************************************)
(* deadlockDetector (sweetiebot.go): every interval it hands the bot an     *)
(* !about of its own, the heartbeat, and ends the process when MaxMissed    *)
(* intervals in a row were not the interval of exactly one answer.          *)
(*                                                                          *)
(* Answers are counted in a uint32 that wraps.  A heartbeat runs in a       *)
(* goroutine of its own (deadlockTestFunc) and may be answered in a later   *)
(* interval, or never.  It reads like any message: it is a command only     *)
(* behind the prefix of the main server.                                    *)
(***************************************************************************)
EXTENDS Integers

CONSTANTS Width,         (* values of the counter: 2^32                      *)
          MaxMissed,     (* 5                                                *)
          MaxLate        (* bound: heartbeats of earlier intervals under way,
                            unless the bot is deadlocked                     *)

ASSUME WatchdogAssumption ==
  /\ Width \in Nat /\ MaxMissed \in Nat \ {0} /\ MaxLate \in Nat
  /\ MaxLate + 1 < Width

(* Basic.CommandPrefix of the main server: the default, another character, the
   first letter of "about", or not one character at all. *)
Prefix == {"!", "other", "a", "invalid"}

VARIABLES
  heartbeat,   (* SweetieBot.heartbeat                                       *)
  counter,     (* deadlockDetector's counter: the heartbeat it has seen      *)
  missed,      (* intervals in a row without exactly one answer              *)
  at,          (* where deadlockDetector stands                              *)
  prefix,      (* the main server's prefix                                   *)
  main,        (* the main server is in sb.Guilds                            *)
  pending,     (* heartbeats under way                                       *)
  answered,    (* history: answers since the detector last looked            *)
  before,      (* history: heartbeats under way when it last looked          *)
  late,        (* history: heartbeats not answered in their interval that were
                  under way since missed was last 0                          *)
  dropped,     (* history: a heartbeat was taken for no command              *)
  stuck        (* the bot is deadlocked: no heartbeat will be answered       *)

detector == <<counter, missed, at>>
mainServer == <<prefix, main>>
history == <<answered, before, late, dropped>>
wvars == <<heartbeat, detector, mainServer, pending, history, stuck>>

(* uint32 addition of one. *)
Succ(n) == IF n = Width - 1 THEN 0 ELSE n + 1

WInit ==
  /\ heartbeat \in 0..(Width - 1) /\ counter = heartbeat
  /\ missed = 0 /\ at = "waiting"
  /\ prefix \in Prefix \ {"invalid"} /\ main = FALSE
  /\ pending = 0 /\ answered = 0 /\ before = 0 /\ late = 0 /\ dropped = FALSE
  /\ stuck = FALSE

-----------------------------------------------------------------------------
(* GuildCreate and GuildMemberRemove of the main server, !setconfig there. *)
AddMain == /\ ~main /\ main' = TRUE
           /\ UNCHANGED <<heartbeat, detector, prefix, pending, history, stuck>>

RemoveMain == /\ main /\ main' = FALSE
              /\ UNCHANGED <<heartbeat, detector, prefix, pending, history, stuck>>

SetPrefix(p) == /\ main /\ prefix # p /\ prefix' = p
                /\ UNCHANGED <<heartbeat, detector, main, pending, history, stuck>>

(* Every goroutine that takes one of the locks waits from now on. *)
Deadlock == /\ ~stuck /\ stuck' = TRUE
            /\ UNCHANGED <<heartbeat, detector, mainServer, pending, history>>

(* The detector is of no use before the main server is there. *)
FindMain ==
  /\ at = "waiting" /\ main
  /\ at' = "send"
  /\ UNCHANGED <<heartbeat, counter, missed, mainServer, pending, history, stuck>>

(***************************************************************************)
(* ProcessCommand takes the configured prefix if it is one character and    *)
(* "!" otherwise, or if the main server is gone; the heartbeat is written   *)
(* with the configured one.  A doubled prefix is no command.                *)
(***************************************************************************)
Recognised == IF main THEN prefix \in {"!", "other"} ELSE prefix = "!"

(* A heartbeat that is no command ends without an answer. *)
Send ==
  /\ at = "send"
  /\ at' = "sleep"
  /\ pending' = IF Recognised THEN pending + 1 ELSE pending
  /\ dropped' = (dropped \/ ~Recognised)
  /\ UNCHANGED <<heartbeat, counter, missed, mainServer, answered, before, late, stuck>>

(* SendEmbed and SendMessage count what is sent to the heartbeat channel. *)
Answer ==
  /\ pending > 0 /\ ~stuck /\ at # "exited"
  /\ heartbeat' = Succ(heartbeat)
  /\ pending' = pending - 1
  /\ answered' = answered + 1
  /\ UNCHANGED <<detector, mainServer, before, late, dropped, stuck>>

(* Faulty variant: the counter goes on by one, so that an answer that came late
   is missing ever after. *)
MissKeeping == counter' = Succ(counter) /\ missed' = missed + 1

(* Not the one answer that was expected: start over from what is there. *)
Miss == counter' = heartbeat /\ missed' = missed + 1

(* Faulty variant: any answer is good enough, and none is none too few. *)
CompareAtLeast == counter' = heartbeat /\ missed' = 0

Compare == IF heartbeat = Succ(counter) THEN counter' = heartbeat /\ missed' = 0 ELSE Miss

(* The interval is over. *)
Check ==
  /\ at = "sleep" /\ (pending <= MaxLate \/ stuck)
  /\ Compare
  /\ at' = IF missed' >= MaxMissed THEN "exited" ELSE "send"
  /\ answered' = 0 /\ before' = pending
  /\ late' = IF missed' = 0 THEN pending
             ELSE IF pending > before THEN late + (pending - before) ELSE late
  /\ UNCHANGED <<heartbeat, mainServer, pending, dropped, stuck>>

(* sb.quit, looked at once per round. *)
Stop ==
  /\ at = "send" /\ at' = "stopped"
  /\ UNCHANGED <<heartbeat, counter, missed, mainServer, pending, history, stuck>>

WNext == \/ AddMain \/ RemoveMain \/ FindMain \/ Send \/ Answer \/ Check \/ Stop \/ Deadlock
         \/ \E p \in Prefix : SetPrefix(p)

WSpec == WInit /\ [][WNext]_wvars

(* deadlockDetector is a goroutine that waits for nothing but time. *)
WFairSpec == WSpec /\ WF_wvars(Send) /\ WF_wvars(Check)

-----------------------------------------------------------------------------
(* The types of the detector: the count of answers stays a uint32.  *)
WTypeOK ==
  /\ heartbeat \in 0..(Width - 1) /\ counter \in 0..(Width - 1)
  /\ missed \in 0..MaxMissed /\ at \in {"waiting", "send", "sleep", "exited", "stopped"}
  /\ prefix \in Prefix /\ main \in BOOLEAN
  /\ pending \in Nat /\ before \in Nat /\ answered \in Nat /\ late \in Nat
  /\ dropped \in BOOLEAN /\ stuck \in BOOLEAN

(***************************************************************************)
(* A heartbeat that is answered late makes two intervals look missed: its   *)
(* own, and the one that has two answers.  It costs no more than that, also *)
(* across the wrap of the counter, so a bot that works is ended only when   *)
(* half as many heartbeats as there are strikes were late in a row.         *)
(***************************************************************************)
LateCostsTwo == ~dropped => missed <= 2 * late

(***************************************************************************)
(* A deadlocked bot is ended: nothing that was under way, and no count left *)
(* over from earlier intervals, keeps the detector content.                 *)
(***************************************************************************)
DeadlockEndsProcess == stuck /\ at \in {"send", "sleep"} ~> at \in {"exited", "stopped"}
=============================================================================
