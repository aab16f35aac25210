--------------------------- MODULE MCRaidLockdown ---------------------------
(* Instances of RaidLockdown for TLC. *)
EXTENDS RaidLockdown

CONSTANTS a, b

TwoHandlers == {a, b}
LowToHighest == {1, 3, 4}

Limit(alarm, manual, failure, command, outage, restart) ==
  [what \in Bounded |-> CASE what = "alarms"   -> alarm
                         [] what = "manual"   -> manual
                         [] what = "failures" -> failure
                         [] what = "commands" -> command
                         [] what = "outages"  -> outage
                         [] what = "restarts" -> restart]

(* One event at a time, everything else may happen. *)
InTurn == [calm |-> TRUE, levels |-> {1, 3, 4}, lastJoin |-> 2, limit |-> Limit(2, 1, 1, 1, 1, 0)]
(* Any interleaving, with a failure and a command, or with a restart. *)
AtOnce == [calm |-> FALSE, levels |-> {1}, lastJoin |-> 2, limit |-> Limit(2, 0, 1, 1, 0, 0)]
Restarted == [calm |-> FALSE, levels |-> {1, 3}, lastJoin |-> 2, limit |-> Limit(2, 0, 0, 0, 0, 1)]
(* One alarm and the idle loop. *)
OneAlarm == [calm |-> FALSE, levels |-> {1}, lastJoin |-> 2, limit |-> Limit(1, 0, 0, 0, 0, 0)]

InTurnAndAtOnce == {InTurn, AtOnce, Restarted}
OnlyOneAlarm == {OneAlarm}
==============================================================================
