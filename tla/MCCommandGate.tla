---------------------------- MODULE MCCommandGate ----------------------------
(* Instances of CommandGate for TLC. *)
EXTENDS CommandGate

CONSTANTS a, b, hash1, hash2

TwoHandlers == {a, b}
TwoKeys == {hash1, hash2}
FirstKey == {hash1}
NoneOneThree == {0, 1, 3}

(* Handlers one at a time, messages out of order, once around the ring. *)
Serial == [period |-> 3, handlers |-> {a}, keys |-> FirstKey, lag |-> 2, seconds |-> 6, commands |-> 5, changes |-> 1]
(* Two handlers, a command with a limit of its own and one without, and a setting
   that changes twice, also between the steps of one.                             *)
Overlapping == [period |-> 1, handlers |-> {a, b}, keys |-> TwoKeys, lag |-> 0, seconds |-> 2, commands |-> 3, changes |-> 2]

SerialAndOverlapping == {Serial, Overlapping}
==============================================================================
