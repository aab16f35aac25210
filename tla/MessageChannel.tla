--------------------------- MODULE MessageChannel ---------------------------
(***************************************************************************)
(* What sending to one Discord channel promises, without the bucket, the   *)
(* buffer or the sleeping: accepted messages leave in the order in which   *)
(* they were accepted, each exactly once, one joined request at a time,    *)
(* and a joined request never exceeds what Discord takes.                  *)
(***************************************************************************)
EXTENDS Integers, Sequences

CONSTANTS Sender,     (* goroutines that call SendMessage on the channel  *)
          Size,       (* lengths of the messages                          *)
          Limit       (* Discord's limit on a message's length (2000)     *)

VARIABLES waiting,    (* accepted and not finished, oldest first          *)
          finished    (* posted or given up, in that order                *)

(* Length of the messages of q joined with a newline between them. *)
Joined(q) ==
  LET total[n \in 0..Len(q)] == IF n = 0 THEN 0 ELSE total[n - 1] + q[n].size
  IN  total[Len(q)] + Len(q) - 1

Init == /\ waiting = << >>
        /\ finished = << >>

Accept(s, z) ==
  /\ waiting' = Append(waiting,
                       [no |-> Len(finished) + Len(waiting) + 1, from |-> s, size |-> z])
  /\ UNCHANGED finished

Finish(n) ==
  LET batch == SubSeq(waiting, 1, n)
  IN  /\ Joined(batch) < Limit
      /\ waiting' = SubSeq(waiting, n + 1, Len(waiting))
      /\ finished' = finished \o batch

Next == \/ \E s \in Sender, z \in Size : Accept(s, z)
        \/ \E n \in 1..Len(waiting) : Finish(n)

Spec == Init /\ [][Next]_<<waiting, finished>>
=============================================================================
