--------------------------- MODULE MCMessageBuffer ---------------------------
(* Instances of MessageBuffer for TLC.  Lengths 1, 3 and 5 under a limit of 6:
   5 fills a request by itself, 3 joins with 1 and not with 3, and three of
   length 1 join to 5. *)
EXTENDS MessageBuffer, TLC

CONSTANTS a, b, c

TwoSenders == {a, b}
ThreeSenders == {a, b, c}
Lengths == {1, 3, 5}
ShortAndFull == {1, 5}
Scarce == {0, 1}

Interchangeable == Permutations({a, b, c})
==============================================================================
