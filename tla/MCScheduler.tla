----------------------------- MODULE MCScheduler -----------------------------
(* Instances of Scheduler for TLC. *)
EXTENDS Scheduler, TLC

CONSTANTS a, b, ban, pony, filly

OneHandler == {a}
TwoHandlers == {a, b}
OneBan == {ban}
NoPony == {}
TwoPonies == {pony, filly}
OneOrTwo == {1, 2}
OnlyOne == {1}
OnceOrTwo == {0, 2}
OnlyOnce == {0}

Interchangeable == Permutations({a, b}) \cup Permutations({pony, filly})
==============================================================================
