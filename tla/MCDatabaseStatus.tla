-------------------------- MODULE MCDatabaseStatus --------------------------
(* An instance of DatabaseStatus for TLC: a schema that lacks a procedure. *)
EXTENDS DatabaseStatus

CONSTANT a

OneHandler == {a}
First == {1}
=============================================================================
