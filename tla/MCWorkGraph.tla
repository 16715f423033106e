---------------------------- MODULE MCWorkGraph ----------------------------
(* Small instances of WorkGraph for TLC. *)
EXTENDS WorkGraph, TLC

CONSTANTS t1, t2, t3

\* No worker items: they are in the instances of WorkExecution.
NoParent == <<>>

Symmetry == Permutations(Tasks)
=============================================================================
