-------------------------- MODULE MCWorkExecution --------------------------
(* Small instances of WorkExecution for TLC. *)
EXTENDS WorkExecution, TLC

CONSTANTS t1, t2, h1

\* No worker items, or one below the first task.
NoParent  == <<>>
OneParent == [h \in {h1} |-> t1]

Symmetry == Permutations(Tasks)
=============================================================================
