---------------------------- MODULE MCLogWriter ----------------------------
(* Finite instances of LogWriter: the tasks are interchangeable.            *)
EXTENDS LogWriter, TLC

TaskSymmetry == Permutations(Tasks)
=============================================================================
