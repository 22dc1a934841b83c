------------------------------ MODULE MCRetention -----------------------------
(* Retention for model checking: jobs and sweeps are interchangeable.         *)
EXTENDS Retention, TLC

Symmetry == Permutations(Job) \cup Permutations(Sweep)
================================================================================
