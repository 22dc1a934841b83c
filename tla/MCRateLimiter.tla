------------------------------ MODULE MCRateLimiter ----------------------------
(* RateLimiter for model checking: isolates and orgs are interchangeable.     *)
EXTENDS RateLimiter, TLC

Symmetry == Permutations(Isolate) \cup Permutations(Org)
================================================================================
