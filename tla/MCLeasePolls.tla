----------------------------- MODULE MCLeasePolls ------------------------------
(* Two boxes and three jobs of one org that may render one job at a time. *)
EXTENDS LeasePolls, TLC

CONSTANTS j1, j2, j3, o1, b1, b2

Symmetry == Permutations(Job) \cup Permutations(Box)

MCOrgOf == [j \in Job |-> o1]
MCLimit == [o \in Org |-> 1]

\* A failure that is retried, and a cancel, neither of which burned seconds.
MCTold ==
  {[outcome |-> "failed", error |-> "retryable", arts |-> {}, burned |-> FALSE],
   [outcome |-> "cancelled", error |-> "none", arts |-> {}, burned |-> FALSE]}
================================================================================
