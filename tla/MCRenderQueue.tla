---------------------------- MODULE MCRenderQueue ------------------------------
(* The queue with one or two jobs of one org, which may all render at once. *)
EXTENDS RenderQueue, TLC

CONSTANTS j1, j2, o1

Symmetry == Permutations(Job)

MCOrgOf == [j \in Job |-> o1]
MCLimit == [o \in Org |-> 2]
================================================================================
