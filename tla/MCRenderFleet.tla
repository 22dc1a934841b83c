---------------------------- MODULE MCRenderFleet ------------------------------
(* One job, two slots of different boxes that may both believe they hold it. *)
EXTENDS RenderFleet, TLC

CONSTANTS j1, o1, s1, s2

Symmetry == Permutations(Slot)

MCOrgOf == [j \in Job |-> o1]
MCLimit == [o \in Org |-> 1]
================================================================================
