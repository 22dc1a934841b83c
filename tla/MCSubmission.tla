------------------------------ MODULE MCSubmission -----------------------------
(* Submission for model checking: slots, projects and presets are            *)
(* interchangeable.                                                          *)
EXTENDS Submission, TLC

Symmetry == Permutations(Call) \cup Permutations(Project) \cup Permutations(Preset)
================================================================================
