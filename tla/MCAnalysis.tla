----------------------------- MODULE MCAnalysis -----------------------------
(* Instance of Analysis for TLC. *)
EXTENDS Analysis, TLC

\* Tasks, priorities and categories are interchangeable: sound for the safety
\* properties only.
TaskSymmetry ==
  Permutations(Tasks) \cup Permutations(Priorities) \cup Permutations(Categories)
=============================================================================
