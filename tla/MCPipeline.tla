----------------------------- MODULE MCPipeline -----------------------------
(* Instance of Pipeline for TLC. *)
EXTENDS Pipeline, TLC

\* Tasks are interchangeable: every property checked is a safety property.
TaskSymmetry == Permutations(Tasks)
=============================================================================
