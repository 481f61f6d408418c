---------------------------- MODULE MCResolution ----------------------------
(* Instance of Resolution for TLC. *)
EXTENDS Resolution, TLC

\* Handlers are interchangeable: sound for the safety properties only.
HandlerSymmetry == Permutations(Handlers)
=============================================================================
