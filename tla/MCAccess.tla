------------------------------ MODULE MCAccess ------------------------------
(* Access, with requests that are interchangeable.                         *)
EXTENDS Access, TLC

Symmetry == Permutations(Requests)
=============================================================================
