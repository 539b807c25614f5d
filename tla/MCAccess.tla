----------------------------- MODULE MCAccess -----------------------------
(* AccessControl for TLC.  Requests are used alike. *)
EXTENDS AccessControl, TLC

Symmetry == Permutations(Requests)
=============================================================================
