------------------------------ MODULE MCDevice ------------------------------
(* Passwords and streams are interchangeable. *)
EXTENDS DevicePage, TLC

CONSTANTS p1, p2, s1, s2

Symmetry == Permutations({p1, p2}) \cup Permutations({s1, s2})
=============================================================================
