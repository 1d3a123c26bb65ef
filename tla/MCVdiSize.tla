----------------------------- MODULE MCVdiSize -----------------------------
(* Model-checking instance of VdiSize: two calls at a time, which are      *)
(* interchangeable.                                                        *)
EXTENDS VdiSize, TLC

CONSTANTS p1, p2

Symmetry == Permutations({p1, p2})
=============================================================================
