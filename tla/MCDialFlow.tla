----------------------------- MODULE MCDialFlow -----------------------------
(***************************************************************************)
(* The instance of run dial: two students, which nothing tells apart.      *)
(***************************************************************************)
EXTENDS DialFlow, TLC

Symmetry == Permutations(Students)
=============================================================================
