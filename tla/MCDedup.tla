------------------------------ MODULE MCDedup ------------------------------
(***************************************************************************)
(* Instances of Dedup for TLC.                                             *)
(***************************************************************************)
EXTENDS Dedup, TLC

TableSymmetry == Permutations(Table)
=============================================================================
