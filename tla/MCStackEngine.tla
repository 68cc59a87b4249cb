--------------------------- MODULE MCStackEngine ---------------------------
(***************************************************************************)
(* Instances of StackEngine for TLC.  Operation IDs are interchangeable:   *)
(* no definition tells one from another.                                   *)
(***************************************************************************)
EXTENDS StackEngine, TLC

OpSymmetry == Permutations(Ops)
============================================================================
