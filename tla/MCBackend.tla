----------------------------- MODULE MCBackend -----------------------------
(***************************************************************************)
(* Instances of Backend for TLC.                                           *)
(***************************************************************************)
EXTENDS Backend, TLC

NoStack == {}
Symmetry == Permutations(Stacks) \cup Permutations(Ops) \cup Permutations(Migrations)
============================================================================
