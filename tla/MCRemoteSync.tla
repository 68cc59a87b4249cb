---------------------------- MODULE MCRemoteSync ----------------------------
(***************************************************************************)
(* Instances of RemoteSync for TLC.                                        *)
(***************************************************************************)
EXTENDS RemoteSync, FiniteSets, TLC

Symmetry == Permutations(Requests)

\* Bound: beyond two uploads under way, nothing more happens.
Few == Cardinality(uploads) <= 2
=============================================================================
