---------------------------- MODULE MCPortForward ----------------------------
(***************************************************************************)
(* Instances of PortForward for TLC.  Connections are interchangeable in   *)
(* the invariants; the run has a liveness property, so no symmetry is used.*)
(***************************************************************************)
EXTENDS PortForward
=============================================================================
