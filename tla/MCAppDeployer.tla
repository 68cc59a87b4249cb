--------------------------- MODULE MCAppDeployer ---------------------------
(***************************************************************************)
(* Instances of AppDeployer for TLC: application 1 has a generated secret  *)
(* and a hook that must not be ignored, 2 is a batch job with a volume.    *)
(***************************************************************************)
EXTENDS AppDeployer, TLC

First == {1}
Second == {2}
None == {}
============================================================================
