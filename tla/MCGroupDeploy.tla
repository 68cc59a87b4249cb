--------------------------- MODULE MCGroupDeploy ---------------------------
(***************************************************************************)
(* Instances of GroupDeploy for TLC.                                       *)
(***************************************************************************)
EXTENDS GroupDeploy, TLC

OneNodeEach == [w \in Workers |-> 1]
============================================================================
