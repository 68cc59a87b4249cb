------------------------------ MODULE MCSetup ------------------------------
(***************************************************************************)
(* Instances of Setup for TLC: other instances' databases, one with        *)
(* secrets in tables that an import tests, one in others only.             *)
(***************************************************************************)
EXTENDS Setup

CONSTANTS b1, b2, k1

TwoBackups == {Database({b1}, {k1}, {k1}), Database({b2}, {}, {k1})}
============================================================================
