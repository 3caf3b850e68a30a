------------------------- MODULE MCBridgeConnection -------------------------
(* A small instance of BridgeConnection for TLC. *)
EXTENDS BridgeConnection

CONSTANTS p1, p2
=============================================================================
