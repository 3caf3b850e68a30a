--------------------------- MODULE MCNeovimBridge ---------------------------
(* A small instance of NeovimBridge for TLC. *)
EXTENDS NeovimBridge

\* The invariants say nothing of a behaviour once a message is lost or overtaken.
Undisturbed == ~disturbed
=============================================================================
