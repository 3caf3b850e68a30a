---------------------------- MODULE MCLlmBackend ----------------------------
(* A small instance of LlmBackend for TLC. *)
EXTENDS LlmBackend

CONSTANTS c1, c2
=============================================================================
