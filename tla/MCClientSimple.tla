--------------------------- MODULE MCClientSimple ---------------------------
(* Small instances of ClientSimple for TLC. *)
EXTENDS ClientSimple
=============================================================================
