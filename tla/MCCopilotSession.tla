-------------------------- MODULE MCCopilotSession --------------------------
(* Small instances of CopilotSession for TLC. *)
EXTENDS CopilotSession, TLC

Symmetry == Permutations(Sessions) \cup Permutations(Texts)
=============================================================================
