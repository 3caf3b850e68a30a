---------------------------- MODULE MCAutoSpacer ----------------------------
(* Small instances of AutoSpacer for TLC. *)
EXTENDS AutoSpacer

L == {"none", "space", "alnum", "rpunct", "cjk", "zhpunct"}
R == {"none", "alnum", "cjk"}
=============================================================================
