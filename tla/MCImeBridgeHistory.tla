------------------------- MODULE MCImeBridgeHistory -------------------------
(* Small instances of ImeBridgeHistory and ImeBridgeRefinement for TLC. *)
EXTENDS ImeBridgeHistory, ImeBridgeRefinement
=============================================================================
