------------------------- MODULE MCImeBridgeContext -------------------------
(* A small instance of ImeBridgeContext and ImeBridgeRefinement for TLC. *)
EXTENDS ImeBridgeContext, ImeBridgeRefinement, TLC

Symmetry ==
    Permutations(Clients) \cup Permutations(Sessions) \cup Permutations(Texts)
=============================================================================
