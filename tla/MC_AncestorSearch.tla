------------------------- MODULE MC_AncestorSearch -------------------------
(* Model-checking instance of AncestorSearch: chains up to height 28 with  *)
(* the real MaxHeaderFetch, so that the span probe uses strides above 2    *)
(* and the binary search runs several steps; immutability thresholds of   *)
(* 20 and 10 blocks so that the floor lies inside the chains.              *)
EXTENDS AncestorSearch

\* The mode flag texts: the three names and one the parser rejects.
MCModeTexts == {"full", "fast", "light", "snap"}
=============================================================================
