----------------------------- MODULE MCGallery -----------------------------
(* Videos are alike.                                                       *)
EXTENDS Gallery, TLC

Alike == Permutations(Videos)
============================================================================
