--------------------------- MODULE MCLiveRegistry ---------------------------
(* Instances of LiveRegistry for TLC.                                      *)
EXTENDS LiveRegistry, TLC

Users == Permutations(User)
=============================================================================
