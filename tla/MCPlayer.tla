------------------------------ MODULE MCPlayer ------------------------------
(* Two frames, the first one a key frame.                                  *)
EXTENDS Player

MCKinds == {"av", "a", "v", "bad"}
MCKeyFrames == {0}
=============================================================================
