--------------------------- MODULE MCUploadClient ---------------------------
(* Bounds for UploadClient: one video has too few key frames, the other    *)
(* one has a single picture.                                               *)
EXTENDS UploadClient, TLC
CONSTANTS v1, v2
OneKeyFrame == v1 :> 1 @@ v2 :> 0
OneOrTwoFrames == v1 :> 2 @@ v2 :> 1
=============================================================================
