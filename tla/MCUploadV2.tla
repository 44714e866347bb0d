----------------------------- MODULE MCUploadV2 -----------------------------
(* Instances of UploadV2 for TLC.                                          *)
EXTENDS UploadV2, TLC

OneBlock == [m \in Content |-> 1]
TwoBlocks == [m \in Content |-> 2]
Disks == Permutations(Inode)
=============================================================================
