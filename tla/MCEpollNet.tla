----------------------------- MODULE MCEpollNet -----------------------------
(* Instances of EpollNet for TLC.  No symmetry: Net checks liveness.       *)
EXTENDS EpollNet
=============================================================================
