---------------------------- MODULE MCRecorder ----------------------------
(* Both dialogs.                                                           *)
EXTENDS Recorder

MCModes == {"record", "live"}
===========================================================================
