-------------------------- MODULE MCDctcpReceiver --------------------------
(* Bounds for model-checking DctcpReceiver; the values are in the .cfg files. *)
EXTENDS DctcpReceiver
=============================================================================
