--------------------------- MODULE MCDctcpSender ---------------------------
(* Bounds for model-checking DctcpSender; the values are in the .cfg files. *)
EXTENDS DctcpSender
=============================================================================
