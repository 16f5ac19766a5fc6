---------------------------- MODULE MCVDBDevice ----------------------------
(* VDBDevice on small buffers, for TLC. *)
EXTENDS VDBDevice
=============================================================================
