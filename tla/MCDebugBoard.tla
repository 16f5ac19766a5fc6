---------------------------- MODULE MCDebugBoard ----------------------------
(* DebugBoard with few channels, broadcasts and values, for TLC. *)
EXTENDS DebugBoard
=============================================================================
