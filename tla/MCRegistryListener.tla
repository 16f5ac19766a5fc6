------------------------- MODULE MCRegistryListener -------------------------
(* RegistryListener with few channels and few mishaps, for TLC. *)
EXTENDS RegistryListener
=============================================================================
