------------------------------ MODULE MCWebsite ------------------------------
(* Website, and Startup below it, for TLC. *)
EXTENDS Website
=============================================================================
