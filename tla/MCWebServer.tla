---------------------------- MODULE MCWebServer ----------------------------
(* WebServer with two sockets, for TLC. *)
EXTENDS WebServer
=============================================================================
