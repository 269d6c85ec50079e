--------------------------- MODULE MCHttpSessions ---------------------------
(* A small instance of HttpSessions for TLC. *)
EXTENDS HttpSessions
=============================================================================
