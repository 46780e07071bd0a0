------------------------------ MODULE MCConsole ------------------------------
(* Instance of Console for TLC. *)
EXTENDS Console
CONSTANTS x, y
=============================================================================
