------------------------------- MODULE MCPipe -------------------------------
(* Module Pipe on a small instance. *)
EXTENDS Pipe
=============================================================================
