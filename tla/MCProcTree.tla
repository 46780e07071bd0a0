----------------------------- MODULE MCProcTree -----------------------------
(* Module ProcTree on a small instance. *)
EXTENDS ProcTree
=============================================================================
