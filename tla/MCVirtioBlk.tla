---------------------------- MODULE MCVirtioBlk ----------------------------
(* Module VirtioBlk on a small instance. *)
EXTENDS VirtioBlk
=============================================================================
