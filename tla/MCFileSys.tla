----------------------------- MODULE MCFileSys -----------------------------
(* Module FileSys on a small instance. *)
EXTENDS FileSys

CONSTANTS a, b

\* Two processes change directories; two share files; two walk "." and ".."; one makes
\* every call.
MCUses ==
  {[calls |-> {"mkdir", "unlink", "chdir", "fork"}, paths |-> {<<a>>, <<a, b>>}],
   [calls |-> {"creat", "open", "unlink", "fork", "exit"}, paths |-> {<<a>>}],
   [calls |-> {"mkdir", "chdir", "fork"}, paths |-> {<<a>>, <<".">>, <<"..">>}],
   [calls |-> {"creat", "open", "stat", "chdir", "mkdir", "mknod", "unlink", "dup", "pipe2",
               "close"},
    paths |-> {<<a>>, <<a, b>>, <<a, ".">>}]}
=============================================================================
