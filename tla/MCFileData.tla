----------------------------- MODULE MCFileData -----------------------------
(* Instances of FileData: what the processes do in a behaviour. *)
EXTENDS FileData, TLC
CONSTANTS p1, p2, f1, f2

Use(files, dir, reads, writes, calls, max, removed, faults) ==
  [ip |-> (f1 :> 1 @@ f2 :> 2), dir |-> dir, files |-> files, reads |-> reads, writes |-> writes,
   calls |-> calls, max |-> max, faults |-> faults,
   shared |-> files[p1] \cap files[p2] # {}, removed |-> removed]

One(S) == (p1 :> S @@ p2 :> {})
Own == (p1 :> {f1} @@ p2 :> {f2})
Both == (p1 :> {f1} @@ p2 :> {f1})

\* A file that reaches into its indirect block, on a machine that crashes.
Large == Use(One({f1}), None, {5}, {<<3>>}, {"reopen"}, (f1 :> 8 @@ f2 :> 0), {}, TRUE)
\* A file that is removed and written anew.
Removed == Use(One({f1}), None, {3}, {<<5>>}, {}, (f1 :> 6 @@ f2 :> 0), {f1}, TRUE)
\* Two files, one with an indirect block, each with one process.
Apart == Use(Own, None, {}, {<<1, 8>>}, {}, (f1 :> 8 @@ f2 :> 1), {}, FALSE)
\* Two files, one of which is removed and written anew.
Reused == Use(Own, None, {}, {<<3>>}, {}, (f1 :> 2 @@ f2 :> 4), {f1}, FALSE)
\* An open file that two processes share.
Shared == Use(Both, None, {3}, {<<3>>}, {"reopen"}, (f1 :> 4 @@ f2 :> 0), {}, FALSE)
\* Two files of one process, on a machine that crashes; one is removed and written anew.
Small == Use(One({f1, f2}), None, {3}, {<<3>>}, {"reopen"}, (f1 :> 4 @@ f2 :> 1), {f1}, TRUE)

NoFile == (f1 :> 0 @@ f2 :> 0)
\* A directory that two processes change, and one on a machine that crashes.
Directory ==
  Use((p1 :> {901, 902} @@ p2 :> {901}), 1, {}, {}, {"create", "unlinkat"}, NoFile, {}, FALSE)
Crashing ==
  Use(One({901, 902, 903}), 1, {}, {}, {"create", "unlinkat"}, NoFile, {}, TRUE)
\* A directory from which inodes.remove takes entries.
Removing == Use(One({901, 902, 903}), 1, {}, {}, {"create", "remove"}, NoFile, {}, FALSE)

MCUses == {Large, Removed, Apart, Reused, Shared, Small, Directory, Crashing, Removing}
=============================================================================
