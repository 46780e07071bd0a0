------------------------------ MODULE FileSys ------------------------------
(***************************************************************************)
(* Open files, descriptors, inodes and directories: the file table         *)
(* (fs/file.c), the inode layer (fs/inode.c) and the system calls on them  *)
(* (kernel/sysfile.c), with what fork() and exit() (kernel/proc.c) do to   *)
(* files.                                                                  *)
(*                                                                         *)
(* A process stops where it waits for an inode's sleep lock; from there to *)
(* the next wait it runs in one step.  inode_get and inode_put are parts   *)
(* of a step: no lock protects them, and with several processes the        *)
(* schedules in which two of them overlap on one inode number are outside  *)
(* this model.  An in-memory inode agrees with its entry on the disk,      *)
(* which inode_sync writes after every change here.  The ".." of a removed *)
(* directory may name an inode that is free, or in use again: stat PANICs  *)
(* on the first.  So Uses has no path with ".." next to unlink.  What      *)
(* files hold is the subject of module FileData; a device is a file like   *)
(* any other; the first process is never killed.                           *)
(***************************************************************************)
EXTENDS Integers, Sequences, FiniteSets, SequencesExt, FiniteSetsExt

CONSTANTS
  Procs,      \* the processes
  First,      \* the process kernel_entry starts
  Inodes,     \* the inode numbers, positive integers
  Root,       \* ROOT_INODE_NO
  Names,      \* what a path element may be, besides "." and ".."
  Uses,       \* bound: which calls and which paths a behaviour is made of
  Files,      \* ftable.filelist, as integers
  NOPENFILE,  \* the descriptors of a process
  None

ASSUME FileSysAssumption ==
  /\ First \in Procs /\ Root \in Inodes
  /\ Inodes \subseteq Nat \ {0} /\ Files \subseteq Nat \ {0}
  /\ \A u \in Uses : u.paths \subseteq Seq(Names \cup {".", ".."}) \ {<<>>}
  /\ \A u \in Uses : "unlink" \in u.calls => u.paths \subseteq Seq(Names \cup {"."})
  /\ NOPENFILE \in Nat /\ None \notin Procs \cup Inodes \cup Files

VARIABLES
  inode,   \* type, num_links, rc, the holder of the lock, and the entries: the one
           \* of ".." (up), and those of other names (dir)
  file,    \* type, ref and ip of each struct file
  oftable, \* oftable.openfilelist
  cwd,     \* proc.cwd
  pc,      \* where each process is
  loc,     \* the local variables of its system call
  use      \* the chosen element of Uses

vars == <<inode, file, oftable, cwd, pc, loc, use>>

Fds == 1 .. NOPENFILE
NoEntries == [n \in Names |-> None]
FreeInode == [type |-> "invalid", links |-> 0, rc |-> 0, lock |-> None,
              up |-> None, dir |-> NoEntries]
NoFile == [type |-> "none", ref |-> 0, ip |-> None]
NoCall == [call |-> "none", path |-> <<>>, dp |-> None, ip |-> None, f |-> None]

\* init_inodes has loaded the root, whose only reference kernel_entry hands to
\* the first process as its working directory, without inode_share.
Init ==
  /\ inode = [i \in Inodes |-> IF i = Root
                               THEN [FreeInode EXCEPT !.type = "dir", !.links = 1, !.rc = 1,
                                                      !.up = Root]
                               ELSE FreeInode]
  /\ file = [f \in Files |-> NoFile]
  /\ oftable = [p \in Procs |-> [d \in Fds |-> None]]
  /\ cwd = [p \in Procs |-> IF p = First THEN Root ELSE None]
  /\ pc = [p \in Procs |-> IF p = First THEN "idle" ELSE "unused"]
  /\ loc = [p \in Procs |-> NoCall]
  /\ use \in Uses

-----------------------------------------------------------------------------
(* The inode layer and the file table, as functions of their state.        *)

\* inode_get, inode_share.
Get(s, i) == [s EXCEPT ![i].rc = @ + 1]

\* inode_put, with inode_clear.
Put(s, i) ==
  IF s[i].rc - 1 = 0 /\ s[i].links = 0 THEN [s EXCEPT ![i] = FreeInode]
  ELSE [s EXCEPT ![i].rc = @ - 1]

Unlock(s, i) == [s EXCEPT ![i].lock = None]
Locked(s, i, p) == [s EXCEPT ![i].lock = p]
CanLock(i) == inode[i].lock = None

\* inode_lookup.
Lookup(s, i, name) ==
  IF name = "." THEN i ELSE IF name = ".." THEN s[i].up ELSE s[i].dir[name]

\* inode_alloc takes the first free inode number.
FreeInodes(s) == {i \in Inodes : s[i].type = "invalid"}
Alloc(s, type) ==
  LET i == Min(FreeInodes(s)) IN [s EXCEPT ![i] = [FreeInode EXCEPT !.type = type, !.links = 1]]

FreeFiles(t) == {f \in Files : t[f].ref = 0}
FreeFds(p) == {d \in Fds : oftable[p][d] = None}

\* The part of file_close under ftable_lock: the last reference resets the file.
Drop(t, f) == IF t[f].ref - 1 > 0 THEN [t EXCEPT ![f].ref = @ - 1] ELSE [t EXCEPT ![f] = NoFile]

\* What file_close(f) leaves of the inodes.
Closed(s, t, f) == IF t[f].type = "inode" /\ t[f].ref = 1 THEN Put(s, t[f].ip) ELSE s

\* file_alloc.
FileAlloc(t) == [t EXCEPT ![Min(FreeFiles(t))].ref = 1]

Goto(p, where) == pc' = [pc EXCEPT ![p] = where]
Return(p) == Goto(p, "idle") /\ loc' = [loc EXCEPT ![p] = NoCall]

-----------------------------------------------------------------------------
(* namex.                                                                  *)

Parent == {"creat", "mkdir", "mknod", "unlink"}
Calls == {"open", "chdir", "stat"} \cup Parent

\* A call with a path begins: at the root or in the working directory.
enter(p, call, path, start) ==
  /\ call \in use.calls /\ path \in use.paths
  /\ pc[p] = "idle"
  /\ inode' = Get(inode, start)
  /\ loc' = [loc EXCEPT ![p] = [NoCall EXCEPT !.call = call, !.path = path, !.ip = start]]
  /\ Goto(p, "walk")
  /\ UNCHANGED <<file, oftable, cwd, use>>

\* One turn of the loop of namex, from inode_lock(ans) to its end.
namex(p) ==
  LET l == loc[p]
      name == Head(l.path)
      next == Lookup(inode, l.ip, name)
      last == l.call \in Parent /\ Len(l.path) = 1
  IN
  /\ pc[p] = "walk" /\ l.path # <<>> /\ CanLock(l.ip)
  /\ IF inode[l.ip].type = "dir" /\ last
     THEN /\ loc' = [loc EXCEPT ![p].dp = l.ip, ![p].ip = None]
          /\ Goto(p, "parent") /\ UNCHANGED inode
     ELSE IF inode[l.ip].type # "dir" \/ next = None
     THEN inode' = Put(inode, l.ip) /\ Return(p)
     ELSE /\ inode' = Put(Get(inode, next), l.ip)
          /\ loc' = [loc EXCEPT ![p].ip = next, ![p].path = Tail(l.path)]
          /\ UNCHANGED pc
  /\ UNCHANGED <<file, oftable, cwd, use>>

Found(p, call) == pc[p] = "walk" /\ loc[p].path = <<>> /\ loc[p].call = call /\ CanLock(loc[p].ip)

-----------------------------------------------------------------------------
(* create: openat with O_CREAT, mkdirat, mknodat.                          *)

Type(call) == IF call = "mkdir" THEN "dir" ELSE "file"

\* Mutated form: a new directory does not count in its parent's links.
ParentLinks_same(s, dp, type) == s

ParentLinks(s, dp, type) == IF type = "dir" THEN [s EXCEPT ![dp].links = @ + 1] ELSE s

\* The name does not exist: from inode_lock(parent_dir) to inode_put.  Without a
\* free inode inode_alloc panics, with the parent locked.
create_new(p) ==
  LET l == loc[p]
      name == Last(l.path)
      i == Min(FreeInodes(inode))
      s == Locked(Get(Alloc(inode, Type(l.call)), i), i, p)
      t == [ParentLinks(s, l.dp, Type(l.call)) EXCEPT
              ![l.dp].dir[name] = i,
              ![i].up = IF Type(l.call) = "dir" THEN l.dp ELSE None]
  IN
  /\ pc[p] = "parent" /\ l.call \in Parent \ {"unlink"} /\ CanLock(l.dp)
  /\ Lookup(inode, l.dp, name) = None
  /\ IF FreeInodes(inode) = {}
     THEN Goto(p, "panic") /\ inode' = Locked(inode, l.dp, p) /\ UNCHANGED loc
     ELSE /\ inode' = Put(t, l.dp)
          /\ loc' = [loc EXCEPT ![p].ip = i, ![p].dp = None]
          /\ Goto(p, "created")
  /\ UNCHANGED <<file, oftable, cwd, use>>

\* It exists: create waits for its lock with the parent locked, also when the name
\* is "." or "..".
create_found(p) ==
  LET l == loc[p]
      i == Lookup(inode, l.dp, Last(l.path))
  IN
  /\ pc[p] = "parent" /\ l.call \in Parent \ {"unlink"} /\ CanLock(l.dp)
  /\ i # None
  /\ inode' = Get(Locked(inode, l.dp, p), i)
  /\ loc' = [loc EXCEPT ![p].ip = i]
  /\ Goto(p, "create_old")
  /\ UNCHANGED <<file, oftable, cwd, use>>

\* Mutated form: the parent of a name that exists stays locked.
create_old_locked(p) ==
  LET l == loc[p] IN
  /\ pc[p] = "create_old" /\ CanLock(l.ip)
  /\ inode' = Put(Locked(inode, l.ip, p), l.dp)
  /\ loc' = [loc EXCEPT ![p].dp = None]
  /\ Goto(p, "created")
  /\ UNCHANGED <<file, oftable, cwd, use>>

create_old(p) ==
  LET l == loc[p] IN
  /\ pc[p] = "create_old" /\ CanLock(l.ip)
  /\ inode' = Put(Unlock(Locked(inode, l.ip, p), l.dp), l.dp)
  /\ loc' = [loc EXCEPT ![p].dp = None]
  /\ Goto(p, "created")
  /\ UNCHANGED <<file, oftable, cwd, use>>

\* mkdirat and mknodat unlock and put the inode create returned.
created(p) ==
  /\ pc[p] = "created" /\ loc[p].call # "creat"
  /\ inode' = Put(Unlock(inode, loc[p].ip), loc[p].ip)
  /\ Return(p)
  /\ UNCHANGED <<file, oftable, cwd, use>>

-----------------------------------------------------------------------------
(* openat.                                                                 *)

\* The inode is locked, by create or here, for the two allocations.  When only
\* the second fails, file_close returns at once, because the new file has no
\* type yet, and its reference stays.
open_alloc(p) ==
  LET i == loc[p].ip
      s == Unlock(inode, i)
      f == Min(FreeFiles(file))
  IN
  /\ Found(p, "open") \/ (pc[p] = "created" /\ loc[p].call = "creat")
  /\ IF FreeFiles(file) = {}
     THEN inode' = Put(s, i) /\ Return(p) /\ UNCHANGED <<file, oftable>>
     ELSE /\ file' = FileAlloc(file)
          /\ IF FreeFds(p) = {}
             THEN inode' = Put(s, i) /\ Return(p) /\ UNCHANGED oftable
             ELSE /\ oftable' = [oftable EXCEPT ![p][Min(FreeFds(p))] = f]
                  /\ loc' = [loc EXCEPT ![p].f = f]
                  /\ Goto(p, "opened") /\ inode' = s
  /\ UNCHANGED <<cwd, use>>

\* After end_op the file gets its type and its inode.
open_type(p) ==
  /\ pc[p] = "opened"
  /\ file' = [file EXCEPT ![loc[p].f].type = "inode", ![loc[p].f].ip = loc[p].ip]
  /\ Return(p)
  /\ UNCHANGED <<inode, oftable, cwd, use>>

-----------------------------------------------------------------------------
(* unlinkat.                                                               *)

\* The parent is locked; bad when the name is "." or ".." or does not exist.
unlink_lookup(p) ==
  LET l == loc[p]
      i == IF Last(l.path) \in Names THEN Lookup(inode, l.dp, Last(l.path)) ELSE None
  IN
  /\ pc[p] = "parent" /\ l.call = "unlink" /\ CanLock(l.dp)
  /\ IF i = None
     THEN inode' = Put(inode, l.dp) /\ Return(p)
     ELSE /\ inode' = Get(Locked(inode, l.dp, p), i)
          /\ loc' = [loc EXCEPT ![p].ip = i]
          /\ Goto(p, "unlink")
  /\ UNCHANGED <<file, oftable, cwd, use>>

Entries(s, i) == {n \in Names : s[i].dir[n] # None}

isdirempty(i) == Entries(inode, i) = {}

\* The inode is locked too; bad when it is a directory that is not empty.
\* Otherwise the entry goes, and the parent is unlocked and put.
unlink_entry(p) ==
  LET l == loc[p]
      d == inode[l.ip].type = "dir"
      s == [inode EXCEPT ![l.dp].dir[Last(l.path)] = None,
                         ![l.dp].links = IF d THEN @ - 1 ELSE @,
                         ![l.ip].lock = p]
  IN
  /\ pc[p] = "unlink" /\ CanLock(l.ip)
  /\ IF inode[l.ip].links < 1 THEN Goto(p, "fault") /\ UNCHANGED <<inode, loc>>
     ELSE IF d /\ ~isdirempty(l.ip)
     THEN inode' = Put(Unlock(Put(inode, l.ip), l.dp), l.dp) /\ Return(p)
     ELSE /\ inode' = Put(Unlock(s, l.dp), l.dp)
          /\ loc' = [loc EXCEPT ![p].dp = None]
          /\ Goto(p, "unlinked")
  /\ UNCHANGED <<file, oftable, cwd, use>>

\* Then the inode loses its link, and is unlocked and put.
unlink_links(p) ==
  LET i == loc[p].ip IN
  /\ pc[p] = "unlinked"
  /\ inode' = Put(Unlock([inode EXCEPT ![i].links = @ - 1], i), i)
  /\ Return(p)
  /\ UNCHANGED <<file, oftable, cwd, use>>

-----------------------------------------------------------------------------
(* The other calls.                                                        *)

\* chdir: the old directory is put, unless the new one is not a directory.
chdir(p) ==
  LET i == loc[p].ip IN
  /\ Found(p, "chdir")
  /\ IF inode[i].type # "dir"
     THEN inode' = Put(inode, i) /\ UNCHANGED cwd
     ELSE inode' = Put(inode, cwd[p]) /\ cwd' = [cwd EXCEPT ![p] = i]
  /\ Return(p)
  /\ UNCHANGED <<file, oftable, use>>

\* The inodes stati describes; it panics on one without a type.
stati(s) == {i \in Inodes : s[i].type # "invalid"}

newfstatat(p) ==
  LET i == loc[p].ip IN
  /\ Found(p, "stat")
  /\ IF i \notin stati(inode)
     THEN Goto(p, "fault") /\ UNCHANGED <<inode, loc>>
     ELSE inode' = Put(inode, i) /\ Return(p)
  /\ UNCHANGED <<file, oftable, cwd, use>>

fd2file(p, d) == oftable[p][d]
file_dup(t, f) == [t EXCEPT ![f].ref = @ + 1]

dup(p, d) ==
  /\ "dup" \in use.calls /\ pc[p] = "idle" /\ fd2file(p, d) # None /\ FreeFds(p) # {}
  /\ oftable' = [oftable EXCEPT ![p][Min(FreeFds(p))] = fd2file(p, d)]
  /\ file' = file_dup(file, fd2file(p, d))
  /\ UNCHANGED <<inode, cwd, pc, loc, use>>

\* close of a descriptor that is not open: file_close reads through NULL.
close_unopened(p, d) ==
  /\ "close" \in use.calls /\ pc[p] = "idle" /\ oftable[p][d] = None
  /\ Goto(p, "panic")
  /\ UNCHANGED <<inode, file, oftable, cwd, loc, use>>

\* close of a descriptor that is open; exit closes them all, in order, and
\* gives up the working directory without inode_put.
close(p, d) ==
  LET f == oftable[p][d] IN
  /\ f # None
  /\ \/ pc[p] = "idle"
     \/ pc[p] = "exit" /\ \A c \in Fds : c < d => oftable[p][c] = None
  /\ oftable' = [oftable EXCEPT ![p][d] = None]
  /\ file' = IF file[f].type = "none" THEN file ELSE Drop(file, f)
  /\ inode' = Closed(inode, file, f)
  /\ UNCHANGED <<cwd, pc, loc, use>>

exit(p) ==
  /\ "exit" \in use.calls /\ p # First
  /\ \/ pc[p] = "idle" /\ Goto(p, "exit")
     \/ pc[p] = "exit" /\ FreeFds(p) = Fds /\ Goto(p, "zombie")
  /\ UNCHANGED <<inode, file, oftable, cwd, loc, use>>

\* Mutated form: the child's descriptors are not counted.
Dups_none(t, fds) == t

Dups(t, fds) ==
  FoldLeft(LAMBDA s, d : IF fds[d] = None THEN s ELSE file_dup(s, fds[d]), t, SetToSeq(Fds))

\* fork: the child shares the descriptors and the working directory.
fork(p, q) ==
  /\ "fork" \in use.calls /\ pc[p] = "idle" /\ pc[q] = "unused"
  /\ oftable' = [oftable EXCEPT ![q] = oftable[p]]
  /\ file' = Dups(file, oftable[p])
  /\ inode' = Get(inode, cwd[p])
  /\ cwd' = [cwd EXCEPT ![q] = cwd[p]]
  /\ Goto(q, "idle")
  /\ UNCHANGED <<loc, use>>

\* pipe2: two files and two descriptors.  A second file that is missing leaves
\* the first, which has no type, with its reference; a second descriptor that
\* is missing leaves the second file with its own.
pipe2(p) ==
  LET f0 == Min(FreeFiles(file))
      one == FileAlloc(file)
      f1 == Min(FreeFiles(one))
      pipe == [type |-> "pipe", ref |-> 1, ip |-> None]
      two == [one EXCEPT ![f0] = pipe, ![f1] = pipe]
      lo == Min(FreeFds(p))
      hi == Min(FreeFds(p) \ {lo})
  IN
  /\ "pipe2" \in use.calls /\ pc[p] = "idle" /\ FreeFiles(file) # {}
  /\ CASE FreeFiles(one) = {} -> file' = one /\ UNCHANGED oftable
       [] FreeFiles(one) # {} /\ Cardinality(FreeFds(p)) = 0 -> file' = two /\ UNCHANGED oftable
       [] FreeFiles(one) # {} /\ Cardinality(FreeFds(p)) = 1 ->
            file' = Drop(two, f0) /\ UNCHANGED oftable
       [] OTHER -> file' = two /\ oftable' = [oftable EXCEPT ![p][lo] = f0, ![p][hi] = f1]
  /\ UNCHANGED <<inode, cwd, pc, loc, use>>

-----------------------------------------------------------------------------

\* What a process inside a call does next.
Proceed(p) ==
  \/ namex(p) \/ create_new(p) \/ create_found(p) \/ create_old(p) \/ created(p)
  \/ open_alloc(p) \/ open_type(p) \/ unlink_lookup(p) \/ unlink_entry(p) \/ unlink_links(p)
  \/ chdir(p) \/ newfstatat(p)

Next ==
  \E p \in Procs :
    \/ Proceed(p) \/ pipe2(p) \/ exit(p)
    \/ \E call \in Calls, path \in UNION {u.paths : u \in Uses}, start \in {Root, cwd[p]} :
         enter(p, call, path, start)
    \/ \E d \in Fds : close(p, d) \/ close_unopened(p, d) \/ dup(p, d)
    \/ \E q \in Procs : fork(p, q)

\* A process in a call gets a lock that is free again and again.
Fairness == \A p \in Procs : SF_vars(Proceed(p))

Spec == Init /\ [][Next]_vars /\ Fairness

-----------------------------------------------------------------------------

Busy == {"walk", "parent", "created", "create_old", "opened", "unlink", "unlinked"}

\* Type invariant.
TypeOK ==
  /\ inode \in [Inodes -> [type : {"invalid", "dir", "file"}, links : Nat, rc : Nat,
                           lock : Procs \cup {None}, up : Inodes \cup {None},
                           dir : [Names -> Inodes \cup {None}]]]
  /\ file \in [Files -> [type : {"none", "inode", "pipe"}, ref : Nat, ip : Inodes \cup {None}]]
  /\ oftable \in [Procs -> [Fds -> Files \cup {None}]]
  /\ cwd \in [Procs -> Inodes \cup {None}]
  /\ pc \in [Procs -> {"unused", "idle", "exit", "zombie", "panic", "fault"} \cup Busy]

Descriptors(f) == Cardinality({<<p, d>> \in Procs \X Fds : oftable[p][d] = f})

\* f.ref covers the descriptors on the file, in all processes: through fork, dup, close,
\* exit and the error paths of openat and pipe2 no file is reset or given to another
\* open while a descriptor is on it (file.c:27-74, sysfile.c:52-63, 475-480, 567-589).
FilesKept == \A f \in Files : file[f].ref >= Descriptors(f)

\* The links of an inode cover the entries that name it and, for a directory,
\* the ".." of the directories below it; so unlinkat never meets an inode without
\* a link, nor stati one without a type (sysfile.c:365-383, 428-439, inode.c:518).
LinksCover ==
  /\ \A p \in Procs : pc[p] # "fault"
  /\ \A i \in Inodes :
       Cardinality({<<j, n>> \in Inodes \X Names : inode[j].dir[n] = i})
       + Cardinality({n \in Entries(inode, i) : inode[inode[i].dir[n]].type = "dir"})
       <= inode[i].links

\* The processes of S wait for locks they hold themselves.
Deadlocked(S) ==
  S # {} /\ \A p \in S : pc[p] \in {"create_old", "unlink"} /\ inode[loc[p].ip].lock \in S

\* Every call returns, because parents are locked before children, unless create was
\* called with a path that ends in "." or "..", for which it locks a directory twice
\* or a child before its parent, and processes wait for each other, or a PANIC stops
\* a process (inode.c:457-488, sysfile.c:340-446).
CallsReturn ==
  \A p \in Procs : pc[p] \in Busy ~>
    \/ pc[p] \notin Busy
    \/ \E q \in Procs : pc[q] = "panic"
    \/ \E S \in SUBSET Procs :
         Deadlocked(S) /\ \E q \in S : pc[q] = "create_old" /\ Last(loc[q].path) \in {".", ".."}

-----------------------------------------------------------------------------
(* What the repository says and the code does not do.                      *)

\* "Close file f. (Decrement ref count, close when reaches 0.)" (file.c:52): no reference
\* outlives the descriptors.
FilesReleased == \A f \in Files : file[f].ref = Descriptors(f)

\* "If the inode exists, just return it" (sysfile.c:399).
CreateReturns == \A S \in SUBSET Procs : ~Deadlocked(S)
=============================================================================
