------------------------------ MODULE FileData ------------------------------
(***************************************************************************)
(* What files hold and where: file_read and file_write (fs/file.c), the    *)
(* block map and the directory entries of an inode (fs/inode.c) and the    *)
(* block allocator (fs/cache.c), on a machine that may crash.              *)
(*                                                                         *)
(* A step is what a process does between two points where another may come *)
(* in: the blocks of a write, the waits for an inode's sleep lock, the end *)
(* of an operation.  The log is module Log's: the blocks an operation has  *)
(* synced are committed when the last running operation ends, and while    *)
(* they are copied to their places other operations begin and sync blocks, *)
(* which reach the disk with them (cache.c:195-197).  The committing is    *)
(* one step, and the rest of end_op another; the limit on operations is    *)
(* left out.  With one process a commit is atomic (AtomicOperations of     *)
(* module Log); with several it is not, so only one process uses a machine *)
(* that crashes.  The cache may evict any block that is not pinned.        *)
(* A unit of a file is one value; an address takes one unit of an indirect *)
(* block, and so does a directory entry of a directory's block.  The byte  *)
(* written at an offset of a file names both and differs from the last one *)
(* written there.  The inode entries are in one block.                     *)
(***************************************************************************)
EXTENDS Integers, Sequences, FiniteSets, SequencesExt, FiniteSetsExt

CONSTANTS
  Procs,
  Inodes,             \* inode numbers, positive integers
  Files,              \* the open files
  Blocks,             \* the data blocks of the disk, positive integers
  BLOCK_SIZE,         \* units of a block (512)
  INODE_NUM_DIRECT,   \* direct addresses of an inode (12)
  OP_MAX_NUM_BLOCKS,  \* blocks an operation may sync (10)
  Names,              \* what a directory entry may hold, positive integers
  Uses,               \* bound: which calls on which files a behaviour is made of
  None

ASSUME FileDataAssumption ==
  /\ Inodes \subseteq 1..9 /\ Blocks \subseteq Nat \ {0} /\ Names \subseteq Nat \ {0}
  /\ BLOCK_SIZE \in 1..9 /\ INODE_NUM_DIRECT \in Nat \ {0}
  /\ OP_MAX_NUM_BLOCKS \in Nat /\ OP_MAX_NUM_BLOCKS >= 10
  /\ None \notin Procs \cup Inodes
  /\ \A u \in Uses : u.faults => \E p \in Procs : \A q \in Procs \ {p} : u.files[q] = {}

INODE_NUM_INDIRECT == BLOCK_SIZE
INODE_MAX_BYTES == (INODE_NUM_DIRECT + INODE_NUM_INDIRECT) * BLOCK_SIZE

MAX_OP_WRITE_N == ((OP_MAX_NUM_BLOCKS - 1 - 1 - 2) \div 2) * BLOCK_SIZE

VARIABLES
  cache,   \* what the cache gives for the bitmap, the inode block, data blocks
  disk,    \* what is on the disk or committed in the log
  header,  \* the blocks the log header lists
  pinned,  \* the blocks the cache may not evict
  ops,     \* the processes between begin_op and end_op
  inode,   \* Inode.entry of the in-memory inodes
  lock,    \* the holder of Inode.lock, or None
  off,     \* File.off
  pc,
  loc,     \* the local variables of a call
  text,    \* what was last written at each offset of each file
  saved,   \* the text of the last commit
  use      \* the chosen element of Uses

vars == <<cache, disk, header, pinned, ops, inode, lock, off, pc, loc, text, saved, use>>

Units == 0 .. BLOCK_SIZE - 1
Zeros == [u \in Units |-> 0]
FreeEntry == [num_bytes |-> 0, addrs |-> [k \in 0 .. INODE_NUM_DIRECT - 1 |-> 0], indirect |-> 0]
Fresh == [bitmap |-> {}, inodes |-> [i \in Inodes |-> FreeEntry], data |-> [b \in Blocks |-> Zeros]]
NoCall == [call |-> "none", f |-> None, ip |-> None, segs |-> <<>>, n |-> 0, off |-> 0, end |-> 0,
           rm |-> 0, block |-> 0, done |-> {}, got |-> <<>>, want |-> <<>>]
Blank == [i \in Inodes |-> [o \in 0 .. INODE_MAX_BYTES - 1 |-> 0]]

Init ==
  /\ use \in Uses
  /\ cache = Fresh /\ disk = Fresh /\ header = {} /\ pinned = {} /\ ops = {}
  /\ inode = [i \in Inodes |-> FreeEntry] /\ lock = [i \in Inodes |-> None]
  /\ off = [f \in Files |-> 0]
  /\ pc = [p \in Procs |-> "idle"] /\ loc = [p \in Procs |-> NoCall]
  /\ text = Blank /\ saved = Blank

\* What a process that writes file i puts at offset o.
Byte(i, o) ==
  LET b == 100 * i + o + 1 IN IF text[i][o] = b THEN b + 1000 ELSE b

-----------------------------------------------------------------------------
(* The block allocator and the block map, as functions of the state w of a *)
(* running operation: the cache, the header, the pinned blocks, the        *)
(* inodes, the blocks rm the operation may still sync, the block got       *)
(* returned last, and the PANIC it stopped at.                             *)

BITMAP == -1
INODEBLOCK == -2

View(c, e) == [cache |-> c, header |-> header, pinned |-> pinned, inode |-> e, rm |-> 0, got |-> 0,
               stop |-> "no"]
Now == View(cache, inode)
Running(p) == [Now EXCEPT !.rm = loc[p].rm]

cache_sync(w, b) ==
  IF b \in w.header THEN [w EXCEPT !.pinned = @ \cup {b}]
  ELSE [w EXCEPT !.pinned = @ \cup {b}, !.header = @ \cup {b}, !.rm = @ - 1,
                 !.stop = IF w.rm <= 0 THEN "assert" ELSE @]

inode_sync(w, i) == cache_sync([w EXCEPT !.cache.inodes[i] = w.inode[i]], INODEBLOCK)

\* The first free block, marked and cleared; PANIC when there is none.
cache_alloc(w) ==
  LET free == Blocks \ w.cache.bitmap
      b == Min(free)
  IN IF free = {} THEN [w EXCEPT !.stop = "full"]
     ELSE cache_sync(cache_sync([w EXCEPT !.cache.bitmap = @ \cup {b}, !.cache.data[b] = Zeros,
                                          !.got = b], BITMAP), b)

cache_free(w, S) == cache_sync([w EXCEPT !.cache.bitmap = @ \ S], BITMAP)

\* The number of the k-th block of file i, allocated if it is missing and there is
\* an operation; an address stored in an indirect block is not synced.
inode_map(w, ctx, i, k) ==
  IF k < INODE_NUM_DIRECT
  THEN LET a == cache_alloc(w)
       IN IF w.inode[i].addrs[k] # 0 THEN [w EXCEPT !.got = w.inode[i].addrs[k]]
          ELSE IF ~ctx THEN [w EXCEPT !.got = 0]
          ELSE inode_sync([a EXCEPT !.inode[i].addrs[k] = a.got], i)
  ELSE LET j == k - INODE_NUM_DIRECT
           n == cache_alloc(w)
           v == IF w.inode[i].indirect # 0 THEN w ELSE [n EXCEPT !.inode[i].indirect = n.got]
           ind == v.inode[i].indirect
           a == cache_alloc(v)
       IN IF v.stop # "no" THEN v
          ELSE IF v.cache.data[ind][j] # 0 THEN [v EXCEPT !.got = v.cache.data[ind][j]]
          ELSE IF ~ctx THEN [v EXCEPT !.got = 0]
          ELSE inode_sync([a EXCEPT !.cache.data[ind][j] = a.got], i)

\* The blocks of file i in a view of the cache or the disk: its direct ones, the
\* indirect block, those the indirect block names.
Direct(e) == {e.addrs[k] : k \in DOMAIN e.addrs} \ {0}
Named(data, e) == IF e.indirect = 0 THEN {} ELSE {data[e.indirect][u] : u \in Units} \ {0}

\* Mutated form: the blocks the indirect block names are forgotten.
inode_clear_direct(w, i) ==
  LET e == w.inode[i]
      v == cache_free(w, Direct(e) \cup ({e.indirect} \ {0}))
  IN inode_sync([v EXCEPT !.inode[i] = FreeEntry], i)

inode_clear(w, i) ==
  LET e == w.inode[i]
      S == Direct(e) \cup Named(w.cache.data, e) \cup ({e.indirect} \ {0})
  IN inode_sync([(IF S = {} THEN w ELSE cache_free(w, S)) EXCEPT !.inode[i] = FreeEntry], i)

\* What process p leaves when its operation is at w, and where it goes.
Apply(p, w, where, l) ==
  /\ cache' = w.cache /\ header' = w.header /\ pinned' = w.pinned /\ inode' = w.inode
  /\ pc' = [pc EXCEPT ![p] = IF w.stop = "no" THEN where ELSE w.stop]
  /\ loc' = [loc EXCEPT ![p] = [l EXCEPT !.rm = w.rm]]

Goto(p, where) == pc' = [pc EXCEPT ![p] = where]

\* A behaviour is followed to its first PANIC: a failed ASSERT, or no free block.
Stopped == \E p \in Procs : pc[p] \in {"assert", "full"}

-----------------------------------------------------------------------------
(* file_read.                                                              *)

RECURSIVE inode_read(_, _, _, _)
\* The loop of inode_read; block 0, where no file is, stands for a missing block.
inode_read(w, i, o, count) ==
  IF count = 0 THEN <<>>
  ELSE LET sz == Min({count, BLOCK_SIZE - (o % BLOCK_SIZE)})
           b == inode_map(w, FALSE, i, o \div BLOCK_SIZE).got
       IN [k \in 1..sz |-> IF b = 0 THEN -1 ELSE w.cache.data[b][(o % BLOCK_SIZE) + k - 1]]
            \o inode_read(w, i, o + sz, count - sz)

\* The blocks of file i whose addresses a view of the cache or the disk cannot lose:
\* the direct ones, and those whose address was in the indirect block when that was
\* committed, or will be.
Kept(i, k) ==
  LET ind == inode[i].indirect
  IN  k < INODE_NUM_DIRECT \/ ind \in pinned \/ (ind # 0 /\ disk.data[ind][k - INODE_NUM_DIRECT] # 0)

\* What a read of n bytes at offset o is to return; -1 stands for anything.
Expected(i, o, n) ==
  [k \in 1 .. n |-> IF Kept(i, (o + k - 1) \div BLOCK_SIZE) THEN text[i][o + k - 1] ELSE -1]

\* How many of n bytes at offset o there are.
Readable(i, o, n) == IF o + n > inode[i].num_bytes THEN inode[i].num_bytes - o ELSE n

file_read(p, f, n) ==
  LET i == use.ip[f]
      k == Readable(i, off[f], n)
  IN /\ ~Stopped /\ pc[p] = "idle" /\ f \in use.files[p] /\ n \in use.reads
     /\ lock[i] = None
     /\ loc' = [loc EXCEPT ![p] = [NoCall EXCEPT !.call = "read", !.ip = i, !.off = off[f],
                                     !.got = inode_read(Running(p), i, off[f], k),
                                     !.want = Expected(i, off[f], k)]]
     /\ off' = [off EXCEPT ![f] = @ + k]
     /\ UNCHANGED <<cache, disk, header, pinned, ops, inode, lock, pc, text, saved, use>>

-----------------------------------------------------------------------------
(* write, writev and file_write.                                           *)

write(p, f, segs) ==
  /\ ~Stopped /\ pc[p] = "idle" /\ f \in use.files[p] /\ segs \in use.writes
  /\ off[f] < use.max[f]
  /\ loc' = [loc EXCEPT ![p] = [NoCall EXCEPT !.call = "write", !.f = f, !.ip = use.ip[f],
                                                !.segs = segs]]
  /\ Goto(p, "seg")
  /\ UNCHANGED <<cache, disk, header, pinned, ops, inode, lock, off, text, saved, use>>

\* Mutated form: the size limit of a file is not looked at.
Fits_all(f, n) == n

\* The part of n bytes the file has room for.
Fits(f, n) == Min({n, INODE_MAX_BYTES - off[f]})

\* The next segment; what the file has room for is computed from File.off here,
\* before the inode is locked.
file_write(p) ==
  LET l == loc[p]
      n == Fits(l.f, Head(l.segs))
  IN /\ ~Stopped /\ pc[p] = "seg"
     /\ IF l.segs = <<>> THEN loc' = [loc EXCEPT ![p] = NoCall] /\ Goto(p, "idle")
        ELSE /\ loc' = [loc EXCEPT ![p].segs = Tail(@), ![p].n = n]
             /\ Goto(p, IF n = 0 THEN "seg" ELSE "begin")
     /\ UNCHANGED <<cache, disk, header, pinned, ops, inode, lock, off, text, saved, use>>

begin_op(p) ==
  /\ ~Stopped /\ pc[p] = "begin"
  /\ ops' = ops \cup {p}
  /\ loc' = [loc EXCEPT ![p].rm = OP_MAX_NUM_BLOCKS]
  /\ Goto(p, loc[p].call)
  /\ UNCHANGED <<cache, disk, header, pinned, inode, lock, off, text, saved, use>>

\* inodes.lock and the head of inode_write: the ASSERTs and the new size.
write_lock(p) ==
  LET l == loc[p]
      i == l.ip
      o == off[l.f]
      end == o + Min({l.n, MAX_OP_WRITE_N})
      w == Running(p)
      v == IF o > w.inode[i].num_bytes \/ end > INODE_MAX_BYTES
           THEN [w EXCEPT !.stop = "assert"]
           ELSE IF end > w.inode[i].num_bytes
           THEN inode_sync([w EXCEPT !.inode[i].num_bytes = end], i) ELSE w
  IN /\ ~Stopped /\ pc[p] = "write" /\ lock[i] = None
     /\ lock' = [lock EXCEPT ![i] = p]
     /\ Apply(p, v, "copy", [l EXCEPT !.off = o, !.end = end])
     /\ UNCHANGED <<disk, ops, off, text, saved, use>>

\* Mutated form: the bytes go to the start of the block.
Put_start(w, b, i, o, sz) ==
  cache_sync([w EXCEPT !.cache.data[b] =
    [u \in Units |-> IF u \in 0 .. sz - 1 THEN Byte(i, o + u) ELSE @[u]]], b)

\* Mutated form: the block is not synced.
Put_unsynced(w, b, i, o, sz) ==
  [w EXCEPT !.cache.data[b] =
    [u \in Units |-> IF u - (o % BLOCK_SIZE) \in 0 .. sz - 1
                     THEN Byte(i, o - (o % BLOCK_SIZE) + u) ELSE @[u]]]

\* The sz bytes at offset o of file i are in block b.
Put(w, b, i, o, sz) ==
  cache_sync([w EXCEPT !.cache.data[b] =
    [u \in Units |-> IF u - (o % BLOCK_SIZE) \in 0 .. sz - 1
                     THEN Byte(i, o - (o % BLOCK_SIZE) + u) ELSE @[u]]], b)

\* One turn of the loop of inode_write: the block is found or allocated, then written.
write_map(p) ==
  LET l == loc[p]
      w == inode_map(Running(p), TRUE, l.ip, l.off \div BLOCK_SIZE)
  IN /\ ~Stopped /\ pc[p] = "copy" /\ l.off < l.end
     /\ Apply(p, w, "fill", [l EXCEPT !.block = w.got])
     /\ UNCHANGED <<disk, ops, lock, off, text, saved, use>>

write_put(p) ==
  LET l == loc[p]
      sz == Min({BLOCK_SIZE - (l.off % BLOCK_SIZE), l.end - l.off})
  IN /\ ~Stopped /\ pc[p] = "fill"
     /\ Apply(p, Put(Running(p), l.block, l.ip, l.off, sz), "copy", [l EXCEPT !.off = @ + sz, !.block = 0])
     /\ text' = [text EXCEPT ![l.ip] = [o \in DOMAIN @ |-> IF o - l.off \in 0 .. sz - 1 THEN Byte(l.ip, o) ELSE @[o]]]
     /\ UNCHANGED <<disk, ops, lock, off, saved, use>>

\* The offset moves, the inode is unlocked.
write_unlock(p) ==
  LET l == loc[p]
      w == l.end - off[l.f]
  IN /\ ~Stopped /\ pc[p] = "copy" /\ l.off = l.end
     /\ off' = [off EXCEPT ![l.f] = l.end]
     /\ lock' = [lock EXCEPT ![l.ip] = None]
     /\ loc' = [loc EXCEPT ![p].n = @ - w, ![p].off = 0, ![p].end = 0]
     /\ Goto(p, "end")
     /\ UNCHANGED <<cache, disk, header, pinned, ops, inode, text, saved, use>>

\* The disk when the blocks in S have been written.
Written(S) ==
  [bitmap |-> IF BITMAP \in S THEN cache.bitmap ELSE disk.bitmap,
   inodes |-> IF INODEBLOCK \in S THEN cache.inodes ELSE disk.inodes,
   data |-> [b \in Blocks |-> IF b \in S THEN cache.data[b] ELSE disk.data[b]]]

\* What a call does after end_op.
Ended(p) ==
  IF loc[p].call = "write"
  THEN /\ Goto(p, IF loc[p].n > 0 THEN "begin" ELSE "seg")
       /\ loc' = [loc EXCEPT ![p].rm = 0, ![p].done = {}]
  ELSE Goto(p, "idle") /\ loc' = [loc EXCEPT ![p] = NoCall]

\* end_op, when others run, and when it commits what the header lists.
end_op(p) ==
  /\ ~Stopped /\ pc[p] = "end"
  /\ ops' = ops \ {p}
  /\ \/ ops # {p} /\ Ended(p) /\ UNCHANGED <<disk, pinned, saved>>
     \/ /\ ops = {p}
        /\ disk' = Written(header) /\ pinned' = pinned \ header
        /\ saved' = IF use.faults THEN text ELSE saved
        /\ loc' = [loc EXCEPT ![p].done = header]
        /\ Goto(p, "checkpoint")
  /\ UNCHANGED <<cache, header, inode, lock, off, text, use>>

\* The checkpoint goes on with what others have added to the header.
end_op_return(p) ==
  LET late == header \ loc[p].done
  IN /\ ~Stopped /\ pc[p] = "checkpoint"
     /\ disk' = Written(late) /\ pinned' = pinned \ late /\ header' = {}
     /\ Ended(p)
     /\ UNCHANGED <<cache, ops, inode, lock, off, text, saved, use>>

-----------------------------------------------------------------------------
(* Directories.  A unit of a directory is 0 or the name in a DirEntry.     *)

Unit(w, i, o) == inode_read(w, i, o, 1)[1]
Entries(w, i) == 0 .. w.inode[i].num_bytes - 1

\* The index of the entry with name x, or -1.
inode_lookup(w, i, x) ==
  LET at == {o \in Entries(w, i) : Unit(w, i, o) = x} IN IF at = {} THEN -1 ELSE Min(at)

\* inode_write of one entry at index o, which is at most one past the last.
WriteEntry(w, i, o, x) ==
  LET v == IF o < w.inode[i].num_bytes THEN w
           ELSE inode_sync([w EXCEPT !.inode[i].num_bytes = o + 1], i)
      m == inode_map(v, TRUE, i, o \div BLOCK_SIZE)
  IN IF o >= INODE_MAX_BYTES THEN [w EXCEPT !.stop = "assert"]
     ELSE IF m.stop # "no" THEN m
     ELSE cache_sync([m EXCEPT !.cache.data[m.got][o % BLOCK_SIZE] = x], m.got)

\* Mutated form: a name that is there already is entered again.
inode_insert_again(w, i, x) ==
  LET free == {o \in Entries(w, i) : Unit(w, i, o) = 0}
  IN WriteEntry(w, i, IF free = {} THEN w.inode[i].num_bytes ELSE Min(free), x)

inode_insert(w, i, x) ==
  LET free == {o \in Entries(w, i) : Unit(w, i, o) = 0}
  IN IF inode_lookup(w, i, x) # -1 THEN w
     ELSE WriteEntry(w, i, IF free = {} THEN w.inode[i].num_bytes ELSE Min(free), x)

\* The last entry takes the place of the one at index o; the size is not synced.
inode_remove(w, i, o) ==
  LET last == w.inode[i].num_bytes - 1
  IN [WriteEntry(w, i, o, Unit(w, i, last)) EXCEPT !.inode[i].num_bytes = last]

\* The callers: create, unlinkat, and a caller of inodes.remove.
directory(p, c, x) ==
  /\ ~Stopped /\ pc[p] = "idle" /\ c \in use.calls /\ x \in use.files[p]
  /\ loc' = [loc EXCEPT ![p] = [NoCall EXCEPT !.call = c, !.ip = use.dir, !.n = x]]
  /\ Goto(p, "begin")
  /\ UNCHANGED <<cache, disk, header, pinned, ops, inode, lock, off, text, saved, use>>

create(p) ==
  /\ ~Stopped /\ pc[p] = "create" /\ lock[loc[p].ip] = None
  /\ Apply(p, inode_insert(Running(p), loc[p].ip, loc[p].n), "end", loc[p])
  /\ UNCHANGED <<disk, ops, lock, off, text, saved, use>>

unlinkat(p) ==
  LET w == Running(p)
      i == loc[p].ip
      o == inode_lookup(w, i, loc[p].n)
  IN /\ ~Stopped /\ pc[p] = "unlinkat" /\ lock[i] = None
     /\ Apply(p, IF o = -1 THEN w ELSE WriteEntry(w, i, o, 0), "end", loc[p])
     /\ UNCHANGED <<disk, ops, lock, off, text, saved, use>>

remove(p) ==
  LET w == Running(p)
      i == loc[p].ip
      o == inode_lookup(w, i, loc[p].n)
  IN /\ ~Stopped /\ pc[p] = "remove" /\ lock[i] = None
     /\ Apply(p, IF o = -1 THEN w ELSE inode_remove(w, i, o), "end", loc[p])
     /\ UNCHANGED <<disk, ops, lock, off, text, saved, use>>

-----------------------------------------------------------------------------
(* The last inode_put of an unlinked file that one process has open, which *)
(* then creates it anew under the same number; a file closed and opened    *)
(* again; a crash.                                                         *)

Using(f) == {p \in Procs : pc[p] # "idle" /\ loc[p].f = f}

put(p, f) ==
  /\ ~Stopped /\ pc[p] = "idle" /\ f \in use.removed \cap use.files[p]
  /\ \A g \in Files : use.ip[g] = use.ip[f] => Using(g) = {}
  /\ \A q \in Procs : pc[q] # "idle" => loc[q].ip # use.ip[f]
  /\ loc' = [loc EXCEPT ![p] = [NoCall EXCEPT !.call = "put", !.f = f, !.ip = use.ip[f]]]
  /\ Goto(p, "begin")
  /\ UNCHANGED <<cache, disk, header, pinned, ops, inode, lock, off, text, saved, use>>

inode_put(p) ==
  LET w == inode_clear(Running(p), loc[p].ip)
  IN /\ ~Stopped /\ pc[p] = "put"
     /\ Apply(p, w, "end", loc[p])
     /\ off' = [f \in Files |-> IF use.ip[f] = loc[p].ip THEN 0 ELSE off[f]]
     /\ text' = [text EXCEPT ![loc[p].ip] = [o \in DOMAIN @ |-> 0]]
     /\ UNCHANGED <<disk, ops, lock, saved, use>>

reopen(f) ==
  /\ ~Stopped /\ Using(f) = {} /\ off[f] # 0 /\ "reopen" \in use.calls
  /\ off' = [off EXCEPT ![f] = 0]
  /\ UNCHANGED <<cache, disk, header, pinned, ops, inode, lock, pc, loc, text, saved, use>>

\* manage_block_num drops a block, which is read again when it is needed.
evict(b) ==
  /\ ~Stopped /\ b \notin pinned /\ cache.data[b] # disk.data[b]
  /\ cache' = [cache EXCEPT !.data[b] = disk.data[b]]
  /\ UNCHANGED <<disk, header, pinned, ops, inode, lock, off, pc, loc, text, saved, use>>

\* The machine stops and starts again from the disk.
crash ==
  /\ ~Stopped /\ use.faults
  /\ cache' = disk /\ header' = {} /\ pinned' = {} /\ ops' = {}
  /\ inode' = disk.inodes /\ lock' = [i \in Inodes |-> None]
  /\ off' = [f \in Files |-> 0] /\ text' = saved
  /\ pc' = [p \in Procs |-> "idle"] /\ loc' = [p \in Procs |-> NoCall]
  /\ UNCHANGED <<disk, saved, use>>

-----------------------------------------------------------------------------

Next ==
  \/ \E p \in Procs, f \in Files : \E n \in use.reads : file_read(p, f, n)
  \/ \E p \in Procs, f \in Files : \E segs \in use.writes : write(p, f, segs)
  \/ \E p \in Procs, f \in Files : put(p, f)
  \/ \E p \in Procs, c \in use.calls \ {"reopen"}, x \in Names : directory(p, c, x)
  \/ \E p \in Procs : file_write(p)
  \/ \E p \in Procs : begin_op(p)
  \/ \E p \in Procs : write_lock(p)
  \/ \E p \in Procs : write_map(p)
  \/ \E p \in Procs : write_put(p)
  \/ \E p \in Procs : write_unlock(p)
  \/ \E p \in Procs : end_op(p)
  \/ \E p \in Procs : end_op_return(p)
  \/ \E p \in Procs : create(p)
  \/ \E p \in Procs : unlinkat(p)
  \/ \E p \in Procs : remove(p)
  \/ \E p \in Procs : inode_put(p)
  \/ \E f \in Files : reopen(f)
  \/ \E b \in Blocks : evict(b)
  \/ crash

Spec == Init /\ [][Next]_vars

-----------------------------------------------------------------------------

\* Type invariant.
TypeOK ==
  /\ cache.bitmap \subseteq Blocks /\ disk.bitmap \subseteq Blocks
  /\ \A i \in Inodes : inode[i].num_bytes \in 0 .. INODE_MAX_BYTES
  /\ header \subseteq Blocks \cup {BITMAP, INODEBLOCK} /\ ops \subseteq Procs
  /\ lock \in [Inodes -> Procs \cup {None}]
  /\ off \in [Files -> 0 .. INODE_MAX_BYTES]
  /\ \A p \in Procs : loc[p].rm \in 0 .. OP_MAX_NUM_BLOCKS /\ loc[p].n \in Nat

\* Every reference to a block in a view with inode entries e: who has it, and where.
References(e, data) ==
  UNION {{<<i, "d", k, e[i].addrs[k]>> : k \in DOMAIN e[i].addrs}
         \cup {<<i, "i", 0, e[i].indirect>>}
         \cup (IF e[i].indirect = 0 THEN {}
               ELSE {<<i, "n", u, data[e[i].indirect][u]>> : u \in Units}) : i \in Inodes}

\* Each block has at most one place in at most one file, and is marked.
Owned(bitmap, e, data) ==
  LET refs == {r \in References(e, data) : r[4] # 0}
  IN /\ {r[4] : r \in refs} \subseteq bitmap
     /\ \A r, s \in refs : r[4] = s[4] => r = s

\* The marked blocks that no file has.
Leaked(bitmap, e, data) == bitmap \ {r[4] : r \in References(e, data)}
Leaks == Leaked(cache.bitmap, inode, cache.data) \cup Leaked(disk.bitmap, disk.inodes, disk.data)

\* The blocks whose address was stored in an indirect block outside the operation that
\* allocated that one: inode_map does not sync it.
Unlogged ==
  {cache.data[inode[i].indirect][u] : <<i, u>> \in {<<i, u>> \in Inodes \X Units :
     LET ind == inode[i].indirect
     IN  ind # 0 /\ ind \notin pinned /\ cache.data[ind][u] # disk.data[ind][u]}}

\* No block serves two files or two places of one, every block in use is marked in
\* the bitmap, and no block is marked without being in use, but for those whose address
\* inode_map has not synced when the indirect block is evicted (cache.c:60-70, 226-256,
\* inode.c:167-190, 238-265).
BlocksOwned ==
  /\ [](~Stopped => Owned(cache.bitmap, inode, cache.data))
  /\ [][~Stopped' => Leaked(cache.bitmap, inode, cache.data)' \subseteq Leaks \cup Unlogged]_vars

\* The offsets of file i a writer has not filled yet.
Unfilled(i) ==
  UNION {loc[p].off .. loc[p].end - 1 : p \in {q \in Procs : pc[q] \in {"copy", "fill"} /\ loc[q].ip = i}}

\* Below its size a file holds what was written there last, through growth, removal and
\* reuse of its blocks and evictions, wherever the address of the block is kept, and a
\* read returns those bytes from its offset on (inode.c:270-334, file.c:90-106).
FileHolds ==
  /\ ~Stopped => \A i \in Inodes \ {use.dir} : \A o \in (0 .. inode[i].num_bytes - 1) \ Unfilled(i) :
       Kept(i, o \div BLOCK_SIZE) => Unit(Now, i, o) = text[i][o]
  /\ \A p \in Procs : \A k \in DOMAIN loc[p].want : loc[p].want[k] \in {-1, loc[p].got[k]}

\* What a crash leaves of file i.
DiskHolds(i) ==
  \A o \in 0 .. disk.inodes[i].num_bytes - 1 :
    LET k == o \div BLOCK_SIZE
        ind == disk.inodes[i].indirect
    IN  k < INODE_NUM_DIRECT \/ disk.data[ind][k - INODE_NUM_DIRECT] # 0 =>
          Unit(View(disk, disk.inodes), i, o) = saved[i][o]

\* With one process, a crash at any moment leaves what the operations that have ended
\* wrote, in blocks with one owner, and every size, address and mark as they left it; no
\* marked block is without a file but for those whose address was not synced
\* (file.c:121-131, cache.c:179-205).
CrashConsistent ==
  /\ [](use.faults =>
          /\ Owned(disk.bitmap, disk.inodes, disk.data)
          /\ \A i \in Inodes \ {use.dir} : DiskHolds(i)
          /\ ops = {} => /\ disk.inodes = inode /\ disk.bitmap = cache.bitmap
                         /\ \A i \in Inodes \ {use.dir} : \A o \in 0 .. inode[i].num_bytes - 1 :
                              saved[i][o] = text[i][o])
  /\ [][use.faults => Leaked(disk.bitmap, disk.inodes, disk.data)' \subseteq Leaks \cup Unlogged]_vars

\* With one writer per file no ASSERT and no limit on the blocks of an operation stops
\* a write, whatever its alignment (file.h:13, file.c:118-131, inode.c:306-308, cache.c:162).
WritesFit == ~use.shared => \A p \in Procs : pc[p] # "assert"

\* A directory has no two entries with one name (inode.c:360-392).
NamesDistinct ==
  ~Stopped /\ use.dir # None => \A o, q \in Entries(Now, use.dir) :
    Unit(Now, use.dir, o) = Unit(Now, use.dir, q) => o = q \/ Unit(Now, use.dir, o) = 0

-----------------------------------------------------------------------------
(* What the repository says and the code does not do.                      *)

\* "write `count` bytes from `src` to `inode`, beginning at `offset`" (inode.h:157): a
\* file holds what was written, wherever the addresses of its blocks are.
FileKept ==
  ~Stopped => \A i \in Inodes \ {use.dir} : \A o \in (0 .. inode[i].num_bytes - 1) \ Unfilled(i) :
    Unit(Now, i, o) = text[i][o]

\* "memset(&dir_entry, 0, dsize);  // 清理最后一个位置" (inode.c:390): the directory on the
\* disk is the one inodes.remove leaves.
RemoveSaved == ops = {} => disk.inodes = inode
=============================================================================
