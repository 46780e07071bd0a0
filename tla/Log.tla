-------------------------------- MODULE Log --------------------------------
(***************************************************************************)
(* The write-ahead log of the block cache (fs/cache.c): cache_begin_op,    *)
(* cache_sync, cache_end_op and the recovery in init_bcache, run by        *)
(* processes that interleave wherever they hold no spinlock, with a crash  *)
(* between any two disk writes.                                            *)
(*                                                                         *)
(* Every block has a Block in the cache here.  One that is evicted comes   *)
(* back from the disk; a process that has its old struct, or waits for it, *)
(* goes on with a Block the cache has forgotten (orphan).  That two misses *)
(* may load a block twice is the subject of module BCache.                 *)
(*                                                                         *)
(* No operation reaches cache_sync with a null ctx, for which it writes    *)
(* the block at once: that branch is left out.                             *)
(***************************************************************************)
EXTENDS Integers, FiniteSets, Sequences, SequencesExt, FiniteSetsExt

CONSTANTS
  Procs,              \* the processes that run atomic operations
  Blocks,             \* the blocks outside the log
  Values,             \* what a block may hold
  Shared,             \* bound: the values used when there are several clients
  LOG_MAX_SIZE,       \* the capacity of a log header (63)
  OP_MAX_NUM_BLOCKS,  \* the blocks an operation may modify (10)
  MaxPermits,         \* bound: units that unused posts may leave in log_sem
  None

ASSUME LogAssumption ==
  /\ OP_MAX_NUM_BLOCKS \in Nat \ {0} /\ LOG_MAX_SIZE \in Nat
  /\ LOG_MAX_SIZE > OP_MAX_NUM_BLOCKS
  /\ MaxPermits \in Nat /\ Shared # {} /\ Shared \subseteq Values
  /\ None \notin Procs \cup Blocks

VARIABLES
  \* On the disk, and what survives a crash:
  disk,        \* the blocks
  logdisk,     \* the log blocks
  hdisk,       \* the log header: the block numbers it lists
  \* In memory:
  mode,        \* "up", or "recover" while init_bcache runs
  clients,     \* the processes that use the cache; never changes
  cache,       \* Block.data
  pinned,      \* Block.pinned
  acquired,    \* Block.acquired
  blocklock,   \* the holder of Block.lock, or None
  header,      \* the in-memory log header
  log_lock,    \* the holder of log_lock, or None
  outstanding, \* log.outstanding
  permits,     \* log.log_sem.val when nobody waits
  sleepers,    \* the processes waiting in log.log_sem, oldest first
  pc,          \* where each process is
  rm,          \* OpContext.rm
  wrote,       \* the blocks the process's operation has modified
  cur,         \* the block the process holds or waits for, or None
  orphan,      \* is its Block one that the cache has forgotten?
  idx          \* the loop variable of end_op; of init_bcache for None

diskVars == <<disk, logdisk, hdisk>>
modeVars == <<mode, clients>>
semVars == <<permits, sleepers>>
blockVars == <<pinned, acquired, blocklock>>
curVars == <<cur, orphan>>
opVars == <<rm, wrote, curVars, idx>>
vars == <<diskVars, modeVars, cache, blockVars, header, log_lock,
          outstanding, semVars, pc, opVars>>

LogIndex == 1 .. LOG_MAX_SIZE

\* Memory as init_bcache leaves it when the disk holds d.
Fresh(d) ==
  /\ cache' = d
  /\ pinned' = [b \in Blocks |-> FALSE] /\ acquired' = [b \in Blocks |-> FALSE]
  /\ blocklock' = [b \in Blocks |-> None]
  /\ log_lock' = None /\ outstanding' = 0
  /\ permits' = 0 /\ sleepers' = <<>>
  /\ pc' = [p \in Procs |-> "idle"]
  /\ rm' = [p \in Procs |-> 0]
  /\ wrote' = [p \in Procs |-> {}]
  /\ cur' = [p \in Procs |-> None] /\ orphan' = [p \in Procs |-> FALSE]

\* What the clients write.
Written == IF Cardinality(clients) = 1 THEN Values ELSE Shared

Init ==
  /\ clients \in (SUBSET Procs) \ {{}}
  /\ disk \in [Blocks -> Written]
  /\ \E v \in Written : logdisk = [i \in LogIndex |-> v]
  /\ hdisk = <<>> /\ mode = "up"
  /\ cache = disk
  /\ pinned = [b \in Blocks |-> FALSE] /\ acquired = [b \in Blocks |-> FALSE]
  /\ blocklock = [b \in Blocks |-> None]
  /\ header = <<>>
  /\ log_lock = None /\ outstanding = 0
  /\ permits = 0 /\ sleepers = <<>>
  /\ pc = [p \in Procs |-> "idle"]
  /\ rm = [p \in Procs |-> 0]
  /\ wrote = [p \in Procs |-> {}]
  /\ cur = [p \in Procs |-> None] /\ orphan = [p \in Procs |-> FALSE]
  /\ idx = [p \in Procs \cup {None} |-> 1]

At(p, where) == mode = "up" /\ pc[p] = where
Goto(p, where) == pc' = [pc EXCEPT ![p] = where]

-----------------------------------------------------------------------------
(* cache_begin_op.                                                         *)

\* Mutated form: the operation that begins is not counted.
Room_less == LOG_MAX_SIZE > Len(header) + outstanding * OP_MAX_NUM_BLOCKS

\* Is there room in the log for one more operation?
Room == LOG_MAX_SIZE > Len(header) + (outstanding + 1) * OP_MAX_NUM_BLOCKS

begin_op(p) ==
  /\ At(p, "idle") \/ At(p, "retry")
  /\ log_lock = None
  /\ rm' = [rm EXCEPT ![p] = OP_MAX_NUM_BLOCKS]
  /\ IF Room
     THEN /\ outstanding' = outstanding + 1
          /\ wrote' = [wrote EXCEPT ![p] = {}]
          /\ Goto(p, "op")
     ELSE /\ Goto(p, "full")
          /\ UNCHANGED <<outstanding, wrote>>
  /\ UNCHANGED <<diskVars, modeVars, cache, blockVars, header, log_lock,
                 semVars, curVars, idx>>

\* wait_sem(&log.log_sem), with log_lock released.
begin_op_wait(p) ==
  /\ At(p, "full")
  /\ IF permits > 0
     THEN permits' = permits - 1 /\ Goto(p, "retry") /\ UNCHANGED sleepers
     ELSE sleepers' = Append(sleepers, p) /\ Goto(p, "asleep") /\ UNCHANGED permits
  /\ UNCHANGED <<diskVars, modeVars, cache, blockVars, header, log_lock,
                 outstanding, opVars>>

\* The wait fails when its process is killed: PANIC.
begin_op_killed(p) ==
  /\ At(p, "asleep")
  /\ sleepers' = Remove(sleepers, p)
  /\ Goto(p, "killed")
  /\ UNCHANGED <<diskVars, modeVars, cache, blockVars, header, log_lock,
                 outstanding, permits, opVars>>

-----------------------------------------------------------------------------
(* An operation acquires a block and modifies it, syncs it, releases it.   *)

\* cache_acquire, up to wait_sem(&acquired_block->lock).
cache_acquire(p, b) ==
  /\ At(p, "op")
  /\ Cardinality(wrote[p] \cup {b}) <= OP_MAX_NUM_BLOCKS
  /\ acquired' = [acquired EXCEPT ![b] = TRUE]
  /\ cur' = [cur EXCEPT ![p] = b]
  /\ Goto(p, "acquire")
  /\ UNCHANGED <<diskVars, modeVars, cache, pinned, blocklock, header, log_lock, outstanding,
                 semVars, rm, wrote, orphan, idx>>

\* The caller gets the lock and changes the block.
modify(p, v) ==
  LET b == cur[p] IN
  /\ At(p, "acquire")
  /\ IF orphan[p] THEN UNCHANGED <<blocklock, cache>>
     ELSE /\ blocklock[b] = None
          /\ blocklock' = [blocklock EXCEPT ![b] = p]
          /\ cache' = [cache EXCEPT ![b] = v]
  /\ wrote' = [wrote EXCEPT ![p] = @ \cup {b}]
  /\ Goto(p, "modified")
  /\ UNCHANGED <<diskVars, modeVars, pinned, acquired, header, log_lock, outstanding,
                 semVars, rm, curVars, idx>>

\* The wait for the lock, in an operation or in the checkpoint of end_op, fails when
\* its process is killed: PANIC.
acquire_killed(p) ==
  /\ \/ At(p, "acquire") /\ (orphan[p] \/ blocklock[cur[p]] # None) /\ Goto(p, "dead")
     \/ /\ At(p, "install") /\ idx[p] <= Len(header)
        /\ blocklock[header[idx[p]]] # None /\ Goto(p, "killed")
  /\ UNCHANGED <<diskVars, modeVars, cache, blockVars, header, log_lock, outstanding,
                 semVars, opVars>>

Pin(b) == [pinned EXCEPT ![b] = TRUE]
LogLimit(p) == rm[p] <= 0 \/ Len(header) + 1 >= LOG_MAX_SIZE

\* cache_sync.  The new entry is stored before the two limits are tested; a
\* PANIC leaves log_lock held for ever.
cache_sync(p) ==
  LET b == cur[p] IN
  /\ At(p, "modified") /\ log_lock = None
  /\ pinned' = IF orphan[p] THEN pinned ELSE Pin(b)
  /\ IF Contains(header, b)
     THEN Goto(p, "synced") /\ UNCHANGED <<header, rm, log_lock>>
     ELSE /\ header' = Append(header, b)
          /\ IF LogLimit(p)
             THEN Goto(p, "panic") /\ log_lock' = p /\ UNCHANGED rm
             ELSE /\ rm' = [rm EXCEPT ![p] = @ - 1]
                  /\ Goto(p, "synced") /\ UNCHANGED log_lock
  /\ UNCHANGED <<diskVars, modeVars, cache, acquired, blocklock, outstanding, semVars, wrote,
                 curVars, idx>>

\* The flag is cleared, also when somebody waits for the block.
cache_release(p) ==
  /\ At(p, "synced")
  /\ IF orphan[p] THEN UNCHANGED <<acquired, blocklock>>
     ELSE /\ acquired' = [acquired EXCEPT ![cur[p]] = FALSE]
          /\ blocklock' = [blocklock EXCEPT ![cur[p]] = None]
  /\ cur' = [cur EXCEPT ![p] = None] /\ orphan' = [orphan EXCEPT ![p] = FALSE]
  /\ Goto(p, "op")
  /\ UNCHANGED <<diskVars, modeVars, cache, pinned, header, log_lock, outstanding,
                 semVars, rm, wrote, idx>>

-----------------------------------------------------------------------------
(* cache_end_op.                                                           *)

\* Other operations are running: post log_sem and return.
end_op_early(p) ==
  /\ At(p, "op") /\ log_lock = None
  /\ outstanding - 1 > 0
  /\ outstanding' = outstanding - 1
  /\ IF sleepers = <<>>
     THEN /\ permits < MaxPermits
          /\ permits' = permits + 1 /\ Goto(p, "idle") /\ UNCHANGED sleepers
     ELSE /\ sleepers' = Tail(sleepers) /\ UNCHANGED permits
          /\ pc' = [pc EXCEPT ![p] = "idle", ![Head(sleepers)] = "retry"]
  /\ UNCHANGED <<diskVars, modeVars, cache, blockVars, header, log_lock, opVars>>

end_op(p) ==
  /\ At(p, "op") /\ log_lock = None
  /\ outstanding - 1 <= 0
  /\ outstanding' = outstanding - 1
  /\ log_lock' = p
  /\ idx' = [idx EXCEPT ![p] = 1]
  /\ Goto(p, "copy")
  /\ UNCHANGED <<diskVars, modeVars, cache, blockVars, header, semVars,
                 rm, wrote, curVars>>

\* copy_block into the log, which acquires and releases the block, with log_lock
\* held all along.
end_op_copy(p) ==
  LET i == idx[p] IN
  /\ At(p, "copy") /\ i <= Len(header)
  /\ blocklock[header[i]] = None
  /\ logdisk' = [logdisk EXCEPT ![i] = cache[header[i]]]
  /\ acquired' = [acquired EXCEPT ![header[i]] = FALSE]
  /\ idx' = [idx EXCEPT ![p] = i + 1]
  /\ UNCHANGED <<disk, hdisk, modeVars, cache, pinned, blocklock, header, log_lock,
                 outstanding, semVars, pc, rm, wrote, curVars>>

\* Mutated form: the header is written before the log blocks.
end_op_write_header_first(p) ==
  /\ At(p, "copy") /\ hdisk # header
  /\ hdisk' = header
  /\ UNCHANGED <<disk, logdisk, modeVars, cache, blockVars, header, log_lock,
                 outstanding, semVars, pc, rm, wrote, curVars, idx>>

end_op_write_header(p) ==
  /\ At(p, "copy") /\ idx[p] > Len(header)
  /\ hdisk' = header
  /\ idx' = [idx EXCEPT ![p] = 1]
  /\ Goto(p, "install")
  /\ UNCHANGED <<disk, logdisk, modeVars, cache, blockVars, header, log_lock,
                 outstanding, semVars, rm, wrote, curVars>>

\* cache_acquire of the next block of the header; then log_lock is released.
end_op_acquire(p) ==
  LET b == header[idx[p]] IN
  /\ At(p, "install") /\ idx[p] <= Len(header)
  /\ blocklock[b] = None
  /\ acquired' = [acquired EXCEPT ![b] = TRUE]
  /\ blocklock' = [blocklock EXCEPT ![b] = p]
  /\ cur' = [cur EXCEPT ![p] = b]
  /\ log_lock' = None
  /\ Goto(p, "write")
  /\ UNCHANGED <<diskVars, modeVars, cache, pinned, header, outstanding, semVars,
                 rm, wrote, orphan, idx>>

end_op_write(p) ==
  /\ At(p, "write")
  /\ disk' = [disk EXCEPT ![cur[p]] = cache[cur[p]]]
  /\ Goto(p, "written")
  /\ UNCHANGED <<logdisk, hdisk, modeVars, cache, blockVars, header, log_lock,
                 outstanding, semVars, opVars>>

end_op_unpin(p) ==
  /\ At(p, "written") /\ log_lock = None
  /\ log_lock' = p
  /\ pinned' = [pinned EXCEPT ![cur[p]] = FALSE]
  /\ acquired' = [acquired EXCEPT ![cur[p]] = FALSE]
  /\ blocklock' = [blocklock EXCEPT ![cur[p]] = None]
  /\ cur' = [cur EXCEPT ![p] = None]
  /\ idx' = [idx EXCEPT ![p] = @ + 1]
  /\ Goto(p, "install")
  /\ UNCHANGED <<diskVars, modeVars, cache, header, outstanding, semVars, rm, wrote, orphan>>

\* The empty header is written; post_all_sem wakes every waiter and leaves
\* the value of log_sem as it was.
end_op_return(p) ==
  /\ At(p, "install") /\ idx[p] > Len(header)
  /\ header' = <<>> /\ hdisk' = <<>>
  /\ sleepers' = <<>>
  /\ pc' = [q \in Procs |-> IF q = p THEN "idle"
                            ELSE IF pc[q] = "asleep" THEN "retry" ELSE pc[q]]
  /\ log_lock' = None
  /\ UNCHANGED <<disk, logdisk, modeVars, cache, blockVars, outstanding, permits, opVars>>

-----------------------------------------------------------------------------

\* manage_block_num drops a block that is not marked as acquired and not pinned; the
\* next cache_acquire reads it from the disk again.  The mark may be missing while a
\* process has the block, or waits for it: that process keeps the struct.
evict(b) ==
  /\ mode = "up" /\ ~acquired[b] /\ ~pinned[b]
  /\ cache' = [cache EXCEPT ![b] = disk[b]]
  /\ blocklock' = [blocklock EXCEPT ![b] = None]
  /\ orphan' = [p \in Procs |-> orphan[p] \/ cur[p] = b]
  /\ UNCHANGED <<diskVars, modeVars, pinned, acquired, header, log_lock,
                 outstanding, semVars, pc, rm, wrote, cur, idx>>

\* The machine stops; init_bcache starts with read_header.
crash ==
  /\ Fresh(disk)
  /\ mode' = "recover"
  /\ header' = hdisk
  /\ idx' = [p \in Procs \cup {None} |-> 1]
  /\ UNCHANGED <<diskVars, clients>>

\* init_bcache copies the next log block home.
init_bcache_copy ==
  LET i == idx[None] IN
  /\ mode = "recover" /\ i <= Len(header)
  /\ disk' = [disk EXCEPT ![header[i]] = logdisk[i]]
  /\ cache' = [cache EXCEPT ![header[i]] = logdisk[i]]
  /\ idx' = [idx EXCEPT ![None] = i + 1]
  /\ UNCHANGED <<logdisk, hdisk, modeVars, blockVars, header, log_lock,
                 outstanding, semVars, pc, rm, wrote, curVars>>

init_bcache_done ==
  /\ mode = "recover" /\ idx[None] > Len(header)
  /\ header' = <<>> /\ hdisk' = <<>>
  /\ mode' = "up"
  /\ UNCHANGED <<clients, disk, logdisk, cache, blockVars, log_lock, outstanding,
                 semVars, pc, opVars>>

-----------------------------------------------------------------------------

\* A process inside a call of the cache.
Inside(p) ==
  \/ pc[p] = "retry" /\ begin_op(p)
  \/ begin_op_wait(p) \/ (\E v \in Written : modify(p, v)) \/ cache_sync(p) \/ cache_release(p)
  \/ end_op_copy(p) \/ end_op_write_header(p) \/ end_op_acquire(p)
  \/ end_op_write(p) \/ end_op_unpin(p) \/ end_op_return(p)

Ends(p) == end_op_early(p) \/ end_op(p)

Work ==
  \/ \E p \in clients :
       \/ pc[p] = "idle" /\ begin_op(p)
       \/ Inside(p) \/ Ends(p)
       \/ \E b \in Blocks : cache_acquire(p, b)
       \/ begin_op_killed(p) \/ acquire_killed(p)
  \/ \E b \in Blocks : evict(b)

Next == Work \/ crash \/ init_bcache_copy \/ init_bcache_done

Spec == Init /\ [][Next]_vars

-----------------------------------------------------------------------------

Running == {"op", "acquire", "modified", "synced"}
Stopped == {"panic", "killed", "dead"}
Committing == {"copy", "install", "write", "written"}

\* Type invariant.
TypeOK ==
  /\ disk \in [Blocks -> Values] /\ cache \in [Blocks -> Values]
  /\ logdisk \in [LogIndex -> Values]
  /\ header \in Seq(Blocks) /\ hdisk \in Seq(Blocks)
  /\ mode \in {"up", "recover"} /\ clients \subseteq Procs
  /\ pinned \in [Blocks -> BOOLEAN] /\ acquired \in [Blocks -> BOOLEAN]
  /\ blocklock \in [Blocks -> Procs \cup {None}]
  /\ log_lock \in Procs \cup {None}
  /\ outstanding \in Nat /\ permits \in Nat /\ sleepers \in Seq(Procs)
  /\ pc \in [Procs -> {"idle", "full", "asleep", "retry"} \cup Stopped \cup Running \cup Committing]
  /\ rm \in [Procs -> 0..OP_MAX_NUM_BLOCKS]
  /\ wrote \in [Procs -> SUBSET Blocks]
  /\ cur \in [Procs -> Blocks \cup {None}] /\ orphan \in [Procs -> BOOLEAN]
  /\ idx \in [Procs \cup {None} -> 1..(LOG_MAX_SIZE + 1)]

\* log.outstanding counts the operations that have not ended, those that a PANIC
\* stopped included, and the log keeps room for every entry they may still add, so
\* that it is never full: what begin_op reserves covers what cache_sync uses.  The
\* PANIC of cache_sync is met only by an operation that has used up its own share,
\* its entry then still has a place in the header, and with one client it is never
\* met (cache.c:139, 161-163).
LogCapacity ==
  LET stopped == {p \in Procs : pc[p] = "panic"}
      open == {p \in Procs : pc[p] \in Running \cup {"panic", "dead"}}
  IN mode = "up" =>
       /\ outstanding = Cardinality(open)
       /\ Len(header) + FoldSet(LAMBDA p, n : rm[p] + n, 0, open) < LOG_MAX_SIZE + Cardinality(stopped)
       /\ \A p \in stopped : rm[p] = 0 /\ Len(header) <= LOG_MAX_SIZE
       /\ Cardinality(clients) = 1 => stopped = {}

\* What init_bcache would make of the disk (cache.c:215-221).
Recovered ==
  [b \in Blocks |-> IF Contains(hdisk, b)
                    THEN logdisk[Max({i \in DOMAIN hdisk : hdisk[i] = b})] ELSE disk[b]]

(***************************************************************************)
(* The log implements atomic operations: what a crash leaves changes in    *)
(* one step of end_op, to all the writes of the operations that ended, and *)
(* neither an install nor a recovery, interrupted or not, changes it.      *)
(***************************************************************************)
Status(p) == IF pc[p] \in Running THEN "running"
             ELSE IF pc[p] \in Committing THEN "closing" ELSE "none"

Abs == INSTANCE AtomicDisk WITH
         stable <- Recovered,
         volatile <- IF mode = "up" THEN cache ELSE Recovered,
         status <- [p \in Procs |-> Status(p)]

\* A single client of the cache sees atomic, durable operations across crashes:
\* with one process every behaviour of the log is one of AtomicDisk
\* (cache.h:121-173).
AtomicOperations ==
  /\ Cardinality(clients) = 1 => Abs!AInit
  /\ [][Cardinality(clients) = 1 => Abs!ANext]_(Abs!aVars)

-----------------------------------------------------------------------------
(* What must eventually happen while the machine stays up.                 *)

\* A process does not stop inside the cache, gets a lock that is free again and
\* again, and ends the operations it begins; it need not begin another.
Fairness == \A p \in Procs : SF_vars(Inside(p)) /\ SF_vars(Ends(p))

UpSpec == Init /\ [][Work]_vars /\ Fairness

-----------------------------------------------------------------------------
(* What the repository says and the code does not do.                      *)

\* An operation is committed once it has ended (cache.h:123-126): what a crash
\* would leave does not change while an operation is running.
DurableWhenEnded ==
  [][(\E p \in Procs : pc[p] \in Running) => Recovered' = Recovered]_vars

\* "没有被任意进程（线程）acquire，未pin，则可以uncache掉" (cache.c:64): what is dropped
\* is acquired by nobody.
EvictsUnused == \A p \in Procs : ~orphan[p]

\* cache_sync panics "if the number of blocks associated with `ctx` is larger than
\* `OP_MAX_NUM_BLOCKS`" (cache.h:159-160), and no operation here has more.
SyncFits == \A p \in Procs : pc[p] # "panic"

\* begin_op sleeps "until we can start a new operation" (cache.h:135-137), as long as
\* no process has met a PANIC.
BeginOpReturns ==
  \A p \in Procs : pc[p] \in {"full", "asleep", "retry"} ~>
                      pc[p] \in Running \/ (\E q \in Procs : pc[q] \in Stopped)
=============================================================================
