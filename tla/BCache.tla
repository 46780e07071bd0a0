------------------------------- MODULE BCache -------------------------------
(***************************************************************************)
(* The block cache below the log (fs/cache.c): cache_acquire with its      *)
(* lookup, load and eviction, and cache_release, run by processes that     *)
(* interleave wherever the cache's spinlock `lock` is released.            *)
(*                                                                         *)
(* A Block struct is a member of Bufs; kalloc takes one that is not        *)
(* allocated and kfree gives it back.  The data of a block is left out:    *)
(* what matters is who holds which struct for which block number.  A wait  *)
(* for a block's lock that fails because its process is killed is a PANIC  *)
(* (cache.c:96), which ends a behaviour and is left out.                   *)
(***************************************************************************)
EXTENDS Integers, FiniteSets, Sequences, SequencesExt, FiniteSetsExt

CONSTANTS
  Procs,
  BlockNos,            \* the blocks of the disk
  Bufs,                \* bound: the Block structs memory has room for
  EVICTION_THRESHOLD,  \* the soft limit of the cache (20)
  MaxHeld,             \* bound: the blocks a process holds at once
  None

VARIABLES
  list,       \* the list at head, most recently used first
  allocated,  \* the Block structs between kalloc and kfree
  block_no, acquired, pinned,   \* fields of every Block struct
  owner,      \* the process that has Block.lock, or None
  queue,      \* the processes waiting for Block.lock, oldest first
  block_num,  \* the cache's count of blocks
  pc,         \* where a process is in cache_acquire
  arg,        \* the argument of that call
  buf,        \* its acquired_block, or None
  held        \* the structs a process has acquired and not released

vars == <<list, allocated, block_no, acquired, pinned, owner, queue, block_num,
          pc, arg, buf, held>>

Init ==
  /\ list = <<>> /\ allocated = {} /\ block_num = 0
  /\ block_no = [b \in Bufs |-> None]
  /\ acquired = [b \in Bufs |-> FALSE] /\ pinned = [b \in Bufs |-> FALSE]
  /\ owner = [b \in Bufs |-> None] /\ queue = [b \in Bufs |-> <<>>]
  /\ pc = [p \in Procs |-> "idle"]
  /\ arg = [p \in Procs |-> None] /\ buf = [p \in Procs |-> None]
  /\ held = [p \in Procs |-> {}]

\* The block numbers p holds or is acquiring.
Uses(p) == {block_no[b] : b \in held[p]} \cup ({arg[p]} \ {None})

Detach(l, b) == SelectSeq(l, LAMBDA x : x # b)

-----------------------------------------------------------------------------
(* manage_block_num.                                                       *)

Evictable(b) == ~acquired[b] /\ ~pinned[b]

\* The least recently used blocks that may go, until the count is below the limit.
Victims ==
  LET ev == SelectSeq(list, Evictable)
      k == Min({Len(ev), Max({0, block_num - EVICTION_THRESHOLD + 1})})
  IN ToSet(SubSeq(ev, Len(ev) - k + 1, Len(ev)))

-----------------------------------------------------------------------------
(* cache_acquire.                                                          *)

\* What the callers respect: nobody acquires a block they already hold.
MayCall(p, n) ==
  /\ pc[p] = "idle" /\ Cardinality(held[p]) < MaxHeld
  /\ n \notin Uses(p)

\* The structs in the list that carry block number n.
Lookup(n) == {b \in ToSet(list) : block_no[b] = n}

\* The first struct of the list for n: it is marked and `lock` is released.
acquire_hit(p, n) ==
  /\ MayCall(p, n) /\ Lookup(n) # {}
  /\ LET b == list[Min({i \in DOMAIN list : list[i] \in Lookup(n)})]
     IN /\ acquired' = [acquired EXCEPT ![b] = TRUE]
        /\ buf' = [buf EXCEPT ![p] = b]
  /\ arg' = [arg EXCEPT ![p] = n]
  /\ pc' = [pc EXCEPT ![p] = "wait"]
  /\ UNCHANGED <<list, allocated, block_no, pinned, owner, queue, block_num, held>>

\* wait_sem(&acquired_block->lock).
acquire_wait(p) ==
  LET b == buf[p] IN
  /\ pc[p] = "wait"
  /\ IF owner[b] = None
     THEN /\ owner' = [owner EXCEPT ![b] = p]
          /\ pc' = [pc EXCEPT ![p] = "locked"] /\ UNCHANGED queue
     ELSE /\ queue' = [queue EXCEPT ![b] = Append(@, p)]
          /\ pc' = [pc EXCEPT ![p] = "asleep"] /\ UNCHANGED owner
  /\ UNCHANGED <<list, allocated, block_no, acquired, pinned, block_num, arg, buf, held>>

\* A call of cache_acquire returns the struct; the list is now l.
Returns(p, l) ==
  /\ list' = l
  /\ held' = [held EXCEPT ![p] = @ \cup {buf[p]}]
  /\ arg' = [arg EXCEPT ![p] = None] /\ buf' = [buf EXCEPT ![p] = None]
  /\ pc' = [pc EXCEPT ![p] = "idle"]
  /\ UNCHANGED <<allocated, block_no, acquired, pinned, owner, queue, block_num>>

acquire_front(p) ==
  /\ pc[p] = "locked"
  /\ Returns(p, <<buf[p]>> \o Detach(list, buf[p]))

\* Nothing in the list: evict, allocate, lock and count the new struct.
acquire_miss(p, n) ==
  /\ MayCall(p, n) /\ Lookup(n) = {}
  /\ \E b \in Bufs \ (allocated \ Victims) :
       /\ list' = SelectSeq(list, LAMBDA x : x \notin Victims)
       /\ allocated' = (allocated \ Victims) \cup {b}
       /\ block_num' = block_num - Cardinality(Victims) + 1
       /\ block_no' = [block_no EXCEPT ![b] = n]
       /\ acquired' = [acquired EXCEPT ![b] = TRUE]
       /\ pinned' = [pinned EXCEPT ![b] = FALSE]
       /\ owner' = [owner EXCEPT ![b] = p] /\ queue' = [queue EXCEPT ![b] = <<>>]
       /\ buf' = [buf EXCEPT ![p] = b]
  /\ arg' = [arg EXCEPT ![p] = n]
  /\ pc' = [pc EXCEPT ![p] = "read"]
  /\ UNCHANGED held

\* After device_read, which runs without `lock`: link the struct.
acquire_insert(p) ==
  /\ pc[p] = "read"
  /\ Returns(p, <<buf[p]>> \o list)

-----------------------------------------------------------------------------

\* cache_release: the lock goes to the oldest waiter.
cache_release(p, b) ==
  /\ pc[p] = "idle" /\ b \in held[p]
  /\ acquired' = [acquired EXCEPT ![b] = FALSE]
  /\ IF queue[b] = <<>>
     THEN owner' = [owner EXCEPT ![b] = None] /\ UNCHANGED <<queue, pc>>
     ELSE /\ owner' = [owner EXCEPT ![b] = Head(queue[b])]
          /\ queue' = [queue EXCEPT ![b] = Tail(@)]
          /\ pc' = [pc EXCEPT ![Head(queue[b])] = "locked"]
  /\ held' = [held EXCEPT ![p] = @ \ {b}]
  /\ UNCHANGED <<list, allocated, block_no, pinned, block_num, arg, buf>>

\* cache_sync pins a block its caller holds, cache_end_op unpins it.
pin(p, b) ==
  /\ pc[p] = "idle" /\ b \in held[p]
  /\ pinned' = [pinned EXCEPT ![b] = ~@]
  /\ UNCHANGED <<list, allocated, block_no, acquired, owner, queue, block_num,
                 pc, arg, buf, held>>

Next ==
  \E p \in Procs :
    \/ \E n \in BlockNos : acquire_hit(p, n) \/ acquire_miss(p, n)
    \/ acquire_wait(p) \/ acquire_front(p) \/ acquire_insert(p)
    \/ \E b \in Bufs : cache_release(p, b) \/ pin(p, b)

Spec == Init /\ [][Next]_vars

-----------------------------------------------------------------------------

\* Type invariant.
TypeOK ==
  /\ list \in Seq(Bufs) /\ allocated \subseteq Bufs /\ block_num \in Nat
  /\ block_no \in [Bufs -> BlockNos \cup {None}]
  /\ acquired \in [Bufs -> BOOLEAN] /\ pinned \in [Bufs -> BOOLEAN]
  /\ owner \in [Bufs -> Procs \cup {None}] /\ queue \in [Bufs -> Seq(Procs)]
  /\ pc \in [Procs -> {"idle", "wait", "asleep", "locked", "read"}]
  /\ arg \in [Procs -> BlockNos \cup {None}] /\ buf \in [Procs -> Bufs \cup {None}]
  /\ held \in [Procs -> SUBSET Bufs]
  /\ \A p \in Procs : pc[p] = "idle" <=> buf[p] = None

\* cache_acquire "locks the block so that the caller can exclusively modify it"
\* (cache.h:103-104): no two processes hold the same block.
ExclusiveAcquire ==
  \A p, q \in Procs : \A b \in held[p], d \in held[q] :
    block_no[b] = block_no[d] => p = q /\ b = d
=============================================================================
