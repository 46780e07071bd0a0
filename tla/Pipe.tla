-------------------------------- MODULE Pipe --------------------------------
(***************************************************************************)
(* Pipes (fs/pipe.c): pipe_write, pipe_read and pipe_close.  Each byte is  *)
(* two steps, the increment of the counter and the access of its slot,     *)
(* because pipe_write and pipe_read go on without the pipe's spinlock once *)
(* they have waited.  release_spinlock does not look at the holder, so a   *)
(* release by such a process frees the lock whoever has it.                *)
(*                                                                         *)
(* The two counters are u32 in the code; here they count modulo Word, a    *)
(* multiple of PIPE_SIZE as 2^32 is of 512.                                *)
(***************************************************************************)
EXTENDS Integers, FiniteSets, Sequences

CONSTANTS
  Readers, Writers,  \* the processes that have one end or the other
  Bytes,
  PIPE_SIZE,         \* the capacity (512)
  Word,              \* what the counters count modulo (2^32)
  MaxN,              \* bound: the bytes of one call
  MaxPermits,        \* bound: units in a semaphore when a call begins
  None

ASSUME PipeAssumption ==
  /\ PIPE_SIZE \in Nat \ {0} /\ Word \in Nat
  /\ Word > PIPE_SIZE /\ Word % PIPE_SIZE = 0
  /\ MaxN \in Nat \ {0} /\ MaxPermits \in Nat
  /\ Readers \cap Writers = {} /\ None \notin Readers \cup Writers \cup Bytes

Procs == Readers \cup Writers

VARIABLES
  data, nread, nwrite, readopen, writeopen,   \* the fields of Pipe
  lock,    \* who took Pipe.lock last and nobody has released it since, or None
  rlock, wlock,   \* the semaphores: a value and the waiters, oldest first
  pc,
  n, i,    \* the argument n of a call, and its loop variable, 0 outside of calls
  slot,    \* the slot of the byte a process is copying, 0 outside of that
  killed,  \* Proc.killed
  last,    \* the last byte pipe_read has stored, or None
  freed    \* how often the memory of the pipe was freed

fields == <<data, nread, nwrite, readopen, writeopen>>
calls == <<n, i, slot>>
vars == <<fields, lock, rlock, wlock, pc, calls, killed, last, freed>>

Sem == [val |-> 0, waiters |-> <<>>]

Init ==
  /\ \E b \in Bytes : data = [k \in 0 .. PIPE_SIZE - 1 |-> b]
  /\ nread = 0 /\ nwrite = 0 /\ readopen = TRUE /\ writeopen = TRUE
  /\ lock = None /\ rlock = Sem /\ wlock = Sem
  /\ pc = [p \in Procs |-> "idle"]
  /\ n = [p \in Procs |-> 0] /\ i = [p \in Procs |-> 0]
  /\ slot = [p \in Procs |-> 0] /\ killed = [p \in Procs |-> FALSE]
  /\ last = None /\ freed = 0

\* Mutated form: a post without a waiter leaves no unit.
Post_none(s) == IF s.waiters = <<>> THEN s ELSE [s EXCEPT !.waiters = Tail(@)]

\* The semaphore after a post, and the program counters when p goes to where.
Post(s) == IF s.waiters = <<>> THEN [s EXCEPT !.val = @ + 1]
           ELSE [s EXCEPT !.waiters = Tail(@)]
Wake(s, p, where, woken) ==
  pc' = [q \in Procs |-> IF q = p THEN where
                         ELSE IF s.waiters # <<>> /\ q = Head(s.waiters) THEN woken ELSE pc[q]]

Return(p) == n' = [n EXCEPT ![p] = 0] /\ i' = [i EXCEPT ![p] = 0]
Goto(p, where) == pc' = [pc EXCEPT ![p] = where]

\* unalertable_wait_sem(s): without a unit p sleeps, or, killed, fails the ASSERT.
Unit(s) == [s EXCEPT !.val = @ - 1]
Queued(s, p) == [s EXCEPT !.waiters = Append(@, p)]

-----------------------------------------------------------------------------
(* pipe_write.                                                             *)

\* Mutated form: the limit is one too high.
Full_late == nwrite = (nread + PIPE_SIZE + 1) % Word

Full == nwrite = (nread + PIPE_SIZE) % Word

write_enter(p, k) ==
  /\ pc[p] = "idle" /\ writeopen /\ rlock.val < MaxPermits
  /\ lock = None /\ lock' = p
  /\ n' = [n EXCEPT ![p] = k] /\ i' = [i EXCEPT ![p] = 0]
  /\ Goto(p, "write")
  /\ UNCHANGED <<fields, rlock, wlock, slot, killed, last, freed>>

\* pi->nwrite++ ...
write_index(p) ==
  /\ pc[p] = "write" /\ i[p] < n[p] /\ ~Full
  /\ slot' = [slot EXCEPT ![p] = nwrite % PIPE_SIZE]
  /\ nwrite' = (nwrite + 1) % Word
  /\ Goto(p, "store")
  /\ UNCHANGED <<data, nread, readopen, writeopen, lock, rlock, wlock, n, i, killed, last, freed>>

\* ... and the byte is stored in its slot.
write_byte(p, b) ==
  /\ pc[p] = "store"
  /\ data' = [data EXCEPT ![slot[p]] = b]
  /\ i' = [i EXCEPT ![p] = @ + 1] /\ slot' = [slot EXCEPT ![p] = 0]
  /\ Goto(p, "write")
  /\ UNCHANGED <<nread, nwrite, readopen, writeopen, lock, rlock, wlock, n, killed, last, freed>>

\* The pipe is full: give up, or wake a reader and go to wait.
write_full(p) ==
  /\ pc[p] = "write" /\ i[p] < n[p] /\ Full
  /\ lock' = None
  /\ IF ~readopen \/ killed[p]
     THEN Goto(p, "idle") /\ Return(p) /\ UNCHANGED rlock
     ELSE rlock' = Post(rlock) /\ Wake(rlock, p, "wwait", "read") /\ UNCHANGED <<n, i>>
  /\ UNCHANGED <<fields, wlock, slot, killed, last, freed>>

\* unalertable_wait_sem(&pi->wlock); the lock is not taken again.
write_wait(p) ==
  /\ pc[p] = "wwait"
  /\ IF wlock.val > 0 THEN wlock' = Unit(wlock) /\ Goto(p, "write")
     ELSE IF killed[p] THEN Goto(p, "panic") /\ UNCHANGED wlock
     ELSE wlock' = Queued(wlock, p) /\ Goto(p, "wsleep")
  /\ UNCHANGED <<fields, lock, rlock, calls, killed, last, freed>>

write_return(p) ==
  /\ pc[p] = "write" /\ i[p] = n[p]
  /\ rlock' = Post(rlock) /\ Wake(rlock, p, "idle", "read")
  /\ lock' = None /\ Return(p)
  /\ UNCHANGED <<fields, wlock, slot, killed, last, freed>>

-----------------------------------------------------------------------------
(* pipe_read.                                                              *)

Empty == nread = nwrite

read_enter(p, k) ==
  /\ pc[p] = "idle" /\ readopen /\ wlock.val < MaxPermits
  /\ lock = None /\ lock' = p
  /\ n' = [n EXCEPT ![p] = k] /\ i' = [i EXCEPT ![p] = 0]
  /\ Goto(p, "read")
  /\ UNCHANGED <<fields, rlock, wlock, slot, killed, last, freed>>

MustWait == Empty /\ writeopen

\* Nothing to read yet: give up if killed, or go to wait.
read_empty(p) ==
  /\ pc[p] = "read" /\ MustWait
  /\ lock' = None
  /\ IF killed[p] THEN Goto(p, "idle") /\ Return(p) ELSE Goto(p, "rwait") /\ UNCHANGED <<n, i>>
  /\ UNCHANGED <<fields, rlock, wlock, slot, killed, last, freed>>

\* unalertable_wait_sem(&pi->rlock); the lock is not taken again.
read_wait(p) ==
  /\ pc[p] = "rwait"
  /\ IF rlock.val > 0 THEN rlock' = Unit(rlock) /\ Goto(p, "read")
     ELSE IF killed[p] THEN Goto(p, "panic") /\ UNCHANGED rlock
     ELSE rlock' = Queued(rlock, p) /\ Goto(p, "rsleep")
  /\ UNCHANGED <<fields, lock, wlock, calls, killed, last, freed>>

read_start(p) ==
  /\ pc[p] = "read" /\ ~MustWait
  /\ Goto(p, "copy")
  /\ UNCHANGED <<fields, lock, rlock, wlock, calls, killed, last, freed>>

\* pi->nread++ ...
read_index(p) ==
  /\ pc[p] = "copy" /\ i[p] < n[p] /\ ~Empty
  /\ slot' = [slot EXCEPT ![p] = nread % PIPE_SIZE]
  /\ nread' = (nread + 1) % Word
  /\ Goto(p, "load")
  /\ UNCHANGED <<data, nwrite, readopen, writeopen, lock, rlock, wlock, n, i, killed, last, freed>>

\* ... and the byte is loaded from its slot.
read_byte(p) ==
  /\ pc[p] = "load"
  /\ last' = data[slot[p]]
  /\ i' = [i EXCEPT ![p] = @ + 1] /\ slot' = [slot EXCEPT ![p] = 0]
  /\ Goto(p, "copy")
  /\ UNCHANGED <<fields, lock, rlock, wlock, n, killed, freed>>

read_return(p) ==
  /\ pc[p] = "copy" /\ (i[p] = n[p] \/ Empty)
  /\ wlock' = Post(wlock) /\ Wake(wlock, p, "idle", "write")
  /\ lock' = None /\ Return(p)
  /\ UNCHANGED <<fields, rlock, slot, killed, last, freed>>

-----------------------------------------------------------------------------
(* pipe_close, called by file_close for the last process of an end; an end *)
(* that several processes share stays open.                                *)

close_write(p) ==
  /\ pc[p] = "idle" /\ Writers = {p}
  /\ lock = None
  /\ writeopen' = FALSE
  /\ rlock' = Post(rlock) /\ Wake(rlock, p, "closed", "read")
  /\ UNCHANGED <<data, nread, nwrite, readopen, lock, wlock, calls, killed, last, freed>>

close_read(p) ==
  /\ pc[p] = "idle" /\ Readers = {p}
  /\ lock = None
  /\ readopen' = FALSE
  /\ wlock' = Post(wlock) /\ Wake(wlock, p, "closed", "write")
  /\ UNCHANGED <<data, nread, nwrite, writeopen, lock, rlock, calls, killed, last, freed>>

\* After the lock is released: free the pipe if both ends are closed.
close_free(p) ==
  /\ pc[p] = "closed"
  /\ freed' = IF ~readopen /\ ~writeopen THEN freed + 1 ELSE freed
  /\ Goto(p, "gone")
  /\ UNCHANGED <<fields, lock, rlock, wlock, calls, killed, last>>

\* kill(p) marks the process; a deep sleeper is not woken.
kill(p) ==
  /\ pc[p] # "gone"
  /\ killed' = [killed EXCEPT ![p] = TRUE]
  /\ UNCHANGED <<fields, lock, rlock, wlock, pc, calls, last, freed>>

\* pipe_alloc, once the old pipe is gone.
pipe_alloc ==
  /\ \A p \in Procs : pc[p] = "gone"
  /\ \E b \in Bytes : data' = [k \in 0 .. PIPE_SIZE - 1 |-> b]
  /\ nread' = 0 /\ nwrite' = 0 /\ readopen' = TRUE /\ writeopen' = TRUE
  /\ lock' = None /\ rlock' = Sem /\ wlock' = Sem
  /\ pc' = [p \in Procs |-> "idle"]
  /\ n' = [p \in Procs |-> 0] /\ i' = [p \in Procs |-> 0]
  /\ slot' = [p \in Procs |-> 0] /\ killed' = [p \in Procs |-> FALSE]
  /\ last' = None /\ freed' = 0

-----------------------------------------------------------------------------

WriteStep(p) ==
  \/ \E b \in Bytes : write_byte(p, b)
  \/ write_index(p) \/ write_full(p) \/ write_wait(p) \/ write_return(p)
ReadStep(p) ==
  \/ read_empty(p) \/ read_wait(p) \/ read_start(p)
  \/ read_index(p) \/ read_byte(p) \/ read_return(p)

Next ==
  \/ \E p \in Writers :
       WriteStep(p) \/ close_write(p) \/ \E k \in 1..MaxN : write_enter(p, k)
  \/ \E p \in Readers :
       ReadStep(p) \/ close_read(p) \/ \E k \in 1..MaxN : read_enter(p, k)
  \/ \E p \in Procs : close_free(p) \/ kill(p)
  \/ pipe_alloc

Spec == Init /\ [][Next]_vars

-----------------------------------------------------------------------------

\* Type invariant.
TypeOK ==
  /\ data \in [0 .. PIPE_SIZE - 1 -> Bytes]
  /\ nread \in 0 .. Word - 1 /\ nwrite \in 0 .. Word - 1
  /\ (nwrite - nread) % Word \in 0 .. PIPE_SIZE
  /\ readopen \in BOOLEAN /\ writeopen \in BOOLEAN
  /\ lock \in Procs \cup {None}
  /\ rlock \in [val : Nat, waiters : Seq(Readers)]
  /\ wlock \in [val : Nat, waiters : Seq(Writers)]
  /\ pc \in [Procs -> {"idle", "write", "store", "wwait", "wsleep", "read", "rwait", "rsleep",
                       "copy", "load", "closed", "gone", "panic"}]
  /\ n \in [Procs -> 0..MaxN] /\ i \in [Procs -> 0..MaxN]
  /\ slot \in [Procs -> 0 .. PIPE_SIZE - 1]
  /\ killed \in [Procs -> BOOLEAN] /\ last \in Bytes \cup {None} /\ freed \in 0..2

At(where) == Cardinality({p \in Procs : pc[p] = where})

\* The bytes that are stored and not yet loaded, oldest first.
Content ==
  LET first == nread - At("load") IN
  [k \in 1 .. (nwrite - At("store") - first) % Word |-> data[(first + k - 1) % PIPE_SIZE]]

Abs == INSTANCE Fifo WITH queue <- Content, Size <- PIPE_SIZE, NoByte <- None

\* One end has passed the other within a byte: the reader a byte that is counted and
\* not stored, or the writer a slot that is counted as read and not loaded.
Overrun == (Empty /\ At("store") > 0) \/ (Full /\ At("load") > 0)

\* With one reader and one writer a pipe is a bounded FIFO queue, also where they
\* run without the lock and across the wrap of the counters, as long as neither passes
\* the other within a byte (pipe.c:66-79, 89-102).
FifoUnlessOverrun == Abs!FInit /\ [][~Overrun /\ ~Overrun' => Abs!FNext]_(Abs!fVars)

\* A process does not stop inside pipe_read and pipe_write.
Fairness ==
  /\ \A p \in Writers : SF_vars(WriteStep(p))
  /\ \A p \in Readers : SF_vars(ReadStep(p))

LiveSpec == Spec /\ Fairness

Undisturbed == \A p \in Procs : ~killed[p]

\* Neither end sleeps on, a reader while there are bytes or the write end is closed, a
\* writer while there is room or the read end is closed, unless a process was killed
\* inside the pipe (pipe.c:55-56, 67-80, 89-103).
EndsWoken ==
  /\ \A p \in Readers : (pc[p] = "rsleep" /\ ~MustWait) ~> (pc[p] # "rsleep" \/ ~Undisturbed)
  /\ \A p \in Writers :
       (pc[p] = "wsleep" /\ (~Full \/ ~readopen)) ~> (pc[p] # "wsleep" \/ ~Undisturbed)

-----------------------------------------------------------------------------
(* What one would expect of a pipe, and the code does not do.              *)

\* The bytes are read as they were written; a pipe counts the "Number of bytes read" and
\* the "Number of bytes written" (pipe.h:14-15).
PipeIsFifo == Abs!FSpec

\* A read waits while the pipe is empty and the write end not closed (the comment of
\* pipe.c:90); so a read that returns nothing has met the end of the data.  Not so with
\* two readers.
EofMeansClosed ==
  [][\A p \in Readers : pc[p] = "copy" /\ pc'[p] = "idle" /\ i[p] = 0
        => ~writeopen /\ Empty]_vars
=============================================================================
