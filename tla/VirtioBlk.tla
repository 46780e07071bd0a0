----------------------------- MODULE VirtioBlk -----------------------------
(***************************************************************************)
(* The disk driver (driver/virtio_blk.c): virtio_blk_rw, the free list of  *)
(* descriptors and the interrupt handler, with a device that completes     *)
(* requests in any order and may fail them.                                *)
(*                                                                         *)
(* Everything under the spinlock disk.lk is one action, but the interrupt  *)
(* handler, which the device runs beside, takes an action per iteration.   *)
(***************************************************************************)
EXTENDS Integers, FiniteSets, Sequences, SequencesExt

CONSTANTS
  Procs,   \* the processes that read and write blocks
  Killed,  \* those of them that are killed
  NQUEUE,  \* the number of descriptors (16)
  None

ASSUME VirtioAssumption == NQUEUE \in Nat \ {0} /\ Killed \subseteq Procs /\ None \notin Procs

Descs == 0 .. NQUEUE - 1

VARIABLES
  next, more,      \* virtq.desc[].next, and is VIRTQ_DESC_F_NEXT set in its flags?
  free_head, nfree,
  avail,           \* the chains the device has been given and not completed
  used,            \* the used ring from last_used_idx on
  info,            \* virtq.info[].buf: whose buffer the chain is for, or None
  status,          \* virtq.info[].status: 0, or the device could not do it
  irq,             \* the device's interrupt is pending
  lk,              \* disk.lk: "free", "intr" (the handler has it), "panic" (had by who panicked)
  d0,              \* the local variable of virtio_blk_rw
  sem,             \* Buf.sem
  pc

descVars == <<next, more, free_head, nfree>>
vars == <<descVars, avail, used, info, status, irq, lk, d0, sem, pc>>

\* virtq_init and desc_init.
Init ==
  /\ next = [d \in Descs |-> IF d < NQUEUE - 1 THEN d + 1 ELSE 0]
  /\ more = [d \in Descs |-> d < NQUEUE - 1]
  /\ free_head = 0 /\ nfree = NQUEUE
  /\ avail = {} /\ used = <<>>
  /\ info = [d \in Descs |-> None] /\ status = [d \in Descs |-> 0]
  /\ irq = FALSE /\ lk = "free"
  /\ d0 = [p \in Procs |-> 0]
  /\ sem = [p \in Procs |-> 0]
  /\ pc = [p \in Procs |-> "idle"]

-----------------------------------------------------------------------------
(* virtio_blk_rw.                                                          *)

\* What free_head becomes when alloc_desc takes d.
AfterAlloc(d) == IF more[d] THEN next[d] ELSE d

\* alloc_desc finds no descriptor for one of the three calls.
Short == nfree < 3

\* Three descriptors are allocated and chained, the chain is made available.
rw_submit(p) ==
  LET a == free_head
      b == AfterAlloc(a)
      c == AfterAlloc(b)
  IN /\ pc[p] = "idle" /\ lk = "free" /\ ~Short
     /\ free_head' = AfterAlloc(c) /\ nfree' = nfree - 3
     /\ next' = [next EXCEPT ![a] = b, ![b] = c, ![c] = 0]
     /\ more' = [more EXCEPT ![a] = TRUE, ![b] = TRUE, ![c] = FALSE]
     /\ avail' = avail \cup {a}
     /\ info' = [info EXCEPT ![a] = p]
     /\ d0' = [d0 EXCEPT ![p] = a]
     /\ sem' = [sem EXCEPT ![p] = 0]
     /\ pc' = [pc EXCEPT ![p] = "wait"]
     /\ UNCHANGED <<status, used, irq, lk>>

\* Otherwise PANIC, with disk.lk held.
rw_panic(p) ==
  /\ pc[p] = "idle" /\ lk = "free" /\ Short
  /\ lk' = "panic"
  /\ pc' = [pc EXCEPT ![p] = "panic"]
  /\ UNCHANGED <<status, descVars, avail, used, info, irq, d0, sem>>

\* Mutated form: the caller does not wait.
rw_wait_not(p) ==
  /\ pc[p] = "wait"
  /\ pc' = [pc EXCEPT ![p] = "done"]
  /\ UNCHANGED <<status, descVars, avail, used, info, irq, lk, d0, sem>>

\* _wait_sem returns.
rw_wait(p) ==
  /\ pc[p] = "wait" /\ sem[p] > 0
  /\ sem' = [sem EXCEPT ![p] = @ - 1]
  /\ pc' = [pc EXCEPT ![p] = "done"]
  /\ UNCHANGED <<status, descVars, avail, used, info, irq, lk, d0>>

\* _wait_sem is interrupted: PANIC, with the request still at the device.
rw_alerted(p) ==
  /\ pc[p] = "wait" /\ sem[p] = 0 /\ p \in Killed
  /\ pc' = [pc EXCEPT ![p] = "alerted"]
  /\ UNCHANGED <<status, descVars, avail, used, info, irq, lk, d0, sem>>

\* The chain that starts at d has three members.
Chain(d) == <<d, next[d], next[next[d]]>>

\* Mutated form: the chain is put before the free list without being linked to it.
LinkTail_not(d) == next

\* The links once free_desc has put the chain at d before the free list.
LinkTail(d) ==
  IF nfree = 0 THEN next ELSE [next EXCEPT ![Chain(d)[3]] = free_head]

\* Free the chain and return.
rw_return(p) ==
  LET d == d0[p] IN
  /\ pc[p] = "done" /\ lk = "free"
  /\ next' = LinkTail(d)
  /\ more' = [more EXCEPT ![Chain(d)[3]] = TRUE]
  /\ free_head' = d /\ nfree' = nfree + 3
  /\ pc' = [pc EXCEPT ![p] = "idle"]
  /\ UNCHANGED <<status, avail, used, info, irq, lk, d0, sem>>

-----------------------------------------------------------------------------
(* The device and the interrupt.                                           *)

complete(d) ==
  /\ d \in avail
  /\ avail' = avail \ {d}
  /\ used' = Append(used, d)
  /\ \E s \in {0, 1} : status' = [status EXCEPT ![d] = s]
  /\ irq' = TRUE
  /\ UNCHANGED <<descVars, info, lk, d0, sem, pc>>

\* virtio_blk_intr takes the lock and acknowledges the interrupt.
intr_enter ==
  /\ irq /\ lk = "free"
  /\ irq' = FALSE /\ lk' = "intr"
  /\ UNCHANGED <<status, descVars, avail, used, info, d0, sem, pc>>

\* One completion: wake its process.
intr_loop ==
  /\ lk = "intr" /\ used # <<>> /\ status[Head(used)] = 0
  /\ sem' = [sem EXCEPT ![info[Head(used)]] = @ + 1]
  /\ info' = [info EXCEPT ![Head(used)] = None]
  /\ used' = Tail(used)
  /\ UNCHANGED <<status, descVars, avail, irq, lk, d0, pc>>

\* A request failed: PANIC, with disk.lk held.
intr_panic ==
  /\ lk = "intr" /\ used # <<>> /\ status[Head(used)] # 0
  /\ lk' = "panic"
  /\ UNCHANGED <<status, descVars, avail, used, info, irq, d0, sem, pc>>

\* Mutated form: the loop may end before all completions are served.
intr_exit_early ==
  /\ lk = "intr" /\ lk' = "free"
  /\ UNCHANGED <<status, descVars, avail, used, info, irq, d0, sem, pc>>

intr_exit ==
  /\ lk = "intr" /\ used = <<>> /\ lk' = "free"
  /\ UNCHANGED <<status, descVars, avail, used, info, irq, d0, sem, pc>>

Next ==
  \/ \E p \in Procs : rw_submit(p) \/ rw_panic(p) \/ rw_wait(p)
                      \/ rw_alerted(p) \/ rw_return(p)
  \/ \E d \in Descs : complete(d)
  \/ intr_enter \/ intr_loop \/ intr_panic \/ intr_exit

Spec == Init /\ [][Next]_vars

\* The driver and the handler go on when they can; the device completes every request.
Fairness ==
  /\ \A p \in Procs : WF_vars(rw_wait(p)) /\ SF_vars(rw_return(p))
  /\ \A d \in Descs : WF_vars(complete(d))
  /\ SF_vars(intr_enter) /\ WF_vars(intr_loop) /\ WF_vars(intr_panic) /\ WF_vars(intr_exit)

LiveSpec == Spec /\ Fairness

-----------------------------------------------------------------------------

\* Type invariant.
TypeOK ==
  /\ next \in [Descs -> Descs] /\ more \in [Descs -> BOOLEAN]
  /\ free_head \in Descs /\ nfree \in 0 .. NQUEUE
  /\ avail \subseteq Descs /\ used \in Seq(Descs)
  /\ info \in [Descs -> Procs \cup {None}] /\ status \in [Descs -> {0, 1}]
  /\ irq \in BOOLEAN /\ lk \in {"free", "intr", "panic"}
  /\ d0 \in [Procs -> Descs] /\ sem \in [Procs -> 0..1]
  /\ pc \in [Procs -> {"idle", "wait", "done", "alerted", "panic"}]

\* The processes whose request holds a chain.
Busy == {p \in Procs : pc[p] \in {"wait", "done", "alerted"}}

\* The k-th descriptor of the free list.
FreeList[k \in 1 .. NQUEUE] ==
  IF k = 1 THEN free_head ELSE next[FreeList[k - 1]]

\* The free list and the chains of the requests in flight never share a
\* descriptor and never lose one, however allocations and frees interleave, and
\* a chain ends at its third descriptor (virtio_blk.c:25-44, 59-79, 100).
DescPartition ==
  LET free == {FreeList[k] : k \in 1 .. nfree}
      chain(p) == {Chain(d0[p])[k] : k \in 1..3}
  IN /\ Cardinality(free) = nfree
     /\ free \cup UNION {chain(p) : p \in Busy} = Descs
     /\ nfree + 3 * Cardinality(Busy) = NQUEUE
     /\ \A k \in 1 .. nfree - 1 : more[FreeList[k]]
     /\ \A p \in Busy : /\ more[d0[p]] /\ more[next[d0[p]]]
                        /\ ~more[Chain(d0[p])[3]]

\* The device only works for a process that waits for it (or has panicked while it
\* waited), each completion finds the buffer of that process, and a process goes on
\* (its header and buffer are on its stack) only when the device has done with its
\* chain (virtio_blk.c:81-100, 111-125).
CompletionMatches ==
  /\ \A d \in avail \cup ToSet(used) :
       info[d] # None /\ pc[info[d]] \in {"wait", "alerted"} /\ sem[info[d]] = 0 /\ d0[info[d]] = d
  /\ IsInjective(used) /\ avail \cap ToSet(used) = {}

\* Every request returns unless the kernel panics: no completion is left in the
\* used ring because its interrupt was acknowledged for another one
\* (virtio_blk.c:94, 105-126).
RequestReturns ==
  \A p \in Procs : pc[p] = "wait" ~> pc[p] = "idle" \/ lk = "panic" \/ \E q \in Procs : pc[q] = "alerted"
=============================================================================
