----------------------------- MODULE AtomicDisk -----------------------------
(***************************************************************************)
(* What the block cache promises to the file system (fs/cache.h:121-173):  *)
(* the writes of an atomic operation become durable together, only after   *)
(* it has ended, and before end_op returns; a crash brings back the        *)
(* durable contents.                                                       *)
(***************************************************************************)
CONSTANTS Procs, Blocks, Values

VARIABLES
  stable,    \* what a crash now would leave
  volatile,  \* what the running system reads
  status     \* the atomic operation of each process

aVars == <<stable, volatile, status>>

AInit ==
  /\ stable \in [Blocks -> Values]
  /\ volatile = stable
  /\ status = [p \in Procs |-> "none"]

Begin(p) ==
  /\ status[p] = "none"
  /\ status' = [status EXCEPT ![p] = "running"]
  /\ UNCHANGED <<stable, volatile>>

Write(p, b, v) ==
  /\ status[p] = "running"
  /\ volatile' = [volatile EXCEPT ![b] = v]
  /\ UNCHANGED <<stable, status>>

Close(p) ==
  /\ status[p] = "running"
  /\ status' = [status EXCEPT ![p] = "closing"]
  /\ UNCHANGED <<stable, volatile>>

Commit ==
  /\ \A p \in Procs : status[p] # "running"
  /\ stable' = volatile
  /\ UNCHANGED <<volatile, status>>

Return(p) ==
  /\ status[p] = "closing"
  /\ stable = volatile
  /\ status' = [status EXCEPT ![p] = "none"]
  /\ UNCHANGED <<stable, volatile>>

Crash ==
  /\ volatile' = stable
  /\ status' = [p \in Procs |-> "none"]
  /\ UNCHANGED stable

ANext ==
  \/ Commit \/ Crash
  \/ \E p \in Procs : Begin(p) \/ Close(p) \/ Return(p)
  \/ \E p \in Procs, b \in Blocks, v \in Values : Write(p, b, v)

ASpec == AInit /\ [][ANext]_aVars
=============================================================================
