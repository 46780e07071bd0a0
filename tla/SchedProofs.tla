----------------------------- MODULE SchedProofs -----------------------------
(***************************************************************************)
(* The theorems about module Sched.                                        *)
(***************************************************************************)
EXTENDS SchedCpuSteps, SchedSemSteps

-----------------------------------------------------------------------------
(* The theorems.                                                           *)

\* The state the kernel starts in satisfies the invariant.
LEMMA InitInv == Init => IInv
<1> SUFFICES ASSUME Init PROVE IInv
  OBVIOUS
<1> USE SchedAssumption DEF Init, Threads, Sems
<1>1. TypeOK
  <2>1. <<Root>> \in Seq(Procs) /\ <<>> \in Seq(Procs)
    OBVIOUS
  <2>2. rq \in Seq(Procs) /\ sleeplist \in [Sems -> Seq(Procs)]
    BY <2>1
  <2>3. state \in [Threads -> ProcState] /\ newstate \in [Threads -> ProcState]
    BY DEF ProcState
  <2>4. phase \in [Threads -> Phase] /\ val \in [Sems -> Int]
        /\ timeload \in [Procs -> 0..MIN_LOAD]
    BY DEF Phase
  <2> QED BY <2>2, <2>3, <2>4 DEF TypeOK
<1>2. AlertInv
  BY DEF AlertInv
<1>3. CpuInv
  BY DEF CpuInv, KernelStackExclusive
<1>4. RunQueueExact
  BY DEF RunQueueExact, IsInjective, Contains
<1>5. WaitInv
  BY DEF WaitInv, IsInjective, Contains, SemCount
<1>6. MutualExclusion
  BY DEF MutualExclusion, Owners
<1>7. SleepInv /\ KilledNotAsleep
  BY DEF SleepInv, KilledNotAsleep
<1> QED BY <1>1, <1>2, <1>3, <1>4, <1>5, <1>6, <1>7 DEF IInv

\* The invariant holds in every reachable state.
THEOREM Invariance == Spec => []IInv
<1>1. IInv /\ [Next]_vars => IInv'
  BY TypeStep, AlertStep, CpuStep, QueueStep, WaitStep, MutexStep, SleepStep, KilledStep
     DEF IInv
<1> QED BY <1>1, InitInv, PTL DEF Spec

\* Every variable has its type.
THEOREM TypeCorrect == Spec => []TypeOK
<1>1. IInv => TypeOK
  BY DEF IInv
<1> QED BY <1>1, Invariance, PTL

\* rq holds exactly the runnable and running processes (sched.c).
THEOREM RunQueueIsExact == Spec => []RunQueueExact
<1>1. IInv => RunQueueExact
  BY DEF IInv
<1> QED BY <1>1, Invariance, PTL

\* No two CPUs execute on one kernel stack (sched()).
THEOREM StacksAreExclusive == Spec => []KernelStackExclusive
<1>1. IInv => KernelStackExclusive
  BY DEF IInv, CpuInv
<1> QED BY <1>1, Invariance, PTL

\* A negative value counts the waiters (_wait_sem, _post_sem).
THEOREM SemaphoresCount == Spec => []SemCount
<1>1. IInv => SemCount
  BY DEF IInv, WaitInv
<1> QED BY <1>1, Invariance, PTL

\* A sleep lock has at most one owner (acquire_sleeplock, release_sleeplock).
THEOREM SleepLocksExclude == Spec => []MutualExclusion
<1>1. IInv => MutualExclusion
  BY DEF IInv
<1> QED BY <1>1, Invariance, PTL

\* No wakeup is lost between queueing a WaitData and the context switch.
THEOREM WakeupsAreNotLost == Spec => []NoLostWakeup
<1>1. IInv => NoLostWakeup
  BY DEF IInv, SleepInv, WaitInv, NoLostWakeup, TypeOK
<1> QED BY <1>1, Invariance, PTL

\* kill() never leaves its victim in an alertable sleep.
THEOREM KillReachesSleepers == Spec => []KilledNotAsleep
<1>1. IInv => KilledNotAsleep
  BY DEF IInv
<1> QED BY <1>1, Invariance, PTL

\* The ASSERTs of sched(), _wait_sem and _post_sem never fail.
THEOREM AssertionsHold == Spec => []AssertsHold
<1>1. IInv => AssertsHold
  <2> SUFFICES ASSUME IInv PROVE AssertsHold
    OBVIOUS
  <2>1. \A c \in Cpus : phase[stack[c]] = "sched" => state[stack[c]] = "RUNNING"
    BY DEF IInv, CpuInv
  <2>2. \A c \in Cpus : thisproc[c] # c => state[c] = "RUNNABLE"
    BY DEF IInv, CpuInv
  <2>3. ASSUME NEW p \in Procs, phase[p] = "woken", ~up[p]
        PROVE  val[waiting[p]] + 1 <= 0
    <3>1. waiting[p] \in Sems /\ val[waiting[p]] \in Int
      BY <2>3 DEF IInv, WaitInv, TypeOK
    <3>2. val[waiting[p]] < 0
      BY <3>1, <2>3, WaiterCounted DEF IInv
    <3> QED BY <3>1, <3>2
  <2>4. ASSUME NEW s \in Sems, val[s] < 0 PROVE sleeplist[s] # <<>>
    <3>1. val[s] \in Int /\ Len(sleeplist[s]) = -val[s]
      BY <2>4 DEF IInv, TypeOK, WaitInv, SemCount
    <3> QED BY <3>1, <2>4
  <2> QED BY <2>1, <2>2, <2>3, <2>4 DEF AssertsHold
<1> QED BY <1>1, Invariance, PTL
=============================================================================
