---------------------------- MODULE SchedCpuSteps ----------------------------
(***************************************************************************)
(* Every step of module Sched preserves the part of the invariant that is  *)
(* about types, the CPUs and the run queue.                                *)
(***************************************************************************)
EXTENDS SchedInv

-----------------------------------------------------------------------------
(* Every step preserves the invariant: types.                              *)

\* Every variable keeps its type.
LEMMA TypeStep ==
  ASSUME IInv, [Next]_vars
  PROVE  TypeOK'
<1> USE SchedAssumption DEF TypeOK, ProcState, Phase, Threads, Sems
<1>0. TypeOK
  BY DEF IInv
<1>1. ASSUME NEW c \in Cpus, acquire_sched_lock(c)
      PROVE  TypeOK'
  BY <1>1, <1>0 DEF acquire_sched_lock, semVars, At
<1>2. ASSUME NEW c \in Cpus, sched_return(c)
      PROVE  TypeOK'
  BY <1>2, <1>0 DEF sched_return, semVars, At, AfterSched
<1>3. ASSUME NEW c \in Cpus, sched(c)
      PROVE  TypeOK'
  <2>1. PICK t \in Threads, next \in Threads : Switch(c, t, next)
    BY <1>3, SchedFacts
  <2>2. rq' \in Seq(Procs)
    BY <2>1, RunQueueUpdate DEF Switch
  <2>3. timeload' \in [Procs -> 0..MIN_LOAD]
    BY <2>1, <1>0 DEF Switch
  <2> QED BY <2>1, <2>2, <2>3, <1>0 DEF Switch, semVars
<1>4. ASSUME NEW c \in Cpus, swtch(c)
      PROVE  TypeOK'
  BY <1>4, <1>0 DEF swtch, semVars, AfterSched
<1>5. ASSUME NEW c \in Cpus, yield(c)
      PROVE  TypeOK'
  BY <1>5, <1>0 DEF yield, schedVars, semVars, At
<1>6. ASSUME NEW c \in Cpus, idle_stop(c)
      PROVE  TypeOK'
  BY <1>6, <1>0 DEF idle_stop, schedVars, semVars, At
<1>7. ASSUME NEW c \in Cpus, kill_alert(c)
      PROVE  TypeOK'
  <2>1. PICK t \in Procs : At(c, t, "alert") /\ phase' = [phase EXCEPT ![t] = "run"]
    BY <1>7 DEF kill_alert
  <2>2. victim \in Procs
    BY <2>1, <1>0 DEF IInv, AlertInv, At
  <2>3. state' \in [Threads -> ProcState] /\ rq' \in Seq(Procs)
    BY <1>7, <2>2, <1>0, ActivateFacts DEF kill_alert
  <2> QED BY <1>7, <2>1, <2>3, <1>0 DEF kill_alert, semVars
<1>8. ASSUME NEW c \in Cpus, NEW e \in Events, post_sem(c, e)
      PROVE  TypeOK'
  <2>1. e \in Sems /\ _post_sem(e) /\ UNCHANGED held
    BY <1>8 DEF post_sem
  <2> QED BY <2>1, <1>0, PostType
<1>9. ASSUME NEW c \in Cpus, NEW p \in Procs, kill_mark(c, p)
      PROVE  TypeOK'
  BY <1>9, <1>0 DEF kill_mark, semVars, At
<1>10. ASSUME NEW c \in Cpus, NEW p \in Procs, start_proc(c, p)
      PROVE  TypeOK'
  <2>1. state' \in [Threads -> ProcState] /\ rq' \in Seq(Procs)
    BY <1>10, <1>0, ActivateFacts DEF start_proc
  <2> QED BY <1>10, <2>1, <1>0 DEF start_proc, semVars
<1>11. ASSUME NEW c \in Cpus, NEW p \in Procs, exit(c, p)
      PROVE  TypeOK'
  BY <1>11, <1>0 DEF exit, semVars, At
<1>12. ASSUME NEW c \in Cpus, NEW p \in Procs, wait_sem_return(c, p)
      PROVE  TypeOK'
  <2>1. waiting[p] \in Sems
    BY <1>12, <1>0 DEF IInv, WaitInv, wait_sem_return, At
  <2>2. val' \in [Sems -> Int] /\ sleeplist' \in [Sems -> Seq(Procs)]
    <3>1. CASE up[p]
      BY <3>1, <1>12, <1>0 DEF wait_sem_return
    <3>2. CASE ~up[p]
      <4>1. withdraw(p, waiting[p])
        BY <3>2, <1>12 DEF wait_sem_return
      <4>2. Contains(sleeplist[waiting[p]], p) /\ IsInjective(sleeplist[waiting[p]])
        BY <3>2, <2>1 DEF IInv, WaitInv
      <4>3. Detach(sleeplist[waiting[p]], p) \in Seq(Procs)
        BY <4>2, <2>1, <1>0, DetachFacts
      <4> QED BY <4>1, <4>3, <2>1, <1>0 DEF withdraw
    <3> QED BY <3>1, <3>2
  <2>3. /\ held' \in [Procs -> SUBSET Locks] /\ waiting' \in [Procs -> Sems \cup {None}]
        /\ up' \in [Procs -> BOOLEAN] /\ newstate' \in [Threads -> ProcState]
        /\ phase' \in [Threads -> Phase]
    BY <1>12, <2>1, <1>0 DEF wait_sem_return
  <2>4. panic_flag' \in BOOLEAN /\ UNCHANGED schedVars
    BY <1>12 DEF wait_sem_return
  <2> QED BY <2>2, <2>3, <2>4, <1>0 DEF schedVars
<1>13. ASSUME NEW c \in Cpus, NEW p \in Procs, NEW s \in Locks, release_sleeplock(c, p, s)
      PROVE  TypeOK'
  <2>1. s \in Sems /\ _post_sem(s) /\ held' = [held EXCEPT ![p] = @ \ {s}]
    BY <1>13 DEF release_sleeplock
  <2> QED BY <2>1, <1>0, PostType
<1>14. ASSUME NEW c \in Cpus, NEW p \in Procs, NEW s \in Sems, wait_sem_fast(c, p, s)
      PROVE  TypeOK'
  BY <1>14, <1>0 DEF wait_sem_fast, schedVars, At
<1>15. ASSUME NEW c \in Cpus, NEW p \in Procs, NEW s \in Sems, NEW a \in BOOLEAN, wait_sem_sleep(c, p, s, a)
      PROVE  TypeOK'
  <2>1. Append(sleeplist[s], p) \in Seq(Procs)
    BY <1>0, InsertFacts
  <2> QED BY <1>15, <2>1, <1>0 DEF wait_sem_sleep, At
<1>16. CASE UNCHANGED vars
  BY <1>16, <1>0 DEF vars, schedVars, semVars
<1> QED BY <1>1, <1>2, <1>3, <1>4, <1>5, <1>6, <1>7, <1>8, <1>9, <1>10, <1>11, <1>12, <1>13, <1>14, <1>15, <1>16 DEF Next

-----------------------------------------------------------------------------
(* Every step preserves the invariant: kill() and the CPUs.                *)

\* So does _post_sem.
LEMMA PostKeeps ==
  ASSUME IInv, NEW s \in Sems, _post_sem(s)
  PROVE  ActivateKeeps
<1>1. TypeOK
  BY DEF IInv
<1>2. CASE val[s] + 1 <= 0
  <2>1. Head(sleeplist[s]) \in Procs /\ _activate_proc(Head(sleeplist[s]), FALSE)
    BY <1>2, PostTarget DEF _post_sem
  <2> QED BY <2>1, <1>1, ActivateFacts
<1>3. CASE ~(val[s] + 1 <= 0)
  BY <1>3 DEF _post_sem, ActivateKeeps
<1> QED BY <1>2, <1>3

\* Two kill() calls never overlap between mark and alert.
LEMMA AlertStep ==
  ASSUME IInv, [Next]_vars
  PROVE  AlertInv'
<1> USE SchedAssumption DEF TypeOK, Threads
<1>0. TypeOK /\ AlertInv
  BY DEF IInv
<1>1. ASSUME NEW c \in Cpus, acquire_sched_lock(c)
      PROVE  AlertInv'
  BY <1>1, <1>0 DEF AlertInv, acquire_sched_lock, At
<1>2. ASSUME NEW c \in Cpus, sched_return(c)
      PROVE  AlertInv'
  BY <1>2, <1>0 DEF AlertInv, sched_return, At, AfterSched
<1>3. ASSUME NEW c \in Cpus, sched(c)
      PROVE  AlertInv'
  BY <1>3, <1>0 DEF AlertInv, sched, At
<1>4. ASSUME NEW c \in Cpus, swtch(c)
      PROVE  AlertInv'
  BY <1>4, <1>0 DEF AlertInv, swtch, AfterSched
<1>5. ASSUME NEW c \in Cpus, yield(c)
      PROVE  AlertInv'
  BY <1>5, <1>0 DEF AlertInv, yield, schedVars, At
<1>6. ASSUME NEW c \in Cpus, idle_stop(c)
      PROVE  AlertInv'
  BY <1>6, <1>0 DEF AlertInv, idle_stop, schedVars, At
<1>7. ASSUME NEW c \in Cpus, kill_alert(c)
      PROVE  AlertInv'
  BY <1>7, <1>0 DEF AlertInv, kill_alert, At
<1>8. ASSUME NEW c \in Cpus, NEW e \in Events, post_sem(c, e)
      PROVE  AlertInv'
  BY <1>8, <1>0 DEF AlertInv, post_sem, _post_sem
<1>9. ASSUME NEW c \in Cpus, NEW p \in Procs, kill_mark(c, p)
      PROVE  AlertInv'
  BY <1>9, <1>0 DEF AlertInv, kill_mark, At
<1>10. ASSUME NEW c \in Cpus, NEW p \in Procs, start_proc(c, p)
      PROVE  AlertInv'
  BY <1>10, <1>0 DEF AlertInv, start_proc
<1>11. ASSUME NEW c \in Cpus, NEW p \in Procs, exit(c, p)
      PROVE  AlertInv'
  BY <1>11, <1>0 DEF AlertInv, exit, At
<1>12. ASSUME NEW c \in Cpus, NEW p \in Procs, wait_sem_return(c, p)
      PROVE  AlertInv'
  BY <1>12, <1>0 DEF AlertInv, wait_sem_return, schedVars, At
<1>13. ASSUME NEW c \in Cpus, NEW p \in Procs, NEW s \in Locks, release_sleeplock(c, p, s)
      PROVE  AlertInv'
  BY <1>13, <1>0 DEF AlertInv, release_sleeplock, _post_sem
<1>14. ASSUME NEW c \in Cpus, NEW p \in Procs, NEW s \in Sems, wait_sem_fast(c, p, s)
      PROVE  AlertInv'
  BY <1>14, <1>0 DEF AlertInv, wait_sem_fast, schedVars, At
<1>15. ASSUME NEW c \in Cpus, NEW p \in Procs, NEW s \in Sems, NEW a \in BOOLEAN, wait_sem_sleep(c, p, s, a)
      PROVE  AlertInv'
  BY <1>15, <1>0 DEF AlertInv, wait_sem_sleep, At
<1>16. CASE UNCHANGED vars
  BY <1>16, <1>0 DEF AlertInv, vars, schedVars
<1> QED BY <1>1, <1>2, <1>3, <1>4, <1>5, <1>6, <1>7, <1>8, <1>9, <1>10, <1>11, <1>12, <1>13, <1>14, <1>15, <1>16 DEF Next

\* The CPUs' views of their current threads stay consistent.
LEMMA CpuStep ==
  ASSUME IInv, [Next]_vars
  PROVE  CpuInv'
<1> USE SchedAssumption DEF TypeOK, Threads
<1>0. TypeOK /\ CpuInv
  BY DEF IInv
<1>1. ASSUME NEW c \in Cpus, acquire_sched_lock(c)
      PROVE  CpuInv'
  BY <1>1, <1>0 DEF CpuInv, KernelStackExclusive, acquire_sched_lock, At
<1>2. ASSUME NEW c \in Cpus, sched_return(c)
      PROVE  CpuInv'
  BY <1>2, <1>0 DEF CpuInv, KernelStackExclusive, sched_return, At, AfterSched
<1>3. ASSUME NEW c \in Cpus, sched(c)
      PROVE  CpuInv'
  <2>1. PICK t \in Threads, next \in Threads : Switch(c, t, next)
    BY <1>3, SchedFacts
  <2>2. stack[c] = t /\ thisproc[c] = t /\ phase[t] = "sched"
    BY <2>1, <1>0 DEF Switch, At, CpuInv
  <2>3. \A d \in Cpus : d # c => thisproc[d] # next /\ thisproc[d] # t
    BY <2>1, <2>2, <1>0 DEF Switch, CpuInv
  <2>4. next \in Procs \cup {c}
    BY <2>1 DEF Switch
  <2>5. /\ \A d \in Cpus : thisproc'[d] = IF d = c THEN next ELSE thisproc[d]
        /\ \A u \in Threads : state'[u] = IF u = next THEN "RUNNING"
                                           ELSE IF u = t THEN newstate[t] ELSE state[u]
        /\ \A u \in Threads : phase'[u] = IF u = t THEN "resume" ELSE phase[u]
        /\ UNCHANGED <<stack, schedlock, newstate>>
    BY <2>1, <1>0 DEF Switch
  <2>6. \A d \in Cpus : thisproc'[d] \in Procs \cup {d} /\ state'[thisproc'[d]] = "RUNNING"
    BY <2>2, <2>3, <2>4, <2>5, <1>0 DEF CpuInv
  <2>7. \A d, f \in Cpus : thisproc'[d] = thisproc'[f] => d = f
    <3>1. \A d, f \in Cpus : thisproc[d] = thisproc[f] => d = f
      BY <1>0 DEF CpuInv
    <3> QED BY <3>1, <2>3, <2>5
  <2>8. ASSUME NEW d \in Cpus, thisproc'[d] # d PROVE state'[d] = "RUNNABLE"
    <3>1. /\ thisproc[d] # d => state[d] = "RUNNABLE"
          /\ newstate[d] = "RUNNABLE" /\ d \in Threads
          /\ t \in Procs \cup {c} /\ d \notin Procs
      BY <2>2, <1>0 DEF CpuInv
    <3>2. CASE d = c
      BY <3>1, <3>2, <2>2, <2>5, <2>8
    <3>3. CASE d # c
      BY <3>1, <3>3, <2>4, <2>5, <2>8
    <3> QED BY <3>2, <3>3
  <2>9. \A d \in Cpus : d # c => stack[d] # t
    BY <2>2, <1>0 DEF CpuInv, KernelStackExclusive
  <2>10. schedlock = c /\ schedlock' = c
    BY <2>1 DEF Switch
  <2>11. \A u \in Threads : phase'[u] # "sched"
    BY <2>2, <2>5, <2>10, <1>0 DEF CpuInv
  <2> QED BY <2>2, <2>5, <2>6, <2>7, <2>8, <2>9, <2>10, <2>11, <1>0
          DEF CpuInv, KernelStackExclusive
<1>4. ASSUME NEW c \in Cpus, swtch(c)
      PROVE  CpuInv'
  BY <1>4, <1>0 DEF CpuInv, KernelStackExclusive, swtch, AfterSched
<1>5. ASSUME NEW c \in Cpus, yield(c)
      PROVE  CpuInv'
  BY <1>5, <1>0 DEF CpuInv, KernelStackExclusive, yield, schedVars, At
<1>6. ASSUME NEW c \in Cpus, idle_stop(c)
      PROVE  CpuInv'
  BY <1>6, <1>0 DEF CpuInv, KernelStackExclusive, idle_stop, schedVars, At
<1>7. ASSUME NEW c \in Cpus, kill_alert(c)
      PROVE  CpuInv'
  <2>1. PICK t \in Procs : At(c, t, "alert") /\ phase' = [phase EXCEPT ![t] = "run"]
    BY <1>7 DEF kill_alert
  <2>2. victim \in Procs
    BY <2>1 DEF IInv, AlertInv, At
  <2>3. ActivateKeeps
    BY <1>7, <2>2, <1>0, ActivateFacts DEF kill_alert
  <2> QED BY <1>7, <2>1, <2>3, <1>0 DEF kill_alert, At, ActivateKeeps, CpuInv, KernelStackExclusive
<1>8. ASSUME NEW c \in Cpus, NEW e \in Events, post_sem(c, e)
      PROVE  CpuInv'
  <2>1. e \in Sems /\ _post_sem(e)
    BY <1>8 DEF post_sem, Sems
  <2>2. ActivateKeeps
    BY <2>1, PostKeeps
  <2> QED BY <2>1, <2>2, <1>0 DEF _post_sem, ActivateKeeps, CpuInv, KernelStackExclusive
<1>9. ASSUME NEW c \in Cpus, NEW p \in Procs, kill_mark(c, p)
      PROVE  CpuInv'
  BY <1>9, <1>0 DEF CpuInv, KernelStackExclusive, kill_mark, At
<1>10. ASSUME NEW c \in Cpus, NEW p \in Procs, start_proc(c, p)
      PROVE  CpuInv'
  <2>1. ActivateKeeps
    BY <1>10, <1>0, ActivateFacts DEF start_proc
  <2> QED BY <1>10, <2>1, <1>0 DEF start_proc, ActivateKeeps, CpuInv, KernelStackExclusive
<1>11. ASSUME NEW c \in Cpus, NEW p \in Procs, exit(c, p)
      PROVE  CpuInv'
  BY <1>11, <1>0 DEF CpuInv, KernelStackExclusive, exit, At
<1>12. ASSUME NEW c \in Cpus, NEW p \in Procs, wait_sem_return(c, p)
      PROVE  CpuInv'
  BY <1>12, <1>0 DEF CpuInv, KernelStackExclusive, wait_sem_return, schedVars, At
<1>13. ASSUME NEW c \in Cpus, NEW p \in Procs, NEW s \in Locks, release_sleeplock(c, p, s)
      PROVE  CpuInv'
  <2>1. s \in Sems /\ _post_sem(s)
    BY <1>13 DEF release_sleeplock, Sems
  <2>2. ActivateKeeps
    BY <2>1, PostKeeps
  <2> QED BY <2>1, <2>2, <1>0 DEF _post_sem, ActivateKeeps, CpuInv, KernelStackExclusive
<1>14. ASSUME NEW c \in Cpus, NEW p \in Procs, NEW s \in Sems, wait_sem_fast(c, p, s)
      PROVE  CpuInv'
  BY <1>14, <1>0 DEF CpuInv, KernelStackExclusive, wait_sem_fast, schedVars, At
<1>15. ASSUME NEW c \in Cpus, NEW p \in Procs, NEW s \in Sems, NEW a \in BOOLEAN, wait_sem_sleep(c, p, s, a)
      PROVE  CpuInv'
  BY <1>15, <1>0 DEF CpuInv, KernelStackExclusive, wait_sem_sleep, At
<1>16. CASE UNCHANGED vars
  BY <1>16, <1>0 DEF CpuInv, KernelStackExclusive, vars, schedVars
<1> QED BY <1>1, <1>2, <1>3, <1>4, <1>5, <1>6, <1>7, <1>8, <1>9, <1>10, <1>11, <1>12, <1>13, <1>14, <1>15, <1>16 DEF Next

-----------------------------------------------------------------------------
(* Every step preserves the invariant: the run queue.                      *)

\* _activate_proc queues the process it makes runnable, which was not queued.
LEMMA ActivateQueue ==
  ASSUME TypeOK, RunQueueExact, NEW p \in Procs, NEW onalert \in BOOLEAN,
         _activate_proc(p, onalert)
  PROVE  RunQueueExact'
<1>1. CASE UNCHANGED <<state, rq>>
  BY <1>1 DEF RunQueueExact
<1>2. CASE /\ state[p] \in {"UNUSED", "SLEEPING", "DEEPSLEEPING"}
           /\ state' = [state EXCEPT ![p] = "RUNNABLE"]
           /\ rq' = <<p>> \o rq
  <2>1. rq \in Seq(Procs) /\ IsInjective(rq) /\ ~Contains(rq, p)
    BY <1>2 DEF TypeOK, RunQueueExact
  <2>2. IsInjective(rq') /\ \A q : Contains(rq', q) <=> Contains(rq, q) \/ q = p
    BY <1>2, <2>1, InsertFacts
  <2>3. \A q \in Procs : state'[q] = IF q = p THEN "RUNNABLE" ELSE state[q]
    BY <1>2 DEF TypeOK, Threads
  <2> QED BY <2>2, <2>3 DEF RunQueueExact
<1> QED BY <1>1, <1>2, ActivateFacts

\* So does _post_sem.
LEMMA PostQueue ==
  ASSUME IInv, NEW s \in Sems, _post_sem(s)
  PROVE  RunQueueExact'
<1>1. TypeOK /\ RunQueueExact
  BY DEF IInv
<1>2. CASE val[s] + 1 <= 0
  <2>1. Head(sleeplist[s]) \in Procs /\ _activate_proc(Head(sleeplist[s]), FALSE)
    BY <1>2, PostTarget DEF _post_sem
  <2> QED BY <2>1, <1>1, ActivateQueue
<1>3. CASE ~(val[s] + 1 <= 0)
  BY <1>1, <1>3 DEF _post_sem, RunQueueExact
<1> QED BY <1>2, <1>3

\* rq holds exactly the runnable and running processes.
LEMMA QueueStep ==
  ASSUME IInv, [Next]_vars
  PROVE  RunQueueExact'
<1> USE SchedAssumption
<1>0. TypeOK /\ RunQueueExact
  BY DEF IInv
<1>1. ASSUME NEW c \in Cpus, acquire_sched_lock(c)
      PROVE  RunQueueExact'
  BY <1>1, <1>0 DEF RunQueueExact, acquire_sched_lock
<1>2. ASSUME NEW c \in Cpus, sched_return(c)
      PROVE  RunQueueExact'
  BY <1>2, <1>0 DEF RunQueueExact, sched_return
<1>3. ASSUME NEW c \in Cpus, sched(c)
      PROVE  RunQueueExact'
  <2>1. PICK t \in Threads, next \in Threads : Switch(c, t, next)
    BY <1>3, SchedFacts
  <2>2. /\ IsInjective(rq')
        /\ \A q : Contains(rq', q) <=>
             Contains(rq, q) /\ (q # t \/ newstate[t] \in {"RUNNABLE", "RUNNING"})
    BY <2>1, RunQueueUpdate DEF Switch
  <2>3. state[t] = "RUNNING"
    BY <2>1 DEF Switch, IInv, CpuInv, At
  <2>4. \A u \in Threads : state'[u] = IF u = next THEN "RUNNING"
                                     ELSE IF u = t THEN newstate[t] ELSE state[u]
    BY <2>1, <1>0 DEF Switch, TypeOK
  <2>5. next \in Procs => Contains(rq', next)
    BY <2>1 DEF Switch, Threads
  <2>6. ASSUME NEW q \in Procs
        PROVE  Contains(rq', q) <=> state'[q] \in {"RUNNABLE", "RUNNING"}
    <3>1. q \in Threads /\ (Contains(rq, q) <=> state[q] \in {"RUNNABLE", "RUNNING"})
      BY <1>0 DEF RunQueueExact, Threads
    <3> QED BY <3>1, <2>2, <2>3, <2>4, <2>5
  <2> QED BY <2>2, <2>6 DEF RunQueueExact
<1>4. ASSUME NEW c \in Cpus, swtch(c)
      PROVE  RunQueueExact'
  BY <1>4, <1>0 DEF RunQueueExact, swtch
<1>5. ASSUME NEW c \in Cpus, yield(c)
      PROVE  RunQueueExact'
  BY <1>5, <1>0 DEF RunQueueExact, yield, schedVars
<1>6. ASSUME NEW c \in Cpus, idle_stop(c)
      PROVE  RunQueueExact'
  BY <1>6, <1>0 DEF RunQueueExact, idle_stop, schedVars
<1>7. ASSUME NEW c \in Cpus, kill_alert(c)
      PROVE  RunQueueExact'
  <2>1. PICK t \in Procs : At(c, t, "alert") /\ _activate_proc(victim, TRUE)
    BY <1>7 DEF kill_alert
  <2>2. victim \in Procs
    BY <2>1 DEF IInv, AlertInv, At, Threads
  <2> QED BY <2>1, <2>2, <1>0, ActivateQueue
<1>8. ASSUME NEW c \in Cpus, NEW e \in Events, post_sem(c, e)
      PROVE  RunQueueExact'
  <2>1. e \in Sems /\ _post_sem(e)
    BY <1>8 DEF post_sem, Sems
  <2> QED BY <2>1, PostQueue
<1>9. ASSUME NEW c \in Cpus, NEW p \in Procs, kill_mark(c, p)
      PROVE  RunQueueExact'
  BY <1>9, <1>0 DEF RunQueueExact, kill_mark
<1>10. ASSUME NEW c \in Cpus, NEW p \in Procs, start_proc(c, p)
      PROVE  RunQueueExact'
  BY <1>10, <1>0, ActivateQueue DEF start_proc
<1>11. ASSUME NEW c \in Cpus, NEW p \in Procs, exit(c, p)
      PROVE  RunQueueExact'
  BY <1>11, <1>0 DEF RunQueueExact, exit
<1>12. ASSUME NEW c \in Cpus, NEW p \in Procs, wait_sem_return(c, p)
      PROVE  RunQueueExact'
  BY <1>12, <1>0 DEF RunQueueExact, wait_sem_return, schedVars
<1>13. ASSUME NEW c \in Cpus, NEW p \in Procs, NEW s \in Locks, release_sleeplock(c, p, s)
      PROVE  RunQueueExact'
  <2>1. s \in Sems /\ _post_sem(s)
    BY <1>13 DEF release_sleeplock, Sems
  <2> QED BY <2>1, PostQueue
<1>14. ASSUME NEW c \in Cpus, NEW p \in Procs, NEW s \in Sems, wait_sem_fast(c, p, s)
      PROVE  RunQueueExact'
  BY <1>14, <1>0 DEF RunQueueExact, wait_sem_fast, schedVars
<1>15. ASSUME NEW c \in Cpus, NEW p \in Procs, NEW s \in Sems, NEW a \in BOOLEAN, wait_sem_sleep(c, p, s, a)
      PROVE  RunQueueExact'
  BY <1>15, <1>0 DEF RunQueueExact, wait_sem_sleep
<1>16. CASE UNCHANGED vars
  BY <1>16, <1>0 DEF RunQueueExact, vars, schedVars
<1> QED BY <1>1, <1>2, <1>3, <1>4, <1>5, <1>6, <1>7, <1>8, <1>9, <1>10, <1>11, <1>12, <1>13, <1>14, <1>15, <1>16 DEF Next
=============================================================================
