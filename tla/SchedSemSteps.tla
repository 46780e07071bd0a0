---------------------------- MODULE SchedSemSteps ----------------------------
(***************************************************************************)
(* Every step of module Sched preserves the part of the invariant that is  *)
(* about semaphores, sleepers and killed processes.                        *)
(***************************************************************************)
EXTENDS SchedInv

-----------------------------------------------------------------------------
(* Every step preserves the invariant: semaphores.                         *)

\* _post_sem takes the oldest waiter off the list and marks it as posted.
LEMMA PostWait ==
  ASSUME IInv, NEW s \in Sems, _post_sem(s)
  PROVE  WaitInv'
<1>0. TypeOK /\ WaitInv
  BY DEF IInv
<1>1. val' = [val EXCEPT ![s] = @ + 1] /\ UNCHANGED <<waiting, phase>>
  BY DEF _post_sem
<1>2. CASE val[s] + 1 <= 0
  <2> DEFINE w == Head(sleeplist[s])
  <2>1. w \in Procs /\ waiting[w] = s /\ ~up[w] /\ Len(sleeplist[s]) > 0
    BY <1>2, PostTarget
  <2>2. /\ up' = [up EXCEPT ![w] = TRUE]
        /\ sleeplist' = [sleeplist EXCEPT ![s] = Tail(@)]
    BY <1>2 DEF _post_sem
  <2>3. sleeplist[s] \in Seq(Procs) /\ IsInjective(sleeplist[s])
    BY <1>0 DEF WaitInv, TypeOK
  <2>4. /\ IsInjective(sleeplist'[s]) /\ Len(sleeplist'[s]) = Len(sleeplist[s]) - 1
        /\ \A q : Contains(sleeplist'[s], q) <=> Contains(sleeplist[s], q) /\ q # w
    BY <2>1, <2>2, <2>3, <1>0, HeadTailFacts DEF TypeOK
  <2> HIDE DEF w
  <2>5. \A x \in Sems : x # s => sleeplist'[x] = sleeplist[x] /\ val'[x] = val[x]
    BY <1>1, <2>2, <1>0 DEF TypeOK
  <2>6. SemCount'
    BY <1>1, <1>2, <2>4, <2>5, <1>0 DEF WaitInv, SemCount, TypeOK
  <2>7. \A x \in Sems, q \in Procs :
          Contains(sleeplist'[x], q) <=> waiting'[q] = x /\ ~up'[q]
    BY <1>1, <2>1, <2>2, <2>4, <2>5, <1>0 DEF WaitInv, TypeOK
  <2>8. \A x \in Sems : IsInjective(sleeplist'[x])
    BY <2>4, <2>5, <1>0 DEF WaitInv
  <2> QED BY <1>0, <1>1, <2>6, <2>7, <2>8 DEF WaitInv
<1>3. CASE ~(val[s] + 1 <= 0)
  <2>1. UNCHANGED <<up, sleeplist>>
    BY <1>3 DEF _post_sem
  <2>2. SemCount'
    BY <1>0, <1>1, <1>3, <2>1 DEF WaitInv, SemCount, TypeOK
  <2> QED BY <1>0, <1>1, <2>1, <2>2 DEF WaitInv
<1> QED BY <1>2, <1>3

\* Every list holds exactly the waiters that were not posted, and val counts them.
LEMMA WaitStep ==
  ASSUME IInv, [Next]_vars
  PROVE  WaitInv'
<1> USE SchedAssumption
<1>0. TypeOK /\ WaitInv
  BY DEF IInv
<1>1. ASSUME NEW c \in Cpus, acquire_sched_lock(c)
      PROVE  WaitInv'
  BY <1>1, <1>0 DEF WaitInv, SemCount, semVars, TypeOK, Threads, acquire_sched_lock, At
<1>2. ASSUME NEW c \in Cpus, sched_return(c)
      PROVE  WaitInv'
  BY <1>2, <1>0 DEF WaitInv, SemCount, semVars, TypeOK, Threads, sched_return, At, AfterSched
<1>3. ASSUME NEW c \in Cpus, sched(c)
      PROVE  WaitInv'
  BY <1>3, <1>0 DEF WaitInv, SemCount, semVars, TypeOK, Threads, sched, At
<1>4. ASSUME NEW c \in Cpus, swtch(c)
      PROVE  WaitInv'
  BY <1>4, <1>0 DEF WaitInv, SemCount, semVars, TypeOK, Threads, swtch, AfterSched
<1>5. ASSUME NEW c \in Cpus, yield(c)
      PROVE  WaitInv'
  BY <1>5, <1>0 DEF WaitInv, SemCount, semVars, TypeOK, Threads, yield, At
<1>6. ASSUME NEW c \in Cpus, idle_stop(c)
      PROVE  WaitInv'
  BY <1>6, <1>0 DEF WaitInv, SemCount, semVars, TypeOK, Threads, idle_stop
<1>7. ASSUME NEW c \in Cpus, kill_alert(c)
      PROVE  WaitInv'
  BY <1>7, <1>0 DEF WaitInv, SemCount, semVars, TypeOK, Threads, kill_alert, At
<1>8. ASSUME NEW c \in Cpus, NEW e \in Events, post_sem(c, e)
      PROVE  WaitInv'
  <2>1. e \in Sems /\ _post_sem(e)
    BY <1>8 DEF post_sem, Sems
  <2> QED BY <2>1, PostWait
<1>9. ASSUME NEW c \in Cpus, NEW p \in Procs, kill_mark(c, p)
      PROVE  WaitInv'
  BY <1>9, <1>0 DEF WaitInv, SemCount, semVars, TypeOK, Threads, kill_mark, At
<1>10. ASSUME NEW c \in Cpus, NEW p \in Procs, start_proc(c, p)
      PROVE  WaitInv'
  BY <1>10, <1>0 DEF WaitInv, SemCount, semVars, TypeOK, Threads, start_proc
<1>11. ASSUME NEW c \in Cpus, NEW p \in Procs, exit(c, p)
      PROVE  WaitInv'
  BY <1>11, <1>0 DEF WaitInv, SemCount, semVars, TypeOK, Threads, exit, At
<1>12. ASSUME NEW c \in Cpus, NEW p \in Procs, wait_sem_return(c, p)
      PROVE  WaitInv'
  <2> DEFINE s == waiting[p]
  <2>1. /\ phase[p] = "woken"
        /\ IF up[p] THEN UNCHANGED <<val, sleeplist>> ELSE withdraw(p, s)
        /\ waiting' = [waiting EXCEPT ![p] = None] /\ up' = [up EXCEPT ![p] = FALSE]
        /\ \E f \in {"run", "halt"} : phase' = [phase EXCEPT ![p] = f]
    BY <1>12 DEF wait_sem_return, At
  <2>2. s \in Sems /\ None \notin Sems
    BY <2>1, <1>0 DEF WaitInv, TypeOK, Sems
  <2> HIDE DEF s
  <2>3. \A q \in Procs : phase'[q] \in {"run", "lock", "alert", "halt"} => waiting'[q] = None
    BY <2>1, <1>0 DEF WaitInv, TypeOK, Threads
  <2>6. \A q \in Procs : phase'[q] = "woken" => waiting'[q] # None
    BY <2>1, <1>0 DEF WaitInv, TypeOK, Threads
  <2>4. CASE up[p]
    <3>1. \A x \in Sems, q \in Procs : Contains(sleeplist'[x], q) <=> waiting'[q] = x /\ ~up'[q]
      BY <2>1, <2>2, <2>4, <1>0 DEF WaitInv, TypeOK
    <3>2. SemCount' /\ \A x \in Sems : IsInjective(sleeplist'[x])
      BY <2>1, <2>4, <1>0 DEF WaitInv, SemCount
    <3> QED BY <2>3, <2>6, <3>1, <3>2 DEF WaitInv
  <2>5. CASE ~up[p]
    <3>1. /\ val' = [val EXCEPT ![s] = @ + 1]
          /\ sleeplist' = [sleeplist EXCEPT ![s] = Detach(@, p)]
      BY <2>1, <2>5 DEF withdraw
    <3>2. sleeplist[s] \in Seq(Procs) /\ IsInjective(sleeplist[s]) /\ Contains(sleeplist[s], p)
      BY <2>2, <2>5, <1>0 DEF WaitInv, TypeOK, s
    <3>3. /\ IsInjective(sleeplist'[s]) /\ Len(sleeplist'[s]) = Len(sleeplist[s]) - 1
          /\ \A q : Contains(sleeplist'[s], q) <=> Contains(sleeplist[s], q) /\ q # p
      BY <3>1, <3>2, <2>2, <1>0, DetachFacts DEF TypeOK
    <3>4. \A x \in Sems : x # s => sleeplist'[x] = sleeplist[x] /\ val'[x] = val[x]
      BY <3>1, <1>0 DEF TypeOK
    <3>5. Len(sleeplist[s]) \in Nat /\ Len(sleeplist[s]) # 0
      BY <3>2 DEF Contains
    <3>6. SemCount'
      BY <3>1, <3>3, <3>4, <3>5, <2>2, <1>0 DEF WaitInv, SemCount, TypeOK
    <3>7. \A x \in Sems, q \in Procs :
            Contains(sleeplist'[x], q) <=> waiting'[q] = x /\ ~up'[q]
      BY <2>1, <2>2, <3>3, <3>4, <1>0 DEF WaitInv, TypeOK, s
    <3>8. \A x \in Sems : IsInjective(sleeplist'[x])
      BY <3>3, <3>4, <1>0 DEF WaitInv
    <3> QED BY <2>3, <2>6, <3>6, <3>7, <3>8 DEF WaitInv
  <2> QED BY <2>4, <2>5
<1>13. ASSUME NEW c \in Cpus, NEW p \in Procs, NEW s \in Locks, release_sleeplock(c, p, s)
      PROVE  WaitInv'
  <2>1. s \in Sems /\ _post_sem(s)
    BY <1>13 DEF release_sleeplock, Sems
  <2> QED BY <2>1, PostWait
<1>14. ASSUME NEW c \in Cpus, NEW p \in Procs, NEW s \in Sems, wait_sem_fast(c, p, s)
      PROVE  WaitInv'
  <2>1. /\ val[s] - 1 >= 0 /\ val' = [val EXCEPT ![s] = @ - 1]
        /\ UNCHANGED <<sleeplist, waiting, up, phase>>
    BY <1>14 DEF wait_sem_fast
  <2>2. SemCount'
    BY <2>1, <1>0 DEF WaitInv, SemCount, TypeOK
  <2> QED BY <2>1, <2>2, <1>0 DEF WaitInv
<1>15. ASSUME NEW c \in Cpus, NEW p \in Procs, NEW s \in Sems, NEW a \in BOOLEAN, wait_sem_sleep(c, p, s, a)
      PROVE  WaitInv'
  <2>1. /\ phase[p] = "run" /\ val[s] - 1 < 0 /\ val' = [val EXCEPT ![s] = @ - 1]
        /\ sleeplist' = [sleeplist EXCEPT ![s] = Append(@, p)]
        /\ waiting' = [waiting EXCEPT ![p] = s] /\ up' = [up EXCEPT ![p] = FALSE]
        /\ phase' = [phase EXCEPT ![p] = "sched"]
    BY <1>15 DEF wait_sem_sleep, At
  <2>2. waiting[p] = None /\ s # None
    BY <2>1, <1>0 DEF WaitInv, Sems
  <2>3. sleeplist[s] \in Seq(Procs) /\ IsInjective(sleeplist[s]) /\ ~Contains(sleeplist[s], p)
    BY <2>2, <1>0 DEF WaitInv, TypeOK
  <2>4. /\ IsInjective(sleeplist'[s]) /\ Len(sleeplist'[s]) = Len(sleeplist[s]) + 1
        /\ \A q : Contains(sleeplist'[s], q) <=> Contains(sleeplist[s], q) \/ q = p
    <3>1. sleeplist'[s] = Append(sleeplist[s], p)
      BY <2>1, <1>0 DEF TypeOK
    <3> DEFINE b == Append(sleeplist[s], p)
    <3>2. /\ IsInjective(b) /\ Len(b) = Len(sleeplist[s]) + 1
          /\ \A q : Contains(b, q) <=> Contains(sleeplist[s], q) \/ q = p
      BY <2>3, AppendFacts
    <3> HIDE DEF b
    <3>3. sleeplist'[s] = b
      BY <3>1 DEF b
    <3> QED BY <3>2, <3>3
  <2>5. \A x \in Sems : x # s => sleeplist'[x] = sleeplist[x] /\ val'[x] = val[x]
    BY <2>1, <1>0 DEF TypeOK
  <2>6. SemCount'
    BY <2>1, <2>4, <2>5, <1>0 DEF WaitInv, SemCount, TypeOK
  <2>7. \A x \in Sems, q \in Procs :
          Contains(sleeplist'[x], q) <=> waiting'[q] = x /\ ~up'[q]
    <3>1. \A q \in Procs : /\ waiting'[q] = IF q = p THEN s ELSE waiting[q]
                          /\ up'[q] = IF q = p THEN FALSE ELSE up[q]
      BY <2>1, <1>0 DEF TypeOK
    <3>2. \A x \in Sems, q \in Procs : Contains(sleeplist[x], q) <=> waiting[q] = x /\ ~up[q]
      BY <1>0 DEF WaitInv
    <3>3. None \notin Sems
      BY DEF Sems
    <3>4. ASSUME NEW x \in Sems, NEW q \in Procs
          PROVE  Contains(sleeplist'[x], q) <=> waiting'[q] = x /\ ~up'[q]
      <4>1. CASE x = s
        <5>1. CASE q = p
          BY <5>1, <4>1, <3>1, <2>4
        <5>2. CASE q # p
          BY <5>2, <4>1, <3>1, <3>2, <2>4
        <5> QED BY <5>1, <5>2
      <4>2. CASE x # s
        <5>1. CASE q = p
          <6>1. ~Contains(sleeplist[x], p)
            BY <3>2, <3>3, <2>2
          <6> QED BY <6>1, <5>1, <4>2, <3>1, <2>5
        <5>2. CASE q # p
          BY <5>2, <4>2, <3>1, <3>2, <2>5
        <5> QED BY <5>1, <5>2
      <4> QED BY <4>1, <4>2
    <3> QED BY <3>4
  <2>8. \A x \in Sems : IsInjective(sleeplist'[x])
    BY <2>4, <2>5, <1>0 DEF WaitInv
  <2>9. \A q \in Procs : phase'[q] \in {"run", "lock", "alert", "halt"} => waiting'[q] = None
    BY <2>1, <1>0 DEF WaitInv, TypeOK, Threads
  <2>10. \A q \in Procs : phase'[q] = "woken" => waiting'[q] # None
    BY <2>1, <2>2, <1>0 DEF WaitInv, TypeOK, Threads
  <2> QED BY <2>6, <2>7, <2>8, <2>9, <2>10 DEF WaitInv
<1>16. CASE UNCHANGED vars
  BY <1>16, <1>0 DEF WaitInv, SemCount, vars, semVars
<1> QED BY <1>1, <1>2, <1>3, <1>4, <1>5, <1>6, <1>7, <1>8, <1>9, <1>10, <1>11, <1>12, <1>13, <1>14, <1>15, <1>16 DEF Next

\* A semaphore somebody waits for, and was not posted, has a negative value.
LEMMA WaiterCounted ==
  ASSUME TypeOK, WaitInv, NEW p \in Procs, waiting[p] \in Sems, ~up[p]
  PROVE  val[waiting[p]] < 0
<1>1. Contains(sleeplist[waiting[p]], p) /\ sleeplist[waiting[p]] \in Seq(Procs)
  BY DEF WaitInv, TypeOK
<1>2. Len(sleeplist[waiting[p]]) # 0
  BY <1>1 DEF Contains
<1> QED BY <1>2 DEF WaitInv, SemCount

\* A sleep lock keeps at most one owner.
LEMMA MutexStep ==
  ASSUME IInv, [Next]_vars
  PROVE  MutualExclusion'
<1> USE SchedAssumption
<1>0. TypeOK /\ WaitInv /\ MutualExclusion
  BY DEF IInv
<1>a. ASSUME UNCHANGED <<val, waiting, up, held>> PROVE MutualExclusion'
  BY <1>a, <1>0 DEF MutualExclusion, Owners
<1>1. ASSUME NEW c \in Cpus, acquire_sched_lock(c)
      PROVE  MutualExclusion'
  BY <1>1, <1>a DEF semVars, acquire_sched_lock
<1>2. ASSUME NEW c \in Cpus, sched_return(c)
      PROVE  MutualExclusion'
  BY <1>2, <1>a DEF semVars, sched_return
<1>3. ASSUME NEW c \in Cpus, sched(c)
      PROVE  MutualExclusion'
  BY <1>3, <1>a DEF semVars, sched
<1>4. ASSUME NEW c \in Cpus, swtch(c)
      PROVE  MutualExclusion'
  BY <1>4, <1>a DEF semVars, swtch
<1>5. ASSUME NEW c \in Cpus, yield(c)
      PROVE  MutualExclusion'
  BY <1>5, <1>a DEF semVars, yield
<1>6. ASSUME NEW c \in Cpus, idle_stop(c)
      PROVE  MutualExclusion'
  BY <1>6, <1>a DEF semVars, idle_stop
<1>7. ASSUME NEW c \in Cpus, kill_alert(c)
      PROVE  MutualExclusion'
  BY <1>7, <1>a DEF semVars, kill_alert
<1>8. ASSUME NEW c \in Cpus, NEW e \in Events, post_sem(c, e)
      PROVE  MutualExclusion'
  <2>1. e \in Sems /\ _post_sem(e) /\ UNCHANGED held
    BY <1>8 DEF post_sem, Sems
  <2>2. ASSUME NEW l \in Locks
        PROVE  Owners(l)' = Owners(l) /\ val'[l] = val[l]
    <3>1. l # e /\ val'[l] = val[l]
      BY <2>1, <1>0 DEF _post_sem, TypeOK, Sems
    <3>2. CASE val[e] + 1 <= 0
      <4>1. Head(sleeplist[e]) \in Procs /\ waiting[Head(sleeplist[e])] = e
        BY <3>2, <2>1, PostTarget
      <4>2. up' = [up EXCEPT ![Head(sleeplist[e])] = TRUE] /\ UNCHANGED waiting
        BY <3>2, <2>1 DEF _post_sem
      <4> QED BY <2>1, <3>1, <4>1, <4>2, <1>0 DEF Owners, TypeOK
    <3>3. CASE ~(val[e] + 1 <= 0)
      BY <3>1, <3>3, <2>1 DEF _post_sem, Owners
    <3> QED BY <3>2, <3>3
  <2> QED BY <2>2, <1>0 DEF MutualExclusion
<1>9. ASSUME NEW c \in Cpus, NEW p \in Procs, kill_mark(c, p)
      PROVE  MutualExclusion'
  BY <1>9, <1>a DEF semVars, kill_mark
<1>10. ASSUME NEW c \in Cpus, NEW p \in Procs, start_proc(c, p)
      PROVE  MutualExclusion'
  BY <1>10, <1>a DEF semVars, start_proc
<1>11. ASSUME NEW c \in Cpus, NEW p \in Procs, exit(c, p)
      PROVE  MutualExclusion'
  BY <1>11, <1>a DEF semVars, exit
<1>12. ASSUME NEW c \in Cpus, NEW p \in Procs, wait_sem_return(c, p)
      PROVE  MutualExclusion'
  <2> DEFINE s == waiting[p]
  <2>1. /\ phase[p] = "woken"
        /\ IF up[p] THEN UNCHANGED val ELSE val' = [val EXCEPT ![s] = @ + 1]
        /\ held' = [held EXCEPT ![p] = IF up[p] THEN @ \cup ({s} \cap Locks) ELSE @]
        /\ waiting' = [waiting EXCEPT ![p] = None] /\ up' = [up EXCEPT ![p] = FALSE]
    BY <1>12 DEF wait_sem_return, withdraw, ret, At
  <2>2. s \in Sems /\ None \notin Sems
    BY <2>1, <1>0 DEF WaitInv, TypeOK, Sems
  <2>3. ASSUME NEW l \in Locks
        PROVE  /\ \A q, r \in Owners(l)' : q = r
               /\ val'[l] <= 1 /\ (val'[l] = 1 <=> Owners(l)' = {})
    <3>1. Owners(l)' = Owners(l)
      BY <2>1, <2>2, <1>0 DEF Owners, TypeOK, Sems
    <3>2. val[l] \in Int /\ val'[l] = IF l = s /\ ~up[p] THEN val[l] + 1 ELSE val[l]
      BY <2>1, <2>2, <1>0 DEF TypeOK, Sems
    <3>3. l = s /\ ~up[p] => val[l] < 0
      BY <2>2, <1>0, WaiterCounted
    <3> QED BY <3>1, <3>2, <3>3, <1>0 DEF MutualExclusion
  <2> QED BY <2>3 DEF MutualExclusion
<1>13. ASSUME NEW c \in Cpus, NEW p \in Procs, NEW s \in Locks, release_sleeplock(c, p, s)
      PROVE  MutualExclusion'
  <2>1. /\ s \in Sems /\ phase[p] = "run" /\ s \in held[p] /\ _post_sem(s)
        /\ held' = [held EXCEPT ![p] = @ \ {s}]
    BY <1>13 DEF release_sleeplock, Sems, At
  <2>2. waiting[p] = None /\ s # None /\ UNCHANGED waiting
    BY <2>1, <1>0 DEF WaitInv, Sems, _post_sem
  <2>3. Owners(s) = {p} /\ val[s] <= 0 /\ val[s] \in Int
    <3>1. p \in Owners(s) /\ val[s] \in Int
      BY <2>1, <1>0 DEF Owners, TypeOK
    <3>2. val[s] <= 1 /\ val[s] # 1
      BY <3>1, <1>0 DEF MutualExclusion
    <3> QED BY <3>1, <3>2, <1>0 DEF MutualExclusion
  <2>4. \A l \in Sems : val'[l] = IF l = s THEN val[s] + 1 ELSE val[l]
    BY <2>1, <1>0 DEF _post_sem, TypeOK
  <2>5. CASE val[s] + 1 <= 0
    <3> DEFINE w == Head(sleeplist[s])
    <3>1. w \in Procs /\ waiting[w] = s /\ ~up[w] /\ w # p
      BY <2>5, <2>1, <2>2, PostTarget
    <3>2. up' = [up EXCEPT ![w] = TRUE]
      BY <2>5, <2>1 DEF _post_sem
    <3> HIDE DEF w
    <3>3. \A l \in Locks : Owners(l)' = IF l = s THEN {w} ELSE Owners(l)
      BY <2>1, <2>2, <2>3, <3>1, <3>2, <1>0 DEF Owners, TypeOK
    <3> QED BY <2>3, <2>4, <2>5, <3>3, <1>0 DEF MutualExclusion, Sems
  <2>6. CASE ~(val[s] + 1 <= 0)
    <3>1. UNCHANGED up
      BY <2>6, <2>1 DEF _post_sem
    <3>2. \A l \in Locks : Owners(l)' = IF l = s THEN {} ELSE Owners(l)
      BY <2>1, <2>2, <2>3, <3>1, <1>0 DEF Owners, TypeOK
    <3> QED BY <2>3, <2>4, <2>6, <3>2, <1>0 DEF MutualExclusion, Sems
  <2> QED BY <2>5, <2>6
<1>14. ASSUME NEW c \in Cpus, NEW p \in Procs, NEW s \in Sems, wait_sem_fast(c, p, s)
      PROVE  MutualExclusion'
  <2>1. /\ phase[p] = "run" /\ val[s] - 1 >= 0 /\ val' = [val EXCEPT ![s] = @ - 1]
        /\ held' = [held EXCEPT ![p] = @ \cup ({s} \cap Locks)] /\ UNCHANGED <<waiting, up>>
    BY <1>14 DEF wait_sem_fast, At
  <2>2. ASSUME NEW l \in Locks
        PROVE  /\ \A q, r \in Owners(l)' : q = r
               /\ val'[l] <= 1 /\ (val'[l] = 1 <=> Owners(l)' = {})
    <3>1. Owners(l)' = IF l = s THEN Owners(l) \cup {p} ELSE Owners(l)
      BY <2>1, <1>0 DEF Owners, TypeOK
    <3>2. val[l] \in Int /\ val'[l] = IF l = s THEN val[l] - 1 ELSE val[l]
      BY <2>1, <1>0 DEF TypeOK, Sems
    <3>3. l = s => val[l] = 1 /\ Owners(l) = {}
      BY <2>1, <3>2, <1>0 DEF MutualExclusion
    <3> QED BY <3>1, <3>2, <3>3, <1>0 DEF MutualExclusion
  <2> QED BY <2>2 DEF MutualExclusion
<1>15. ASSUME NEW c \in Cpus, NEW p \in Procs, NEW s \in Sems, NEW a \in BOOLEAN, wait_sem_sleep(c, p, s, a)
      PROVE  MutualExclusion'
  <2>1. /\ phase[p] = "run" /\ val[s] - 1 < 0 /\ val' = [val EXCEPT ![s] = @ - 1]
        /\ waiting' = [waiting EXCEPT ![p] = s] /\ up' = [up EXCEPT ![p] = FALSE]
        /\ UNCHANGED held
    BY <1>15 DEF wait_sem_sleep, At
  <2>2. waiting[p] = None
    BY <2>1, <1>0 DEF WaitInv
  <2>3. ASSUME NEW l \in Locks
        PROVE  /\ \A q, r \in Owners(l)' : q = r
               /\ val'[l] <= 1 /\ (val'[l] = 1 <=> Owners(l)' = {})
    <3>1. Owners(l)' = Owners(l)
      BY <2>1, <2>2, <1>0 DEF Owners, TypeOK
    <3>2. val[l] \in Int /\ val'[l] = IF l = s THEN val[l] - 1 ELSE val[l]
      BY <2>1, <1>0 DEF TypeOK, Sems
    <3>3. l = s => val[l] <= 0
      BY <2>1, <3>2
    <3> QED BY <3>1, <3>2, <3>3, <1>0 DEF MutualExclusion
  <2> QED BY <2>3 DEF MutualExclusion
<1>16. CASE UNCHANGED vars
  BY <1>16, <1>a DEF vars, semVars
<1> QED BY <1>1, <1>2, <1>3, <1>4, <1>5, <1>6, <1>7, <1>8, <1>9, <1>10, <1>11, <1>12, <1>13, <1>14, <1>15, <1>16 DEF Next

\* _post_sem activates the waiter it marks; nobody else is between queueing its
\* WaitData and switching, because that takes the scheduler lock.
LEMMA PostSleep ==
  ASSUME IInv, NEW s \in Sems, _post_sem(s)
  PROVE  SleepInv'
<1>0. TypeOK /\ WaitInv /\ CpuInv /\ SleepInv
  BY DEF IInv
<1>1. UNCHANGED <<waiting, phase, newstate>>
  BY DEF _post_sem
<1>2. CASE val[s] + 1 <= 0
  <2> DEFINE w == Head(sleeplist[s])
  <2>1. w \in Procs /\ w \in Threads
    BY <1>2, PostTarget DEF Threads
  <2>2. _activate_proc(w, FALSE) /\ up' = [up EXCEPT ![w] = TRUE]
    BY <1>2 DEF _post_sem
  <2> HIDE DEF w
  <2>3. phase[w] # "sched"
    BY <2>1, <2>2, <1>0, SchedAssumption DEF _activate_proc, CpuInv
  <2>4. /\ state'[w] \notin {"SLEEPING", "DEEPSLEEPING"}
        /\ \A q \in Procs : q # w => state'[q] = state[q]
    BY <2>1, <2>2, <1>0 DEF _activate_proc, Activates, TypeOK, Threads
  <2> QED BY <1>1, <2>1, <2>2, <2>3, <2>4, <1>0 DEF SleepInv, TypeOK
<1>3. CASE ~(val[s] + 1 <= 0)
  BY <1>0, <1>1, <1>3 DEF _post_sem, SleepInv
<1> QED BY <1>2, <1>3

\* Who sleeps, or is about to, was not posted.
LEMMA SleepStep ==
  ASSUME IInv, [Next]_vars
  PROVE  SleepInv'
<1> USE SchedAssumption
<1>0. TypeOK /\ WaitInv /\ CpuInv /\ SleepInv
  BY DEF IInv
<1>1. ASSUME NEW c \in Cpus, acquire_sched_lock(c)
      PROVE  SleepInv'
  BY <1>1, <1>0 DEF SleepInv, TypeOK, Threads, semVars, acquire_sched_lock, At
<1>2. ASSUME NEW c \in Cpus, sched_return(c)
      PROVE  SleepInv'
  BY <1>2, <1>0 DEF SleepInv, TypeOK, Threads, semVars, sched_return, At, AfterSched
<1>3. ASSUME NEW c \in Cpus, sched(c)
      PROVE  SleepInv'
  <2>1. PICK t \in Threads, next \in Threads : Switch(c, t, next)
    BY <1>3, SchedFacts
  <2>2. phase[t] = "sched"
    BY <2>1 DEF Switch, At
  <2>3. \A u \in Threads : state'[u] = IF u = next THEN "RUNNING"
                                     ELSE IF u = t THEN newstate[t] ELSE state[u]
    BY <2>1, <1>0 DEF Switch, TypeOK
  <2>4. UNCHANGED <<waiting, up, newstate>> /\ phase' = [phase EXCEPT ![t] = "resume"]
    BY <2>1 DEF Switch, semVars
  <2> QED BY <2>2, <2>3, <2>4, <1>0 DEF SleepInv, TypeOK, Threads
<1>4. ASSUME NEW c \in Cpus, swtch(c)
      PROVE  SleepInv'
  BY <1>4, <1>0 DEF SleepInv, TypeOK, Threads, semVars, swtch, AfterSched
<1>5. ASSUME NEW c \in Cpus, yield(c)
      PROVE  SleepInv'
  BY <1>5, <1>0 DEF SleepInv, TypeOK, Threads, semVars, yield, schedVars, At
<1>6. ASSUME NEW c \in Cpus, idle_stop(c)
      PROVE  SleepInv'
  BY <1>6, <1>0 DEF SleepInv, TypeOK, Threads, semVars, idle_stop, schedVars, At
<1>7. ASSUME NEW c \in Cpus, kill_alert(c)
      PROVE  SleepInv'
  <2>1. PICK t \in Procs : /\ At(c, t, "alert") /\ _activate_proc(victim, TRUE)
                           /\ phase' = [phase EXCEPT ![t] = "run"]
    BY <1>7 DEF kill_alert
  <2>2. victim \in Procs
    BY <2>1 DEF IInv, AlertInv, At, Threads
  <2>3. \A q \in Procs : state'[q] \in {"SLEEPING", "DEEPSLEEPING"} => state'[q] = state[q]
    BY <2>1, <2>2, <1>0, ActivateFacts DEF TypeOK, Threads
  <2>4. UNCHANGED <<waiting, up, newstate>>
    BY <1>7 DEF kill_alert, semVars
  <2> QED BY <2>1, <2>3, <2>4, <1>0 DEF SleepInv, TypeOK, Threads
<1>8. ASSUME NEW c \in Cpus, NEW e \in Events, post_sem(c, e)
      PROVE  SleepInv'
  <2>1. e \in Sems /\ _post_sem(e)
    BY <1>8 DEF post_sem, Sems
  <2> QED BY <2>1, PostSleep
<1>9. ASSUME NEW c \in Cpus, NEW p \in Procs, kill_mark(c, p)
      PROVE  SleepInv'
  BY <1>9, <1>0 DEF SleepInv, TypeOK, Threads, semVars, kill_mark, At
<1>10. ASSUME NEW c \in Cpus, NEW p \in Procs, start_proc(c, p)
      PROVE  SleepInv'
  <2>1. \A q \in Procs : state'[q] \in {"SLEEPING", "DEEPSLEEPING"} => state'[q] = state[q]
    BY <1>10, <1>0, ActivateFacts DEF start_proc, TypeOK, Threads
  <2> QED BY <1>10, <2>1, <1>0 DEF SleepInv, start_proc, semVars
<1>11. ASSUME NEW c \in Cpus, NEW p \in Procs, exit(c, p)
      PROVE  SleepInv'
  BY <1>11, <1>0 DEF SleepInv, TypeOK, Threads, semVars, exit, At
<1>12. ASSUME NEW c \in Cpus, NEW p \in Procs, wait_sem_return(c, p)
      PROVE  SleepInv'
  <2>1. /\ At(c, p, "woken") /\ UNCHANGED state
        /\ waiting' = [waiting EXCEPT ![p] = None] /\ up' = [up EXCEPT ![p] = FALSE]
        /\ newstate' = [newstate EXCEPT ![p] = "RUNNABLE"]
        /\ \E f \in {"run", "halt"} : phase' = [phase EXCEPT ![p] = f]
    BY <1>12 DEF wait_sem_return, schedVars
  <2>2. state[p] = "RUNNING"
    BY <2>1, <1>0 DEF CpuInv, At
  <2> QED BY <2>1, <2>2, <1>0 DEF SleepInv, TypeOK, Threads
<1>13. ASSUME NEW c \in Cpus, NEW p \in Procs, NEW s \in Locks, release_sleeplock(c, p, s)
      PROVE  SleepInv'
  <2>1. s \in Sems /\ _post_sem(s)
    BY <1>13 DEF release_sleeplock, Sems
  <2> QED BY <2>1, PostSleep
<1>14. ASSUME NEW c \in Cpus, NEW p \in Procs, NEW s \in Sems, wait_sem_fast(c, p, s)
      PROVE  SleepInv'
  BY <1>14, <1>0 DEF SleepInv, TypeOK, Threads, semVars, wait_sem_fast, schedVars
<1>15. ASSUME NEW c \in Cpus, NEW p \in Procs, NEW s \in Sems, NEW a \in BOOLEAN, wait_sem_sleep(c, p, s, a)
      PROVE  SleepInv'
  BY <1>15, <1>0 DEF SleepInv, TypeOK, Threads, Sems, wait_sem_sleep, At
<1>16. CASE UNCHANGED vars
  BY <1>16, <1>0 DEF SleepInv, vars, schedVars, semVars
<1> QED BY <1>1, <1>2, <1>3, <1>4, <1>5, <1>6, <1>7, <1>8, <1>9, <1>10, <1>11, <1>12, <1>13, <1>14, <1>15, <1>16 DEF Next

\* A mark is seen by sched() or followed by the alert.
LEMMA KilledStep ==
  ASSUME IInv, [Next]_vars
  PROVE  KilledNotAsleep'
<1> USE SchedAssumption
<1>0. TypeOK /\ AlertInv /\ KilledNotAsleep
  BY DEF IInv
<1>1. ASSUME NEW c \in Cpus, acquire_sched_lock(c)
      PROVE  KilledNotAsleep'
  BY <1>1, <1>0 DEF KilledNotAsleep, acquire_sched_lock
<1>2. ASSUME NEW c \in Cpus, sched_return(c)
      PROVE  KilledNotAsleep'
  BY <1>2, <1>0 DEF KilledNotAsleep, sched_return
<1>3. ASSUME NEW c \in Cpus, sched(c)
      PROVE  KilledNotAsleep'
  <2>1. PICK t \in Threads, next \in Threads : Switch(c, t, next)
    BY <1>3, SchedFacts
  <2>2. \A u \in Threads : state'[u] = IF u = next THEN "RUNNING"
                                     ELSE IF u = t THEN newstate[t] ELSE state[u]
    BY <2>1, <1>0 DEF Switch, TypeOK
  <2>3. t \in Procs /\ killed[t] => newstate[t] = "ZOMBIE"
    BY <2>1 DEF Switch, KilledInSched
  <2>4. UNCHANGED <<killed, victim>>
    BY <2>1 DEF Switch
  <2> QED BY <2>2, <2>3, <2>4, <1>0 DEF KilledNotAsleep, Threads
<1>4. ASSUME NEW c \in Cpus, swtch(c)
      PROVE  KilledNotAsleep'
  BY <1>4, <1>0 DEF KilledNotAsleep, swtch
<1>5. ASSUME NEW c \in Cpus, yield(c)
      PROVE  KilledNotAsleep'
  BY <1>5, <1>0 DEF KilledNotAsleep, yield, schedVars
<1>6. ASSUME NEW c \in Cpus, idle_stop(c)
      PROVE  KilledNotAsleep'
  BY <1>6, <1>0 DEF KilledNotAsleep, idle_stop, schedVars
<1>7. ASSUME NEW c \in Cpus, kill_alert(c)
      PROVE  KilledNotAsleep'
  <2>1. PICK t \in Procs : At(c, t, "alert") /\ _activate_proc(victim, TRUE)
    BY <1>7 DEF kill_alert
  <2>2. victim \in Procs /\ victim # None
    BY <2>1, <1>0 DEF AlertInv, At, Threads
  <2>3. state'[victim] # "SLEEPING" /\ \A q \in Procs : q # victim => state'[q] = state[q]
    BY <2>1, <2>2, <1>0 DEF _activate_proc, Activates, TypeOK, Threads
  <2>4. killed' = killed
    BY <1>7 DEF kill_alert
  <2> QED BY <2>2, <2>3, <2>4, <1>0 DEF KilledNotAsleep
<1>8. ASSUME NEW c \in Cpus, NEW e \in Events, post_sem(c, e)
      PROVE  KilledNotAsleep'
  <2>1. e \in Sems /\ _post_sem(e)
    BY <1>8 DEF post_sem, Sems
  <2>2. \A q \in Procs : state'[q] = "SLEEPING" => state'[q] = state[q]
    <3>1. CASE val[e] + 1 <= 0
      <4>1. Head(sleeplist[e]) \in Procs /\ _activate_proc(Head(sleeplist[e]), FALSE)
        BY <3>1, <2>1, PostTarget DEF _post_sem
      <4> QED BY <4>1, <1>0, ActivateFacts DEF TypeOK, Threads
    <3>2. CASE ~(val[e] + 1 <= 0)
      BY <3>2, <2>1 DEF _post_sem
    <3> QED BY <3>1, <3>2
  <2> QED BY <2>1, <2>2, <1>0 DEF KilledNotAsleep, _post_sem
<1>9. ASSUME NEW c \in Cpus, NEW p \in Procs, kill_mark(c, p)
      PROVE  KilledNotAsleep'
  BY <1>9, <1>0 DEF KilledNotAsleep, kill_mark, TypeOK
<1>10. ASSUME NEW c \in Cpus, NEW p \in Procs, start_proc(c, p)
      PROVE  KilledNotAsleep'
  <2>1. \A q \in Procs : state'[q] = "SLEEPING" => state'[q] = state[q]
    BY <1>10, <1>0, ActivateFacts DEF start_proc, TypeOK, Threads
  <2> QED BY <1>10, <2>1, <1>0 DEF KilledNotAsleep, start_proc
<1>11. ASSUME NEW c \in Cpus, NEW p \in Procs, exit(c, p)
      PROVE  KilledNotAsleep'
  BY <1>11, <1>0 DEF KilledNotAsleep, exit
<1>12. ASSUME NEW c \in Cpus, NEW p \in Procs, wait_sem_return(c, p)
      PROVE  KilledNotAsleep'
  BY <1>12, <1>0 DEF KilledNotAsleep, wait_sem_return, schedVars
<1>13. ASSUME NEW c \in Cpus, NEW p \in Procs, NEW s \in Locks, release_sleeplock(c, p, s)
      PROVE  KilledNotAsleep'
  <2>1. s \in Sems /\ _post_sem(s)
    BY <1>13 DEF release_sleeplock, Sems
  <2>2. \A q \in Procs : state'[q] = "SLEEPING" => state'[q] = state[q]
    <3>1. CASE val[s] + 1 <= 0
      <4>1. Head(sleeplist[s]) \in Procs /\ _activate_proc(Head(sleeplist[s]), FALSE)
        BY <3>1, <2>1, PostTarget DEF _post_sem
      <4> QED BY <4>1, <1>0, ActivateFacts DEF TypeOK, Threads
    <3>2. CASE ~(val[s] + 1 <= 0)
      BY <3>2, <2>1 DEF _post_sem
    <3> QED BY <3>1, <3>2
  <2> QED BY <2>1, <2>2, <1>0 DEF KilledNotAsleep, _post_sem
<1>14. ASSUME NEW c \in Cpus, NEW p \in Procs, NEW s \in Sems, wait_sem_fast(c, p, s)
      PROVE  KilledNotAsleep'
  BY <1>14, <1>0 DEF KilledNotAsleep, wait_sem_fast, schedVars
<1>15. ASSUME NEW c \in Cpus, NEW p \in Procs, NEW s \in Sems, NEW a \in BOOLEAN, wait_sem_sleep(c, p, s, a)
      PROVE  KilledNotAsleep'
  BY <1>15, <1>0 DEF KilledNotAsleep, wait_sem_sleep
<1>16. CASE UNCHANGED vars
  BY <1>16, <1>0 DEF KilledNotAsleep, vars, schedVars
<1> QED BY <1>1, <1>2, <1>3, <1>4, <1>5, <1>6, <1>7, <1>8, <1>9, <1>10, <1>11, <1>12, <1>13, <1>14, <1>15, <1>16 DEF Next
=============================================================================
