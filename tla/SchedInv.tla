------------------------------ MODULE SchedInv ------------------------------
(***************************************************************************)
(* The inductive invariant of module Sched, and what its operators do      *)
(* under it, for any number of processes, CPUs and semaphores.             *)
(***************************************************************************)
EXTENDS Sched, SequenceTheorems, WellFoundedInduction, TLAPS

-----------------------------------------------------------------------------
(* Lists.                                                                  *)

\* What unlinking an element that occurs once does to a list.
LEMMA DetachFacts ==
  ASSUME NEW S, NEW list \in Seq(S), NEW p, Contains(list, p), IsInjective(list)
  PROVE  /\ Detach(list, p) \in Seq(S)
         /\ Len(Detach(list, p)) = Len(list) - 1
         /\ IsInjective(Detach(list, p))
         /\ \A q : Contains(Detach(list, p), q) <=> Contains(list, q) /\ q # p
<1> DEFINE k == CHOOSE i \in DOMAIN list : list[i] = p
           d == Detach(list, p)
           n == Len(list)
<1>1. k \in 1..n /\ list[k] = p /\ n \in Nat /\ DOMAIN list = 1..n
  BY DEF Contains
<1> DEFINE x == SubSeq(list, 1, k-1)
           y == SubSeq(list, k+1, n)
<1>2. d = x \o y
  BY DEF Detach, RemoveAt
<1> HIDE DEF k, d
<1>3. x \in Seq(S) /\ Len(x) = k-1 /\ \A i \in 1..(k-1) : x[i] = list[i]
  <2>1. \A i \in 1..(k-1) : list[i] \in S
    BY <1>1
  <2> QED BY <2>1, <1>1, SubSeqProperties
<1>4. y \in Seq(S) /\ Len(y) = n-k /\ \A i \in 1..(n-k) : y[i] = list[k+i]
  <2>1. \A i \in (k+1)..n : list[i] \in S
    BY <1>1
  <2>2. k+1 \in Int /\ n \in Int /\ n-(k+1)+1 = n-k
    BY <1>1
  <2>3. /\ y \in Seq(S)
        /\ Len(y) = IF k+1 <= n THEN n-(k+1)+1 ELSE 0
        /\ \A i \in 1..(n-(k+1)+1) : y[i] = list[(k+1)+i-1]
    BY <2>1, <2>2, SubSeqProperties
  <2> HIDE DEF y
  <2>4. Len(y) = n-k
    <3>1. k \in 1..n /\ n \in Nat
      BY <1>1
    <3>2. (k+1 <= n) \/ (~(k+1 <= n) /\ n-k = 0)
      <4> HIDE DEF n
      <4> QED BY <3>1
    <3> QED BY <3>2, <2>2, <2>3
  <2>5. ASSUME NEW i \in 1..(n-k) PROVE y[i] = list[k+i]
    <3>1. i \in 1..(n-(k+1)+1) /\ (k+1)+i-1 = k+i
      BY <2>2, <1>1
    <3> QED BY <3>1, <2>3
  <2> QED BY <2>3, <2>4, <2>5
<1> HIDE DEF x, y
<1>5. /\ d \in Seq(S) /\ Len(d) = n-1 /\ DOMAIN d = 1..(n-1)
      /\ \A i \in 1..(n-1) : d[i] = IF i < k THEN list[i] ELSE list[i+1]
  <2>1. /\ x \o y \in Seq(S) /\ Len(x \o y) = Len(x) + Len(y)
        /\ \A i \in 1..(Len(x) + Len(y)) :
             (x \o y)[i] = IF i <= Len(x) THEN x[i] ELSE y[i - Len(x)]
    BY <1>3, <1>4, ConcatProperties
  <2>2. /\ d \in Seq(S) /\ Len(d) = n-1
        /\ \A i \in 1..(n-1) : d[i] = IF i <= k-1 THEN x[i] ELSE y[i - (k-1)]
    <3>1. Len(x) + Len(y) = n-1
      BY <1>1, <1>3, <1>4
    <3> QED BY <2>1, <3>1, <1>2, <1>3
  <2>3. DOMAIN d = 1..(n-1)
    BY <2>2
  <2>4. ASSUME NEW i \in 1..(n-1)
        PROVE  d[i] = IF i < k THEN list[i] ELSE list[i+1]
    <3>1. CASE i < k
      <4>1. i \in 1..(k-1) /\ i <= k-1
        BY <3>1, <1>1
      <4> QED BY <4>1, <3>1, <2>2, <1>3
    <3>2. CASE i >= k
      <4>1. i - (k-1) \in 1..(n-k) /\ k + (i - (k-1)) = i+1 /\ ~(i <= k-1)
        BY <3>2, <1>1
      <4> QED BY <4>1, <3>2, <2>2, <1>1, <1>4
    <3> QED BY <3>1, <3>2, <1>1
  <2> QED BY <2>2, <2>3, <2>4
<1>6. IsInjective(d)
  <2>1. ASSUME NEW i \in 1..(n-1), NEW j \in 1..(n-1), d[i] = d[j] PROVE i = j
    <3> DEFINE a == IF i < k THEN i ELSE i+1
               b == IF j < k THEN j ELSE j+1
    <3>1. a \in 1..n /\ b \in 1..n /\ list[a] = list[b]
      BY <2>1, <1>1, <1>5
    <3>2. a = b
      BY <3>1, <1>1 DEF IsInjective
    <3> QED BY <3>2, <1>1
  <2> QED BY <2>1, <1>5 DEF IsInjective
<1>7. ASSUME NEW q PROVE Contains(d, q) <=> Contains(list, q) /\ q # p
  <2>1. ASSUME Contains(d, q) PROVE Contains(list, q) /\ q # p
    BY <2>1, <1>1, <1>5 DEF Contains, IsInjective
  <2>2. ASSUME Contains(list, q), q # p PROVE Contains(d, q)
    <3>1. PICK i \in 1..n : list[i] = q
      BY <2>2 DEF Contains
    <3>2. CASE i < k
      BY <3>1, <3>2, <1>1, <1>5 DEF Contains
    <3>3. CASE i > k
      <4>1. (i-1) \in 1..(n-1) /\ d[i-1] = list[i]
        BY <3>1, <3>3, <1>1, <1>5
      <4> QED BY <4>1, <3>1, <1>5 DEF Contains
    <3> QED BY <3>1, <3>2, <3>3, <2>2, <1>1
  <2> QED BY <2>1, <2>2
<1> QED BY <1>5, <1>6, <1>7 DEF d

\* What linking a new element at the front, or queueing it at the end, does.
LEMMA InsertFacts ==
  ASSUME NEW S, NEW list \in Seq(S), NEW p \in S
  PROVE  /\ <<p>> \o list \in Seq(S) /\ Append(list, p) \in Seq(S)
         /\ Len(Append(list, p)) = Len(list) + 1
         /\ \A q : Contains(<<p>> \o list, q) <=> Contains(list, q) \/ q = p
         /\ \A q : Contains(Append(list, p), q) <=> Contains(list, q) \/ q = p
         /\ IsInjective(list) /\ ~Contains(list, p)
              => IsInjective(<<p>> \o list) /\ IsInjective(Append(list, p))
<1> DEFINE n == Len(list)
           f == <<p>> \o list
           a == Append(list, p)
<1>1. n \in Nat /\ DOMAIN list = 1..n
  OBVIOUS
<1>2. <<p>> \in Seq(S) /\ Len(<<p>>) = 1 /\ <<p>>[1] = p
  OBVIOUS
<1>3. /\ f \in Seq(S) /\ Len(f) = n+1 /\ DOMAIN f = 1..(n+1)
      /\ f[1] = p /\ \A i \in 2..(n+1) : f[i] = list[i-1]
  BY <1>1, <1>2, ConcatProperties
<1>4. /\ a \in Seq(S) /\ Len(a) = n+1 /\ DOMAIN a = 1..(n+1)
      /\ a[n+1] = p /\ \A i \in 1..n : a[i] = list[i]
  BY <1>1, AppendProperties
<1> HIDE DEF f, a
<1>5. ASSUME NEW q PROVE Contains(f, q) <=> Contains(list, q) \/ q = p
  <2>1. ASSUME Contains(list, q) PROVE Contains(f, q)
    <3>1. PICK i \in 1..n : list[i] = q
      BY <2>1 DEF Contains
    <3>2. (i+1) \in 1..(n+1) /\ f[i+1] = q
      BY <3>1, <1>1, <1>3
    <3> QED BY <3>2, <1>3 DEF Contains
  <2>2. ASSUME Contains(f, q), q # p PROVE Contains(list, q)
    <3>1. PICK i \in 1..(n+1) : f[i] = q
      BY <2>2, <1>3 DEF Contains
    <3>2. (i-1) \in 1..n /\ list[i-1] = q
      BY <3>1, <2>2, <1>1, <1>3
    <3> QED BY <3>2 DEF Contains
  <2>3. Contains(f, p)
    BY <1>1, <1>3 DEF Contains
  <2> QED BY <2>1, <2>2, <2>3
<1>6. ASSUME NEW q PROVE Contains(a, q) <=> Contains(list, q) \/ q = p
  BY <1>1, <1>4 DEF Contains
<1>7. ASSUME IsInjective(list), ~Contains(list, p)
      PROVE  IsInjective(f) /\ IsInjective(a)
  <2>1. \A i \in 1..n : list[i] # p
    BY <1>7 DEF Contains
  <2>2. ASSUME NEW i \in 1..(n+1), NEW j \in 1..(n+1), f[i] = f[j] PROVE i = j
    <3>1. CASE i = 1 \/ j = 1
      BY <3>1, <2>1, <2>2, <1>1, <1>3
    <3>2. CASE i # 1 /\ j # 1
      <4>1. i-1 \in 1..n /\ j-1 \in 1..n /\ list[i-1] = list[j-1]
        BY <3>2, <2>2, <1>1, <1>3
      <4>2. i-1 = j-1
        BY <4>1, <1>1, <1>7 DEF IsInjective
      <4> QED BY <4>2, <1>1
    <3> QED BY <3>1, <3>2
  <2>3. IsInjective(a)
    BY <1>1, <1>4, <1>7, <2>1 DEF IsInjective
  <2> QED BY <2>2, <2>3, <1>3 DEF IsInjective
<1> QED BY <1>3, <1>4, <1>5, <1>6, <1>7 DEF f, a

\* The same for one that is queued at the end of a list it is not on.
LEMMA AppendFacts ==
  ASSUME NEW S, NEW list \in Seq(S), NEW p \in S, IsInjective(list), ~Contains(list, p)
  PROVE  /\ IsInjective(Append(list, p)) /\ Len(Append(list, p)) = Len(list) + 1
         /\ \A q : Contains(Append(list, p), q) <=> Contains(list, q) \/ q = p
BY InsertFacts

\* What taking the oldest waiter off a list does.
LEMMA HeadTailFacts ==
  ASSUME NEW S, NEW list \in Seq(S), Len(list) > 0, IsInjective(list)
  PROVE  /\ Head(list) \in S /\ Contains(list, Head(list))
         /\ Tail(list) \in Seq(S) /\ Len(Tail(list)) = Len(list) - 1
         /\ IsInjective(Tail(list))
         /\ \A q : Contains(Tail(list), q) <=> Contains(list, q) /\ q # Head(list)
<1> DEFINE n == Len(list)
           t == Tail(list)
<1>1. n \in Nat /\ DOMAIN list = 1..n /\ n > 0 /\ list # <<>>
  OBVIOUS
<1>2. Head(list) = list[1] /\ Head(list) \in S
  BY <1>1
<1>3. /\ t \in Seq(S) /\ Len(t) = n-1 /\ DOMAIN t = 1..(n-1)
      /\ \A i \in 1..(n-1) : t[i] = list[i+1]
  BY <1>1, HeadTailProperties
<1> HIDE DEF t
<1>4. Contains(list, Head(list))
  BY <1>1, <1>2 DEF Contains
<1>5. IsInjective(t)
  BY <1>1, <1>3 DEF IsInjective
<1>6. ASSUME NEW q PROVE Contains(t, q) <=> Contains(list, q) /\ q # Head(list)
  <2>1. ASSUME Contains(t, q) PROVE Contains(list, q) /\ q # Head(list)
    BY <2>1, <1>1, <1>2, <1>3 DEF Contains, IsInjective
  <2>2. ASSUME Contains(list, q), q # Head(list) PROVE Contains(t, q)
    <3>1. PICK i \in 1..n : list[i] = q
      BY <2>2 DEF Contains
    <3>2. (i-1) \in 1..(n-1) /\ t[i-1] = q
      BY <3>1, <2>2, <1>1, <1>2, <1>3
    <3> QED BY <3>2, <1>3 DEF Contains
  <2> QED BY <2>1, <2>2
<1> QED BY <1>2, <1>3, <1>4, <1>5, <1>6 DEF t

\* A non-empty set of natural numbers has a least element.
LEMMA LeastNatural ==
  ASSUME NEW T \in SUBSET Nat, T # {}
  PROVE  \E x \in T : \A y \in T : x <= y
<1>1. PICK x \in T : \A y \in T : ~(<<y, x>> \in OpToRel(<, Nat))
  BY NatLessThanWellFounded, WFMin, Zenon
<1>2. ASSUME NEW y \in T PROVE ~(y < x)
  <2>1. SUFFICES ASSUME y < x PROVE <<y, x>> \in OpToRel(<, Nat)
    BY <1>1, Zenon
  <2>2. <<y, x>> \in {ss \in Nat \X Nat : ss[1] < ss[2]}
    BY <2>1, SMT
  <2> QED BY <2>2, Zenon DEF OpToRel
<1>3. \A y \in T : x <= y
  BY <1>2, x \in Nat
<1> QED BY <1>3, Zenon

-----------------------------------------------------------------------------
(* The inductive invariant.                                                *)

\* At most one kill() is between marking and alerting, and it has a victim.
AlertInv ==
  /\ \A t \in Threads : phase[t] = "alert" => t \in Procs /\ victim \in Procs
  /\ \A t, u \in Threads : phase[t] = "alert" /\ phase[u] = "alert" => t = u

\* What a CPU's view of the current thread is, with and without the scheduler
\* lock: only its holder may be on another stack than thisproc's.
CpuInv ==
  /\ \A c \in Cpus : thisproc[c] \in Procs \cup {c} /\ state[thisproc[c]] = "RUNNING"
  /\ \A c \in Cpus : stack[c] \in Procs \cup {c}
  /\ \A c, d \in Cpus : thisproc[c] = thisproc[d] => c = d
  /\ KernelStackExclusive
  /\ \A c \in Cpus : schedlock # c =>
       stack[c] = thisproc[c] /\ phase[stack[c]] \notin {"sched", "resume"}
  /\ \A c \in Cpus : schedlock = c =>
       /\ phase[stack[c]] \in {"sched", "resume"}
       /\ phase[stack[c]] = "sched" => stack[c] = thisproc[c]
  /\ \A t \in Threads : phase[t] = "sched" => schedlock \in Cpus /\ stack[schedlock] = t
  /\ \A c \in Cpus : thisproc[c] # c => state[c] = "RUNNABLE"
  /\ \A c \in Cpus : newstate[c] = "RUNNABLE"

\* A WaitData is on its semaphore's list exactly until it is posted or withdrawn.
WaitInv ==
  /\ \A p \in Procs : phase[p] \in {"run", "lock", "alert", "halt"} => waiting[p] = None
  /\ \A p \in Procs : phase[p] = "woken" => waiting[p] # None
  /\ \A s \in Sems : IsInjective(sleeplist[s])
  /\ \A s \in Sems, p \in Procs : Contains(sleeplist[s], p) <=> waiting[p] = s /\ ~up[p]
  /\ SemCount

\* Who sleeps, or is about to, has a WaitData that was not posted.
SleepInv ==
  /\ \A p \in Procs : state[p] \in {"SLEEPING", "DEEPSLEEPING"} => waiting[p] # None /\ ~up[p]
  /\ \A p \in Procs : phase[p] = "sched" /\ newstate[p] \in {"SLEEPING", "DEEPSLEEPING"}
       => waiting[p] # None /\ ~up[p]
  /\ \A p \in Procs : phase[p] = "lock" => newstate[p] = "RUNNABLE"

IInv ==
  /\ TypeOK /\ AlertInv /\ CpuInv /\ RunQueueExact
  /\ WaitInv /\ MutualExclusion /\ SleepInv /\ KilledNotAsleep

-----------------------------------------------------------------------------
(* The operators of the model.                                             *)

\* pick_next returns the idle thread or a runnable process of the queue.
LEMMA PickNextFacts ==
  ASSUME NEW c, NEW r \in Seq(Procs), NEW st, timeload \in [Procs -> Nat]
  PROVE  \/ pick_next(c, r, st) = c
         \/ /\ pick_next(c, r, st) \in Procs
            /\ Contains(r, pick_next(c, r, st))
            /\ st[pick_next(c, r, st)] = "RUNNABLE"
            /\ timeload[pick_next(c, r, st)] < MIN_LOAD
<1> DEFINE eligible == {i \in DOMAIN r : st[r[i]] = "RUNNABLE" /\ timeload[r[i]] < MIN_LOAD}
           Better(i, j) == \/ timeload[r[i]] < timeload[r[j]]
                           \/ timeload[r[i]] = timeload[r[j]] /\ i <= j
           k == CHOOSE i \in eligible : \A j \in eligible : Better(i, j)
<1>1. CASE eligible = {}
  BY <1>1 DEF pick_next
<1>2. CASE eligible # {}
  <2>1. DOMAIN r = 1..Len(r) /\ Len(r) \in Nat /\ \A i \in DOMAIN r : r[i] \in Procs
    OBVIOUS
  <2>2. \E i \in eligible : \A j \in eligible : Better(i, j)
    <3> DEFINE Loads == {timeload[r[i]] : i \in eligible}
    <3>1. Loads \in SUBSET Nat /\ Loads # {}
      BY <1>2, <2>1
    <3>2. PICK m \in Loads : \A y \in Loads : m <= y
      BY <3>1, LeastNatural
    <3> DEFINE Least == {i \in eligible : timeload[r[i]] = m}
    <3>3. Least \in SUBSET Nat /\ Least # {}
      BY <2>1, <3>2
    <3>4. PICK i \in Least : \A y \in Least : i <= y
      BY <3>3, LeastNatural
    <3>5. ASSUME NEW j \in eligible PROVE Better(i, j)
      <4>1. m \in Nat /\ timeload[r[j]] \in Nat /\ m <= timeload[r[j]] /\ timeload[r[i]] = m
        BY <3>1, <3>2, <3>4, <2>1
      <4>2. CASE timeload[r[j]] = m
        BY <4>1, <4>2, <3>4
      <4>3. CASE timeload[r[j]] # m
        BY <4>1, <4>3
      <4> QED BY <4>2, <4>3
    <3> QED BY <3>4, <3>5
  <2>3. k \in eligible
    BY <2>2
  <2>4. pick_next(c, r, st) = r[k]
    BY <1>2 DEF pick_next
  <2> HIDE DEF k
  <2> QED BY <2>1, <2>3, <2>4 DEF Contains
<1> QED BY <1>1, <1>2

\* update_this_state unlinks exactly the process that stops being runnable.
LEMMA RunQueueUpdate ==
  ASSUME IInv, NEW c \in Cpus, NEW t \in Threads, At(c, t, "sched"), schedlock = c, NEW new
  PROVE  LET r == update_this_state(t, new) IN
         /\ r \in Seq(Procs) /\ IsInjective(r)
         /\ \A q : Contains(r, q) <=>
              /\ Contains(rq, q)
              /\ q # t \/ new \in {"RUNNABLE", "RUNNING"}
<1>1. rq \in Seq(Procs) /\ IsInjective(rq)
  BY DEF IInv, TypeOK, RunQueueExact
<1>2. state[t] = "RUNNING"
  BY DEF IInv, CpuInv, At
<1>3. CASE t \in Procs
  <2>1. Contains(rq, t)
    BY <1>2, <1>3 DEF IInv, RunQueueExact
  <2> QED BY <1>1, <1>3, <2>1, DetachFacts DEF update_this_state
<1>4. CASE t \notin Procs
  <2>1. ~Contains(rq, t)
    BY <1>1, <1>4 DEF Contains
  <2> QED BY <1>1, <1>4, <2>1 DEF update_this_state
<1> QED BY <1>3, <1>4

\* _activate_proc leaves running threads and idle threads alone.
ActivateKeeps ==
  /\ \A t \in Threads : state[t] = "RUNNING" => state'[t] = "RUNNING"
  /\ \A c \in Cpus : state'[c] = state[c]

\* _activate_proc makes a sleeping or new process runnable and queues it.
LEMMA ActivateFacts ==
  ASSUME TypeOK, NEW p \in Procs, NEW onalert \in BOOLEAN, _activate_proc(p, onalert)
  PROVE  /\ schedlock = None /\ ActivateKeeps
         /\ state' \in [Threads -> ProcState] /\ rq' \in Seq(Procs)
         /\ \/ /\ state[p] \in {"UNUSED", "SLEEPING", "DEEPSLEEPING"}
               /\ state' = [state EXCEPT ![p] = "RUNNABLE"]
               /\ rq' = <<p>> \o rq
            \/ ~Activates(p, onalert) /\ UNCHANGED <<state, rq>>
<1>1. rq \in Seq(Procs)
  BY DEF TypeOK
<1>2. <<p>> \o rq \in Seq(Procs)
  BY <1>1, InsertFacts
<1>3. CASE Activates(p, onalert)
  <2>1. /\ schedlock = None /\ rq' = <<p>> \o rq
        /\ state[p] \in {"UNUSED", "SLEEPING", "DEEPSLEEPING"}
        /\ state' = [state EXCEPT ![p] = "RUNNABLE"]
    BY <1>3 DEF _activate_proc, Activates
  <2>2. state' \in [Threads -> ProcState] /\ ActivateKeeps
    BY <2>1, SchedAssumption DEF TypeOK, ProcState, Threads, ActivateKeeps
  <2> QED BY <2>1, <2>2, <1>2
<1>4. CASE ~Activates(p, onalert)
  BY <1>1, <1>4 DEF _activate_proc, TypeOK, ActivateKeeps
<1> QED BY <1>3, <1>4

\* When _post_sem hands the unit over, there is a waiter to take it.
LEMMA PostTarget ==
  ASSUME IInv, NEW s \in Sems, val[s] + 1 <= 0
  PROVE  /\ Len(sleeplist[s]) > 0 /\ Head(sleeplist[s]) \in Procs
         /\ waiting[Head(sleeplist[s])] = s /\ ~up[Head(sleeplist[s])]
<1>1. val[s] \in Int /\ sleeplist[s] \in Seq(Procs) /\ IsInjective(sleeplist[s])
  BY DEF IInv, TypeOK, WaitInv
<1>2. Len(sleeplist[s]) > 0
  BY <1>1 DEF IInv, WaitInv, SemCount
<1>3. Head(sleeplist[s]) \in Procs /\ Contains(sleeplist[s], Head(sleeplist[s]))
  BY <1>1, <1>2, HeadTailFacts
<1> QED BY <1>2, <1>3 DEF IInv, WaitInv

\* The variables that _post_sem changes keep their types.
LEMMA PostType ==
  ASSUME IInv, NEW s \in Sems, _post_sem(s)
  PROVE  /\ val' \in [Sems -> Int] /\ sleeplist' \in [Sems -> Seq(Procs)]
         /\ up' \in [Procs -> BOOLEAN] /\ state' \in [Threads -> ProcState]
         /\ rq' \in Seq(Procs)
         /\ UNCHANGED <<killed, timeload, thisproc, stack, schedlock, victim,
                        waiting, phase, newstate, panic_flag>>
<1>1. TypeOK
  BY DEF IInv
<1>2. val' \in [Sems -> Int]
  BY <1>1 DEF _post_sem, TypeOK
<1>3. CASE val[s] + 1 <= 0
  <2> DEFINE w == Head(sleeplist[s])
  <2>1. w \in Procs /\ Len(sleeplist[s]) > 0
    BY <1>3, PostTarget
  <2>2. Tail(sleeplist[s]) \in Seq(Procs)
    <3>1. sleeplist[s] \in Seq(Procs) /\ IsInjective(sleeplist[s])
      BY DEF IInv, TypeOK, WaitInv
    <3> QED BY <3>1, <2>1, HeadTailFacts
  <2>3. /\ up' = [up EXCEPT ![w] = TRUE]
        /\ sleeplist' = [sleeplist EXCEPT ![s] = Tail(@)]
        /\ _activate_proc(w, FALSE)
    BY <1>3 DEF _post_sem
  <2> HIDE DEF w
  <2>4. state' \in [Threads -> ProcState] /\ rq' \in Seq(Procs)
    BY <2>1, <2>3, <1>1, ActivateFacts
  <2> QED BY <1>1, <1>2, <2>1, <2>2, <2>3, <2>4 DEF _post_sem, TypeOK
<1>4. CASE ~(val[s] + 1 <= 0)
  BY <1>1, <1>2, <1>4 DEF _post_sem, TypeOK
<1> QED BY <1>3, <1>4

\* sched(c), where the CPU goes from thread t to thread next.
Switch(c, t, next) ==
  /\ At(c, t, "sched") /\ schedlock = c /\ ~KilledInSched(t)
  /\ \/ next = c
     \/ /\ next \in Procs /\ Contains(rq', next) /\ timeload[next] < MIN_LOAD
        /\ (IF next = t THEN newstate[t] ELSE state[next]) = "RUNNABLE"
  /\ rq' = update_this_state(t, newstate[t])
  /\ state' = [state EXCEPT ![t] = newstate[t], ![next] = "RUNNING"]
  /\ timeload' = IF next \in Procs THEN [timeload EXCEPT ![next] = @ + 1] ELSE timeload
  /\ thisproc' = [thisproc EXCEPT ![c] = next]
  /\ phase' = [phase EXCEPT ![t] = "resume"]
  /\ UNCHANGED <<killed, stack, schedlock, victim, semVars, newstate, panic_flag>>

\* Every step of sched() is such a switch: what pick_next returns is the idle thread
\* or a runnable process of the queue whose load is below the starting value.
LEMMA SchedFacts ==
  ASSUME IInv, NEW c \in Cpus, sched(c)
  PROVE  \E t, next \in Threads : Switch(c, t, next)
<1>1. PICK t \in Threads :
        /\ At(c, t, "sched") /\ schedlock = c /\ ~KilledInSched(t)
        /\ LET st == [state EXCEPT ![t] = newstate[t]]
               r == update_this_state(t, newstate[t])
               next == pick_next(c, r, st)
           IN /\ rq' = r
              /\ state' = [st EXCEPT ![next] = "RUNNING"]
              /\ timeload' = IF next \in Procs
                             THEN [timeload EXCEPT ![next] = @ + 1] ELSE timeload
              /\ thisproc' = [thisproc EXCEPT ![c] = next]
        /\ phase' = [phase EXCEPT ![t] = "resume"]
        /\ UNCHANGED <<killed, stack, schedlock, victim, semVars, newstate, panic_flag>>
  BY DEF sched
<1> DEFINE st == [state EXCEPT ![t] = newstate[t]]
           r == update_this_state(t, newstate[t])
           next == pick_next(c, r, st)
<1>2. r \in Seq(Procs)
  BY <1>1, RunQueueUpdate
<1>3. st \in [Threads -> ProcState] /\ timeload \in [Procs -> Nat]
      /\ \A u \in Threads : st[u] = IF u = t THEN newstate[t] ELSE state[u]
  BY DEF IInv, TypeOK
<1> HIDE DEF st, r
<1>4. next = c \/ (next \in Procs /\ Contains(r, next) /\ st[next] = "RUNNABLE"
                    /\ timeload[next] < MIN_LOAD)
  BY <1>2, <1>3, PickNextFacts
<1>5. rq' = r /\ state' = [st EXCEPT ![next] = "RUNNING"]
      /\ timeload' = (IF next \in Procs
                      THEN [timeload EXCEPT ![next] = @ + 1] ELSE timeload)
      /\ thisproc' = [thisproc EXCEPT ![c] = next]
  BY <1>1 DEF st, r
<1> HIDE DEF next
<1>6. next \in Threads
  BY <1>4 DEF Threads
<1>7. [st EXCEPT ![next] = "RUNNING"] = [state EXCEPT ![t] = newstate[t], ![next] = "RUNNING"]
  BY DEF st
<1>8. Switch(c, t, next)
  BY <1>1, <1>3, <1>4, <1>5, <1>6, <1>7 DEF Switch, r, Threads
<1> QED BY <1>6, <1>8
=============================================================================
