------------------------------- MODULE Sched -------------------------------
(***************************************************************************)
(* The scheduler (kernel/sched.c), the semaphores built on it              *)
(* (common/sem.c, common/sem.h) and the part of kill(), exit() and         *)
(* start_proc() (kernel/proc.c) that acts on a process's scheduling state. *)
(*                                                                         *)
(* Kernel code runs with interrupts masked, so what interleaves are the    *)
(* CPUs, between two acquisitions of a spinlock.  A critical section that  *)
(* takes its locks in a fixed order and releases them all is one action.   *)
(* sched() is split where its order matters: the scheduler lock is taken   *)
(* by the thread that leaves the CPU and released by the one that enters.  *)
(*                                                                         *)
(* A thread is a process or the idle thread of a CPU; the idle thread of   *)
(* CPU c is written c itself.  Every semaphore is either a sleep lock      *)
(* (created with 1, posted only by its holder) or an event (created with   *)
(* 0, posted by anyone, interrupt handlers included).                      *)
(***************************************************************************)
EXTENDS Integers, FiniteSets, Sequences, SequencesExt

CONSTANTS
  Procs,     \* the processes
  Cpus,      \* the CPUs, which also name their idle threads
  Locks,     \* semaphores used as sleep locks
  Events,    \* semaphores used to signal events
  Root,      \* root_proc, the process started by init_kproc
  MIN_LOAD,  \* where pick_next starts its search for the least load (1000000)
  MaxVal,    \* bound: an event is not posted beyond this value
  None       \* "no semaphore", "no CPU", "no process"

ASSUME SchedAssumption ==
  /\ Procs \cap Cpus = {} /\ Locks \cap Events = {}
  /\ Root \in Procs
  /\ MIN_LOAD \in Nat \ {0} /\ MaxVal \in Nat
  /\ None \notin Procs \cup Cpus \cup Locks \cup Events

Threads == Procs \cup Cpus
Sems == Locks \cup Events

ProcState ==
  {"UNUSED", "RUNNABLE", "RUNNING", "SLEEPING", "DEEPSLEEPING", "ZOMBIE"}

(***************************************************************************)
(* Where a thread's kernel code is: running; spinning for the scheduler    *)
(* lock; about to call sched() with the lock held; switched out (or just   *)
(* switched in) after swtch; back in _wait_sem; between marking a process  *)
(* as killed and alerting it; stopped for good.                            *)
(***************************************************************************)
Phase == {"run", "lock", "sched", "resume", "woken", "alert", "halt"}

VARIABLES
  state,      \* Proc.state of every thread
  killed,     \* Proc.killed of every process
  timeload,   \* Proc.timeload of every process
  rq,         \* the runnable/running queue, latest insertion first
  thisproc,   \* cpus[c].sched.thisproc
  stack,      \* the thread on whose kernel stack CPU c executes
  schedlock,  \* the CPU holding schedulerlock, or None
  victim,     \* the process kill() is about to alert under processlock, or None
  phase,      \* where each thread is
  newstate,   \* the argument of the sched() call a thread makes
  val,        \* Semaphore.val
  sleeplist,  \* Semaphore.sleeplist, oldest waiter first
  waiting,    \* the semaphore a process has a WaitData in, or None
  up,         \* WaitData.up of that WaitData
  held,       \* the sleep locks a process holds
  panic_flag

schedVars == <<state, killed, timeload, rq, thisproc, stack, schedlock, victim>>
semVars == <<val, sleeplist, waiting, up, held>>
vars == <<schedVars, semVars, phase, newstate, panic_flag>>

Init ==
  /\ state = [t \in Threads |-> IF t \in Cpus THEN "RUNNING"
                                ELSE IF t = Root THEN "RUNNABLE" ELSE "UNUSED"]
  /\ killed = [p \in Procs |-> FALSE]
  /\ timeload = [p \in Procs |-> 0]
  /\ rq = <<Root>>
  /\ thisproc = [c \in Cpus |-> c]
  /\ stack = [c \in Cpus |-> c]
  /\ schedlock = None
  /\ victim = None
  /\ phase = [t \in Threads |-> IF t \in Cpus THEN "run" ELSE "resume"]
  /\ newstate = [t \in Threads |-> "RUNNABLE"]
  /\ val = [s \in Sems |-> IF s \in Locks THEN 1 ELSE 0]
  /\ sleeplist = [s \in Sems |-> <<>>]
  /\ waiting = [p \in Procs |-> None]
  /\ up = [p \in Procs |-> FALSE]
  /\ held = [p \in Procs |-> {}]
  /\ panic_flag = FALSE

\* CPU c runs thread t, which is at phase ph.
At(c, t, ph) == stack[c] = t /\ phase[t] = ph

\* _detach_from_list of p's node; a process is on such a list at most once.
Detach(list, p) == RemoveAt(list, CHOOSE i \in DOMAIN list : list[i] = p)

-----------------------------------------------------------------------------
(* _activate_proc, from the state of p and the run queue.                  *)

\* Mutated forms: a deep sleeper is never activated; an alert does not reach a
\* sleeper.
Activates_no_deep(p, onalert) == state[p] \in {"SLEEPING", "UNUSED"}
Activates_no_alert(p, onalert) ==
  \/ state[p] = "UNUSED"
  \/ state[p] \in {"SLEEPING", "DEEPSLEEPING"} /\ ~onalert

Activates(p, onalert) ==
  \/ state[p] \in {"SLEEPING", "UNUSED"}
  \/ state[p] = "DEEPSLEEPING" /\ ~onalert

_activate_proc(p, onalert) ==
  /\ schedlock = None
  /\ IF Activates(p, onalert)
     THEN /\ state' = [state EXCEPT ![p] = "RUNNABLE"]
          /\ rq' = <<p>> \o rq
     ELSE UNCHANGED <<state, rq>>

\* Mutated forms: a running process may be chosen; only the first node is tried.
pick_next_any(c, r, st) ==
  IF \E i \in DOMAIN r : timeload[r[i]] < MIN_LOAD
  THEN r[CHOOSE i \in DOMAIN r : timeload[r[i]] < MIN_LOAD] ELSE c
pick_next_head(c, r, st) ==
  IF r # <<>> /\ st[Head(r)] = "RUNNABLE" /\ timeload[Head(r)] < MIN_LOAD
  THEN Head(r) ELSE c

\* The first process of least load in queue r that is runnable under st, if its
\* load is below MIN_LOAD; else the idle thread of c.
pick_next(c, r, st) ==
  LET eligible == {i \in DOMAIN r : st[r[i]] = "RUNNABLE" /\ timeload[r[i]] < MIN_LOAD}
      Better(i, j) == \/ timeload[r[i]] < timeload[r[j]]
                      \/ timeload[r[i]] = timeload[r[j]] /\ i <= j
  IN IF eligible = {} THEN c
     ELSE r[CHOOSE i \in eligible : \A j \in eligible : Better(i, j)]

\* The run queue after update_this_state(new) of thread t.
update_this_state(t, new) ==
  IF t \in Procs /\ new \notin {"RUNNABLE", "RUNNING"} THEN Detach(rq, t) ELSE rq

-----------------------------------------------------------------------------
(* sched(), called with the scheduler lock held.                           *)

acquire_sched_lock(c) ==
  \E t \in Threads :
    /\ At(c, t, "lock") /\ schedlock = None
    /\ schedlock' = c
    /\ phase' = [phase EXCEPT ![t] = "sched"]
    /\ UNCHANGED <<state, killed, timeload, rq, thisproc, stack, victim,
                   semVars, newstate, panic_flag>>

\* Where a thread continues when its call of sched() returns.
AfterSched(t) == IF t \in Procs /\ waiting[t] # None THEN "woken" ELSE "run"

KilledInSched(t) == t \in Procs /\ killed[t] /\ newstate[t] # "ZOMBIE"

\* A killed process is not descheduled: sched() returns at once.
sched_return(c) ==
  \E t \in Threads :
    /\ At(c, t, "sched") /\ schedlock = c
    /\ KilledInSched(t)
    /\ schedlock' = None
    /\ phase' = [phase EXCEPT ![t] = AfterSched(t)]
    /\ UNCHANGED <<state, killed, timeload, rq, thisproc, stack, victim,
                   semVars, newstate, panic_flag>>

sched(c) ==
  \E t \in Threads :
    /\ At(c, t, "sched") /\ schedlock = c
    /\ ~KilledInSched(t)
    /\ LET st == [state EXCEPT ![t] = newstate[t]]
           r == update_this_state(t, newstate[t])
           next == pick_next(c, r, st)
       IN /\ rq' = r
          /\ state' = [st EXCEPT ![next] = "RUNNING"]
          /\ timeload' = IF next \in Procs
                         THEN [timeload EXCEPT ![next] = @ + 1] ELSE timeload
          /\ thisproc' = [thisproc EXCEPT ![c] = next]
    /\ phase' = [phase EXCEPT ![t] = "resume"]
    /\ UNCHANGED <<killed, stack, schedlock, victim, semVars, newstate, panic_flag>>

\* swtch to the chosen thread's stack, where the thread releases the scheduler
\* lock, in sched() or, the first time it runs, in proc_entry.
swtch(c) ==
  LET t == thisproc[c] IN
    /\ schedlock = c
    /\ phase[stack[c]] = "resume"
    /\ stack' = [stack EXCEPT ![c] = t]
    /\ schedlock' = None
    /\ phase' = [phase EXCEPT ![t] = AfterSched(t)]
    /\ UNCHANGED <<state, killed, timeload, rq, thisproc, victim, semVars,
                   newstate, panic_flag>>

\* yield(), the idle loop and the timer interrupt (sched_timer_handler).
yield(c) ==
  \E t \in Threads :
    /\ At(c, t, "run")
    /\ t \in Cpus => ~panic_flag
    /\ phase' = [phase EXCEPT ![t] = "lock"]
    /\ newstate' = [newstate EXCEPT ![t] = "RUNNABLE"]
    /\ UNCHANGED <<schedVars, semVars, panic_flag>>

\* The idle loop leaves for arch_stop_cpu once panic_flag is set.
idle_stop(c) ==
  /\ At(c, c, "run") /\ panic_flag
  /\ phase' = [phase EXCEPT ![c] = "halt"]
  /\ UNCHANGED <<schedVars, semVars, newstate, panic_flag>>

-----------------------------------------------------------------------------
(* Semaphores.                                                             *)

\* _wait_sem when a unit is available.
wait_sem_fast(c, p, s) ==
  /\ At(c, p, "run") /\ s \notin held[p]
  /\ val[s] - 1 >= 0
  /\ val' = [val EXCEPT ![s] = @ - 1]
  /\ held' = [held EXCEPT ![p] = @ \cup ({s} \cap Locks)]
  /\ UNCHANGED <<schedVars, sleeplist, waiting, up, phase, newstate, panic_flag>>

\* _wait_sem when none is: the WaitData is queued and the scheduler lock taken
\* before the semaphore's lock is released.
wait_sem_sleep(c, p, s, alertable) ==
  /\ At(c, p, "run") /\ s \notin held[p]
  /\ val[s] - 1 < 0
  /\ schedlock = None
  /\ val' = [val EXCEPT ![s] = @ - 1]
  /\ sleeplist' = [sleeplist EXCEPT ![s] = Append(@, p)]
  /\ waiting' = [waiting EXCEPT ![p] = s]
  /\ up' = [up EXCEPT ![p] = FALSE]
  /\ newstate' = [newstate EXCEPT ![p] = IF alertable THEN "SLEEPING" ELSE "DEEPSLEEPING"]
  /\ schedlock' = c
  /\ phase' = [phase EXCEPT ![p] = "sched"]
  /\ UNCHANGED <<state, killed, timeload, rq, thisproc, stack, victim, held, panic_flag>>

\* A waiter that came back without its unit gives up its place.
withdraw(p, s) ==
  /\ val' = [val EXCEPT ![s] = @ + 1]
  /\ sleeplist' = [sleeplist EXCEPT ![s] = Detach(@, p)]

\* Mutated form: _wait_sem returns true whatever woke the caller.
ret_true(p) == TRUE

\* The value _wait_sem returns.
ret(p) == up[p]

\* The rest of _wait_sem, after sched().  unalertable_wait_sem asserts that the
\* value returned is true.
wait_sem_return(c, p) ==
  LET s == waiting[p]
      failed == ~ret(p) /\ newstate[p] = "DEEPSLEEPING"
  IN /\ At(c, p, "woken")
     /\ IF up[p] THEN UNCHANGED <<val, sleeplist>> ELSE withdraw(p, s)
     /\ held' = [held EXCEPT ![p] = IF ret(p) THEN @ \cup ({s} \cap Locks) ELSE @]
     /\ waiting' = [waiting EXCEPT ![p] = None]
     /\ up' = [up EXCEPT ![p] = FALSE]
     /\ newstate' = [newstate EXCEPT ![p] = "RUNNABLE"]
     /\ phase' = [phase EXCEPT ![p] = IF failed THEN "halt" ELSE "run"]
     /\ panic_flag' = (panic_flag \/ failed)
     /\ UNCHANGED schedVars

\* _post_sem: hand the unit to the oldest waiter, or keep it in val.
_post_sem(s) ==
  /\ val' = [val EXCEPT ![s] = @ + 1]
  /\ IF val[s] + 1 <= 0
     THEN LET w == Head(sleeplist[s]) IN
          /\ up' = [up EXCEPT ![w] = TRUE]
          /\ sleeplist' = [sleeplist EXCEPT ![s] = Tail(@)]
          /\ _activate_proc(w, FALSE)
     ELSE UNCHANGED <<up, sleeplist, state, rq>>
  /\ UNCHANGED <<killed, timeload, thisproc, stack, schedlock, victim,
                 waiting, phase, newstate, panic_flag>>

release_sleeplock(c, p, s) ==
  /\ At(c, p, "run") /\ s \in held[p]
  /\ _post_sem(s)
  /\ held' = [held EXCEPT ![p] = @ \ {s}]

\* Any thread may post an event, an interrupt taken in the idle loop included.
post_sem(c, s) ==
  /\ phase[stack[c]] = "run" /\ val[s] < MaxVal
  /\ _post_sem(s)
  /\ UNCHANGED held

-----------------------------------------------------------------------------
(* The calls of kernel/proc.c that change a process's scheduling state.    *)

\* kill, first half: mark the process; processlock stays held.
kill_mark(c, p) ==
  \E t \in Procs :
    /\ At(c, t, "run") /\ victim = None
    /\ state[p] # "UNUSED"
    /\ killed' = [killed EXCEPT ![p] = TRUE]
    /\ victim' = p
    /\ phase' = [phase EXCEPT ![t] = "alert"]
    /\ UNCHANGED <<state, timeload, rq, thisproc, stack, schedlock, semVars,
                   newstate, panic_flag>>

\* kill, second half: alert_proc.
kill_alert(c) ==
  \E t \in Procs :
    /\ At(c, t, "alert")
    /\ _activate_proc(victim, TRUE)
    /\ victim' = None
    /\ phase' = [phase EXCEPT ![t] = "run"]
    /\ UNCHANGED <<killed, timeload, thisproc, stack, schedlock, semVars,
                   newstate, panic_flag>>

\* start_proc, called by a running process for the one it created.
start_proc(c, p) ==
  /\ \E t \in Procs : At(c, t, "run")
  /\ victim = None /\ state[p] = "UNUSED"
  /\ _activate_proc(p, FALSE)
  /\ UNCHANGED <<killed, timeload, thisproc, stack, schedlock, victim, semVars,
                 phase, newstate, panic_flag>>

\* The end of exit(): take the scheduler lock and call sched(ZOMBIE).  A process
\* reaches exit() from a trap, where it holds no sleep lock; root_proc never does.
exit(c, p) ==
  /\ At(c, p, "run") /\ p # Root /\ held[p] = {}
  /\ victim = None /\ schedlock = None
  /\ schedlock' = c
  /\ newstate' = [newstate EXCEPT ![p] = "ZOMBIE"]
  /\ phase' = [phase EXCEPT ![p] = "sched"]
  /\ UNCHANGED <<state, killed, timeload, rq, thisproc, stack, victim, semVars, panic_flag>>

-----------------------------------------------------------------------------

Next ==
  \/ \E c \in Cpus :
       \/ acquire_sched_lock(c) \/ sched_return(c) \/ sched(c) \/ swtch(c)
       \/ yield(c) \/ idle_stop(c) \/ kill_alert(c)
       \/ \E e \in Events : post_sem(c, e)
       \/ \E p \in Procs :
            \/ kill_mark(c, p) \/ start_proc(c, p) \/ exit(c, p)
            \/ wait_sem_return(c, p)
            \/ \E s \in Locks : release_sleeplock(c, p, s)
            \/ \E s \in Sems : wait_sem_fast(c, p, s)
            \/ \E s \in Sems, a \in BOOLEAN : wait_sem_sleep(c, p, s, a)
  \/ /\ \A c \in Cpus : phase[stack[c]] = "halt"
     /\ UNCHANGED vars

Spec == Init /\ [][Next]_vars

-----------------------------------------------------------------------------

\* Type invariant.
TypeOK ==
  /\ state \in [Threads -> ProcState]
  /\ killed \in [Procs -> BOOLEAN]
  /\ timeload \in [Procs -> 0..MIN_LOAD]
  /\ rq \in Seq(Procs)
  /\ thisproc \in [Cpus -> Threads]
  /\ stack \in [Cpus -> Threads]
  /\ schedlock \in Cpus \cup {None}
  /\ victim \in Procs \cup {None}
  /\ phase \in [Threads -> Phase]
  /\ newstate \in [Threads -> ProcState]
  /\ val \in [Sems -> Int]
  /\ sleeplist \in [Sems -> Seq(Procs)]
  /\ waiting \in [Procs -> Sems \cup {None}]
  /\ up \in [Procs -> BOOLEAN]
  /\ held \in [Procs -> SUBSET Locks]
  /\ panic_flag \in BOOLEAN

-----------------------------------------------------------------------------
(* What must hold in every state.                                          *)

\* rq holds exactly the processes that are RUNNABLE or RUNNING, each once, so
\* that _activate_proc never links a linked node and update_this_state never
\* unlinks a free one (sched.c:86-87, 99-104).
RunQueueExact ==
  /\ IsInjective(rq)
  /\ \A p \in Procs : Contains(rq, p) <=> state[p] \in {"RUNNABLE", "RUNNING"}

\* No two CPUs execute on one kernel stack, though sched() marks the next thread
\* RUNNING before the CPU has left the old one (sched.c:146-157).
KernelStackExclusive ==
  \A c, d \in Cpus : stack[c] = stack[d] => c = d

\* A negative val counts the sleepers: units and waiters are never both present
\* and none is lost, whether a waiter is posted, alerted or both (sem.c:50-84).
SemCount ==
  \A s \in Sems : Len(sleeplist[s]) = IF val[s] < 0 THEN -val[s] ELSE 0

\* The processes to which sleep lock l belongs: its holder, or the waiter that a
\* post has already chosen and that has not run since.
Owners(l) == {p \in Procs : l \in held[p] \/ (waiting[p] = l /\ up[p])}

\* A sleep lock belongs to one process at a time, and to none exactly when its
\* value is 1: a waiter that kill() wakes never leaves with the lock (sem.c:64-72).
MutualExclusion ==
  \A l \in Locks :
    /\ \A p, q \in Owners(l) : p = q
    /\ val[l] <= 1 /\ (val[l] = 1 <=> Owners(l) = {})

\* A sleeping process has not been posted yet and is on the list a post looks at:
\* the wakeup is not lost between queueing the WaitData and the context switch
\* (sem.c:58-62).
NoLostWakeup ==
  \A p \in Procs : state[p] \in {"SLEEPING", "DEEPSLEEPING"} =>
    /\ waiting[p] # None /\ ~up[p]
    /\ Contains(sleeplist[waiting[p]], p)

\* A killed process is in an alertable sleep only while kill() is on its way to
\* alert it: the mark is either seen by sched() or followed by the alert
\* (sched.c:145, proc.c:193-195).
KilledNotAsleep ==
  \A p \in Procs : killed[p] /\ state[p] = "SLEEPING" => victim = p

\* The ASSERTs on the way: the caller of sched() is RUNNING (sched.c:143), the
\* idle thread sched() falls back on is RUNNABLE (sched.c:150), a waiter that
\* withdraws was counted (sem.c:66), a negative count has a sleeper (sem.c:77).
AssertsHold ==
  /\ \A c \in Cpus : phase[stack[c]] = "sched" => state[stack[c]] = "RUNNING"
  /\ \A c \in Cpus : thisproc[c] # c => state[c] = "RUNNABLE"
  /\ \A p \in Procs : phase[p] = "woken" /\ ~up[p] => val[waiting[p]] + 1 <= 0
  /\ \A s \in Sems : val[s] < 0 => sleeplist[s] # <<>>

-----------------------------------------------------------------------------
(* What must eventually happen.                                            *)

Dispatch(c) ==
  \/ acquire_sched_lock(c) \/ sched_return(c) \/ sched(c) \/ swtch(c)
  \/ kill_alert(c) \/ \E p \in Procs : wait_sem_return(c, p)

\* A CPU does not stop inside the kernel and gets a spinlock that is free again
\* and again; its timer interrupt keeps arriving.
Fairness == \A c \in Cpus : SF_vars(Dispatch(c)) /\ SF_vars(yield(c))

LiveSpec == Spec /\ Fairness

\* A runnable process below the load limit of pick_next runs, unless the system
\* panics (sched.c:107-126).
RunnableRuns ==
  \A p \in Procs : (state[p] = "RUNNABLE" /\ timeload[p] < MIN_LOAD)
                       ~> (state[p] = "RUNNING" \/ panic_flag)

\* A process that was posted returns from _wait_sem, unless its load or a panic
\* keeps it off the CPU (sem.c:62-72, 79-81).
PostedReturns ==
  \A p \in Procs : up[p] ~> (~up[p] \/ timeload[p] = MIN_LOAD \/ panic_flag)

\* A killed process leaves an alertable sleep (proc.c:193-195).
KilledWakes ==
  \A p \in Procs : (killed[p] /\ state[p] = "SLEEPING") ~> (state[p] # "SLEEPING")

-----------------------------------------------------------------------------
(* What the repository says and the code does not do.                      *)

\* unalertable_wait_sem never fails: it is an ASSERT (sem.h:29-30).
UnalertableSucceeds == ~panic_flag
=============================================================================
