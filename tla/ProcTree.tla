------------------------------ MODULE ProcTree ------------------------------
(***************************************************************************)
(* The process tree (kernel/proc.c): create_proc, set_parent_to_this,      *)
(* start_proc, wait, exit and kill, as far as they build and take apart    *)
(* the tree and synchronise parents with their dying children.             *)
(*                                                                         *)
(* processlock and the scheduler lock are variables only where one of them *)
(* is kept while the other is waited for, at the end of exit(); every      *)
(* other critical section is one action.  The semaphore childexit has one  *)
(* waiter, its process, and is seen through what module Sched shows of     *)
(* semaphores.  Closing the files in exit() is left out here.              *)
(***************************************************************************)
EXTENDS Integers, FiniteSets

CONSTANTS
  Procs,  \* the Proc structs
  Root,   \* root_proc
  None

ASSUME ProcTreeAssumption == IsFiniteSet(Procs) /\ Root \in Procs /\ None \notin Procs

VARIABLES
  pc,           \* where each process is; "free" for memory that is no Proc
  parent,       \* Proc.parent
  children,     \* Proc.children, the order of the list left out
  units,        \* Proc.childexit.val while its process does not wait
  killed,       \* Proc.killed
  target,       \* the Proc that fork() creates or kill() found, or None
  processlock,  \* the holder of processlock, or None
  schedlock     \* the holder of the scheduler lock, or None

locks == <<processlock, schedlock>>
vars == <<pc, parent, children, units, killed, target, locks>>

Init ==
  /\ pc = [p \in Procs |-> IF p = Root THEN "run" ELSE "free"]
  /\ parent = [p \in Procs |-> IF p = Root THEN Root ELSE None]
  /\ children = [p \in Procs |-> {}]
  /\ units = [p \in Procs |-> 0]
  /\ killed = [p \in Procs |-> FALSE]
  /\ target = [p \in Procs |-> None]
  /\ processlock = None /\ schedlock = None

\* The state ZOMBIE, which sched() sets while the process is on its stack.
Zombie(p) == pc[p] \in {"switching", "zombie"}

Goto(p, where) == pc' = [pc EXCEPT ![p] = where]

-----------------------------------------------------------------------------
(* Creation.                                                               *)

Alloc(c, par) ==
  /\ parent' = [parent EXCEPT ![c] = par]
  /\ children' = [children EXCEPT ![par] = @ \cup {c}, ![c] = {}]
  /\ units' = [units EXCEPT ![c] = 0]
  /\ killed' = [killed EXCEPT ![c] = FALSE]
  /\ UNCHANGED locks

\* fork: create_proc and set_parent_to_this; the child is filled in later.
create_proc(p, c) ==
  /\ pc[p] = "run" /\ pc[c] = "free" /\ processlock = None
  /\ pc' = [pc EXCEPT ![p] = "fork", ![c] = "new"]
  /\ Alloc(c, p)
  /\ target' = [target EXCEPT ![p] = c]

\* fork ends with start_proc.
start_proc(p) ==
  /\ pc[p] = "fork" /\ processlock = None /\ schedlock = None
  /\ pc' = [pc EXCEPT ![p] = "run", ![target[p]] = "run"]
  /\ target' = [target EXCEPT ![p] = None]
  /\ UNCHANGED <<parent, children, units, killed, locks>>

\* create_proc and start_proc of one that has none: it goes to root_proc.
start_orphan(p, c) ==
  /\ pc[p] = "run" /\ pc[c] = "free" /\ processlock = None /\ schedlock = None
  /\ Goto(c, "run") /\ Alloc(c, Root)
  /\ UNCHANGED target

-----------------------------------------------------------------------------
(* wait.                                                                   *)

\* There is a child to wait for.
wait_enter(p) ==
  /\ pc[p] = "run" /\ processlock = None /\ children[p] # {}
  /\ Goto(p, "wait")
  /\ UNCHANGED <<parent, children, units, killed, target, locks>>

\* wait_sem(&thisproc()->childexit); a killed process does not go to sleep.
wait_sem(p) ==
  /\ pc[p] = "wait"
  /\ IF units[p] > 0
     THEN units' = [units EXCEPT ![p] = @ - 1] /\ Goto(p, "reap")
     ELSE Goto(p, IF killed[p] THEN "alerted" ELSE "asleep") /\ UNCHANGED units
  /\ UNCHANGED <<parent, children, killed, target, locks>>

\* wait_sem returns false, and wait -1.
wait_fail(p) ==
  /\ pc[p] = "alerted"
  /\ Goto(p, "run")
  /\ UNCHANGED <<parent, children, units, killed, target, locks>>

\* Mutated form: the scheduler lock is not taken.
reap_unlocked(p) ==
  /\ pc[p] = "reap" /\ processlock = None
  /\ \E c \in children[p] :
       /\ Zombie(c)
       /\ pc' = [pc EXCEPT ![p] = "run", ![c] = "free"]
       /\ children' = [children EXCEPT ![p] = @ \ {c}]
       /\ parent' = [parent EXCEPT ![c] = None]
  /\ UNCHANGED <<units, killed, target, locks>>

\* The rest of wait: free a zombie child, if there is one, and return.
reap(p) ==
  /\ pc[p] = "reap" /\ processlock = None /\ schedlock = None
  /\ IF \E c \in children[p] : Zombie(c)
     THEN \E c \in children[p] :
            /\ Zombie(c)
            /\ pc' = [pc EXCEPT ![p] = "run", ![c] = "free"]
            /\ children' = [children EXCEPT ![p] = @ \ {c}]
            /\ parent' = [parent EXCEPT ![c] = None]
     ELSE Goto(p, "run") /\ UNCHANGED <<children, parent>>
  /\ UNCHANGED <<units, killed, target, locks>>

-----------------------------------------------------------------------------
(* exit.                                                                   *)

Waits(q) == pc[q] \in {"asleep", "alerted"}

\* n posts of q's childexit: the first goes to q if it waits.
PostUnits(q, n) ==
  units' = [units EXCEPT ![q] = @ + n - (IF Waits(q) /\ n > 0 THEN 1 ELSE 0)]
PostPc(q, n) == IF Waits(q) /\ n > 0 THEN "reap" ELSE pc[q]

\* Mutated forms: root_proc is not told; the children keep their parent.
Adopted_silent(p) == {}
parent_kept(p) == parent

\* The zombies among the children p leaves, for each of which root is posted.
Adopted(p) == {c \in children[p] : Zombie(c)}

\* The parents once root_proc has adopted the children of p.
parent_adopted(p) == [c \in Procs |-> IF c \in children[p] THEN Root ELSE parent[c]]

\* The first critical section: the children go to root_proc.
exit_children(p) ==
  /\ pc[p] = "run" /\ p # Root
  /\ processlock = None /\ schedlock = None
  /\ LET n == Cardinality(Adopted(p)) IN
       /\ PostUnits(Root, n)
       /\ pc' = [pc EXCEPT ![p] = "exiting", ![Root] = PostPc(Root, n)]
  /\ parent' = parent_adopted(p)
  /\ children' = [children EXCEPT ![Root] = @ \cup children[p], ![p] = {}]
  /\ UNCHANGED <<killed, target, locks>>

\* The second one: post the parent; processlock stays held.
exit_post(p) ==
  /\ pc[p] = "exiting" /\ processlock = None /\ schedlock = None
  /\ PostUnits(parent[p], 1)
  /\ pc' = [pc EXCEPT ![p] = "posted", ![parent[p]] = PostPc(parent[p], 1)]
  /\ processlock' = p
  /\ UNCHANGED <<parent, children, killed, target, schedlock>>

\* Take the scheduler lock, then release processlock.
exit_lock(p) ==
  /\ pc[p] = "posted" /\ schedlock = None
  /\ schedlock' = p /\ processlock' = None
  /\ Goto(p, "dying")
  /\ UNCHANGED <<parent, children, units, killed, target>>

\* sched(ZOMBIE), up to the switch to the next thread's stack, which releases the
\* scheduler lock.
exit_sched(p) ==
  /\ pc[p] = "dying"
  /\ Goto(p, "switching")
  /\ UNCHANGED <<parent, children, units, killed, target, locks>>

exit_swtch(p) ==
  /\ pc[p] = "switching"
  /\ schedlock' = None
  /\ Goto(p, "zombie")
  /\ UNCHANGED <<parent, children, units, killed, target, processlock>>

-----------------------------------------------------------------------------
(* kill.                                                                   *)

\* find_proc, then processlock is released.  A caller kills a child of its own or,
\* from the console interrupt, itself, unless it is root_proc.
kill_find(p, t) ==
  /\ pc[p] = "run" /\ processlock = None /\ schedlock = None
  /\ t \in children[p] \cup ({p} \ {Root}) /\ pc[t] \notin {"free", "new"}
  /\ target' = [target EXCEPT ![p] = t]
  /\ Goto(p, "kill")
  /\ UNCHANGED <<parent, children, units, killed, locks>>

\* Mark the process and alert it.
kill_mark(p) ==
  LET t == target[p] IN
  /\ pc[p] = "kill" /\ processlock = None /\ schedlock = None
  /\ killed' = [killed EXCEPT ![t] = TRUE]
  /\ pc' = [pc EXCEPT ![p] = "run", ![t] = IF t = p THEN "run"
                                           ELSE IF @ = "asleep" THEN "alerted" ELSE @]
  /\ target' = [target EXCEPT ![p] = None]
  /\ UNCHANGED <<parent, children, units, locks>>

-----------------------------------------------------------------------------

\* The steps of a process inside fork, wait, exit or kill.
Inside(p) ==
  \/ start_proc(p)
  \/ wait_sem(p) \/ wait_fail(p) \/ reap(p) \/ kill_mark(p)
  \/ exit_post(p) \/ exit_lock(p) \/ exit_sched(p) \/ exit_swtch(p)

Next ==
  \E p \in Procs :
    \/ Inside(p) \/ wait_enter(p) \/ exit_children(p)
    \/ \E c \in Procs :
         create_proc(p, c) \/ start_orphan(p, c) \/ kill_find(p, c)

Spec == Init /\ [][Next]_vars

-----------------------------------------------------------------------------

\* Type invariant.
TypeOK ==
  /\ pc \in [Procs -> {"free", "new", "fork", "run", "wait", "asleep", "alerted", "reap",
                       "exiting", "posted", "dying", "switching", "zombie", "kill"}]
  /\ parent \in [Procs -> Procs \cup {None}]
  /\ children \in [Procs -> SUBSET Procs]
  /\ units \in [Procs -> Nat] /\ killed \in [Procs -> BOOLEAN]
  /\ target \in [Procs -> Procs \cup {None}]
  /\ processlock \in Procs \cup {None} /\ schedlock \in Procs \cup {None}

\* The children lists and the parent pointers agree, and following the parents
\* leads to root_proc, where find_proc starts, through every adoption by exit()
\* (proc.c:58-66, 130-143, 174-183).
TreeShape ==
  LET linked == {p \in Procs \ {Root} : pc[p] # "free"} IN
  /\ \A p \in Procs \ {Root}, q \in Procs : p \in children[q] <=> p \in linked /\ q = parent[p]
  /\ \A p \in linked : pc[parent[p]] # "free"
  /\ \A S \in (SUBSET linked) \ {{}} : \E p \in S : parent[p] \notin S

\* A process that can still call wait has one unit of childexit, or one it is
\* about to use, for each child that has posted it and is not yet freed, whoever
\* the child's parent was when it did (proc.c:134-138, 167).
ZombiesCounted ==
  \A p \in Procs :
    pc[p] \in {"run", "fork", "wait", "asleep", "alerted", "reap", "kill"} =>
      units[p] + (IF pc[p] = "reap" THEN 1 ELSE 0)
        = Cardinality({c \in children[p] : Zombie(c) \/ pc[c] \in {"posted", "dying"}})

\* A wait that was given a unit finds a zombie: the child posts before it is one,
\* but its parent cannot look before it is (proc.c:96-104, 167-170).
WaitFindsZombie ==
  \A p \in Procs : pc[p] = "reap" /\ processlock = None /\ schedlock = None
                     => \E c \in children[p] : Zombie(c)

\* wait frees the kernel stack of a process that is no longer on it
\* (proc.c:97, 113).
ReapedOffStack ==
  [][\A p \in Procs : pc[p] # "free" /\ pc'[p] = "free" => pc[p] = "zombie"]_vars

\* kill uses the Proc it found after it released processlock: it still is one
\* (proc.c:187-195).
KillTargetExists ==
  \A p \in Procs : pc[p] = "kill" => pc[target[p]] # "free"

-----------------------------------------------------------------------------

\* A process does not stop inside the kernel and gets a spinlock that is free
\* again and again.
LiveSpec == Spec /\ \A p \in Procs : SF_vars(Inside(p))

\* A process that waits and has a zombie child returns from wait (proc.c:86-119).
WaitReturns ==
  \A p \in Procs :
    (pc[p] \in {"wait", "asleep"} /\ \E c \in children[p] : Zombie(c)) ~> pc[p] = "run"
=============================================================================
