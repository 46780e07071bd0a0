------------------------------- MODULE Timers -------------------------------
(***************************************************************************)
(* The timers of one CPU (kernel/cpu.c) in their red-black tree, the clock *)
(* that interrupts for the earliest of them (driver/clock.c), and their    *)
(* users: hello(), which sets itself again, and the scheduler's timer,     *)
(* which update_this_proc (kernel/sched.c) cancels and sets.               *)
(*                                                                         *)
(* Times are kept relative to the present: rem is _key minus the time, and *)
(* clock what is left of the interval given to reset_clock, below 0 while  *)
(* the interrupt is pending but masked.  The handler of the scheduler's    *)
(* timer switches to another process, and the loop of timer_clock_handler  *)
(* goes on when this one runs again, on whichever CPU that is; so a        *)
(* process that comes to run may be in that loop.                          *)
(***************************************************************************)
EXTENDS RBTree, FiniteSets

CONSTANTS
  Hello,      \* hello_timer
  SchedTimer, \* sched_timer
  elapse,     \* timer.elapse
  DEFAULT,    \* what timer_clock_handler gives to reset_clock (10)
  MaxLate,    \* bound: how long interrupts stay masked
  Scopes      \* bound: the other timers in use, and whether time passes

ASSUME TimersAssumption ==
  /\ {Hello, SchedTimer} \subseteq Nodes /\ Hello # SchedTimer
  /\ elapse \in [Nodes -> Nat \ {0}]
  /\ DEFAULT \in Nat /\ MaxLate \in Nat
  /\ \A s \in Scopes : s.clients \subseteq Nodes \ {Hello, SchedTimer} /\ s.ticking \in BOOLEAN

VARIABLES
  m,     \* the CPU's timers: tree, rem, triggered; clock; failed after an ASSERT
  phase, \* "handler" inside the loop of timer_clock_handler, or "run"
  scope  \* the chosen element of Scopes

vars == <<m, phase, scope>>

\* The nodes in the tree.
InTree(t) == LET s == InOrder(t, t.root, Cardinality(Nodes)) IN {s[i] : i \in DOMAIN s}

\* __timer_cmp.
Cmp(rem) ==
  {e \in Nodes \X Nodes :
     rem[e[1]] < rem[e[2]] \/ (rem[e[1]] = rem[e[2]] /\ e[1] < e[2])}

reset_clock(x, interval) == [x EXCEPT !.clock = interval]

\* __timer_set_clock.
SetClock(x) ==
  LET node == First(x.tree)
  IN IF node = NULL THEN reset_clock(x, DEFAULT)
     ELSE reset_clock(x, IF x.rem[node] <= 0 THEN 0 ELSE x.rem[node])

set_cpu_timer(x, t) ==
  LET rem == [x.rem EXCEPT ![t] = elapse[t]]
      ins == Insert(x.tree, t, Cmp(rem))
  IN SetClock([x EXCEPT !.triggered[t] = FALSE, !.rem = rem, !.tree = ins.tree,
                        !.failed = @ \/ ~ins.ok])

\* Mutated form: the clock stays set for the timer that is cancelled.
cancel_cpu_timer_noclock(x, t) ==
  [x EXCEPT !.failed = @ \/ x.triggered[t], !.tree = Erase(@, t), !.rem[t] = 0]

\* The key of a timer outside the tree is not read again; it is kept 0.
cancel_cpu_timer(x, t) ==
  SetClock([x EXCEPT !.failed = @ \/ x.triggered[t], !.tree = Erase(@, t), !.rem[t] = 0])

\* Mutated form: the timer is set without being cancelled.
update_this_proc_set(x) == set_cpu_timer(x, SchedTimer)

\* update_this_proc: the time slice of the process that comes to run.
update_this_proc(x) ==
  set_cpu_timer(IF x.triggered[SchedTimer] THEN x ELSE cancel_cpu_timer(x, SchedTimer), SchedTimer)

\* set_cpu_on has set the hello timer; init_sched marked the other as triggered.
Init ==
  /\ m = set_cpu_timer([tree |-> EmptyTree, rem |-> [t \in Nodes |-> 0],
                        triggered |-> [t \in Nodes |-> t = SchedTimer],
                        clock |-> DEFAULT, failed |-> FALSE], Hello)
  /\ phase = "run"
  /\ scope \in Scopes

\* sched() switches to a process, which may be in the loop of the handler.
switch ==
  /\ phase = "run"
  /\ m' = update_this_proc(m)
  /\ phase' \in {"run", "handler"}
  /\ UNCHANGED scope

\* Kernel code sets a timer of its own, or cancels one that is set.
set(t) ==
  /\ phase = "run" /\ t \in scope.clients \ InTree(m.tree)
  /\ m' = set_cpu_timer(m, t)
  /\ UNCHANGED <<phase, scope>>

cancel(t) ==
  /\ phase = "run" /\ t \in scope.clients \cap InTree(m.tree)
  /\ m' = cancel_cpu_timer(m, t)
  /\ UNCHANGED <<phase, scope>>

\* The interrupt: timer_clock_handler up to its loop.
interrupt ==
  /\ phase = "run" /\ m.clock <= 0
  /\ m' = reset_clock(m, DEFAULT)
  /\ phase' = "handler"
  /\ UNCHANGED scope

Expired == LET node == First(m.tree) IN node # NULL /\ m.rem[node] <= 0

\* One turn of the loop: the first timer is cancelled, marked and handled.
Fire(t) == [cancel_cpu_timer(m, t) EXCEPT !.triggered[t] = TRUE]

fire ==
  LET t == First(m.tree) IN
  /\ phase = "handler" /\ Expired /\ t # SchedTimer
  /\ m' = IF t = Hello THEN set_cpu_timer(Fire(t), t) ELSE Fire(t)
  /\ UNCHANGED <<phase, scope>>

\* sched_timer_handler: sched() switches, or returns at once when the process
\* is killed.
fire_sched ==
  /\ phase = "handler" /\ Expired /\ First(m.tree) = SchedTimer
  /\ \/ m' = Fire(SchedTimer) /\ phase' = phase
     \/ m' = update_this_proc(Fire(SchedTimer)) /\ phase' \in {"run", "handler"}
  /\ UNCHANGED scope

handler_return ==
  /\ phase = "handler" /\ ~Expired
  /\ phase' = "run"
  /\ UNCHANGED <<m, scope>>

tick ==
  /\ scope.ticking /\ m.clock > -MaxLate
  /\ \A t \in InTree(m.tree) : m.rem[t] > -MaxLate
  /\ m' = [m EXCEPT !.clock = @ - 1,
                    !.rem = [t \in Nodes |-> IF t \in InTree(m.tree) THEN @[t] - 1 ELSE @[t]]]
  /\ UNCHANGED <<phase, scope>>

Next ==
  \/ switch \/ interrupt \/ fire \/ fire_sched \/ handler_return \/ tick
  \/ \E t \in Nodes : set(t) \/ cancel(t)

Spec == Init /\ [][Next]_vars

-----------------------------------------------------------------------------

\* Type invariant.
TypeOK ==
  /\ m.tree \in Tree /\ m.triggered \in [Nodes -> BOOLEAN]
  /\ \A t \in Nodes : m.rem[t] \in Int
  /\ m.clock \in -MaxLate .. DEFAULT \/ \E t \in Nodes : m.clock \in 0 .. elapse[t]
  /\ phase \in {"run", "handler"} /\ scope \in Scopes /\ m.failed \in BOOLEAN

\* After any sequence of insertions and removals the tree is a red-black tree:
\* in order of deadline, with parents that match the links, no red node below a
\* red one, as many black nodes on every path, a black root; and _rb_lookup finds
\* exactly the nodes in it (common/rbtree.c).
RedBlack ==
  LET t == m.tree
      s == InOrder(t, t.root, Cardinality(Nodes))
  IN /\ \A i \in 1 .. Len(s) - 1 : <<s[i], s[i + 1]>> \in Cmp(m.rem)
     /\ t.root # NULL => t.parent[t.root] = NULL /\ ~t.red[t.root]
     /\ \A n \in InTree(t), d \in Sides : t.child[d][n] # NULL =>
          /\ t.parent[t.child[d][n]] = n
          /\ ~(t.red[n] /\ t.red[t.child[d][n]])
     /\ BlackHeight(t, t.root) # -1
     /\ \A n \in Nodes : Lookup(t, n, Cmp(m.rem)) = (IF n \in InTree(t) THEN n ELSE NULL)

\* No ASSERT of set_cpu_timer or cancel_cpu_timer fails, and triggered says of
\* the scheduler's timer whether it is out of the tree, which is how
\* update_this_proc decides to cancel it (cpu.c:62-75, sched.c:132-135).
TriggeredExact == ~m.failed /\ (m.triggered[SchedTimer] <=> SchedTimer \notin InTree(m.tree))

\* Outside the handler the clock is set for the earliest timer, never for a
\* later moment, whatever was set and cancelled in between (cpu.c:21-33).
ClockForFirst ==
  LET node == First(m.tree)
  IN phase = "run" /\ node # NULL => m.clock <= (IF m.rem[node] > 0 THEN m.rem[node] ELSE 0)
=============================================================================
