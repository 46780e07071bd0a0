--------------------------- MODULE ProcTreeProofs ---------------------------
(***************************************************************************)
(* The theorems about module ProcTree, for every finite set of processes.  *)
(***************************************************************************)
EXTENDS ProcTree, FiniteSetTheorems, TLAPS

-----------------------------------------------------------------------------
(* The inductive invariant.                                                *)

\* The processes that can still call wait, and those inside exit.
Alive == {"run", "fork", "wait", "asleep", "alerted", "reap", "kill"}
Leaving == {"exiting", "posted", "dying", "switching", "zombie"}
Announced == {"posted", "dying", "switching", "zombie"}

Linked == {p \in Procs \ {Root} : pc[p] # "free"}

\* The links of the tree agree, and every parent is a Proc.
LinkInv ==
  /\ \A q \in Procs : Root \notin children[q]
  /\ \A p \in Linked : parent[p] \in Procs /\ pc[parent[p]] # "free"
  /\ \A p \in Procs \ {Root}, q \in Procs :
       p \in children[q] <=> p \in Linked /\ q = parent[p]

Acyclic == \A S \in (SUBSET Linked) \ {{}} : \E p \in S : parent[p] \notin S

\* Who has no children: a process that fork() has not started, one that has left
\* them to root_proc.  root_proc itself stays.
LeafInv ==
  /\ pc[Root] \in Alive
  /\ \A p \in Procs : pc[p] \in Leaving \cup {"new"} => children[p] = {}
  /\ \A p \in Procs : pc[p] = "new" => units[p] = 0

\* What fork() and kill() work on is a child of theirs, or the caller of kill.
TargetInv ==
  /\ \A p \in Procs : pc[p] = "fork" =>
       target[p] \in children[p] /\ pc[target[p]] = "new"
  /\ \A p \in Procs : pc[p] = "kill" =>
       target[p] \in children[p] \cup {p} /\ pc[target[p]] \notin {"free", "new"}

\* Who has the locks.
LockInv ==
  \A p \in Procs : /\ pc[p] = "posted" <=> processlock = p
                   /\ pc[p] \in {"dying", "switching"} <=> schedlock = p

\* The children of p that have posted childexit.
Due(p) == {c \in children[p] : pc[c] \in Announced}
Unit(p) == IF pc[p] = "reap" THEN 1 ELSE 0

CountInv == \A p \in Procs : pc[p] \in Alive => units[p] + Unit(p) = Cardinality(Due(p))

IInv == TypeOK /\ LinkInv /\ Acyclic /\ LeafInv /\ TargetInv /\ LockInv /\ CountInv

-----------------------------------------------------------------------------
(* The steps.                                                              *)

\* A process that leaves finds at most as many zombies as there are processes.
LEMMA DueFinite ==
  ASSUME TypeOK, NEW p \in Procs
  PROVE  /\ IsFiniteSet(Adopted(p)) /\ Cardinality(Adopted(p)) \in Nat
         /\ IsFiniteSet(Due(p)) /\ Cardinality(Due(p)) \in Nat
<1>1. Adopted(p) \subseteq Procs /\ Due(p) \subseteq Procs
  BY DEF TypeOK, Adopted, Due
<1>2. IsFiniteSet(Adopted(p)) /\ IsFiniteSet(Due(p))
  BY <1>1, FS_Subset, ProcTreeAssumption
<1> QED BY <1>2, FS_CardinalityType

\* Every step keeps the types.
LEMMA TypeStep == TypeOK /\ LinkInv /\ LeafInv /\ TargetInv /\ [Next]_vars => TypeOK'
<1> SUFFICES ASSUME TypeOK, LinkInv, LeafInv, TargetInv, [Next]_vars PROVE TypeOK'
  OBVIOUS
<1> USE ProcTreeAssumption DEF TypeOK, locks, Goto
<1>1. CASE UNCHANGED vars
  BY <1>1 DEF vars
<1>2. ASSUME NEW p \in Procs, Inside(p) PROVE TypeOK'
  <2>1. CASE start_proc(p)
    BY <2>1 DEF start_proc, TargetInv
  <2>2. CASE wait_sem(p)
    BY <2>2 DEF wait_sem
  <2>3. CASE wait_fail(p)
    BY <2>3 DEF wait_fail
  <2>4. CASE reap(p)
    BY <2>4 DEF reap
  <2>5. CASE kill_mark(p)
    BY <2>5 DEF kill_mark
  <2>6. CASE exit_post(p)
    <3>1. parent[p] \in Procs
      BY <2>6 DEF exit_post, LinkInv, Linked, LeafInv, Alive
    <3> QED BY <2>6, <3>1 DEF exit_post, PostUnits, PostPc, Waits
  <2>7. CASE exit_lock(p)
    BY <2>7 DEF exit_lock
  <2>8. CASE exit_sched(p)
    BY <2>8 DEF exit_sched
  <2>9. CASE exit_swtch(p)
    BY <2>9 DEF exit_swtch
  <2> QED BY <1>2, <2>1, <2>2, <2>3, <2>4, <2>5, <2>6, <2>7, <2>8, <2>9 DEF Inside
<1>3. ASSUME NEW p \in Procs, wait_enter(p) PROVE TypeOK'
  BY <1>3 DEF wait_enter
<1>4. ASSUME NEW p \in Procs, exit_children(p) PROVE TypeOK'
  <2>1. Cardinality(Adopted(p)) \in Nat
    BY DueFinite
  <2> HIDE DEF TypeOK
  <2>2. units' \in [Procs -> Nat]
    BY <1>4, <2>1 DEF exit_children, PostUnits, Waits, TypeOK
  <2>3. pc' \in [Procs -> {"free", "new", "fork", "run", "wait", "asleep", "alerted", "reap",
                       "exiting", "posted", "dying", "switching", "zombie", "kill"}]
    BY <1>4 DEF exit_children, PostPc, TypeOK
  <2>4. parent' \in [Procs -> Procs \cup {None}] /\ children' \in [Procs -> SUBSET Procs]
    BY <1>4 DEF exit_children, parent_adopted, TypeOK
  <2> QED BY <1>4, <2>2, <2>3, <2>4 DEF exit_children, TypeOK
<1>5. ASSUME NEW p \in Procs, NEW c \in Procs, create_proc(p, c) PROVE TypeOK'
  BY <1>5 DEF create_proc, Alloc
<1>6. ASSUME NEW p \in Procs, NEW c \in Procs, start_orphan(p, c) PROVE TypeOK'
  BY <1>6 DEF start_orphan, Alloc
<1>7. ASSUME NEW p \in Procs, NEW t \in Procs, kill_find(p, t) PROVE TypeOK'
  BY <1>7 DEF kill_find
<1> QED BY <1>1, <1>2, <1>3, <1>4, <1>5, <1>6, <1>7 DEF Next

\* A step that changes no link and neither makes nor frees a Proc keeps the tree.
LEMMA QuietTree ==
  ASSUME LinkInv, Acyclic, UNCHANGED <<parent, children>>,
         \A q \in Procs : pc'[q] = "free" <=> pc[q] = "free"
  PROVE  LinkInv' /\ Acyclic'
<1>1. Linked' = Linked
  BY DEF Linked
<1>2. LinkInv'
  <2>1. \A p \in Linked : parent[p] \in Procs /\ pc'[parent[p]] # "free"
    BY DEF LinkInv
  <2> QED BY <1>1, <2>1 DEF LinkInv
<1>3. Acyclic'
  BY <1>1 DEF Acyclic
<1> QED BY <1>2, <1>3

\* A new Proc becomes a leaf of the tree.
LEMMA AllocTree ==
  ASSUME TypeOK, LinkInv, Acyclic, LeafInv, NEW c \in Procs, NEW par \in Procs,
         pc[c] = "free", pc[par] # "free", Alloc(c, par),
         pc'[c] # "free", \A q \in Procs \ {c} : pc'[q] = "free" <=> pc[q] = "free"
  PROVE  LinkInv' /\ Acyclic'
<1>1. c # Root /\ c # par /\ c \notin Linked
  BY DEF LeafInv, Alive, Linked
<1>2. Linked' = Linked \cup {c}
  BY <1>1 DEF Linked
<1>3. /\ parent' = [parent EXCEPT ![c] = par]
      /\ children' = [children EXCEPT ![par] = @ \cup {c}, ![c] = {}]
  BY DEF Alloc
<1>4. parent'[c] = par /\ \A q \in Procs \ {c} : parent'[q] = parent[q]
  BY <1>3 DEF TypeOK
<1>5. \A q \in Linked : parent[q] # c /\ q # c
  BY <1>1 DEF LinkInv
<1>6. LinkInv'
  <2>1. \A q \in Procs : Root \notin children'[q]
    BY <1>1, <1>3 DEF LinkInv, TypeOK
  <2>2. \A q \in Linked' : parent'[q] \in Procs /\ pc'[parent'[q]] # "free"
    <3> SUFFICES ASSUME NEW q \in Linked' PROVE parent'[q] \in Procs /\ pc'[parent'[q]] # "free"
      OBVIOUS
    <3>1. CASE q = c
      BY <3>1, <1>1, <1>4
    <3>2. CASE q # c
      <4>1. q \in Linked /\ q \in Procs /\ parent'[q] = parent[q]
        BY <3>2, <1>2, <1>4 DEF Linked
      <4> QED BY <4>1, <1>5 DEF LinkInv
    <3> QED BY <3>1, <3>2
  <2>3. ASSUME NEW q \in Procs \ {Root}, NEW r \in Procs
        PROVE  q \in children'[r] <=> q \in Linked' /\ r = parent'[q]
    <3>1. q \in children[r] <=> q \in Linked /\ r = parent[q]
      BY DEF LinkInv
    <3>2. CASE q = c
      BY <3>1, <3>2, <1>1, <1>2, <1>3, <1>4 DEF TypeOK
    <3>3. CASE q # c
      BY <3>1, <3>3, <1>1, <1>2, <1>3, <1>4, <1>5 DEF TypeOK
    <3> QED BY <3>2, <3>3
  <2> QED BY <2>1, <2>2, <2>3 DEF LinkInv
<1>7. Acyclic'
  <2> SUFFICES ASSUME NEW S \in SUBSET Linked', S # {} PROVE \E q \in S : parent'[q] \notin S
    BY DEF Acyclic
  <2>1. CASE S = {c}
    BY <2>1, <1>1, <1>4
  <2>2. CASE S # {c}
    <3>1. S \ {c} \in (SUBSET Linked) \ {{}}
      BY <2>2, <1>2
    <3>2. PICK q \in S \ {c} : parent[q] \notin S \ {c}
      BY <3>1 DEF Acyclic
    <3>3. q \in Linked /\ q \in Procs
      BY <3>1, <3>2 DEF Linked
    <3> QED BY <3>2, <3>3, <1>4, <1>5
  <2> QED BY <2>1, <2>2
<1> QED BY <1>6, <1>7

\* wait frees a leaf of the tree.
LEMMA FreeTree ==
  ASSUME TypeOK, LinkInv, Acyclic, LeafInv, NEW p \in Procs, NEW c \in children[p], Zombie(c),
         children' = [children EXCEPT ![p] = @ \ {c}], parent' = [parent EXCEPT ![c] = None],
         pc' = [pc EXCEPT ![p] = "run", ![c] = "free"], pc[p] = "reap"
  PROVE  LinkInv' /\ Acyclic'
<1>1. c \in Procs /\ c # Root /\ c # p /\ parent[c] = p /\ children[c] = {} /\ c \in Linked
  BY DEF TypeOK, LinkInv, LeafInv, Leaving, Zombie, Alive
<1>2. Linked' = Linked \ {c}
  BY <1>1 DEF Linked, TypeOK
<1>3. \A q \in Procs \ {c} : parent'[q] = parent[q]
  BY <1>1 DEF TypeOK
<1>4. \A q \in Linked : parent[q] # c
  BY <1>1 DEF LinkInv, Linked
<1>5. LinkInv'
  <2>1. \A q \in Procs : Root \notin children'[q]
    BY DEF LinkInv, TypeOK
  <2>2. \A q \in Linked' : parent'[q] \in Procs /\ pc'[parent'[q]] # "free"
    BY <1>1, <1>2, <1>3, <1>4 DEF LinkInv, TypeOK, Linked
  <2>3. ASSUME NEW q \in Procs \ {Root}, NEW r \in Procs
        PROVE  q \in children'[r] <=> q \in Linked' /\ r = parent'[q]
    <3>1. q \in children[r] <=> q \in Linked /\ r = parent[q]
      BY DEF LinkInv
    <3> QED BY <3>1, <1>1, <1>2, <1>3 DEF TypeOK
  <2> QED BY <2>1, <2>2, <2>3 DEF LinkInv
<1>6. Acyclic'
  <2> SUFFICES ASSUME NEW S \in SUBSET Linked', S # {} PROVE \E q \in S : parent'[q] \notin S
    BY DEF Acyclic
  <2>1. S \in (SUBSET Linked) \ {{}}
    BY <1>2
  <2>2. PICK q \in S : parent[q] \notin S
    BY <2>1 DEF Acyclic
  <2>3. q \in Procs \ {c}
    BY <2>2, <1>2 DEF Linked
  <2> QED BY <2>2, <2>3, <1>3
<1> QED BY <1>5, <1>6

\* root_proc adopts the children of a process that leaves.
LEMMA AdoptTree ==
  ASSUME TypeOK, LinkInv, Acyclic, LeafInv, NEW p \in Procs, exit_children(p)
  PROVE  LinkInv' /\ Acyclic'
<1>1. p # Root /\ pc[p] = "run" /\ pc[Root] # "free" /\ Root \in Procs
  BY ProcTreeAssumption DEF exit_children, LeafInv, Alive
<1>2. /\ parent' = [q \in Procs |-> IF q \in children[p] THEN Root ELSE parent[q]]
      /\ children' = [children EXCEPT ![Root] = @ \cup children[p], ![p] = {}]
  BY DEF exit_children, parent_adopted
<1>3. \A q \in Procs : pc'[q] = "free" <=> pc[q] = "free"
  BY <1>1 DEF exit_children, PostPc, TypeOK
<1>4. Linked' = Linked
  BY <1>3 DEF Linked
<1>5. LinkInv'
  <2>1. \A q \in Procs : Root \notin children'[q]
    BY <1>1, <1>2 DEF LinkInv, TypeOK
  <2>2. \A q \in Linked' : parent'[q] \in Procs /\ pc'[parent'[q]] # "free"
    BY <1>1, <1>2, <1>3, <1>4 DEF LinkInv, Linked
  <2>3. ASSUME NEW q \in Procs \ {Root}, NEW r \in Procs
        PROVE  q \in children'[r] <=> q \in Linked' /\ r = parent'[q]
    <3>1. q \in children[r] <=> q \in Linked /\ r = parent[q]
      BY DEF LinkInv
    <3>2. q \in children[p] <=> q \in Linked /\ p = parent[q]
      BY DEF LinkInv
    <3>3. q \in children[Root] <=> q \in Linked /\ Root = parent[q]
      BY <1>1 DEF LinkInv
    <3> QED BY <3>1, <3>2, <3>3, <1>1, <1>2, <1>4 DEF TypeOK
  <2> QED BY <2>1, <2>2, <2>3 DEF LinkInv
<1>6. Acyclic'
  <2> SUFFICES ASSUME NEW S \in SUBSET Linked, S # {} PROVE \E q \in S : parent'[q] \notin S
    BY <1>4 DEF Acyclic
  <2>1. Root \notin S
    BY DEF Linked
  <2>2. PICK q \in S : parent[q] \notin S
    BY DEF Acyclic
  <2>3. q \in Procs
    BY <2>2 DEF Linked
  <2> QED BY <2>1, <2>2, <2>3, <1>2
<1> QED BY <1>5, <1>6

\* Every step keeps the tree.
LEMMA TreeStep ==
  TypeOK /\ LinkInv /\ Acyclic /\ LeafInv /\ TargetInv /\ [Next]_vars => LinkInv' /\ Acyclic'
<1> SUFFICES ASSUME TypeOK, LinkInv, Acyclic, LeafInv, TargetInv, [Next]_vars
             PROVE  LinkInv' /\ Acyclic'
  OBVIOUS
<1>1. CASE UNCHANGED vars
  BY <1>1, QuietTree DEF vars
<1>2. ASSUME NEW p \in Procs, Inside(p) PROVE LinkInv' /\ Acyclic'
  <2>1. CASE start_proc(p)
    <3>1. \A q \in Procs : pc'[q] = "free" <=> pc[q] = "free"
      BY <2>1 DEF start_proc, TargetInv, TypeOK
    <3> QED BY <2>1, <3>1, QuietTree DEF start_proc
  <2>2. CASE wait_sem(p) \/ wait_fail(p)
    <3>1. \A q \in Procs : pc'[q] = "free" <=> pc[q] = "free"
      BY <2>2 DEF wait_sem, wait_fail, Goto, TypeOK
    <3> QED BY <2>2, <3>1, QuietTree DEF wait_sem, wait_fail
  <2>3. CASE reap(p)
    <3>1. CASE \E c \in children[p] : Zombie(c)
      <4>1. PICK c \in children[p] :
              /\ Zombie(c)
              /\ pc' = [pc EXCEPT ![p] = "run", ![c] = "free"]
              /\ children' = [children EXCEPT ![p] = @ \ {c}]
              /\ parent' = [parent EXCEPT ![c] = None]
        BY <2>3, <3>1 DEF reap
      <4> QED BY <2>3, <4>1, FreeTree DEF reap
    <3>2. CASE ~\E c \in children[p] : Zombie(c)
      <4>1. \A q \in Procs : pc'[q] = "free" <=> pc[q] = "free"
        BY <2>3, <3>2 DEF reap, Goto, TypeOK
      <4> QED BY <2>3, <3>2, <4>1, QuietTree DEF reap
    <3> QED BY <3>1, <3>2
  <2>4. CASE kill_mark(p)
    <3>1. \A q \in Procs : pc'[q] = "free" <=> pc[q] = "free"
      BY <2>4 DEF kill_mark, TargetInv, TypeOK
    <3> QED BY <2>4, <3>1, QuietTree DEF kill_mark
  <2>5. CASE exit_post(p)
    <3>1. \A q \in Procs : pc'[q] = "free" <=> pc[q] = "free"
      BY <2>5 DEF exit_post, PostPc, Waits, TypeOK
    <3> QED BY <2>5, <3>1, QuietTree DEF exit_post
  <2>6. CASE exit_lock(p) \/ exit_sched(p) \/ exit_swtch(p)
    <3>1. \A q \in Procs : pc'[q] = "free" <=> pc[q] = "free"
      BY <2>6 DEF exit_lock, exit_sched, exit_swtch, Goto, TypeOK
    <3> QED BY <2>6, <3>1, QuietTree DEF exit_lock, exit_sched, exit_swtch
  <2> QED BY <1>2, <2>1, <2>2, <2>3, <2>4, <2>5, <2>6 DEF Inside
<1>3. ASSUME NEW p \in Procs, wait_enter(p) PROVE LinkInv' /\ Acyclic'
  <2>1. \A q \in Procs : pc'[q] = "free" <=> pc[q] = "free"
    BY <1>3 DEF wait_enter, Goto, TypeOK
  <2> QED BY <1>3, <2>1, QuietTree DEF wait_enter
<1>4. ASSUME NEW p \in Procs, exit_children(p) PROVE LinkInv' /\ Acyclic'
  BY <1>4, AdoptTree
<1>5. ASSUME NEW p \in Procs, NEW c \in Procs, create_proc(p, c) PROVE LinkInv' /\ Acyclic'
  <2>1. pc[c] = "free" /\ pc[p] # "free" /\ Alloc(c, p) /\ pc'[c] # "free"
    BY <1>5 DEF create_proc, TypeOK
  <2>2. \A q \in Procs \ {c} : pc'[q] = "free" <=> pc[q] = "free"
    BY <1>5 DEF create_proc, TypeOK
  <2> QED BY <2>1, <2>2, AllocTree
<1>6. ASSUME NEW p \in Procs, NEW c \in Procs, start_orphan(p, c) PROVE LinkInv' /\ Acyclic'
  <2>1. pc[c] = "free" /\ Alloc(c, Root) /\ pc'[c] # "free" /\ Root \in Procs /\ pc[Root] # "free"
    BY <1>6, ProcTreeAssumption DEF start_orphan, Goto, TypeOK, LeafInv, Alive
  <2>2. \A q \in Procs \ {c} : pc'[q] = "free" <=> pc[q] = "free"
    BY <1>6 DEF start_orphan, Goto, TypeOK
  <2> QED BY <2>1, <2>2, AllocTree
<1>7. ASSUME NEW p \in Procs, NEW t \in Procs, kill_find(p, t) PROVE LinkInv' /\ Acyclic'
  <2>1. \A q \in Procs : pc'[q] = "free" <=> pc[q] = "free"
    BY <1>7 DEF kill_find, Goto, TypeOK
  <2> QED BY <1>7, <2>1, QuietTree DEF kill_find
<1> QED BY <1>1, <1>2, <1>3, <1>4, <1>5, <1>6, <1>7 DEF Next

\* Every step leaves childless who is not started or has left, and root_proc stays.
LEMMA LeafStep ==
  TypeOK /\ LinkInv /\ LeafInv /\ TargetInv /\ [Next]_vars => LeafInv'
<1> SUFFICES ASSUME TypeOK, LinkInv, LeafInv, TargetInv, [Next]_vars PROVE LeafInv'
  OBVIOUS
<1> USE ProcTreeAssumption DEF TypeOK, LeafInv, Alive, Leaving, Goto
<1>1. CASE UNCHANGED vars
  BY <1>1 DEF vars
<1>2. ASSUME NEW p \in Procs, Inside(p) PROVE LeafInv'
  <2>1. CASE start_proc(p)
    BY <2>1 DEF start_proc, TargetInv
  <2>2. CASE wait_sem(p)
    BY <2>2 DEF wait_sem
  <2>3. CASE wait_fail(p)
    BY <2>3 DEF wait_fail
  <2>4. CASE reap(p)
    BY <2>4 DEF reap, Zombie
  <2>5. CASE kill_mark(p)
    BY <2>5 DEF kill_mark, TargetInv
  <2>6. CASE exit_post(p)
    <3>1. p # Root
      BY <2>6 DEF exit_post
    <3>2. parent[p] \in Procs /\ p \in children[parent[p]]
      BY <2>6, <3>1 DEF exit_post, LinkInv, Linked
    <3> QED BY <2>6, <3>1, <3>2 DEF exit_post, PostUnits, PostPc, Waits
  <2>7. CASE exit_lock(p)
    BY <2>7 DEF exit_lock
  <2>8. CASE exit_sched(p)
    BY <2>8 DEF exit_sched
  <2>9. CASE exit_swtch(p)
    BY <2>9 DEF exit_swtch
  <2> QED BY <1>2, <2>1, <2>2, <2>3, <2>4, <2>5, <2>6, <2>7, <2>8, <2>9 DEF Inside
<1>3. ASSUME NEW p \in Procs, wait_enter(p) PROVE LeafInv'
  BY <1>3 DEF wait_enter
<1>4. ASSUME NEW p \in Procs, exit_children(p) PROVE LeafInv'
  BY <1>4 DEF exit_children, PostUnits, PostPc, Waits
<1>5. ASSUME NEW p \in Procs, NEW c \in Procs, create_proc(p, c) PROVE LeafInv'
  BY <1>5 DEF create_proc, Alloc
<1>6. ASSUME NEW p \in Procs, NEW c \in Procs, start_orphan(p, c) PROVE LeafInv'
  BY <1>6 DEF start_orphan, Alloc
<1>7. ASSUME NEW p \in Procs, NEW t \in Procs, kill_find(p, t) PROVE LeafInv'
  BY <1>7 DEF kill_find
<1> QED BY <1>1, <1>2, <1>3, <1>4, <1>5, <1>6, <1>7 DEF Next

\* Two processes have no child in common.
LEMMA OneParent ==
  ASSUME TypeOK, LinkInv, NEW p \in Procs, NEW q \in Procs, NEW c \in children[p], c \in children[q]
  PROVE  p = q /\ c \in Procs /\ c # Root
<1>1. c \in Procs \ {Root}
  BY DEF TypeOK, LinkInv
<1> QED BY <1>1 DEF LinkInv

\* Every step keeps what fork() and kill() work on.
LEMMA TargetStep ==
  TypeOK /\ LinkInv /\ LeafInv /\ TargetInv /\ [Next]_vars => TargetInv'
<1> SUFFICES ASSUME TypeOK, LinkInv, LeafInv, TargetInv, [Next]_vars PROVE TargetInv'
  OBVIOUS
<1> USE ProcTreeAssumption DEF TypeOK, TargetInv, Goto
<1>1. CASE UNCHANGED vars
  BY <1>1 DEF vars
<1>2. ASSUME NEW p \in Procs, Inside(p) PROVE TargetInv'
  <2>1. CASE start_proc(p)
    <3>1. target[p] \in children[p] /\ target[p] \in Procs
      BY <2>1 DEF start_proc
    <3>2. ASSUME NEW q \in Procs, pc[q] = "fork", q # p PROVE target[q] # target[p]
      BY <3>1, <3>2, OneParent
    <3> QED BY <2>1, <3>1, <3>2 DEF start_proc
  <2>2. CASE wait_sem(p)
    BY <2>2 DEF wait_sem
  <2>3. CASE wait_fail(p)
    BY <2>3 DEF wait_fail
  <2>4. CASE reap(p)
    <3>1. CASE \E c \in children[p] : Zombie(c)
      <4>1. PICK c \in children[p] :
              /\ Zombie(c)
              /\ pc' = [pc EXCEPT ![p] = "run", ![c] = "free"]
              /\ children' = [children EXCEPT ![p] = @ \ {c}]
        BY <2>4, <3>1 DEF reap
      <4>2. ASSUME NEW q \in Procs, pc[q] = "kill" PROVE target[q] # c
        BY <2>4, <4>1, <4>2, OneParent DEF reap, Zombie
      <4>3. c \in Procs /\ pc[c] \in {"switching", "zombie"}
        BY <4>1 DEF Zombie
      <4> QED BY <2>4, <4>1, <4>2, <4>3 DEF reap
    <3>2. CASE ~\E c \in children[p] : Zombie(c)
      BY <2>4, <3>2 DEF reap
    <3> QED BY <3>1, <3>2
  <2>5. CASE kill_mark(p)
    BY <2>5 DEF kill_mark
  <2>6. CASE exit_post(p)
    BY <2>6 DEF exit_post, PostPc, Waits
  <2>7. CASE exit_lock(p)
    BY <2>7 DEF exit_lock
  <2>8. CASE exit_sched(p)
    BY <2>8 DEF exit_sched
  <2>9. CASE exit_swtch(p)
    BY <2>9 DEF exit_swtch
  <2> QED BY <1>2, <2>1, <2>2, <2>3, <2>4, <2>5, <2>6, <2>7, <2>8, <2>9 DEF Inside
<1>3. ASSUME NEW p \in Procs, wait_enter(p) PROVE TargetInv'
  BY <1>3 DEF wait_enter
<1>4. ASSUME NEW p \in Procs, exit_children(p) PROVE TargetInv'
  <2>1. pc[Root] # "new" /\ pc[Root] # "free"
    BY DEF LeafInv, Alive
  <2> QED BY <1>4, <2>1 DEF exit_children, PostPc, Waits
<1>5. ASSUME NEW p \in Procs, NEW c \in Procs, create_proc(p, c) PROVE TargetInv'
  BY <1>5 DEF create_proc, Alloc
<1>6. ASSUME NEW p \in Procs, NEW c \in Procs, start_orphan(p, c) PROVE TargetInv'
  BY <1>6 DEF start_orphan, Alloc
<1>7. ASSUME NEW p \in Procs, NEW t \in Procs, kill_find(p, t) PROVE TargetInv'
  BY <1>7 DEF kill_find
<1> QED BY <1>1, <1>2, <1>3, <1>4, <1>5, <1>6, <1>7 DEF Next

\* Every step keeps who has the locks.
LEMMA LockStep ==
  TypeOK /\ LinkInv /\ LeafInv /\ TargetInv /\ LockInv /\ [Next]_vars => LockInv'
<1> SUFFICES ASSUME TypeOK, LinkInv, LeafInv, TargetInv, LockInv, [Next]_vars PROVE LockInv'
  OBVIOUS
<1> USE ProcTreeAssumption DEF TypeOK, LockInv, Goto, locks
<1>1. CASE UNCHANGED vars
  BY <1>1 DEF vars
<1>2. ASSUME NEW p \in Procs, Inside(p) PROVE LockInv'
  <2>1. CASE start_proc(p)
    BY <2>1 DEF start_proc, TargetInv
  <2>2. CASE wait_sem(p)
    BY <2>2 DEF wait_sem
  <2>3. CASE wait_fail(p)
    BY <2>3 DEF wait_fail
  <2>4. CASE reap(p)
    BY <2>4 DEF reap, Zombie
  <2>5. CASE kill_mark(p)
    BY <2>5 DEF kill_mark
  <2>6. CASE exit_post(p)
    <3>1. p # Root
      BY <2>6 DEF exit_post, LeafInv, Alive
    <3>2. parent[p] \in Procs /\ p \in children[parent[p]]
      BY <2>6, <3>1 DEF exit_post, LinkInv, Linked
    <3>3. parent[p] # p
      BY <2>6, <3>2 DEF exit_post, LeafInv, Leaving
    <3> QED BY <2>6, <3>2, <3>3 DEF exit_post, PostPc, Waits
  <2>7. CASE exit_lock(p)
    BY <2>7 DEF exit_lock
  <2>8. CASE exit_sched(p)
    BY <2>8 DEF exit_sched
  <2>9. CASE exit_swtch(p)
    BY <2>9 DEF exit_swtch
  <2> QED BY <1>2, <2>1, <2>2, <2>3, <2>4, <2>5, <2>6, <2>7, <2>8, <2>9 DEF Inside
<1>3. ASSUME NEW p \in Procs, wait_enter(p) PROVE LockInv'
  BY <1>3 DEF wait_enter
<1>4. ASSUME NEW p \in Procs, exit_children(p) PROVE LockInv'
  BY <1>4 DEF exit_children, PostPc, Waits
<1>5. ASSUME NEW p \in Procs, NEW c \in Procs, create_proc(p, c) PROVE LockInv'
  BY <1>5 DEF create_proc, Alloc
<1>6. ASSUME NEW p \in Procs, NEW c \in Procs, start_orphan(p, c) PROVE LockInv'
  BY <1>6 DEF start_orphan, Alloc
<1>7. ASSUME NEW p \in Procs, NEW t \in Procs, kill_find(p, t) PROVE LockInv'
  BY <1>7 DEF kill_find
<1> QED BY <1>1, <1>2, <1>3, <1>4, <1>5, <1>6, <1>7 DEF Next

\* The children that have posted stay the same where neither the links change nor
\* who has posted.
LEMMA SameDue ==
  ASSUME TypeOK, NEW q \in Procs, children'[q] = children[q],
         \A c \in children[q] : pc'[c] \in Announced <=> pc[c] \in Announced
  PROVE  Due(q)' = Due(q)
BY DEF Due

\* A step that changes no link, no unit and nobody's place in the counting.
LEMMA QuietCount ==
  ASSUME TypeOK, CountInv, UNCHANGED <<children, units>>,
         \A q \in Procs : /\ pc'[q] \in Announced <=> pc[q] \in Announced
                          /\ pc'[q] \in Alive => pc[q] \in Alive /\ Unit(q)' = Unit(q)
  PROVE  CountInv'
<1> SUFFICES ASSUME NEW q \in Procs, pc'[q] \in Alive
             PROVE  units'[q] + Unit(q)' = Cardinality(Due(q)')
  BY DEF CountInv
<1>1. Due(q)' = Due(q)
  BY SameDue DEF TypeOK
<1> QED BY <1>1 DEF CountInv

\* Every step keeps the count of the children that have posted.
LEMMA CountStep ==
  TypeOK /\ LinkInv /\ LeafInv /\ TargetInv /\ LockInv /\ CountInv /\ [Next]_vars => CountInv'
<1> SUFFICES ASSUME TypeOK, LinkInv, LeafInv, TargetInv, LockInv, CountInv, [Next]_vars
             PROVE  CountInv'
  OBVIOUS
<1> USE ProcTreeAssumption
<1>1. CASE UNCHANGED vars
  BY <1>1, QuietCount DEF vars, Unit
<1>2. ASSUME NEW p \in Procs, Inside(p) PROVE CountInv'
  <2>1. CASE start_proc(p)
    <3>1. /\ target[p] \in Procs /\ pc[target[p]] = "new" /\ children[target[p]] = {}
          /\ units[target[p]] = 0
      BY <2>1 DEF start_proc, TargetInv, LeafInv, TypeOK
    <3>2. UNCHANGED <<children, units>>
      BY <2>1 DEF start_proc
    <3>3. \A q \in Procs : pc'[q] \in Announced <=> pc[q] \in Announced
      BY <2>1, <3>1 DEF start_proc, TypeOK, Announced
    <3> SUFFICES ASSUME NEW q \in Procs, pc'[q] \in Alive
                 PROVE  units'[q] + Unit(q)' = Cardinality(Due(q)')
      BY DEF CountInv
    <3>4. Due(q)' = Due(q)
      BY <3>2, <3>3, SameDue DEF TypeOK
    <3>5. CASE q = target[p]
      <4>1. Due(q)' = {} /\ Unit(q)' = 0 /\ units'[q] = 0
        BY <2>1, <3>1, <3>2, <3>4, <3>5 DEF start_proc, Due, Unit, TypeOK
      <4> QED BY <4>1, FS_EmptySet
    <3>6. CASE q # target[p]
      <4>1. pc[q] \in Alive /\ Unit(q)' = Unit(q)
        BY <2>1, <3>1, <3>6 DEF start_proc, Alive, Unit, TypeOK
      <4> QED BY <4>1, <3>2, <3>4 DEF CountInv
    <3> QED BY <3>5, <3>6
  <2>2. CASE wait_sem(p)
    <3>1. CASE units[p] > 0
      <4>1. \A q \in Procs : pc'[q] \in Announced <=> pc[q] \in Announced
        BY <2>2, <3>1 DEF wait_sem, Goto, TypeOK, Announced
      <4> SUFFICES ASSUME NEW q \in Procs, pc'[q] \in Alive
                   PROVE  units'[q] + Unit(q)' = Cardinality(Due(q)')
        BY DEF CountInv
      <4>2. Due(q)' = Due(q)
        BY <2>2, <4>1, SameDue DEF wait_sem, TypeOK
      <4>3. pc[q] \in Alive /\ units'[q] + Unit(q)' = units[q] + Unit(q)
        BY <2>2, <3>1 DEF wait_sem, Goto, Alive, Unit, TypeOK
      <4> QED BY <4>2, <4>3 DEF CountInv
    <3>2. CASE ~(units[p] > 0)
      <4>1. \A q \in Procs : /\ pc'[q] \in Announced <=> pc[q] \in Announced
                             /\ pc'[q] \in Alive => pc[q] \in Alive /\ Unit(q)' = Unit(q)
        BY <2>2, <3>2 DEF wait_sem, Goto, TypeOK, Announced, Alive, Unit
      <4> QED BY <2>2, <3>2, <4>1, QuietCount DEF wait_sem
    <3> QED BY <3>1, <3>2
  <2>3. CASE wait_fail(p)
    <3>1. \A q \in Procs : /\ pc'[q] \in Announced <=> pc[q] \in Announced
                           /\ pc'[q] \in Alive => pc[q] \in Alive /\ Unit(q)' = Unit(q)
      BY <2>3 DEF wait_fail, Goto, TypeOK, Announced, Alive, Unit
    <3> QED BY <2>3, <3>1, QuietCount DEF wait_fail
  <2>4. CASE reap(p)
    <3>1. \E c \in children[p] : Zombie(c)
      <4>1. units[p] + 1 = Cardinality(Due(p)) /\ units[p] \in Nat
        BY <2>4 DEF reap, CountInv, Unit, Alive, TypeOK
      <4>2. Due(p) # {}
        BY <4>1, FS_EmptySet
      <4>3. PICK c \in children[p] : pc[c] \in Announced
        BY <4>2 DEF Due
      <4>4. c \in Procs /\ processlock # c /\ schedlock # c
        BY <2>4, <4>3 DEF reap, TypeOK
      <4> QED BY <4>3, <4>4 DEF LockInv, Announced, Zombie
    <3>2. PICK c \in children[p] :
            /\ Zombie(c)
            /\ pc' = [pc EXCEPT ![p] = "run", ![c] = "free"]
            /\ children' = [children EXCEPT ![p] = @ \ {c}]
      BY <2>4, <3>1 DEF reap
    <3>3. c \in Procs /\ c # p /\ c \in Due(p) /\ pc[c] \in {"switching", "zombie"}
      BY <2>4, <3>2 DEF reap, Zombie, Due, Announced, TypeOK
    <3> SUFFICES ASSUME NEW q \in Procs, pc'[q] \in Alive
                 PROVE  units'[q] + Unit(q)' = Cardinality(Due(q)')
      BY DEF CountInv
    <3>4. pc[q] \in Alive /\ units'[q] = units[q]
      BY <2>4, <3>2, <3>3 DEF reap, Alive, TypeOK
    <3>5. CASE q = p
      <4>1. Due(p)' = Due(p) \ {c}
        BY <2>4, <3>2, <3>3 DEF reap, Due, Announced, TypeOK
      <4>2. Cardinality(Due(p) \ {c}) = Cardinality(Due(p)) - 1
        BY <3>3, DueFinite, FS_RemoveElement
      <4>3. Unit(p)' = 0 /\ Unit(p) = 1
        BY <2>4, <3>2, <3>3 DEF reap, Unit, TypeOK
      <4> QED BY <3>4, <3>5, <4>1, <4>2, <4>3 DEF CountInv, TypeOK
    <3>6. CASE q # p
      <4>1. c \notin children[q]
        BY <3>2, <3>6, OneParent
      <4>2. Due(q)' = Due(q)
        BY <2>4, <3>2, <3>3, <3>6, <4>1 DEF reap, Due, Announced, TypeOK
      <4>3. Unit(q)' = Unit(q)
        BY <3>2, <3>6, <3>3 DEF Unit, TypeOK
      <4> QED BY <3>4, <4>2, <4>3 DEF CountInv
    <3> QED BY <3>5, <3>6
  <2>5. CASE kill_mark(p)
    <3>1. \A q \in Procs : /\ pc'[q] \in Announced <=> pc[q] \in Announced
                           /\ pc'[q] \in Alive => pc[q] \in Alive /\ Unit(q)' = Unit(q)
      BY <2>5 DEF kill_mark, TypeOK, Announced, Alive, Unit
    <3> QED BY <2>5, <3>1, QuietCount DEF kill_mark
  <2>6. CASE exit_post(p)
    <3> DEFINE par == parent[p]
    <3>1. p # Root /\ pc[p] = "exiting"
      BY <2>6 DEF exit_post, LeafInv, Alive
    <3>2. par \in Procs /\ p \in children[par] /\ par # p
      BY <3>1 DEF LinkInv, Linked, LeafInv, Leaving
    <3>3. /\ pc' = [pc EXCEPT ![p] = "posted", ![par] = PostPc(par, 1)]
          /\ units' = [units EXCEPT ![par] = @ + 1 - (IF Waits(par) /\ 1 > 0 THEN 1 ELSE 0)]
          /\ children' = children
      BY <2>6 DEF exit_post, PostUnits
    <3> SUFFICES ASSUME NEW q \in Procs, pc'[q] \in Alive
                 PROVE  units'[q] + Unit(q)' = Cardinality(Due(q)')
      BY DEF CountInv
    <3> HIDE DEF par
    <3>4. \A c \in Procs \ {p} : pc'[c] \in Announced <=> pc[c] \in Announced
      BY <3>2, <3>3 DEF PostPc, Waits, Announced, TypeOK
    <3>5. pc'[p] = "posted"
      BY <3>2, <3>3 DEF TypeOK
    <3>6. CASE q = par
      <4>1. Due(q)' = Due(q) \cup {p} /\ p \notin Due(q)
        BY <3>1, <3>2, <3>3, <3>4, <3>5, <3>6 DEF Due, Announced, TypeOK
      <4>2. Cardinality(Due(q)') = Cardinality(Due(q)) + 1
        BY <4>1, DueFinite, FS_AddElement
      <4>3. pc[q] \in Alive /\ units'[q] + Unit(q)' = units[q] + Unit(q) + 1
        BY <3>2, <3>3, <3>6 DEF PostPc, Waits, Alive, Unit, TypeOK
      <4> QED BY <4>2, <4>3 DEF CountInv
    <3>7. CASE q # par
      <4>1. p \notin children[q]
        BY <3>2, <3>7, OneParent
      <4>2. Due(q)' = Due(q)
        BY <3>3, <3>4, <4>1, SameDue DEF TypeOK
      <4>3. pc[q] \in Alive /\ units'[q] + Unit(q)' = units[q] + Unit(q)
        BY <3>2, <3>3, <3>5, <3>7 DEF Alive, Unit, TypeOK
      <4> QED BY <4>2, <4>3 DEF CountInv
    <3> QED BY <3>6, <3>7
  <2>7. CASE exit_lock(p) \/ exit_sched(p) \/ exit_swtch(p)
    <3>1. \A q \in Procs : /\ pc'[q] \in Announced <=> pc[q] \in Announced
                           /\ pc'[q] \in Alive => pc[q] \in Alive /\ Unit(q)' = Unit(q)
      BY <2>7 DEF exit_lock, exit_sched, exit_swtch, Goto, TypeOK, Announced, Alive, Unit
    <3> QED BY <2>7, <3>1, QuietCount DEF exit_lock, exit_sched, exit_swtch
  <2> QED BY <1>2, <2>1, <2>2, <2>3, <2>4, <2>5, <2>6, <2>7 DEF Inside
<1>3. ASSUME NEW p \in Procs, wait_enter(p) PROVE CountInv'
  <2>1. \A q \in Procs : /\ pc'[q] \in Announced <=> pc[q] \in Announced
                         /\ pc'[q] \in Alive => pc[q] \in Alive /\ Unit(q)' = Unit(q)
    BY <1>3 DEF wait_enter, Goto, TypeOK, Announced, Alive, Unit
  <2> QED BY <1>3, <2>1, QuietCount DEF wait_enter
<1>4. ASSUME NEW p \in Procs, exit_children(p) PROVE CountInv'
  <2> DEFINE n == Cardinality(Adopted(p))
  <2>1. n \in Nat /\ (n = 0 <=> Adopted(p) = {})
    BY DueFinite, FS_EmptySet
  <2>2. /\ p # Root /\ pc[p] = "run" /\ processlock = None /\ schedlock = None
        /\ pc' = [pc EXCEPT ![p] = "exiting", ![Root] = PostPc(Root, n)]
        /\ units' = [units EXCEPT ![Root] = @ + n - (IF Waits(Root) /\ n > 0 THEN 1 ELSE 0)]
        /\ children' = [children EXCEPT ![Root] = @ \cup children[p], ![p] = {}]
    BY <1>4 DEF exit_children, PostUnits
  <2> HIDE DEF n
  <2> SUFFICES ASSUME NEW q \in Procs, pc'[q] \in Alive
               PROVE  units'[q] + Unit(q)' = Cardinality(Due(q)')
    BY DEF CountInv
  <2>3. \A c \in Procs : pc'[c] \in Announced <=> pc[c] \in Announced
    BY <2>2 DEF PostPc, Waits, Announced, TypeOK
  <2>4. \A c \in children[p] : pc[c] \in Announced <=> Zombie(c)
    BY <2>2 DEF Announced, Zombie, LockInv, TypeOK
  <2>5. pc[Root] \in Alive
    BY DEF LeafInv
  <2>6. CASE q = Root
    <3>1. Due(q)' = Due(q) \cup Adopted(p)
      BY <2>2, <2>3, <2>4, <2>6 DEF Due, Adopted, TypeOK
    <3>2. Due(q) \cap Adopted(p) = {}
      BY <2>2, <2>6, OneParent DEF Due, Adopted
    <3>3. Cardinality(Due(q)') = Cardinality(Due(q)) + n
      <4>1. Cardinality(Due(q) \cup Adopted(p))
              = Cardinality(Due(q)) + Cardinality(Adopted(p)) - Cardinality(Due(q) \cap Adopted(p))
        BY DueFinite, FS_Union
      <4>2. Cardinality(Due(q) \cap Adopted(p)) = 0
        BY <3>2, FS_EmptySet
      <4>3. Cardinality(Due(q)) \in Nat /\ Cardinality(Adopted(p)) \in Nat
        BY DueFinite, FS_CardinalityType
      <4>4. Cardinality(Due(q)') = Cardinality(Due(q) \cup Adopted(p))
        BY <3>1
      <4> QED BY <4>1, <4>2, <4>3, <4>4 DEF n
    <3>4. units'[q] + Unit(q)' = units[q] + Unit(q) + n
      BY <2>1, <2>2, <2>6 DEF PostPc, Waits, Unit, TypeOK
    <3>5. units[q] + Unit(q) = Cardinality(Due(q))
      BY <2>5, <2>6 DEF CountInv
    <3> QED BY <3>3, <3>4, <3>5
  <2>7. CASE q # Root
    <3>1. q # p
      BY <2>2, <2>7 DEF Alive, TypeOK
    <3>2. Due(q)' = Due(q)
      BY <2>2, <2>3, <2>7, <3>1, SameDue DEF TypeOK
    <3>3. pc[q] \in Alive /\ units'[q] = units[q] /\ Unit(q)' = Unit(q)
      BY <2>2, <2>7, <3>1 DEF Alive, Unit, TypeOK
    <3> QED BY <3>2, <3>3 DEF CountInv
  <2> QED BY <2>6, <2>7
<1>5. ASSUME NEW p \in Procs, NEW c \in Procs, NEW par \in Procs, pc[c] = "free", pc[par] \in Alive,
             Alloc(c, par), pc'[c] \in {"new", "run"},
             \A q \in Procs \ {c} : /\ pc'[q] \in Announced <=> pc[q] \in Announced
                                    /\ pc'[q] \in Alive => pc[q] \in Alive /\ Unit(q)' = Unit(q)
      PROVE  CountInv'
  <2>1. /\ children' = [children EXCEPT ![par] = @ \cup {c}, ![c] = {}]
        /\ units' = [units EXCEPT ![c] = 0]
    BY <1>5 DEF Alloc
  <2>2. c # par /\ pc'[c] \notin Announced
    BY <1>5 DEF Alive, Announced
  <2> SUFFICES ASSUME NEW q \in Procs, pc'[q] \in Alive
               PROVE  units'[q] + Unit(q)' = Cardinality(Due(q)')
    BY DEF CountInv
  <2>3. CASE q = c
    <3>1. Due(q)' = {} /\ Unit(q)' = 0 /\ units'[q] = 0
      BY <1>5, <2>1, <2>3 DEF Due, Unit, TypeOK
    <3> QED BY <3>1, FS_EmptySet
  <2>4. CASE q # c
    <3>1. Due(q)' = Due(q)
      BY <1>5, <2>1, <2>2, <2>4 DEF Due, Announced, TypeOK
    <3>2. pc[q] \in Alive /\ units'[q] = units[q] /\ Unit(q)' = Unit(q)
      BY <1>5, <2>1, <2>4 DEF TypeOK
    <3> QED BY <3>1, <3>2 DEF CountInv
  <2> QED BY <2>3, <2>4
<1>6. ASSUME NEW p \in Procs, NEW c \in Procs, create_proc(p, c) PROVE CountInv'
  <2>1. pc[c] = "free" /\ pc[p] \in Alive /\ Alloc(c, p) /\ pc'[c] = "new"
    BY <1>6 DEF create_proc, Alive, TypeOK
  <2>2. \A q \in Procs \ {c} : /\ pc'[q] \in Announced <=> pc[q] \in Announced
                               /\ pc'[q] \in Alive => pc[q] \in Alive /\ Unit(q)' = Unit(q)
    BY <1>6 DEF create_proc, Alive, Announced, Unit, TypeOK
  <2> QED BY <1>5, <2>1, <2>2
<1>7. ASSUME NEW p \in Procs, NEW c \in Procs, start_orphan(p, c) PROVE CountInv'
  <2>1. pc[c] = "free" /\ pc[Root] \in Alive /\ Alloc(c, Root) /\ pc'[c] = "run"
    BY <1>7 DEF start_orphan, Goto, LeafInv, TypeOK
  <2>2. \A q \in Procs \ {c} : /\ pc'[q] \in Announced <=> pc[q] \in Announced
                               /\ pc'[q] \in Alive => pc[q] \in Alive /\ Unit(q)' = Unit(q)
    BY <1>7 DEF start_orphan, Goto, Unit, TypeOK
  <2> QED BY <1>5, <2>1, <2>2
<1>8. ASSUME NEW p \in Procs, NEW t \in Procs, kill_find(p, t) PROVE CountInv'
  <2>1. \A q \in Procs : /\ pc'[q] \in Announced <=> pc[q] \in Announced
                         /\ pc'[q] \in Alive => pc[q] \in Alive /\ Unit(q)' = Unit(q)
    BY <1>8 DEF kill_find, Goto, TypeOK, Announced, Alive, Unit
  <2> QED BY <1>8, <2>1, QuietCount DEF kill_find
<1> QED BY <1>1, <1>2, <1>3, <1>4, <1>6, <1>7, <1>8 DEF Next
-----------------------------------------------------------------------------
(* The theorems.                                                           *)

\* The tree the kernel starts with, the root process alone, satisfies the
\* invariant.
LEMMA InitInv == Init => IInv
<1> SUFFICES ASSUME Init PROVE IInv
  OBVIOUS
<1> USE ProcTreeAssumption DEF Init
<1>1. TypeOK
  BY DEF TypeOK
<1>2. LinkInv /\ LeafInv
  BY DEF LinkInv, Linked, LeafInv, Leaving, Alive
<1>3. Acyclic
  <2>1. Linked = {}
    BY DEF Linked
  <2> QED BY <2>1 DEF Acyclic
<1>4. TargetInv /\ LockInv
  BY DEF TargetInv, LockInv
<1>5. CountInv
  <2>1. \A q \in Procs : Due(q) = {} /\ units[q] = 0 /\ Unit(q) = 0
    BY DEF Due, Unit
  <2> QED BY <2>1, FS_EmptySet DEF CountInv
<1> QED BY <1>1, <1>2, <1>3, <1>4, <1>5 DEF IInv

\* The invariant holds in every reachable state.
THEOREM Invariance == Spec => []IInv
<1>1. IInv /\ [Next]_vars => IInv'
  BY TypeStep, TreeStep, LeafStep, TargetStep, LockStep, CountStep DEF IInv
<1> QED BY <1>1, InitInv, PTL DEF Spec

\* Every variable has its type.
THEOREM TypeCorrect == Spec => []TypeOK
<1>1. IInv => TypeOK
  BY DEF IInv
<1> QED BY <1>1, Invariance, PTL

\* The parent pointers and the lists of children describe one tree of the
\* processes there are, with root_proc at its root (set_parent_to_this, wait, exit).
THEOREM ProcessesFormATree == Spec => []TreeShape
<1>1. IInv => TreeShape
  <2> SUFFICES ASSUME IInv PROVE TreeShape
    OBVIOUS
  <2>1. /\ \A p \in Procs \ {Root}, q \in Procs : p \in children[q] <=> p \in Linked /\ q = parent[p]
        /\ \A p \in Linked : pc[parent[p]] # "free"
    BY DEF IInv, LinkInv
  <2>2. \A S \in (SUBSET Linked) \ {{}} : \E p \in S : parent[p] \notin S
    BY DEF IInv, Acyclic
  <2> QED BY <2>1, <2>2 DEF TreeShape, Linked
<1> QED BY <1>1, Invariance, PTL

\* No childexit is lost or posted twice: the units of a process count its dead
\* children, those it adopted included (exit, wait).
THEOREM ZombiesAreCounted == Spec => []ZombiesCounted
<1>1. IInv => ZombiesCounted
  <2> SUFFICES ASSUME IInv, NEW p \in Procs, pc[p] \in Alive
               PROVE  units[p] + Unit(p) = Cardinality({c \in children[p] : Zombie(c) \/ pc[c] \in {"posted", "dying"}})
    BY DEF ZombiesCounted, Alive, Unit
  <2>1. Due(p) = {c \in children[p] : Zombie(c) \/ pc[c] \in {"posted", "dying"}}
    BY DEF Due, Announced, Zombie
  <2> QED BY <2>1 DEF IInv, CountInv
<1> QED BY <1>1, Invariance, PTL

\* A wait that took a unit and both locks finds a zombie to free (wait).
THEOREM WaitsFindZombies == Spec => []WaitFindsZombie
<1>1. IInv => WaitFindsZombie
  <2> SUFFICES ASSUME IInv, NEW p \in Procs,
                      pc[p] = "reap", processlock = None, schedlock = None
               PROVE  \E c \in children[p] : Zombie(c)
    BY DEF WaitFindsZombie
  <2> USE ProcTreeAssumption DEF IInv
  <2>1. units[p] + 1 = Cardinality(Due(p)) /\ units[p] \in Nat
    BY DEF CountInv, Alive, Unit, TypeOK
  <2>2. Due(p) # {}
    BY <2>1, FS_EmptySet
  <2>3. \A c \in Due(p) : c \in children[p] /\ Zombie(c)
    BY DEF Due, Announced, Zombie, LockInv, TypeOK
  <2> QED BY <2>2, <2>3
<1> QED BY <1>1, Invariance, PTL

\* The process kill() marks after it released processlock is not freed yet (kill).
THEOREM KillTargetsExist == Spec => []KillTargetExists
<1>1. IInv => KillTargetExists
  BY DEF IInv, TargetInv, KillTargetExists
<1> QED BY <1>1, Invariance, PTL

\* wait() never frees the kernel stack a CPU is still on (wait, exit).
THEOREM StacksAreLeft == Spec => ReapedOffStack
<1> DEFINE OffStack == \A p \in Procs : pc[p] # "free" /\ pc'[p] = "free" => pc[p] = "zombie"
<1>1. IInv /\ [Next]_vars => [OffStack]_vars
  <2> SUFFICES ASSUME IInv, Next, NEW c \in Procs, pc[c] # "free", pc'[c] = "free"
               PROVE  pc[c] = "zombie"
    OBVIOUS
  <2> USE ProcTreeAssumption DEF IInv, TypeOK, Goto
  <2>1. ASSUME NEW p \in Procs, reap(p) PROVE pc[c] = "zombie"
    BY <2>1 DEF reap, Zombie, LockInv
  <2>2. ASSUME NEW p \in Procs, start_proc(p) \/ wait_sem(p) \/ wait_fail(p) \/ wait_enter(p)
        PROVE  FALSE
    BY <2>2 DEF start_proc, wait_sem, wait_fail, wait_enter, TargetInv
  <2>3. ASSUME NEW p \in Procs, kill_mark(p) PROVE FALSE
    BY <2>3 DEF kill_mark, TargetInv
  <2>4. ASSUME NEW p \in Procs, exit_post(p) \/ exit_lock(p) \/ exit_sched(p) \/ exit_swtch(p)
        PROVE  FALSE
    BY <2>4 DEF exit_post, exit_lock, exit_sched, exit_swtch, PostPc
  <2>5. ASSUME NEW p \in Procs, exit_children(p) PROVE FALSE
    BY <2>5 DEF exit_children, PostPc
  <2>6. ASSUME NEW p \in Procs, NEW t \in Procs,
               create_proc(p, t) \/ start_orphan(p, t) \/ kill_find(p, t)
        PROVE  FALSE
    BY <2>6 DEF create_proc, start_orphan, kill_find
  <2> QED BY <2>1, <2>2, <2>3, <2>4, <2>5, <2>6 DEF Next, Inside
<1> QED BY <1>1, Invariance, PTL DEF Spec, ReapedOffStack
=============================================================================
