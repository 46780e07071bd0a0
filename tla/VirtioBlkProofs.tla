-------------------------- MODULE VirtioBlkProofs --------------------------
(***************************************************************************)
(* The theorems about module VirtioBlk, for any number of processes and    *)
(* descriptors.  The argument: the free list and the chains in flight are  *)
(* kept as one partition of the descriptors, so a chain that is freed and  *)
(* allocated again is never one the device still works on.                 *)
(***************************************************************************)
EXTENDS VirtioBlk, WellFoundedInduction, FiniteSetTheorems, TLAPS

-----------------------------------------------------------------------------
(* The inductive invariant.                                                *)

\* f lists the free descriptors in the order of their links, each once.
FreeIs(f) ==
  /\ f \in [1 .. nfree -> Descs]
  /\ nfree > 0 => f[1] = free_head
  /\ \A k \in 1 .. nfree - 1 : f[k + 1] = next[f[k]] /\ more[f[k]]
  /\ \A j, k \in 1 .. nfree : f[j] = f[k] => j = k

\* The descriptors of p's chain.
Members(p) == {d0[p], next[d0[p]], next[next[d0[p]]]}

\* A chain has three descriptors, all but the last with VIRTQ_DESC_F_NEXT, and two
\* chains share none.
ChainInv ==
  \A p \in Busy :
    /\ d0[p] # next[d0[p]] /\ d0[p] # next[next[d0[p]]] /\ next[d0[p]] # next[next[d0[p]]]
    /\ more[d0[p]] /\ more[next[d0[p]]] /\ ~more[next[next[d0[p]]]]
    /\ \A q \in Busy : q # p => Members(p) \cap Members(q) = {}

\* f lists exactly the descriptors that are in no chain.
Covers(f) ==
  \A d \in Descs : (\E k \in 1 .. nfree : f[k] = d) <=> (\A p \in Busy : d \notin Members(p))

\* The free list exists: following next from free_head, nfree descriptors long.
FreeInv == \E f : FreeIs(f) /\ Covers(f)

\* nfree counts the descriptors that are in no chain.
CountInv == IsFiniteSet(Busy) /\ nfree + 3 * Cardinality(Busy) = NQUEUE

\* The inductive invariant; CompletionMatches needs the partition, because rw_submit
\* must not hand out a descriptor that the device has.
IInv == TypeOK /\ ChainInv /\ FreeInv /\ CountInv /\ CompletionMatches

-----------------------------------------------------------------------------
(* Types.                                                                  *)

\* virtq_init and desc_init leave every variable with its type.
LEMMA TypeInit == Init => TypeOK
<1> SUFFICES ASSUME Init PROVE TypeOK
  OBVIOUS
<1>1. 0 \in Descs /\ \A d \in Descs : d < NQUEUE - 1 => d + 1 \in Descs
  BY VirtioAssumption DEF Descs
<1>2. next \in [Descs -> Descs] /\ more \in [Descs -> BOOLEAN]
  BY <1>1 DEF Init
<1>3. free_head \in Descs /\ nfree \in 0 .. NQUEUE
  BY <1>1, VirtioAssumption DEF Init
<1>4. avail \subseteq Descs /\ used \in Seq(Descs) /\ lk \in {"free", "intr", "panic"}
  BY DEF Init
<1>5. irq \in BOOLEAN
  BY Zenon DEF Init
<1>6. info \in [Descs -> Procs \cup {None}] /\ status \in [Descs -> {0, 1}]
  BY DEF Init
<1>7. d0 \in [Procs -> Descs] /\ sem \in [Procs -> 0..1]
  BY <1>1 DEF Init
<1>8. pc \in [Procs -> {"idle", "wait", "done", "alerted", "panic"}]
  BY DEF Init
<1> QED
  BY <1>2, <1>3, <1>4, <1>5, <1>6, <1>7, <1>8 DEF TypeOK

\* Every step keeps the types.
LEMMA TypeStep ==
  ASSUME TypeOK, CountInv, CompletionMatches, [Next]_vars
  PROVE  TypeOK'
<1>0. 0 \in Descs /\ NQUEUE \in Nat
  BY VirtioAssumption DEF Descs
<1>1. ASSUME NEW p \in Procs, rw_submit(p) PROVE TypeOK'
  <2> DEFINE a == free_head
             b == AfterAlloc(a)
             c == AfterAlloc(b)
  <2>1. a \in Descs /\ b \in Descs /\ c \in Descs /\ AfterAlloc(c) \in Descs
    BY DEF TypeOK, AfterAlloc
  <2>2. nfree - 3 \in 0 .. NQUEUE
    BY <1>0, <1>1 DEF rw_submit, TypeOK, Short
  <2>3. next' \in [Descs -> Descs] /\ more' \in [Descs -> BOOLEAN]
    BY <1>0, <1>1, <2>1, Zenon DEF rw_submit, TypeOK
  <2> QED
    <3>1. /\ free_head' = AfterAlloc(c) /\ nfree' = nfree - 3 /\ avail' = avail \cup {a}
          /\ info' = [info EXCEPT ![a] = p] /\ d0' = [d0 EXCEPT ![p] = a]
          /\ sem' = [sem EXCEPT ![p] = 0] /\ pc' = [pc EXCEPT ![p] = "wait"]
          /\ UNCHANGED <<status, used, irq, lk>>
      BY <1>1 DEF rw_submit
    <3> HIDE DEF a, b, c
    <3> QED
      BY <2>1, <2>2, <2>3, <3>1 DEF TypeOK
<1>2. ASSUME NEW p \in Procs, rw_panic(p) PROVE TypeOK'
  BY <1>2 DEF rw_panic, TypeOK, descVars
<1>3. ASSUME NEW p \in Procs, rw_wait(p) PROVE TypeOK'
  BY <1>3 DEF rw_wait, TypeOK, descVars
<1>4. ASSUME NEW p \in Procs, rw_alerted(p) PROVE TypeOK'
  BY <1>4 DEF rw_alerted, TypeOK, descVars
<1>5. ASSUME NEW p \in Procs, rw_return(p) PROVE TypeOK'
  <2>1. d0[p] \in Descs /\ next[next[d0[p]]] \in Descs
    BY DEF TypeOK
  <2>2. p \in Busy
    BY <1>5 DEF rw_return, Busy
  <2>3. Cardinality(Busy) \in Nat /\ Cardinality(Busy) # 0
    BY <2>2, FS_CardinalityType, FS_EmptySet DEF CountInv
  <2>4. nfree + 3 \in 0 .. NQUEUE
    BY <1>0, <2>3 DEF CountInv, TypeOK
  <2>5. next' \in [Descs -> Descs] /\ more' \in [Descs -> BOOLEAN]
    BY <1>5, <2>1 DEF rw_return, LinkTail, Chain, TypeOK
  <2> QED
    BY <1>5, <2>1, <2>4, <2>5 DEF rw_return, TypeOK
<1>6. ASSUME NEW d \in Descs, complete(d) PROVE TypeOK'
  BY <1>6 DEF complete, TypeOK, descVars
<1>7. CASE intr_enter
  BY <1>7, Zenon DEF intr_enter, TypeOK, descVars
<1>8. CASE intr_loop
  <2>1. Head(used) \in Descs /\ Tail(used) \in Seq(Descs) /\ Head(used) \in ToSet(used)
    BY <1>8 DEF intr_loop, TypeOK, ToSet
  <2>2. sem[info[Head(used)]] = 0
    BY <2>1 DEF CompletionMatches
  <2>3. sem' \in [Procs -> 0 .. 1]
    <3>1. \A q \in Procs : sem[q] \in 0 .. 1 /\ (q = info[Head(used)] => sem[q] + 1 \in 0 .. 1)
      BY <2>2 DEF TypeOK
    <3> QED
      BY <1>8, <3>1, Zenon DEF intr_loop, TypeOK
  <2>4. info' \in [Descs -> Procs \cup {None}]
    BY <1>8, <2>1 DEF intr_loop, TypeOK
  <2> QED
    BY <1>8, <2>1, <2>3, <2>4 DEF intr_loop, TypeOK, descVars
<1>9. CASE intr_panic \/ intr_exit
  BY <1>9 DEF intr_panic, intr_exit, TypeOK, descVars
<1>10. CASE UNCHANGED vars
  BY <1>10 DEF vars, descVars, TypeOK
<1> QED
  BY <1>1, <1>2, <1>3, <1>4, <1>5, <1>6, <1>7, <1>8, <1>9, <1>10 DEF Next

-----------------------------------------------------------------------------
(* The descriptors.                                                        *)

\* The part of the invariant about descriptors.
DescInv == ChainInv /\ FreeInv /\ CountInv

\* At the start every descriptor is on the free list, in its order (virtio_blk.c:18-23).
LEMMA DescInit == Init => DescInv
<1> SUFFICES ASSUME Init PROVE DescInv
  OBVIOUS
<1>0. NQUEUE \in Nat \ {0}
  BY VirtioAssumption
<1>1. Busy = {}
  BY DEF Init, Busy
<1> DEFINE f == [k \in 1 .. NQUEUE |-> k - 1]
<1>2. FreeIs(f)
  <2>1. nfree = NQUEUE /\ free_head = 0
    BY DEF Init
  <2>2. f \in [1 .. nfree -> Descs]
    BY <1>0, <2>1 DEF Descs
  <2>3. \A k \in 1 .. nfree - 1 : f[k + 1] = next[f[k]] /\ more[f[k]]
    <3> SUFFICES ASSUME NEW k \in 1 .. nfree - 1 PROVE f[k + 1] = next[f[k]] /\ more[f[k]]
      OBVIOUS
    <3>1. f[k + 1] = k /\ f[k] = k - 1 /\ k - 1 \in Descs /\ k - 1 < NQUEUE - 1
      BY <1>0, <2>1 DEF Descs
    <3>2. next[k - 1] = k
      BY <1>0, <3>1 DEF Init
    <3>3. more[k - 1] = (k - 1 < NQUEUE - 1)
      BY <3>1, Zenon DEF Init
    <3> QED
      BY <3>1, <3>2, <3>3, Zenon
  <2> QED
    BY <1>0, <2>1, <2>2, <2>3 DEF FreeIs
<1>3. Covers(f)
  <2> SUFFICES ASSUME NEW d \in Descs PROVE \E k \in 1 .. nfree : f[k] = d
    BY <1>1 DEF Covers
  <2>1. d + 1 \in 1 .. nfree /\ f[d + 1] = d
    BY <1>0 DEF Init, Descs
  <2> QED
    BY <2>1, Zenon
<1>4. FreeInv
  BY <1>2, <1>3 DEF FreeInv
<1> QED
  BY <1>0, <1>1, <1>4, FS_EmptySet DEF DescInv, ChainInv, CountInv, Init

\* alloc_desc, three times, moves the first three descriptors of the free list to the
\* new chain (virtio_blk.c:25-32, 59-79).
LEMMA DescSubmit ==
  ASSUME TypeOK, DescInv, NEW p \in Procs, rw_submit(p)
  PROVE  DescInv' /\ free_head \notin UNION {Members(q) : q \in Busy}
<1>0. NQUEUE \in Nat \ {0} /\ nfree \in Nat /\ nfree >= 3 /\ nfree' = nfree - 3
  BY VirtioAssumption DEF TypeOK, rw_submit, Short
<1>1. PICK f : FreeIs(f) /\ Covers(f)
  BY DEF DescInv, FreeInv
<1> DEFINE a == f[1]
           b == f[2]
           c == f[3]
<1>2. /\ a \in Descs /\ b \in Descs /\ c \in Descs /\ a # b /\ a # c /\ b # c
      /\ b = next[a] /\ c = next[b] /\ more[a] /\ more[b] /\ a = free_head
  <2>1. 1 \in 1 .. nfree - 1 /\ 2 \in 1 .. nfree - 1 /\ 1 \in 1 .. nfree /\ 2 \in 1 .. nfree /\ 3 \in 1 .. nfree
    BY <1>0
  <2>2. f[1 + 1] = next[f[1]] /\ f[2 + 1] = next[f[2]] /\ more[f[1]] /\ more[f[2]]
    BY <1>1, <2>1 DEF FreeIs
  <2> QED
    BY <1>0, <1>1, <2>1, <2>2 DEF FreeIs
<1>3. AfterAlloc(free_head) = b /\ AfterAlloc(b) = c
  BY <1>2 DEF AfterAlloc
<1> HIDE DEF a, b, c
<1>4. /\ \A d \in Descs : next'[d] = IF d = c THEN 0 ELSE IF d = b THEN c ELSE IF d = a THEN b ELSE next[d]
      /\ \A d \in Descs : more'[d] = IF d = c THEN FALSE ELSE IF d = b THEN TRUE ELSE IF d = a THEN TRUE ELSE more[d]
  BY <1>2, <1>3, Zenon DEF rw_submit, TypeOK
<1>5. /\ free_head' = AfterAlloc(c) /\ d0' = [d0 EXCEPT ![p] = a]
      /\ Busy' = Busy \cup {p} /\ p \notin Busy
  BY <1>2, <1>3 DEF rw_submit, Busy, TypeOK
<1>6. \A d \in {a, b, c} : \A q \in Busy : d \notin Members(q)
  <2>1. a = f[1] /\ b = f[2] /\ c = f[3] /\ 1 \in 1 .. nfree /\ 2 \in 1 .. nfree /\ 3 \in 1 .. nfree
    BY <1>0 DEF a, b, c
  <2> QED
    BY <1>1, <1>2, <2>1 DEF Covers
<1>7. \A q \in Busy :
        /\ d0'[q] = d0[q] /\ next'[d0[q]] = next[d0[q]] /\ next'[next[d0[q]]] = next[next[d0[q]]]
        /\ d0[q] \in Descs /\ next[d0[q]] \in Descs /\ next[next[d0[q]]] \in Descs
        /\ more'[d0[q]] = more[d0[q]] /\ more'[next[d0[q]]] = more[next[d0[q]]]
        /\ more'[next[next[d0[q]]]] = more[next[next[d0[q]]]]
        /\ Members(q)' = Members(q)
  <2> SUFFICES ASSUME NEW q \in Busy
               PROVE  /\ d0'[q] = d0[q] /\ next'[d0[q]] = next[d0[q]] /\ next'[next[d0[q]]] = next[next[d0[q]]]
                      /\ d0[q] \in Descs /\ next[d0[q]] \in Descs /\ next[next[d0[q]]] \in Descs
                      /\ more'[d0[q]] = more[d0[q]] /\ more'[next[d0[q]]] = more[next[d0[q]]]
                      /\ more'[next[next[d0[q]]]] = more[next[next[d0[q]]]]
                      /\ Members(q)' = Members(q)
    OBVIOUS
  <2>1. d0[q] \in Descs /\ next[d0[q]] \in Descs /\ next[next[d0[q]]] \in Descs /\ q # p /\ q \in Procs
    BY <1>5 DEF TypeOK, Busy
  <2>2. /\ d0[q] \notin {a, b, c} /\ next[d0[q]] \notin {a, b, c} /\ next[next[d0[q]]] \notin {a, b, c}
    BY <1>6 DEF Members
  <2>3. d0'[q] = d0[q]
    BY <1>5, <2>1 DEF TypeOK
  <2>4. /\ next'[d0[q]] = next[d0[q]] /\ next'[next[d0[q]]] = next[next[d0[q]]]
        /\ more'[d0[q]] = more[d0[q]] /\ more'[next[d0[q]]] = more[next[d0[q]]]
        /\ more'[next[next[d0[q]]]] = more[next[next[d0[q]]]]
    BY <1>4, <2>1, <2>2, Zenon
  <2>5. Members(q)' = Members(q)
    BY <2>3, <2>4 DEF Members
  <2> QED
    BY <2>1, <2>3, <2>4, <2>5
<1>8. /\ d0'[p] = a /\ next'[a] = b /\ next'[b] = c /\ more'[a] /\ more'[b] /\ ~more'[c]
      /\ Members(p)' = {a, b, c}
  <2>1. d0'[p] = a /\ next'[a] = b /\ next'[b] = c /\ more'[a] /\ more'[b] /\ ~more'[c]
    BY <1>2, <1>4, <1>5, ZenonT(30) DEF TypeOK
  <2> QED
    BY <2>1 DEF Members
<1>9. ChainInv'
  <2> SUFFICES ASSUME NEW q \in Busy'
               PROVE  /\ d0'[q] # next'[d0'[q]] /\ d0'[q] # next'[next'[d0'[q]]]
                      /\ next'[d0'[q]] # next'[next'[d0'[q]]]
                      /\ more'[d0'[q]] /\ more'[next'[d0'[q]]] /\ ~more'[next'[next'[d0'[q]]]]
                      /\ \A r \in Busy' : r # q => Members(q)' \cap Members(r)' = {}
    BY DEF ChainInv
  <2>1. CASE q = p
    BY <1>2, <1>5, <1>6, <1>7, <1>8, <2>1
  <2>2. CASE q # p
    <3>1. q \in Busy
      BY <1>5, <2>2
    <3>2. \A r \in Busy' : r # q => Members(q)' \cap Members(r)' = {}
      BY <1>5, <1>6, <1>7, <1>8, <3>1 DEF DescInv, ChainInv
    <3> QED
      BY <1>7, <3>1, <3>2 DEF DescInv, ChainInv
  <2> QED
    BY <2>1, <2>2
<1>g. PICK g : g = [k \in 1 .. nfree - 3 |-> f[k + 3]]
  BY Zenon
<1>10. /\ g \in [1 .. nfree - 3 -> Descs]
       /\ \A k \in 1 .. nfree - 3 : k + 3 \in 1 .. nfree /\ g[k] = f[k + 3] /\ g[k] \notin {a, b, c}
  <2>1. \A k \in 1 .. nfree - 3 : k + 3 \in 1 .. nfree /\ g[k] = f[k + 3] /\ k + 3 # 1 /\ k + 3 # 2 /\ k + 3 # 3
    BY <1>0, <1>g
  <2>2. 1 \in 1 .. nfree /\ 2 \in 1 .. nfree /\ 3 \in 1 .. nfree
    BY <1>0
  <2>3. \A k \in 1 .. nfree - 3 : f[k + 3] \in Descs /\ f[k + 3] \notin {a, b, c}
    BY <1>1, <2>1, <2>2 DEF FreeIs, a, b, c
  <2> QED
    BY <1>g, <2>1, <2>3
<1>11. FreeIs(g)'
  <2>1. nfree' > 0 => g[1] = free_head'
    <3> SUFFICES ASSUME nfree' > 0 PROVE g[1] = free_head'
      OBVIOUS
    <3>1. 3 \in 1 .. nfree - 1 /\ 1 \in 1 .. nfree - 3
      BY <1>0
    <3>2. f[3 + 1] = next[f[3]] /\ more[f[3]]
      BY <1>1, <3>1 DEF FreeIs
    <3>3. free_head' = f[4]
      BY <1>5, <3>2 DEF AfterAlloc, c
    <3> QED
      BY <1>g, <3>1, <3>3
  <2>2. \A k \in 1 .. nfree' - 1 : g[k + 1] = next'[g[k]] /\ more'[g[k]]
    <3> SUFFICES ASSUME NEW k \in 1 .. nfree' - 1 PROVE g[k + 1] = next'[g[k]] /\ more'[g[k]]
      OBVIOUS
    <3>1. k \in 1 .. nfree - 3 /\ k + 1 \in 1 .. nfree - 3 /\ k + 3 \in 1 .. nfree - 1 /\ (k + 1) + 3 = (k + 3) + 1
      BY <1>0
    <3>2. g[k] = f[k + 3] /\ g[k + 1] = f[(k + 3) + 1] /\ g[k] \in Descs /\ g[k] \notin {a, b, c}
      BY <1>10, <3>1
    <3>3. next'[g[k]] = next[g[k]] /\ more'[g[k]] = more[g[k]]
      BY <1>4, <3>2, Zenon
    <3>4. f[(k + 3) + 1] = next[f[k + 3]] /\ more[f[k + 3]]
      BY <1>1, <3>1 DEF FreeIs
    <3> QED
      BY <3>2, <3>3, <3>4
  <2>3. \A j, k \in 1 .. nfree' : g[j] = g[k] => j = k
    <3> SUFFICES ASSUME NEW j \in 1 .. nfree - 3, NEW k \in 1 .. nfree - 3, g[j] = g[k] PROVE j = k
      BY <1>0
    <3>1. j + 3 = k + 3
      BY <1>1, <1>10 DEF FreeIs
    <3> QED
      BY <3>1
  <2> QED
    BY <1>0, <1>10, <2>1, <2>2, <2>3 DEF FreeIs
<1>12. Covers(g)'
  <2> SUFFICES ASSUME NEW d \in Descs
               PROVE  (\E k \in 1 .. nfree - 3 : g[k] = d) <=> (\A q \in Busy' : d \notin Members(q)')
    BY <1>0 DEF Covers
  <2>1. (\A q \in Busy' : d \notin Members(q)') <=> d \notin {a, b, c} /\ \A q \in Busy : d \notin Members(q)
    BY <1>5, <1>7, <1>8
  <2>2. (\A q \in Busy : d \notin Members(q)) <=> \E k \in 1 .. nfree : f[k] = d
    BY <1>1 DEF Covers
  <2>3. ASSUME NEW k \in 1 .. nfree, f[k] = d, d \notin {a, b, c}
        PROVE  \E j \in 1 .. nfree - 3 : g[j] = d
    <3>1. k # 1 /\ k # 2 /\ k # 3
      BY <2>3 DEF a, b, c
    <3>2. k - 3 \in 1 .. nfree - 3 /\ (k - 3) + 3 = k
      BY <1>0, <3>1
    <3> QED
      BY <1>10, <2>3, <3>2
  <2> QED
    BY <1>10, <2>1, <2>2, <2>3
<1>13. CountInv'
  <2>1. IsFiniteSet(Busy') /\ Cardinality(Busy') = Cardinality(Busy) + 1 /\ Cardinality(Busy) \in Nat
    BY <1>5, FS_AddElement, FS_CardinalityType DEF DescInv, CountInv
  <2> QED
    BY <1>0, <2>1 DEF DescInv, CountInv
<1>14. free_head \notin UNION {Members(q) : q \in Busy}
  BY <1>2, <1>6
<1> QED
  BY <1>9, <1>11, <1>12, <1>13, <1>14 DEF DescInv, FreeInv

\* free_desc puts the three descriptors of the chain in front of the free list
\* (virtio_blk.c:34-44, 100).
LEMMA DescReturn ==
  ASSUME TypeOK, DescInv, NEW p \in Procs, rw_return(p)
  PROVE  DescInv'
<1>0. NQUEUE \in Nat \ {0} /\ nfree \in Nat /\ nfree' = nfree + 3
  BY VirtioAssumption DEF TypeOK, rw_return
<1>1. PICK f : FreeIs(f) /\ Covers(f)
  BY DEF DescInv, FreeInv
<1> DEFINE a == d0[p]
           b == next[d0[p]]
           c == next[next[d0[p]]]
<1>2. /\ a \in Descs /\ b \in Descs /\ c \in Descs /\ free_head \in Descs
      /\ b = next[a] /\ c = next[b] /\ Members(p) = {a, b, c}
  BY DEF TypeOK, Members
<1>3. /\ p \in Busy /\ Busy' = Busy \ {p}
      /\ free_head' = a /\ d0' = d0 /\ more' = [more EXCEPT ![c] = TRUE]
      /\ next' = IF nfree = 0 THEN next ELSE [next EXCEPT ![c] = free_head]
  BY DEF rw_return, Busy, TypeOK, LinkTail, Chain
<1>4. a # b /\ a # c /\ b # c /\ more[a] /\ more[b]
  BY <1>3 DEF DescInv, ChainInv
<1>5. \A q \in Busy : q # p => Members(p) \cap Members(q) = {}
  BY <1>3 DEF DescInv, ChainInv
<1>6. Members(p) = {a, b, c}
  BY <1>2
<1> HIDE DEF a, b, c
<1>7. /\ \A d \in Descs : d # c => next'[d] = next[d] /\ more'[d] = more[d]
      /\ more'[c] /\ (nfree # 0 => next'[c] = free_head)
  BY <1>2, <1>3 DEF TypeOK
<1>8. \A q \in Busy' :
        /\ q \in Busy /\ q # p
        /\ next'[d0[q]] = next[d0[q]] /\ next'[next[d0[q]]] = next[next[d0[q]]]
        /\ more'[d0[q]] = more[d0[q]] /\ more'[next[d0[q]]] = more[next[d0[q]]]
        /\ more'[next[next[d0[q]]]] = more[next[next[d0[q]]]]
        /\ Members(q)' = Members(q)
  <2> SUFFICES ASSUME NEW q \in Busy, q # p
               PROVE  /\ next'[d0[q]] = next[d0[q]] /\ next'[next[d0[q]]] = next[next[d0[q]]]
                      /\ more'[d0[q]] = more[d0[q]] /\ more'[next[d0[q]]] = more[next[d0[q]]]
                      /\ more'[next[next[d0[q]]]] = more[next[next[d0[q]]]]
                      /\ Members(q)' = Members(q)
    BY <1>3, Zenon
  <2>1. d0[q] \in Descs /\ next[d0[q]] \in Descs /\ next[next[d0[q]]] \in Descs
    BY DEF TypeOK, Busy
  <2>2. d0[q] # c /\ next[d0[q]] # c /\ next[next[d0[q]]] # c
    BY <1>5, <1>6, Zenon DEF Members
  <2>3. /\ next'[d0[q]] = next[d0[q]] /\ next'[next[d0[q]]] = next[next[d0[q]]]
        /\ more'[d0[q]] = more[d0[q]] /\ more'[next[d0[q]]] = more[next[d0[q]]]
        /\ more'[next[next[d0[q]]]] = more[next[next[d0[q]]]]
    BY <1>7, <2>1, <2>2
  <2>4. Members(q)' = Members(q)
    BY <1>3, <2>3 DEF Members
  <2> QED
    BY <2>3, <2>4
<1>9. ChainInv'
  <2> SUFFICES ASSUME NEW q \in Busy'
               PROVE  /\ d0'[q] # next'[d0'[q]] /\ d0'[q] # next'[next'[d0'[q]]]
                      /\ next'[d0'[q]] # next'[next'[d0'[q]]]
                      /\ more'[d0'[q]] /\ more'[next'[d0'[q]]] /\ ~more'[next'[next'[d0'[q]]]]
                      /\ \A r \in Busy' : r # q => Members(q)' \cap Members(r)' = {}
    BY DEF ChainInv
  <2>1. q \in Busy
    BY <1>8
  <2>2. \A r \in Busy' : r # q => Members(q)' \cap Members(r)' = {}
    BY <1>8, <2>1 DEF DescInv, ChainInv
  <2>3. /\ d0'[q] = d0[q] /\ next'[d0'[q]] = next[d0[q]]
        /\ next'[next'[d0'[q]]] = next[next[d0[q]]]
    <3>1. d0' = d0
      BY <1>3
    <3>2. next'[d0[q]] = next[d0[q]] /\ next'[next[d0[q]]] = next[next[d0[q]]]
      BY <1>8
    <3> QED
      BY <3>1, <3>2
  <2>4. /\ more'[d0'[q]] = more[d0[q]] /\ more'[next'[d0'[q]]] = more[next[d0[q]]]
        /\ more'[next'[next'[d0'[q]]]] = more[next[next[d0[q]]]]
    BY <1>3, <1>8, <2>3, Zenon
  <2>5. /\ d0[q] # next[d0[q]] /\ d0[q] # next[next[d0[q]]] /\ next[d0[q]] # next[next[d0[q]]]
        /\ more[d0[q]] /\ more[next[d0[q]]] /\ ~more[next[next[d0[q]]]]
    BY <2>1, Zenon DEF DescInv, ChainInv
  <2> QED
    BY <2>2, <2>3, <2>4, <2>5
<1>g. PICK g : g = [k \in 1 .. nfree + 3 |-> IF k = 1 THEN a ELSE IF k = 2 THEN b ELSE IF k = 3 THEN c
                                               ELSE f[k - 3]]
  BY Zenon
<1>10. \A k \in 1 .. nfree : f[k] \in Descs /\ f[k] \notin {a, b, c}
  <2> SUFFICES ASSUME NEW k \in 1 .. nfree PROVE f[k] \in Descs /\ f[k] \notin {a, b, c}
    OBVIOUS
  <2>1. f[k] \in Descs
    BY <1>1 DEF FreeIs
  <2>2. f[k] \notin Members(p)
    BY <1>1, <1>3, <2>1 DEF Covers
  <2> QED
    BY <1>6, <2>1, <2>2
<1>11. /\ g[1] = a /\ g[2] = b /\ g[3] = c
       /\ \A k \in 1 .. nfree + 3 : k > 3 => k - 3 \in 1 .. nfree /\ g[k] = f[k - 3]
       /\ \A k \in 1 .. nfree + 3 : k <= 3 => k = 1 \/ k = 2 \/ k = 3
  BY <1>0, <1>g
<1>12. FreeIs(g)'
  <2>1. g \in [1 .. nfree' -> Descs]
    BY <1>0, <1>2, <1>10, <1>g
  <2>2. \A k \in 1 .. nfree' - 1 : g[k + 1] = next'[g[k]] /\ more'[g[k]]
    <3> SUFFICES ASSUME NEW k \in 1 .. nfree' - 1 PROVE g[k + 1] = next'[g[k]] /\ more'[g[k]]
      OBVIOUS
    <3>1. CASE k = 1
      BY <1>2, <1>4, <1>7, <1>11, <3>1
    <3>2. CASE k = 2
      BY <1>2, <1>4, <1>7, <1>11, <3>2
    <3>3. CASE k = 3
      <4>1. nfree # 0 /\ 4 \in 1 .. nfree + 3 /\ nfree > 0 /\ 4 - 3 = 1
        BY <1>0, <3>3
      <4>2. g[4] = f[1] /\ f[1] = free_head
        BY <1>1, <1>11, <4>1 DEF FreeIs
      <4> QED
        BY <1>7, <1>11, <3>3, <4>1, <4>2
    <3>4. CASE k > 3
      <4>1. /\ k \in 1 .. nfree + 3 /\ k + 1 \in 1 .. nfree + 3 /\ k + 1 > 3 /\ (k + 1) - 3 = (k - 3) + 1
            /\ k - 3 \in 1 .. nfree - 1 /\ k - 3 \in 1 .. nfree
        BY <1>0, <3>4
      <4>2. g[k] = f[k - 3] /\ g[k + 1] = f[(k - 3) + 1]
        BY <1>11, <3>4, <4>1
      <4>3. f[(k - 3) + 1] = next[f[k - 3]] /\ more[f[k - 3]]
        BY <1>1, <4>1 DEF FreeIs
      <4>4. next'[f[k - 3]] = next[f[k - 3]] /\ more'[f[k - 3]] = more[f[k - 3]]
        BY <1>7, <1>10, <4>1
      <4> QED
        BY <4>2, <4>3, <4>4
    <3> QED
      BY <1>0, <3>1, <3>2, <3>3, <3>4
  <2>3. \A j, k \in 1 .. nfree' : g[j] = g[k] => j = k
    <3> SUFFICES ASSUME NEW j \in 1 .. nfree + 3, NEW k \in 1 .. nfree + 3, g[j] = g[k] PROVE j = k
      BY <1>0
    <3>1. CASE j <= 3 /\ k <= 3
      BY <1>4, <1>11, <3>1
    <3>2. CASE j <= 3 /\ k > 3
      BY <1>10, <1>11, <3>2
    <3>3. CASE j > 3 /\ k <= 3
      BY <1>10, <1>11, <3>3
    <3>4. CASE j > 3 /\ k > 3
      <4>1. j - 3 \in 1 .. nfree /\ k - 3 \in 1 .. nfree /\ f[j - 3] = f[k - 3]
        BY <1>11, <3>4
      <4>2. j - 3 = k - 3
        BY <1>1, <4>1 DEF FreeIs
      <4> QED
        BY <1>0, <4>2
    <3> QED
      BY <1>0, <3>1, <3>2, <3>3, <3>4
  <2> QED
    BY <1>3, <1>11, <2>1, <2>2, <2>3 DEF FreeIs
<1>13. Covers(g)'
  <2> SUFFICES ASSUME NEW d \in Descs
               PROVE  (\E k \in 1 .. nfree + 3 : g[k] = d) <=> (\A q \in Busy' : d \notin Members(q)')
    BY <1>0 DEF Covers
  <2>1. (\A q \in Busy' : d \notin Members(q)') <=> \A q \in Busy : q # p => d \notin Members(q)
    BY <1>3, <1>8, Zenon
  <2>2. (\A q \in Busy : q # p => d \notin Members(q)) <=> d \in {a, b, c} \/ \A q \in Busy : d \notin Members(q)
    BY <1>3, <1>5, <1>6
  <2>3. (\A q \in Busy : d \notin Members(q)) <=> \E k \in 1 .. nfree : f[k] = d
    BY <1>1 DEF Covers
  <2>4. ASSUME NEW k \in 1 .. nfree, f[k] = d
        PROVE  \E j \in 1 .. nfree + 3 : g[j] = d
    <3>1. k + 3 \in 1 .. nfree + 3 /\ k + 3 > 3 /\ (k + 3) - 3 = k
      BY <1>0
    <3> QED
      BY <1>11, <2>4, <3>1
  <2>5. ASSUME d \in {a, b, c}
        PROVE  \E j \in 1 .. nfree + 3 : g[j] = d
    <3>1. 1 \in 1 .. nfree + 3 /\ 2 \in 1 .. nfree + 3 /\ 3 \in 1 .. nfree + 3
      BY <1>0
    <3> QED
      BY <1>11, <2>5, <3>1
  <2>6. ASSUME NEW j \in 1 .. nfree + 3, g[j] = d
        PROVE  d \in {a, b, c} \/ \E k \in 1 .. nfree : f[k] = d
    BY <1>0, <1>11, <2>6
  <2> QED
    BY <2>1, <2>2, <2>3, <2>4, <2>5, <2>6
<1>14. CountInv'
  <2>1. /\ IsFiniteSet(Busy') /\ Cardinality(Busy') = Cardinality(Busy) - 1
        /\ Cardinality(Busy) \in Nat
    BY <1>3, FS_RemoveElement, FS_CardinalityType DEF DescInv, CountInv
  <2> QED
    BY <1>0, <2>1 DEF DescInv, CountInv
<1> QED
  BY <1>9, <1>12, <1>13, <1>14 DEF DescInv, FreeInv

\* A step that neither allocates nor frees keeps the partition.
LEMMA DescKept ==
  ASSUME DescInv, UNCHANGED <<descVars, d0>>, Busy' = Busy
  PROVE  DescInv'
<1>1. \A q : Members(q)' = Members(q)
  BY DEF Members, descVars
<1>2. ChainInv'
  BY <1>1 DEF DescInv, ChainInv, descVars
<1>3. PICK f : FreeIs(f) /\ Covers(f)
  BY DEF DescInv, FreeInv
<1>4. FreeIs(f)' /\ Covers(f)'
  BY <1>1, <1>3 DEF FreeIs, Covers, descVars
<1> QED
  BY <1>2, <1>4 DEF DescInv, FreeInv, CountInv, descVars

\* Every step keeps the partition.
LEMMA DescStep ==
  ASSUME TypeOK, DescInv, [Next]_vars
  PROVE  DescInv'
<1>1. ASSUME NEW p \in Procs, rw_panic(p) \/ rw_wait(p) \/ rw_alerted(p) PROVE DescInv'
  <2>1. UNCHANGED <<descVars, d0>> /\ Busy' = Busy
    BY <1>1 DEF rw_panic, rw_wait, rw_alerted, Busy, TypeOK
  <2> QED
    BY <2>1, DescKept
<1>2. ASSUME NEW d \in Descs, complete(d) PROVE DescInv'
  BY <1>2, DescKept DEF complete, Busy
<1>3. CASE intr_enter \/ intr_loop \/ intr_panic \/ intr_exit \/ UNCHANGED vars
  BY <1>3, DescKept DEF intr_enter, intr_loop, intr_panic, intr_exit, vars, Busy
<1> QED
  BY <1>1, <1>2, <1>3, DescSubmit, DescReturn DEF Next

-----------------------------------------------------------------------------
(* The completions.                                                        *)

\* Every step keeps the completions matched: a new chain is none of those the device
\* has, and a chain is freed only after its completion was taken.
LEMMA MatchStep ==
  ASSUME TypeOK, DescInv, CompletionMatches, [Next]_vars
  PROVE  CompletionMatches'
<1> DEFINE Out == avail \cup ToSet(used)
<1>0. /\ \A d \in Out : /\ d \in Descs /\ info[d] \in Procs /\ pc[info[d]] \in {"wait", "alerted"}
                        /\ sem[info[d]] = 0 /\ d0[info[d]] = d
      /\ IsInjective(used) /\ avail \cap ToSet(used) = {}
  BY DEF CompletionMatches, TypeOK, ToSet
<1>1. ASSUME NEW p \in Procs, rw_submit(p) PROVE CompletionMatches'
  <2>1. free_head \in Descs /\ free_head \notin Out
    <3> SUFFICES ASSUME free_head \in Out PROVE FALSE
      BY DEF TypeOK
    <3>1. info[free_head] \in Busy /\ free_head \in Members(info[free_head])
      BY <1>0 DEF Busy, Members
    <3> QED
      BY <1>1, <3>1, DescSubmit
  <2>2. /\ avail' = avail \cup {free_head} /\ used' = used
        /\ info' = [info EXCEPT ![free_head] = p] /\ d0' = [d0 EXCEPT ![p] = free_head]
        /\ sem' = [sem EXCEPT ![p] = 0] /\ pc' = [pc EXCEPT ![p] = "wait"] /\ pc[p] = "idle"
    BY <1>1 DEF rw_submit
  <2>3. \A d \in Out : /\ info'[d] = info[d] /\ info[d] # p /\ pc'[info[d]] = pc[info[d]]
                       /\ sem'[info[d]] = sem[info[d]] /\ d0'[info[d]] = d0[info[d]]
    BY <1>0, <2>1, <2>2 DEF TypeOK
  <2>4. info'[free_head] = p /\ pc'[p] = "wait" /\ sem'[p] = 0 /\ d0'[p] = free_head
    BY <2>1, <2>2 DEF TypeOK
  <2>5. avail' \cup ToSet(used') = Out \cup {free_head} /\ avail' \cap ToSet(used') = {}
    BY <1>0, <2>1, <2>2
  <2> HIDE DEF Out
  <2>6. \A d \in Out \cup {free_head} : /\ info'[d] \in Procs /\ pc'[info'[d]] \in {"wait", "alerted"}
                                        /\ sem'[info'[d]] = 0 /\ d0'[info'[d]] = d
    BY <1>0, <2>3, <2>4
  <2> QED
    BY <1>0, <2>2, <2>5, <2>6, VirtioAssumption DEF CompletionMatches
<1>2. ASSUME NEW p \in Procs, rw_panic(p) \/ rw_wait(p) \/ rw_alerted(p) \/ rw_return(p)
      PROVE  CompletionMatches'
  <2>1. UNCHANGED <<avail, used, info, d0>>
    BY <1>2 DEF rw_panic, rw_wait, rw_alerted, rw_return
  <2>2. \A d \in Out : pc'[info[d]] \in {"wait", "alerted"} /\ sem'[info[d]] = 0
    BY <1>0, <1>2 DEF rw_panic, rw_wait, rw_alerted, rw_return, TypeOK
  <2> QED
    BY <1>0, <2>1, <2>2, VirtioAssumption DEF CompletionMatches
<1>3. ASSUME NEW d \in Descs, complete(d) PROVE CompletionMatches'
  <2>1. used' = Append(used, d) /\ avail' = avail \ {d} /\ d \in avail /\ used \in Seq(Descs)
    BY <1>3 DEF complete, TypeOK
  <2>2. ToSet(used') = ToSet(used) \cup {d}
    <3>1. /\ DOMAIN used' = DOMAIN used \cup {Len(used) + 1}
          /\ \A i \in DOMAIN used : used'[i] = used[i]
          /\ used'[Len(used) + 1] = d
      BY <2>1
    <3> QED
      BY <3>1 DEF ToSet
  <2>3. IsInjective(used')
    BY <1>0, <2>1 DEF IsInjective, ToSet
  <2>4. avail' \cup ToSet(used') = Out /\ avail' \cap ToSet(used') = {}
    BY <1>0, <2>1, <2>2
  <2> QED
    BY <1>0, <1>3, <2>3, <2>4, VirtioAssumption DEF CompletionMatches, complete
<1>4. CASE intr_loop
  <2> DEFINE h == Head(used)
             w == info[h]
  <2>1. /\ used' = Tail(used) /\ used \in Seq(Descs) /\ used # <<>> /\ h = used[1] /\ h \in ToSet(used)
        /\ sem' = [sem EXCEPT ![w] = sem[w] + 1] /\ info' = [info EXCEPT ![h] = None]
        /\ UNCHANGED <<avail, d0, pc>>
    BY <1>4 DEF intr_loop, TypeOK, ToSet
  <2>2. IsInjective(used') /\ ToSet(used') \subseteq ToSet(used) /\ h \notin ToSet(used')
    <3>1. /\ \A i \in DOMAIN used' : i + 1 \in DOMAIN used /\ used'[i] = used[i + 1] /\ i + 1 # 1
          /\ DOMAIN used' \subseteq Nat /\ 1 \in DOMAIN used
      BY <2>1
    <3>2. \A i \in DOMAIN used' : used'[i] # used[1]
      BY <1>0, <3>1 DEF IsInjective
    <3>3. \A i, j \in DOMAIN used' : used'[i] = used'[j] => i = j
      <4> SUFFICES ASSUME NEW i \in DOMAIN used', NEW j \in DOMAIN used', used'[i] = used'[j] PROVE i = j
        OBVIOUS
      <4>1. i + 1 = j + 1
        BY <1>0, <3>1 DEF IsInjective
      <4> QED
        BY <3>1, <4>1
    <3> QED
      BY <2>1, <3>1, <3>2, <3>3 DEF IsInjective, ToSet
  <2>3. \A d \in avail \cup ToSet(used') : d \in Out /\ d # h /\ info[d] # w
    BY <1>0, <2>1, <2>2
  <2> HIDE DEF h, w
  <2>4. \A d \in avail \cup ToSet(used') : info'[d] = info[d] /\ sem'[info[d]] = sem[info[d]]
    BY <1>0, <2>1, <2>3 DEF TypeOK
  <2> QED
    BY <1>0, <2>1, <2>2, <2>3, <2>4, VirtioAssumption DEF CompletionMatches
<1>5. CASE intr_enter \/ intr_panic \/ intr_exit \/ UNCHANGED vars
  BY <1>5 DEF intr_enter, intr_panic, intr_exit, vars, CompletionMatches
<1> QED
  BY <1>1, <1>2, <1>3, <1>4, <1>5 DEF Next

\* The invariant holds at every moment, for every number of processes and descriptors.
THEOREM Invariance == Spec => []IInv
<1>1. Init => IInv
  <2>1. Init => CompletionMatches
    BY DEF Init, CompletionMatches, ToSet, IsInjective
  <2> QED
    BY <2>1, TypeInit, DescInit DEF IInv, DescInv
<1>2. IInv /\ [Next]_vars => IInv'
  BY TypeStep, DescStep, MatchStep DEF IInv, DescInv
<1> QED
  BY <1>1, <1>2, PTL DEF Spec

\* The device only works for a process that waits for it, and each completion finds
\* the buffer of that process (virtio_blk.c:81-100, 111-125).
THEOREM EveryCompletionMatches == Spec => []CompletionMatches
<1>1. IInv => CompletionMatches
  BY DEF IInv
<1> QED
  BY <1>1, Invariance, PTL

-----------------------------------------------------------------------------
(* FreeList, the recursive function that follows next from free_head.      *)

\* A nonempty set of natural numbers has a least element: the induction that the
\* lemmas about FreeList use.
LEMMA LeastNatural ==
  ASSUME NEW T, T \subseteq Nat, T # {}
  PROVE  \E x \in T : \A y \in T : x <= y
<1> DEFINE R == {ss \in Nat \X Nat : ss[1] < ss[2]}
<1>1. IsWellFoundedOn(R, Nat)
  BY NatLessThanWellFounded, Zenon DEF OpToRel
<1>2. \E x \in T : \A y \in T : ~ (<<y, x>> \in R)
  <2> HIDE DEF R
  <2> QED
    BY <1>1, WFMin, Zenon
<1>3. PICK x \in T : \A y \in T : ~ (<<y, x>> \in R)
  BY <1>2
<1>4. \A y \in T : ~ (y < x)
  BY <1>3, Zenon
<1> QED
  BY <1>4

\* The recursive function FreeList satisfies its defining equation.
LEMMA FreeListDefined ==
  ASSUME TypeOK
  PROVE  FreeList = [k \in 1 .. NQUEUE |-> IF k = 1 THEN free_head ELSE next[FreeList[k - 1]]]
<1> DEFINE Step(g, n) == g = [k \in 1 .. n |-> IF k = 1 THEN free_head ELSE next[g[k - 1]]]
           T == {n \in Nat : ~ \E g : Step(g, n)}
<1>0. NQUEUE \in Nat
  BY VirtioAssumption
<1>1. T = {}
  <2> SUFFICES ASSUME T # {} PROVE FALSE
    OBVIOUS
  <2>1. PICK n \in T : \A m \in T : n <= m
    <3> HIDE DEF T
    <3>1. T \subseteq Nat
      BY DEF T
    <3> QED
      BY <3>1, LeastNatural, Zenon
  <2>2. n # 0
    <3>1. Step(<<>>, 0)
      OBVIOUS
    <3> QED
      BY <2>1, <3>1, ZenonT(30)
  <2>3. n \in Nat /\ n - 1 \in Nat /\ ~(n <= n - 1)
    BY <2>1, <2>2
  <2>4. n - 1 \notin T
    <3> HIDE DEF T
    <3> QED
      BY <2>1, <2>3
  <2>5. PICK g : Step(g, n - 1)
    BY <2>3, <2>4
  <2> DEFINE h == [k \in 1 .. n |-> IF k = 1 THEN free_head ELSE next[g[k - 1]]]
  <2>6. \A k \in 1 .. n - 1 : h[k] = g[k]
    BY <2>3, <2>5
  <2>7. \A k \in 1 .. n : k # 1 => k - 1 \in 1 .. n - 1 /\ next[g[k - 1]] = next[h[k - 1]]
    <3>1. \A k \in 1 .. n : k # 1 => k - 1 \in 1 .. n - 1
      BY <2>3
    <3> HIDE DEF h
    <3> QED
      BY <2>6, <3>1
  <2>8. Step(h, n)
    BY <2>3, <2>7, Zenon
  <2> QED
    BY <2>1, <2>8, Zenon
<1>2. \E g : Step(g, NQUEUE)
  BY <1>0, <1>1, Zenon
<1> QED
  BY <1>2, Zenon DEF FreeList

\* FreeList lists the free descriptors.
LEMMA FreeListIs ==
  ASSUME TypeOK, NEW f, FreeIs(f)
  PROVE  \A k \in 1 .. nfree : FreeList[k] = f[k]
<1> DEFINE T == {k \in 1 .. nfree : FreeList[k] # f[k]}
<1>0. nfree \in Nat /\ NQUEUE \in Nat /\ nfree <= NQUEUE
  BY VirtioAssumption DEF TypeOK
<1> SUFFICES ASSUME T # {} PROVE FALSE
  BY Zenon
<1>1. PICK k \in T : \A j \in T : k <= j
  <2>1. T \subseteq Nat
    BY <1>0
  <2> HIDE DEF T
  <2> QED
    BY <2>1, LeastNatural, Zenon
<1>2. k \in 1 .. nfree /\ k \in 1 .. NQUEUE
  BY <1>0
<1>3. FreeList[k] = IF k = 1 THEN free_head ELSE next[FreeList[k - 1]]
  BY <1>2, FreeListDefined
<1>4. k # 1
  BY <1>0, <1>1, <1>3 DEF FreeIs
<1>5. k - 1 \in 1 .. nfree - 1 /\ k - 1 \in 1 .. nfree /\ ~(k <= k - 1) /\ (k - 1) + 1 = k
  BY <1>0, <1>2, <1>4
<1>6. FreeList[k - 1] = f[k - 1]
  BY <1>1, <1>5, Zenon
<1>7. f[k] = next[f[k - 1]]
  <2>1. f[(k - 1) + 1] = next[f[k - 1]]
    BY <1>5 DEF FreeIs
  <2> QED
    BY <1>5, <2>1
<1> QED
  BY <1>1, <1>3, <1>4, <1>6, <1>7

\* The free list and the chains of the requests in flight never share a descriptor and
\* never lose one, for every number of processes and descriptors
\* (virtio_blk.c:25-44, 59-79, 100).
THEOREM FreeListPartitions == Spec => []DescPartition
<1>1. IInv => DescPartition
  <2> SUFFICES ASSUME IInv PROVE DescPartition
    OBVIOUS
  <2> DEFINE free == {FreeList[k] : k \in 1 .. nfree}
             chain(p) == {Chain(d0[p])[k] : k \in 1 .. 3}
  <2>0. nfree \in Nat /\ nfree <= NQUEUE /\ NQUEUE \in Nat
    BY VirtioAssumption DEF IInv, TypeOK
  <2>1. PICK f : FreeIs(f) /\ Covers(f)
    BY DEF IInv, FreeInv
  <2>2. \A k \in 1 .. nfree : FreeList[k] = f[k]
    BY <2>1, FreeListIs DEF IInv
  <2>3. \A d : d \in free <=> \E k \in 1 .. nfree : f[k] = d
    BY <2>2
  <2>4. Cardinality(free) = nfree
    <3>1. f \in Bijection(1 .. nfree, free)
      <4> HIDE DEF free
      <4> QED
        BY <2>1, <2>3 DEF FreeIs, Bijection, Injection, Surjection, IsInjective
    <3> QED
      BY <2>0, <3>1, FS_CountingElements DEF ExistsBijection
  <2>5. \A p \in Busy : chain(p) = Members(p)
    BY DEF Chain, Members
  <2> HIDE DEF free, chain
  <2>6. free \cup UNION {chain(p) : p \in Busy} = Descs
    <3>1. \A p \in Busy : Members(p) \subseteq Descs
      BY DEF Members, IInv, TypeOK, Busy
    <3>2. free \subseteq Descs
      BY <2>1, <2>3 DEF FreeIs
    <3>3. \A d \in Descs : d \in free \/ \E p \in Busy : d \in chain(p)
      BY <2>1, <2>3, <2>5 DEF Covers
    <3> QED
      BY <2>5, <3>1, <3>2, <3>3
  <2>7. \A k \in 1 .. nfree - 1 : more[FreeList[k]]
    BY <2>0, <2>1, <2>2 DEF FreeIs
  <2>8. \A p \in Busy : more[d0[p]] /\ more[next[d0[p]]] /\ ~more[Chain(d0[p])[3]]
    BY DEF IInv, ChainInv, Chain
  <2> QED
    BY <2>4, <2>6, <2>7, <2>8 DEF DescPartition, IInv, CountInv, free, chain
<1> QED
  BY <1>1, Invariance, PTL
=============================================================================
