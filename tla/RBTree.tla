------------------------------- MODULE RBTree -------------------------------
(***************************************************************************)
(* The red-black tree (common/rbtree.c).  A tree is a record: the root and *)
(* the links, parents and colours of the nodes, where a node is its        *)
(* address, 0 is NULL, and what a freed or never used node holds is left   *)
(* as it was.  The code writes every case twice, for a left and for a      *)
(* right child; here the side is a parameter.                              *)
(***************************************************************************)
EXTENDS Integers, Sequences

CONSTANT Nodes    \* the addresses of the nodes

ASSUME NodesAssumption == Nodes \subseteq Nat \ {0}

NULL == 0
Sides == {"left", "right"}
Other(s) == IF s = "left" THEN "right" ELSE "left"

Tree ==
  [root : Nodes \cup {NULL}, child : [Sides -> [Nodes -> Nodes \cup {NULL}]],
   parent : [Nodes -> Nodes \cup {NULL}], red : [Nodes -> BOOLEAN]]

EmptyTree ==
  [root |-> NULL, child |-> [s \in Sides |-> [n \in Nodes |-> NULL]],
   parent |-> [n \in Nodes |-> NULL], red |-> [n \in Nodes |-> TRUE]]

Link(t, n, s, x) == [t EXCEPT !.child[s][n] = x]

IsRed(t, n) == n # NULL /\ t.red[n]

\* rb_set_parent and rb_set_parent_color, under the test for NULL.
SetParent(t, n, p) == IF n = NULL THEN t ELSE [t EXCEPT !.parent[n] = p]
SetParentColor(t, n, p, red) ==
  IF n = NULL THEN t ELSE [t EXCEPT !.parent[n] = p, !.red[n] = red]

ChangeChild(t, old, new, parent) ==
  IF parent = NULL THEN [t EXCEPT !.root = new]
  ELSE Link(t, parent, IF t.child["left"][parent] = old THEN "left" ELSE "right", new)

RotateSetParents(t, old, new, red) ==
  LET parent == t.parent[old]
  IN ChangeChild(SetParentColor(SetParentColor(t, new, parent, t.red[old]), old, new, red),
                 old, new, parent)

\* __rb_insert_fix, one turn of its loop and the rest.
RECURSIVE InsertFix(_, _)
InsertFix(t, node) ==
  LET parent  == t.parent[node]
      gparent == t.parent[parent]
      s       == IF parent # t.child["right"][gparent] THEN "left" ELSE "right"
      uncle   == t.child[Other(s)][gparent]
      inner   == node = t.child[Other(s)][parent]
      \* Case 2: the inner child takes the place of its parent.
      mid     == t.child[s][node]
      turned  == LET u == SetParentColor(Link(t, parent, Other(s), mid), mid, parent, FALSE)
                 IN SetParentColor(Link(u, node, s, parent), parent, node, TRUE)
      u2      == IF inner THEN turned ELSE t
      top     == IF inner THEN node ELSE parent
      \* Case 3: the parent takes the place of the grandparent.
      tmp     == u2.child[Other(s)][top]
      u3      == SetParentColor(Link(u2, gparent, s, tmp), tmp, gparent, FALSE)
  IN IF parent = NULL
     THEN [SetParentColor(t, node, NULL, FALSE) EXCEPT !.root = node]
     ELSE IF ~t.red[parent] THEN t
     ELSE IF IsRed(t, uncle)
     THEN LET u == SetParentColor(SetParentColor(t, uncle, gparent, FALSE), parent, gparent, FALSE)
          IN InsertFix(SetParentColor(u, gparent, t.parent[gparent], TRUE), gparent)
     ELSE RotateSetParents(Link(u3, top, Other(s), gparent), gparent, top, TRUE)

RECURSIVE Leftmost(_, _)
Leftmost(t, n) == IF t.child["left"][n] = NULL THEN n ELSE Leftmost(t, t.child["left"][n])

First(t) == IF t.root = NULL THEN NULL ELSE Leftmost(t, t.root)

\* The node where the search for node ends, and the side on which it would hang;
\* "found" when it meets an equal one.  cmp is a relation between nodes.
RECURSIVE Descend(_, _, _, _)
Descend(t, n, node, cmp) ==
  LET s == IF <<node, n>> \in cmp THEN "left" ELSE "right"
  IN IF <<node, n>> \notin cmp /\ <<n, node>> \notin cmp THEN <<n, "found">>
     ELSE IF t.child[s][n] = NULL THEN <<n, s>> ELSE Descend(t, t.child[s][n], node, cmp)

\* What an erased node holds is not read before _rb_insert resets it; here it is
\* reset at once.
Reset(t, node) ==
  [t EXCEPT !.child["left"][node] = NULL, !.child["right"][node] = NULL,
            !.parent[node] = NULL, !.red[node] = TRUE]

\* _rb_insert; ok is its result 0.
Insert(t, node, cmp) ==
  LET fresh == Reset(t, node)
      at == Descend(fresh, fresh.root, node, cmp)
  IN IF t.root = NULL THEN [tree |-> InsertFix(fresh, node), ok |-> TRUE]
     ELSE IF at[2] = "found" THEN [tree |-> fresh, ok |-> FALSE]
     ELSE [tree |-> InsertFix([Link(fresh, at[1], at[2], node) EXCEPT !.parent[node] = at[1]], node),
           ok |-> TRUE]

\* _rb_lookup.
Lookup(t, node, cmp) ==
  IF t.root = NULL THEN NULL
  ELSE LET at == Descend(t, t.root, node, cmp) IN IF at[2] = "found" THEN at[1] ELSE NULL

\* __rb_erase: the tree without node, and where it must be fixed.
Unlink(t, node) ==
  LET left   == t.child["left"][node]
      right  == t.child["right"][node]
      parent == t.parent[node]
      red    == t.red[node]
      succ   == Leftmost(t, right)
      child2 == t.child["right"][succ]
      above  == IF succ = right THEN succ ELSE t.parent[succ]
      u1     == IF succ = right THEN t
                ELSE SetParent(Link(Link(t, above, "left", child2), succ, "right", right), right, succ)
      u2     == ChangeChild(SetParent(Link(u1, succ, "left", left), left, succ), node, succ, parent)
      u3     == SetParentColor(SetParentColor(u2, succ, parent, red), child2, above, FALSE)
  IN IF left = NULL
     THEN [tree |-> SetParentColor(ChangeChild(t, node, right, parent), right, parent, red),
           fix  |-> IF right # NULL \/ red THEN NULL ELSE parent]
     ELSE IF right = NULL
     THEN [tree |-> ChangeChild(SetParentColor(t, left, parent, red), node, left, parent),
           fix  |-> NULL]
     ELSE [tree |-> u3, fix |-> IF child2 # NULL \/ t.red[succ] THEN NULL ELSE above]

\* __rb_erase_fix: node, possibly NULL, is one black short below parent.
RECURSIVE EraseFix(_, _, _)
EraseFix(t, parent, node) ==
  LET s    == IF node # t.child["right"][parent] THEN "left" ELSE "right"
      o    == Other(s)
      sib0 == t.child[o][parent]
      case1 == t.red[sib0]
      sib  == IF case1 THEN t.child[s][sib0] ELSE sib0
      u1   == IF ~case1 THEN t
              ELSE LET u == SetParentColor(Link(t, parent, o, sib), sib, parent, FALSE)
                   IN RotateSetParents(Link(u, sib0, s, parent), parent, sib0, TRUE)
      far  == u1.child[o][sib]
      near == u1.child[s][sib]
      u2   == SetParentColor(u1, sib, parent, TRUE)
      \* Case 3: the near nephew takes the place of the sibling.
      case3 == ~IsRed(u1, far)
      in3  == u1.child[o][near]
      u3   == IF ~case3 THEN u1
              ELSE LET u == SetParentColor(Link(u1, sib, s, in3), in3, sib, FALSE)
                   IN Link(Link(u, near, o, sib), parent, o, near)
      top  == IF case3 THEN near ELSE sib
      out  == IF case3 THEN sib ELSE far
      in4  == u3.child[s][top]
      u4   == Link(SetParent(Link(u3, parent, o, in4), in4, parent), top, s, parent)
  IN IF ~IsRed(u1, far) /\ ~IsRed(u1, near)
     THEN IF u2.red[parent] THEN [u2 EXCEPT !.red[parent] = FALSE]
          ELSE IF u2.parent[parent] = NULL THEN u2
          ELSE EraseFix(u2, u2.parent[parent], parent)
     ELSE RotateSetParents(SetParentColor(u4, out, top, FALSE), parent, top, FALSE)

\* Mutated form: the tree is left unbalanced.
Erase_unfixed(t, node) == Reset(Unlink(t, node).tree, node)

\* _rb_erase.
Erase(t, node) ==
  LET u == Unlink(t, node)
  IN Reset(IF u.fix = NULL THEN u.tree ELSE EraseFix(u.tree, u.fix, NULL), node)

-----------------------------------------------------------------------------
(* What a tree is, independently of the code.                              *)

RECURSIVE InOrder(_, _, _)
InOrder(t, n, depth) ==
  IF n = NULL THEN <<>>
  ELSE IF depth = 0 THEN <<n, n>>
  ELSE InOrder(t, t.child["left"][n], depth - 1) \o <<n>>
       \o InOrder(t, t.child["right"][n], depth - 1)

\* The number of black nodes on every path below n, or -1.
RECURSIVE BlackHeight(_, _)
BlackHeight(t, n) ==
  IF n = NULL THEN 0
  ELSE LET l == BlackHeight(t, t.child["left"][n])
           r == BlackHeight(t, t.child["right"][n])
       IN IF l = -1 \/ l # r THEN -1 ELSE l + (IF t.red[n] THEN 0 ELSE 1)
=============================================================================
