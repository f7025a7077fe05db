------------------------------- MODULE RbTree -------------------------------
(***************************************************************************)
(* The red-black tree (base/rbtree.c) in which a UDP socket keeps its      *)
(* peers (event/rudp.c), link by link.  A node is its key.  The code       *)
(* writes every case twice, for left and right; here the child on side s   *)
(* is kid[s], 0 left and 1 right, and the other side is 1 - s.             *)
(***************************************************************************)
EXTENDS Integers, FiniteSets

CONSTANT MaxKey     \* the nodes are 1 .. MaxKey; 0 is NULL

VARIABLES
    tree,           \* [root, up: node -> node, kid: side -> node -> node, red: node -> BOOLEAN]
    members         \* ghost: the nodes inserted and not erased

rbvars == << tree, members >>

RbNode == 1 .. MaxKey
Nowhere == [n \in RbNode |-> 0]

RbInit ==
    /\ tree = [root |-> 0, up |-> Nowhere, kid |-> [s \in 0 .. 1 |-> Nowhere], red |-> [n \in RbNode |-> FALSE]]
    /\ members = {}

IsRed(t, n) == n # 0 /\ t.red[n]
SideOf(t, p, n) == IF t.kid[0][p] = n THEN 0 ELSE 1

\* Whoever pointed down at old, under parent p, now points at new.
Link(t, p, old, new) ==
    IF p = 0 THEN [t EXCEPT !.root = new] ELSE [t EXCEPT !.kid[SideOf(t, p, old)][p] = new]

Adopt(t, n, p) == IF n = 0 THEN t ELSE [t EXCEPT !.up[n] = p]

Paint(t, n, red) == IF n = 0 THEN t ELSE [t EXCEPT !.red[n] = red]

\* __rb_rotate_left (s = 0) and __rb_rotate_right (s = 1): n goes down on side s.
Rotate(t, n, s) ==
    LET c == t.kid[1 - s][n]
        a == Adopt([t EXCEPT !.kid[1 - s][n] = t.kid[s][c]], t.kid[s][c], n)
        b == Link([a EXCEPT !.kid[s][c] = n, !.up[c] = t.up[n]], t.up[n], n, c)
    IN  [b EXCEPT !.up[n] = c]

\* rb_insert_color: the loop, with n red; then the root is painted black.
RECURSIVE InsertColor(_, _)
InsertColor(t, n) ==
    LET p == t.up[n] IN
    IF p = 0 \/ ~t.red[p] THEN Paint(t, t.root, FALSE)
    ELSE LET g == t.up[p]
             s == SideOf(t, g, p)
             uncle == t.kid[1 - s][g]
             inner == t.kid[1 - s][p] = n
             a == IF inner THEN Rotate(t, p, s) ELSE t
             top == IF inner THEN n ELSE p
             low == IF inner THEN p ELSE n
         IN  IF IsRed(t, uncle)
               THEN InsertColor([t EXCEPT !.red[uncle] = FALSE, !.red[p] = FALSE, !.red[g] = TRUE], g)
               ELSE InsertColor(Rotate([a EXCEPT !.red[top] = FALSE, !.red[g] = TRUE], g, 1 - s), low)

\* __rb_erase_color: n (perhaps NULL), under p, lacks one black node.
RECURSIVE EraseColor(_, _, _)
EraseColor(t, n, p) ==
    IF IsRed(t, n) \/ n = t.root THEN Paint(t, n, FALSE)
    ELSE LET s == SideOf(t, p, n)
             o1 == t.kid[1 - s][p]
             a == IF t.red[o1] THEN Rotate([t EXCEPT !.red[o1] = FALSE, !.red[p] = TRUE], p, s) ELSE t
             o2 == a.kid[1 - s][p]
             near == a.kid[s][o2]
             far == a.kid[1 - s][o2]
             b == IF IsRed(a, far) THEN a
                  ELSE Rotate(Paint(Paint(a, near, FALSE), o2, TRUE), o2, 1 - s)
             o3 == b.kid[1 - s][p]
             c == Paint([b EXCEPT !.red[o3] = b.red[p], !.red[p] = FALSE], b.kid[1 - s][o3], FALSE)
             d == Rotate(c, p, s)
         IN  IF ~IsRed(a, near) /\ ~IsRed(a, far)
               THEN EraseColor([a EXCEPT !.red[o2] = TRUE], p, a.up[p])
               ELSE Paint(d, d.root, FALSE)

RECURSIVE Outermost(_, _, _)
Outermost(t, n, s) == IF t.kid[s][n] = 0 THEN n ELSE Outermost(t, t.kid[s][n], s)

\* rb_erase of a node with at most one child.
EraseSimple(t, n) ==
    LET child == IF t.kid[0][n] = 0 THEN t.kid[1][n] ELSE t.kid[0][n]
        p == t.up[n]
        a == Link(Adopt(t, child, p), p, n, child)
    IN  IF t.red[n] THEN a ELSE EraseColor(a, child, p)

\* Mutant: the successor keeps its own colour in its new place.
EraseInnerKeepsColor(t, old) ==
    LET n == Outermost(t, t.kid[1][old], 0)
        child == t.kid[1][n]
        a == Link(Adopt(t, child, t.up[n]), t.up[n], n, child)
        p == IF t.up[n] = old THEN n ELSE t.up[n]
        b == [a EXCEPT !.up[n] = a.up[old], !.kid[0][n] = a.kid[0][old], !.kid[1][n] = a.kid[1][old]]
        c == Link(b, b.up[old], old, n)
        d == Adopt(Adopt(c, c.kid[0][old], n), c.kid[1][old], n)
    IN  IF t.red[n] THEN d ELSE EraseColor(d, child, p)

\* rb_erase of a node with two: its successor n takes its place.
EraseInner(t, old) ==
    LET n == Outermost(t, t.kid[1][old], 0)
        child == t.kid[1][n]
        a == Link(Adopt(t, child, t.up[n]), t.up[n], n, child)
        p == IF t.up[n] = old THEN n ELSE t.up[n]
        b == [a EXCEPT !.up[n] = a.up[old], !.red[n] = a.red[old],
                       !.kid[0][n] = a.kid[0][old], !.kid[1][n] = a.kid[1][old]]
        c == Link(b, b.up[old], old, n)
        d == Adopt(Adopt(c, c.kid[0][old], n), c.kid[1][old], n)
    IN  IF t.red[n] THEN d ELSE EraseColor(d, child, p)

\* rudp_insert: down from the root to the place of n.
RECURSIVE PlaceOf(_, _, _)
PlaceOf(t, at, n) ==
    LET s == IF n < at THEN 0 ELSE 1
    IN  IF t.kid[s][at] = 0 THEN << at, s >> ELSE PlaceOf(t, t.kid[s][at], n)

RbInsert(n) ==
    LET fresh == [tree EXCEPT !.red[n] = TRUE, !.kid[0][n] = 0, !.kid[1][n] = 0]
        place == PlaceOf(tree, tree.root, n)
    IN  /\ n \notin members
        /\ tree' = IF tree.root = 0 THEN InsertColor([fresh EXCEPT !.root = n, !.up[n] = 0], n)
                   ELSE InsertColor([fresh EXCEPT !.up[n] = place[1], !.kid[place[2]][place[1]] = n], n)
        /\ members' = members \cup {n}

\* Links of erased nodes are never followed; they are forgotten here.
RbErase(n) ==
    LET t == IF 0 \in {tree.kid[0][n], tree.kid[1][n]} THEN EraseSimple(tree, n) ELSE EraseInner(tree, n)
    IN  /\ n \in members
        /\ tree' = [t EXCEPT !.up[n] = 0, !.kid[0][n] = 0, !.kid[1][n] = 0, !.red[n] = FALSE]
        /\ members' = members \ {n}

RbNext == \E n \in RbNode : RbInsert(n) \/ RbErase(n)

RbSpec == RbInit /\ [][RbNext]_rbvars

\* rudp_search
RECURSIVE Search(_, _)
Search(at, n) == IF at \in {0, n} THEN at ELSE Search(tree.kid[IF n < at THEN 0 ELSE 1][at], n)

\* rb_next (s = 1) and rb_prev (s = 0)
RECURSIVE ClimbFrom(_, _)
ClimbFrom(n, s) ==
    LET p == tree.up[n] IN IF p # 0 /\ n = tree.kid[s][p] THEN ClimbFrom(p, s) ELSE p

Step(n, s) == IF tree.kid[s][n] # 0 THEN Outermost(tree, tree.kid[s][n], 1 - s) ELSE ClimbFrom(n, s)

RECURSIVE BlackHeights(_)
BlackHeights(n) ==
    IF n = 0 THEN {0}
    ELSE {h + (IF tree.red[n] THEN 0 ELSE 1) : h \in BlackHeights(tree.kid[0][n]) \cup BlackHeights(tree.kid[1][n])}

\* rb_next and rb_prev go to the nearest member, or stop.
WalksInOrder ==
    \A n \in members :
        /\ LET m == Step(n, 1) IN IF m = 0 THEN \A k \in members : k <= n
                                  ELSE m > n /\ \A k \in members : k <= n \/ k >= m
        /\ LET m == Step(n, 0) IN IF m = 0 THEN \A k \in members : k >= n
                                  ELSE m < n /\ \A k \in members : k >= n \/ k <= m

(***************************************************************************)
(* After any inserts and erasures, the tree is a red-black tree of exactly *)
(* the members: the search of rudp_search finds each of them and nothing   *)
(* else, rb_next and rb_prev visit them in order, links up and down agree, *)
(* no red node has a red child, and every path has as many black nodes     *)
(* (rb_insert_color, rb_erase).                                            *)
(***************************************************************************)
RedBlack ==
    /\ \A n \in RbNode : Search(tree.root, n) = IF n \in members THEN n ELSE 0
    /\ tree.root # 0 => tree.up[tree.root] = 0 /\ ~tree.red[tree.root]
    /\ \A n \in members, s \in 0 .. 1 :
          LET c == tree.kid[s][n] IN
          c # 0 => /\ c \in members /\ tree.up[c] = n
                   /\ ~(tree.red[n] /\ tree.red[c])
    /\ Cardinality(BlackHeights(tree.root)) = 1
    /\ WalksInOrder

=============================================================================
