----------------------------- MODULE TimerHeap ------------------------------
(***************************************************************************)
(* The heap of timers (base/heap.h): a binary tree of linked nodes, kept   *)
(* complete and ordered by next_timeout.  The two children of a node are   *)
(* kid[0] (left) and kid[1] (right), as in the path bits of the code.      *)
(***************************************************************************)
EXTENDS Integers, FiniteSets, Sequences

CONSTANTS HeapNode, Key

NIL == "NULL"

VARIABLES
    heap,     \* [root, nelts, up: node -> node or NIL, kid: side -> node -> node or NIL]
    key,      \* node -> next_timeout
    inside    \* ghost: the nodes inserted and not removed

hpvars == << heap, key, inside >>

HpInit ==
    /\ heap = [root |-> NIL, nelts |-> 0, up |-> [n \in HeapNode |-> NIL],
               kid |-> [s \in 0 .. 1 |-> [n \in HeapNode |-> NIL]]]
    /\ key \in [HeapNode -> Key]
    /\ inside = {}

Less(a, b) == key[a] < key[b]

\* Whoever pointed down at old now points at new (parent p's child, or the root).
Hang(h, p, old, new) ==
    IF p = NIL THEN [h EXCEPT !.root = new]
    ELSE IF h.kid[0][p] = old THEN [h EXCEPT !.kid[0][p] = new]
    ELSE IF h.kid[1][p] = old THEN [h EXCEPT !.kid[1][p] = new]
    ELSE h

SetUp(h, n, p) == IF n = NIL THEN h ELSE [h EXCEPT !.up[n] = p]

HeapReplace(h, s, r) ==
    LET a == Hang(h, h.up[s], s, r)
        b == SetUp(SetUp(a, a.kid[0][s], r), a.kid[1][s], r)
    IN  [b EXCEPT !.up[r] = b.up[s], !.kid[0][r] = b.kid[0][s], !.kid[1][r] = b.kid[1][s]]

HeapSwap(h, parent, child) ==
    LET side == IF h.kid[0][parent] = child THEN 0 ELSE 1
        a == Hang(h, h.up[parent], parent, child)
        b == SetUp(SetUp(a, a.kid[0][child], parent), a.kid[1][child], parent)
        c == SetUp(b, h.kid[1 - side][parent], child)
    IN  [c EXCEPT !.up[child] = h.up[parent], !.up[parent] = child,
                  !.kid[side][child] = parent, !.kid[1 - side][child] = h.kid[1 - side][parent],
                  !.kid[0][parent] = h.kid[0][child], !.kid[1][parent] = h.kid[1][child]]

RECURSIVE SiftUp(_, _)
SiftUp(h, n) ==
    IF h.up[n] # NIL /\ Less(n, h.up[n]) THEN SiftUp(HeapSwap(h, h.up[n], n), n) ELSE h

Est(a, b) == IF b = NIL \/ Less(a, b) THEN a ELSE b

RECURSIVE SiftDown(_, _)
SiftDown(h, v) ==
    LET est == Est(Est(v, h.kid[0][v]), h.kid[1][v])
    IN  IF est = v THEN h ELSE SiftDown(HeapSwap(h, v, est), v)

\* The node at position n of the complete tree: the bits of n below the highest
\* are the turns from the root.
RECURSIVE NodeAt(_, _)
NodeAt(h, n) ==
    IF n = 1 THEN h.root
    ELSE LET p == NodeAt(h, n \div 2) IN IF p = NIL THEN NIL ELSE h.kid[n % 2][p]

HeapInsert(n) ==
    LET at == heap.nelts + 1
        parent == IF at = 1 THEN heap.root ELSE NodeAt(heap, at \div 2)
        a == [heap EXCEPT !.nelts = at, !.up[n] = parent]
        b == IF parent = NIL THEN [a EXCEPT !.root = n] ELSE [a EXCEPT !.kid[at % 2][parent] = n]
    IN  /\ n \notin inside
        /\ heap' = SiftUp(b, n)
        /\ inside' = inside \cup {n}
        /\ UNCHANGED key

Unlinked(h, n) == [h EXCEPT !.up[n] = NIL, !.kid[0][n] = NIL, !.kid[1][n] = NIL]

\* Mutant: the last node is only ever moved down.
HeapRemoveDownOnly(n) ==
    LET at == heap.nelts
        last == NodeAt(heap, at)
        a == [heap EXCEPT !.nelts = at - 1, !.kid[at % 2][NodeAt(heap, at \div 2)] = NIL]
    IN  /\ n \in inside
        /\ heap' = IF at = 1 THEN [heap EXCEPT !.nelts = 0, !.root = NIL]
                   ELSE SiftDown(Unlinked(HeapReplace(a, n, last), n), last)
        /\ inside' = inside \ {n}
        /\ UNCHANGED key

\* The last node takes n's place and moves down, then up.
HeapRemove(n) ==
    LET at == heap.nelts
        last == NodeAt(heap, at)
        a == [heap EXCEPT !.nelts = at - 1, !.kid[at % 2][NodeAt(heap, at \div 2)] = NIL]
    IN  /\ n \in inside
        /\ heap' = IF at = 1 THEN [heap EXCEPT !.nelts = 0, !.root = NIL]
                   ELSE SiftUp(SiftDown(Unlinked(HeapReplace(a, n, last), n), last), last)
        /\ inside' = inside \ {n}
        /\ UNCHANGED key

\* A timer outside the heap gets another next_timeout.
SetKey(n, k) ==
    /\ n \notin inside
    /\ key' = [key EXCEPT ![n] = k]
    /\ UNCHANGED << heap, inside >>

HpNext ==
    \E n \in HeapNode : HeapInsert(n) \/ HeapRemove(n) \/ \E k \in Key : SetKey(n, k)

HpSpec == HpInit /\ [][HpNext]_hpvars

(***************************************************************************)
(* After any inserts and removals, of the first timer or of any other, the *)
(* linked nodes are exactly the timers inserted, they fill a complete tree *)
(* (positions 1 to nelts), parent and child links agree, and no timer is   *)
(* due before its parent: the root is the next to fire                     *)
(* (heap_insert, heap_remove; __hloop_process_timers only looks at it).    *)
(***************************************************************************)
HeapInOrder ==
    /\ heap.nelts = Cardinality(inside)
    /\ {NodeAt(heap, i) : i \in 1 .. heap.nelts} = inside
    /\ heap.root = NIL <=> inside = {}
    /\ \A i \in 1 .. heap.nelts :
          LET n == NodeAt(heap, i) IN
          /\ heap.up[n] = IF i = 1 THEN NIL ELSE NodeAt(heap, i \div 2)
          /\ \A s \in 0 .. 1 : heap.kid[s][n] = NIL <=> 2 * i + s > heap.nelts
          /\ i > 1 => ~Less(n, heap.up[n])
=============================================================================
