------------------------------- MODULE HvQueue -------------------------------
(***************************************************************************)
(* base/queue.h: QUEUE_DECL, the growable array behind the loop's custom   *)
(* events (event_queue) and a connection's unsent buffers (write_queue).   *)
(* ptr is the heap block, a function on the cells that are allocated: an   *)
(* access outside its domain is a memory error of the program.             *)
(***************************************************************************)
EXTENDS Integers

CONSTANTS
    Elem,            \* the elements callers push
    Zero,            \* the content of a cell that memset or calloc cleared
    QUEUE_INIT_SIZE, \* capacity of the first resize from nothing
    InitSizes,       \* the capacities callers give to init
    MaxLen           \* bound on the number of elements held

ASSUME HvQueueAssumption ==
    /\ QUEUE_INIT_SIZE \in Nat \ {0}
    /\ InitSizes \subseteq Nat \ {0}
    /\ MaxLen \in Nat

VARIABLES ptr, size, maxsize, offset

vars == << ptr, size, maxsize, offset >>

Cell == Elem \cup {Zero}

Zeros(n) == [i \in 0 .. n - 1 |-> Zero]

\* A zeroed struct, as calloc leaves it and as cleanup does.
Init ==
    /\ ptr = Zeros(0)
    /\ size = 0
    /\ maxsize = 0
    /\ offset = 0

\* qtype_init: only on a queue without storage (write_queue.maxsize == 0).
QInit(n) ==
    /\ maxsize = 0
    /\ ptr' = Zeros(n)
    /\ size' = 0
    /\ maxsize' = n
    /\ offset' = 0

Clear ==
    /\ ptr' = Zeros(maxsize)
    /\ size' = 0
    /\ offset' = 0
    /\ UNCHANGED maxsize

Cleanup ==
    /\ ptr' = Zeros(0)
    /\ size' = 0
    /\ maxsize' = 0
    /\ offset' = 0

\* The capacity resize gives when asked for twice the present one.
DoubleSize == IF maxsize = 0 THEN QUEUE_INIT_SIZE ELSE maxsize * 2

\* hv_realloc: old cells are kept and new ones are zeroed.
Realloc(n) == [i \in 0 .. n - 1 |-> IF i < maxsize THEN ptr[i] ELSE Zero]

\* Mutant: memmove copies from ptr and not from ptr + _offset.
MovedDownFromStart == ptr

\* memmove of the live cells to the start of the block; the rest stays.
MovedDown == [i \in 0 .. maxsize - 1 |-> IF i < size THEN ptr[offset + i] ELSE ptr[i]]

\* push_back makes room at the end of the block first: it grows a full block,
\* and shifts the elements of one whose free cells are all at the front.
PushBack(e) ==
    /\ size < MaxLen
    /\ LET full  == size = maxsize
           shift == ~full /\ offset + size = maxsize
           off   == IF shift THEN 0 ELSE offset
           block == IF full THEN Realloc(DoubleSize) ELSE IF shift THEN MovedDown ELSE ptr
       IN  /\ ptr' = [block EXCEPT ![off + size] = e]
           /\ maxsize' = IF full THEN DoubleSize ELSE maxsize
           /\ offset' = off
    /\ size' = size + 1

PopFront ==
    /\ size > 0
    /\ size' = size - 1
    /\ offset' = IF offset + 1 = maxsize THEN 0 ELSE offset + 1
    /\ UNCHANGED << ptr, maxsize >>

PopBack ==
    /\ size > 0
    /\ size' = size - 1
    /\ UNCHANGED << ptr, maxsize, offset >>

Next ==
    \/ \E n \in InitSizes : QInit(n)
    \/ \E e \in Elem : PushBack(e)
    \/ PopFront
    \/ PopBack
    \/ Clear
    \/ Cleanup

Spec == Init /\ [][Next]_vars

-----------------------------------------------------------------------------

\* Type invariant.
TypeOK ==
    /\ size \in Nat
    /\ maxsize \in Nat
    /\ offset \in Nat
    /\ ptr \in [0 .. maxsize - 1 -> Cell]

\* The live cells lie inside the block, in one run without wrap-around: data()
\* and back() index ptr + _offset + size - 1, the doubling in push_back keeps
\* _offset as it is, and the store after it goes to ptr[_offset + size].
LiveInsideBlock == offset + size <= maxsize

\* The elements in order, as front(), data() and back() show them.
Contents == [i \in 1 .. size |-> ptr[offset + i - 1]]

Abstract == INSTANCE Fifo WITH q <- Contents

\* The array is a FIFO and a LIFO over one sequence, whatever mixture of
\* growing, shifting, pops at both ends and clears came before.
ImplementsFifo == Abstract!FifoSpec
=============================================================================
