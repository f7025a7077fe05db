-------------------------------- MODULE Fifo --------------------------------
(***************************************************************************)
(* What base/queue.h promises in its header comment: a queue with          *)
(* push_back and pop_front, and a stack with push_back and pop_back, over  *)
(* one sequence of elements.                                               *)
(***************************************************************************)
EXTENDS Naturals, Sequences

CONSTANT Elem
VARIABLE q

FifoInit == q = << >>

FifoPushBack(e) == q' = Append(q, e)

FifoPopFront == q # << >> /\ q' = Tail(q)

FifoPopBack == q # << >> /\ q' = SubSeq(q, 1, Len(q) - 1)

FifoClear == q' = << >>

FifoNext ==
    \/ \E e \in Elem : FifoPushBack(e)
    \/ FifoPopFront
    \/ FifoPopBack
    \/ FifoClear

FifoSpec == FifoInit /\ [][FifoNext]_q
=============================================================================
