---------------------------- MODULE ClientsProof ----------------------------
(***************************************************************************)
(* Proofs about the queue, the object pool, the asynchronous HTTP client   *)
(* and the MQTT client, for every value of the constants.                  *)
(***************************************************************************)
EXTENDS HvQueue, ObjectPool, HttpClientPool, MqttClient, SequenceTheorems, FiniteSetTheorems, TLAPS

-----------------------------------------------------------------------------
(***************************************************************************)
(* Proofs about HvQueue, for every element set, initial capacity and       *)
(* bound: the index arithmetic of QUEUE_DECL stays inside the block, and   *)
(* the array implements Fifo.                                              *)
(***************************************************************************)

\* The inductive invariant: besides the type and the index bound, every live
\* cell holds a pushed element (a cell that memset cleared is never live).
Inv ==
    /\ TypeOK
    /\ LiveInsideBlock
    /\ \A i \in offset .. offset + size - 1 : ptr[i] \in Elem

\* An empty struct satisfies the invariant.
LEMMA InitInv == Init => Inv
  BY SMTT(20), HvQueueAssumption DEF Init, Inv, TypeOK, LiveInsideBlock, Zeros, Cell

\* Every operation of QUEUE_DECL preserves the invariant.
LEMMA NextInv == Inv /\ [Next]_vars => Inv'
<1> SUFFICES ASSUME Inv, [Next]_vars PROVE Inv'
  BY Zenon
<1> USE HvQueueAssumption DEF Inv, TypeOK, LiveInsideBlock, Cell
<1>1. CASE \E n \in InitSizes : QInit(n)
  BY SMTT(20), <1>1 DEF QInit, Zeros
<1>2. CASE \E e \in Elem : PushBack(e)
  BY SMTT(20), <1>2 DEF PushBack, Realloc, MovedDown, DoubleSize
<1>3. CASE PopFront
  BY SMTT(20), <1>3 DEF PopFront
<1>4. CASE PopBack
  BY SMTT(20), <1>4 DEF PopBack
<1>5. CASE Clear \/ Cleanup
  BY SMTT(20), <1>5 DEF Clear, Cleanup, Zeros
<1>6. CASE UNCHANGED vars
  BY Zenon, <1>6 DEF vars
<1> QED BY Zenon, <1>1, <1>2, <1>3, <1>4, <1>5, <1>6 DEF Next

\* No sequence of queue operations makes data(), back() or the store of
\* push_back touch a cell outside the block.
THEOREM QueueInsideBlock == Spec => []LiveInsideBlock
<1>1. Inv => LiveInsideBlock
  BY Zenon DEF Inv
<1> QED BY InitInv, NextInv, <1>1, PTL DEF Spec

\* The mapped value is a sequence of elements, of the length the struct says.
ContentsOK ==
    /\ Contents \in Seq(Elem)
    /\ Len(Contents) = size
    /\ \A i \in 1 .. size : Contents[i] = ptr[offset + i - 1]

\* What lies between offset and offset + size reads as a sequence.
LEMMA ContentsSeq == Inv => ContentsOK
  BY SMTT(20) DEF Inv, TypeOK, Contents, ContentsOK

\* A sequence is settled by its length and its entries: the three shapes that
\* push_back, pop_front and pop_back produce.
LEMMA AppendShape ==
  ASSUME NEW S, NEW s \in Seq(S), NEW t \in Seq(S), NEW e \in S,
         Len(t) = Len(s) + 1, \A i \in 1 .. Len(s) : t[i] = s[i], t[Len(s) + 1] = e
  PROVE  t = Append(s, e)
  BY SMTT(20)

\* ... after pop_front,
LEMMA TailShape ==
  ASSUME NEW S, NEW s \in Seq(S), NEW t \in Seq(S), s # << >>,
         Len(t) = Len(s) - 1, \A i \in 1 .. Len(t) : t[i] = s[i + 1]
  PROVE  t = Tail(s)
  BY SMTT(20), HeadTailProperties, SeqEqual

\* ... and after pop_back.
LEMMA FrontShape ==
  ASSUME NEW S, NEW s \in Seq(S), NEW t \in Seq(S), s # << >>,
         Len(t) = Len(s) - 1, \A i \in 1 .. Len(t) : t[i] = s[i]
  PROVE  t = SubSeq(s, 1, Len(s) - 1)
<1>1. Len(s) \in Nat \ {0} /\ \A i \in 1 .. Len(s) - 1 : s[i] \in S
  BY Zenon, EmptySeq, ElementOfSeq
<1> DEFINE u == SubSeq(s, 1, Len(s) - 1)
<1>2. u \in Seq(S) /\ Len(u) = Len(t) /\ \A i \in 1 .. Len(t) : u[i] = s[i]
  BY SMTT(20), <1>1, SubSeqProperties
<1> HIDE DEF u
<1>3. t = u
  BY Zenon, <1>2, SeqEqual
<1> QED BY Zenon, <1>3 DEF u

\* The growable array implements the FIFO/LIFO sequence of queue.h's header
\* comment: each operation changes Contents as the abstract one changes q.
THEOREM QueueIsFifo == Spec => ImplementsFifo
<1>1. Init => Abstract!FifoInit
  BY SMTT(20) DEF Init, Abstract!FifoInit, Contents
<1>2. Inv /\ Inv' /\ [Next]_vars => [Abstract!FifoNext]_Contents
  <2> SUFFICES ASSUME Inv, Inv', [Next]_vars PROVE [Abstract!FifoNext]_Contents
    BY Zenon
  <2>0. ContentsOK /\ ContentsOK'
    BY ContentsSeq, PTL
  <2>00. size > 0 => Contents # << >>
    BY SMTT(20), <2>0, EmptySeq DEF ContentsOK
  <2>1. ASSUME NEW e \in Elem, PushBack(e) PROVE Abstract!FifoPushBack(e)
    <3> DEFINE shift == size # maxsize /\ offset + size = maxsize
               off   == IF shift THEN 0 ELSE offset
               block == IF size = maxsize THEN Realloc(DoubleSize)
                        ELSE IF shift THEN MovedDown ELSE ptr
    <3>1. /\ size' = size + 1 /\ offset' = off
          /\ ptr' = [block EXCEPT ![off + size] = e]
      BY Zenon, <2>1 DEF PushBack
    <3>2. size \in Nat /\ off \in Nat
      BY Zenon DEF Inv, TypeOK
    <3>3. /\ off + size \in DOMAIN block
          /\ \A i \in 0 .. size - 1 : off + i \in DOMAIN block /\ block[off + i] = ptr[offset + i]
      <4>1. CASE size = maxsize
        BY SMTT(20), <4>1, HvQueueAssumption DEF Inv, TypeOK, LiveInsideBlock, Realloc, DoubleSize
      <4>2. CASE shift
        BY SMTT(20), <4>2 DEF Inv, TypeOK, LiveInsideBlock, MovedDown
      <4>3. CASE size # maxsize /\ ~shift
        BY SMTT(20), <4>3 DEF Inv, TypeOK, LiveInsideBlock
      <4> QED BY Zenon, <4>1, <4>2, <4>3
    <3> HIDE DEF shift, off, block
    <3>4. \A i \in 1 .. size : Contents'[i] = Contents[i]
      <4> SUFFICES ASSUME NEW i \in 1 .. size PROVE Contents'[i] = Contents[i]
        BY Zenon
      <4>1. Contents'[i] = ptr'[off + i - 1] /\ Contents[i] = ptr[offset + i - 1]
        BY SMTT(20), <2>0, <3>1, <3>2 DEF ContentsOK
      <4>2. ptr'[off + (i - 1)] = block[off + (i - 1)]
        BY SMTT(20), <3>1, <3>2, <3>3
      <4>3. block[off + (i - 1)] = ptr[offset + (i - 1)]
        BY SMTT(20), <3>2, <3>3
      <4> QED BY Zenon, <4>1, <4>2, <4>3, <3>2 DEF Inv, TypeOK
    <3>5. Contents'[size + 1] = e
      BY SMTT(20), <2>0, <3>1, <3>2, <3>3 DEF ContentsOK
    <3> QED BY SMTT(20), <2>0, <3>1, <3>4, <3>5, AppendShape DEF ContentsOK, Abstract!FifoPushBack
  <2>2. ASSUME PopFront PROVE Abstract!FifoPopFront
    <3>1. /\ size > 0 /\ size' = size - 1
          /\ \A i \in 1 .. size - 1 : Contents'[i] = Contents[i + 1]
      BY SMTT(20), <2>2, <2>0 DEF ContentsOK, PopFront, Inv, TypeOK, LiveInsideBlock
    <3> QED BY SMTT(20), <3>1, <2>0, <2>00, TailShape DEF ContentsOK, Abstract!FifoPopFront
  <2>3. ASSUME PopBack PROVE Abstract!FifoPopBack
    <3>1. /\ size > 0 /\ size' = size - 1
          /\ \A i \in 1 .. size - 1 : Contents'[i] = Contents[i]
      BY SMTT(20), <2>3, <2>0 DEF ContentsOK, PopBack, Inv, TypeOK
    <3> QED BY SMTT(20), <3>1, <2>0, <2>00, FrontShape DEF ContentsOK, Abstract!FifoPopBack
  <2>4. ASSUME Clear \/ Cleanup \/ \E n \in InitSizes : QInit(n) PROVE Abstract!FifoClear
    <3>1. size' = 0
      BY Zenon, <2>4 DEF Clear, Cleanup, QInit
    <3> QED BY Zenon, <3>1, <2>0, EmptySeq DEF ContentsOK, Abstract!FifoClear
  <2>5. CASE UNCHANGED vars
    BY Zenon, <2>5 DEF vars, Contents
  <2> QED BY Zenon, <2>1, <2>2, <2>3, <2>4, <2>5 DEF Next, Abstract!FifoNext
<1>3. Spec => []Inv
  BY InitInv, NextInv, PTL DEF Spec
<1> QED BY <1>1, <1>2, <1>3, PTL DEF Spec, ImplementsFifo, Abstract!FifoSpec

-----------------------------------------------------------------------------
(***************************************************************************)
(* Proofs about ObjectPool, for any number of threads, any set of objects  *)
(* and any _max_num.                                                       *)
(***************************************************************************)

PC == {"out", "missed", "create", "wait", "woken", "has"}

\* The threads whose counter, in f, is one of Q.
At(f, Q) == {v \in Worker : f[v] \in Q}

OpTypeOK ==
    /\ objects_ \in SUBSET Object /\ IsFiniteSet(objects_)
    /\ object_num \in Int
    /\ wpc \in [Worker -> PC]
    /\ held \in [Worker -> Object \cup {NoObject}]

\* A thread has an object exactly when it is at "has".
HeldAtHas == \A w \in Worker : held[w] # NoObject <=> wpc[w] = "has"

LendInv == OpTypeOK /\ HeldAtHas /\ OneBorrower

\* A thread whose first look found nothing, and since when no object came in.
NothingSinceMiss == \A w \in Worker \ late : wpc[w] = "missed" => objects_ = {}

CountInv == LendInv /\ PoolCounts

GapInv == LendInv /\ NothingSinceMiss /\ OnlyTheGapIsMissed

-----------------------------------------------------------------------------

\* At is a finite set, and moving one thread changes it by that thread only.
LEMMA AtFinite ==
  ASSUME NEW f, NEW Q PROVE IsFiniteSet(At(f, Q)) /\ Cardinality(At(f, Q)) \in Nat
<1>1. At(f, Q) \subseteq Worker
  BY Zenon DEF At
<1> QED BY Zenon, <1>1, FS_Subset, FS_CardinalityType, ObjectPoolAssumption

\* A worker that moves inside, or outside, the states Q changes no count.
LEMMA AtSame ==
  ASSUME NEW f \in [Worker -> PC], NEW w \in Worker, NEW c \in PC, NEW Q,
         f[w] \in Q <=> c \in Q
  PROVE  At([f EXCEPT ![w] = c], Q) = At(f, Q)
  BY Zenon DEF At

\* One that enters them counts for one more,
LEMMA AtMore ==
  ASSUME NEW f \in [Worker -> PC], NEW w \in Worker, NEW c \in PC, NEW Q,
         f[w] \notin Q, c \in Q
  PROVE  Cardinality(At([f EXCEPT ![w] = c], Q)) = Cardinality(At(f, Q)) + 1
<1>1. At([f EXCEPT ![w] = c], Q) = At(f, Q) \cup {w} /\ w \notin At(f, Q)
  BY Zenon DEF At
<1> QED BY <1>1, AtFinite, FS_AddElement, Zenon

\* ... and one that leaves them for one less.
LEMMA AtFewer ==
  ASSUME NEW f \in [Worker -> PC], NEW w \in Worker, NEW c \in PC, NEW Q,
         f[w] \in Q, c \notin Q
  PROVE  Cardinality(At([f EXCEPT ![w] = c], Q)) = Cardinality(At(f, Q)) - 1
<1>1. At([f EXCEPT ![w] = c], Q) = At(f, Q) \ {w} /\ w \in At(f, Q)
  BY Zenon DEF At
<1> QED BY <1>1, AtFinite, FS_RemoveElement, ZenonT(60)

\* An object more and an object less.
LEMMA OneMore ==
  ASSUME NEW S, IsFiniteSet(S), NEW o, o \notin S
  PROVE  IsFiniteSet(S \cup {o}) /\ Cardinality(S \cup {o}) = Cardinality(S) + 1 /\ Cardinality(S) \in Nat
  BY Zenon, FS_AddElement, FS_CardinalityType

\* Taking out an element that is there removes one.
LEMMA OneLess ==
  ASSUME NEW S, IsFiniteSet(S), NEW o \in S
  PROVE  IsFiniteSet(S \ {o}) /\ Cardinality(S \ {o}) = Cardinality(S) - 1 /\ Cardinality(S) \in Nat
  BY Zenon, FS_RemoveElement, FS_CardinalityType

-----------------------------------------------------------------------------

\* notify_one wakes one waiting thread, or none.
LEMMA Notified ==
  ASSUME NEW pcs \in [Worker -> PC], NotifyOne(pcs)
  PROVE  \/ wpc' = pcs /\ \A v \in Worker : pcs[v] # "wait"
         \/ \E v \in Worker : pcs[v] = "wait" /\ wpc' = [pcs EXCEPT ![v] = "woken"]
  BY Zenon DEF NotifyOne

\* notify_one wakes at most one waiting worker.
LEMMA NotifiedType ==
  ASSUME NEW pcs \in [Worker -> PC], NotifyOne(pcs)
  PROVE  /\ wpc' \in [Worker -> PC]
         /\ \A w \in Worker : wpc'[w] = pcs[w] \/ (pcs[w] = "wait" /\ wpc'[w] = "woken")
  BY Zenon, Notified DEF PC

\* No more objects are lent than threads hold, however the calls interleave.
LEMMA LendInit == OpInit => LendInv
  BY SMTT(20), ObjectPoolAssumption, FS_CardinalityType DEF OpInit, LendInv, OpTypeOK, HeldAtHas, OneBorrower, PC

\* No step of borrow, return, add, remove or clear lends an object twice.
LEMMA LendNext == LendInv /\ [OpNext]_opvars => LendInv'
<1> SUFFICES ASSUME LendInv, [OpNext]_opvars PROVE LendInv'
  BY Zenon
<1> USE ObjectPoolAssumption DEF LendInv, OpTypeOK, HeldAtHas, OneBorrower
<1>1. ASSUME NEW w \in Worker, TryBorrow(w) PROVE LendInv'
  <2>1. CASE objects_ # {}
    <3>1. PICK o \in objects_ : Takes(w, o, "has") /\ objects_' = objects_ \ {o}
      BY Zenon, <1>1, <2>1 DEF TryBorrow
    <3>2. IsFiniteSet(objects_')
      BY Zenon, <3>1, OneLess
    <3> QED BY ZenonT(30), <1>1, <3>1, <3>2 DEF TryBorrow, Takes, Goes, PC
  <2>2. CASE objects_ = {}
    BY Zenon, <1>1, <2>2 DEF TryBorrow, Goes, PC
  <2> QED BY Zenon, <2>1, <2>2
<1>2. ASSUME NEW w \in Worker, BorrowSlot(w) PROVE LendInv'
  BY SMTT(20), <1>2 DEF BorrowSlot, Goes, PC
<1>3. ASSUME NEW w \in Worker, Created(w) PROVE LendInv'
  BY SMTT(20), <1>3 DEF Created, Takes, Goes, Unused, PC
<1>4. ASSUME NEW w \in Worker, BorrowTimeout(w) PROVE LendInv'
  BY Zenon, <1>4 DEF BorrowTimeout, Goes, PC
<1>5. ASSUME NEW w \in Worker, BorrowWoken(w) PROVE LendInv'
  <2>1. CASE objects_ # {}
    <3>1. PICK o \in objects_ : Takes(w, o, "has") /\ objects_' = objects_ \ {o}
      BY Zenon, <1>5, <2>1 DEF BorrowWoken
    <3>2. IsFiniteSet(objects_')
      BY Zenon, <3>1, OneLess
    <3> QED BY ZenonT(30), <1>5, <3>1, <3>2 DEF BorrowWoken, Takes, Goes, PC
  <2>2. CASE objects_ = {}
    BY Zenon, <1>5, <2>2 DEF BorrowWoken, Goes, PC
  <2> QED BY Zenon, <2>1, <2>2
<1>6. ASSUME NEW w \in Worker, Return(w) PROVE LendInv'
  <2> DEFINE pcs == [wpc EXCEPT ![w] = "out"]
  <2>1. pcs \in [Worker -> PC] /\ NotifyOne(pcs)
    BY Zenon, <1>6 DEF Return, PC
  <2>2. /\ wpc' \in [Worker -> PC]
        /\ \A v \in Worker : wpc'[v] = pcs[v] \/ (pcs[v] = "wait" /\ wpc'[v] = "woken")
    BY <2>1, NotifiedType, Zenon
  <2>3. held[w] \in Object /\ held[w] \notin objects_
    BY Zenon, <1>6 DEF Return
  <2>4. IsFiniteSet(objects_') /\ objects_' \in SUBSET Object
    BY Zenon, <1>6, <2>3, OneMore DEF Return
  <2> QED BY <1>6, <2>2, <2>3, <2>4, ZenonT(60) DEF Return
<1>7. ASSUME NEW o \in Unused, AddObject(o) PROVE LendInv'
  <2>1. /\ wpc' \in [Worker -> PC]
        /\ \A v \in Worker : wpc'[v] = wpc[v] \/ (wpc[v] = "wait" /\ wpc'[v] = "woken")
    BY Zenon, <1>7, NotifiedType DEF AddObject
  <2>2. IsFiniteSet(objects_') /\ objects_' \in SUBSET Object
    BY Zenon, <1>7, OneMore DEF AddObject, Unused
  <2> QED BY SMTT(20), <1>7, <2>1, <2>2 DEF AddObject, Unused
<1>8. ASSUME NEW o \in Object, RemoveObject(o) PROVE LendInv'
  <2>1. IsFiniteSet(objects_')
    BY Zenon, <1>8, OneLess DEF RemoveObject
  <2> QED BY SMTT(20), <1>8, <2>1 DEF RemoveObject
<1>9. CASE ClearIdle
  BY SMTT(20), <1>9, FS_EmptySet DEF ClearIdle
<1>10. CASE UNCHANGED opvars
  BY Zenon, <1>10 DEF opvars
<1> QED BY ZenonT(30), <1>1, <1>2, <1>3, <1>4, <1>5, <1>6, <1>7, <1>8, <1>9, <1>10 DEF OpNext

\* HObjectPool never lends an object to two threads, nor keeps one idle that is
\* lent (TryBorrow, Borrow, Return).
THEOREM LentToOne == OpSpec => []OneBorrower
<1>1. LendInv => OneBorrower
  BY Zenon DEF LendInv
<1> QED BY LendInit, LendNext, <1>1, PTL DEF OpSpec

-----------------------------------------------------------------------------

Busy == {"create", "has"}

\* PoolCounts in terms of At.
LEMMA CountsAt ==
  PoolCounts <=> /\ object_num = Cardinality(objects_) + Cardinality(At(wpc, Busy))
                 /\ object_num <= MaxNum
  BY Zenon DEF PoolCounts, At, Busy

\* Notifying moves a thread between two counters that are not busy.
LEMMA NotifiedBusy ==
  ASSUME NEW pcs \in [Worker -> PC], NotifyOne(pcs)
  PROVE  At(wpc', Busy) = At(pcs, Busy)
  BY Zenon, Notified DEF At, Busy, PC

\* A new pool counts the objects it was given.
LEMMA CountInit == OpInit => CountInv
<1> SUFFICES ASSUME OpInit PROVE PoolCounts
  BY Zenon, LendInit DEF CountInv
<1>1. At(wpc, Busy) = {}
  BY Zenon DEF OpInit, At, Busy
<1>2. Cardinality(At(wpc, Busy)) = 0
  BY Zenon, <1>1, FS_EmptySet
<1>3. Cardinality(objects_) \in Nat /\ object_num = Cardinality(objects_) /\ object_num <= MaxNum
  BY Zenon, FS_CardinalityType DEF OpInit
<1> QED BY SMTT(20), <1>2, <1>3, CountsAt

\* A thread that takes an idle object is busy from then on: the sum stays.
LEMMA CountTake ==
  ASSUME CountInv, LendInv', NEW w \in Worker, wpc[w] \notin Busy, NEW o \in objects_,
         Takes(w, o, "has"), objects_' = objects_ \ {o}, UNCHANGED object_num
  PROVE  PoolCounts'
<1>1. Cardinality(At(wpc', Busy)) = Cardinality(At(wpc, Busy)) + 1
  <2>1. wpc \in [Worker -> PC] /\ "has" \in PC /\ "has" \in Busy
    BY Zenon DEF CountInv, LendInv, OpTypeOK, Busy, PC
  <2>2. wpc' = [wpc EXCEPT ![w] = "has"]
    BY Zenon DEF Takes, Goes
  <2> QED BY <2>1, <2>2, AtMore, Zenon
<1>2. Cardinality(objects_') = Cardinality(objects_) - 1 /\ Cardinality(objects_) \in Nat
  BY Zenon, OneLess DEF CountInv, LendInv, OpTypeOK
<1>3. Cardinality(At(wpc, Busy)) \in Nat
  BY Zenon, AtFinite
<1> QED BY SMTT(20), <1>1, <1>2, <1>3, CountsAt DEF CountInv, PoolCounts, At, Busy

\* The count survives every step, when clear finds no object lent.
LEMMA CountNext ==
  ASSUME ~BusyClear PROVE CountInv /\ [OpNext]_opvars => CountInv'
<1> SUFFICES ASSUME CountInv, [OpNext]_opvars PROVE PoolCounts'
  BY Zenon, LendNext DEF CountInv
<1> DEFINE B == Cardinality(At(wpc, Busy))
           O == Cardinality(objects_)
<1> USE DEF LendInv, OpTypeOK
<1>0. /\ LendInv /\ LendInv' /\ B \in Nat /\ O \in Nat /\ MaxNum \in Nat
      /\ object_num = O + B /\ object_num <= MaxNum
  BY Zenon, AtFinite, FS_CardinalityType, LendNext, CountsAt, ObjectPoolAssumption DEF CountInv
<1>t. wpc \in [Worker -> PC]
  BY Zenon, <1>0
<1>00. SUFFICES /\ object_num' = Cardinality(objects_') + Cardinality(At(wpc', Busy))
                /\ object_num' <= MaxNum
  BY Zenon DEF PoolCounts, At, Busy
<1>1. ASSUME NEW w \in Worker, TryBorrow(w) \/ BorrowWoken(w)
      PROVE  /\ object_num' = Cardinality(objects_') + Cardinality(At(wpc', Busy))
             /\ object_num' <= MaxNum
  <2>1. CASE objects_ # {}
    <3>1. PICK o \in objects_ : Takes(w, o, "has") /\ objects_' = objects_ \ {o}
      BY Zenon, <1>1, <2>1 DEF TryBorrow, BorrowWoken
    <3>2. PoolCounts'
      BY Zenon, <1>0, <1>1, <3>1, CountTake DEF TryBorrow, BorrowWoken, Busy
    <3> QED BY Zenon, <3>2 DEF PoolCounts, At, Busy
  <2>2. CASE objects_ = {}
    <3>1. PICK c \in {"missed", "out"} : wpc' = [wpc EXCEPT ![w] = c]
      BY Zenon, <1>1, <2>2 DEF TryBorrow, BorrowWoken, Goes
    <3>2. At(wpc', Busy) = At(wpc, Busy)
      <4>1. c \in PC /\ c \notin Busy /\ wpc[w] \notin Busy
        BY Zenon, <1>1 DEF TryBorrow, BorrowWoken, Busy, PC
      <4> QED BY <1>t, <3>1, <4>1, AtSame, ZenonT(30)
    <3> QED BY <1>0, <1>1, <2>2, <3>2, Zenon DEF TryBorrow, BorrowWoken
  <2> QED BY Zenon, <2>1, <2>2
<1>2. ASSUME NEW w \in Worker, BorrowSlot(w)
      PROVE  /\ object_num' = Cardinality(objects_') + Cardinality(At(wpc', Busy))
             /\ object_num' <= MaxNum
  <2>1. CASE object_num < MaxNum
    <3>1. Cardinality(At(wpc', Busy)) = B + 1
      <4>1. wpc' = [wpc EXCEPT ![w] = "create"]
        BY Zenon, <1>2, <2>1 DEF BorrowSlot, Goes
      <4>2. "create" \in PC /\ "create" \in Busy /\ wpc[w] \notin Busy
        BY Zenon, <1>2 DEF BorrowSlot, Busy, PC
      <4> QED BY <1>t, <4>1, <4>2, AtMore, Zenon
    <3> QED BY SMTT(20), <1>0, <1>2, <2>1, <3>1 DEF BorrowSlot
  <2>2. CASE ~(object_num < MaxNum)
    <3>1. At(wpc', Busy) = At(wpc, Busy)
      <4>1. wpc' = [wpc EXCEPT ![w] = "wait"]
        BY Zenon, <1>2, <2>2 DEF BorrowSlot, Goes
      <4>2. "wait" \in PC /\ "wait" \notin Busy /\ wpc[w] \notin Busy
        BY Zenon, <1>2 DEF BorrowSlot, Busy, PC
      <4> QED BY <1>t, <4>1, <4>2, AtSame, Zenon
    <3> QED BY Zenon, <1>0, <1>2, <2>2, <3>1 DEF BorrowSlot
  <2> QED BY Zenon, <2>1, <2>2
<1>3. ASSUME NEW w \in Worker, Created(w)
      PROVE  /\ object_num' = Cardinality(objects_') + Cardinality(At(wpc', Busy))
             /\ object_num' <= MaxNum
  <2>1. CASE \E o \in Unused : Takes(w, o, "has") /\ UNCHANGED object_num
    <3>1. At(wpc', Busy) = At(wpc, Busy)
      <4>1. wpc' = [wpc EXCEPT ![w] = "has"]
        BY Zenon, <2>1 DEF Takes, Goes
      <4>2. "has" \in PC /\ "has" \in Busy /\ wpc[w] \in Busy
        BY Zenon, <1>3 DEF Created, Busy, PC
      <4> QED BY <1>t, <4>1, <4>2, AtSame, Zenon
    <3> QED BY Zenon, <1>0, <1>3, <2>1, <3>1 DEF Created
  <2>2. CASE object_num' = object_num - 1 /\ Goes(w, "out") /\ UNCHANGED held
    <3>1. Cardinality(At(wpc', Busy)) = B - 1
      <4>1. wpc' = [wpc EXCEPT ![w] = "out"]
        BY Zenon, <2>2 DEF Goes
      <4>2. "out" \in PC /\ "out" \notin Busy /\ wpc[w] \in Busy
        BY Zenon, <1>3 DEF Created, Busy, PC
      <4> QED BY <1>t, <4>1, <4>2, AtFewer, Zenon
    <3> QED BY SMTT(20), <1>0, <1>3, <2>2, <3>1 DEF Created
  <2> QED BY Zenon, <1>3, <2>1, <2>2 DEF Created
<1>4. ASSUME NEW w \in Worker, BorrowTimeout(w)
      PROVE  /\ object_num' = Cardinality(objects_') + Cardinality(At(wpc', Busy))
             /\ object_num' <= MaxNum
  <2>1. PICK c \in {"woken", "out"} : wpc' = [wpc EXCEPT ![w] = c]
    BY Zenon, <1>4 DEF BorrowTimeout, Goes
  <2>2. At(wpc', Busy) = At(wpc, Busy)
    <3>1. c \in PC /\ c \notin Busy /\ wpc[w] \notin Busy
      BY Zenon, <1>4 DEF BorrowTimeout, Busy, PC
    <3> QED BY <1>t, <2>1, <3>1, AtSame, Zenon
  <2> QED BY Zenon, <1>0, <1>4, <2>2 DEF BorrowTimeout
<1>5. ASSUME NEW w \in Worker, Return(w)
      PROVE  /\ object_num' = Cardinality(objects_') + Cardinality(At(wpc', Busy))
             /\ object_num' <= MaxNum
  <2> DEFINE pcs == [wpc EXCEPT ![w] = "out"]
  <2>1. pcs \in [Worker -> PC] /\ NotifyOne(pcs)
    BY Zenon, <1>0, <1>5 DEF Return, PC
  <2>2. Cardinality(At(wpc', Busy)) = B - 1
    <3>1. "out" \in PC /\ "out" \notin Busy /\ wpc[w] \in Busy
      BY Zenon, <1>5 DEF Return, Busy, PC
    <3>2. Cardinality(At(pcs, Busy)) = B - 1
      BY <1>t, <3>1, AtFewer, Zenon
    <3> QED BY <2>1, <3>2, NotifiedBusy, Zenon
  <2>3. held[w] \notin objects_
    BY Zenon, <1>0, <1>5 DEF Return, HeldAtHas, OneBorrower
  <2>4. Cardinality(objects_') = O + 1
    BY ZenonT(30), <1>0, <1>5, <2>3, OneMore DEF Return
  <2> QED BY SMTT(20), <1>0, <1>5, <2>2, <2>4 DEF Return
<1>6. ASSUME NEW o \in Unused, AddObject(o)
      PROVE  /\ object_num' = Cardinality(objects_') + Cardinality(At(wpc', Busy))
             /\ object_num' <= MaxNum
  <2>1. At(wpc', Busy) = At(wpc, Busy)
    BY Zenon, <1>0, <1>6, NotifiedBusy DEF AddObject
  <2>2. Cardinality(objects_') = O + 1
    BY Zenon, <1>0, <1>6, OneMore DEF AddObject, Unused
  <2> QED BY SMTT(20), <1>0, <1>6, <2>1, <2>2 DEF AddObject
<1>7. ASSUME NEW o \in Object, RemoveObject(o)
      PROVE  /\ object_num' = Cardinality(objects_') + Cardinality(At(wpc', Busy))
             /\ object_num' <= MaxNum
  BY SMTT(20), <1>0, <1>7, OneLess DEF RemoveObject
<1>8. ASSUME ClearIdle
      PROVE  /\ object_num' = Cardinality(objects_') + Cardinality(At(wpc', Busy))
             /\ object_num' <= MaxNum
  <2>1. At(wpc', Busy) = {}
    BY Zenon, <1>8 DEF ClearIdle, At, Busy
  <2> QED BY SMTT(20), <1>0, <1>8, <2>1, FS_EmptySet DEF ClearIdle
<1>9. ASSUME UNCHANGED opvars
      PROVE  /\ object_num' = Cardinality(objects_') + Cardinality(At(wpc', Busy))
             /\ object_num' <= MaxNum
  BY Zenon, <1>0, <1>9 DEF opvars
<1> QED BY ZenonT(30), <1>1, <1>2, <1>3, <1>4, <1>5, <1>6, <1>7, <1>8, <1>9 DEF OpNext

\* As long as nobody clears the pool while objects are out, _object_num counts
\* the objects that exist or are being created, and _max_num is kept.
THEOREM PoolWithinMax ==
  ASSUME ~BusyClear PROVE OpSpec => []PoolCounts
<1>1. CountInv => PoolCounts
  BY Zenon DEF CountInv
<1> QED BY CountInit, CountNext, <1>1, PTL DEF OpSpec

-----------------------------------------------------------------------------

Woken == {"woken"}

\* OnlyTheGapIsMissed in terms of At.
LEMMA GapAt ==
  OnlyTheGapIsMissed <=>
    \A w \in Worker \ late : wpc[w] = "wait" => Cardinality(objects_) <= Cardinality(At(wpc, Woken))
<1>1. {v \in Worker : wpc[v] = "woken"} = At(wpc, Woken)
  BY Zenon DEF At, Woken
<1> QED BY Zenon, <1>1 DEF OnlyTheGapIsMissed

\* A return or an addition, with pcs the counters before the notification: one
\* object more, and one notified thread more if any was waiting.
LEMMA GapNotify ==
  ASSUME GapInv, LendInv', NEW pcs \in [Worker -> PC], NotifyOne(pcs),
         \A v \in Worker : pcs[v] = wpc[v] \/ (pcs[v] = "out" /\ wpc[v] = "has"),
         Cardinality(objects_') = Cardinality(objects_) + 1
  PROVE  NothingSinceMiss' /\ OnlyTheGapIsMissed'
<1>1. /\ wpc' \in [Worker -> PC] /\ late' = late \cup Missed
      /\ \A w \in Worker : wpc'[w] = pcs[w] \/ (pcs[w] = "wait" /\ wpc'[w] = "woken")
  BY Zenon, NotifiedType DEF NotifyOne
<1>2. NothingSinceMiss'
  BY Zenon, <1>1 DEF NothingSinceMiss, Missed
<1>3. ASSUME NEW w \in Worker \ late', wpc'[w] = "wait"
      PROVE  Cardinality(objects_') <= Cardinality(At(wpc', Woken))
  <2>1. wpc[w] = "wait" /\ pcs[w] = "wait" /\ w \notin late
    BY Zenon, <1>1, <1>3
  <2>2. Cardinality(objects_) <= Cardinality(At(wpc, Woken))
    BY Zenon, <2>1, GapAt DEF GapInv
  <2>3. At(pcs, Woken) = At(wpc, Woken)
    BY Zenon DEF At, Woken
  <2>4. PICK v \in Worker : pcs[v] = "wait" /\ wpc' = [pcs EXCEPT ![v] = "woken"]
    BY Zenon, <2>1, Notified
  <2>5. "woken" \in PC /\ "woken" \in Woken /\ pcs[v] \notin Woken
    BY Zenon, <2>4 DEF Woken, PC
  <2>6. Cardinality(At(wpc', Woken)) = Cardinality(At(pcs, Woken)) + 1
    BY <2>4, <2>5, AtMore, Zenon
  <2>7. Cardinality(objects_) \in Nat /\ Cardinality(At(wpc, Woken)) \in Nat
    BY Zenon, AtFinite, FS_CardinalityType DEF GapInv, LendInv, OpTypeOK
  <2> QED BY SMTT(20), <2>2, <2>3, <2>6, <2>7
<1>4. OnlyTheGapIsMissed'
  <2>1. {v \in Worker : wpc'[v] = "woken"} = At(wpc', Woken)
    BY Zenon DEF At, Woken
  <2> QED BY <1>3, <2>1, SMTT(60) DEF OnlyTheGapIsMissed
<1> QED BY Zenon, <1>2, <1>4

\* Nobody has missed an object yet.
LEMMA GapInit == OpInit => GapInv
  BY Zenon, LendInit DEF OpInit, GapInv, NothingSinceMiss, OnlyTheGapIsMissed

\* Objects only go, and no thread stops being notified without taking one.
LEMMA GapKeep ==
  ASSUME GapInv, LendInv', Cardinality(objects_') <= Cardinality(objects_),
         Cardinality(At(wpc, Woken)) <= Cardinality(At(wpc', Woken)),
         objects_ = {} => objects_' = {},
         \A v \in Worker \ late' : wpc'[v] \in {"missed", "wait"} => v \notin late /\ wpc'[v] = wpc[v]
  PROVE  NothingSinceMiss' /\ OnlyTheGapIsMissed'
<1>1. NothingSinceMiss'
  BY Zenon DEF GapInv, NothingSinceMiss
<1>2. /\ Cardinality(objects_) \in Nat /\ Cardinality(At(wpc, Woken)) \in Nat
      /\ Cardinality(objects_') \in Nat /\ Cardinality(At(wpc', Woken)) \in Nat
  BY Zenon, AtFinite, FS_CardinalityType DEF GapInv, LendInv, OpTypeOK
<1>3. ASSUME NEW w \in Worker \ late', wpc'[w] = "wait"
      PROVE  Cardinality(objects_') <= Cardinality(At(wpc', Woken))
  <2>1. Cardinality(objects_) <= Cardinality(At(wpc, Woken))
    BY Zenon, <1>3, GapAt DEF GapInv
  <2> QED BY SMTT(20), <1>2, <2>1
<1>4. {v \in Worker : wpc'[v] = "woken"} = At(wpc', Woken)
  BY Zenon DEF At, Woken
<1> QED BY Zenon, <1>1, <1>3, <1>4 DEF OnlyTheGapIsMissed

\* Without idle objects there is nothing to miss.
LEMMA GapEmpty ==
  ASSUME objects_' = {} PROVE NothingSinceMiss' /\ OnlyTheGapIsMissed'
<1>1. Cardinality(objects_') = 0
  BY Zenon, FS_EmptySet
<1>2. Cardinality(At(wpc', Woken)) \in Nat
  BY Zenon, AtFinite
<1>3. {v \in Worker : wpc'[v] = "woken"} = At(wpc', Woken)
  BY Zenon DEF At, Woken
<1> QED BY SMTT(20), <1>1, <1>2, <1>3 DEF NothingSinceMiss, OnlyTheGapIsMissed

\* A miss is always in the gap between the failed attempt and the wait.
LEMMA GapNext == GapInv /\ [OpNext]_opvars => GapInv'
<1> SUFFICES ASSUME GapInv, [OpNext]_opvars PROVE NothingSinceMiss' /\ OnlyTheGapIsMissed'
  BY Zenon, LendNext DEF GapInv
<1> DEFINE W == Cardinality(At(wpc, Woken))
           O == Cardinality(objects_)
<1>0. LendInv /\ LendInv' /\ W \in Nat /\ O \in Nat
  BY Zenon, AtFinite, FS_CardinalityType, LendNext DEF GapInv, LendInv, OpTypeOK
<1>t. wpc \in [Worker -> PC] /\ IsFiniteSet(objects_)
  BY Zenon DEF GapInv, LendInv, OpTypeOK
<1>1. ASSUME NEW w \in Worker, TryBorrow(w) PROVE NothingSinceMiss' /\ OnlyTheGapIsMissed'
  <2>1. CASE objects_ = {}
    BY Zenon, <1>1, <2>1, GapEmpty DEF TryBorrow
  <2>2. CASE objects_ # {}
    <3>1. PICK o \in objects_ : Takes(w, o, "has") /\ objects_' = objects_ \ {o}
      BY Zenon, <1>1, <2>2 DEF TryBorrow
    <3>2. "has" \in PC /\ "has" \notin Woken /\ wpc[w] \notin Woken
      BY Zenon, <1>1 DEF TryBorrow, PC, Woken
    <3>3. wpc' = [wpc EXCEPT ![w] = "has"] /\ late' = late \ {w}
      BY Zenon, <3>1 DEF Takes, Goes
    <3>4. At(wpc', Woken) = At(wpc, Woken)
      BY <1>t, <3>2, <3>3, AtSame, ZenonT(60)
    <3>5. Cardinality(objects_') <= O
      BY SMTT(20), <1>0, <1>t, <3>1, OneLess
    <3> QED BY SMTT(20), <1>0, <1>t, <2>2, <3>3, <3>4, <3>5, GapKeep
  <2> QED BY Zenon, <2>1, <2>2
<1>2. ASSUME NEW w \in Worker, BorrowSlot(w) PROVE NothingSinceMiss' /\ OnlyTheGapIsMissed'
  <2>1. CASE w \notin late
    BY Zenon, <1>2, <2>1, GapEmpty DEF BorrowSlot, GapInv, NothingSinceMiss
  <2>2. CASE w \in late
    <3>1. PICK c \in {"create", "wait"} : Goes(w, c)
      BY Zenon, <1>2 DEF BorrowSlot
    <3>2. c \in PC /\ c \notin Woken /\ wpc[w] \notin Woken
      BY Zenon, <1>2 DEF BorrowSlot, PC, Woken
    <3>3. At(wpc', Woken) = At(wpc, Woken)
      BY <1>t, <3>1, <3>2, AtSame, ZenonT(60) DEF Goes
    <3>4. \A v \in Worker \ late' :
             wpc'[v] \in {"missed", "wait"} => v \notin late /\ wpc'[v] = wpc[v]
      BY Zenon, <1>t, <2>2, <3>1 DEF Goes
    <3>5. objects_' = objects_
      BY Zenon, <1>2 DEF BorrowSlot
    <3> QED BY SMTT(20), <1>0, <3>3, <3>4, <3>5, GapKeep
  <2> QED BY Zenon, <2>1, <2>2
<1>3. ASSUME NEW w \in Worker, Created(w) PROVE NothingSinceMiss' /\ OnlyTheGapIsMissed'
  <2>1. PICK c \in {"has", "out"} : wpc' = [wpc EXCEPT ![w] = c] /\ late' = late \ {w}
    BY Zenon, <1>3 DEF Created, Takes, Goes
  <2>2. c \in PC /\ c \notin Woken /\ wpc[w] \notin Woken
    BY Zenon, <1>3 DEF Created, PC, Woken
  <2>3. At(wpc', Woken) = At(wpc, Woken)
    BY <1>t, <2>1, <2>2, AtSame, ZenonT(60)
  <2>4. objects_' = objects_
    BY Zenon, <1>3 DEF Created
  <2> QED BY SMTT(20), <1>0, <1>t, <2>1, <2>3, <2>4, GapKeep
<1>4. ASSUME NEW w \in Worker, BorrowTimeout(w) PROVE NothingSinceMiss' /\ OnlyTheGapIsMissed'
  <2>1. objects_' = objects_ /\ wpc[w] \notin Woken
    BY Zenon, <1>4 DEF BorrowTimeout, Woken
  <2>2. CASE Goes(w, "out")
    <3>1. "out" \in PC /\ "out" \notin Woken /\ wpc' = [wpc EXCEPT ![w] = "out"] /\ late' = late \ {w}
      BY Zenon, <2>2 DEF PC, Woken, Goes
    <3>2. At(wpc', Woken) = At(wpc, Woken)
      BY <1>t, <2>1, <3>1, AtSame, ZenonT(60)
    <3> QED BY <1>0, <1>t, <2>1, <3>1, <3>2, GapKeep, SMTT(60)
  <2>3. CASE Goes(w, "woken")
    <3>1. "woken" \in PC /\ "woken" \in Woken /\ wpc' = [wpc EXCEPT ![w] = "woken"] /\ late' = late \ {w}
      BY Zenon, <2>3 DEF PC, Woken, Goes
    <3>2. Cardinality(At(wpc', Woken)) = W + 1
      BY <1>t, <2>1, <3>1, AtMore, ZenonT(30)
    <3> QED BY <1>0, <1>t, <2>1, <3>1, <3>2, GapKeep, SMTT(60)
  <2> QED BY Zenon, <1>4, <2>2, <2>3 DEF BorrowTimeout
<1>5. ASSUME NEW w \in Worker, BorrowWoken(w) PROVE NothingSinceMiss' /\ OnlyTheGapIsMissed'
  <2>1. CASE objects_ = {}
    BY Zenon, <1>5, <2>1, GapEmpty DEF BorrowWoken
  <2>2. CASE objects_ # {}
    <3>1. PICK o \in objects_ : Takes(w, o, "has") /\ objects_' = objects_ \ {o}
      BY Zenon, <1>5, <2>2 DEF BorrowWoken
    <3>2. /\ "has" \in PC /\ "has" \notin Woken /\ wpc[w] \in Woken
          /\ wpc' = [wpc EXCEPT ![w] = "has"] /\ late' = late \ {w}
      BY Zenon, <1>5, <3>1 DEF BorrowWoken, PC, Woken, Takes, Goes
    <3>3. Cardinality(At(wpc', Woken)) = W - 1
      BY <1>t, <3>2, AtFewer, Zenon
    <3>4. Cardinality(objects_') = O - 1
      BY Zenon, <1>t, <3>1, OneLess
    <3>5. NothingSinceMiss'
      BY Zenon, <1>t, <2>2, <3>2 DEF GapInv, NothingSinceMiss
    <3>6. ASSUME NEW v \in Worker \ late', wpc'[v] = "wait"
          PROVE  Cardinality(objects_') <= Cardinality(At(wpc', Woken))
      <4>1. O <= W
        BY Zenon, <1>t, <3>2, <3>6, GapAt DEF GapInv
      <4> QED BY SMTT(20), <1>0, <3>3, <3>4, <4>1
    <3>7. {v \in Worker : wpc'[v] = "woken"} = At(wpc', Woken)
      BY Zenon DEF At, Woken
    <3> QED BY Zenon, <3>5, <3>6, <3>7 DEF OnlyTheGapIsMissed
  <2> QED BY Zenon, <2>1, <2>2
<1>6. ASSUME NEW w \in Worker, Return(w) PROVE NothingSinceMiss' /\ OnlyTheGapIsMissed'
  <2> DEFINE pcs == [wpc EXCEPT ![w] = "out"]
  <2>1. pcs \in [Worker -> PC] /\ NotifyOne(pcs)
    BY Zenon, <1>t, <1>6 DEF Return, PC
  <2>2. \A v \in Worker : pcs[v] = wpc[v] \/ (pcs[v] = "out" /\ wpc[v] = "has")
    BY Zenon, <1>t, <1>6 DEF Return
  <2>3. held[w] \notin objects_
    BY Zenon, <1>0, <1>6 DEF Return, LendInv, OpTypeOK, HeldAtHas, OneBorrower
  <2>4. Cardinality(objects_') = O + 1
    BY Zenon, <1>t, <1>6, <2>3, OneMore DEF Return
  <2> HIDE DEF pcs
  <2> QED BY ZenonT(30), <1>0, <2>1, <2>2, <2>4, GapNotify
<1>7. ASSUME NEW o \in Unused, AddObject(o) PROVE NothingSinceMiss' /\ OnlyTheGapIsMissed'
  <2>1. Cardinality(objects_') = O + 1
    BY Zenon, <1>t, <1>7, OneMore DEF AddObject, Unused
  <2>2. NotifyOne(wpc)
    BY Zenon, <1>7 DEF AddObject
  <2> QED BY ZenonT(30), <1>0, <1>t, <2>1, <2>2, GapNotify
<1>8. ASSUME NEW o \in Object, RemoveObject(o) PROVE NothingSinceMiss' /\ OnlyTheGapIsMissed'
  <2>1. Cardinality(objects_') <= O /\ UNCHANGED << wpc, late >> /\ objects_ # {}
    BY SMTT(20), <1>0, <1>t, <1>8, OneLess DEF RemoveObject
  <2> QED BY SMTT(20), <1>0, <2>1, GapKeep
<1>9. CASE ClearIdle
  BY Zenon, <1>9, GapEmpty DEF ClearIdle
<1>10. CASE UNCHANGED opvars
  BY SMTT(20), <1>0, <1>10, GapKeep DEF opvars
<1> QED BY ZenonT(30), <1>1, <1>2, <1>3, <1>4, <1>5, <1>6, <1>7, <1>8, <1>9, <1>10 DEF OpNext

\* The gap between Borrow's two critical sections is the only way to sleep next
\* to an idle object: any other waiting thread has a notified one per object.
THEOREM NoOtherMiss == OpSpec => []OnlyTheGapIsMissed
<1>1. GapInv => OnlyTheGapIsMissed
  BY Zenon DEF GapInv
<1> QED BY GapInit, GapNext, <1>1, PTL DEF OpSpec

-----------------------------------------------------------------------------
(***************************************************************************)
(* HttpClientPool for any requests, connections, retries and redirections: *)
(* every request is answered once, and the pool holds idle connections.    *)
(***************************************************************************)

CStates == {"connecting", "connected", "closing", "gone"}

HcType ==
    /\ fresh \in SUBSET Task /\ queued \in SUBSET Task /\ delayed \in SUBSET Task
    /\ answers \in [Task -> Nat]
    /\ cst \in Seq(CStates) /\ task \in Seq(Task \cup {NoTask}) /\ armed \in Seq(BOOLEAN)
    /\ Len(task) = Len(cst) /\ Len(armed) = Len(cst)
    /\ conn_pool \in Seq(Conns)

Waiting == fresh \cup queued \cup delayed

\* A task is in one place until its callback is called, and that happens once.
Places ==
    /\ fresh \cap queued = {} /\ fresh \cap delayed = {} /\ queued \cap delayed = {}
    /\ \A t \in Waiting : answers[t] = 0
    /\ \A c \in Conns : task[c] # NoTask => answers[task[c]] = 0 /\ task[c] \notin Waiting
    /\ \A c, d \in Conns : task[c] # NoTask /\ task[c] = task[d] => c = d
    /\ \A t \in Task : /\ answers[t] \in {0, 1}
                       /\ answers[t] = 0 => t \in Waiting \/ \E c \in Conns : task[c] = t

\* Only a connection with a task has a timer, and one in the pool has neither.
Idle ==
    /\ stray = {}
    /\ \A c \in Conns : (cst[c] = "gone" => task[c] = NoTask) /\ (armed[c] => task[c] # NoTask)
    /\ \A i \in 1 .. Len(conn_pool) : cst[conn_pool[i]] # "gone" /\ task[conn_pool[i]] = NoTask
    /\ \A i, j \in 1 .. Len(conn_pool) : conn_pool[i] = conn_pool[j] => i = j

HcInv == HcType /\ Places /\ Idle

-----------------------------------------------------------------------------

\* ConnPool::remove takes out what it was asked to, and nothing else.
LEMMA Removed ==
    ASSUME NEW S, NEW q \in Seq(S), NEW c, \A i, j \in 1 .. Len(q) : q[i] = q[j] => i = j
    PROVE  LET r == remove(q, c)
           IN  /\ r \in Seq(S)
               /\ \A i \in 1 .. Len(r) : r[i] # c /\ \E j \in 1 .. Len(q) : r[i] = q[j]
               /\ \A i, j \in 1 .. Len(r) : r[i] = r[j] => i = j
<1> DEFINE at == {i \in DOMAIN q : q[i] = c}
           r == remove(q, c)
<1>0. DOMAIN q = 1 .. Len(q) /\ Len(q) \in Nat
  BY SMTT(20)
<1>1. CASE at = {}
  <2>1. r = q
    BY Zenon, <1>1 DEF remove
  <2> QED  BY Zenon, <1>0, <1>1, <2>1
<1>2. CASE at # {}
  <2>1. PICK k \in at : TRUE
    BY Zenon, <1>2
  <2>2. at = {k} /\ k \in 1 .. Len(q) /\ q[k] = c
    BY Zenon, <1>0, <2>1
  <2> DEFINE a == SubSeq(q, 1, k - 1)
             b == SubSeq(q, k + 1, Len(q))
  <2>3. (CHOOSE i \in at : \A j \in at : i <= j) = k
    BY SMTT(20), <2>2
  <2>4. r = a \o b
    BY <1>2, <2>3, Zenon DEF remove
  <2>5. a \in Seq(S) /\ Len(a) = k - 1 /\ \A i \in 1 .. k - 1 : a[i] = q[i]
    BY SMTT(20), <2>2, <1>0, SubSeqProperties
  <2>6. b \in Seq(S) /\ Len(b) = Len(q) - k /\ \A i \in 1 .. Len(q) - k : b[i] = q[k + i]
    BY SMTT(20), <2>2, <1>0, SubSeqProperties
  <2> HIDE DEF a, b, r, at
  <2>7. r \in Seq(S) /\ Len(r) = Len(q) - 1
    BY SMTT(20), <2>2, <2>4, <2>5, <2>6, ConcatProperties
  <2>8. \A i \in 1 .. Len(r) : r[i] = (IF i < k THEN q[i] ELSE q[i + 1])
    BY SMTT(20), <2>2, <2>4, <2>5, <2>6, <2>7, <1>0, ConcatProperties
  <2>9. \A i \in 1 .. Len(r) : r[i] # c /\ \E j \in 1 .. Len(q) : r[i] = q[j]
    BY SMTT(20), <2>2, <2>7, <2>8, <1>0
  <2>10. \A i, j \in 1 .. Len(r) : r[i] = r[j] => i = j
    BY SMTT(20), <2>2, <2>7, <2>8, <1>0
  <2> QED  BY Zenon, <2>7, <2>9, <2>10 DEF r
<1> QED  BY <1>1, <1>2, Zenon

-----------------------------------------------------------------------------
(* One connection changes. *)

\* Nothing but connection c changes, and no connection is added.
Only(c) ==
    /\ cst' \in Seq(CStates) /\ task' \in Seq(Task \cup {NoTask}) /\ armed' \in Seq(BOOLEAN)
    /\ Len(cst') = Len(cst) /\ Len(task') = Len(cst) /\ Len(armed') = Len(cst)
    /\ \A d \in Conns : d # c => cst'[d] = cst[d] /\ task'[d] = task[d] /\ armed'[d] = armed[d]

\* The task of c leaves it: to the loop's queue, to a retry timer or answered.
Leaves(c) ==
    /\ task'[c] = NoTask /\ fresh' = fresh
    /\ \/ task[c] = NoTask /\ UNCHANGED << queued, delayed, answers >>
       \/ task[c] # NoTask /\ queued' = queued \cup {task[c]} /\ UNCHANGED << delayed, answers >>
       \/ task[c] # NoTask /\ delayed' = delayed \cup {task[c]} /\ UNCHANGED << queued, answers >>
       \/ /\ task[c] # NoTask /\ answers' = [answers EXCEPT ![task[c]] = @ + 1]
          /\ UNCHANGED << queued, delayed >>

\* ... or stays.
Stays(c) == task'[c] = task[c] /\ UNCHANGED << fresh, queued, delayed, answers >>

\* A step of one connection that hands its task on, or keeps it, loses no task
\* and answers none twice.
LEMMA HandedOver ==
    ASSUME HcInv, NEW c \in Conns, Only(c), Leaves(c) \/ Stays(c)
    PROVE  /\ Places' /\ answers' \in [Task -> Nat] /\ fresh' \in SUBSET Task
           /\ queued' \in SUBSET Task /\ delayed' \in SUBSET Task
<1>0. HcType /\ Places
  BY Zenon DEF HcInv
<1>1. Conns' = Conns /\ \A d \in Conns : task[d] \in Task \cup {NoTask}
  BY SMTT(20), <1>0 DEF Only, Conns, HcType
<1>2. \A d \in Conns : d # c => task'[d] = task[d]
  BY Zenon DEF Only
<1>3. CASE Stays(c)
  <2>1. \A d \in Conns : task'[d] = task[d]
    BY Zenon, <1>2, <1>3 DEF Stays
  <2>2. UNCHANGED << fresh, queued, delayed, answers >>
    BY ZenonT(30), <1>3 DEF Stays
  <2> QED  BY SMTT(20), <1>0, <1>1, <2>1, <2>2 DEF Places, Waiting, HcType
<1>4. CASE Leaves(c) /\ task[c] = NoTask
  <2>1. \A d \in Conns : task'[d] = task[d]
    BY Zenon, <1>2, <1>4 DEF Leaves
  <2>2. UNCHANGED << fresh, queued, delayed, answers >>
    BY Zenon, <1>4 DEF Leaves
  <2> QED  BY SMTT(20), <1>0, <1>1, <2>1, <2>2 DEF Places, Waiting, HcType
<1>5. CASE Leaves(c) /\ task[c] # NoTask
  <2> DEFINE t == task[c]
  <2>1. t \in Task /\ t \notin Waiting /\ answers[t] = 0 /\ t # NoTask
    BY Zenon, <1>0, <1>1, <1>5 DEF Places
  <2>2. task'[c] = NoTask /\ \A d \in Conns : d # c => task[d] # t
    BY Zenon, <1>0, <1>5 DEF Places, Leaves
  <2>3. \A d \in Conns : task'[d] # NoTask => d # c /\ task'[d] = task[d]
    BY Zenon, <1>2, <2>2
  <2>4. \/ Waiting' = Waiting \cup {t} /\ answers' = answers
        \/ Waiting' = Waiting /\ answers' = [answers EXCEPT ![t] = @ + 1]
    BY ZenonT(30), <1>5 DEF Leaves, Waiting
  <2>5. /\ fresh' \cap queued' = {} /\ fresh' \cap delayed' = {} /\ queued' \cap delayed' = {}
        /\ fresh' \in SUBSET Task /\ queued' \in SUBSET Task /\ delayed' \in SUBSET Task
    BY SMTT(20), <1>0, <1>5, <2>1 DEF Leaves, Waiting, Places, HcType
  <2>6. answers' \in [Task -> Nat] /\ \A u \in Task : u # t => answers'[u] = answers[u]
    BY SMTT(20), <1>0, <2>1, <2>4 DEF HcType
  <2>7. \/ Waiting' = Waiting \cup {t} /\ answers'[t] = 0
        \/ Waiting' = Waiting /\ answers'[t] = 1
    BY SMTT(20), <1>0, <2>1, <2>4 DEF HcType
  <2>8. Waiting \subseteq Task
    BY Zenon, <1>0 DEF HcType, Waiting
  <2> HIDE DEF t
  <2>9. \A u \in Waiting' : answers'[u] = 0
    BY SMTT(20), <1>0, <2>1, <2>6, <2>7, <2>8 DEF Places
  <2>10. \A d \in Conns : task'[d] # NoTask => answers'[task'[d]] = 0 /\ task'[d] \notin Waiting'
    BY SMTT(20), <1>0, <1>1, <2>2, <2>3, <2>6, <2>7 DEF Places
  <2>11. \A d, e \in Conns : task'[d] # NoTask /\ task'[d] = task'[e] => d = e
    BY SMTT(20), <1>0, <2>3 DEF Places
  <2>12. ASSUME NEW u \in Task
         PROVE  /\ answers'[u] \in {0, 1}
                /\ answers'[u] = 0 => u \in Waiting' \/ \E d \in Conns : task'[d] = u
    <3>1. CASE u = t
      BY SMTT(20), <2>7, <3>1
    <3>2. CASE u # t
      <4>1. answers'[u] = answers[u] /\ answers[u] \in {0, 1}
            /\ (answers[u] = 0 => u \in Waiting \/ \E d \in Conns : task[d] = u)
        BY Zenon, <1>0, <2>6, <3>2 DEF Places
      <4>2. ASSUME NEW d \in Conns, task[d] = u
            PROVE  task'[d] = u
        BY Zenon, <1>2, <3>2, <4>2 DEF t
      <4> QED  BY Zenon, <2>7, <4>1, <4>2
    <3> QED  BY Zenon, <3>1, <3>2
  <2> QED  BY <1>1, <2>5, <2>6, <2>9, <2>10, <2>11, <2>12, ZenonT(30) DEF Places
<1> QED  BY Zenon, <1>3, <1>4, <1>5

\* What happens to the pool when connection c changes.
LEMMA PoolKept ==
    ASSUME HcInv, NEW c \in Conns, Only(c), stray' = stray,
           cst'[c] = "gone" => task'[c] = NoTask, armed'[c] => task'[c] # NoTask,
           \/ conn_pool' = remove(conn_pool, c)
           \/ conn_pool' = conn_pool /\ cst'[c] # "gone" /\ (task[c] # NoTask \/ task'[c] = NoTask)
           \/ conn_pool' = Append(conn_pool, c) /\ task[c] # NoTask /\ task'[c] = NoTask /\ cst'[c] # "gone"
    PROVE  Idle' /\ conn_pool' \in Seq(Conns')
<1>0. HcType /\ Idle
  BY Zenon DEF HcInv
<1>1. Conns' = Conns /\ \A d \in Conns : d # c => cst'[d] = cst[d] /\ task'[d] = task[d] /\ armed'[d] = armed[d]
  BY Zenon DEF Only, Conns
<1>2. \A d \in Conns : (cst'[d] = "gone" => task'[d] = NoTask) /\ (armed'[d] => task'[d] # NoTask)
  BY SMTT(20), <1>0, <1>1 DEF Idle
<1>3. /\ conn_pool \in Seq(Conns) /\ \A i \in 1 .. Len(conn_pool) : conn_pool[i] \in Conns
      /\ \A i, j \in 1 .. Len(conn_pool) : conn_pool[i] = conn_pool[j] => i = j
      /\ \A i \in 1 .. Len(conn_pool) : cst[conn_pool[i]] # "gone" /\ task[conn_pool[i]] = NoTask
  BY SMTT(20), <1>0 DEF HcType, Idle
<1>4. SUFFICES /\ conn_pool' \in Seq(Conns)
               /\ \A i, j \in 1 .. Len(conn_pool') : conn_pool'[i] = conn_pool'[j] => i = j
               /\ \A i \in 1 .. Len(conn_pool') : cst'[conn_pool'[i]] # "gone" /\ task'[conn_pool'[i]] = NoTask
  BY ZenonT(30), <1>0, <1>1, <1>2 DEF Idle
<1>5. CASE conn_pool' = remove(conn_pool, c)
  <2>1. /\ conn_pool' \in Seq(Conns)
        /\ \A i \in 1 .. Len(conn_pool') : conn_pool'[i] # c /\ \E j \in 1 .. Len(conn_pool) : conn_pool'[i] = conn_pool[j]
        /\ \A i, j \in 1 .. Len(conn_pool') : conn_pool'[i] = conn_pool'[j] => i = j
    BY SMTT(20), <1>3, <1>5, Removed
  <2> QED  BY SMTT(20), <1>1, <1>3, <2>1
<1>6. CASE conn_pool' = conn_pool /\ cst'[c] # "gone" /\ (task[c] # NoTask \/ task'[c] = NoTask)
  BY <1>1, <1>3, <1>6, ZenonT(30)
<1>7. CASE conn_pool' = Append(conn_pool, c) /\ task[c] # NoTask /\ task'[c] = NoTask /\ cst'[c] # "gone"
  <2>1. /\ conn_pool' \in Seq(Conns) /\ Len(conn_pool') = Len(conn_pool) + 1 /\ Len(conn_pool) \in Nat
        /\ \A i \in 1 .. Len(conn_pool') : \/ i \in 1 .. Len(conn_pool) /\ conn_pool'[i] = conn_pool[i]
                                           \/ i = Len(conn_pool) + 1 /\ conn_pool'[i] = c
    BY SMTT(20), <1>3, <1>7
  <2>2. \A i \in 1 .. Len(conn_pool) : conn_pool[i] # c
    BY Zenon, <1>3, <1>7
  <2>3. \A i, j \in 1 .. Len(conn_pool') : conn_pool'[i] = conn_pool'[j] => i = j
    BY Zenon, <1>3, <2>1, <2>2
  <2> QED  BY SMTT(20), <1>1, <1>3, <1>7, <2>1, <2>3
<1> QED  BY Zenon, <1>5, <1>6, <1>7

\* Writing a sequence in one place, or not.
LEMMA PutOne ==
    ASSUME NEW S, NEW q \in Seq(S), NEW i \in 1 .. Len(q), NEW v \in S, NEW r,
           r = [q EXCEPT ![i] = v] \/ (r = q /\ q[i] = v)
    PROVE  r \in Seq(S) /\ Len(r) = Len(q) /\ r[i] = v /\ \A j \in 1 .. Len(q) : j # i => r[j] = q[j]
<1>1. CASE r = [q EXCEPT ![i] = v]
  <2>1. r \in Seq(S) /\ Len(r) = Len(q)
    BY SMTT(20), <1>1, ExceptSeq
  <2> QED  BY SMTT(20), <1>1, <2>1
<1> QED  BY Zenon, <1>1

\* Adding to a sequence.
LEMMA Appended ==
    ASSUME NEW S, NEW q \in Seq(S), NEW v \in S
    PROVE  /\ Append(q, v) \in Seq(S) /\ Len(Append(q, v)) = Len(q) + 1
           /\ Append(q, v)[Len(q) + 1] = v
           /\ \A j \in 1 .. Len(q) : Append(q, v)[j] = q[j]
BY SMTT(20)

\* An action that updates one connection leaves the others as they were.
LEMMA OneChanges ==
    ASSUME HcInv, NEW c \in Conns, NEW s \in CStates, NEW u \in Task \cup {NoTask}, NEW b \in BOOLEAN,
           cst' = [cst EXCEPT ![c] = s] \/ (cst' = cst /\ cst[c] = s),
           task' = [task EXCEPT ![c] = u] \/ (task' = task /\ task[c] = u),
           armed' = [armed EXCEPT ![c] = b] \/ (armed' = armed /\ armed[c] = b)
    PROVE  Only(c) /\ cst'[c] = s /\ task'[c] = u /\ armed'[c] = b
<1>0. /\ cst \in Seq(CStates) /\ task \in Seq(Task \cup {NoTask}) /\ armed \in Seq(BOOLEAN)
      /\ Len(task) = Len(cst) /\ Len(armed) = Len(cst) /\ c \in 1 .. Len(cst)
  BY Zenon DEF HcInv, HcType, Conns
<1>1. cst' \in Seq(CStates) /\ Len(cst') = Len(cst) /\ cst'[c] = s /\ \A j \in 1 .. Len(cst) : j # c => cst'[j] = cst[j]
  <2>1. CASE cst' = cst /\ cst[c] = s
    BY Zenon, <1>0, <2>1
  <2>2. CASE cst' = [cst EXCEPT ![c] = s]
    BY SMTT(20), <1>0, <2>2, PutOne
  <2> QED  BY Zenon, <2>1, <2>2
<1>2. task' \in Seq(Task \cup {NoTask}) /\ Len(task') = Len(cst) /\ task'[c] = u
      /\ \A j \in 1 .. Len(cst) : j # c => task'[j] = task[j]
  <2>1. CASE task' = task /\ task[c] = u
    BY Zenon, <1>0, <2>1
  <2>2. CASE task' = [task EXCEPT ![c] = u]
    BY SMTT(20), <1>0, <2>2, PutOne
  <2> QED  BY Zenon, <2>1, <2>2
<1>3. armed' \in Seq(BOOLEAN) /\ Len(armed') = Len(cst) /\ armed'[c] = b
      /\ \A j \in 1 .. Len(cst) : j # c => armed'[j] = armed[j]
  BY SMTT(20), <1>0, PutOne
<1> QED  BY Zenon, <1>1, <1>2, <1>3 DEF Only, Conns

\* Put together.
LEMMA ChangeInv ==
    ASSUME HcInv, NEW c \in Conns, NEW s \in CStates, NEW u \in Task \cup {NoTask}, NEW b \in BOOLEAN,
           cst' = [cst EXCEPT ![c] = s] \/ (cst' = cst /\ cst[c] = s),
           task' = [task EXCEPT ![c] = u] \/ (task' = task /\ task[c] = u),
           armed' = [armed EXCEPT ![c] = b] \/ (armed' = armed /\ armed[c] = b),
           Leaves(c) \/ Stays(c), stray' = stray, s = "gone" => u = NoTask, b => u # NoTask,
           \/ conn_pool' = remove(conn_pool, c)
           \/ conn_pool' = conn_pool /\ s # "gone" /\ (task[c] # NoTask \/ u = NoTask)
           \/ conn_pool' = Append(conn_pool, c) /\ task[c] # NoTask /\ u = NoTask /\ s # "gone"
    PROVE  HcInv'
<1>1. Only(c) /\ cst'[c] = s /\ task'[c] = u /\ armed'[c] = b
  BY OneChanges, ZenonT(30)
<1>2. /\ Places' /\ answers' \in [Task -> Nat] /\ fresh' \in SUBSET Task
      /\ queued' \in SUBSET Task /\ delayed' \in SUBSET Task
  BY <1>1, HandedOver, Zenon
<1>3. Idle' /\ conn_pool' \in Seq(Conns')
  BY <1>1, PoolKept, Zenon
<1>4. HcType'
  BY <1>1, <1>2, <1>3, Zenon DEF HcType, Only
<1> QED  BY Zenon, <1>2, <1>3, <1>4 DEF HcInv

\* onclose, of a connection whose task is still attached or was just answered.
LEMMA OnCloseInv ==
    ASSUME HcInv, NEW c \in Conns, NEW t, NEW ans, OnClose(c, t, ans),
           \/ t = task[c] /\ ans = answers
           \/ t = NoTask /\ task[c] # NoTask /\ ans = Answer(answers, task[c])
    PROVE  HcInv'
<1>1. /\ cst' = [cst EXCEPT ![c] = "gone"] /\ task' = [task EXCEPT ![c] = NoTask]
      /\ armed' = [armed EXCEPT ![c] = FALSE] /\ conn_pool' = remove(conn_pool, c)
      /\ fresh' = fresh /\ stray' = stray
      /\ \/ queued' = queued \cup {t} /\ UNCHANGED delayed /\ answers' = ans /\ t # NoTask
         \/ delayed' = delayed \cup {t} /\ UNCHANGED queued /\ answers' = ans /\ t # NoTask
         \/ answers' = Answer(ans, t) /\ UNCHANGED << queued, delayed >>
  BY Zenon DEF OnClose
<1>2. task'[c] = NoTask
  BY <1>1, OneChanges, Zenon DEF CStates
<1>3. Leaves(c)
  <2>1. CASE t = task[c] /\ ans = answers
    BY ZenonT(30), <1>1, <1>2, <2>1 DEF Leaves, Answer
  <2>2. CASE t = NoTask /\ task[c] # NoTask /\ ans = Answer(answers, task[c])
    BY ZenonT(30), <1>1, <1>2, <2>2 DEF Leaves, Answer
  <2> QED  BY Zenon, <2>1, <2>2
<1> QED  BY <1>1, <1>3, ChangeInv, ZenonT(30) DEF CStates

\* Channel::close with output left to write: the connection is closing.
LEMMA CloseInv ==
    ASSUME HcInv, NEW c \in Conns, NEW t, NEW ans, Close(c, t, ans), task[c] # NoTask,
           \/ t = task[c] /\ ans = answers
           \/ t = NoTask /\ ans = Answer(answers, task[c])
    PROVE  HcInv'
<1>1. CASE OnClose(c, t, ans)
  BY Zenon, <1>1, OnCloseInv
<1>2. CASE /\ cst' = [cst EXCEPT ![c] = "closing"] /\ task' = [task EXCEPT ![c] = t] /\ answers' = ans
           /\ UNCHANGED << taskvars, stray, conn_pool >>
           /\ armed' = [armed EXCEPT ![c] = @ /\ t # NoTask]
  <2>1. t \in Task \cup {NoTask} /\ task[c] \in Task /\ (armed[c] /\ t # NoTask) \in BOOLEAN
    BY SMTT(20) DEF HcInv, HcType, Conns
  <2>2. UNCHANGED << fresh, queued, delayed, stray, conn_pool >>
    BY Zenon, <1>2 DEF taskvars
  <2>3. armed' = [armed EXCEPT ![c] = (armed[c] /\ t # NoTask)]
    BY Zenon, <1>2
  <2>4. task'[c] = t
    BY <1>2, <2>1, <2>3, OneChanges, ZenonT(30) DEF CStates
  <2>5. Leaves(c) \/ Stays(c)
    BY ZenonT(30), <1>2, <2>2, <2>4 DEF Leaves, Stays, Answer
  <2> QED  BY <1>2, <2>1, <2>2, <2>3, <2>5, ChangeInv, ZenonT(30) DEF CStates
<1> QED  BY Zenon, <1>1, <1>2 DEF Close

\* Events of a connection.
LEMMA ConnEvents ==
    ASSUME HcInv, NEW c \in Conns, Connected(c) \/ Broken(c) \/ Timeout(c)
    PROVE  HcInv'
<1>0. task[c] \in Task \cup {NoTask} /\ cst[c] \in CStates /\ armed[c] \in BOOLEAN
      /\ (armed[c] => task[c] # NoTask) /\ (cst[c] = "gone" => task[c] = NoTask)
  BY SMTT(20) DEF HcInv, HcType, Conns, Idle
<1>1. CASE OnClose(c, task[c], answers)
  BY Zenon, <1>1, OnCloseInv
<1>2. CASE /\ cst[c] = "connecting" /\ cst' = [cst EXCEPT ![c] = "connected"]
           /\ UNCHANGED << taskvars, answers, task, armed, stray, conn_pool >>
  <2>1. UNCHANGED << fresh, queued, delayed, answers, task, armed, stray, conn_pool >>
    BY Zenon, <1>2 DEF taskvars
  <2>2. Stays(c)
    BY Zenon, <2>1 DEF Stays
  <2>3. "connected" \in CStates
    BY Zenon DEF CStates
  <2> QED  BY <1>0, <1>2, <2>1, <2>2, <2>3, ChangeInv, ZenonT(30)
<1>3. CASE /\ armed[c] /\ cst' = [cst EXCEPT ![c] = "closing"] /\ armed' = [armed EXCEPT ![c] = FALSE]
           /\ UNCHANGED << taskvars, answers, task, stray, conn_pool >>
  <2>1. UNCHANGED << fresh, queued, delayed, answers, task, stray, conn_pool >>
    BY Zenon, <1>3 DEF taskvars
  <2>2. Stays(c)
    BY Zenon, <2>1 DEF Stays
  <2> QED  BY <1>0, <1>3, <2>1, <2>2, ChangeInv, ZenonT(30) DEF CStates
<1> QED  BY <1>1, <1>2, <1>3, ZenonT(30) DEF Connected, Broken, Timeout

\* A response, where every redirection says where to.
LEMMA ReadInv ==
    ASSUME HcInv, NEW c \in Conns, NEW kind \in Reply, "nowhere" \notin Reply, OnRead(c, kind)
    PROVE  HcInv'
<1>0. task[c] \in Task /\ task[c] # NoTask /\ cst[c] \in {"connected", "closing"}
  BY SMTT(20) DEF HcInv, HcType, Conns, OnRead
<1>1. CASE task[c] \in cancel
  <2>1. Close(c, task[c], answers)
    BY Zenon, <1>1 DEF OnRead
  <2> QED  BY ZenonT(30), <1>0, <2>1, CloseInv
<1>2. CASE Close(c, NoTask, Answer(answers, task[c]))
  BY ZenonT(30), <1>0, <1>2, CloseInv
<1>3. CASE /\ task' = [task EXCEPT ![c] = NoTask] /\ armed' = [armed EXCEPT ![c] = FALSE]
           /\ stray' = stray /\ fresh' = fresh
           /\ \/ answers' = Answer(answers, task[c]) /\ UNCHANGED << queued, delayed >>
              \/ queued' = queued \cup {task[c]} /\ UNCHANGED << delayed, answers >>
           /\ \/ conn_pool' = Append(conn_pool, c) /\ cst' = cst
              \/ /\ conn_pool' = remove(conn_pool, c)
                 /\ cst' \in {[cst EXCEPT ![c] = s] : s \in {"closing", "gone"}}
  <2>1. PICK s \in CStates : /\ cst' = [cst EXCEPT ![c] = s] \/ (cst' = cst /\ cst[c] = s)
                             /\ \/ conn_pool' = Append(conn_pool, c) /\ s # "gone"
                                \/ conn_pool' = remove(conn_pool, c)
    BY Zenon, <1>0, <1>3 DEF CStates
  <2>2. task'[c] = NoTask
    BY <1>3, <2>1, OneChanges, ZenonT(30)
  <2>3. Leaves(c)
    BY ZenonT(30), <1>0, <1>3, <2>2 DEF Leaves, Answer
  <2> QED  BY <1>0, <1>3, <2>1, <2>3, ChangeInv, ZenonT(30)
<1>4. CASE task[c] \notin cancel
  <2>1. kind # "nowhere"
    BY Zenon
  <2> QED  BY ZenonT(30), <1>2, <1>3, <1>4, <2>1 DEF OnRead, taskvars
<1> QED  BY ZenonT(30), <1>1, <1>4

-----------------------------------------------------------------------------
(* Tasks on their way. *)

\* A task goes from one queue to another, or its callback is called.
LEMMA TaskMoves ==
    ASSUME HcInv, NEW t \in Task, Send(t) \/ RetryTimer(t) \/ TaskFails(t) \/ Cancel(t)
    PROVE  HcInv'
<1>0. HcType /\ Places /\ Idle /\ t # NoTask
  BY Zenon, PoolAssumption DEF HcInv, PoolAssumption
<1>1. UNCHANGED << cst, task, armed, stray, conn_pool >> /\ Conns' = Conns
  BY Zenon DEF Send, RetryTimer, TaskFails, Cancel, Conns
<1>2. Idle'
  BY Zenon, <1>0, <1>1 DEF Idle
<1>3. CASE Send(t) \/ RetryTimer(t) \/ Cancel(t)
  <2>1. /\ answers' = answers /\ Waiting' = Waiting
        /\ fresh' \cap queued' = {} /\ fresh' \cap delayed' = {} /\ queued' \cap delayed' = {}
        /\ fresh' \in SUBSET Task /\ queued' \in SUBSET Task /\ delayed' \in SUBSET Task
    BY SMTT(20), <1>0, <1>3 DEF Send, RetryTimer, Cancel, Waiting, Places, HcType
  <2>2. HcType'
    BY Zenon, <1>0, <1>1, <2>1 DEF HcType
  <2>3. Places'
    BY ZenonT(30), <1>0, <1>1, <2>1 DEF Places
  <2> QED  BY ZenonT(30), <1>2, <2>2, <2>3 DEF HcInv
<1>4. CASE TaskFails(t)
  <2>1. /\ t \in queued /\ queued' = queued \ {t} /\ fresh' = fresh /\ delayed' = delayed
        /\ answers' = [answers EXCEPT ![t] = @ + 1]
    BY ZenonT(30), <1>0, <1>4 DEF TaskFails, Answer
  <2>2. answers[t] = 0 /\ t \in Waiting /\ Waiting' = Waiting \ {t} /\ Waiting \subseteq Task
    BY SMTT(20), <1>0, <2>1 DEF Places, Waiting, HcType
  <2>3. answers' \in [Task -> Nat] /\ answers'[t] = 1 /\ \A u \in Task : u # t => answers'[u] = answers[u]
    BY SMTT(20), <1>0, <2>1, <2>2 DEF HcType
  <2>4. HcType'
    BY ZenonT(30), <1>0, <1>1, <2>1, <2>3 DEF HcType
  <2>5. \A c \in Conns : task[c] # t /\ task[c] \in Task \cup {NoTask}
    BY SMTT(20), <1>0, <2>2 DEF Places, HcType, Conns
  <2>6. Places'
    BY SMTT(20), <1>0, <1>1, <2>1, <2>2, <2>3, <2>5 DEF Places
  <2> QED  BY Zenon, <1>2, <2>4, <2>6 DEF HcInv
<1> QED  BY Zenon, <1>3, <1>4

\* A connection takes a task from the queue.
LEMMA TaskTaken ==
    ASSUME HcInv, NEW t \in Task, t \in queued, queued' = queued \ {t},
           UNCHANGED << fresh, delayed, answers >>, Conns \subseteq Conns',
           NEW c \in Conns', c \in Conns => task[c] = NoTask, task'[c] = t,
           \A d \in Conns' : d # c => d \in Conns /\ task'[d] = task[d]
    PROVE  Places'
<1>0. HcType /\ Places /\ t # NoTask
  BY ZenonT(30), PoolAssumption DEF HcInv, PoolAssumption
<1>1. answers[t] = 0 /\ t \in Waiting /\ Waiting' = Waiting \ {t}
  BY SMTT(20), <1>0 DEF Places, Waiting
<1>2. \A d \in Conns : task[d] # t
  BY ZenonT(30), <1>0, <1>1 DEF Places
<1>3. \A d \in Conns' : task'[d] # NoTask => answers[task'[d]] = 0 /\ task'[d] \notin Waiting'
  BY SMTT(20), <1>0, <1>1 DEF Places
<1>4. \A d, e \in Conns' : task'[d] # NoTask /\ task'[d] = task'[e] => d = e
  BY SMTT(20), <1>0, <1>2 DEF Places
<1>5. ASSUME NEW u \in Task, answers[u] = 0
      PROVE  u \in Waiting' \/ \E d \in Conns' : task'[d] = u
  <2>1. CASE u = t
    BY Zenon, <2>1
  <2>2. CASE u # t
    <3>1. u \in Waiting \/ \E d \in Conns : task[d] = u
      BY Zenon, <1>0, <1>5 DEF Places
    <3>2. ASSUME NEW d \in Conns, task[d] = u
          PROVE  d \in Conns' /\ task'[d] = u
      <4>1. u # NoTask
        BY Zenon, PoolAssumption DEF PoolAssumption
      <4> QED  BY <3>2, <4>1, ZenonT(30)
    <3> QED  BY ZenonT(30), <1>1, <2>2, <3>1, <3>2
  <2> QED  BY ZenonT(30), <2>1, <2>2
<1> QED  BY <1>0, <1>1, <1>3, <1>4, <1>5, ZenonT(30) DEF Places

\* doTask gives a queued task a pooled connection, or one it opens.
LEMMA TaskStarts ==
    ASSUME HcInv, NEW t \in Task, TaskReuses(t) \/ TaskConnects(t)
    PROVE  HcInv'
<1>0. HcType /\ Places /\ Idle /\ t # NoTask
  BY Zenon, PoolAssumption DEF HcInv, PoolAssumption
<1>1. CASE TaskReuses(t)
  <2> DEFINE c == Head(conn_pool)
  <2>1. /\ t \in queued /\ queued' = queued \ {t} /\ UNCHANGED << fresh, delayed, answers, cst >>
        /\ conn_pool # << >> /\ conn_pool' = Tail(conn_pool)
        /\ task' = [task EXCEPT ![c] = t] /\ armed' = [armed EXCEPT ![c] = TRUE]
        /\ stray' = (IF armed[c] THEN stray \cup {c} ELSE stray)
    BY Zenon, <1>1 DEF TaskReuses
  <2>2. /\ conn_pool \in Seq(Conns) /\ Len(conn_pool) \in Nat \ {0} /\ c = conn_pool[1] /\ c \in Conns
        /\ 1 \in 1 .. Len(conn_pool)
    BY SMTT(20), <1>0, <2>1 DEF HcType
  <2>3. task[c] = NoTask /\ ~armed[c] /\ cst[c] # "gone" /\ stray' = stray
    BY ZenonT(30), <1>0, <2>1, <2>2 DEF Idle
  <2> HIDE DEF c
  <2>4. Only(c) /\ cst'[c] = cst[c] /\ task'[c] = t /\ armed'[c] = TRUE
    <3>1. cst[c] \in CStates /\ t \in Task \cup {NoTask} /\ TRUE \in BOOLEAN
      BY SMTT(20), <1>0, <2>2 DEF HcType, Conns
    <3> QED  BY <2>1, <2>2, <3>1, OneChanges, ZenonT(30)
  <2>5. Conns' = Conns /\ \A d \in Conns : d # c => cst'[d] = cst[d] /\ task'[d] = task[d] /\ armed'[d] = armed[d]
    BY ZenonT(30), <2>4 DEF Only, Conns
  <2>6. Places'
    BY SMTT(20), <2>1, <2>2, <2>3, <2>4, <2>5, TaskTaken
  <2>7. /\ conn_pool' \in Seq(Conns)
        /\ \A i \in 1 .. Len(conn_pool') : i + 1 \in 1 .. Len(conn_pool) /\ conn_pool'[i] = conn_pool[i + 1] /\ i \in Nat \ {0}
    BY SMTT(20), <2>1, <2>2
  <2>8. \A i, j \in 1 .. Len(conn_pool) : conn_pool[i] = conn_pool[j] => i = j
    BY <1>0, ZenonT(30) DEF Idle
  <2>9. \A i \in 1 .. Len(conn_pool') : conn_pool'[i] # c /\ conn_pool'[i] \in Conns
    BY SMTT(20), <2>2, <2>7, <2>8
  <2>10. \A i, j \in 1 .. Len(conn_pool') : conn_pool'[i] = conn_pool'[j] => i = j
    <3> SUFFICES ASSUME NEW i \in 1 .. Len(conn_pool'), NEW j \in 1 .. Len(conn_pool'),
                        conn_pool'[i] = conn_pool'[j]
                 PROVE  i = j
      OBVIOUS
    <3>1. i + 1 = j + 1 /\ i \in Nat \ {0} /\ j \in Nat \ {0}
      BY ZenonT(30), <2>7, <2>8
    <3> QED  BY SMTT(20), <3>1
  <2>11. \A i \in 1 .. Len(conn_pool') : cst'[conn_pool'[i]] # "gone" /\ task'[conn_pool'[i]] = NoTask
    BY SMTT(20), <1>0, <2>5, <2>7, <2>9 DEF Idle
  <2>12. \A d \in Conns : (cst'[d] = "gone" => task'[d] = NoTask) /\ (armed'[d] => task'[d] # NoTask)
    BY ZenonT(30), <1>0, <2>3, <2>4, <2>5 DEF Idle
  <2>13. Idle'
    BY <1>0, <2>3, <2>5, <2>10, <2>11, <2>12, ZenonT(30) DEF Idle
  <2>14. HcType'
    BY <1>0, <2>1, <2>4, <2>5, <2>7, ZenonT(30) DEF HcType, Only
  <2> QED  BY ZenonT(30), <2>6, <2>13, <2>14 DEF HcInv
<1>2. CASE TaskConnects(t)
  <2> DEFINE c == Len(cst) + 1
  <2>1. /\ t \in queued /\ queued' = queued \ {t} /\ UNCHANGED << fresh, delayed, answers, stray, conn_pool >>
        /\ conn_pool = << >>
        /\ cst' = Append(cst, "connecting") /\ task' = Append(task, t) /\ armed' = Append(armed, TRUE)
    BY Zenon, <1>2 DEF TaskConnects
  <2>2. /\ cst' \in Seq(CStates) /\ Len(cst') = c /\ cst'[c] = "connecting"
        /\ \A d \in 1 .. Len(cst) : cst'[d] = cst[d]
    BY SMTT(20), <1>0, <2>1 DEF HcType, CStates
  <2>3. /\ task' \in Seq(Task \cup {NoTask}) /\ Len(task') = c /\ task'[c] = t
        /\ \A d \in 1 .. Len(cst) : task'[d] = task[d]
    BY SMTT(20), <1>0, <2>1 DEF HcType
  <2>4. /\ armed' \in Seq(BOOLEAN) /\ Len(armed') = c /\ armed'[c] = TRUE
        /\ \A d \in 1 .. Len(cst) : armed'[d] = armed[d]
    <3>1. armed \in Seq(BOOLEAN) /\ Len(armed) = Len(cst) /\ TRUE \in BOOLEAN
      BY Zenon, <1>0 DEF HcType
    <3>2. /\ armed' \in Seq(BOOLEAN) /\ Len(armed') = Len(armed) + 1 /\ armed'[Len(armed) + 1] = TRUE
          /\ \A d \in 1 .. Len(armed) : armed'[d] = armed[d]
      BY <2>1, <3>1, Appended, ZenonT(30)
    <3> QED  BY Zenon, <3>1, <3>2
  <2>5. /\ Conns' = Conns \cup {c} /\ c \notin Conns /\ c \in Conns'
        /\ \A d \in Conns' : d # c => d \in Conns
        /\ \A d \in Conns : cst'[d] = cst[d] /\ task'[d] = task[d] /\ armed'[d] = armed[d]
    BY SMTT(20), <1>0, <2>2, <2>3, <2>4 DEF Conns, HcType
  <2> HIDE DEF c
  <2>6. Places'
    <3>1. Conns \subseteq Conns' /\ c \in Conns' /\ task'[c] = t
      BY ZenonT(30), <2>3, <2>5
    <3>2. \A d \in Conns' : d # c => d \in Conns /\ task'[d] = task[d]
      BY <2>5, Zenon
    <3> QED  BY <2>1, <2>5, <3>1, <3>2, TaskTaken, ZenonT(30)
  <2>7. \A d \in Conns' : (cst'[d] = "gone" => task'[d] = NoTask) /\ (armed'[d] => task'[d] # NoTask)
    <3> SUFFICES ASSUME NEW d \in Conns'
                 PROVE  (cst'[d] = "gone" => task'[d] = NoTask) /\ (armed'[d] => task'[d] # NoTask)
      BY Zenon
    <3>1. CASE d = c
      BY ZenonT(30), <1>0, <2>2, <2>3, <3>1
    <3>2. CASE d # c
      <4>1. d \in Conns /\ cst'[d] = cst[d] /\ task'[d] = task[d] /\ armed'[d] = armed[d]
        BY ZenonT(30), <2>5, <3>2
      <4> QED  BY Zenon, <1>0, <4>1 DEF Idle
    <3> QED  BY Zenon, <3>1, <3>2
  <2>8. conn_pool' = << >> /\ Len(conn_pool') = 0 /\ conn_pool' \in Seq(Conns')
    BY SMTT(20), <2>1
  <2>9. Idle'
    <3>1. stray' = {}
      BY Zenon, <1>0, <2>1 DEF Idle
    <3>2. 1 .. Len(conn_pool') = {}
      BY SMTT(20), <2>8
    <3> QED  BY ZenonT(30), <2>7, <3>1, <3>2 DEF Idle
  <2>10. HcType'
    BY ZenonT(30), <1>0, <2>1, <2>2, <2>3, <2>4, <2>8 DEF HcType
  <2> QED  BY Zenon, <2>6, <2>9, <2>10 DEF HcInv
<1> QED  BY Zenon, <1>1, <1>2

-----------------------------------------------------------------------------

\* Before any request every task is new and there is no connection.
LEMMA HttpInit == HcInit => HcInv
<1> SUFFICES ASSUME HcInit  PROVE HcInv
  BY Zenon
<1>1. Len(cst) = 0 /\ Conns = {} /\ Len(conn_pool) = 0
  BY SMTT(20) DEF HcInit, Conns
<1>2. HcType
  BY SMTT(20), <1>1 DEF HcInit, HcType
<1>3. Places /\ Idle
  BY SMTT(20), <1>1 DEF HcInit, Places, Waiting, Idle
<1> QED  BY Zenon, <1>2, <1>3 DEF HcInv

\* Every callback of the client keeps the invariant, when a request that cannot
\* be sent is answered.
LEMMA HttpStep ==
    ASSUME "nowhere" \notin Reply, HcInv, [HcNext]_hcvars
    PROVE  HcInv'
<1>1. CASE UNCHANGED hcvars
  <2>1. UNCHANGED << fresh, queued, delayed, answers, cst, task, armed, stray, conn_pool >> /\ Conns' = Conns
    BY Zenon, <1>1 DEF hcvars, Conns
  <2> QED  BY <2>1, ZenonT(30) DEF HcInv, HcType, Places, Waiting, Idle
<1> QED  BY ZenonT(30), <1>1, TaskMoves, TaskStarts, ConnEvents, ReadInv DEF HcNext

(***************************************************************************)
(* Every request given to the asynchronous client is answered exactly      *)
(* once, however its connection breaks, times out or is retried, and the   *)
(* pool holds idle connections only, when every redirection has a          *)
(* Location (AsyncHttpClient.cpp:83-160).                                  *)
(***************************************************************************)
THEOREM EachRequestOnce == ASSUME "nowhere" \notin Reply PROVE HcSpec => []RequestsAnswered
<1>1. ASSUME HcInv  PROVE RequestsAnswered
  <2>0. HcType /\ Places /\ Idle
    BY Zenon, <1>1 DEF HcInv
  <2>1. PoolIsIdle
    <3>1. \A i \in 1 .. Len(conn_pool) : conn_pool[i] \in Conns
      BY SMTT(20), <2>0 DEF HcType
    <3> QED  BY ZenonT(30), <2>0, <3>1 DEF Idle, PoolIsIdle
  <2>2. AnsweredOnce
    <3> SUFFICES ASSUME NEW t \in Task
                 PROVE  LET holders == {c \in Conns : task[c] = t}
                            waits   == {p \in {"fresh", "queued", "delayed"} :
                                          t \in (CASE p = "fresh" -> fresh [] p = "queued" -> queued [] OTHER -> delayed)}
                        IN  \/ answers[t] = 1 /\ holders = {} /\ waits = {}
                            \/ answers[t] = 0 /\ holders = {} /\ \E p \in waits : waits = {p}
                            \/ answers[t] = 0 /\ waits = {} /\ \E c \in holders : holders = {c}
      BY Zenon DEF AnsweredOnce
    <3> DEFINE holders == {c \in Conns : task[c] = t}
               waits   == {p \in {"fresh", "queued", "delayed"} :
                             t \in (CASE p = "fresh" -> fresh [] p = "queued" -> queued [] OTHER -> delayed)}
    <3>0. t # NoTask
      BY Zenon, PoolAssumption DEF PoolAssumption
    <3>1. t \in Waiting => \E p \in waits : waits = {p}
      <4>1. CASE t \in fresh
        <5>1. t \notin queued /\ t \notin delayed
          BY Zenon, <2>0, <4>1 DEF Places
        <5>2. waits = {"fresh"}
          BY Zenon, <4>1, <5>1
        <5> QED  BY Zenon, <5>2
      <4>2. CASE t \in queued
        <5>1. t \notin fresh /\ t \notin delayed
          BY Zenon, <2>0, <4>2 DEF Places
        <5>2. waits = {"queued"}
          BY Zenon, <4>2, <5>1
        <5> QED  BY Zenon, <5>2
      <4>3. CASE t \in delayed
        <5>1. t \notin fresh /\ t \notin queued
          BY Zenon, <2>0, <4>3 DEF Places
        <5>2. waits = {"delayed"}
          BY Zenon, <4>3, <5>1
        <5> QED  BY Zenon, <5>2
      <4> QED  BY ZenonT(30), <4>1, <4>2, <4>3 DEF Waiting
    <3>2. t \notin Waiting => waits = {}
      BY Zenon DEF Waiting
    <3>3. \A c \in holders : answers[t] = 0 /\ t \notin Waiting /\ holders = {c}
      BY SMTT(20), <2>0, <3>0 DEF Places
    <3>4. t \in Waiting => answers[t] = 0
      BY Zenon, <2>0 DEF Places
    <3>5. answers[t] \in {0, 1} /\ (answers[t] = 0 => t \in Waiting \/ holders # {})
      BY Zenon, <2>0 DEF Places
    <3> HIDE DEF holders, waits
    <3>6. \/ answers[t] = 1 /\ holders = {} /\ waits = {}
          \/ answers[t] = 0 /\ holders = {} /\ \E p \in waits : waits = {p}
          \/ answers[t] = 0 /\ waits = {} /\ \E c \in holders : holders = {c}
      BY ZenonT(30), <3>1, <3>2, <3>3, <3>4, <3>5
    <3> QED  BY Zenon, <3>6 DEF holders, waits
  <2> QED  BY Zenon, <2>1, <2>2 DEF RequestsAnswered
<1>2. HcInv /\ [HcNext]_hcvars => HcInv'
  BY Zenon, HttpStep
<1> QED  BY <1>1, <1>2, HttpInit, PTL DEF HcSpec

-----------------------------------------------------------------------------
(***************************************************************************)
(* MqttClient for any publishers, number of sockets and max_retry_cnt: a   *)
(* PUBLISH is not cut, a connect timeout meets its own attempt, and a      *)
(* client that is to reconnect does not stall.                             *)
(***************************************************************************)

SocketStates == {"connecting", "up", "ready", "closed"}

MqType ==
    /\ ios \in Seq(SocketStates) /\ io = Len(ios)
    /\ half \in Seq(Publisher \cup {Nobody}) /\ Len(half) = Len(ios)
    /\ connected \in BOOLEAN /\ reconn \in BOOLEAN
    /\ timer \in Nat /\ ntimer \in Nat /\ retry_cnt \in Nat /\ failed \in Nat
    /\ alarms \subseteq [no : Nat, kind : {"connect", "reconnect"}, io : Nat]
    /\ mutex_ \in Publisher \cup {Nobody}
    /\ ppc \in [Publisher -> {"idle", "lock", "head", "payload"}]

\* No socket but the last is open, and while it is, no reconnection is due.
OneSocket ==
    /\ \A i \in 1 .. io : i < io => ios[i] = "closed"
    /\ connected => io # 0 /\ ios[io] = "ready"
    /\ io = 0 => alarms = {}
    /\ \A a \in alarms : a.kind = "reconnect" => ~Open(io)
    /\ \A a, b \in alarms : a.kind = "reconnect" /\ b.kind = "reconnect" => a = b

\* A connect timer is for the last socket; while that is open cli->timer names
\* the timer, and CONNACK has not been seen.
TimerNamed ==
    \A a \in alarms : a.kind = "connect" =>
        a.io = io /\ (Open(io) => a.no = timer /\ ios[io] # "ready")

\* cli->mutex_ is held by the publisher that writes.
Locked == \A p \in Publisher : ppc[p] \in {"head", "payload"} <=> mutex_ = p

\* A head is written and its payload is not, on an open socket, only while its
\* publisher holds cli->mutex_ and is about to write the payload.
HalfWritten ==
    /\ \A p \in Publisher : ppc[p] # "idle" => io # 0
    /\ \A i \in 1 .. io : ios[i] # "closed" /\ half[i] # Nobody =>
          half[i] = mutex_ /\ ppc[half[i]] = "payload"
    /\ \A p \in Publisher : ppc[p] = "payload" /\ Open(io) => half[io] = p

\* The retries counted are the failures, as far as they were.
RetriesCounted == retry_cnt <= failed

LoginInv == MqType /\ OneSocket /\ RetriesCounted /\ MqttKeepsTrying

-----------------------------------------------------------------------------

\* What is open is cli->io.
LEMMA OpenIsLast ==
    ASSUME MqType, OneSocket, NEW i \in 1 .. Len(ios), ios[i] # "closed"
    PROVE  i = io /\ Open(io) /\ io # 0
BY SMTT(20) DEF MqType, OneSocket, Open

\* Writing a sequence in one place.
LEMMA Put ==
    ASSUME NEW S, NEW q \in Seq(S), NEW i \in 1 .. Len(q), NEW v \in S
    PROVE  LET r == [q EXCEPT ![i] = v]
           IN  /\ r \in Seq(S) /\ Len(r) = Len(q) /\ r[i] = v
               /\ \A j \in 1 .. Len(q) : j # i => r[j] = q[j]
<1> DEFINE r == [q EXCEPT ![i] = v]
<1>1. Len(r) = Len(q) /\ r \in Seq(S)
  BY SMTT(20), ExceptSeq
<1> QED  BY SMTT(20), <1>1

\* Adding to a sequence.
LEMMA Added ==
    ASSUME NEW S, NEW q \in Seq(S), NEW v \in S
    PROVE  LET r == Append(q, v)
           IN  /\ r \in Seq(S) /\ Len(r) = Len(q) + 1 /\ r[Len(r)] = v
               /\ \A j \in 1 .. Len(q) : r[j] = q[j]
BY SMTT(20)

-----------------------------------------------------------------------------
(* Sockets and retries, whatever the timers and publishers do. *)

\* A new socket, of the application or of a reconnect timer.
LEMMA NewSocketLogin ==
    ASSUME LoginInv, NEW others \in SUBSET alarms, NEW old \in Nat,
           NewSocket(others, old), ~Open(io), \A a \in others : a.kind # "reconnect",
           mutex_' = mutex_, ppc' = ppc, connected' = connected, reconn' = reconn, failed' = failed
    PROVE  LoginInv' /\ io' = io + 1 /\ io' # 0 /\ ios'[io'] = "connecting" /\ Open(io)'
<1>0. MqType /\ OneSocket /\ RetriesCounted
  BY Zenon DEF LoginInv
<1>1. /\ ios' = Append(ios, "connecting") /\ half' = Append(half, Nobody) /\ io' = Len(ios')
      /\ retry_cnt' = retry_cnt
      /\ \/ ntimer' = ntimer + 1 /\ timer' = ntimer' /\ alarms' = others \cup {Alarm("connect", io')}
         \/ ntimer' = ntimer /\ timer' = old /\ alarms' = others
  BY Zenon DEF NewSocket
<1>2. ios' \in Seq(SocketStates) /\ Len(ios') = Len(ios) + 1 /\ ios'[Len(ios')] = "connecting"
      /\ \A j \in 1 .. Len(ios) : ios'[j] = ios[j]
  BY SMTT(20), <1>0, <1>1, Added DEF MqType, SocketStates
<1>3. half' \in Seq(Publisher \cup {Nobody}) /\ Len(half') = Len(half) + 1
  BY SMTT(20), <1>0, <1>1, Added DEF MqType
<1>4. io' = io + 1 /\ io' # 0 /\ io \in Nat
  BY SMTT(20), <1>0, <1>1, <1>2 DEF MqType
<1>5. Open(io)'
  BY Zenon, <1>1, <1>2, <1>4 DEF Open
<1>6. /\ alarms' \subseteq [no : Nat, kind : {"connect", "reconnect"}, io : Nat]
      /\ \A a \in alarms' : a.kind # "reconnect"
      /\ timer' \in Nat /\ ntimer' \in Nat
  <2>1. Alarm("connect", io') \in [no : Nat, kind : {"connect", "reconnect"}, io : Nat]
        /\ Alarm("connect", io').kind = "connect"
    BY SMTT(20), <1>0, <1>4 DEF Alarm, MqType
  <2> QED  BY SMTT(20), <1>0, <1>1, <2>1 DEF MqType
<1>7. MqType'
  BY Zenon, <1>0, <1>1, <1>2, <1>3, <1>6 DEF MqType
<1>8. ~connected
  BY Zenon, <1>0 DEF OneSocket, Open, MqType
<1>9. \A j \in 1 .. io' : j < io' => ios'[j] = "closed"
  <2> SUFFICES ASSUME NEW j \in 1 .. io', j < io'  PROVE ios'[j] = "closed"
    BY Zenon
  <2>1. j \in 1 .. io /\ ios'[j] = ios[j]
    BY SMTT(20), <1>0, <1>2, <1>4 DEF MqType
  <2> QED  BY SMTT(20), <1>0, <2>1, <1>4 DEF OneSocket, Open
<1>10. OneSocket'
  BY Zenon, <1>4, <1>6, <1>8, <1>9 DEF OneSocket
<1>11. RetriesCounted' /\ MqttKeepsTrying'
  BY Zenon, <1>0, <1>1, <1>5 DEF RetriesCounted, MqttKeepsTrying
<1> QED  BY Zenon, <1>1, <1>2, <1>4, <1>5, <1>7, <1>10, <1>11 DEF LoginInv

\* The last socket, which others no longer await, is closed: a reconnect timer
\* is added or the retries are used up.
LEMMA ReconnectAdded ==
    ASSUME MqType, retry_cnt <= failed, failed' = failed + 1, reconn' = reconn,
           NEW others \in SUBSET alarms, NEW old \in Nat, AddReconnectTimer(others, old),
           \A a \in others : a.kind # "reconnect"
    PROVE  /\ retry_cnt' \in Nat /\ ntimer' \in Nat /\ timer' \in Nat
           /\ alarms' \subseteq [no : Nat, kind : {"connect", "reconnect"}, io : Nat]
           /\ \A a, b \in alarms' : a.kind = "reconnect" /\ b.kind = "reconnect" => a = b
           /\ retry_cnt' <= failed'
           /\ \A a \in alarms' : a.kind = "connect" => a \in others
           /\ reconn' /\ failed' <= MaxRetry => \E a \in alarms' : a.kind = "reconnect"
<1> DEFINE new == Alarm("reconnect", 0)
<1>0. MaxRetry \in Nat /\ failed \in Nat /\ retry_cnt \in Nat /\ ntimer \in Nat
  BY Zenon, MqttAssumption DEF MqttAssumption, MqType
<1>1. new \in [no : Nat, kind : {"connect", "reconnect"}, io : Nat] /\ new.kind = "reconnect"
  BY SMTT(20), <1>0 DEF Alarm
<1> HIDE DEF new
<1>2. CASE reconn /\ retry_cnt < MaxRetry
  <2>1. retry_cnt' = retry_cnt + 1 /\ ntimer' = ntimer + 1 /\ timer' = ntimer' /\ alarms' = others \cup {new}
    BY Zenon, <1>2 DEF AddReconnectTimer, new
  <2> QED  BY SMTT(20), <1>0, <1>1, <2>1 DEF MqType
<1>3. CASE ~(reconn /\ retry_cnt < MaxRetry)
  <2>1. /\ retry_cnt' = (IF reconn THEN MaxRetry + 1 ELSE retry_cnt)
        /\ alarms' = others /\ timer' = old /\ ntimer' = ntimer
    BY Zenon, <1>3 DEF AddReconnectTimer
  <2>2. reconn => failed' > MaxRetry /\ failed' >= MaxRetry + 1
    BY SMTT(20), <1>0, <1>3
  <2>3. retry_cnt' <= failed' /\ retry_cnt' \in Nat
    BY SMTT(20), <1>0, <2>1, <2>2
  <2> QED  BY SMTT(20), <1>0, <2>1, <2>2, <2>3 DEF MqType
<1> QED  BY Zenon, <1>2, <1>3

\* A socket closes by itself or by a timer.
LEMMA CloseLogin ==
    ASSUME LoginInv, NEW i \in 1 .. Len(ios), ios[i] # "closed",
           NEW others \in SUBSET alarms, NEW old \in Nat, MqOnClose(i, others, old)
    PROVE  /\ LoginInv' /\ i = io /\ io' = io /\ ios' = [ios EXCEPT ![i] = "closed"] /\ ios'[io] = "closed"
           /\ \A a \in alarms' : a.kind = "connect" => a \in others
           /\ UNCHANGED << mutex_, ppc, half, torn, io >>
<1>0. MqType /\ OneSocket /\ RetriesCounted
  BY Zenon DEF LoginInv
<1>1. i = io /\ Open(io) /\ io # 0
  BY Zenon, <1>0, OpenIsLast
<1>2. /\ ios' = [ios EXCEPT ![i] = "closed"] /\ connected' = FALSE /\ failed' = failed + 1
      /\ AddReconnectTimer(others, old) /\ UNCHANGED << io, reconn, mutex_, ppc, half, torn >>
  BY Zenon DEF MqOnClose, PubThreads, Wire
<1>3. \A a \in others : a.kind # "reconnect"
  BY Zenon, <1>0, <1>1 DEF OneSocket
<1>4. /\ retry_cnt' \in Nat /\ ntimer' \in Nat /\ timer' \in Nat
      /\ alarms' \subseteq [no : Nat, kind : {"connect", "reconnect"}, io : Nat]
      /\ \A a, b \in alarms' : a.kind = "reconnect" /\ b.kind = "reconnect" => a = b
      /\ retry_cnt' <= failed'
      /\ \A a \in alarms' : a.kind = "connect" => a \in others
      /\ reconn' /\ failed' <= MaxRetry => \E a \in alarms' : a.kind = "reconnect"
  BY Zenon, <1>0, <1>2, <1>3, ReconnectAdded DEF RetriesCounted
<1>5. ios' \in Seq(SocketStates) /\ Len(ios') = Len(ios) /\ ios'[i] = "closed"
      /\ \A j \in 1 .. Len(ios) : j # i => ios'[j] = ios[j]
  BY SMTT(20), <1>0, <1>2, Put DEF MqType, SocketStates
<1>6. MqType'
  <2>1. io' = Len(ios') /\ Len(half') = Len(ios')
    BY Zenon, <1>0, <1>2, <1>5 DEF MqType
  <2>2. connected' \in BOOLEAN /\ reconn' \in BOOLEAN
    BY <1>0, <1>2, Zenon DEF MqType
  <2>3. failed' \in Nat
    BY SMTT(20), <1>0, <1>2 DEF MqType
  <2>4. /\ half' \in Seq(Publisher \cup {Nobody}) /\ mutex_' \in Publisher \cup {Nobody}
        /\ ppc' \in [Publisher -> {"idle", "lock", "head", "payload"}]
    BY Zenon, <1>0, <1>2 DEF MqType
  <2> QED  BY Zenon, <1>4, <1>5, <2>1, <2>2, <2>3, <2>4 DEF MqType
<1>7. OneSocket'
  BY Zenon, <1>0, <1>1, <1>2, <1>4, <1>5 DEF OneSocket, MqType, Open
<1>8. RetriesCounted' /\ MqttKeepsTrying'
  BY Zenon, <1>4 DEF RetriesCounted, MqttKeepsTrying
<1> QED  BY Zenon, <1>1, <1>2, <1>4, <1>5, <1>6, <1>7, <1>8 DEF LoginInv

\* Steps that only write: sockets, timers and counts stay as they are.
Quiet == UNCHANGED << io, ios, connected, timer, alarms, ntimer, reconn, retry_cnt, failed >>

\* A publisher that writes does not disturb the login.
LEMMA QuietLogin ==
    ASSUME LoginInv, Quiet,
           half' \in Seq(Publisher \cup {Nobody}), Len(half') = Len(half),
           mutex_' \in Publisher \cup {Nobody}, ppc' \in [Publisher -> {"idle", "lock", "head", "payload"}]
    PROVE  LoginInv'
<1>1. MqType'
  BY Zenon DEF LoginInv, MqType, Quiet
<1>2. OneSocket' /\ RetriesCounted' /\ MqttKeepsTrying'
  BY Zenon DEF LoginInv, OneSocket, RetriesCounted, MqttKeepsTrying, Quiet, Open
<1> QED  BY Zenon, <1>1, <1>2 DEF LoginInv

\* Types of what the writes of a publisher leave behind.
LEMMA PublishTypes ==
    ASSUME MqType, NEW p \in Publisher,
           PublishCall(p) \/ PublishLock(p) \/ PublishHead(p) \/ PublishPayload(p)
    PROVE  /\ Quiet
           /\ half' \in Seq(Publisher \cup {Nobody}) /\ Len(half') = Len(half)
           /\ mutex_' \in Publisher \cup {Nobody}
           /\ ppc' \in [Publisher -> {"idle", "lock", "head", "payload"}]
<1>1. Quiet
  BY Zenon DEF PublishCall, PublishLock, PublishHead, PublishPayload, Quiet
<1>2. mutex_' \in Publisher \cup {Nobody} /\ ppc' \in [Publisher -> {"idle", "lock", "head", "payload"}]
  BY Zenon DEF PublishCall, PublishLock, PublishHead, PublishPayload, MqType
<1>3. half' = half \/ (Open(io) /\ \E v \in Publisher \cup {Nobody} : half' = [half EXCEPT ![io] = v])
  BY Zenon DEF PublishCall, PublishLock, PublishHead, PublishPayload, Wire
<1>4. half' \in Seq(Publisher \cup {Nobody}) /\ Len(half') = Len(half)
  <2>1. CASE half' = half
    BY Zenon, <2>1 DEF MqType
  <2>2. ASSUME Open(io), NEW v \in Publisher \cup {Nobody}, half' = [half EXCEPT ![io] = v]
        PROVE  half' \in Seq(Publisher \cup {Nobody}) /\ Len(half') = Len(half)
    <3>1. io \in 1 .. Len(half) /\ half \in Seq(Publisher \cup {Nobody})
      BY SMTT(20), <2>2 DEF Open, MqType
    <3> QED  BY SMTT(20), <2>2, <3>1, Put
  <2> QED  BY Zenon, <1>3, <2>1, <2>2
<1> QED  BY Zenon, <1>1, <1>2, <1>4

\* A socket goes on to state s, and no timer is added.
LEMMA OnwardLogin ==
    ASSUME LoginInv, NEW i \in 1 .. Len(ios), NEW s \in SocketStates \ {"closed"}, ios[i] # "closed",
           ios' = [ios EXCEPT ![i] = s], alarms' \in SUBSET alarms, timer' \in Nat, ntimer' = ntimer,
           \/ connected' = connected /\ ~connected
           \/ connected' = TRUE /\ s = "ready",
           \/ retry_cnt' = retry_cnt /\ failed' = failed
           \/ retry_cnt' = 0 /\ failed' = 0,
           UNCHANGED << io, reconn, mutex_, ppc, half >>
    PROVE  LoginInv' /\ i = io /\ ios'[io] = s /\ Open(io)'
<1>0. MqType /\ OneSocket /\ RetriesCounted
  BY Zenon DEF LoginInv
<1>1. i = io /\ Open(io) /\ io # 0
  BY Zenon, <1>0, OpenIsLast
<1>2. ios' \in Seq(SocketStates) /\ Len(ios') = Len(ios) /\ ios'[i] = s
      /\ \A j \in 1 .. Len(ios) : j # i => ios'[j] = ios[j]
  BY SMTT(20), <1>0, Put DEF MqType
<1>3. connected' \in BOOLEAN /\ retry_cnt' \in Nat /\ failed' \in Nat /\ retry_cnt' <= failed'
  <2>1. connected' \in BOOLEAN
    BY <1>0, Zenon DEF MqType
  <2>2. retry_cnt \in Nat /\ failed \in Nat /\ retry_cnt <= failed
    BY Zenon, <1>0 DEF MqType, RetriesCounted
  <2>3. retry_cnt' \in Nat /\ failed' \in Nat /\ retry_cnt' <= failed'
    BY SMTT(20), <2>2
  <2> QED  BY Zenon, <2>1, <2>3
<1>4. MqType'
  BY Zenon, <1>0, <1>2, <1>3 DEF MqType
<1>5. Open(io)'
  BY Zenon, <1>1, <1>2 DEF Open
<1>6. \A a \in alarms' : a.kind # "reconnect"
  BY Zenon, <1>0, <1>1 DEF OneSocket
<1>7. connected' => ios'[io'] = "ready"
  BY <1>1, <1>2, Zenon
<1>8. OneSocket'
  BY Zenon, <1>0, <1>1, <1>2, <1>6, <1>7 DEF OneSocket, MqType
<1>9. RetriesCounted' /\ MqttKeepsTrying'
  BY Zenon, <1>3, <1>5 DEF RetriesCounted, MqttKeepsTrying
<1> QED  BY Zenon, <1>1, <1>2, <1>4, <1>5, <1>8, <1>9 DEF LoginInv

\* mqtt_client_disconnect.
LEMMA DisconnectLogin ==
    ASSUME LoginInv, Disconnect
    PROVE  LoginInv' /\ io' = io /\ ios'[io] = "closed" /\ \A j \in 1 .. Len(ios) : j # io => ios'[j] = ios[j]
<1>0. MqType /\ OneSocket /\ RetriesCounted
  BY Zenon DEF LoginInv
<1>1. /\ io # 0 /\ reconn' = FALSE /\ ios' = [ios EXCEPT ![io] = "closed"] /\ connected' = FALSE
      /\ UNCHANGED << io, timer, alarms, ntimer, retry_cnt, failed, mutex_, ppc, half >>
  BY Zenon DEF Disconnect, PubThreads
<1>2. io \in 1 .. Len(ios)
  BY SMTT(20), <1>0, <1>1 DEF MqType
<1>3. ios' \in Seq(SocketStates) /\ Len(ios') = Len(ios) /\ ios'[io] = "closed"
      /\ \A j \in 1 .. Len(ios) : j # io => ios'[j] = ios[j]
  BY SMTT(20), <1>0, <1>1, <1>2, Put DEF MqType, SocketStates
<1>4. MqType'
  BY <1>0, <1>1, <1>3, Zenon DEF MqType
<1>5. OneSocket'
  BY Zenon, <1>0, <1>1, <1>3 DEF OneSocket, MqType, Open
<1>6. RetriesCounted' /\ MqttKeepsTrying'
  BY Zenon, <1>0, <1>1 DEF RetriesCounted, MqttKeepsTrying
<1> QED  BY Zenon, <1>1, <1>3, <1>4, <1>5, <1>6 DEF LoginInv

\* A timer fires: reconnect_timer_cb.
LEMMA ReconnectLogin ==
    ASSUME LoginInv, NEW a \in alarms, ReconnectTimer(a)
    PROVE  LoginInv' /\ ~Open(io) /\ \A b \in alarms \ {a} : b.kind # "reconnect"
<1>0. MqType /\ OneSocket /\ RetriesCounted
  BY Zenon DEF LoginInv
<1>1. a.kind = "reconnect" /\ connected' = connected /\ reconn' = reconn /\ mutex_' = mutex_ /\ ppc' = ppc
  BY Zenon DEF ReconnectTimer, Due, PubThreads
<1>2. ~Open(io) /\ \A b \in alarms \ {a} : b.kind # "reconnect"
  BY Zenon, <1>0, <1>1 DEF OneSocket
<1>3. CASE NewSocket(alarms \ {a}, 0) /\ UNCHANGED failed
  BY Zenon, <1>1, <1>2, <1>3, NewSocketLogin
<1>4. CASE AddReconnectTimer(alarms \ {a}, 0) /\ failed' = failed + 1 /\ UNCHANGED << io, ios, Wire >>
  <2>1. /\ retry_cnt' \in Nat /\ ntimer' \in Nat /\ timer' \in Nat
        /\ alarms' \subseteq [no : Nat, kind : {"connect", "reconnect"}, io : Nat]
        /\ \A c, b \in alarms' : c.kind = "reconnect" /\ b.kind = "reconnect" => c = b
        /\ retry_cnt' <= failed'
        /\ reconn' /\ failed' <= MaxRetry => \E b \in alarms' : b.kind = "reconnect"
    BY Zenon, <1>0, <1>1, <1>2, <1>4, ReconnectAdded DEF RetriesCounted
  <2>2. UNCHANGED << io, ios, half >>
    BY Zenon, <1>4 DEF Wire
  <2>3. io # 0
    BY Zenon, <1>0 DEF OneSocket
  <2>4. MqType'
    BY SMTT(20), <1>0, <1>1, <1>4, <2>1, <2>2 DEF MqType
  <2>5. OneSocket'
    BY Zenon, <1>0, <1>1, <1>2, <2>1, <2>2, <2>3 DEF OneSocket, Open
  <2>6. RetriesCounted' /\ MqttKeepsTrying'
    BY Zenon, <2>1 DEF RetriesCounted, MqttKeepsTrying
  <2> QED  BY Zenon, <1>2, <2>4, <2>5, <2>6 DEF LoginInv
<1> QED  BY Zenon, <1>3, <1>4 DEF ReconnectTimer

\* Every step keeps it.
LEMMA LoginStep == LoginInv /\ [MqNext]_mqvars => LoginInv'
<1> SUFFICES ASSUME LoginInv, [MqNext]_mqvars  PROVE LoginInv'
  BY Zenon
<1>0. MqType /\ OneSocket
  BY Zenon DEF LoginInv
<1>1. CASE UNCHANGED mqvars
  BY Zenon, <1>0, <1>1, QuietLogin DEF mqvars, Quiet, MqType
<1>2. CASE MqConnect
  <2>1. /\ ~Open(io) /\ NewSocket(alarms, timer) /\ \A a \in alarms : a.kind # "reconnect"
        /\ UNCHANGED << mutex_, ppc, connected, reconn, failed >>
    BY Zenon, <1>0, <1>2 DEF MqConnect, PubThreads, Open, OneSocket
  <2> QED  BY Zenon, <1>0, <2>1, NewSocketLogin DEF MqType
<1>3. CASE Disconnect
  BY Zenon, <1>3, DisconnectLogin
<1>4. ASSUME NEW i \in 1 .. Len(ios), MqOnConnect(i)
      PROVE  LoginInv'
  <2>1. /\ ios[i] = "connecting" /\ ios' = [ios EXCEPT ![i] = "up"] /\ retry_cnt' = 0 /\ failed' = 0
        /\ UNCHANGED << io, connected, timer, alarms, ntimer, reconn, mutex_, ppc, half >>
    BY Zenon, <1>4 DEF MqOnConnect, PubThreads
  <2>2. ~connected
    BY Zenon, <1>0, <2>1, OpenIsLast DEF OneSocket
  <2>3. "up" \in SocketStates \ {"closed"}
    BY Zenon DEF SocketStates
  <2> QED  BY <1>0, <2>1, <2>2, <2>3, OnwardLogin, Zenon DEF MqType
<1>5. ASSUME NEW i \in 1 .. Len(ios), Connack(i)
      PROVE  LoginInv'
  <2>1. /\ ios[i] = "up" /\ ios' = [ios EXCEPT ![i] = "ready"] /\ connected' = TRUE /\ timer' = 0
        /\ alarms' \in SUBSET alarms
        /\ UNCHANGED << io, ntimer, reconn, retry_cnt, failed, mutex_, ppc, half >>
    BY Zenon, <1>5 DEF Connack, PubThreads, Wire
  <2>2. "ready" \in SocketStates \ {"closed"}
    BY Zenon DEF SocketStates
  <2> QED  BY <1>0, <2>1, <2>2, OnwardLogin, Zenon
<1>6. ASSUME NEW i \in 1 .. Len(ios), Lost(i) \/ (Ping(i) /\ ping_cnt = 3)
      PROVE  LoginInv'
  <2>1. ios[i] # "closed" /\ MqOnClose(i, alarms, timer)
    BY Zenon, <1>6 DEF Lost, Ping, Open
  <2> QED  BY Zenon, <1>0, <2>1, CloseLogin DEF MqType
<1>7. ASSUME NEW i \in 1 .. Len(ios), OnPacket(i) \/ Pong(i) \/ (Ping(i) /\ ping_cnt # 3)
      PROVE  LoginInv'
  <2>1. Quiet /\ UNCHANGED << mutex_, ppc, half >>
    BY Zenon, <1>7 DEF OnPacket, Pong, Ping, Quiet, PubThreads, Wire
  <2> QED  BY Zenon, <1>0, <2>1, QuietLogin DEF MqType
<1>8. ASSUME NEW a \in alarms, ConnectTimer(a)
      PROVE  LoginInv'
  <2>1. CASE Open(io)
    <3>1. io \in 1 .. Len(ios) /\ ios[io] # "closed" /\ MqOnClose(io, alarms \ {a}, 0)
      BY SMTT(20), <1>0, <1>8, <2>1 DEF ConnectTimer, Open, MqType
    <3> QED  BY Zenon, <3>1, CloseLogin
  <2>2. CASE ~Open(io)
    <3>1. /\ a.kind = "connect" /\ timer' = 0 /\ alarms' = alarms \ {a}
          /\ UNCHANGED << io, ios, connected, ntimer, reconn, retry_cnt, failed, mutex_, ppc, half >>
      BY Zenon, <1>8, <2>2 DEF ConnectTimer, PubThreads, Wire
    <3>2. MqType'
      BY Zenon, <1>0, <3>1 DEF MqType
    <3>3. OneSocket'
      BY Zenon, <1>0, <3>1 DEF OneSocket, Open
    <3>4. RetriesCounted' /\ MqttKeepsTrying'
      BY Zenon, <3>1 DEF LoginInv, RetriesCounted, MqttKeepsTrying, Open
    <3> QED  BY Zenon, <3>2, <3>3, <3>4 DEF LoginInv
  <2> QED  BY Zenon, <2>1, <2>2
<1>9. ASSUME NEW p \in Publisher, PublishCall(p) \/ PublishLock(p) \/ PublishHead(p) \/ PublishPayload(p)
      PROVE  LoginInv'
  BY Zenon, <1>0, <1>9, PublishTypes, QuietLogin
<1> QED  BY Zenon, <1>1, <1>2, <1>3, <1>4, <1>5, <1>6, <1>7, <1>8, <1>9, ReconnectLogin DEF MqNext

\* A client that has done nothing.
LEMMA MqttInit == MqInit => LoginInv /\ TimerNamed /\ Locked /\ HalfWritten /\ PacketsWhole
<1> SUFFICES ASSUME MqInit  PROVE LoginInv /\ TimerNamed /\ Locked /\ HalfWritten /\ PacketsWhole
  BY Zenon
<1>1. MqType
  <2>1. << >> \in Seq(SocketStates) /\ << >> \in Seq(Publisher \cup {Nobody}) /\ Len(<< >>) = 0
    BY SMTT(20)
  <2>2. connected \in BOOLEAN /\ reconn \in BOOLEAN
    BY Zenon DEF MqInit
  <2> QED  BY Zenon, <2>1, <2>2 DEF MqInit, MqType
<1>2. OneSocket /\ RetriesCounted /\ MqttKeepsTrying
  BY SMTT(20) DEF MqInit, OneSocket, RetriesCounted, MqttKeepsTrying
<1>3. TimerNamed /\ HalfWritten /\ PacketsWhole
  BY SMTT(20) DEF MqInit, TimerNamed, HalfWritten, PacketsWhole
<1>4. Locked
  BY Zenon, MqttAssumption DEF MqInit, Locked, MqttAssumption
<1> QED  BY Zenon, <1>1, <1>2, <1>3, <1>4 DEF LoginInv

-----------------------------------------------------------------------------
(* The connect timer, when it is shorter than the reconnect delay. *)

\* The client forgets no timer while it may still fire.
LEMMA TimerStep ==
    ASSUME ~SlowTimeout, LoginInv, TimerNamed, [MqNext]_mqvars
    PROVE  TimerNamed'
<1>0. MqType /\ OneSocket
  BY Zenon DEF LoginInv
<1>1. ASSUME UNCHANGED << io, ios, timer, alarms >>
      PROVE  TimerNamed'
  BY Zenon, <1>1 DEF TimerNamed, Open
<1>2. ASSUME NEW others \in SUBSET alarms, NEW old \in Nat, NewSocket(others, old), ~Open(io),
             \A a \in others : a.kind \notin {"connect", "reconnect"},
             mutex_' = mutex_, ppc' = ppc, connected' = connected, reconn' = reconn, failed' = failed
      PROVE  TimerNamed'
  <2>1. io' # 0 /\ ios'[io'] = "connecting"
    BY Zenon, <1>2, NewSocketLogin
  <2>2. \/ ntimer' = ntimer + 1 /\ timer' = ntimer' /\ alarms' = others \cup {Alarm("connect", io')}
        \/ alarms' = others
    BY Zenon, <1>2 DEF NewSocket
  <2> QED  BY SMTT(20), <1>2, <2>1, <2>2 DEF TimerNamed, Alarm
<1>3. ASSUME io' = io, ios'[io] = "closed", \A a \in alarms' : a.kind = "connect" => a \in alarms
      PROVE  TimerNamed'
  BY Zenon, <1>3 DEF TimerNamed, Open
<1>4. CASE MqConnect
  <2>1. /\ ~Open(io) /\ NewSocket(alarms, timer) /\ alarms = {}
        /\ UNCHANGED << mutex_, ppc, connected, reconn, failed >>
    BY Zenon, <1>0, <1>4 DEF MqConnect, PubThreads, Open, OneSocket
  <2> QED  BY SMTT(20), <1>0, <1>2, <2>1 DEF MqType
<1>5. CASE Disconnect
  <2>1. io' = io /\ ios'[io] = "closed" /\ alarms' = alarms
    BY <1>5, DisconnectLogin, Zenon DEF Disconnect
  <2> QED  BY Zenon, <1>3, <2>1
<1>6. ASSUME NEW i \in 1 .. Len(ios), MqOnConnect(i)
      PROVE  TimerNamed'
  <2>1. /\ ios[i] = "connecting" /\ ios' = [ios EXCEPT ![i] = "up"]
        /\ UNCHANGED << io, timer, alarms >>
    BY Zenon, <1>6 DEF MqOnConnect
  <2>2. i = io /\ Open(io)
    BY Zenon, <1>0, <2>1, OpenIsLast
  <2>3. ios'[io] = "up"
    BY SMTT(20), <1>0, <2>1, <2>2 DEF MqType
  <2> QED  BY Zenon, <2>1, <2>2, <2>3 DEF TimerNamed
<1>7. ASSUME NEW i \in 1 .. Len(ios), Connack(i)
      PROVE  TimerNamed'
  <2>1. ios[i] = "up" /\ alarms' = {a \in alarms : a.no # timer}
    BY Zenon, <1>7 DEF Connack
  <2>2. Open(io)
    BY Zenon, <1>0, <2>1, OpenIsLast
  <2>3. \A a \in alarms' : a.kind # "connect"
    BY Zenon, <2>1, <2>2 DEF TimerNamed
  <2> QED  BY Zenon, <2>3 DEF TimerNamed
<1>8. ASSUME NEW i \in 1 .. Len(ios), Lost(i) \/ (Ping(i) /\ ping_cnt = 3)
      PROVE  TimerNamed'
  <2>1. ios[i] # "closed" /\ MqOnClose(i, alarms, timer)
    BY Zenon, <1>8 DEF Lost, Ping, Open
  <2>2. io' = io /\ ios'[io] = "closed" /\ \A a \in alarms' : a.kind = "connect" => a \in alarms
    BY Zenon, <1>0, <2>1, CloseLogin DEF MqType
  <2> QED  BY Zenon, <1>3, <2>2
<1>9. ASSUME NEW i \in 1 .. Len(ios), OnPacket(i) \/ Pong(i) \/ (Ping(i) /\ ping_cnt # 3)
      PROVE  TimerNamed'
  BY Zenon, <1>1, <1>9 DEF OnPacket, Pong, Ping
<1>10. ASSUME NEW a \in alarms, ConnectTimer(a)
       PROVE  TimerNamed'
  <2>1. CASE Open(io)
    <3>1. io \in 1 .. Len(ios) /\ ios[io] # "closed" /\ MqOnClose(io, alarms \ {a}, 0)
      BY SMTT(20), <1>0, <1>10, <2>1 DEF ConnectTimer, Open, MqType
    <3>2. io' = io /\ ios'[io] = "closed" /\ \A b \in alarms' : b.kind = "connect" => b \in alarms
      <4>1. alarms \ {a} \in SUBSET alarms /\ 0 \in Nat
        BY Zenon
      <4> QED  BY <1>0, <3>1, <4>1, CloseLogin, Zenon
    <3> QED  BY Zenon, <1>3, <3>2
  <2>2. CASE ~Open(io)
    <3>1. alarms' = alarms \ {a} /\ UNCHANGED << io, ios >>
      BY Zenon, <1>10, <2>2 DEF ConnectTimer
    <3> QED  BY Zenon, <2>2, <3>1 DEF TimerNamed, Open
  <2> QED  BY Zenon, <2>1, <2>2
<1>11. ASSUME NEW a \in alarms, ReconnectTimer(a)
       PROVE  TimerNamed'
  <2>1. ~Open(io) /\ \A b \in alarms \ {a} : b.kind # "reconnect"
    BY Zenon, <1>11, ReconnectLogin
  <2>2. \A b \in alarms : b.kind # "connect"
    BY Zenon, <1>11 DEF ReconnectTimer, Due
  <2>3. CASE NewSocket(alarms \ {a}, 0) /\ UNCHANGED failed
    <3>1. connected' = connected /\ reconn' = reconn /\ mutex_' = mutex_ /\ ppc' = ppc
      BY Zenon, <1>11 DEF ReconnectTimer, PubThreads
    <3> QED  BY Zenon, <1>2, <2>1, <2>2, <2>3, <3>1
  <2>4. CASE AddReconnectTimer(alarms \ {a}, 0)
    <3>1. alarms' = alarms \ {a} \/ alarms' = (alarms \ {a}) \cup {Alarm("reconnect", 0)}
      BY Zenon, <2>4 DEF AddReconnectTimer
    <3>2. \A b \in alarms' : b.kind # "connect"
      BY SMTT(20), <2>2, <3>1 DEF Alarm
    <3> QED  BY Zenon, <3>2 DEF TimerNamed
  <2> QED  BY Zenon, <1>11, <2>3, <2>4 DEF ReconnectTimer
<1>12. ASSUME NEW p \in Publisher, PublishCall(p) \/ PublishLock(p) \/ PublishHead(p) \/ PublishPayload(p)
       PROVE  TimerNamed'
  BY Zenon, <1>0, <1>1, <1>12, PublishTypes DEF Quiet
<1>13. CASE UNCHANGED mqvars
  BY Zenon, <1>1, <1>13 DEF mqvars
<1> QED  BY Zenon, <1>4, <1>5, <1>6, <1>7, <1>8, <1>9, <1>10, <1>11, <1>12, <1>13 DEF MqNext

-----------------------------------------------------------------------------
(* Packets, when a publish is over before a reconnection. *)

PublishInv == Locked /\ HalfWritten /\ PacketsWhole

\* No head waits for its payload on an open socket while cli->mutex_ is free.
LEMMA NothingHalf ==
    ASSUME MqType, HalfWritten, PacketsWhole, mutex_ = Nobody, NEW i \in 0 .. io
    PROVE  WriteWhole(i) => torn' = torn
<1>1. CASE i = 0
  BY Zenon, <1>1 DEF WriteWhole, Open
<1>2. CASE i # 0
  <2>1. i \in 1 .. io
    BY SMTT(20), <1>2 DEF MqType
  <2>2. Open(i) => half[i] = Nobody
    BY Zenon, <2>1 DEF HalfWritten, Open
  <2> QED  BY Zenon, <2>2 DEF WriteWhole
<1> QED  BY Zenon, <1>1, <1>2

\* A step in which publishers rest and no socket is opened.
LEMMA SameHalves ==
    ASSUME MqType, PublishInv, UNCHANGED << io, half, mutex_, ppc, torn >>,
           \A i \in 1 .. io : ios'[i] # "closed" => ios[i] # "closed"
    PROVE  PublishInv'
<1>1. Open(io)' => Open(io)
  BY SMTT(20) DEF Open, MqType
<1> QED  BY Zenon, <1>1 DEF PublishInv, Locked, HalfWritten, PacketsWhole

\* A new socket, made while nobody publishes.
LEMMA NewSocketHalves ==
    ASSUME LoginInv, PublishInv, mutex_ = Nobody, NEW others \in SUBSET alarms, NEW old \in Nat,
           NewSocket(others, old), ~Open(io), \A a \in others : a.kind # "reconnect",
           mutex_' = mutex_, ppc' = ppc, connected' = connected, reconn' = reconn, failed' = failed
    PROVE  PublishInv'
<1>0. MqType /\ OneSocket
  BY Zenon DEF LoginInv
<1>1. io' = io + 1 /\ io' # 0 /\ half' = Append(half, Nobody) /\ torn' = torn /\ LoginInv'
  BY NewSocketLogin, Zenon DEF NewSocket
<1>2. \A p \in Publisher : ppc[p] \notin {"head", "payload"}
  BY Zenon, MqttAssumption DEF PublishInv, Locked, MqttAssumption
<1>3. half'[io'] = Nobody
  BY SMTT(20), <1>0, <1>1 DEF MqType
<1>4. \A i \in 1 .. io' : ios'[i] # "closed" => i = io'
  BY SMTT(20), <1>1 DEF LoginInv, OneSocket, MqType
<1>5. HalfWritten'
  BY <1>1, <1>2, <1>3, <1>4, Zenon DEF HalfWritten
<1> QED  BY Zenon, <1>1, <1>5 DEF PublishInv, Locked, PacketsWhole

\* The steps of one publisher.
LEMMA PublisherStep ==
    ASSUME LoginInv, PublishInv, NEW p \in Publisher,
           PublishCall(p) \/ PublishLock(p) \/ PublishHead(p) \/ PublishPayload(p)
    PROVE  PublishInv'
<1>0. MqType /\ OneSocket /\ Locked /\ HalfWritten /\ PacketsWhole
  BY Zenon DEF LoginInv, PublishInv
<1>1. io' = io /\ ios' = ios /\ p # Nobody /\ Nobody \notin Publisher
  BY Zenon, <1>0, PublishTypes, MqttAssumption DEF Quiet, MqttAssumption
<1>2. CASE PublishCall(p)
  <2>1. ppc[p] = "idle" /\ connected /\ ppc' = [ppc EXCEPT ![p] = "lock"] /\ UNCHANGED << mutex_, half, torn >>
    BY Zenon, <1>2 DEF PublishCall, Wire
  <2>2. io # 0
    BY Zenon, <1>0, <2>1 DEF OneSocket
  <2>3. Locked' /\ PacketsWhole'
    BY Zenon, <1>0, <2>1 DEF Locked, PacketsWhole, MqType
  <2>4. HalfWritten'
    BY Zenon, <1>0, <1>1, <2>1, <2>2 DEF HalfWritten, MqType, Open
  <2> QED  BY Zenon, <2>3, <2>4 DEF PublishInv
<1>3. CASE PublishLock(p)
  <2>1. /\ ppc[p] = "lock" /\ mutex_ = Nobody /\ mutex_' = p /\ ppc' = [ppc EXCEPT ![p] = "head"]
        /\ UNCHANGED << half, torn >>
    BY Zenon, <1>3 DEF PublishLock, Wire
  <2>2. \A q \in Publisher : ppc[q] \notin {"head", "payload"}
    BY Zenon, <1>0, <1>1, <2>1 DEF Locked
  <2>3. Locked' /\ PacketsWhole'
    BY Zenon, <1>0, <1>1, <2>1, <2>2 DEF Locked, PacketsWhole, MqType
  <2>4. \A i \in 1 .. io : ios[i] # "closed" => half[i] = Nobody
    BY Zenon, <1>0, <2>1 DEF HalfWritten
  <2>5. \A q \in Publisher : ppc'[q] # "payload" /\ (ppc'[q] # "idle" => ppc[q] # "idle")
    BY Zenon, <1>0, <2>1, <2>2 DEF MqType
  <2>6. HalfWritten'
    BY Zenon, <1>0, <1>1, <2>1, <2>4, <2>5 DEF HalfWritten
  <2> QED  BY Zenon, <2>3, <2>6 DEF PublishInv
<1>4. CASE PublishHead(p)
  <2>1. /\ ppc[p] = "head" /\ WriteWhole(io)
        /\ half' = (IF Open(io) THEN [half EXCEPT ![io] = p] ELSE half)
        /\ ppc' = [ppc EXCEPT ![p] = IF Open(io) THEN "payload" ELSE "idle"]
        /\ mutex_' = (IF Open(io) THEN p ELSE Nobody)
    BY Zenon, <1>4 DEF PublishHead
  <2>2. mutex_ = p /\ \A q \in Publisher : q # p => ppc[q] \notin {"head", "payload"}
    BY Zenon, <1>0, <2>1 DEF Locked
  <2>3. io # 0 /\ io \in 1 .. Len(half) /\ io \in 1 .. io
    BY SMTT(20), <1>0, <2>1 DEF HalfWritten, MqType
  <2>4. Open(io) => half[io] = Nobody
    BY Zenon, <1>0, <2>1, <2>2, <2>3 DEF HalfWritten, Open
  <2>5. PacketsWhole'
    BY Zenon, <1>0, <2>1, <2>4 DEF PacketsWhole, WriteWhole
  <2>6. Locked'
    BY Zenon, <1>0, <1>1, <2>1, <2>2 DEF Locked, MqType
  <2>7. HalfWritten'
    <3>1. \A i \in 1 .. io : ios[i] # "closed" => i = io /\ Open(io)
      BY Zenon, <1>0, OpenIsLast DEF MqType
    <3>2. Open(io) => half'[io] = p /\ ppc'[p] = "payload" /\ mutex_' = p
      BY SMTT(20), <1>0, <2>1, <2>3 DEF MqType
    <3>3. Open(io)' = Open(io)
      BY Zenon, <1>1 DEF Open
    <3>4. \A q \in Publisher : ppc'[q] = "payload" => q = p
      BY Zenon, <1>0, <2>1, <2>2 DEF MqType
    <3> QED  BY Zenon, <1>1, <2>3, <3>1, <3>2, <3>3, <3>4 DEF HalfWritten
  <2> QED  BY Zenon, <2>5, <2>6, <2>7 DEF PublishInv
<1>5. CASE PublishPayload(p)
  <2>1. /\ ppc[p] = "payload"
        /\ torn' = (IF Open(io) /\ half[io] # p THEN torn \cup {io} ELSE torn)
        /\ half' = (IF Open(io) THEN [half EXCEPT ![io] = Nobody] ELSE half)
        /\ ppc' = [ppc EXCEPT ![p] = "idle"] /\ mutex_' = Nobody
    BY Zenon, <1>5 DEF PublishPayload
  <2>2. mutex_ = p /\ \A q \in Publisher : q # p => ppc[q] \notin {"head", "payload"}
    BY Zenon, <1>0, <2>1 DEF Locked
  <2>3. io # 0 /\ io \in 1 .. Len(half)
    BY SMTT(20), <1>0, <2>1 DEF HalfWritten, MqType
  <2>4. Open(io) => half[io] = p
    BY Zenon, <1>0, <2>1 DEF HalfWritten
  <2>5. PacketsWhole'
    BY Zenon, <1>0, <2>1, <2>4 DEF PacketsWhole
  <2>6. Locked'
    BY Zenon, <1>0, <1>1, <2>1, <2>2 DEF Locked, MqType
  <2>7. HalfWritten'
    <3>1. \A i \in 1 .. io : ios[i] # "closed" => i = io /\ Open(io)
      BY Zenon, <1>0, OpenIsLast DEF MqType
    <3>2. Open(io) => half'[io] = Nobody
      BY SMTT(20), <1>0, <2>1, <2>3 DEF MqType
    <3>3. \A q \in Publisher : ppc'[q] # "payload"
      BY Zenon, <1>0, <2>1, <2>2 DEF MqType
    <3> QED  BY Zenon, <1>1, <2>3, <3>1, <3>2, <3>3 DEF HalfWritten
  <2> QED  BY Zenon, <2>5, <2>6, <2>7 DEF PublishInv
<1> QED  BY Zenon, <1>2, <1>3, <1>4, <1>5

\* Every step keeps packets whole.
LEMMA PublishStep ==
    ASSUME ~SlowPublish, LoginInv, PublishInv, [MqNext]_mqvars
    PROVE  PublishInv'
<1>0. MqType /\ OneSocket /\ Locked /\ HalfWritten /\ PacketsWhole
  BY Zenon DEF LoginInv, PublishInv
<1>1. CASE UNCHANGED mqvars
  BY Zenon, <1>0, <1>1, SameHalves DEF mqvars
<1>2. CASE MqConnect
  <2>1. /\ io = 0 /\ ~Open(io) /\ NewSocket(alarms, timer) /\ \A a \in alarms : a.kind # "reconnect"
        /\ UNCHANGED << mutex_, ppc, connected, reconn, failed >>
    BY Zenon, <1>0, <1>2 DEF MqConnect, PubThreads, Open, OneSocket
  <2>2. mutex_ = Nobody
    BY Zenon, <1>0, <2>1 DEF HalfWritten, Locked, MqType
  <2> QED  BY Zenon, <1>0, <2>1, <2>2, NewSocketHalves DEF MqType
<1>3. CASE Disconnect
  <2>1. io # 0 /\ mutex_ = Nobody /\ WriteWhole(io) /\ UNCHANGED << io, half, mutex_, ppc >>
    BY Zenon, <1>3 DEF Disconnect, PubThreads
  <2>2. torn' = torn
    BY SMTT(20), <1>0, <2>1, NothingHalf DEF MqType
  <2>3. \A j \in 1 .. io : ios'[j] # "closed" => ios[j] # "closed"
    BY Zenon, <1>0, <1>3, DisconnectLogin DEF MqType
  <2> QED  BY Zenon, <1>0, <2>1, <2>2, <2>3, SameHalves
<1>4. ASSUME NEW i \in 1 .. Len(ios), MqOnConnect(i) \/ OnPacket(i) \/ (Ping(i) /\ ping_cnt # 3)
      PROVE  PublishInv'
  <2>1. mutex_ = Nobody /\ WriteWhole(i) /\ UNCHANGED << io, half, mutex_, ppc >>
    BY Zenon, <1>4 DEF MqOnConnect, OnPacket, Ping, PubThreads
  <2>2. torn' = torn
    BY SMTT(20), <1>0, <2>1, NothingHalf DEF MqType
  <2>3. \A j \in 1 .. io : ios'[j] # "closed" => ios[j] # "closed"
    BY SMTT(20), <1>0, <1>4 DEF MqOnConnect, OnPacket, Ping, MqType
  <2> QED  BY Zenon, <1>0, <2>1, <2>2, <2>3, SameHalves
<1>5. ASSUME NEW i \in 1 .. Len(ios), Connack(i) \/ Pong(i)
      PROVE  PublishInv'
  <2>1. UNCHANGED << io, half, mutex_, ppc, torn >>
    BY Zenon, <1>5 DEF Connack, Pong, PubThreads, Wire
  <2>2. \A j \in 1 .. io : ios'[j] # "closed" => ios[j] # "closed"
    BY SMTT(20), <1>0, <1>5 DEF Connack, Pong, MqType
  <2> QED  BY Zenon, <1>0, <2>1, <2>2, SameHalves
<1>6. ASSUME NEW i \in 1 .. Len(ios), ios[i] # "closed", NEW others \in SUBSET alarms, NEW old \in Nat,
             MqOnClose(i, others, old)
      PROVE  PublishInv'
  <2>1. UNCHANGED << io, half, mutex_, ppc, torn >> /\ ios' = [ios EXCEPT ![i] = "closed"]
    BY Zenon, <1>6, CloseLogin
  <2>2. \A j \in 1 .. io : ios'[j] # "closed" => ios[j] # "closed"
    BY SMTT(20), <1>0, <2>1 DEF MqType
  <2> QED  BY Zenon, <1>0, <2>1, <2>2, SameHalves
<1>7. ASSUME NEW i \in 1 .. Len(ios), Lost(i) \/ (Ping(i) /\ ping_cnt = 3)
      PROVE  PublishInv'
  <2>1. ios[i] # "closed" /\ MqOnClose(i, alarms, timer)
    BY Zenon, <1>7 DEF Lost, Ping, Open
  <2> QED  BY Zenon, <1>0, <1>6, <2>1 DEF MqType
<1>8. ASSUME NEW a \in alarms, ConnectTimer(a)
      PROVE  PublishInv'
  <2>1. CASE Open(io)
    <3>1. io \in 1 .. Len(ios) /\ ios[io] # "closed" /\ MqOnClose(io, alarms \ {a}, 0)
      BY SMTT(20), <1>0, <1>8, <2>1 DEF ConnectTimer, Open, MqType
    <3> QED  BY Zenon, <1>6, <3>1
  <2>2. CASE ~Open(io)
    <3>1. UNCHANGED << io, ios, half, mutex_, ppc, torn >>
      BY Zenon, <1>8, <2>2 DEF ConnectTimer, PubThreads, Wire
    <3> QED  BY Zenon, <1>0, <3>1, SameHalves
  <2> QED  BY Zenon, <2>1, <2>2
<1>9. ASSUME NEW a \in alarms, ReconnectTimer(a)
      PROVE  PublishInv'
  <2>1. ~Open(io) /\ \A b \in alarms \ {a} : b.kind # "reconnect"
    BY Zenon, <1>9, ReconnectLogin
  <2>2. mutex_ = Nobody /\ UNCHANGED << mutex_, ppc, connected, reconn >>
    BY Zenon, <1>9 DEF ReconnectTimer, Due, PubThreads
  <2>3. CASE NewSocket(alarms \ {a}, 0) /\ UNCHANGED failed
    BY Zenon, <2>1, <2>2, <2>3, NewSocketHalves
  <2>4. CASE UNCHANGED << io, ios, Wire >>
    BY Zenon, <1>0, <2>2, <2>4, SameHalves DEF Wire
  <2> QED  BY Zenon, <1>9, <2>3, <2>4 DEF ReconnectTimer
<1> QED  BY Zenon, <1>1, <1>2, <1>3, <1>4, <1>5, <1>7, <1>8, <1>9, PublisherStep DEF MqNext

-----------------------------------------------------------------------------

(***************************************************************************)
(* A client that is to reconnect does not stall before max_retry_cnt       *)
(* attempts have failed in a row, and, where the connect timeout is the    *)
(* shorter of the two delays, a connect timeout closes the attempt it was  *)
(* set for: on CONNACK cli->timer names it (mqtt_client.c:202-286).        *)
(***************************************************************************)
THEOREM MqttClientReconnects == ASSUME ~SlowTimeout PROVE MqSpec => []MqttReconnects
<1>1. LoginInv /\ TimerNamed => MqttReconnects
  BY Zenon DEF LoginInv, OneSocket, TimerNamed, MqttReconnects, TimeoutIsOfThisAttempt, Open
<1>2. MqInit => LoginInv /\ TimerNamed
  BY Zenon, MqttInit
<1>3. LoginInv /\ TimerNamed /\ [MqNext]_mqvars => (LoginInv /\ TimerNamed)'
  BY Zenon, LoginStep, TimerStep
<1> QED  BY <1>1, <1>2, <1>3, PTL DEF MqSpec

\* Whatever the delays, the client does not stall.
THEOREM MqttClientKeepsTrying == MqSpec => []MqttKeepsTrying
<1>1. MqInit => LoginInv
  BY Zenon, MqttInit
<1>2. LoginInv => MqttKeepsTrying
  BY Zenon DEF LoginInv
<1> QED  BY <1>1, <1>2, LoginStep, PTL DEF MqSpec

(***************************************************************************)
(* However many threads publish, while the loop answers, pings, closes and *)
(* connects again: the head of a PUBLISH is followed by its own payload,   *)
(* when a publish takes less than the reconnect delay.                     *)
(***************************************************************************)
THEOREM MqttPacketsAreWhole == ASSUME ~SlowPublish PROVE MqSpec => []PacketsWhole
<1>1. PublishInv => PacketsWhole
  BY Zenon DEF PublishInv
<1>2. MqInit => LoginInv /\ PublishInv
  BY Zenon, MqttInit DEF PublishInv
<1>3. LoginInv /\ PublishInv /\ [MqNext]_mqvars => (LoginInv /\ PublishInv)'
  BY Zenon, LoginStep, PublishStep
<1> QED  BY <1>1, <1>2, <1>3, PTL DEF MqSpec
=============================================================================
