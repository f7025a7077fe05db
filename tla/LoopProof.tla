------------------------------ MODULE LoopProof -------------------------------
(***************************************************************************)
(* Proofs about the event loop, for every value of the constants.          *)
(***************************************************************************)
EXTENDS LoopPost, HioTimers, EvTimers, FiniteSetTheorems, SequenceTheorems, TLAPS

-----------------------------------------------------------------------------
(***************************************************************************)
(* The accounting of wakeups in LoopPost, proved for any set of threads    *)
(* and any number of posts.                                                *)
(***************************************************************************)

\* The inductive invariant: WakeupAccounted needs to know (from TypeOK) that the
\* thread between its write and its push is the holder of the mutex.
PostInv == TypeOK /\ WakeupAccounted /\ ReadNeverBlocks

\* A loop that has not started has no eventfd traffic and no queue.
LEMMA PostInit == Init => PostInv
<1> SUFFICES ASSUME Init PROVE PostInv
  BY Zenon
<1>1. TypeOK
  <2>1. custom_events \in Seq({"fn", "null"}) /\ customEvents \in Seq(Threads \X Nat)
    BY SMTT(20) DEF Init
  <2>2. pc \in [Threads -> {"idle"}] /\ posts \in [Threads -> Nat]
    BY Zenon DEF Init
  <2>3. \A t \in Threads : pc[t] \in {"write", "push"} <=> mutex = t
    BY Zenon, PostAssumption DEF Init
  <2> QED BY <2>1, <2>2, <2>3, Zenon DEF Init, TypeOK
<1>2. WakeupAccounted
  BY Zenon DEF Init, WakeupAccounted
<1>3. ReadNeverBlocks
  BY Zenon DEF Init, ReadNeverBlocks
<1> QED BY Zenon, <1>1, <1>2, <1>3 DEF PostInv

\* Threads outside the critical section leave the accounts alone.
LEMMA CallsInv ==
    ASSUME PostInv, NEW t \in Threads,
           Enqueue(t) \/ StopTest(t) \/ PauseTest(t) \/ ControlStep(t)
    PROVE  PostInv'
<1> USE PostAssumption DEF PostInv, TypeOK, WakeupAccounted, ReadNeverBlocks, Goto, fdVars, loopVars
<1>1. CASE Enqueue(t)
  <2>1. customEvents' \in Seq(Threads \X Nat)
    BY SMTT(20), <1>1 DEF Enqueue
  <2> QED BY SMTT(20), <1>1, <2>1 DEF Enqueue
<1>2. CASE StopTest(t)
  BY ZenonT(30), <1>2 DEF StopTest
<1>3. CASE PauseTest(t)
  BY Zenon, <1>3 DEF PauseTest
<1>4. CASE StopSet(t)
  BY Zenon, <1>4 DEF StopSet
<1>5. CASE PauseSet(t)
  BY Zenon, <1>5 DEF PauseSet
<1>6. CASE ResumeTest(t)
  BY ZenonT(30), <1>6 DEF ResumeTest
<1>7. CASE ResumeSet(t)
  BY Zenon, <1>7 DEF ResumeSet
<1> QED BY <1>1, <1>2, <1>3, <1>4, <1>5, <1>6, <1>7, ZenonT(30) DEF ControlStep

\* The steps of hloop_post_event: the write adds a unit, the push its event, and
\* the mutex is held in between.
LEMMA PostStepInv ==
    ASSUME PostInv, NEW t \in Threads, PostStep(t)
    PROVE  PostInv'
<1> USE PostAssumption DEF PostInv, TypeOK, WakeupAccounted, ReadNeverBlocks, Goto, loopVars
<1>1. CASE Lock(t)
  BY Zenon, <1>1 DEF Lock
<1>2. CASE Write(t)
  <2>1. mutex = t /\ mutex' = t /\ mutex # None
    BY Zenon, <1>2 DEF Write
  <2>2. pc' = [pc EXCEPT ![t] = "push"] /\ pc[t] = "write" /\ pc'[t] = "push"
    BY Zenon, <1>2 DEF Write
  <2>3. \A u \in Threads : pc'[u] \in {"write", "push"} <=> mutex' = u
    BY Zenon, <2>1, <2>2
  <2>4. efd' \in Nat /\ efd' = efd + 1 /\ created' \in BOOLEAN
    BY SMTT(20), <1>2 DEF Write
  <2>5. TypeOK'
    BY Zenon, <1>2, <2>2, <2>3, <2>4 DEF Write
  <2>6. WakeupAccounted'
    BY SMTT(20), <1>2, <2>1, <2>2, <2>4 DEF Write
  <2>7. ReadNeverBlocks'
    BY SMTT(20), <1>2, <2>4 DEF Write
  <2> QED BY <2>5, <2>6, <2>7, SMTT(60)
<1>3. CASE WriteFails(t)
  <2>1. mutex = t /\ mutex' = None /\ pc[t] = "write"
    BY Zenon, <1>3 DEF WriteFails
  <2>2. pc' = [pc EXCEPT ![t] = AfterPost(t)] /\ AfterPost(t) \in {"setstop", "idle"}
    BY Zenon, <1>3 DEF WriteFails, AfterPost
  <2>3. \A u \in Threads : pc'[u] \in {"write", "push"} <=> mutex' = u
    BY Zenon, <2>1, <2>2
  <2>7. pc' \in [Threads -> {"idle", "lock", "write", "push", "setstop", "stopped", "refused",
                             "setpause", "paused", "setresume", "resumed"}]
    BY Zenon, <2>2
  <2>8. created' \in BOOLEAN
    BY <1>3, Zenon DEF WriteFails
  <2>4. TypeOK'
    BY Zenon, <1>3, <2>1, <2>3, <2>7, <2>8 DEF WriteFails
  <2>5. WakeupAccounted'
    BY Zenon, <1>3, <2>1 DEF WriteFails
  <2>6. ReadNeverBlocks'
    BY Zenon, <1>3 DEF WriteFails
  <2> QED BY Zenon, <2>4, <2>5, <2>6
<1>4. CASE Push(t)
  <2>1. /\ custom_events' \in Seq({"fn", "null"})
        /\ Len(custom_events') = Len(custom_events) + 1
    BY SMTT(20), <1>4 DEF Push
  <2>2. mutex = t /\ mutex' = None
    BY Zenon, <1>4 DEF Push
  <2>3. \A u \in Threads : pc'[u] \in {"write", "push"} <=> mutex' = u
    BY SMTT(20), <1>4, <2>2 DEF Push, AfterPost
  <2>4. pc' \in [Threads -> {"idle", "lock", "write", "push", "setstop", "stopped", "refused",
                             "setpause", "paused", "setresume", "resumed"}]
    BY Zenon, <1>4 DEF Push, AfterPost
  <2> QED BY SMTT(20), <1>4, <2>1, <2>2, <2>3, <2>4 DEF Push
<1> QED BY <1>1, <1>2, <1>3, <1>4, Zenon DEF PostStep

\* The loop's thread: reading moves the counter into batch, popping takes one
\* unit and one event.
LEMMA LoopStepInv ==
    ASSUME PostInv, LoopStep \/ FnStops
    PROVE  PostInv'
<1> USE PostAssumption DEF PostInv, TypeOK, WakeupAccounted, ReadNeverBlocks, fdVars, loopVars, callVars
<1>1. CASE RunStarts
  BY Zenon, <1>1 DEF RunStarts
<1>2. CASE CreateEventfds
  BY <1>2, Zenon DEF CreateEventfds
<1>3. CASE Top
  BY Zenon, <1>3 DEF Top
<1>4. CASE \E w \in BOOLEAN : Poll(w)
  <2> PICK w \in BOOLEAN : Poll(w)
    BY Zenon, <1>4
  <2>1. woken' \in BOOLEAN /\ (woken' => efd' > 0) /\ run' = "polled"
    BY Zenon DEF Poll
  <2> QED BY Zenon, <2>1 DEF Poll
<1>5. CASE Polled
  BY Zenon, <1>5 DEF Polled
<1>6. CASE Read
  BY SMTT(20), <1>6 DEF Read
<1>7. CASE Pop
  <2>1. mutex = None /\ custom_events # << >>
    BY SMTT(20), <1>7 DEF Pop
  <2>2. /\ Tail(custom_events) \in Seq({"fn", "null"})
        /\ Len(Tail(custom_events)) = Len(custom_events) - 1
    BY SMTT(20), <2>1
  <2>3. batch' \in Nat /\ batch' = batch - 1
    BY SMTT(20), <1>7, <2>1 DEF Pop
  <2>4. run' \in {"cb", "drain"} /\ custom_events' = Tail(custom_events)
    BY Zenon, <1>7, <2>1 DEF Pop
  <2>5. UNCHANGED << status, created, efd, mutex, customEvents, woken, ran, pc, posts >>
    BY Zenon, <1>7 DEF Pop
  <2> QED BY SMTT(20), <2>1, <2>2, <2>3, <2>4, <2>5
<1>8. CASE DrainEnds
  BY Zenon, <1>8 DEF DrainEnds
<1>9. CASE onCustomEvent
  <2>1. /\ Head(customEvents) \in Threads \X Nat
        /\ Tail(customEvents) \in Seq(Threads \X Nat)
    BY SMTT(20), <1>9 DEF onCustomEvent
  <2> QED BY <1>9, <2>1, SMTT(60) DEF onCustomEvent
<1>10. CASE FnReturns
  BY Zenon, <1>10 DEF FnReturns
<1>11. CASE RunReturns
  BY Zenon, <1>11 DEF RunReturns
<1>12. CASE FnStops
  BY Zenon, <1>12 DEF FnStops
<1> QED
  BY <1>1, <1>2, <1>3, <1>4, <1>5, <1>6, <1>7, <1>8, <1>9, <1>10, <1>11, <1>12, Zenon DEF LoopStep

\* PostInv is an invariant.
LEMMA PostInvariant == Spec => []PostInv
<1>1. PostInv /\ [Next]_vars => PostInv'
  <2> SUFFICES ASSUME PostInv, [Next]_vars PROVE PostInv'
    BY Zenon
  <2>1. CASE LoopStep \/ FnStops
    BY Zenon, <2>1, LoopStepInv
  <2>2. CASE \E t \in Threads :
               Enqueue(t) \/ StopTest(t) \/ PauseTest(t) \/ PostStep(t) \/ ControlStep(t)
    BY Zenon, <2>2, CallsInv, PostStepInv
  <2>3. CASE UNCHANGED vars
    BY ZenonT(30), <2>3 DEF PostInv, TypeOK, WakeupAccounted, ReadNeverBlocks, vars
  <2> QED BY Zenon, <2>1, <2>2, <2>3 DEF Next
<1> QED BY <1>1, PostInit, PTL DEF Spec

\* custom_events_mutex is held by exactly the thread inside the critical section
\* of hloop_post_event, and all fields keep their types.
THEOREM PostTypeCorrect == Spec => []TypeOK
<1>1. PostInv => TypeOK
  BY Zenon DEF PostInv
<1> QED BY <1>1, PostInvariant, PTL

\* Whatever the threads and the number of posts, each unit of the eventfd's
\* counter stands for exactly one event that is queued or about to be.
THEOREM WakeupsMatchEvents == Spec => []WakeupAccounted
<1>1. PostInv => WakeupAccounted
  BY Zenon DEF PostInv
<1> QED BY <1>1, PostInvariant, PTL

\* eventfd_read_cb never finds the queue empty before its count is used up.
THEOREM ReadCallbackFindsEvents == Spec => []PopFinds
<1>1. PostInv => PopFinds
  BY SMTT(20), PostAssumption DEF PostInv, TypeOK, WakeupAccounted, PopFinds
<1> QED BY <1>1, PostInvariant, PTL

\* The loop never blocks in read() on its eventfd.
THEOREM LoopNeverBlocksInRead == Spec => []ReadNeverBlocks
<1>1. PostInv => ReadNeverBlocks
  BY Zenon DEF PostInv
<1> QED BY <1>1, PostInvariant, PTL

-----------------------------------------------------------------------------
(* The two queues of EventLoop. *)

\* The places of a queue that hold an onCustomEvent.
Fns(q) == {i \in 1 .. Len(q) : q[i] = "fn"}

Callers == {t \in Threads : Calling(t)}

Due == Cardinality(Fns(custom_events)) + Cardinality(Callers) + (IF run = "cb" THEN 1 ELSE 0)

\* A queue's places are finite in number, and so are the threads.
LEMMA FnsFinite == ASSUME NEW q \in Seq({"fn", "null"})
                   PROVE  IsFiniteSet(Fns(q)) /\ Cardinality(Fns(q)) \in Nat
<1>1. IsFiniteSet(1 .. Len(q)) /\ Fns(q) \subseteq 1 .. Len(q)
  BY SMTT(20), FS_Interval DEF Fns
<1> QED  BY Zenon, <1>1, FS_Subset, FS_CardinalityType

\* The threads inside hloop_post_event are finitely many.
LEMMA CallersFinite == IsFiniteSet(Callers) /\ Cardinality(Callers) \in Nat
<1>1. IsFiniteSet(Threads) /\ Callers \subseteq Threads
  BY Zenon, PostAssumption DEF PostAssumption, Callers
<1> QED  BY Zenon, <1>1, FS_Subset, FS_CardinalityType

\* hloop_post_event puts an event at the end.
LEMMA FnsAppend ==
    ASSUME NEW q \in Seq({"fn", "null"}), NEW e \in {"fn", "null"}
    PROVE  Cardinality(Fns(Append(q, e))) = Cardinality(Fns(q)) + (IF e = "fn" THEN 1 ELSE 0)
<1> DEFINE n == Len(q) + 1
<1>1. Len(q) \in Nat /\ Len(Append(q, e)) = n /\ Append(q, e)[n] = e /\ \A i \in 1 .. Len(q) : Append(q, e)[i] = q[i]
  BY SMTT(20)
<1>2. CASE e = "fn"
  <2>1. Fns(Append(q, e)) = Fns(q) \cup {n} /\ n \notin Fns(q)
    BY SMTT(20), <1>1, <1>2 DEF Fns
  <2> QED  BY Zenon, <1>2, <2>1, FnsFinite, FS_AddElement
<1>3. CASE e = "null"
  <2>1. Fns(Append(q, e)) = Fns(q)
    BY SMTT(20), <1>1, <1>3 DEF Fns
  <2> QED  BY SMTT(20), <1>3, <2>1, FnsFinite
<1> QED  BY Zenon, <1>2, <1>3

\* eventfd_read_cb takes one from the front.
LEMMA FnsTail ==
    ASSUME NEW q \in Seq({"fn", "null"}), q # << >>
    PROVE  Cardinality(Fns(Tail(q))) = Cardinality(Fns(q)) - (IF Head(q) = "fn" THEN 1 ELSE 0)
<1> DEFINE r == Tail(q)
           T == Fns(q) \ {1}
           f == [i \in Fns(r) |-> i + 1]
<1>1. /\ Len(q) \in Nat \ {0} /\ Len(r) = Len(q) - 1 /\ r \in Seq({"fn", "null"}) /\ Head(q) = q[1]
      /\ \A i \in 1 .. Len(r) : r[i] = q[i + 1]
  BY SMTT(20)
<1>2. \A i \in Fns(r) : i \in Nat /\ i + 1 \in T
  BY SMTT(20), <1>1 DEF Fns
<1>3. \A j \in T : j - 1 \in Fns(r) /\ (j - 1) + 1 = j
  BY SMTT(20), <1>1 DEF Fns
<1>4. f \in Bijection(Fns(r), T)
  <2>1. f \in [Fns(r) -> T]
    BY Zenon, <1>2
  <2>2. IsInjective(f)
    BY SMTT(20), <1>2 DEF IsInjective
  <2>3. \A j \in T : \E i \in Fns(r) : f[i] = j
    BY Zenon, <1>3
  <2> QED  BY Zenon, <2>1, <2>2, <2>3 DEF Bijection, Injection, Surjection
<1>5. Cardinality(T) = Cardinality(Fns(r))
  <2>1. ExistsBijection(Fns(r), T)
    BY <1>4, Zenon DEF ExistsBijection
  <2>2. IsFiniteSet(Fns(r))
    BY <1>1, FnsFinite, Zenon
  <2> QED  BY Zenon, <2>1, <2>2, FS_Bijection
<1>6. Cardinality(T) = Cardinality(Fns(q)) - (IF 1 \in Fns(q) THEN 1 ELSE 0)
  <2>1. IsFiniteSet(Fns(q)) /\ Cardinality(Fns(q)) \in Nat
    BY Zenon, FnsFinite
  <2>2. CASE 1 \in Fns(q)
    BY <2>1, <2>2, FS_RemoveElement, Zenon
  <2>3. CASE 1 \notin Fns(q)
    <3>1. T = Fns(q)
      BY Zenon, <2>3
    <3>2. Cardinality(T) = Cardinality(Fns(q))
      BY <3>1, Zenon
    <3> HIDE DEF T
    <3> QED  BY SMTT(20), <2>1, <2>3, <3>2
  <2> QED  BY Zenon, <2>2, <2>3
<1>7. 1 \in Fns(q) <=> Head(q) = "fn"
  BY SMTT(20), <1>1 DEF Fns
<1> QED  BY Zenon, <1>5, <1>6, <1>7

\* FunctorsAccounted in terms of Due.
LEMMA AccountedDue == FunctorsAccounted <=> Len(customEvents) >= Due /\ (~CanFail => Len(customEvents) = Due)
BY Zenon DEF FunctorsAccounted, Due, Fns, Callers

\* A thread's call of postEvent begins or ends.
LEMMA CallersBy ==
    ASSUME TypeOK, NEW t \in Threads, NEW l, pc' = [pc EXCEPT ![t] = l]
    PROVE  /\ Calling(t)' <=> t \notin Stoppers /\ l \in {"lock", "write", "push"}
           /\ \A u \in Threads : u # t => (Calling(u)' <=> Calling(u))
           /\ ~Calling(t) /\ Calling(t)' => Cardinality(Callers') = Cardinality(Callers) + 1
           /\ Calling(t) /\ ~Calling(t)' => Cardinality(Callers') = Cardinality(Callers) - 1
           /\ (Calling(t) <=> Calling(t)') => Callers' = Callers
<1>1. pc'[t] = l /\ \A u \in Threads : u # t => pc'[u] = pc[u]
  BY Zenon DEF TypeOK
<1>2. /\ Calling(t)' <=> t \notin Stoppers /\ l \in {"lock", "write", "push"}
      /\ \A u \in Threads : u # t => (Calling(u)' <=> Calling(u))
  BY Zenon, <1>1 DEF Calling
<1>3. ASSUME ~Calling(t), Calling(t)'
      PROVE  Cardinality(Callers') = Cardinality(Callers) + 1
  <2>1. Callers' = Callers \cup {t} /\ t \notin Callers
    BY Zenon, <1>2, <1>3 DEF Callers
  <2> HIDE DEF Callers
  <2> QED  BY Zenon, <2>1, CallersFinite, FS_AddElement
<1>4. ASSUME Calling(t), ~Calling(t)'
      PROVE  Cardinality(Callers') = Cardinality(Callers) - 1
  <2>1. Callers' = Callers \ {t} /\ t \in Callers
    BY Zenon, <1>2, <1>4 DEF Callers
  <2> HIDE DEF Callers
  <2> QED  BY Zenon, <2>1, CallersFinite, FS_RemoveElement
<1>5. ASSUME Calling(t) <=> Calling(t)'
      PROVE  Callers' = Callers
  BY Zenon, <1>2, <1>5 DEF Callers
<1> QED  BY Zenon, <1>2, <1>3, <1>4, <1>5

\* Every functor has its onCustomEvent, in every step.
LEMMA FunctorsStep ==
    ASSUME TypeOK, FunctorsAccounted, [Next]_vars
    PROVE  FunctorsAccounted'
<1>0. /\ custom_events \in Seq({"fn", "null"}) /\ customEvents \in Seq(Threads \X Nat) /\ posts \in [Threads -> Nat]
      /\ Len(customEvents) \in Nat
  BY SMTT(20) DEF TypeOK
<1>1. /\ Cardinality(Fns(custom_events)) \in Nat /\ Cardinality(Callers) \in Nat
      /\ Len(customEvents) >= Due /\ (~CanFail => Len(customEvents) = Due)
  BY Zenon, <1>0, FnsFinite, CallersFinite, AccountedDue
<1>2. SUFFICES Len(customEvents') >= Due' /\ (~CanFail => Len(customEvents') = Due')
  BY Zenon DEF FunctorsAccounted, Due, Fns, Callers
<1>3. ASSUME UNCHANGED << custom_events, customEvents, pc >>, run' = "cb" <=> run = "cb"
      PROVE  Len(customEvents') >= Due' /\ (~CanFail => Len(customEvents') = Due')
  <2>1. Callers' = Callers
    BY Zenon, <1>3 DEF Callers, Calling
  <2> QED  BY Zenon, <1>1, <1>3, <2>1 DEF Due
<1>4. ASSUME NEW t \in Threads, NEW l, pc' = [pc EXCEPT ![t] = l], UNCHANGED << custom_events, customEvents, run >>,
             t \notin Stoppers => (pc[t] \in {"lock", "write", "push"} <=> l \in {"lock", "write", "push"})
      PROVE  Len(customEvents') >= Due' /\ (~CanFail => Len(customEvents') = Due')
  <2>1. Calling(t) <=> Calling(t)'
    BY Zenon, <1>4, CallersBy DEF Calling
  <2>2. Callers' = Callers
    BY <1>4, <2>1, CallersBy, Zenon
  <2> QED  BY Zenon, <1>1, <1>4, <2>2 DEF Due
<1>5. ASSUME NEW t \in Threads, Enqueue(t)
      PROVE  Len(customEvents') >= Due' /\ (~CanFail => Len(customEvents') = Due')
  <2>1. /\ pc[t] = "idle" /\ t \notin Stoppers /\ pc' = [pc EXCEPT ![t] = "lock"]
        /\ customEvents' = Append(customEvents, << t, posts'[t] >>) /\ UNCHANGED << custom_events, run >>
    BY Zenon, <1>5, PostAssumption DEF Enqueue, Goto, PostAssumption, fdVars, loopVars
  <2>2. Len(customEvents') = Len(customEvents) + 1
    BY SMTT(20), <1>0, <2>1
  <2>3. Cardinality(Callers') = Cardinality(Callers) + 1
    BY <2>1, CallersBy, Zenon DEF Calling
  <2> QED  BY SMTT(20), <1>0, <1>1, <2>1, <2>2, <2>3 DEF Due
<1>6. ASSUME NEW t \in Threads, WriteFails(t)
      PROVE  Len(customEvents') >= Due' /\ (~CanFail => Len(customEvents') = Due')
  <2>1. /\ CanFail /\ pc[t] = "write" /\ pc' = [pc EXCEPT ![t] = AfterPost(t)]
        /\ UNCHANGED << custom_events, customEvents, run >>
    BY Zenon, <1>6 DEF WriteFails, Goto, loopVars
  <2>2. ~Calling(t)' /\ (Calling(t) <=> t \notin Stoppers)
    <3>1. AfterPost(t) \notin {"lock", "write", "push"}
      BY Zenon DEF AfterPost
    <3>2. ~Calling(t)'
      BY <2>1, <3>1, CallersBy, Zenon
    <3> QED  BY Zenon, <2>1, <3>2 DEF Calling
  <2>3. Cardinality(Callers') = Cardinality(Callers) - 1 \/ Cardinality(Callers') = Cardinality(Callers)
    BY <2>1, <2>2, CallersBy, Zenon
  <2> QED  BY SMTT(20), <1>0, <1>1, <2>1, <2>3 DEF Due
<1>7. ASSUME NEW t \in Threads, Push(t)
      PROVE  Len(customEvents') >= Due' /\ (~CanFail => Len(customEvents') = Due')
  <2>1. /\ pc[t] = "push" /\ pc' = [pc EXCEPT ![t] = AfterPost(t)]
        /\ custom_events' = Append(custom_events, IF t \in Stoppers THEN "null" ELSE "fn")
        /\ UNCHANGED << customEvents, run >>
    BY Zenon, <1>7 DEF Push, Goto, loopVars
  <2>2. ~Calling(t)' /\ (Calling(t) <=> t \notin Stoppers)
    <3>1. AfterPost(t) \notin {"lock", "write", "push"}
      BY Zenon DEF AfterPost
    <3>2. ~Calling(t)'
      BY <2>1, <3>1, CallersBy, Zenon
    <3> QED  BY Zenon, <2>1, <3>2 DEF Calling
  <2>3. CASE t \in Stoppers
    <3>1. Callers' = Callers
      BY <2>1, <2>2, <2>3, CallersBy, Zenon
    <3>2. Cardinality(Fns(custom_events')) = Cardinality(Fns(custom_events))
      BY SMTT(20), <1>0, <1>1, <2>1, <2>3, FnsAppend
    <3> QED  BY Zenon, <1>1, <2>1, <3>1, <3>2 DEF Due
  <2>4. CASE t \notin Stoppers
    <3>1. Cardinality(Callers') = Cardinality(Callers) - 1
      BY <2>1, <2>2, <2>4, CallersBy, Zenon
    <3>2. Cardinality(Fns(custom_events')) = Cardinality(Fns(custom_events)) + 1
      BY Zenon, <1>0, <1>1, <2>1, <2>4, FnsAppend
    <3> QED  BY SMTT(20), <1>1, <2>1, <3>1, <3>2 DEF Due
  <2> QED  BY Zenon, <2>3, <2>4
<1>8. CASE Pop
  <2>1. run = "drain" /\ UNCHANGED << customEvents, pc >>
    BY Zenon, <1>8 DEF Pop, callVars
  <2>2. Callers' = Callers
    BY Zenon, <2>1 DEF Callers, Calling
  <2>3. CASE custom_events = << >>
    <3>1. UNCHANGED << custom_events, run >>
      BY Zenon, <1>8, <2>3 DEF Pop
    <3> QED  BY Zenon, <1>1, <2>1, <2>2, <3>1 DEF Due
  <2>4. CASE custom_events # << >>
    <3>1. custom_events' = Tail(custom_events) /\ run' = (IF Head(custom_events) = "fn" THEN "cb" ELSE "drain")
      BY Zenon, <1>8, <2>4 DEF Pop
    <3>2. Cardinality(Fns(custom_events')) = Cardinality(Fns(custom_events)) - (IF Head(custom_events) = "fn" THEN 1 ELSE 0)
      BY Zenon, <1>0, <2>4, <3>1, FnsTail
    <3>3. Due' = Due
      BY SMTT(20), <1>1, <2>1, <2>2, <3>1, <3>2 DEF Due
    <3> QED  BY Zenon, <1>1, <2>1, <3>3
  <2> QED  BY Zenon, <2>3, <2>4
<1>9. CASE onCustomEvent
  <2>1. /\ run = "cb" /\ run' = "fn" /\ customEvents # << >> /\ customEvents' = Tail(customEvents)
        /\ UNCHANGED << custom_events, pc >>
    BY Zenon, <1>9 DEF onCustomEvent, fdVars, callVars
  <2>2. Callers' = Callers
    BY Zenon, <2>1 DEF Callers, Calling
  <2>3. Len(customEvents') = Len(customEvents) - 1
    BY SMTT(20), <1>0, <2>1
  <2> QED  BY SMTT(20), <1>0, <1>1, <2>1, <2>2, <2>3 DEF Due
<1>10. CASE FnStops \/ RunStarts \/ CreateEventfds \/ Top \/ Polled \/ Read \/ DrainEnds \/ FnReturns
            \/ RunReturns \/ \E w \in BOOLEAN : Poll(w)
  <2>1. UNCHANGED << custom_events, customEvents, pc >> /\ (run' = "cb" <=> run = "cb")
    BY <1>10, Zenon DEF FnStops, RunStarts, CreateEventfds, Top, Polled, Read, DrainEnds, FnReturns, RunReturns,
                 Poll, fdVars, loopVars, callVars
  <2> QED  BY Zenon, <1>3, <2>1
<1>11. ASSUME NEW t \in Threads, StopTest(t) \/ PauseTest(t) \/ ControlStep(t) \/ Lock(t) \/ Write(t)
       PROVE  Len(customEvents') >= Due' /\ (~CanFail => Len(customEvents') = Due')
  <2>1. UNCHANGED << custom_events, customEvents, run >>
    BY Zenon, <1>11 DEF StopTest, PauseTest, ControlStep, StopSet, PauseSet, ResumeTest, ResumeSet, Lock, Write,
                 fdVars, loopVars
  <2>2. \E l : /\ pc' = [pc EXCEPT ![t] = l]
               /\ t \notin Stoppers => (pc[t] \in {"lock", "write", "push"} <=> l \in {"lock", "write", "push"})
    BY Zenon, <1>11 DEF StopTest, PauseTest, ControlStep, StopSet, PauseSet, ResumeTest, ResumeSet, Lock, Write, Goto
  <2> QED  BY <1>4, <2>1, <2>2, Zenon
<1>12. CASE UNCHANGED vars
  BY Zenon, <1>3, <1>12 DEF vars
<1> QED
  BY ZenonT(30), <1>5, <1>6, <1>7, <1>8, <1>9, <1>10, <1>11, <1>12 DEF Next, LoopStep, PostStep

(***************************************************************************)
(* Whatever the threads, EventLoop's queue holds a functor for every       *)
(* onCustomEvent that is queued, running or about to be posted, so that    *)
(* customEvents.front() never meets an empty queue, and exactly one when   *)
(* no write to the eventfd fails (EventLoop.h:176-201).                    *)
(***************************************************************************)
THEOREM FunctorsMatchCallbacks == Spec => []FunctorsAccounted
<1>1. Init => FunctorsAccounted
  <2> SUFFICES ASSUME Init  PROVE FunctorsAccounted
    BY Zenon
  <2>1. Fns(custom_events) = {} /\ Callers = {} /\ run # "cb" /\ Len(customEvents) = 0
    BY SMTT(20) DEF Init, Fns, Callers, Calling
  <2>2. Due = 0
    BY SMTT(20), <2>1, FS_EmptySet DEF Due
  <2> QED  BY SMTT(20), <2>1, <2>2, AccountedDue
<1>2. PostInv /\ FunctorsAccounted /\ [Next]_vars => FunctorsAccounted'
  BY Zenon, FunctorsStep DEF PostInv
<1> QED  BY <1>1, <1>2, PostInvariant, PTL DEF Spec

-----------------------------------------------------------------------------
(***************************************************************************)
(* A silent connection is noticed in time, for every timeout, every clock  *)
(* and every order of signs of life, settings and late timers.             *)
(***************************************************************************)

\* Rounding takes less than 100 ms from next_timeout and adds nothing
\* (htimer_add and htimer_reset, hloop.c:687 and 713).
LEMMA NextTimeoutBounds ==
    ASSUME cur_hrtime \in Nat, NEW ms \in Nat
    PROVE  /\ NextTimeout(ms) \in Nat
           /\ NextTimeout(ms) <= cur_hrtime + ms * 1000
           /\ NextTimeout(ms) > cur_hrtime + ms * 1000 - 100000
<1> DEFINE exact == cur_hrtime + ms * 1000
<1>1. exact \in Nat
  OBVIOUS
<1> HIDE DEF exact
<1>2. /\ (exact \div 100000) * 100000 \in Nat
      /\ (exact \div 100000) * 100000 <= exact
      /\ (exact \div 100000) * 100000 > exact - 100000
  BY <1>1
<1> QED
  BY <1>1, <1>2 DEF NextTimeout, exact

\* The last sign of life of a kind is a time that has been.
LEMMA LastIsPast ==
    ASSUME HtInv, NEW k \in Kinds
    PROVE  LastLife(k) \in Nat /\ LastLife(k) <= cur_hrtime
BY HioTimersAssumption DEF HioTimersAssumption, HtInv, HtTypeOK, LastLife, MAX

\* A new io has no timer and has just been touched.
LEMMA InitInv == HtInit => HtInv
<1> SUFFICES ASSUME HtInit
             PROVE  HtInv
  OBVIOUS
<1>1. HtTypeOK
  BY HioTimersAssumption, Zenon DEF HioTimersAssumption, HtInit, HtTypeOK
<1>2. SilenceIsNoticed
  BY Zenon DEF HtInit, SilenceIsNoticed
<1>3. \A k \in Kinds : io_timeout[k] = 0 /\ since[k] = 0
  BY DEF HtInit
<1> QED
  BY <1>1, <1>2, <1>3 DEF HtInit, HtInv, HtTypeOK

\* A callback that finds the connection alive moves its timer to where the
\* timeout will have passed since the last sign of life.
LEMMA FireMoves ==
    ASSUME HtInv, NEW k \in Kinds, opened, io_timeout[k] > 0, Alive(k)
    PROVE  /\ NextTimeout(ResetFor(k)) \in Nat
           /\ NextTimeout(ResetFor(k)) < LastLife(k) + io_timeout[k] * 1000 + 1000
           /\ (NextTimeout(ResetFor(k)) - LastLife(k)) \div 1000 + 100 >= io_timeout[k]
<1> DEFINE silent == cur_hrtime - LastLife(k)
           T == io_timeout[k]
           next == NextTimeout(ResetFor(k))
<1>1. cur_hrtime \in Nat /\ LastLife(k) \in Nat /\ silent \in Nat /\ T \in Nat
  BY LastIsPast DEF HtInv, HtTypeOK
<1>2. /\ Inactive(k) = silent \div 1000
      /\ Inactive(k) + 100 < T
  BY DEF Inactive, Alive
<1>3. /\ silent \div 1000 \in Nat
      /\ (silent \div 1000) * 1000 <= silent
      /\ silent < (silent \div 1000) * 1000 + 1000
  BY <1>1
<1>4. ResetFor(k) \in Nat /\ ResetFor(k) = T - (silent \div 1000)
  BY <1>1, <1>2, <1>3 DEF ResetFor
<1>5. /\ next \in Nat
      /\ next <= cur_hrtime + ResetFor(k) * 1000
      /\ next > cur_hrtime + ResetFor(k) * 1000 - 100000
  BY <1>1, <1>4, NextTimeoutBounds
<1>6. /\ next < LastLife(k) + T * 1000 + 1000
      /\ next - LastLife(k) > T * 1000 - 100000
  <2> DEFINE q == silent \div 1000
  <2>1. q \in Nat /\ q * 1000 <= cur_hrtime - LastLife(k) /\ cur_hrtime - LastLife(k) < q * 1000 + 1000
    BY <1>3
  <2>2. next <= cur_hrtime + (T - q) * 1000 /\ next > cur_hrtime + (T - q) * 1000 - 100000
    BY <1>4, <1>5
  <2> HIDE DEF q, next, T, silent
  <2> QED
    BY <1>1, <1>5, <2>1, <2>2
<1>7. (next - LastLife(k)) \div 1000 + 100 >= T
  <2> DEFINE d == next - LastLife(k)
  <2>1. d \in Int /\ d > T * 1000 - 100000 /\ T \in Nat
    BY <1>1, <1>5, <1>6
  <2> HIDE DEF d, T
  <2>2. d \div 1000 + 100 >= T
    BY <2>1
  <2> QED
    BY <2>2 DEF d
<1> QED
  BY <1>5, <1>6, <1>7

\* A sign of life is no reason to notice silence later: where it counts, the
\* deadline moves with it, and elsewhere nothing has changed.
LEMMA HeardLater ==
    ASSUME HtInv,
           UNCHANGED << cur_hrtime, opened, io_timeout, next_timeout, since >>,
           \A k \in Kinds : LastLife(k)' \in Nat /\ LastLife(k)' >= LastLife(k),
           \A k \in Kinds : quiet'[k] => quiet[k] /\ LastLife(k)' = LastLife(k)
    PROVE  SilenceIsNoticed'
<1> SUFFICES ASSUME NEW k \in Kinds, opened, io_timeout[k] > 0
             PROVE  /\ next_timeout[k] < MAX(LastLife(k)', since[k]) + io_timeout[k] * 1000 + 1000
                    /\ quiet'[k] => (next_timeout[k] - LastLife(k)') \div 1000 + 100 >= io_timeout[k]
  BY DEF SilenceIsNoticed, MAX
<1>1. LastLife(k) \in Nat
  BY LastIsPast
<1>2. next_timeout[k] < MAX(LastLife(k), since[k]) + io_timeout[k] * 1000 + 1000
  BY DEF HtInv, SilenceIsNoticed
<1>3. next_timeout[k] < MAX(LastLife(k)', since[k]) + io_timeout[k] * 1000 + 1000
  BY <1>1, <1>2 DEF HtInv, HtTypeOK, MAX
<1>4. quiet'[k] => (next_timeout[k] - LastLife(k)') \div 1000 + 100 >= io_timeout[k]
  BY DEF HtInv, SilenceIsNoticed
<1> QED
  BY <1>3, <1>4

\* Every step of the connection keeps the invariant.
LEMMA StepInv == HtInv /\ [HtNext]_htvars => HtInv'
<1> SUFFICES ASSUME HtInv, [HtNext]_htvars
             PROVE  HtInv'
  OBVIOUS
<1> USE DEF HtInv, HtTypeOK
<1>1. \A k \in Kinds : LastLife(k) \in Nat /\ LastLife(k) <= cur_hrtime
  BY LastIsPast
<1>2. CASE hio_ready
  BY <1>2 DEF hio_ready, SilenceIsNoticed
<1>3. CASE __close_cb
  <2>1. HtTypeOK'
    BY <1>3, Zenon DEF __close_cb
  <2>2. SilenceIsNoticed'
    BY <1>3, Zenon DEF __close_cb, SilenceIsNoticed
  <2>3. \A k \in Kinds : io_timeout'[k] = 0 /\ since'[k] = 0
    BY <1>3 DEF __close_cb
  <2> QED
    BY <1>3, <2>1, <2>2, <2>3 DEF __close_cb
<1>4. CASE __read_cb
  <2>1. \A k \in Kinds : quiet'[k] => quiet[k] /\ k \notin {"read", "keepalive"}
    BY <1>4, Zenon DEF __read_cb, Heard
  <2>2. \A k \in Kinds : LastLife(k)' \in Nat /\ LastLife(k)' >= LastLife(k)
    BY <1>4, HioTimersAssumption DEF __read_cb, LastLife, MAX, HioTimersAssumption
  <2>3. \A k \in Kinds : k \notin {"read", "keepalive"} => LastLife(k)' = LastLife(k)
    BY <1>4, HioTimersAssumption DEF __read_cb, LastLife, HioTimersAssumption
  <2>4. UNCHANGED << cur_hrtime, opened, io_timeout, next_timeout, since >>
    BY <1>4 DEF __read_cb
  <2>5. SilenceIsNoticed'
    BY <1>1, <2>1, <2>2, <2>3, <2>4, HeardLater
  <2> QED
    BY <1>4, <2>4, <2>5 DEF __read_cb, Heard
<1>5. CASE __write_cb
  <2>1. \A k \in Kinds : quiet'[k] => quiet[k] /\ k \notin {"write", "keepalive"}
    BY <1>5, Zenon DEF __write_cb, Heard
  <2>2. \A k \in Kinds : LastLife(k)' \in Nat /\ LastLife(k)' >= LastLife(k)
    BY <1>5, HioTimersAssumption DEF __write_cb, LastLife, MAX, HioTimersAssumption
  <2>3. \A k \in Kinds : k \notin {"write", "keepalive"} => LastLife(k)' = LastLife(k)
    BY <1>5, HioTimersAssumption DEF __write_cb, LastLife, HioTimersAssumption
  <2>4. UNCHANGED << cur_hrtime, opened, io_timeout, next_timeout, since >>
    BY <1>5 DEF __write_cb
  <2>5. SilenceIsNoticed'
    BY <1>1, <2>1, <2>2, <2>3, <2>4, HeardLater
  <2> QED
    BY <1>5, <2>4, <2>5 DEF __write_cb, Heard
<1>6. ASSUME NEW k \in Kinds, NEW ms \in Millis, SetTimeout(k, ms)
      PROVE  HtInv'
  <2>1. ms \in Nat
    BY HioTimersAssumption DEF HioTimersAssumption
  <2>2. /\ NextTimeout(ms) \in Nat
        /\ NextTimeout(ms) <= cur_hrtime + ms * 1000
        /\ NextTimeout(ms) > cur_hrtime + ms * 1000 - 100000
    BY <2>1, NextTimeoutBounds
  <2>3. \A j \in Kinds : LastLife(j)' = LastLife(j)
    BY <1>6 DEF SetTimeout, LastLife
  <2>4. /\ NextTimeout(ms) < MAX(LastLife(k), cur_hrtime) + ms * 1000 + 1000
        /\ (NextTimeout(ms) - LastLife(k)) \div 1000 + 100 >= ms
    <3> DEFINE d == NextTimeout(ms) - LastLife(k)
    <3>1. d \in Int /\ d > ms * 1000 - 100000
      BY <1>1, <2>1, <2>2
    <3>2. NextTimeout(ms) < MAX(LastLife(k), cur_hrtime) + ms * 1000 + 1000
      BY <1>1, <2>1, <2>2 DEF MAX
    <3> HIDE DEF d
    <3>3. d \div 1000 + 100 >= ms
      BY <2>1, <3>1
    <3> QED
      BY <3>2, <3>3 DEF d
  <2>5. SilenceIsNoticed'
    BY <1>6, <2>1, <2>3, <2>4 DEF SetTimeout, SilenceIsNoticed, MAX
  <2> QED
    BY <1>6, <2>1, <2>2, <2>5 DEF SetTimeout
<1>7. ASSUME NEW k \in Kinds, TimeoutCb(k), Alive(k)
      PROVE  HtInv'
  <2>1. /\ NextTimeout(ResetFor(k)) \in Nat
        /\ NextTimeout(ResetFor(k)) < LastLife(k) + io_timeout[k] * 1000 + 1000
        /\ (NextTimeout(ResetFor(k)) - LastLife(k)) \div 1000 + 100 >= io_timeout[k]
    BY <1>7, FireMoves DEF TimeoutCb
  <2>2. \A j \in Kinds : LastLife(j)' = LastLife(j)
    BY <1>7, Zenon DEF TimeoutCb, LastLife
  <2>3. SilenceIsNoticed'
    BY <1>7, <1>1, <2>1, <2>2 DEF TimeoutCb, SilenceIsNoticed, MAX
  <2>4. /\ next_timeout' = [next_timeout EXCEPT ![k] = NextTimeout(ResetFor(k))]
        /\ quiet' = [quiet EXCEPT ![k] = TRUE]
        /\ UNCHANGED << cur_hrtime, opened, last_read_hrtime, last_write_hrtime, io_timeout, since >>
    BY <1>7 DEF TimeoutCb
  <2>5. HtTypeOK'
    BY <2>1, <2>4
  <2> QED
    BY <2>3, <2>4, <2>5
<1>8. ASSUME NEW d \in Steps, UpdateTime(d)
      PROVE  HtInv'
  <2>1. \A j \in Kinds : LastLife(j)' = LastLife(j)
    BY <1>8 DEF UpdateTime, LastLife
  <2>2. SilenceIsNoticed'
    BY <1>8, <2>1 DEF UpdateTime, SilenceIsNoticed, MAX
  <2> QED
    BY <1>8, <2>2, HioTimersAssumption DEF UpdateTime, HioTimersAssumption
<1>9. CASE UNCHANGED htvars
  <2>1. \A j \in Kinds : LastLife(j)' = LastLife(j)
    BY <1>9 DEF htvars, LastLife
  <2>2. SilenceIsNoticed'
    BY <1>9, <2>1 DEF htvars, SilenceIsNoticed, MAX
  <2> QED
    BY <1>9, <2>2 DEF htvars
<1> QED
  BY <1>2, <1>3, <1>4, <1>5, <1>6, <1>7, <1>8, <1>9, ZenonT(30) DEF HtNext, TimeoutCb

\* Whatever the timeouts are, however late the timers run and in whatever order
\* reads, writes and settings come, silence is noticed in time
\* (__read_timeout_cb, __write_timeout_cb and __keepalive_timeout_cb).
THEOREM SilenceIsAlwaysNoticed == HtSpec => []SilenceIsNoticed
<1>1. HtInit => HtInv
  BY InitInv
<1>2. HtInv /\ [HtNext]_htvars => HtInv'
  BY StepInv
<1>3. HtInv => SilenceIsNoticed
  BY DEF HtInv
<1> QED
  BY <1>1, <1>2, <1>3, PTL DEF HtSpec

-----------------------------------------------------------------------------
(***************************************************************************)
(* The timer table (EvTimers), for any identifiers and any number of       *)
(* timers and calls, when timers are one-shot or endless and no callback   *)
(* sets its own identifier again.                                          *)
(***************************************************************************)

TmStates == {"armed", "expired", "last", "dead", "freed"}

\* In the heap, or pending and not deleted.
Ticking(h) == hst[h] \in {"armed", "expired", "last"}

TablesType ==
    /\ tid \in Seq(TimerID) /\ hrep \in Seq(Nat) /\ trep \in Seq(Nat) /\ hst \in Seq(TmStates)
    /\ Len(hrep) = Len(tid) /\ Len(trep) = Len(tid) /\ Len(hst) = Len(tid)
    /\ timers \in [TimerID -> 0 .. Len(tid)] /\ fired \in 0 .. Len(tid)

\* The entries are exactly the timers that are alive; the identifier of the
\* callback that runs is not given to another timer.
EntriesTicking ==
    /\ \A id \in TimerID : timers[id] # 0 => tid[timers[id]] = id /\ Ticking(timers[id])
    /\ \A h \in 1 .. Len(tid) : Ticking(h) => timers[tid[h]] = h
    /\ fired # 0 => timers[tid[fired]] \in {0, fired}

\* What the htimer and the Timer object have left: the second is behind between
\* the expiry and the callback.
RepeatsLeft ==
    \A h \in 1 .. Len(tid) :
        /\ hst[h] = "armed" => hrep[h] = trep[h] /\ hrep[h] \in {1, FOREVER}
        /\ hst[h] = "expired" => hrep[h] = FOREVER /\ trep[h] = FOREVER
        /\ hst[h] = "last" => hrep[h] = 0 /\ trep[h] = IF h = fired THEN 0 ELSE 1

Tables == TablesType /\ EntriesTicking /\ RepeatsLeft

Functors == [op : {"set"}, id : TimerID, n : TimerRepeats] \cup [op : {"kill", "reset"}, id : TimerID]

TmInv ==
    /\ Tables
    /\ functors \in Seq(Functors)
    /\ held = fired /\ (where # "cb" => fired = 0)

-----------------------------------------------------------------------------

\* Writing a sequence in one place.
LEMMA TmPut ==
    ASSUME NEW S, NEW q \in Seq(S), NEW i \in 1 .. Len(q), NEW v \in S, NEW r, r = [q EXCEPT ![i] = v]
    PROVE  r \in Seq(S) /\ Len(r) = Len(q) /\ r[i] = v /\ \A j \in 1 .. Len(q) : j # i => r[j] = q[j]
<1>1. r \in Seq(S) /\ Len(r) = Len(q)
  BY SMTT(20), ExceptSeq
<1> QED  BY SMTT(20), <1>1

\* Adding to a sequence.
LEMMA TmAdded ==
    ASSUME NEW S, NEW q \in Seq(S), NEW v \in S, NEW r, r = Append(q, v)
    PROVE  /\ r \in Seq(S) /\ Len(r) = Len(q) + 1 /\ r[Len(q) + 1] = v
           /\ \A j \in 1 .. Len(q) : r[j] = q[j]
BY SMTT(20)

\* killTimer: the timer is deleted and its entry goes.
LEMMA KillTables ==
    ASSUME Tables, NEW id \in TimerID, Kill(id), UNCHANGED << tid, hrep, trep, fired >>
    PROVE  Tables'
<1>0. TablesType /\ EntriesTicking /\ RepeatsLeft
  BY ZenonT(30) DEF Tables
<1>1. CASE timers[id] = 0
  BY SMTT(20), <1>0, <1>1 DEF Kill, Tables, TablesType, EntriesTicking, RepeatsLeft, Ticking
<1>2. CASE timers[id] # 0
  <2> DEFINE h == timers[id]
  <2>1. /\ h \in 1 .. Len(tid) /\ h \in 1 .. Len(hst) /\ tid[h] = id /\ Ticking(h)
        /\ hst' = [hst EXCEPT ![h] = Deleted(h)] /\ timers' = [timers EXCEPT ![id] = 0]
    BY SMTT(20), <1>0, <1>2 DEF TablesType, EntriesTicking, Kill
  <2>2. Deleted(h) \in {"dead", "freed"}
    BY Zenon DEF Deleted
  <2> HIDE DEF h
  <2>3. /\ hst' \in Seq(TmStates) /\ Len(hst') = Len(hst) /\ hst'[h] \in {"dead", "freed"}
        /\ \A j \in 1 .. Len(hst) : j # h => hst'[j] = hst[j]
    BY SMTT(20), <1>0, <2>1, <2>2, TmPut DEF TablesType, TmStates
  <2>4. /\ timers' \in [TimerID -> 0 .. Len(tid)] /\ timers'[id] = 0
        /\ \A i \in TimerID : i # id => timers'[i] = timers[i]
    BY SMTT(20), <1>0, <2>1 DEF TablesType
  <2>5. TablesType'
    BY Zenon, <1>0, <2>3, <2>4 DEF TablesType
  <2>6. EntriesTicking'
    <3>1. ASSUME NEW i \in TimerID, timers'[i] # 0
          PROVE  tid[timers'[i]] = i /\ hst'[timers'[i]] \in {"armed", "expired", "last"}
      <4>1. i # id /\ timers'[i] = timers[i]
        BY Zenon, <2>4, <3>1
      <4>2. tid[timers[i]] = i /\ Ticking(timers[i]) /\ timers[i] \in 1 .. Len(tid) /\ timers[i] # h
        BY SMTT(20), <1>0, <2>1, <3>1, <4>1 DEF EntriesTicking, TablesType
      <4> QED  BY Zenon, <1>0, <2>3, <4>1, <4>2 DEF Ticking, TablesType
    <3>2. ASSUME NEW j \in 1 .. Len(tid), Ticking(j)'  PROVE timers'[tid[j]] = j
      <4>1. j # h /\ Ticking(j)
        BY Zenon, <1>0, <2>3, <3>2 DEF Ticking, TablesType
      <4>2. timers[tid[j]] = j /\ tid[j] \in TimerID /\ timers[id] = h
        BY SMTT(20), <1>0, <4>1 DEF EntriesTicking, TablesType, h
      <4> QED  BY Zenon, <2>4, <4>1, <4>2
    <3>3. fired # 0 => timers'[tid[fired]] \in {0, fired}
      BY SMTT(20), <1>0, <2>4 DEF EntriesTicking, TablesType
    <3> QED  BY Zenon, <3>1, <3>2, <3>3 DEF EntriesTicking, Ticking
  <2>7. RepeatsLeft'
    BY <1>0, <2>3, Zenon DEF RepeatsLeft, TablesType
  <2> QED  BY ZenonT(30), <2>5, <2>6, <2>7 DEF Tables
<1> QED  BY Zenon, <1>1, <1>2

\* resetTimer: the timer goes back into the heap with a repeat left.
LEMMA ResetTables ==
    ASSUME Tables, NEW id \in TimerID, ResetNow(id), UNCHANGED << timers, tid, fired >>
    PROVE  Tables'
<1>0. TablesType /\ EntriesTicking /\ RepeatsLeft /\ FOREVER \in Nat \ {0, 1}
  BY ZenonT(30), TimersAssumption DEF Tables, TimersAssumption
<1>1. CASE timers[id] = 0
  BY SMTT(20), <1>0, <1>1 DEF ResetNow, Tables, TablesType, EntriesTicking, RepeatsLeft, Ticking
<1>2. CASE timers[id] # 0
  <2> DEFINE h == timers[id]
             a == IF hrep[h] = 0 THEN 1 ELSE hrep[h]
             b == IF trep[h] = 0 THEN 1 ELSE trep[h]
  <2>1. /\ h \in 1 .. Len(tid) /\ tid[h] = id /\ Ticking(h)
        /\ hst' = [hst EXCEPT ![h] = "armed"]
        /\ hrep' = [hrep EXCEPT ![h] = a] /\ trep' = [trep EXCEPT ![h] = b]
    BY SMTT(20), <1>0, <1>2 DEF TablesType, EntriesTicking, ResetNow
  <2>2. a = b /\ a \in {1, FOREVER} /\ a \in Nat /\ b \in Nat
    BY SMTT(20), <1>0, <2>1 DEF RepeatsLeft, Ticking
  <2> HIDE DEF h, a, b
  <2>3. /\ hst' \in Seq(TmStates) /\ Len(hst') = Len(tid) /\ hst'[h] = "armed"
        /\ \A j \in 1 .. Len(tid) : j # h => hst'[j] = hst[j]
    BY SMTT(20), <1>0, <2>1, TmPut DEF TablesType, TmStates
  <2>4. /\ hrep' \in Seq(Nat) /\ Len(hrep') = Len(tid) /\ hrep'[h] = a
        /\ \A j \in 1 .. Len(tid) : j # h => hrep'[j] = hrep[j]
    BY SMTT(20), <1>0, <2>1, <2>2, TmPut DEF TablesType
  <2>5. /\ trep' \in Seq(Nat) /\ Len(trep') = Len(tid) /\ trep'[h] = b
        /\ \A j \in 1 .. Len(tid) : j # h => trep'[j] = trep[j]
    BY SMTT(20), <1>0, <2>1, <2>2, TmPut DEF TablesType
  <2>6. TablesType'
    BY Zenon, <1>0, <2>3, <2>4, <2>5 DEF TablesType
  <2>7. \A j \in 1 .. Len(tid) : Ticking(j)' <=> Ticking(j)
    BY Zenon, <2>1, <2>3 DEF Ticking
  <2>8. EntriesTicking'
    <3>1. \A i \in TimerID : timers[i] # 0 => timers[i] \in 1 .. Len(tid)
      BY SMTT(20), <1>0 DEF TablesType
    <3> QED  BY Zenon, <1>0, <2>7, <3>1 DEF EntriesTicking
  <2>9. RepeatsLeft'
    <3> SUFFICES ASSUME NEW j \in 1 .. Len(tid)
                 PROVE  /\ hst'[j] = "armed" => hrep'[j] = trep'[j] /\ hrep'[j] \in {1, FOREVER}
                        /\ hst'[j] = "expired" => hrep'[j] = FOREVER /\ trep'[j] = FOREVER
                        /\ hst'[j] = "last" => hrep'[j] = 0 /\ trep'[j] = IF j = fired THEN 0 ELSE 1
      BY Zenon DEF RepeatsLeft
    <3>1. CASE j = h
      BY Zenon, <2>2, <2>3, <2>4, <2>5, <3>1
    <3>2. CASE j # h
      BY <1>0, <2>3, <2>4, <2>5, <3>2, Zenon DEF RepeatsLeft
    <3> QED  BY Zenon, <3>1, <3>2
  <2> QED  BY ZenonT(30), <2>6, <2>8, <2>9 DEF Tables
<1> QED  BY Zenon, <1>1, <1>2

\* setTimer: the old timer of the identifier is deleted and a new one takes its
\* entry; not while the callback of that identifier runs.
LEMMA SetTables ==
    ASSUME Tables, TimerRepeats \subseteq {1, FOREVER}, NEW id \in TimerID, NEW n \in TimerRepeats, SetNow(id, n),
           UNCHANGED fired, fired # 0 => tid[fired] # id
    PROVE  Tables'
<1>0. TablesType /\ EntriesTicking /\ RepeatsLeft /\ FOREVER \in Nat \ {0, 1} /\ n \in {1, FOREVER}
  BY Zenon, TimersAssumption DEF Tables, TimersAssumption
<1> DEFINE old == timers[id]
           hs == IF old = 0 THEN hst ELSE [hst EXCEPT ![old] = Deleted(old)]
           N == Len(tid)
<1>1. /\ tid' = Append(tid, id) /\ hrep' = Append(hrep, n) /\ trep' = Append(trep, n)
      /\ hst' = Append(hs, "armed") /\ timers' = [timers EXCEPT ![id] = Len(tid')]
  BY Zenon DEF SetNow
<1>2. /\ N \in Nat /\ old \in 0 .. N /\ (old # 0 => tid[old] = id /\ Ticking(old))
      /\ (old = 0 => hs = hst) /\ (old # 0 => hs = [hst EXCEPT ![old] = Deleted(old)])
      /\ Deleted(old) \in {"dead", "freed"}
  BY SMTT(20), <1>0 DEF TablesType, EntriesTicking, Deleted
<1> HIDE DEF old, hs, N
<1>3. /\ hs \in Seq(TmStates) /\ Len(hs) = N /\ (old # 0 => hs[old] \in {"dead", "freed"})
      /\ \A j \in 1 .. N : j # old => hs[j] = hst[j]
  <2>1. hst \in Seq(TmStates) /\ Len(hst) = N
    BY Zenon, <1>0 DEF TablesType, N
  <2>2. CASE old = 0
    BY Zenon, <1>2, <2>1, <2>2
  <2>3. CASE old # 0
    <3>1. old \in 1 .. Len(hst) /\ Deleted(old) \in TmStates
      BY SMTT(20), <1>2, <2>1, <2>3 DEF TmStates
    <3>2. hs = [hst EXCEPT ![old] = Deleted(old)]
      BY Zenon, <1>2, <2>3
    <3>3. /\ hs \in Seq(TmStates) /\ Len(hs) = Len(hst) /\ hs[old] = Deleted(old)
          /\ \A j \in 1 .. Len(hst) : j # old => hs[j] = hst[j]
      BY SMTT(20), <2>1, <3>1, <3>2, TmPut
    <3> QED  BY Zenon, <1>2, <2>1, <3>3
  <2> QED  BY Zenon, <2>2, <2>3
<1>4. /\ tid' \in Seq(TimerID) /\ Len(tid') = N + 1 /\ tid'[N + 1] = id
      /\ \A j \in 1 .. N : tid'[j] = tid[j]
  BY SMTT(20), <1>0, <1>1, TmAdded DEF TablesType, N
<1>5. /\ hrep' \in Seq(Nat) /\ Len(hrep') = N + 1 /\ hrep'[N + 1] = n
      /\ \A j \in 1 .. N : hrep'[j] = hrep[j]
  BY SMTT(20), <1>0, <1>1, TmAdded DEF TablesType, N
<1>6. /\ trep' \in Seq(Nat) /\ Len(trep') = N + 1 /\ trep'[N + 1] = n
      /\ \A j \in 1 .. N : trep'[j] = trep[j]
  BY SMTT(20), <1>0, <1>1, TmAdded DEF TablesType, N
<1>7. /\ hst' \in Seq(TmStates) /\ Len(hst') = N + 1 /\ hst'[N + 1] = "armed"
      /\ \A j \in 1 .. N : hst'[j] = hs[j]
  BY SMTT(20), <1>1, <1>3, TmAdded DEF TmStates
<1>8. /\ timers' \in [TimerID -> 0 .. N + 1] /\ timers'[id] = N + 1
      /\ \A i \in TimerID : i # id => timers'[i] = timers[i]
  BY SMTT(20), <1>0, <1>1, <1>2, <1>4 DEF TablesType, N
<1>9. TablesType'
  <2>1. fired \in 0 .. N + 1
    BY SMTT(20), <1>0, <1>2 DEF TablesType, N
  <2> QED  BY Zenon, <1>4, <1>5, <1>6, <1>7, <1>8, <2>1 DEF TablesType
<1>10. \A j \in 1 .. N : hst'[j] \in {"armed", "expired", "last"} <=> Ticking(j) /\ j # old
  BY SMTT(20), <1>2, <1>3, <1>7 DEF Ticking
<1>11. EntriesTicking'
  <2>1. ASSUME NEW i \in TimerID, timers'[i] # 0
        PROVE  tid'[timers'[i]] = i /\ hst'[timers'[i]] \in {"armed", "expired", "last"}
    <3>1. CASE i = id
      BY Zenon, <1>4, <1>7, <1>8, <3>1
    <3>2. CASE i # id
      <4>1. timers'[i] = timers[i] /\ timers[i] \in 1 .. N /\ tid[timers[i]] = i /\ Ticking(timers[i])
        BY SMTT(20), <1>0, <1>8, <2>1, <3>2 DEF EntriesTicking, TablesType, N
      <4>2. timers[i] # old
        BY SMTT(20), <1>2, <3>2, <4>1
      <4> QED  BY ZenonT(30), <1>4, <1>10, <4>1, <4>2
    <3> QED  BY Zenon, <3>1, <3>2
  <2>2. ASSUME NEW j \in 1 .. N + 1, hst'[j] \in {"armed", "expired", "last"}
        PROVE  timers'[tid'[j]] = j
    <3>1. CASE j = N + 1
      BY Zenon, <1>4, <1>8, <3>1
    <3>2. CASE j \in 1 .. N
      <4>1. Ticking(j) /\ j # old /\ tid'[j] = tid[j]
        BY ZenonT(30), <1>4, <1>10, <2>2, <3>2
      <4>2. tid[j] \in TimerID /\ timers[tid[j]] = j
        BY SMTT(20), <1>0, <3>2, <4>1 DEF EntriesTicking, TablesType, N
      <4>3. tid[j] # id
        BY Zenon, <4>1, <4>2 DEF old
      <4> QED  BY Zenon, <1>8, <4>1, <4>2, <4>3
    <3> QED  BY SMTT(20), <1>2, <3>1, <3>2
  <2>3. fired # 0 => timers'[tid'[fired]] \in {0, fired}
    <3> SUFFICES ASSUME fired # 0  PROVE timers'[tid'[fired]] \in {0, fired}
      BY Zenon
    <3>1. fired \in 1 .. N /\ tid[fired] \in TimerID /\ timers[tid[fired]] \in {0, fired}
      BY SMTT(20), <1>0 DEF EntriesTicking, TablesType, N
    <3> QED  BY Zenon, <1>4, <1>8, <3>1
  <2> QED  BY Zenon, <1>4, <2>1, <2>2, <2>3 DEF EntriesTicking, Ticking
<1>12. RepeatsLeft'
  <2> SUFFICES ASSUME NEW j \in 1 .. N + 1
               PROVE  /\ hst'[j] = "armed" => hrep'[j] = trep'[j] /\ hrep'[j] \in {1, FOREVER}
                      /\ hst'[j] = "expired" => hrep'[j] = FOREVER /\ trep'[j] = FOREVER
                      /\ hst'[j] = "last" => hrep'[j] = 0 /\ trep'[j] = IF j = fired THEN 0 ELSE 1
    BY Zenon, <1>4 DEF RepeatsLeft
  <2>1. CASE j = N + 1
    BY ZenonT(30), <1>0, <1>5, <1>6, <1>7, <2>1
  <2>2. CASE j \in 1 .. N /\ j = old
    BY SMTT(20), <1>3, <1>7, <2>2
  <2>3. CASE j \in 1 .. N /\ j # old
    <3>1. hst'[j] = hst[j] /\ hrep'[j] = hrep[j] /\ trep'[j] = trep[j]
      BY ZenonT(30), <1>3, <1>5, <1>6, <1>7, <2>3
    <3>2. j \in 1 .. Len(tid)
      BY Zenon, <2>3 DEF N
    <3> QED  BY Zenon, <1>0, <3>1, <3>2 DEF RepeatsLeft
  <2> QED  BY SMTT(20), <1>2, <2>1, <2>2, <2>3
<1> QED  BY Zenon, <1>9, <1>11, <1>12 DEF Tables

\* Timers expire: the htimer counts down, and one that has run out is marked.
LEMMA ExpireTables ==
    ASSUME Tables, NEW due \in SUBSET (1 .. Len(tid)), Expire(due), fired = 0
    PROVE  Tables'
<1>0. TablesType /\ EntriesTicking /\ RepeatsLeft /\ FOREVER \in Nat \ {0, 1}
  BY Zenon, TimersAssumption DEF Tables, TimersAssumption
<1>1. /\ \A h \in due : hst[h] = "armed"
      /\ UNCHANGED << timers, tid, trep, fired >>
      /\ Len(tid) \in Nat
  BY SMTT(20), <1>0 DEF Expire, TablesType
<1>2. /\ hrep' = [h \in 1 .. Len(tid) |->
                    IF h \in due /\ hrep[h] # FOREVER THEN hrep[h] - 1 ELSE hrep[h]]
      /\ hst' = [h \in 1 .. Len(tid) |->
                    IF h \notin due THEN hst[h] ELSE IF hrep'[h] = 0 THEN "last" ELSE "expired"]
  BY Zenon DEF Expire
<1>3. \A h \in 1 .. Len(tid) : /\ hrep[h] \in Nat /\ hst[h] \in TmStates
                               /\ h \in due => hrep[h] = trep[h] /\ hrep[h] \in {1, FOREVER}
  BY SMTT(20), <1>0, <1>1 DEF TablesType, RepeatsLeft
<1>4. \A h \in 1 .. Len(tid) :
         /\ h \notin due => hrep'[h] = hrep[h] /\ hst'[h] = hst[h]
         /\ h \in due => IF hrep[h] = 1 THEN hrep'[h] = 0 /\ hst'[h] = "last"
                         ELSE hrep'[h] = FOREVER /\ hst'[h] = "expired"
  BY SMTT(20), <1>0, <1>2, <1>3
<1>5. hrep' \in Seq(Nat) /\ Len(hrep') = Len(tid)
  <2>1. \A h \in 1 .. Len(tid) : hrep'[h] \in Nat
    BY SMTT(20), <1>0, <1>3, <1>4
  <2>2. hrep' \in [1 .. Len(tid) -> Nat]
    BY Zenon, <1>2, <2>1
  <2> QED  BY SMTT(20), <1>1, <2>2, SeqDef
<1>6. hst' \in Seq(TmStates) /\ Len(hst') = Len(tid)
  <2>1. \A h \in 1 .. Len(tid) : hst'[h] \in TmStates
    BY Zenon, <1>3, <1>4 DEF TmStates
  <2>2. hst' \in [1 .. Len(tid) -> TmStates]
    BY Zenon, <1>2, <2>1
  <2> QED  BY SMTT(20), <1>1, <2>2, SeqDef
<1>7. TablesType'
  BY Zenon, <1>0, <1>1, <1>5, <1>6 DEF TablesType
<1>8. \A h \in 1 .. Len(tid) : hst'[h] \in {"armed", "expired", "last"} <=> Ticking(h)
  BY Zenon, <1>1, <1>4 DEF Ticking
<1>9. EntriesTicking'
  <2>1. \A i \in TimerID : timers[i] # 0 => timers[i] \in 1 .. Len(tid)
    BY SMTT(20), <1>0 DEF TablesType
  <2> QED  BY Zenon, <1>0, <1>1, <1>8, <2>1 DEF EntriesTicking, Ticking
<1>10. RepeatsLeft'
  <2> SUFFICES ASSUME NEW j \in 1 .. Len(tid)
               PROVE  /\ hst'[j] = "armed" => hrep'[j] = trep[j] /\ hrep'[j] \in {1, FOREVER}
                      /\ hst'[j] = "expired" => hrep'[j] = FOREVER /\ trep[j] = FOREVER
                      /\ hst'[j] = "last" => hrep'[j] = 0 /\ trep[j] = IF j = fired THEN 0 ELSE 1
    BY Zenon, <1>1 DEF RepeatsLeft
  <2>1. CASE j \in due
    BY SMTT(20), <1>3, <1>4, <2>1
  <2>2. CASE j \notin due
    BY Zenon, <1>0, <1>4, <2>2 DEF RepeatsLeft
  <2> QED  BY Zenon, <2>1, <2>2
<1> QED  BY Zenon, <1>7, <1>9, <1>10 DEF Tables

\* A pending timer is freed, or its callback starts with the Timer object of its
\* own entry and one repeat fewer.
LEMMA DispatchTables ==
    ASSUME TmInv, NEW h \in 1 .. Len(tid), Dispatch(h)
    PROVE  Tables' /\ held' = fired' /\ (where' # "cb" => fired' = 0)
<1>0. TablesType /\ EntriesTicking /\ RepeatsLeft /\ fired = 0 /\ held = 0
  BY Zenon DEF TmInv, Tables, Dispatch
<1>1. UNCHANGED << timers, tid, hrep >> /\ Pending(h) /\ where = "dispatch" /\ FOREVER \in Nat \ {0, 1}
  BY Zenon, TimersAssumption DEF Dispatch, TimersAssumption
<1>2. CASE hst[h] = "dead"
  <2>1. hst' = [hst EXCEPT ![h] = "freed"] /\ UNCHANGED << trep, where, fired, held >>
    BY Zenon, <1>2 DEF Dispatch
  <2>2. /\ hst' \in Seq(TmStates) /\ Len(hst') = Len(tid) /\ hst'[h] = "freed"
        /\ \A j \in 1 .. Len(tid) : j # h => hst'[j] = hst[j]
    BY SMTT(20), <1>0, <2>1, TmPut DEF TablesType, TmStates
  <2>3. TablesType'
    BY Zenon, <1>0, <1>1, <2>1, <2>2 DEF TablesType
  <2>4. \A j \in 1 .. Len(tid) : hst'[j] \in {"armed", "expired", "last"} <=> Ticking(j)
    BY Zenon, <1>2, <2>2 DEF Ticking
  <2>5. EntriesTicking'
    <3>1. \A i \in TimerID : timers[i] # 0 => timers[i] \in 1 .. Len(tid)
      BY SMTT(20), <1>0 DEF TablesType
    <3> QED  BY ZenonT(30), <1>0, <1>1, <2>1, <2>4, <3>1 DEF EntriesTicking, Ticking
  <2>6. RepeatsLeft'
    BY ZenonT(30), <1>0, <1>1, <2>1, <2>2 DEF RepeatsLeft
  <2> QED  BY ZenonT(30), <1>0, <2>1, <2>3, <2>5, <2>6 DEF Tables
<1>3. CASE hst[h] # "dead"
  <2>1. hst[h] \in {"expired", "last"} /\ timers[tid[h]] = h /\ h # 0
    BY SMTT(20), <1>0, <1>1, <1>3 DEF Pending, EntriesTicking, Ticking
  <2>2. /\ where' = "cb" /\ fired' = h /\ held' = h /\ UNCHANGED hst
        /\ trep' = [trep EXCEPT ![h] = IF trep[h] = FOREVER THEN trep[h] ELSE trep[h] - 1]
    BY Zenon, <1>3, <2>1 DEF Dispatch
  <2>3. /\ hst[h] = "expired" => trep[h] = FOREVER
        /\ hst[h] = "last" => hrep[h] = 0 /\ trep[h] = 1
    BY <1>0, <2>1, ZenonT(30) DEF RepeatsLeft
  <2> DEFINE v == IF trep[h] = FOREVER THEN trep[h] ELSE trep[h] - 1
  <2>4. v \in Nat /\ (hst[h] = "expired" => v = FOREVER) /\ (hst[h] = "last" => v = 0)
    BY SMTT(20), <1>1, <2>1, <2>3
  <2>5. trep' = [trep EXCEPT ![h] = v]
    BY Zenon, <2>2
  <2> HIDE DEF v
  <2>6. /\ trep' \in Seq(Nat) /\ Len(trep') = Len(tid) /\ trep'[h] = v
        /\ \A j \in 1 .. Len(tid) : j # h => trep'[j] = trep[j]
    BY SMTT(20), <1>0, <2>4, <2>5, TmPut DEF TablesType
  <2>7. TablesType'
    BY SMTT(20), <1>0, <1>1, <2>2, <2>6 DEF TablesType
  <2>8. EntriesTicking'
    BY Zenon, <1>0, <1>1, <2>1, <2>2 DEF EntriesTicking, Ticking
  <2>9. RepeatsLeft'
    <3> SUFFICES ASSUME NEW j \in 1 .. Len(tid)
                 PROVE  /\ hst[j] = "armed" => hrep[j] = trep'[j] /\ hrep[j] \in {1, FOREVER}
                        /\ hst[j] = "expired" => hrep[j] = FOREVER /\ trep'[j] = FOREVER
                        /\ hst[j] = "last" => hrep[j] = 0 /\ trep'[j] = IF j = h THEN 0 ELSE 1
      BY ZenonT(30), <1>1, <2>2 DEF RepeatsLeft
    <3>1. CASE j = h
      BY Zenon, <1>0, <2>1, <2>3, <2>4, <2>6, <3>1 DEF RepeatsLeft
    <3>2. CASE j # h
      <4>0. Len(tid) \in Nat
        BY SMTT(20), <1>0 DEF TablesType
      <4>1. trep'[j] = trep[j] /\ j # fired
        BY SMTT(20), <1>0, <2>6, <3>2, <4>0
      <4> QED  BY Zenon, <1>0, <3>2, <4>1 DEF RepeatsLeft
    <3> QED  BY Zenon, <3>1, <3>2
  <2> QED  BY Zenon, <2>2, <2>7, <2>8, <2>9 DEF Tables
<1> QED  BY Zenon, <1>2, <1>3

\* A callback returns: a timer that ran out loses its entry and is freed, an
\* endless one is back in the heap, and one reset by its callback stays.
LEMMA DoneTables ==
    ASSUME TmInv, CallbackDone
    PROVE  Tables' /\ held' = fired' /\ fired' = 0
<1>0. TablesType /\ EntriesTicking /\ RepeatsLeft /\ held = fired /\ FOREVER \in Nat \ {0, 1}
  BY Zenon, TimersAssumption DEF TmInv, Tables, TimersAssumption
<1>1. UNCHANGED << tid, hrep, trep >> /\ fired' = 0 /\ held' = 0
  BY Zenon DEF CallbackDone
<1>2. CASE fired = 0
  <2>1. UNCHANGED << timers, hst, fired >>
    BY Zenon, <1>0, <1>1, <1>2 DEF CallbackDone
  <2> QED  BY ZenonT(30), <1>0, <1>1, <2>1 DEF Tables, TablesType, EntriesTicking, RepeatsLeft, Ticking
<1>3. CASE fired # 0
  <2> DEFINE h == fired
             id == tid[h]
  <2>1. /\ h \in 1 .. Len(tid) /\ id \in TimerID /\ timers[id] \in {0, h} /\ hst[h] \in TmStates
        /\ Ticking(h) => timers[id] = h
    BY SMTT(20), <1>0, <1>3 DEF TablesType, EntriesTicking
  <2>2. /\ hst[h] = "armed" => trep[h] # 0 /\ hrep[h] = trep[h] /\ hrep[h] \in {1, FOREVER}
        /\ hst[h] = "expired" => trep[h] = FOREVER /\ hrep[h] = FOREVER
        /\ hst[h] = "last" => trep[h] = 0
    BY SMTT(20), <1>0, <2>1 DEF RepeatsLeft
  <2>3. timers' = IF trep[h] = 0 THEN [timers EXCEPT ![id] = 0] ELSE timers
    BY Zenon, <1>0, <1>3 DEF CallbackDone
  <2>4. hst' = IF ~Pending(h) THEN hst ELSE [hst EXCEPT ![h] = IF hst[h] = "expired" THEN "armed" ELSE "freed"]
    BY Zenon, <1>3 DEF CallbackDone
  <2>5. timers[id] = h => Ticking(h)
    BY SMTT(20), <1>0, <2>1 DEF EntriesTicking
  <2>6. Ticking(h) <=> hst[h] \in {"armed", "expired", "last"}
    BY Zenon DEF Ticking
  <2> HIDE DEF h, id
  <2>7. /\ timers' \in [TimerID -> 0 .. Len(tid)]
        /\ timers'[id] = IF hst[h] \in {"armed", "expired"} THEN h ELSE 0
        /\ \A i \in TimerID : i # id => timers'[i] = timers[i]
    <3>1. timers \in [TimerID -> 0 .. Len(tid)] /\ Len(tid) \in Nat
      BY SMTT(20), <1>0 DEF TablesType
    <3>2. CASE trep[h] = 0
      <4>1. hst[h] \notin {"armed", "expired"}
        BY Zenon, <1>0, <2>2, <3>2
      <4> QED  BY SMTT(20), <2>1, <2>3, <3>1, <3>2, <4>1
    <3>3. CASE trep[h] # 0
      <4>1. hst[h] # "last" /\ timers' = timers
        BY <2>2, <2>3, <3>3, Zenon
      <4> QED  BY Zenon, <2>1, <2>5, <2>6, <3>1, <4>1
    <3> QED  BY Zenon, <3>2, <3>3
  <2>8. /\ hst' \in Seq(TmStates) /\ Len(hst') = Len(tid)
        /\ hst'[h] = IF hst[h] \in {"armed", "expired"} THEN "armed" ELSE "freed"
        /\ \A j \in 1 .. Len(tid) : j # h => hst'[j] = hst[j]
    <3>1. hst \in Seq(TmStates) /\ Len(hst) = Len(tid)
      BY Zenon, <1>0 DEF TablesType
    <3>2. CASE ~Pending(h)
      BY ZenonT(30), <2>1, <2>4, <3>1, <3>2 DEF Pending, TmStates
    <3>3. CASE Pending(h)
      <4> DEFINE v == IF hst[h] = "expired" THEN "armed" ELSE "freed"
      <4>1. hst' = [hst EXCEPT ![h] = v] /\ v \in TmStates
        BY Zenon, <2>4, <3>3 DEF TmStates
      <4>2. v = IF hst[h] \in {"armed", "expired"} THEN "armed" ELSE "freed"
        BY Zenon, <3>3 DEF Pending
      <4> HIDE DEF v
      <4> QED  BY SMTT(20), <2>1, <3>1, <4>1, <4>2, TmPut
    <3> QED  BY Zenon, <3>2, <3>3
  <2>9. TablesType'
    <3>1. 0 \in 0 .. Len(tid)
      BY SMTT(20), <1>0 DEF TablesType
    <3> QED  BY ZenonT(30), <1>0, <1>1, <2>7, <2>8, <3>1 DEF TablesType
  <2>10. EntriesTicking'
    <3>1. ASSUME NEW i \in TimerID, timers'[i] # 0
          PROVE  tid[timers'[i]] = i /\ hst'[timers'[i]] \in {"armed", "expired", "last"}
      <4>1. CASE i = id
        BY Zenon, <2>7, <2>8, <3>1, <4>1 DEF id
      <4>2. CASE i # id
        <5>1. timers'[i] = timers[i] /\ timers[i] \in 1 .. Len(tid)
          BY SMTT(20), <1>0, <2>7, <3>1, <4>2 DEF TablesType
        <5>2. tid[timers[i]] = i /\ Ticking(timers[i]) /\ timers[i] # h
          BY Zenon, <1>0, <3>1, <4>2, <5>1 DEF EntriesTicking, id
        <5> QED  BY Zenon, <2>8, <5>1, <5>2 DEF Ticking
      <4> QED  BY Zenon, <4>1, <4>2
    <3>2. ASSUME NEW j \in 1 .. Len(tid), hst'[j] \in {"armed", "expired", "last"}
          PROVE  timers'[tid[j]] = j
      <4>1. CASE j = h
        BY Zenon, <2>7, <2>8, <3>2, <4>1 DEF id
      <4>2. CASE j # h
        <5>1. Ticking(j)
          BY Zenon, <2>8, <3>2, <4>2 DEF Ticking
        <5>2. timers[tid[j]] = j /\ tid[j] \in TimerID
          BY SMTT(20), <1>0, <5>1 DEF EntriesTicking, TablesType
        <5>3. tid[j] # id
          BY SMTT(20), <2>1, <4>2, <5>2
        <5> QED  BY Zenon, <2>7, <5>2, <5>3
      <4> QED  BY Zenon, <4>1, <4>2
    <3> QED  BY Zenon, <1>1, <3>1, <3>2 DEF EntriesTicking, Ticking
  <2>11. RepeatsLeft'
    <3> SUFFICES ASSUME NEW j \in 1 .. Len(tid)
                 PROVE  /\ hst'[j] = "armed" => hrep[j] = trep[j] /\ hrep[j] \in {1, FOREVER}
                        /\ hst'[j] = "expired" => hrep[j] = FOREVER /\ trep[j] = FOREVER
                        /\ hst'[j] = "last" => hrep[j] = 0 /\ trep[j] = IF j = 0 THEN 0 ELSE 1
      BY Zenon, <1>1 DEF RepeatsLeft
    <3>1. CASE j = h
      BY Zenon, <2>2, <2>8, <3>1
    <3>2. CASE j # h
      <4>1. hst'[j] = hst[j] /\ j # fired /\ j # 0
        BY SMTT(20), <2>8, <3>2 DEF h
      <4> QED  BY Zenon, <1>0, <4>1 DEF RepeatsLeft
    <3> QED  BY Zenon, <3>1, <3>2
  <2> QED  BY ZenonT(30), <1>1, <2>9, <2>10, <2>11 DEF Tables
<1> QED  BY Zenon, <1>2, <1>3

\* A functor is taken off the queue or added to it.
LEMMA FunctorsKept ==
    ASSUME functors \in Seq(Functors)
    PROVE  /\ \A f \in Functors : Append(functors, f) \in Seq(Functors)
           /\ functors # << >> => Head(functors) \in Functors /\ Tail(functors) \in Seq(Functors)
BY SMTT(20)

\* The tables have no part in steps that touch neither them nor the callback.
LEMMA SameTables ==
    ASSUME Tables, UNCHANGED << timers, tid, hrep, trep, hst, fired >>
    PROVE  Tables'
BY Zenon DEF Tables, TablesType, EntriesTicking, RepeatsLeft, Ticking

\* Every step keeps the invariant.
LEMMA TmStep ==
    ASSUME TmInv, [TmNext]_tmvars, ~Rearm, TimerRepeats \subseteq {1, FOREVER}
    PROVE  TmInv'
<1>0. Tables /\ functors \in Seq(Functors) /\ held = fired /\ (where # "cb" => fired = 0)
  BY Zenon DEF TmInv
<1>1. ASSUME NEW id \in TimerID, NEW n \in TimerRepeats, SetEarly(id, n)  PROVE TmInv'
  <2>1. SetNow(id, n) /\ UNCHANGED << fired, held, where >> /\ fired = 0
    BY Zenon, <1>0, <1>1 DEF SetEarly, SetNow
  <2>2. Tables'
    BY <1>0, <2>1, SetTables, Zenon
  <2>3. functors' = Append(functors, [op |-> "kill", id |-> id]) /\ [op |-> "kill", id |-> id] \in Functors
    BY <1>1, Zenon DEF SetEarly, Functors
  <2> QED  BY <1>0, <2>1, <2>2, <2>3, FunctorsKept, Zenon DEF TmInv
<1>2. ASSUME NEW id \in TimerID, NEW n \in TimerRepeats, CallSet(id, n)  PROVE TmInv'
  <2>1. SetNow(id, n) /\ UNCHANGED << functors, where, fired, held >> /\ (fired # 0 => tid[fired] # id)
    BY Zenon, <1>0, <1>2 DEF CallSet
  <2>2. Tables'
    BY Zenon, <1>0, <2>1, SetTables
  <2> QED  BY Zenon, <1>0, <2>1, <2>2 DEF TmInv
<1>3. ASSUME NEW f \in Functors, Posts(f)  PROVE TmInv'
  <2>1. functors' = Append(functors, f) /\ UNCHANGED << timers, tid, hrep, trep, hst, where, fired, held >>
    BY Zenon, <1>3 DEF Posts
  <2> QED  BY Zenon, <1>0, <2>1, SameTables, FunctorsKept DEF TmInv
<1>4. ASSUME NEW id \in TimerID, CallKill(id)  PROVE TmInv'
  <2>1. Kill(id) /\ UNCHANGED << tid, hrep, trep, functors, where, fired, held >>
    BY Zenon, <1>4 DEF CallKill
  <2> QED  BY Zenon, <1>0, <2>1, KillTables DEF TmInv
<1>5. ASSUME NEW id \in TimerID, CallReset(id)  PROVE TmInv'
  <2>1. ResetNow(id) /\ UNCHANGED << timers, tid, functors, where, fired, held >>
    BY Zenon, <1>5 DEF CallReset
  <2> QED  BY Zenon, <1>0, <2>1, ResetTables DEF TmInv
<1>6. ASSUME NEW due \in SUBSET (1 .. Len(tid)), Expire(due)  PROVE TmInv'
  <2>1. fired = 0 /\ UNCHANGED << functors, fired, held >>
    BY Zenon, <1>0, <1>6 DEF Expire
  <2> QED  BY Zenon, <1>0, <1>6, <2>1, ExpireTables DEF TmInv
<1>7. ASSUME NEW h \in 1 .. Len(tid), Dispatch(h)  PROVE TmInv'
  <2>1. UNCHANGED functors
    BY Zenon, <1>7 DEF Dispatch
  <2> QED  BY Zenon, <1>0, <1>7, <2>1, DispatchTables DEF TmInv
<1>8. CASE RunFunctor
  <2> DEFINE f == Head(functors)
  <2>1. /\ f \in Functors /\ functors' \in Seq(Functors)
        /\ UNCHANGED << where, fired, held >> /\ fired = 0
    BY Zenon, <1>0, <1>8, FunctorsKept DEF RunFunctor
  <2>2. \/ f.op = "set" /\ SetNow(f.id, f.n)
        \/ f.op = "kill" /\ Kill(f.id) /\ UNCHANGED << tid, hrep, trep >>
        \/ f.op = "reset" /\ ResetNow(f.id) /\ UNCHANGED << timers, tid >>
    BY Zenon, <1>8 DEF RunFunctor
  <2>3. f.id \in TimerID /\ (f.op = "set" => f.n \in TimerRepeats)
    BY Zenon, <2>1 DEF Functors
  <2> HIDE DEF f
  <2>4. Tables'
    <3>1. CASE f.op = "set" /\ SetNow(f.id, f.n)
      BY Zenon, <1>0, <2>1, <2>3, <3>1, SetTables
    <3>2. CASE f.op = "kill" /\ Kill(f.id) /\ UNCHANGED << tid, hrep, trep >>
      BY Zenon, <1>0, <2>1, <2>3, <3>2, KillTables
    <3>3. CASE f.op = "reset" /\ ResetNow(f.id) /\ UNCHANGED << timers, tid >>
      BY Zenon, <1>0, <2>1, <2>3, <3>3, ResetTables
    <3> QED  BY Zenon, <2>2, <3>1, <3>2, <3>3
  <2> QED  BY Zenon, <1>0, <2>1, <2>4 DEF TmInv
<1>9. CASE CallbackDone
  <2>1. UNCHANGED functors
    BY Zenon, <1>9 DEF CallbackDone
  <2> QED  BY Zenon, <1>0, <1>9, <2>1, DoneTables DEF TmInv
<1>10. CASE Run \/ Callback \/ Dispatched
  <2>1. UNCHANGED << timers, tid, hrep, trep, hst, functors, fired, held >> /\ fired = 0
    BY Zenon, <1>0, <1>10 DEF Run, Callback, Dispatched
  <2> QED  BY Zenon, <1>0, <2>1, SameTables DEF TmInv
<1>11. CASE UNCHANGED tmvars
  BY Zenon, <1>0, <1>11, SameTables DEF tmvars, TmInv
<1>12. ASSUME NEW id \in TimerID
       PROVE  /\ [op |-> "kill", id |-> id] \in Functors /\ [op |-> "reset", id |-> id] \in Functors
              /\ \A n \in TimerRepeats : [op |-> "set", id |-> id, n |-> n] \in Functors
  BY Zenon DEF Functors
<1> QED
  BY <1>1, <1>2, <1>3, <1>4, <1>5, <1>6, <1>7, <1>8, <1>9, <1>10, <1>11, <1>12, ZenonT(30) DEF TmNext

\* An empty table.
LEMMA TimersInit == TmInit => TmInv
<1> SUFFICES ASSUME TmInit  PROVE TmInv
  BY Zenon
<1>1. /\ << >> \in Seq(TimerID) /\ << >> \in Seq(Nat) /\ << >> \in Seq(TmStates)
      /\ << >> \in Seq(Functors) /\ Len(<< >>) = 0
  BY SMTT(20)
<1>2. TablesType
  BY SMTT(20), <1>1 DEF TmInit, TablesType
<1>3. 1 .. Len(tid) = {} /\ (\A id \in TimerID : timers[id] = 0) /\ fired = 0 /\ held = 0
  BY SMTT(20), <1>1 DEF TmInit
<1>4. EntriesTicking /\ RepeatsLeft
  BY Zenon, <1>3 DEF EntriesTicking, RepeatsLeft
<1> QED  BY ZenonT(30), <1>1, <1>2, <1>3, <1>4 DEF TmInit, TmInv, Tables

(***************************************************************************)
(* killTimer and resetTimer never follow a pointer to a freed htimer, and  *)
(* every timer in the heap is the one of its identifier's entry with the   *)
(* same repeats left (EventLoop.h:85-145, 196-217), for any number of      *)
(* timers and any calls from callbacks and other threads.  The hypotheses  *)
(* are needed: a callback that sets its own identifier again loses the new *)
(* entry, and resetTimer of a timer with finitely many repeats that has    *)
(* expired and not been called back leaves the two counts apart.           *)
(***************************************************************************)
THEOREM TableAlwaysMatchesHeap ==
    ASSUME ~Rearm, TimerRepeats \subseteq {1, FOREVER}
    PROVE  TmSpec => []TableMatchesHeap
<1>1. TmInv => TableMatchesHeap
  <2> SUFFICES ASSUME TmInv  PROVE TableMatchesHeap
    BY Zenon
  <2>1. TablesType /\ EntriesTicking /\ RepeatsLeft
    BY Zenon DEF TmInv, Tables
  <2> QED  BY Zenon, <2>1 DEF TableMatchesHeap, EntriesTicking, RepeatsLeft, Ticking
<1>2. TmInv /\ [TmNext]_tmvars => TmInv'
  BY Zenon, TmStep
<1> QED  BY <1>1, <1>2, TimersInit, PTL DEF TmSpec
=============================================================================
