----------------------------- MODULE ObjectPool -----------------------------
(***************************************************************************)
(* HObjectPool (cpputil/hobjectpool.h): threads borrow objects, at most    *)
(* _max_num of them exist, and a thread that finds none waits for one to   *)
(* be returned, for at most _timeout.  Every critical section of mutex_ is *)
(* one action; Borrow() has four of them, and creates objects outside.     *)
(***************************************************************************)
EXTENDS Integers, FiniteSets

CONSTANTS
    Worker,       \* threads
    Object,       \* objects the factory can create, or Add() be given
    MaxNum,       \* _max_num
    BusyClear     \* ClearIdle() may be called while objects are borrowed

NoObject == "NULL"

ASSUME ObjectPoolAssumption ==
    /\ MaxNum \in Nat /\ BusyClear \in BOOLEAN /\ NoObject \notin Object
    /\ IsFiniteSet(Worker)

VARIABLES
    objects_,      \* the idle objects; which one is in front does not matter here
    object_num,    \* _object_num
    wpc,           \* thread -> "out", "missed" (TryBorrow found none), "create", "wait",
                   \*           "woken", "has"
    held,          \* thread -> the object it borrowed, or NoObject
    late           \* ghost: threads between their two looks when an object came in

opvars == << objects_, object_num, wpc, held, late >>

Unused == {o \in Object : o \notin objects_ /\ \A w \in Worker : held[w] # o}

OpInit ==
    /\ objects_ \in {s \in SUBSET Object : IsFiniteSet(s) /\ Cardinality(s) <= MaxNum}
    /\ object_num = Cardinality(objects_)
    /\ wpc = [w \in Worker |-> "out"] /\ held = [w \in Worker |-> NoObject]
    /\ late = {}

Goes(w, pc) == wpc' = [wpc EXCEPT ![w] = pc] /\ late' = IF pc = "wait" THEN late ELSE late \ {w}
Takes(w, o, pc) == Goes(w, pc) /\ held' = [held EXCEPT ![w] = o]

TryBorrow(w) ==
    /\ wpc[w] = "out"
    /\ IF objects_ # {}
         THEN \E o \in objects_ : Takes(w, o, "has") /\ objects_' = objects_ \ {o}
         ELSE Goes(w, "missed") /\ UNCHANGED << objects_, held >>
    /\ UNCHANGED object_num

\* Mutant: the slot is counted only when the object exists.
BorrowSlotUncounted(w) ==
    /\ wpc[w] = "missed"
    /\ Goes(w, IF object_num < MaxNum THEN "create" ELSE "wait")
    /\ UNCHANGED << objects_, object_num, held >>

\* The second critical section of Borrow(): takes a slot, or waits. It does not
\* look at objects_ again.
BorrowSlot(w) ==
    /\ wpc[w] = "missed"
    /\ IF object_num < MaxNum
         THEN Goes(w, "create") /\ object_num' = object_num + 1
         ELSE Goes(w, "wait") /\ UNCHANGED object_num
    /\ UNCHANGED << objects_, held >>

\* TFactory::create() returned; NULL gives the slot back.
Created(w) ==
    /\ wpc[w] = "create"
    /\ \/ \E o \in Unused : Takes(w, o, "has") /\ UNCHANGED object_num
       \/ object_num' = object_num - 1 /\ Goes(w, "out") /\ UNCHANGED held
    /\ UNCHANGED objects_

\* wait_for times out, or wakes up without a notification.
BorrowTimeout(w) ==
    /\ wpc[w] = "wait"
    /\ Goes(w, "out") \/ Goes(w, "woken")
    /\ UNCHANGED << objects_, object_num, held >>

\* A notified thread has the mutex back; another thread may have been faster.
BorrowWoken(w) ==
    /\ wpc[w] = "woken"
    /\ IF objects_ # {}
         THEN \E o \in objects_ : Takes(w, o, "has") /\ objects_' = objects_ \ {o}
         ELSE Goes(w, "out") /\ UNCHANGED << objects_, held >>
    /\ UNCHANGED object_num

Missed == {w \in Worker : wpc[w] = "missed"}

\* cond_.notify_one(), after the threads' counters became pc.
NotifyOne(pc) ==
    /\ late' = late \cup Missed
    /\ IF \E v \in Worker : pc[v] = "wait"
         THEN \E v \in Worker : pc[v] = "wait" /\ wpc' = [pc EXCEPT ![v] = "woken"]
         ELSE wpc' = pc

\* Mutant: nobody is told.
ReturnQuietly(w) ==
    /\ wpc[w] = "has"
    /\ objects_' = objects_ \cup {held[w]}
    /\ held' = [held EXCEPT ![w] = NoObject]
    /\ wpc' = [wpc EXCEPT ![w] = "out"]
    /\ late' = late \cup Missed
    /\ UNCHANGED object_num

\* Mutant: the object is still the thread's.
ReturnKeeps(w) ==
    /\ wpc[w] = "has"
    /\ objects_' = objects_ \cup {held[w]}
    /\ NotifyOne([wpc EXCEPT ![w] = "out"])
    /\ UNCHANGED << object_num, held >>

Return(w) ==
    /\ wpc[w] = "has"
    /\ objects_' = objects_ \cup {held[w]}
    /\ held' = [held EXCEPT ![w] = NoObject]
    /\ NotifyOne([wpc EXCEPT ![w] = "out"])
    /\ UNCHANGED object_num

AddObject(o) ==
    /\ object_num < MaxNum
    /\ objects_' = objects_ \cup {o}
    /\ object_num' = object_num + 1
    /\ NotifyOne(wpc)
    /\ UNCHANGED held

RemoveObject(o) ==
    /\ o \in objects_
    /\ objects_' = objects_ \ {o}
    /\ object_num' = object_num - 1
    /\ UNCHANGED << wpc, held, late >>

ClearIdle ==
    /\ ~BusyClear => \A w \in Worker : wpc[w] \notin {"create", "has"}
    /\ objects_' = {} /\ object_num' = 0
    /\ UNCHANGED << wpc, held, late >>

OpNext ==
    \/ \E w \in Worker : \/ TryBorrow(w) \/ BorrowSlot(w) \/ Created(w)
                         \/ BorrowTimeout(w) \/ BorrowWoken(w) \/ Return(w)
    \/ \E o \in Unused : AddObject(o)
    \/ \E o \in Object : RemoveObject(o)
    \/ ClearIdle

OpSpec == OpInit /\ [][OpNext]_opvars

(***************************************************************************)
(* However borrowing, creating, returning and failing factories            *)
(* interleave, _object_num counts the objects that are idle, borrowed or   *)
(* being created, so no more than _max_num of them exist, although         *)
(* Borrow() creates outside the mutex (hobjectpool.h:70).                  *)
(***************************************************************************)
PoolCounts ==
    /\ object_num = Cardinality(objects_) + Cardinality({w \in Worker : wpc[w] \in {"create", "has"}})
    /\ object_num <= MaxNum

(***************************************************************************)
(* An object is lent to one thread at a time and is not idle meanwhile:    *)
(* what TryBorrow, Borrow and Return hand around is never in two places.   *)
(***************************************************************************)
OneBorrower ==
    \A w \in Worker : held[w] # NoObject =>
        held[w] \notin objects_ /\ \A v \in Worker \ {w} : held[v] # held[w]

(***************************************************************************)
(* Borrow() looks for an object, lets go of the mutex, and then waits      *)
(* without looking again (hobjectpool.h:61-78).  A return that falls into  *)
(* that gap is the only one a waiting thread can miss: for any other       *)
(* waiting thread, every idle object has a notified thread on its way.     *)
(***************************************************************************)
OnlyTheGapIsMissed ==
    \A w \in Worker \ late : wpc[w] = "wait" =>
        Cardinality(objects_) <= Cardinality({v \in Worker : wpc[v] = "woken"})
=============================================================================
