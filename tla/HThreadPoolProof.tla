-------------------------- MODULE HThreadPoolProof --------------------------
(***************************************************************************)
(* Proofs about the thread pool, for every value of the constants.         *)
(***************************************************************************)
EXTENDS HThreadPool, SequenceTheorems, FiniteSetTheorems, TLAPS

-----------------------------------------------------------------------------
(***************************************************************************)
(* The thread pool, for any number of committers, threads and tasks, when  *)
(* it keeps at least one thread and no commit runs into a stop: its tasks  *)
(* are served, its wait returns when it should and its counters count.     *)
(*                                                                         *)
(* The parts of the inductive invariant, each with the reason it is there: *)
(*   Locks   what the holder of task_mutex saw of the queue still holds;   *)
(*   Roles   who may be where, and what start has left to create;          *)
(*   Places  a thread that is not over is in the list or about to be;      *)
(*   Stops   stop leaves nothing behind, so the next start counts from 0;  *)
(*   Counts  the counters against the threads and the callers;             *)
(*   Enough  start creates the least number of threads, or is creating;    *)
(*   Wakes   a queued task has an active thread, unless none lives at all; *)
(*   Waits   a committed task is queued, running or done.                  *)
(***************************************************************************)

PCs == {"none", "top", "lock", "block", "waiting", "woken", "late", "go", "pop", "run", "delete",
        "deleted", "exited"}
Off == {"none", "exited"}
Active == {"top", "lock", "woken", "late", "go", "pop", "run"}
Live == PCs \ {"none", "exited", "deleted"}
Working == {"pop", "run"}
Creating == {"create", "add", "added"}
Calling == {"idle", "start", "started", "end"} \cup Creating
OwnerPCs == Calling \cup {"wait", "compare", "waited", "notifyAll", "join"}
CommitPCs == Calling \cup {"grow", "push", "notify"}

NBusy == Cardinality({t \in Threads : pc[t] \in Working})
NDeleted == Cardinality({t \in Threads : pc[t] = "deleted"})
NLive == Cardinality({t \in Threads : pc[t] \in Live})
NAdd == Cardinality({c \in Callers : cpc[c] = "add"})
NAdded == Cardinality({c \in Callers : cpc[c] = "added"})

Least == IF min_thread_num > max_thread_num THEN max_thread_num ELSE min_thread_num

PoolType ==
    /\ TpTypeOK
    /\ pc \in [Threads -> PCs] /\ taken \in [Threads -> Committers \cup {NoThread}]
    /\ cpc \in [Callers -> OwnerPCs \cup CommitPCs] /\ ret \in [Callers -> {"idle", "grow", "push"}]
    /\ seenIdle \in Int /\ before \subseteq Committers /\ shrunk \in BOOLEAN
    /\ \A t \in Threads : pc[t] = "run" => taken[t] \in Committers

Locks ==
    /\ \A t \in Threads : pc[t] \in {"block", "go", "pop", "delete", "deleted"} <=> task_mutex = t
    /\ \A t \in Threads : pc[t] \in {"block", "delete", "deleted"} => tasks = << >>
    /\ \A t \in Threads : pc[t] = "pop" => tasks # << >>
    /\ \A t \in Threads : pc[t] = "delete" => cur_thread_num > min_thread_num

Roles ==
    /\ cpc[Owner] \in OwnerPCs /\ ret[Owner] = "idle"
    /\ \A c \in Committers : cpc[c] \in CommitPCs /\ (cpc[c] # "idle" => ret[c] \in {"grow", "push"})
    /\ \A c \in Callers : cpc[c] \in {"add", "added"} <=> new[c] # NoThread
    /\ \A c \in Callers : left[c] > 0 => cpc[c] \in Creating

Places ==
    /\ \A t \in marked : pc[t] = "exited"
    /\ \A t \in Threads : pc[t] \notin Off => t \in listed \/ \E c \in Callers : new[c] = t

Stopping == cpc[Owner] \in {"notifyAll", "join"}

Stops ==
    /\ Stopping => status = "STOP" /\ \A c \in Committers : cpc[c] \in {"idle", "end"}
    /\ status = "STOP" /\ ~Stopping =>
          /\ cur_thread_num = 0 /\ idle_thread_num = 0
          /\ \A t \in Threads : pc[t] \in Off
          /\ \A c \in Callers : cpc[c] \in {"idle", "start", "started", "end"}

Counts ==
    /\ cur_thread_num - idle_thread_num = NBusy + NAdded - NDeleted
    /\ status # "STOP" => cur_thread_num + NAdd = NLive
    /\ cur_thread_num + NAdd <= max_thread_num + Cardinality(Callers) - 1

\* What start has yet to count.
Coming(c) == IF cpc[c] = "added" THEN left[c] - 1 ELSE left[c]

Enough ==
    status # "STOP" => \/ cur_thread_num >= Least
                       \/ \E c \in Callers : left[c] > 0 /\ cur_thread_num + Coming(c) >= Least

Wakes ==
    tasks # << >> /\ status # "STOP" =>
        \/ \E t \in Threads : pc[t] \in Active
        \/ \E c \in Committers : cpc[c] = "notify"
        \/ \A t \in Threads : pc[t] \in Off

Kept(c) ==
    \/ \E i \in 1 .. Len(tasks) : tasks[i] = c
    \/ \E t \in Threads : pc[t] = "run" /\ taken[t] = c
    \/ c \in done

Waits ==
    /\ \A c \in Committed : Kept(c)
    /\ cpc[Owner] \in {"wait", "compare", "waited"} => status # "STOP" /\ before \subseteq Committed
    /\ cpc[Owner] \in {"wait", "compare"} => shrunk \/ \A t \in Threads : pc[t] # "deleted"
    /\ cpc[Owner] = "compare" => shrunk \/ before \subseteq done \/ seenIdle < cur_thread_num
    /\ WaitDone

PoolInv == PoolType /\ Locks /\ Roles /\ Places /\ Stops /\ Counts /\ Enough /\ Wakes /\ Waits

-----------------------------------------------------------------------------

\* One element of a finite set that has a property more, or less, counts for one.
LEMMA OneMoves ==
    ASSUME NEW S, IsFiniteSet(S), NEW A \in SUBSET S, NEW B \in SUBSET S, NEW x \in S,
           \A y \in S : y # x => (y \in A <=> y \in B)
    PROVE  /\ Cardinality(A) \in Nat /\ Cardinality(B) \in Nat
           /\ Cardinality(B) = Cardinality(A) + (IF x \in B THEN 1 ELSE 0) - (IF x \in A THEN 1 ELSE 0)
<1>1. IsFiniteSet(A) /\ IsFiniteSet(B) /\ Cardinality(A) \in Nat /\ Cardinality(B) \in Nat
  BY Zenon, FS_Subset, FS_CardinalityType
<1>2. CASE x \in A /\ x \in B
  <2>1. A = B
    BY SMTT(20), <1>2
  <2> QED  BY SMTT(20), <1>1, <1>2, <2>1
<1>3. CASE x \notin A /\ x \notin B
  <2>1. A = B
    BY SMTT(20), <1>3
  <2> QED  BY SMTT(20), <1>1, <1>3, <2>1
<1>4. CASE x \in A /\ x \notin B
  <2>1. A = B \cup {x}
    BY Zenon, <1>4
  <2>2. Cardinality(A) = Cardinality(B) + 1
    BY Zenon, <1>1, <1>4, <2>1, FS_AddElement
  <2> QED  BY SMTT(20), <1>1, <1>4, <2>2
<1>5. CASE x \notin A /\ x \in B
  <2>1. B = A \cup {x}
    BY Zenon, <1>5
  <2>2. Cardinality(B) = Cardinality(A) + 1
    BY Zenon, <1>1, <1>5, <2>1, FS_AddElement
  <2> QED  BY SMTT(20), <1>1, <1>5, <2>2
<1> QED  BY Zenon, <1>2, <1>3, <1>4, <1>5

In(s, Q) == IF s \in Q THEN 1 ELSE 0

\* The counts are natural, and when nothing is counted nothing is there.
LEMMA CountsAreNat ==
    ASSUME TpAssumption
    PROVE  /\ NBusy \in Nat /\ NDeleted \in Nat /\ NLive \in Nat /\ NAdd \in Nat /\ NAdded \in Nat
           /\ Cardinality(Callers) \in Nat /\ NAdd <= Cardinality(Callers)
           /\ NBusy = 0 <=> \A t \in Threads : pc[t] \notin Working
           /\ NDeleted = 0 <=> \A t \in Threads : pc[t] # "deleted"
           /\ NLive = 0 <=> \A t \in Threads : pc[t] \notin Live
           /\ (\A c \in Callers : cpc[c] # "add") => NAdd = 0
           /\ (\A c \in Callers : cpc[c] # "added") => NAdded = 0
<1>1. IsFiniteSet(Threads) /\ IsFiniteSet(Callers)
  <2>1. IsFiniteSet(Committers) /\ IsFiniteSet({Owner})
    BY FS_Singleton, Zenon DEF TpAssumption
  <2> QED  BY <2>1, FS_Union, Zenon DEF TpAssumption, Callers
<1>2. \A S : IsFiniteSet(S) => /\ Cardinality(S) \in Nat /\ (Cardinality(S) = 0 <=> S = {})
  BY Zenon, FS_CardinalityType, FS_EmptySet
<1>3. \A S, T : IsFiniteSet(T) /\ S \subseteq T => IsFiniteSet(S) /\ Cardinality(S) <= Cardinality(T)
  BY Zenon, FS_Subset
<1> DEFINE B == {t \in Threads : pc[t] \in Working}
           D == {t \in Threads : pc[t] = "deleted"}
           L == {t \in Threads : pc[t] \in Live}
           A == {c \in Callers : cpc[c] = "add"}
           E == {c \in Callers : cpc[c] = "added"}
<1>4. /\ B \subseteq Threads /\ D \subseteq Threads /\ L \subseteq Threads /\ A \subseteq Callers
      /\ E \subseteq Callers
  BY Zenon
<1>5. /\ B = {} <=> \A t \in Threads : pc[t] \notin Working
      /\ D = {} <=> \A t \in Threads : pc[t] # "deleted"
      /\ L = {} <=> \A t \in Threads : pc[t] \notin Live
      /\ (\A c \in Callers : cpc[c] # "add") => A = {}
      /\ (\A c \in Callers : cpc[c] # "added") => E = {}
  BY Zenon
<1>6. /\ NBusy = Cardinality(B) /\ NDeleted = Cardinality(D) /\ NLive = Cardinality(L)
      /\ NAdd = Cardinality(A) /\ NAdded = Cardinality(E)
  BY Zenon DEF NBusy, NDeleted, NLive, NAdd, NAdded
<1> HIDE DEF B, D, L, A, E
<1>7. IsFiniteSet(B) /\ IsFiniteSet(D) /\ IsFiniteSet(L) /\ IsFiniteSet(A) /\ IsFiniteSet(E)
      /\ Cardinality(A) <= Cardinality(Callers)
  BY Zenon, <1>1, <1>3, <1>4
<1> QED  BY Zenon, <1>1, <1>2, <1>5, <1>6, <1>7

\* A thread goes from one place to another.
LEMMA ThreadMoves ==
    ASSUME TpAssumption, pc \in [Threads -> PCs], NEW t \in Threads, NEW s, pc' = [pc EXCEPT ![t] = s]
    PROVE  /\ NBusy' = NBusy + In(s, Working) - In(pc[t], Working)
           /\ NDeleted' = NDeleted + In(s, {"deleted"}) - In(pc[t], {"deleted"})
           /\ NLive' = NLive + In(s, Live) - In(pc[t], Live)
<1>1. IsFiniteSet(Threads) /\ pc'[t] = s /\ \A u \in Threads : u # t => pc'[u] = pc[u]
  BY Zenon DEF TpAssumption
<1>2. NBusy' = NBusy + In(s, Working) - In(pc[t], Working)
  <2> DEFINE A == {u \in Threads : pc[u] \in Working}
             B == {u \in Threads : pc'[u] \in Working}
  <2>1. /\ A \in SUBSET Threads /\ B \in SUBSET Threads
               /\ \A u \in Threads : u # t => (u \in A <=> u \in B)
        /\ (t \in A <=> pc[t] \in Working) /\ (t \in B <=> s \in Working)
    BY Zenon, <1>1
  <2> HIDE DEF A, B
  <2>2. Cardinality(B) = Cardinality(A) + (IF t \in B THEN 1 ELSE 0) - (IF t \in A THEN 1 ELSE 0)
    BY SMTT(20), <1>1, <2>1, OneMoves
  <2> QED  BY Zenon, <2>1, <2>2 DEF NBusy, In, A, B
<1>3. NDeleted' = NDeleted + In(s, {"deleted"}) - In(pc[t], {"deleted"})
  <2> DEFINE A == {u \in Threads : pc[u] = "deleted"}
             B == {u \in Threads : pc'[u] = "deleted"}
  <2>1. /\ A \in SUBSET Threads /\ B \in SUBSET Threads
               /\ \A u \in Threads : u # t => (u \in A <=> u \in B)
        /\ (t \in A <=> pc[t] = "deleted") /\ (t \in B <=> s = "deleted")
    BY Zenon, <1>1
  <2> HIDE DEF A, B
  <2>2. Cardinality(B) = Cardinality(A) + (IF t \in B THEN 1 ELSE 0) - (IF t \in A THEN 1 ELSE 0)
    BY SMTT(20), <1>1, <2>1, OneMoves
  <2> QED  BY Zenon, <2>1, <2>2 DEF NDeleted, In, A, B
<1>4. NLive' = NLive + In(s, Live) - In(pc[t], Live)
  <2> DEFINE A == {u \in Threads : pc[u] \in Live}
             B == {u \in Threads : pc'[u] \in Live}
  <2>1. /\ A \in SUBSET Threads /\ B \in SUBSET Threads
               /\ \A u \in Threads : u # t => (u \in A <=> u \in B)
        /\ (t \in A <=> pc[t] \in Live) /\ (t \in B <=> s \in Live)
    BY Zenon, <1>1
  <2> HIDE DEF A, B
  <2>2. Cardinality(B) = Cardinality(A) + (IF t \in B THEN 1 ELSE 0) - (IF t \in A THEN 1 ELSE 0)
    BY SMTT(20), <1>1, <2>1, OneMoves
  <2> QED  BY Zenon, <2>1, <2>2 DEF NLive, In, A, B
<1> QED  BY Zenon, <1>2, <1>3, <1>4

\* A caller goes from one place to another.
LEMMA CallerMoves ==
    ASSUME TpAssumption, cpc \in [Callers -> OwnerPCs \cup CommitPCs], NEW c \in Callers, NEW s,
           cpc' = [cpc EXCEPT ![c] = s]
    PROVE  /\ NAdd' = NAdd + In(s, {"add"}) - In(cpc[c], {"add"})
           /\ NAdded' = NAdded + In(s, {"added"}) - In(cpc[c], {"added"})
<1>1. cpc'[c] = s /\ \A u \in Callers : u # c => cpc'[u] = cpc[u]
  BY Zenon
<1>2. IsFiniteSet(Callers)
  <2>1. IsFiniteSet(Committers) /\ IsFiniteSet({Owner})
    BY FS_Singleton, Zenon DEF TpAssumption
  <2> QED  BY <2>1, FS_Union, Zenon DEF Callers
<1>3. NAdd' = NAdd + In(s, {"add"}) - In(cpc[c], {"add"})
  <2> DEFINE A == {u \in Callers : cpc[u] = "add"}
             B == {u \in Callers : cpc'[u] = "add"}
  <2>1. /\ A \in SUBSET Callers /\ B \in SUBSET Callers
               /\ \A u \in Callers : u # c => (u \in A <=> u \in B)
        /\ (c \in A <=> cpc[c] = "add") /\ (c \in B <=> s = "add")
    BY Zenon, <1>1
  <2> HIDE DEF A, B
  <2>2. Cardinality(B) = Cardinality(A) + (IF c \in B THEN 1 ELSE 0) - (IF c \in A THEN 1 ELSE 0)
    BY SMTT(20), <1>2, <2>1, OneMoves
  <2> QED  BY Zenon, <2>1, <2>2 DEF NAdd, In, A, B
<1>4. NAdded' = NAdded + In(s, {"added"}) - In(cpc[c], {"added"})
  <2> DEFINE A == {u \in Callers : cpc[u] = "added"}
             B == {u \in Callers : cpc'[u] = "added"}
  <2>1. /\ A \in SUBSET Callers /\ B \in SUBSET Callers
               /\ \A u \in Callers : u # c => (u \in A <=> u \in B)
        /\ (c \in A <=> cpc[c] = "added") /\ (c \in B <=> s = "added")
    BY Zenon, <1>1
  <2> HIDE DEF A, B
  <2>2. Cardinality(B) = Cardinality(A) + (IF c \in B THEN 1 ELSE 0) - (IF c \in A THEN 1 ELSE 0)
    BY SMTT(20), <1>2, <2>1, OneMoves
  <2> QED  BY Zenon, <2>1, <2>2 DEF NAdded, In, A, B
<1> QED  BY Zenon, <1>3, <1>4

\* Counts of threads that stay where they are, and of callers.
LEMMA NobodyMoves ==
    /\ UNCHANGED pc => UNCHANGED << NBusy, NDeleted, NLive >>
    /\ UNCHANGED cpc => UNCHANGED << NAdd, NAdded >>
BY Zenon DEF NBusy, NDeleted, NLive, NAdd, NAdded

\* When the owner has joined the threads of the list none is left, for no caller
\* is creating one.
LEMMA AllJoined ==
    ASSUME TpAssumption, PoolInv, JoinAll
    PROVE  /\ status = "STOP" /\ \A t \in Threads : pc[t] \in Off
           /\ \A c \in Callers : cpc[c] \in {"idle", "end", "join"}
<1>1. status = "STOP" /\ \A c \in Callers : cpc[c] \in {"idle", "end", "join"}
  BY Zenon DEF PoolInv, Stops, Stopping, JoinAll, Callers
<1>2. \A c \in Callers : new[c] = NoThread
  BY Zenon, <1>1 DEF PoolInv, Roles
<1>3. ASSUME NEW t \in Threads, pc[t] \notin Off  PROVE FALSE
  <2>1. t \in listed \/ \E c \in Callers : new[c] = t
    BY Zenon, <1>3 DEF PoolInv, Places
  <2>2. t # NoThread /\ (t \in listed => pc[t] \in Off)
    BY Zenon DEF TpAssumption, JoinAll, Off
  <2> QED  BY Zenon, <1>2, <1>3, <2>1, <2>2
<1> QED  BY Zenon, <1>1, <1>3

\* Every step keeps the types.
LEMMA TypeStep ==
    ASSUME TpAssumption, PoolInv, TpNext
    PROVE  PoolType'
<1>0. PoolType /\ Locks /\ Roles /\ Places /\ Stops /\ Counts /\ Enough /\ Wakes /\ Waits
  BY Zenon DEF PoolInv
<1>1. ASSUME NEW t \in Threads, Top(t)  PROVE PoolType'
  BY Zenon, <1>0, <1>1 DEF Top, Go, PoolType, TpTypeOK, OwnerPCs, CommitPCs, Calling, Creating, PCs, Callers,
                    TpAssumption, Roles, counters, call, waitvars
<1>2. ASSUME NEW t \in Threads, Lock(t)  PROVE PoolType'
  BY Zenon, <1>0, <1>2 DEF Lock, Go, PoolType, TpTypeOK, OwnerPCs, CommitPCs, Calling, Creating, PCs, Callers,
                    TpAssumption, Roles, counters, call, waitvars
<1>3. ASSUME NEW t \in Threads, Block(t)  PROVE PoolType'
  BY Zenon, <1>0, <1>3 DEF Block, Go, PoolType, TpTypeOK, OwnerPCs, CommitPCs, Calling, Creating, PCs, Callers,
                    TpAssumption, Roles, counters, call, waitvars
<1>4. ASSUME NEW t \in Threads, Awake(t)  PROVE PoolType'
  BY SMTT(20), <1>0, <1>4 DEF Awake, Go, MayShrink, PoolType, TpTypeOK, PCs, OwnerPCs, CommitPCs, Calling, Creating,
                    Callers, TpAssumption, Roles, Locks, counters, pool, call, waitvars
<1>5. ASSUME NEW t \in Threads, Pop(t)  PROVE PoolType'
  <2>1. tasks # << >> /\ tasks \in Seq(Committers) /\ pc[t] = "pop"
    BY Zenon, <1>0, <1>5 DEF Pop, Locks, PoolType, TpTypeOK
  <2>2. Head(tasks) \in Committers /\ Tail(tasks) \in Seq(Committers)
    BY SMTT(20), <2>1
  <2> QED  BY Zenon, <1>0, <1>5, <2>2 DEF Pop, Go, PoolType, TpTypeOK, PCs, OwnerPCs, CommitPCs, Calling,
                                   Creating, Callers, TpAssumption, counters, call, waitvars
<1>6. ASSUME NEW t \in Threads, Run(t)  PROVE PoolType'
  BY SMTT(20), <1>0, <1>6 DEF Run, Go, IdleAgain, PoolType, TpTypeOK, OwnerPCs, CommitPCs, Calling, Creating, PCs,
                    Callers, TpAssumption, Roles, call, waitvars
<1>7. ASSUME NEW t \in Threads, delThread(t)  PROVE PoolType'
  <2>1. shrunk' \in BOOLEAN
    BY Zenon, <1>7 DEF delThread
  <2>2. cur_thread_num' \in Nat
    BY SMTT(20), <1>0, <1>7 DEF delThread, Locks, PoolType, TpTypeOK, TpAssumption
  <2> QED  BY Zenon, <1>0, <1>7, <2>1, <2>2 DEF delThread, Go, PoolType, TpTypeOK, PCs, OwnerPCs, CommitPCs,
                                         Calling, Creating, Callers, TpAssumption, call
<1>8. ASSUME NEW t \in Threads, Deleted(t)  PROVE PoolType'
  <2>1. /\ pc' = [pc EXCEPT ![t] = "exited"] /\ idle_thread_num' = idle_thread_num - 1
        /\ thread_mutex' = NoThread /\ task_mutex' = NoThread
        /\ UNCHANGED << status, cur_thread_num, tasks, taken, call, waitvars, done, pauses >>
    BY Zenon, <1>8 DEF Deleted, Go
  <2>2. PICK old \in SUBSET marked : listed' = listed \ old
               /\ marked' = (marked \ old) \cup ({t} \cap listed)
    BY Zenon, <1>8 DEF Deleted
  <2>3. marked \subseteq listed /\ listed \subseteq Threads /\ pc[t] = "deleted"
    BY Zenon, <1>0, <1>8 DEF PoolType, TpTypeOK, Deleted
  <2>4. marked' \subseteq listed' /\ listed' \subseteq Threads
    <3>1. t \notin marked
      BY Zenon, <1>0, <2>3 DEF Places
    <3> QED  BY Zenon, <2>2, <2>3, <3>1
  <2> QED  BY SMTT(20), <1>0, <2>1, <2>4 DEF PoolType, TpTypeOK, PCs, OwnerPCs, CommitPCs, Calling, Creating,
                                   Callers, TpAssumption, call, waitvars
<1>9. ASSUME NEW t \in Threads, TimesOut(t)  PROVE PoolType'
  BY Zenon, <1>0, <1>9 DEF TimesOut, Go, PoolType, TpTypeOK, OwnerPCs, CommitPCs, Calling, Creating, PCs,
                    Callers, TpAssumption, Roles, counters, call, waitvars
<1>10. ASSUME NEW c \in Committers, commit(c)  PROVE PoolType'
  BY <1>0, <1>10, Zenon DEF commit, PoolType, TpTypeOK, OwnerPCs, CommitPCs, Calling, Creating, counters, pool,
                     waitvars
<1>11. ASSUME NEW c \in Committers, Grow(c)  PROVE PoolType'
  BY <1>0, <1>11, Zenon DEF Grow, Goto, Full, PoolType, TpTypeOK, OwnerPCs, CommitPCs, Calling, Creating,
                     counters, pool, waitvars
<1>12. ASSUME NEW c \in Committers, Push(c)  PROVE PoolType'
  <2>1. tasks' \in Seq(Committers)
    BY SMTT(20), <1>0, <1>12 DEF Push, PoolType, TpTypeOK
  <2> QED  BY Zenon, <1>0, <1>12, <2>1 DEF Push, Goto, PoolType, TpTypeOK, PCs, OwnerPCs, CommitPCs, Calling,
                                    Creating, Callers, TpAssumption, counters, pool, waitvars
<1>13. ASSUME NEW c \in Committers, Notify(c)  PROVE PoolType'
  <2>1. /\ pc' \in WokenByOne /\ cpc' = [cpc EXCEPT ![c] = "end"]
       
               /\ UNCHANGED << status, counters, tasks, thread_mutex, listed, marked, taken, task_mutex, ret, left, new,
                        waitvars, done >>
    BY Zenon, <1>13 DEF Notify, Goto
  <2>2. pc' \in [Threads -> PCs] /\ \A t \in Threads : pc'[t] = "run" => pc[t] = "run"
    BY Zenon, <1>0, <2>1 DEF WokenByOne, PoolType, PCs
  <2>3. cpc' \in [Callers -> OwnerPCs \cup CommitPCs]
    BY <1>0, <2>1, Zenon DEF PoolType, CommitPCs, Calling
  <2> QED  BY Zenon, <1>0, <2>1, <2>2, <2>3 DEF PoolType, TpTypeOK, counters, waitvars
<1>14. ASSUME NEW c \in Callers, start(c)  PROVE PoolType'
  BY Zenon, <1>0, <1>14 DEF start, Goto, PoolType, TpTypeOK, OwnerPCs, CommitPCs, Calling, Creating, counters,
                     pool, waitvars
<1>15. ASSUME NEW c \in Callers, Started(c)  PROVE PoolType'
  BY Zenon, <1>0, <1>15 DEF Started, Goto, PoolType, TpTypeOK, OwnerPCs, CommitPCs, Calling, Creating,
                     TpAssumption, counters, pool, waitvars
<1>16. ASSUME NEW c \in Callers, createThread(c)  PROVE PoolType'
  <2>1. /\ UNCHANGED << status, counters, tasks, thread_mutex, listed, marked, taken, task_mutex, ret,
                        waitvars, done, pauses >>
        /\ cpc[c] = "create"
    BY Zenon, <1>16 DEF createThread
  <2>2. Back(c) \in {"create", "idle", "grow", "push"} /\ Fewer(c) \in [Callers -> Nat]
    BY SMTT(20), <1>0 DEF PoolType, TpTypeOK, Back, Fewer
  <2>3. CASE Full
    BY <1>0, <1>16, <2>1, <2>2, <2>3, ZenonT(30) DEF createThread, Goto, PoolType, TpTypeOK, PCs, OwnerPCs, CommitPCs,
                                         Calling, Creating, Callers, TpAssumption, counters, waitvars
  <2>4. CASE ~Full
    <3>1. PICK t \in Threads : /\ pc' = [pc EXCEPT ![t] = "top"] /\ new' = [new EXCEPT ![c] = t]
                               /\ cpc' = [cpc EXCEPT ![c] = "add"] /\ UNCHANGED left
      BY Zenon, <1>16, <2>4 DEF createThread, Go, Goto
    <3> QED  BY Zenon, <1>0, <2>1, <3>1 DEF PoolType, TpTypeOK, PCs, OwnerPCs, CommitPCs, Calling, Creating,
                                     Callers, TpAssumption, counters, waitvars
  <2> QED  BY Zenon, <2>3, <2>4
<1>17. ASSUME NEW c \in Callers, addThread(c)  PROVE PoolType'
  BY SMTT(20), <1>0, <1>17 DEF addThread, Goto, PoolType, TpTypeOK, OwnerPCs, CommitPCs, Calling, Creating, pool,
                     waitvars
<1>18. ASSUME NEW c \in Callers, Added(c)  PROVE PoolType'
  BY SMTT(20), <1>0, <1>18 DEF Added, Goto, Back, Fewer, PoolType, TpTypeOK, OwnerPCs, CommitPCs, Calling, Creating,
                     PCs, Callers, TpAssumption, Roles, pool, waitvars
<1>19. CASE NotifyAll
  BY Zenon, <1>0, <1>19 DEF NotifyAll, Goto, PoolType, TpTypeOK, OwnerPCs, CommitPCs, Calling, Creating, PCs,
                     Callers, TpAssumption, Roles, counters, waitvars
<1>20. CASE JoinAll
  BY SMTT(20), <1>0, <1>20 DEF JoinAll, Goto, PoolType, TpTypeOK, OwnerPCs, CommitPCs, Calling, Creating, PCs,
                     Callers, TpAssumption, Roles, pool, waitvars
<1>21. CASE WaitLooks
  BY <1>0, <1>21, Zenon DEF WaitLooks, Goto, NoTasks, PoolType, TpTypeOK, OwnerPCs, CommitPCs, Calling, Creating,
                     counters, pool
<1>22. CASE WaitCompares
  BY <1>0, <1>22, Zenon DEF WaitCompares, Goto, PoolType, TpTypeOK, OwnerPCs, CommitPCs, Calling, Creating,
                     counters, pool, waitvars
<1>23. CASE WaitReturns
  <2>1. shrunk' \in BOOLEAN
    BY <1>23, Zenon DEF WaitReturns
  <2> QED  BY SMTT(20), <1>0, <1>23, <2>1 DEF WaitReturns, Goto, PoolType, TpTypeOK, PCs, OwnerPCs, CommitPCs,
                                    Calling, Creating, Callers, TpAssumption, counters, pool
<1>24. CASE OwnerStarts
  BY <1>0, <1>24, Zenon DEF OwnerStarts, Goto, PoolType, TpTypeOK, OwnerPCs, CommitPCs, Calling, Creating,
                     counters, pool, waitvars
<1>25. CASE pause
  BY Zenon, <1>0, <1>25 DEF pause, PoolType, TpTypeOK, OwnerPCs, CommitPCs, Calling, Creating, counters, pool,
                     call, waitvars
<1>26. CASE resume
  BY Zenon, <1>0, <1>26 DEF resume, PoolType, TpTypeOK, OwnerPCs, CommitPCs, Calling, Creating, counters, pool,
                     call, waitvars
<1>27. CASE wait
  <2>1. shrunk' \in BOOLEAN
    BY Zenon, <1>27 DEF wait
  <2>2. before' \subseteq Committers
    BY Zenon, <1>27 DEF wait, Committed
  <2>3. cpc' = [cpc EXCEPT ![Owner] = "wait"]
    BY Zenon, <1>27 DEF wait, Goto
  <2>4. UNCHANGED << status, counters, tasks, thread_mutex, listed, marked, pool, ret, left, new,
                     seenIdle, done, pauses >>
    BY Zenon, <1>27 DEF wait
  <2> QED  BY Zenon, <1>0, <2>1, <2>2, <2>3, <2>4 DEF PoolType, TpTypeOK, PCs, OwnerPCs, CommitPCs, Calling,
                                               Creating, Callers, TpAssumption, counters, pool
<1>28. CASE stop
  BY <1>0, <1>28, Zenon DEF stop, Goto, PoolType, TpTypeOK, OwnerPCs, CommitPCs, Calling, Creating, counters,
                     pool, waitvars
<1> QED
  BY ZenonT(30), <1>1, <1>2, <1>3, <1>4, <1>5, <1>6, <1>7, <1>8, <1>9, <1>10, <1>11, <1>12, <1>13, <1>14, <1>15,
     <1>16, <1>17, <1>18, <1>19, <1>20, <1>21, <1>22, <1>23, <1>24, <1>25, <1>26, <1>27, <1>28 DEF TpNext,
     PoolStep, CallStep, OwnerStep, Callers

\* What the holder of task_mutex saw of the queue and of the size of the pool still holds.
LEMMA LocksStep ==
    ASSUME TpAssumption, PoolInv, TpNext
    PROVE  Locks'
<1>0. PoolType /\ Locks /\ Roles /\ Places /\ Stops /\ Counts /\ Enough /\ Wakes /\ Waits
  BY Zenon DEF PoolInv
<1>1. ASSUME NEW t \in Threads, Top(t)  PROVE Locks'
  BY Zenon, <1>0, <1>1 DEF Top, Go, Locks, PoolType, counters, call, waitvars
<1>2. ASSUME NEW t \in Threads, Lock(t)  PROVE Locks'
  BY Zenon, <1>0, <1>2 DEF Lock, Go, Locks, PoolType, TpTypeOK, TpAssumption, counters, call, waitvars
<1>3. ASSUME NEW t \in Threads, Block(t)  PROVE Locks'
  BY Zenon, <1>0, <1>3 DEF Block, Go, Locks, PoolType, TpTypeOK, TpAssumption, counters, call, waitvars
<1>4. ASSUME NEW t \in Threads, Awake(t)  PROVE Locks'
  BY ZenonT(30), <1>0, <1>4 DEF Awake, Go, MayShrink, Locks, PoolType, TpTypeOK, TpAssumption, call, waitvars
<1>5. ASSUME NEW t \in Threads, Pop(t)  PROVE Locks'
  BY Zenon, <1>0, <1>5 DEF Pop, Go, Locks, PoolType, TpTypeOK, TpAssumption, counters, call, waitvars
<1>6. ASSUME NEW t \in Threads, Run(t)  PROVE Locks'
  BY Zenon, <1>0, <1>6 DEF Run, Go, IdleAgain, Locks, PoolType, call, waitvars
<1>7. ASSUME NEW t \in Threads, delThread(t)  PROVE Locks'
  BY Zenon, <1>0, <1>7 DEF delThread, Go, Locks, PoolType, call
<1>8. ASSUME NEW t \in Threads, Deleted(t)  PROVE Locks'
  BY Zenon, <1>0, <1>8 DEF Deleted, Go, Locks, PoolType, TpTypeOK, TpAssumption, call, waitvars
<1>9. ASSUME NEW t \in Threads, TimesOut(t)  PROVE Locks'
  BY Zenon, <1>0, <1>9 DEF TimesOut, Go, Locks, PoolType, counters, call, waitvars
<1>10. ASSUME NEW c \in Committers, Push(c)  PROVE Locks'
  BY Zenon, <1>0, <1>10 DEF Push, Goto, Locks, PoolType, TpTypeOK, TpAssumption, counters, pool, waitvars
<1>11. ASSUME NEW c \in Committers, Notify(c)  PROVE Locks'
  BY ZenonT(30), <1>0, <1>11 DEF Notify, Goto, WokenByOne, Locks, PoolType, counters, waitvars
<1>12. ASSUME NEW c \in Callers, createThread(c)  PROVE Locks'
  BY ZenonT(30), <1>0, <1>12 DEF createThread, Go, Goto, Back, Fewer, Joined, Full, Locks, PoolType, counters,
                     waitvars
<1>13. ASSUME NEW c \in Callers, addThread(c)  PROVE Locks'
  BY SMTT(20), <1>0, <1>13 DEF addThread, Goto, Locks, PoolType, TpTypeOK, TpAssumption, pool, waitvars
<1>14. CASE NotifyAll
  BY Zenon, <1>0, <1>14 DEF NotifyAll, Goto, Locks, PoolType, counters, waitvars
<1>15. CASE JoinAll
  <2>1. \A t \in Threads : pc[t] \in Off
    BY Zenon, <1>15, AllJoined
  <2> QED  BY Zenon, <1>0, <1>15, <2>1 DEF JoinAll, Locks, Off, pool
<1>16. ASSUME NEW c \in Callers, commit(c) \/ Grow(c) \/ start(c) \/ Started(c) \/ Added(c) \/ WaitLooks
              \/ WaitCompares \/ WaitReturns \/ OwnerStarts \/ pause \/ resume \/ wait \/ stop
       PROVE  Locks'
  <2>1. UNCHANGED << pc, task_mutex, tasks, cur_thread_num >>
    BY <1>16, Zenon DEF commit, Grow, start, Started, Added, WaitLooks, WaitCompares, WaitReturns, OwnerStarts,
                 pause, resume, wait, stop, counters, pool, call, waitvars
  <2> QED  BY Zenon, <1>0, <2>1 DEF Locks
<1> QED
  BY ZenonT(30), <1>1, <1>2, <1>3, <1>4, <1>5, <1>6, <1>7, <1>8, <1>9, <1>10, <1>11, <1>12, <1>13, <1>14, <1>15,
     <1>16 DEF TpNext, PoolStep, CallStep, OwnerStep, Callers

\* Callers stay in their roles.
LEMMA RolesStep ==
    ASSUME TpAssumption, PoolInv, TpNext
    PROVE  Roles'
<1>0. PoolType /\ Locks /\ Roles /\ Places /\ Stops /\ Counts /\ Enough /\ Wakes /\ Waits
  BY Zenon DEF PoolInv
<1>1. ASSUME NEW c \in Committers, commit(c)  PROVE Roles'
  BY SMTT(20), <1>0, <1>1 DEF commit, Roles, OwnerPCs, CommitPCs, Calling, Creating, PoolType, TpTypeOK,
                    TpAssumption, counters, pool, waitvars
<1>2. ASSUME NEW c \in Committers, Grow(c)  PROVE Roles'
  BY SMTT(20), <1>0, <1>2 DEF Grow, Goto, Full, Roles, OwnerPCs, CommitPCs, Calling, Creating, PoolType, counters,
                    pool, waitvars
<1>3. ASSUME NEW c \in Committers, Push(c)  PROVE Roles'
  BY SMTT(20), <1>0, <1>3 DEF Push, Goto, Roles, OwnerPCs, CommitPCs, Calling, Creating, PoolType, counters, pool,
                    waitvars
<1>4. ASSUME NEW c \in Committers, Notify(c)  PROVE Roles'
  BY SMTT(20), <1>0, <1>4 DEF Notify, Goto, WokenByOne, Roles, OwnerPCs, CommitPCs, Calling, Creating, PoolType,
                    counters, waitvars
<1>5. ASSUME NEW c \in Callers, start(c)  PROVE Roles'
  BY SMTT(20), <1>0, <1>5 DEF start, Goto, Roles, OwnerPCs, CommitPCs, Calling, Creating, PoolType, counters,
                    pool, waitvars
<1>6. ASSUME NEW c \in Callers, Started(c)  PROVE Roles'
  BY SMTT(20), <1>0, <1>6 DEF Started, Goto, Roles, OwnerPCs, CommitPCs, Calling, Creating, PoolType, counters,
                    pool, waitvars
<1>7. ASSUME NEW c \in Callers, createThread(c)  PROVE Roles'
  <2>1. cpc[c] = "create" /\ UNCHANGED ret /\ new[c] = NoThread
    BY Zenon, <1>0, <1>7 DEF createThread, Roles
  <2>2. CASE Full
    <3>1. UNCHANGED new /\ cpc' = [cpc EXCEPT ![c] = Back(c)] /\ left' = Fewer(c)
      BY Zenon, <1>7, <2>2 DEF createThread, Goto
    <3>2. /\ left[c] > 1 => cpc'[c] = "create"
          /\ ~(left[c] > 1) => cpc'[c] = ret[c] /\ left'[c] = 0
          /\ \A d \in Callers : d # c => cpc'[d] = cpc[d] /\ left'[d] = left[d]
      BY SMTT(20), <1>0, <3>1 DEF Back, Fewer, PoolType, TpTypeOK
    <3>3. \A d \in Callers : cpc'[d] \in {"add", "added"} <=> new[d] # NoThread
      BY Zenon, <1>0, <2>1, <3>2 DEF Roles, PoolType
    <3>4. \A d \in Callers : left'[d] > 0 => cpc'[d] \in Creating
      BY SMTT(20), <1>0, <3>2 DEF Roles, Creating, PoolType, TpTypeOK
    <3> QED  BY SMTT(20), <1>0, <2>1, <3>1, <3>2, <3>3, <3>4 DEF Roles, OwnerPCs, CommitPCs, Calling, Creating,
       Callers, TpAssumption
  <2>3. CASE ~Full
    <3>1. PICK t \in Threads : new' = [new EXCEPT ![c] = t] /\ cpc' = [cpc EXCEPT ![c] = "add"]
                 /\ UNCHANGED left
      BY Zenon, <1>7, <2>3 DEF createThread, Goto
    <3>2. t # NoThread
      BY Zenon DEF TpAssumption
    <3> QED  BY Zenon, <1>0, <2>1, <3>1, <3>2 DEF Roles, OwnerPCs, CommitPCs, Calling, Creating, PoolType,
                                           TpTypeOK, Callers, TpAssumption
  <2> QED  BY Zenon, <2>2, <2>3
<1>8. ASSUME NEW c \in Callers, addThread(c)  PROVE Roles'
  BY SMTT(20), <1>0, <1>8 DEF addThread, Goto, Roles, OwnerPCs, CommitPCs, Calling, Creating, PoolType, pool,
                    waitvars
<1>9. ASSUME NEW c \in Callers, Added(c)  PROVE Roles'
  BY SMTT(20), <1>0, <1>9 DEF Added, Goto, Back, Fewer, Roles, OwnerPCs, CommitPCs, Calling, Creating, PoolType,
                    TpTypeOK, TpAssumption, pool, waitvars
<1>10. CASE NotifyAll
  BY SMTT(20), <1>0, <1>10 DEF NotifyAll, Goto, Roles, OwnerPCs, CommitPCs, Calling, Creating, PoolType, counters,
                     waitvars
<1>11. CASE JoinAll
  BY SMTT(20), <1>0, <1>11 DEF JoinAll, Goto, Roles, OwnerPCs, CommitPCs, Calling, Creating, PoolType, pool,
                     waitvars
<1>12. CASE WaitLooks
  BY SMTT(20), <1>0, <1>12 DEF WaitLooks, Goto, NoTasks, Roles, OwnerPCs, CommitPCs, Calling, Creating, PoolType,
                     counters, pool
<1>13. CASE WaitCompares
  BY SMTT(20), <1>0, <1>13 DEF WaitCompares, Goto, Roles, OwnerPCs, CommitPCs, Calling, Creating, PoolType,
                     counters, pool, waitvars
<1>14. CASE WaitReturns
  BY SMTT(20), <1>0, <1>14 DEF WaitReturns, Goto, Roles, OwnerPCs, CommitPCs, Calling, Creating, PoolType,
                     counters, pool
<1>15. CASE OwnerStarts
  BY SMTT(20), <1>0, <1>15 DEF OwnerStarts, Goto, Roles, OwnerPCs, CommitPCs, Calling, Creating, PoolType, TpTypeOK,
                     TpAssumption, counters, pool, waitvars
<1>16. CASE wait
  BY SMTT(20), <1>0, <1>16 DEF wait, Goto, Roles, OwnerPCs, CommitPCs, Calling, Creating, PoolType, TpTypeOK,
                     TpAssumption, counters, pool
<1>17. CASE stop
  BY ZenonT(30), <1>0, <1>17 DEF stop, Goto, Roles, OwnerPCs, CommitPCs, Calling, Creating, PoolType, TpTypeOK, PCs,
                     Callers, TpAssumption, counters, pool, waitvars
<1>18. ASSUME NEW t \in Threads, Top(t) \/ Lock(t) \/ Block(t) \/ Awake(t) \/ Pop(t) \/ Run(t)
              \/ delThread(t) \/ Deleted(t) \/ TimesOut(t)
       PROVE  Roles'
  <2>1. UNCHANGED << cpc, ret, new, left >>
    BY <1>18, Zenon DEF Top, Lock, Block, Awake, Pop, Run, delThread, Deleted, TimesOut, counters, pool, call,
                 waitvars
  <2> QED  BY Zenon, <1>0, <2>1 DEF Roles
<1>19. CASE pause \/ resume
  <2>1. UNCHANGED << cpc, ret, new, left >>
    BY Zenon, <1>19 DEF pause, resume, counters, pool, call, waitvars
  <2> QED  BY Zenon, <1>0, <2>1 DEF Roles
<1> QED
  BY ZenonT(30), <1>1, <1>2, <1>3, <1>4, <1>5, <1>6, <1>7, <1>8, <1>9, <1>10, <1>11, <1>12, <1>13, <1>14, <1>15,
     <1>16, <1>17, <1>18, <1>19 DEF TpNext, PoolStep, CallStep, OwnerStep, Callers

\* A thread that is not over is in the list or about to be.
LEMMA PlacesStep ==
    ASSUME TpAssumption, PoolInv, TpNext
    PROVE  Places'
<1>0. PoolType /\ Locks /\ Roles /\ Places /\ Stops /\ Counts /\ Enough /\ Wakes /\ Waits
  BY Zenon DEF PoolInv
<1>1. ASSUME NEW t \in Threads, Top(t)  PROVE Places'
  BY SMTT(20), <1>0, <1>1 DEF Top, Go, Places, Off, PoolType, counters, call, waitvars
<1>2. ASSUME NEW t \in Threads, Lock(t)  PROVE Places'
  BY SMTT(20), <1>0, <1>2 DEF Lock, Go, Places, Off, PoolType, counters, call, waitvars
<1>3. ASSUME NEW t \in Threads, Block(t)  PROVE Places'
  BY SMTT(20), <1>0, <1>3 DEF Block, Go, Places, Off, PoolType, counters, call, waitvars
<1>4. ASSUME NEW t \in Threads, Awake(t)  PROVE Places'
  BY ZenonT(30), <1>0, <1>4 DEF Awake, Go, MayShrink, Places, Off, PoolType, TpTypeOK, PCs, Callers, TpAssumption,
                    call, waitvars
<1>5. ASSUME NEW t \in Threads, Pop(t)  PROVE Places'
  BY SMTT(20), <1>0, <1>5 DEF Pop, Go, Places, Off, PoolType, counters, call, waitvars
<1>6. ASSUME NEW t \in Threads, Run(t)  PROVE Places'
  BY SMTT(20), <1>0, <1>6 DEF Run, Go, IdleAgain, Places, Off, PoolType, call, waitvars
<1>7. ASSUME NEW t \in Threads, delThread(t)  PROVE Places'
  BY SMTT(20), <1>0, <1>7 DEF delThread, Go, Places, Off, PoolType, call
<1>8. ASSUME NEW t \in Threads, Deleted(t)  PROVE Places'
  BY SMTT(20), <1>0, <1>8 DEF Deleted, Go, Places, Off, PoolType, call, waitvars
<1>9. ASSUME NEW t \in Threads, TimesOut(t)  PROVE Places'
  BY SMTT(20), <1>0, <1>9 DEF TimesOut, Go, Places, Off, PoolType, counters, call, waitvars
<1>10. ASSUME NEW c \in Committers, Notify(c)  PROVE Places'
  <2>1. UNCHANGED << listed, marked, new >> /\ pc' \in WokenByOne
    BY Zenon, <1>10 DEF Notify
  <2>2. \A t \in Threads : pc'[t] = pc[t] \/ (pc[t] = "waiting" /\ pc'[t] = "woken")
    BY Zenon, <1>0, <2>1 DEF WokenByOne, PoolType
  <2> QED  BY <1>0, <2>1, <2>2, Zenon DEF Places, Off, PoolType, TpTypeOK
<1>11. ASSUME NEW c \in Callers, createThread(c)  PROVE Places'
  <2>1. UNCHANGED << listed, marked >> /\ cpc[c] = "create" /\ new[c] = NoThread
    BY Zenon, <1>0, <1>11 DEF createThread, Roles
  <2>2. CASE Full
    BY Zenon, <1>0, <1>11, <2>1, <2>2 DEF createThread, Places
  <2>3. CASE ~Full
    <3>1. PICK t \in Threads : Joined(t) /\ pc' = [pc EXCEPT ![t] = "top"]
                 /\ new' = [new EXCEPT ![c] = t]
      BY Zenon, <1>11, <2>3 DEF createThread, Go
    <3>2. t \notin marked /\ marked \subseteq Threads /\ c \in Callers
      BY Zenon, <1>0, <3>1 DEF Joined, PoolType, TpTypeOK
    <3>3. \A u \in marked : pc'[u] = "exited"
      BY Zenon, <1>0, <3>1, <3>2 DEF Places, PoolType
    <3>4. ASSUME NEW u \in Threads, pc'[u] \notin Off
          PROVE  u \in listed \/ \E d \in Callers : new'[d] = u
      <4>1. new'[c] = t
        BY Zenon, <1>0, <3>1 DEF PoolType, TpTypeOK
      <4>2. CASE u = t
        BY Zenon, <4>1, <4>2
      <4>3. CASE u # t
        <5>1. u \in listed \/ \E d \in Callers : new[d] = u
          BY Zenon, <1>0, <3>1, <3>4, <4>3 DEF Places, PoolType
        <5>2. u # NoThread
          BY Zenon DEF TpAssumption
        <5>3. \A d \in Callers : new[d] = u => new'[d] = u
          BY Zenon, <1>0, <2>1, <3>1, <5>2 DEF PoolType, TpTypeOK
        <5> QED  BY Zenon, <5>1, <5>3
      <4> QED  BY Zenon, <4>2, <4>3
    <3> QED  BY Zenon, <2>1, <3>3, <3>4 DEF Places
  <2> QED  BY Zenon, <2>2, <2>3
<1>12. ASSUME NEW c \in Callers, Added(c)  PROVE Places'
  BY SMTT(20), <1>0, <1>12 DEF Added, Goto, Back, Fewer, Places, Off, PoolType, pool, waitvars
<1>13. CASE NotifyAll
  BY Zenon, <1>0, <1>13 DEF NotifyAll, Goto, Places, Off, PoolType, TpTypeOK, TpAssumption, counters, waitvars
<1>14. CASE JoinAll
  BY <1>0, <1>14, Zenon DEF JoinAll, Goto, Places, Off, PoolType, pool, waitvars
<1>15. ASSUME NEW c \in Callers, commit(c) \/ Grow(c) \/ Push(c) \/ start(c) \/ Started(c)
              \/ addThread(c) \/ WaitLooks \/ WaitCompares \/ WaitReturns \/ OwnerStarts \/ pause
              \/ resume \/ wait \/ stop
       PROVE  Places'
  <2>1. UNCHANGED << pc, marked, listed, new >>
    BY <1>15, Zenon DEF commit, Grow, Push, start, Started, addThread, WaitLooks, WaitCompares, WaitReturns,
                 OwnerStarts, pause, resume, wait, stop, counters, pool, call, waitvars
  <2> QED  BY Zenon, <1>0, <2>1 DEF Places
<1> QED
  BY ZenonT(30), <1>1, <1>2, <1>3, <1>4, <1>5, <1>6, <1>7, <1>8, <1>9, <1>10, <1>11, <1>12, <1>13, <1>14, <1>15 DEF
     TpNext, PoolStep, CallStep, OwnerStep, Callers

\* stop leaves nothing behind.
LEMMA StopsStep ==
    ASSUME TpAssumption, PoolInv, TpNext, ~StopRaces
    PROVE  Stops'
<1>0. PoolType /\ Locks /\ Roles /\ Places /\ Stops /\ Counts /\ Enough /\ Wakes /\ Waits
  BY Zenon DEF PoolInv
<1>1. ASSUME NEW t \in Threads, Top(t)  PROVE Stops'
  BY Zenon, <1>0, <1>1 DEF Top, Go, Stops, Stopping, Off, Calling, Creating, PoolType, counters, call, waitvars
<1>2. ASSUME NEW t \in Threads, Lock(t)  PROVE Stops'
  BY Zenon, <1>0, <1>2 DEF Lock, Go, Stops, Stopping, Off, Calling, Creating, PoolType, counters, call,
                    waitvars
<1>3. ASSUME NEW t \in Threads, Block(t)  PROVE Stops'
  BY Zenon, <1>0, <1>3 DEF Block, Go, Stops, Stopping, Off, Calling, Creating, PoolType, counters, call,
                    waitvars
<1>4. ASSUME NEW t \in Threads, Awake(t)  PROVE Stops'
  BY Zenon, <1>0, <1>4 DEF Awake, Go, MayShrink, Stops, Stopping, Off, Calling, Creating, PoolType, call,
                    waitvars
<1>5. ASSUME NEW t \in Threads, Pop(t)  PROVE Stops'
  BY Zenon, <1>0, <1>5 DEF Pop, Go, Stops, Stopping, Off, Calling, Creating, PoolType, counters, call, waitvars
<1>6. ASSUME NEW t \in Threads, Run(t)  PROVE Stops'
  BY Zenon, <1>0, <1>6 DEF Run, Go, IdleAgain, Stops, Stopping, Off, Calling, Creating, PoolType, call,
                    waitvars
<1>7. ASSUME NEW t \in Threads, delThread(t)  PROVE Stops'
  BY Zenon, <1>0, <1>7 DEF delThread, Go, Stops, Stopping, Off, Calling, Creating, PoolType, call
<1>8. ASSUME NEW t \in Threads, Deleted(t)  PROVE Stops'
  BY Zenon, <1>0, <1>8 DEF Deleted, Go, Stops, Stopping, Off, Calling, Creating, PoolType, call, waitvars
<1>9. ASSUME NEW t \in Threads, TimesOut(t)  PROVE Stops'
  BY Zenon, <1>0, <1>9 DEF TimesOut, Go, Stops, Stopping, Off, Calling, Creating, PoolType, counters, call,
                    waitvars
<1>10. ASSUME NEW c \in Committers, commit(c)  PROVE Stops'
  BY SMTT(20), <1>0, <1>10 DEF commit, Stops, Stopping, Off, Calling, Creating, PoolType, counters, pool, waitvars
<1>11. ASSUME NEW c \in Committers, Grow(c)  PROVE Stops'
  BY SMTT(20), <1>0, <1>11 DEF Grow, Goto, Full, Stops, Stopping, Off, Calling, Creating, PoolType, counters,
                     pool, waitvars
<1>12. ASSUME NEW c \in Committers, Push(c)  PROVE Stops'
  BY SMTT(20), <1>0, <1>12 DEF Push, Goto, Stops, Stopping, Off, Calling, Creating, PoolType, counters, pool,
                     waitvars
<1>13. ASSUME NEW c \in Committers, Notify(c)  PROVE Stops'
  BY SMTT(20), <1>0, <1>13 DEF Notify, Goto, WokenByOne, Stops, Stopping, Off, Calling, Creating, PoolType,
                     counters, waitvars
<1>14. ASSUME NEW c \in Callers, start(c)  PROVE Stops'
  BY SMTT(20), <1>0, <1>14 DEF start, Goto, Stops, Stopping, Off, Calling, Creating, PoolType, counters, pool,
                     waitvars
<1>15. ASSUME NEW c \in Callers, Started(c)  PROVE Stops'
  BY Zenon, <1>0, <1>15 DEF Started, Goto, Stops, Stopping, Off, Calling, Creating, Roles, PoolType, TpTypeOK,
                     PCs, Callers, TpAssumption, counters, pool, waitvars
<1>16. ASSUME NEW c \in Callers, createThread(c)  PROVE Stops'
  BY <1>0, <1>16, ZenonT(30) DEF createThread, Go, Goto, Back, Fewer, Joined, Full, Stops, Stopping, Off, Calling,
                     Creating, Roles, PoolType, TpTypeOK, PCs, Callers, TpAssumption, counters, waitvars
<1>17. ASSUME NEW c \in Callers, addThread(c)  PROVE Stops'
  BY SMTT(20), <1>0, <1>17 DEF addThread, Goto, Stops, Stopping, Off, Calling, Creating, PoolType, pool, waitvars
<1>18. ASSUME NEW c \in Callers, Added(c)  PROVE Stops'
  BY SMTT(20), <1>0, <1>18 DEF Added, Goto, Back, Fewer, Stops, Stopping, Off, Calling, Creating, PoolType, pool,
                     waitvars
<1>19. CASE NotifyAll
  BY SMTT(20), <1>0, <1>19 DEF NotifyAll, Goto, Stops, Stopping, Off, Calling, Creating, PoolType, counters,
                     waitvars
<1>20. CASE JoinAll
  <2>1. status = "STOP" /\ (\A t \in Threads : pc[t] \in Off)
               /\ \A c \in Callers : cpc[c] \in {"idle", "end", "join"}
    BY Zenon, <1>20, AllJoined
  <2>2. cpc' = [cpc EXCEPT ![Owner] = "end"] /\ cur_thread_num' = 0 /\ idle_thread_num' = 0
               /\ UNCHANGED << status, pc >>
    BY Zenon, <1>20 DEF JoinAll, Goto, pool
  <2>3. \A c \in Committers : cpc[c] \in {"idle", "end"}
    BY Zenon, <1>0, <1>20 DEF JoinAll, Stops, Stopping
  <2> QED  BY Zenon, <1>0, <2>1, <2>2, <2>3 DEF Stops, Stopping, PoolType, Callers
<1>21. CASE WaitLooks
  BY Zenon, <1>0, <1>21 DEF WaitLooks, Goto, NoTasks, Stops, Stopping, Off, Calling, Creating, PoolType,
                     counters, pool
<1>22. CASE WaitCompares
  BY Zenon, <1>0, <1>22 DEF WaitCompares, Goto, Stops, Stopping, Off, Calling, Creating, PoolType, counters,
                     pool, waitvars
<1>23. CASE WaitReturns
  BY Zenon, <1>0, <1>23 DEF WaitReturns, Goto, Stops, Stopping, Off, Calling, Creating, PoolType, counters,
                     pool
<1>24. CASE OwnerStarts
  BY Zenon, <1>0, <1>24 DEF OwnerStarts, Goto, Stops, Stopping, Off, Calling, Creating, PoolType, counters,
                     pool, waitvars
<1>25. CASE pause
  BY Zenon, <1>0, <1>25 DEF pause, Stops, Stopping, Off, Calling, Creating, PoolType, counters, pool, call,
                     waitvars
<1>26. CASE resume
  BY Zenon, <1>0, <1>26 DEF resume, Stops, Stopping, Off, Calling, Creating, PoolType, counters, pool, call,
                     waitvars
<1>27. CASE wait
  BY Zenon, <1>0, <1>27 DEF wait, Goto, Stops, Stopping, Off, Calling, Creating, PoolType, counters, pool
<1>28. CASE stop
  BY Zenon, <1>0, <1>28 DEF stop, Goto, Stops, Stopping, Off, Calling, Creating, Roles, PoolType, TpTypeOK, PCs,
                     Callers, TpAssumption, counters, pool, waitvars
<1> QED
  BY ZenonT(30), <1>1, <1>2, <1>3, <1>4, <1>5, <1>6, <1>7, <1>8, <1>9, <1>10, <1>11, <1>12, <1>13, <1>14, <1>15,
     <1>16, <1>17, <1>18, <1>19, <1>20, <1>21, <1>22, <1>23, <1>24, <1>25, <1>26, <1>27, <1>28 DEF TpNext,
     PoolStep, CallStep, OwnerStep, Callers


\* Waking up changes no count.
LEMMA WokenCounts ==
    ASSUME \A t \in Threads : pc'[t] = pc[t] \/ (pc[t] = "waiting" /\ pc'[t] = "woken")
    PROVE  UNCHANGED << NBusy, NDeleted, NLive >>
<1>1. \A t \in Threads : /\ pc'[t] \in Working <=> pc[t] \in Working
                         /\ pc'[t] = "deleted" <=> pc[t] = "deleted"
                         /\ pc'[t] \in Live <=> pc[t] \in Live
  BY Zenon DEF Working, Live, PCs
<1>2. /\ {t \in Threads : pc'[t] \in Working} = {t \in Threads : pc[t] \in Working}
      /\ {t \in Threads : pc'[t] = "deleted"} = {t \in Threads : pc[t] = "deleted"}
      /\ {t \in Threads : pc'[t] \in Live} = {t \in Threads : pc[t] \in Live}
  BY Zenon, <1>1
<1> QED  BY Zenon, <1>2 DEF NBusy, NDeleted, NLive

\* The counters are numbers.
LEMMA CountsNumbers ==
    ASSUME TpAssumption, PoolType
    PROVE  /\ NBusy \in Int /\ NDeleted \in Int /\ NLive \in Int /\ NAdd \in Int /\ NAdded \in Int
           /\ cur_thread_num \in Int /\ idle_thread_num \in Int
           /\ max_thread_num + Cardinality(Callers) - 1 \in Int
<1>1. /\ NBusy \in Nat /\ NDeleted \in Nat /\ NLive \in Nat /\ NAdd \in Nat /\ NAdded \in Nat
      /\ Cardinality(Callers) \in Nat
  BY Zenon, CountsAreNat
<1>2. cur_thread_num \in Int /\ idle_thread_num \in Int /\ max_thread_num \in Nat
  BY SMTT(20) DEF PoolType, TpTypeOK, TpAssumption
<1> QED  BY SMTT(20), <1>1, <1>2

\* The counters count.
LEMMA CountsStep ==
    ASSUME TpAssumption, PoolInv, TpNext
    PROVE  Counts'
<1>0. PoolType /\ Locks /\ Roles /\ Places /\ Stops /\ Counts /\ Enough /\ Wakes /\ Waits
  BY Zenon DEF PoolInv
<1>1. ASSUME NEW t \in Threads, Top(t)  PROVE Counts'
  <2>1. /\ pc' = [pc EXCEPT ![t] = pc'[t]] /\ UNCHANGED << status, cpc >>
        /\ pc[t] = "top" /\ (pc'[t] = "lock" \/ (pc'[t] = "exited" /\ status = "STOP"))
               /\ UNCHANGED << cur_thread_num, idle_thread_num >>
    BY Zenon, <1>0, <1>1 DEF Top, Go, PoolType, counters, call
  <2>2. /\ NBusy' = NBusy + In(pc'[t], Working) - In(pc[t], Working)
        /\ NDeleted' = NDeleted + In(pc'[t], {"deleted"}) - In(pc[t], {"deleted"})
        /\ NLive' = NLive + In(pc'[t], Live) - In(pc[t], Live)
        /\ NAdd' = NAdd /\ NAdded' = NAdded
    BY Zenon, <1>0, <2>1, ThreadMoves, NobodyMoves DEF PoolType
  <2>3. /\ NBusy' = NBusy /\ NDeleted' = NDeleted /\ (status # "STOP" => NLive' = NLive)
        /\ NAdd' = NAdd /\ NAdded' = NAdded
    BY SMTT(20), <1>0, <2>1, <2>2, CountsNumbers DEF In, Working, Live, PCs
  <2> QED  BY Zenon, <1>0, <2>1, <2>3, CountsNumbers DEF Counts
<1>2. ASSUME NEW t \in Threads, Lock(t)  PROVE Counts'
  <2>1. /\ pc' = [pc EXCEPT ![t] = pc'[t]] /\ UNCHANGED << status, cpc >>
        /\ pc[t] \in {"lock", "woken", "late"} /\ pc'[t] \in {"go", "block"}
               /\ UNCHANGED << cur_thread_num, idle_thread_num >>
    BY Zenon, <1>0, <1>2 DEF Lock, Go, PoolType, counters, call
  <2>2. /\ NBusy' = NBusy + In(pc'[t], Working) - In(pc[t], Working)
        /\ NDeleted' = NDeleted + In(pc'[t], {"deleted"}) - In(pc[t], {"deleted"})
        /\ NLive' = NLive + In(pc'[t], Live) - In(pc[t], Live)
        /\ NAdd' = NAdd /\ NAdded' = NAdded
    BY Zenon, <1>0, <2>1, ThreadMoves, NobodyMoves DEF PoolType
  <2>3. /\ NBusy' = NBusy /\ NDeleted' = NDeleted /\ NLive' = NLive
        /\ NAdd' = NAdd /\ NAdded' = NAdded
    BY SMTT(20), <1>0, <2>1, <2>2, CountsNumbers DEF In, Working, Live, PCs
  <2> QED  BY Zenon, <1>0, <2>1, <2>3, CountsNumbers DEF Counts
<1>3. ASSUME NEW t \in Threads, Block(t)  PROVE Counts'
  <2>1. /\ pc' = [pc EXCEPT ![t] = pc'[t]] /\ UNCHANGED << status, cpc >>
        /\ pc[t] = "block" /\ pc'[t] = "waiting" /\ UNCHANGED << cur_thread_num, idle_thread_num >>
    BY Zenon, <1>0, <1>3 DEF Block, Go, PoolType, counters, call
  <2>2. /\ NBusy' = NBusy + In(pc'[t], Working) - In(pc[t], Working)
        /\ NDeleted' = NDeleted + In(pc'[t], {"deleted"}) - In(pc[t], {"deleted"})
        /\ NLive' = NLive + In(pc'[t], Live) - In(pc[t], Live)
        /\ NAdd' = NAdd /\ NAdded' = NAdded
    BY Zenon, <1>0, <2>1, ThreadMoves, NobodyMoves DEF PoolType
  <2>3. /\ NBusy' = NBusy /\ NDeleted' = NDeleted /\ NLive' = NLive
        /\ NAdd' = NAdd /\ NAdded' = NAdded
    BY SMTT(20), <1>0, <2>1, <2>2, CountsNumbers DEF In, Working, Live, PCs
  <2> QED  BY Zenon, <1>0, <2>1, <2>3, CountsNumbers DEF Counts
<1>4. ASSUME NEW t \in Threads, Awake(t)  PROVE Counts'
  <2>1. /\ pc' = [pc EXCEPT ![t] = pc'[t]] /\ UNCHANGED << status, cpc >>
        /\ pc[t] = "go" /\ UNCHANGED cur_thread_num
        /\ \/ pc'[t] = "exited" /\ status = "STOP" /\ UNCHANGED idle_thread_num
           \/ pc'[t] \in {"delete", "top"} /\ UNCHANGED idle_thread_num
           \/ pc'[t] = "pop" /\ idle_thread_num' = idle_thread_num - 1
    BY Zenon, <1>0, <1>4 DEF Awake, Go, MayShrink, PoolType, counters, call
  <2>2. /\ NBusy' = NBusy + In(pc'[t], Working) - In(pc[t], Working)
        /\ NDeleted' = NDeleted + In(pc'[t], {"deleted"}) - In(pc[t], {"deleted"})
        /\ NLive' = NLive + In(pc'[t], Live) - In(pc[t], Live)
        /\ NAdd' = NAdd /\ NAdded' = NAdded
    BY Zenon, <1>0, <2>1, ThreadMoves, NobodyMoves DEF PoolType
  <2>3. /\ NBusy' = NBusy + (idle_thread_num - idle_thread_num') /\ NDeleted' = NDeleted
        /\ status # "STOP" => NLive' = NLive
        /\ NAdd' = NAdd /\ NAdded' = NAdded
    BY SMTT(20), <1>0, <2>1, <2>2, CountsNumbers DEF In, Working, Live, PCs
  <2> QED  BY SMTT(20), <1>0, <2>1, <2>3, CountsNumbers DEF Counts
<1>5. ASSUME NEW t \in Threads, Pop(t)  PROVE Counts'
  <2>1. /\ pc' = [pc EXCEPT ![t] = pc'[t]] /\ UNCHANGED << status, cpc >>
        /\ pc[t] = "pop" /\ pc'[t] = "run" /\ UNCHANGED << cur_thread_num, idle_thread_num >>
    BY Zenon, <1>0, <1>5 DEF Pop, Go, PoolType, counters, call
  <2>2. /\ NBusy' = NBusy + In(pc'[t], Working) - In(pc[t], Working)
        /\ NDeleted' = NDeleted + In(pc'[t], {"deleted"}) - In(pc[t], {"deleted"})
        /\ NLive' = NLive + In(pc'[t], Live) - In(pc[t], Live)
        /\ NAdd' = NAdd /\ NAdded' = NAdded
    BY Zenon, <1>0, <2>1, ThreadMoves, NobodyMoves DEF PoolType
  <2>3. /\ NBusy' = NBusy /\ NDeleted' = NDeleted /\ NLive' = NLive
        /\ NAdd' = NAdd /\ NAdded' = NAdded
    BY SMTT(20), <1>0, <2>1, <2>2, CountsNumbers DEF In, Working, Live, PCs
  <2> QED  BY Zenon, <1>0, <2>1, <2>3, CountsNumbers DEF Counts
<1>6. ASSUME NEW t \in Threads, Run(t)  PROVE Counts'
  <2>1. /\ pc' = [pc EXCEPT ![t] = pc'[t]] /\ UNCHANGED << status, cpc >>
        /\ pc[t] = "run" /\ pc'[t] = "top" /\ UNCHANGED cur_thread_num
               /\ idle_thread_num' = idle_thread_num + 1
    BY Zenon, <1>0, <1>6 DEF Run, Go, IdleAgain, PoolType, counters, call
  <2>2. /\ NBusy' = NBusy + In(pc'[t], Working) - In(pc[t], Working)
        /\ NDeleted' = NDeleted + In(pc'[t], {"deleted"}) - In(pc[t], {"deleted"})
        /\ NLive' = NLive + In(pc'[t], Live) - In(pc[t], Live)
        /\ NAdd' = NAdd /\ NAdded' = NAdded
    BY Zenon, <1>0, <2>1, ThreadMoves, NobodyMoves DEF PoolType
  <2>3. /\ NBusy' = NBusy - 1 /\ NDeleted' = NDeleted /\ NLive' = NLive
        /\ NAdd' = NAdd /\ NAdded' = NAdded
    BY SMTT(20), <1>0, <2>1, <2>2, CountsNumbers DEF In, Working, Live, PCs
  <2> QED  BY SMTT(20), <1>0, <2>1, <2>3, CountsNumbers DEF Counts
<1>7. ASSUME NEW t \in Threads, delThread(t)  PROVE Counts'
  <2>1. /\ pc' = [pc EXCEPT ![t] = pc'[t]] /\ UNCHANGED << status, cpc >>
        /\ pc[t] = "delete" /\ pc'[t] = "deleted" /\ UNCHANGED idle_thread_num
        /\ cur_thread_num' = cur_thread_num - 1
    BY Zenon, <1>0, <1>7 DEF delThread, Go, PoolType, counters, call
  <2>2. /\ NBusy' = NBusy + In(pc'[t], Working) - In(pc[t], Working)
        /\ NDeleted' = NDeleted + In(pc'[t], {"deleted"}) - In(pc[t], {"deleted"})
        /\ NLive' = NLive + In(pc'[t], Live) - In(pc[t], Live)
        /\ NAdd' = NAdd /\ NAdded' = NAdded
    BY Zenon, <1>0, <2>1, ThreadMoves, NobodyMoves DEF PoolType
  <2>3. /\ NBusy' = NBusy /\ NDeleted' = NDeleted + 1 /\ NLive' = NLive - 1
        /\ NAdd' = NAdd /\ NAdded' = NAdded
    BY SMTT(20), <1>0, <2>1, <2>2, CountsNumbers DEF In, Working, Live, PCs
  <2> QED  BY SMTT(20), <1>0, <2>1, <2>3, CountsNumbers DEF Counts
<1>8. ASSUME NEW t \in Threads, Deleted(t)  PROVE Counts'
  <2>1. /\ pc' = [pc EXCEPT ![t] = pc'[t]] /\ UNCHANGED << status, cpc >>
        /\ pc[t] = "deleted" /\ pc'[t] = "exited" /\ UNCHANGED cur_thread_num
        /\ idle_thread_num' = idle_thread_num - 1
    BY Zenon, <1>0, <1>8 DEF Deleted, Go, PoolType, counters, call
  <2>2. /\ NBusy' = NBusy + In(pc'[t], Working) - In(pc[t], Working)
        /\ NDeleted' = NDeleted + In(pc'[t], {"deleted"}) - In(pc[t], {"deleted"})
        /\ NLive' = NLive + In(pc'[t], Live) - In(pc[t], Live)
        /\ NAdd' = NAdd /\ NAdded' = NAdded
    BY Zenon, <1>0, <2>1, ThreadMoves, NobodyMoves DEF PoolType
  <2>3. /\ NBusy' = NBusy /\ NDeleted' = NDeleted - 1 /\ NLive' = NLive
        /\ NAdd' = NAdd /\ NAdded' = NAdded
    BY SMTT(20), <1>0, <2>1, <2>2, CountsNumbers DEF In, Working, Live, PCs
  <2> QED  BY SMTT(20), <1>0, <2>1, <2>3, CountsNumbers DEF Counts
<1>9. ASSUME NEW t \in Threads, TimesOut(t)  PROVE Counts'
  <2>1. /\ pc' = [pc EXCEPT ![t] = pc'[t]] /\ UNCHANGED << status, cpc >>
        /\ pc[t] = "waiting" /\ pc'[t] = "late" /\ UNCHANGED << cur_thread_num, idle_thread_num >>
    BY Zenon, <1>0, <1>9 DEF TimesOut, Go, PoolType, counters, call
  <2>2. /\ NBusy' = NBusy + In(pc'[t], Working) - In(pc[t], Working)
        /\ NDeleted' = NDeleted + In(pc'[t], {"deleted"}) - In(pc[t], {"deleted"})
        /\ NLive' = NLive + In(pc'[t], Live) - In(pc[t], Live)
        /\ NAdd' = NAdd /\ NAdded' = NAdded
    BY Zenon, <1>0, <2>1, ThreadMoves, NobodyMoves DEF PoolType
  <2>3. /\ NBusy' = NBusy /\ NDeleted' = NDeleted /\ NLive' = NLive
        /\ NAdd' = NAdd /\ NAdded' = NAdded
    BY SMTT(20), <1>0, <2>1, <2>2, CountsNumbers DEF In, Working, Live, PCs
  <2> QED  BY Zenon, <1>0, <2>1, <2>3, CountsNumbers DEF Counts
<1>10. ASSUME NEW c \in Committers, commit(c)  PROVE Counts'
  <2>1. /\ cpc' = [cpc EXCEPT ![c] = cpc'[c]] /\ UNCHANGED pc
        /\ cpc[c] \in {"idle"} /\ cpc'[c] \in {"start", "grow"}
        /\ UNCHANGED << status, cur_thread_num, idle_thread_num >>
    BY Zenon, <1>0, <1>10 DEF commit, PoolType, Callers, counters, pool
  <2>2. /\ NAdd' = NAdd + In(cpc'[c], {"add"}) - In(cpc[c], {"add"})
        /\ NAdded' = NAdded + In(cpc'[c], {"added"}) - In(cpc[c], {"added"})
        /\ NBusy' = NBusy /\ NDeleted' = NDeleted /\ NLive' = NLive
    BY Zenon, <1>0, <2>1, CallerMoves, NobodyMoves DEF PoolType, Callers
  <2>3. /\ NBusy' = NBusy /\ NDeleted' = NDeleted /\ NLive' = NLive
        /\ NAdd' = NAdd /\ NAdded' = NAdded
    BY SMTT(20), <1>0, <2>1, <2>2, CountsNumbers DEF In
  <2> QED  BY Zenon, <1>0, <2>1, <2>3, CountsNumbers DEF Counts
<1>11. ASSUME NEW c \in Committers, Grow(c)  PROVE Counts'
  <2>1. /\ cpc' = [cpc EXCEPT ![c] = cpc'[c]] /\ UNCHANGED pc
        /\ cpc[c] \in {"grow"} /\ cpc'[c] \in {"create", "push"}
        /\ UNCHANGED << status, cur_thread_num, idle_thread_num >>
    BY Zenon, <1>0, <1>11 DEF Grow, Goto, Full, PoolType, Callers, counters, pool
  <2>2. /\ NAdd' = NAdd + In(cpc'[c], {"add"}) - In(cpc[c], {"add"})
        /\ NAdded' = NAdded + In(cpc'[c], {"added"}) - In(cpc[c], {"added"})
        /\ NBusy' = NBusy /\ NDeleted' = NDeleted /\ NLive' = NLive
    BY Zenon, <1>0, <2>1, CallerMoves, NobodyMoves DEF PoolType, Callers
  <2>3. /\ NBusy' = NBusy /\ NDeleted' = NDeleted /\ NLive' = NLive
        /\ NAdd' = NAdd /\ NAdded' = NAdded
    BY SMTT(20), <1>0, <2>1, <2>2, CountsNumbers DEF In
  <2> QED  BY Zenon, <1>0, <2>1, <2>3, CountsNumbers DEF Counts
<1>12. ASSUME NEW c \in Committers, Push(c)  PROVE Counts'
  <2>1. /\ cpc' = [cpc EXCEPT ![c] = cpc'[c]] /\ UNCHANGED pc
        /\ cpc[c] \in {"push"} /\ cpc'[c] \in {"notify"}
        /\ UNCHANGED << status, cur_thread_num, idle_thread_num >>
    BY Zenon, <1>0, <1>12 DEF Push, Goto, PoolType, Callers, counters, pool
  <2>2. /\ NAdd' = NAdd + In(cpc'[c], {"add"}) - In(cpc[c], {"add"})
        /\ NAdded' = NAdded + In(cpc'[c], {"added"}) - In(cpc[c], {"added"})
        /\ NBusy' = NBusy /\ NDeleted' = NDeleted /\ NLive' = NLive
    BY Zenon, <1>0, <2>1, CallerMoves, NobodyMoves DEF PoolType, Callers
  <2>3. /\ NBusy' = NBusy /\ NDeleted' = NDeleted /\ NLive' = NLive
        /\ NAdd' = NAdd /\ NAdded' = NAdded
    BY SMTT(20), <1>0, <2>1, <2>2, CountsNumbers DEF In
  <2> QED  BY Zenon, <1>0, <2>1, <2>3, CountsNumbers DEF Counts
<1>13. ASSUME NEW c \in Committers, Notify(c)  PROVE Counts'
  <2>1. /\ pc' \in WokenByOne /\ cpc[c] = "notify" /\ cpc' = [cpc EXCEPT ![c] = "end"]
        /\ UNCHANGED << status, cur_thread_num, idle_thread_num >>
    BY Zenon, <1>13 DEF Notify, Goto, counters
  <2>2. \A t \in Threads : pc'[t] = pc[t] \/ (pc[t] = "waiting" /\ pc'[t] = "woken")
    BY Zenon, <1>0, <2>1 DEF WokenByOne, PoolType
  <2>3. NBusy' = NBusy /\ NDeleted' = NDeleted /\ NLive' = NLive
    BY Zenon, <2>2, WokenCounts
  <2>4. /\ NAdd' = NAdd + In("end", {"add"}) - In("notify", {"add"})
        /\ NAdded' = NAdded + In("end", {"added"}) - In("notify", {"added"})
    BY <1>0, <2>1, CallerMoves, Zenon DEF PoolType, Callers
  <2>5. NAdd' = NAdd /\ NAdded' = NAdded
    BY SMTT(20), <1>0, <2>4, CountsNumbers DEF In
  <2> QED  BY Zenon, <1>0, <2>1, <2>3, <2>5, CountsNumbers DEF Counts
<1>14. ASSUME NEW c \in Callers, start(c)  PROVE Counts'
  <2>1. /\ cpc' = [cpc EXCEPT ![c] = cpc'[c]] /\ UNCHANGED pc
        /\ cpc[c] \in {"start"} /\ cpc'[c] \in {"started", "idle", "grow", "push"}
        /\ UNCHANGED << status, cur_thread_num, idle_thread_num >>
    BY <1>0, <1>14, Zenon DEF start, Goto, PoolType, Callers, counters, pool
  <2>2. /\ NAdd' = NAdd + In(cpc'[c], {"add"}) - In(cpc[c], {"add"})
        /\ NAdded' = NAdded + In(cpc'[c], {"added"}) - In(cpc[c], {"added"})
        /\ NBusy' = NBusy /\ NDeleted' = NDeleted /\ NLive' = NLive
    BY Zenon, <1>0, <2>1, CallerMoves, NobodyMoves DEF PoolType, Callers
  <2>3. /\ NBusy' = NBusy /\ NDeleted' = NDeleted /\ NLive' = NLive
        /\ NAdd' = NAdd /\ NAdded' = NAdded
    BY SMTT(20), <1>0, <2>1, <2>2, CountsNumbers DEF In
  <2> QED  BY Zenon, <1>0, <2>1, <2>3, CountsNumbers DEF Counts
<1>15. ASSUME NEW c \in Callers, Started(c)  PROVE Counts'
  <2>1. /\ cpc' = [cpc EXCEPT ![c] = cpc'[c]] /\ UNCHANGED pc
        /\ cpc[c] = "started" /\ cpc'[c] \in {"create", "idle", "grow", "push"}
        /\ UNCHANGED << cur_thread_num, idle_thread_num >>
    BY <1>0, <1>15, Zenon DEF Started, Goto, PoolType, Callers, counters, pool
  <2>2. /\ NAdd' = NAdd + In(cpc'[c], {"add"}) - In(cpc[c], {"add"})
        /\ NAdded' = NAdded + In(cpc'[c], {"added"}) - In(cpc[c], {"added"})
        /\ NBusy' = NBusy /\ NDeleted' = NDeleted /\ NLive' = NLive
    BY <1>0, <2>1, CallerMoves, NobodyMoves, Zenon DEF PoolType, Callers
  <2>3. /\ NBusy' = NBusy /\ NDeleted' = NDeleted /\ NLive' = NLive
        /\ NAdd' = NAdd /\ NAdded' = NAdded
    BY SMTT(20), <1>0, <2>1, <2>2, CountsNumbers DEF In
  <2>4. status = "STOP" => cur_thread_num + NAdd = NLive
    <3> SUFFICES ASSUME status = "STOP"  PROVE cur_thread_num + NAdd = NLive
      BY Zenon
    <3>1. ~Stopping
      BY Zenon, <1>0, <2>1 DEF Stops, Stopping, Roles, OwnerPCs, PoolType, Callers
    <3>2. /\ cur_thread_num = 0 /\ \A t \in Threads : pc[t] \notin Live
          /\ \A d \in Callers : cpc[d] # "add"
      BY Zenon, <1>0, <3>1 DEF Stops, Off, Live
    <3>3. NLive = 0 /\ NAdd = 0
      BY Zenon, <3>2, CountsAreNat
    <3> QED  BY SMTT(20), <3>2, <3>3
  <2> QED  BY Zenon, <1>0, <2>1, <2>3, <2>4, CountsNumbers DEF Counts
<1>16. ASSUME NEW c \in Callers, createThread(c)  PROVE Counts'
  <2>1. UNCHANGED << status, cur_thread_num, idle_thread_num >> /\ cpc[c] = "create"
    BY Zenon, <1>16 DEF createThread, counters
  <2>2. CASE Full
    <3>1. cpc' = [cpc EXCEPT ![c] = Back(c)] /\ UNCHANGED pc
                 /\ Back(c) \in {"create", "idle", "grow", "push"}
      BY Zenon, <1>0, <1>16, <2>2 DEF createThread, Goto, Back, PoolType
    <3>2. /\ NAdd' = NAdd + In(Back(c), {"add"}) - In(cpc[c], {"add"})
          /\ NAdded' = NAdded + In(Back(c), {"added"}) - In(cpc[c], {"added"})
          /\ NBusy' = NBusy /\ NDeleted' = NDeleted /\ NLive' = NLive
      BY <1>0, <3>1, CallerMoves, NobodyMoves, Zenon DEF PoolType
    <3>3. NAdd' = NAdd /\ NAdded' = NAdded
      BY SMTT(20), <1>0, <2>1, <3>1, <3>2, CountsNumbers DEF In
    <3> QED  BY Zenon, <1>0, <2>1, <3>2, <3>3, CountsNumbers DEF Counts
  <2>3. CASE ~Full
    <3>1. PICK t \in Threads : Joined(t) /\ pc' = [pc EXCEPT ![t] = "top"]
                 /\ cpc' = [cpc EXCEPT ![c] = "add"]
      BY Zenon, <1>16, <2>3 DEF createThread, Go, Goto
    <3>2. pc[t] \in Off
      BY Zenon, <3>1 DEF Joined, Off
    <3>3. /\ NAdd' = NAdd + In("add", {"add"}) - In("create", {"add"})
          /\ NAdded' = NAdded + In("add", {"added"}) - In("create", {"added"})
      BY <1>0, <2>1, <3>1, CallerMoves, Zenon DEF PoolType
    <3>4. NAdd' = NAdd + 1 /\ NAdded' = NAdded
      BY SMTT(20), <1>0, <3>3, CountsNumbers DEF In
    <3>5. /\ NBusy' = NBusy + In("top", Working) - In(pc[t], Working)
          /\ NDeleted' = NDeleted + In("top", {"deleted"}) - In(pc[t], {"deleted"})
          /\ NLive' = NLive + In("top", Live) - In(pc[t], Live)
      BY <1>0, <3>1, ThreadMoves, Zenon DEF PoolType
    <3>6. NBusy' = NBusy /\ NDeleted' = NDeleted /\ NLive' = NLive + 1
      BY SMTT(20), <1>0, <3>2, <3>5, CountsNumbers DEF In, Working, Live, Off, PCs
    <3>7. NAdd + 1 <= Cardinality(Callers) /\ Cardinality(Callers) \in Nat
      <4>1. IsFiniteSet(Callers)
        <5>1. IsFiniteSet(Committers) /\ IsFiniteSet({Owner})
          BY Zenon, FS_Singleton DEF TpAssumption
        <5> QED  BY <5>1, FS_Union, Zenon DEF Callers
      <4> DEFINE B == {d \in Callers : cpc'[d] = "add"}
      <4>2. B \subseteq Callers
        BY Zenon
      <4>3. NAdd' = Cardinality(B)
        BY Zenon DEF NAdd, Callers
      <4> HIDE DEF B
      <4>4. Cardinality(B) <= Cardinality(Callers) /\ Cardinality(Callers) \in Nat
        BY Zenon, <4>1, <4>2, FS_Subset, FS_CardinalityType
      <4> QED  BY Zenon, <3>4, <4>3, <4>4
    <3>8. cur_thread_num < max_thread_num /\ max_thread_num \in Nat
      BY SMTT(20), <1>0, <2>3 DEF Full, PoolType, TpTypeOK, TpAssumption
    <3>9. cur_thread_num + (NAdd + 1) <= max_thread_num + Cardinality(Callers) - 1
      BY SMTT(20), <1>0, <3>7, <3>8, CountsNumbers
    <3> QED  BY SMTT(20), <1>0, <2>1, <3>4, <3>6, <3>9, CountsNumbers DEF Counts
  <2> QED  BY Zenon, <2>2, <2>3
<1>17. ASSUME NEW c \in Callers, addThread(c)  PROVE Counts'
  <2>1. /\ cpc' = [cpc EXCEPT ![c] = cpc'[c]] /\ UNCHANGED pc
        /\ cpc[c] = "add" /\ cpc'[c] = "added" /\ cur_thread_num' = cur_thread_num + 1
        /\ UNCHANGED << status, idle_thread_num >>
    BY <1>0, <1>17, Zenon DEF addThread, Goto, PoolType, Callers, counters, pool
  <2>2. /\ NAdd' = NAdd + In(cpc'[c], {"add"}) - In(cpc[c], {"add"})
        /\ NAdded' = NAdded + In(cpc'[c], {"added"}) - In(cpc[c], {"added"})
        /\ NBusy' = NBusy /\ NDeleted' = NDeleted /\ NLive' = NLive
    BY Zenon, <1>0, <2>1, CallerMoves, NobodyMoves DEF PoolType, Callers
  <2>3. /\ NBusy' = NBusy /\ NDeleted' = NDeleted /\ NLive' = NLive
        /\ NAdd' = NAdd - 1 /\ NAdded' = NAdded + 1
    BY SMTT(20), <1>0, <2>1, <2>2, CountsNumbers DEF In
  <2> QED  BY SMTT(20), <1>0, <2>1, <2>3, CountsNumbers DEF Counts
<1>18. ASSUME NEW c \in Callers, Added(c)  PROVE Counts'
  <2>1. /\ cpc' = [cpc EXCEPT ![c] = cpc'[c]] /\ UNCHANGED pc
        /\ cpc[c] = "added" /\ cpc'[c] \in {"create", "idle", "grow", "push"}
        /\ idle_thread_num' = idle_thread_num + 1 /\ UNCHANGED << status, cur_thread_num >>
    BY <1>0, <1>18, Zenon DEF Added, Goto, Back, Fewer, PoolType, Callers, counters, pool
  <2>2. /\ NAdd' = NAdd + In(cpc'[c], {"add"}) - In(cpc[c], {"add"})
        /\ NAdded' = NAdded + In(cpc'[c], {"added"}) - In(cpc[c], {"added"})
        /\ NBusy' = NBusy /\ NDeleted' = NDeleted /\ NLive' = NLive
    BY Zenon, <1>0, <2>1, CallerMoves, NobodyMoves DEF PoolType, Callers
  <2>3. /\ NBusy' = NBusy /\ NDeleted' = NDeleted /\ NLive' = NLive
        /\ NAdd' = NAdd /\ NAdded' = NAdded - 1
    BY SMTT(20), <1>0, <2>1, <2>2, CountsNumbers DEF In
  <2> QED  BY SMTT(20), <1>0, <2>1, <2>3, CountsNumbers DEF Counts
<1>19. CASE NotifyAll
  <2>1. /\ \A t \in Threads : pc'[t] = pc[t] \/ (pc[t] = "waiting" /\ pc'[t] = "woken")
        /\ cpc[Owner] = "notifyAll" /\ cpc' = [cpc EXCEPT ![Owner] = "join"]
        /\ UNCHANGED << status, cur_thread_num, idle_thread_num >>
    BY Zenon, <1>19 DEF NotifyAll, Goto, counters
  <2>2. NBusy' = NBusy /\ NDeleted' = NDeleted /\ NLive' = NLive
    BY Zenon, <2>1, WokenCounts
  <2>3. /\ NAdd' = NAdd + In("join", {"add"}) - In("notifyAll", {"add"})
        /\ NAdded' = NAdded + In("join", {"added"}) - In("notifyAll", {"added"})
    BY <1>0, <2>1, CallerMoves, Zenon DEF PoolType, Callers
  <2>4. NAdd' = NAdd /\ NAdded' = NAdded
    BY SMTT(20), <1>0, <2>3, CountsNumbers DEF In
  <2> QED  BY Zenon, <1>0, <2>1, <2>2, <2>4, CountsNumbers DEF Counts
<1>20. CASE JoinAll
  <2>1. /\ status = "STOP" /\ UNCHANGED << status, pc >> /\ cur_thread_num' = 0 /\ idle_thread_num' = 0
        /\ cpc' = [cpc EXCEPT ![Owner] = "end"] /\ cpc[Owner] = "join"
    BY Zenon, <1>20, AllJoined DEF JoinAll, Goto, pool
  <2>2. /\ \A t \in Threads : pc[t] \notin Working /\ pc[t] # "deleted"
        /\ \A c \in Callers : cpc[c] # "add" /\ cpc[c] # "added"
    BY Zenon, <1>20, AllJoined DEF Off, Working
  <2>3. NBusy = 0 /\ NDeleted = 0 /\ NAdd = 0 /\ NAdded = 0 /\ Cardinality(Callers) \in Nat
    BY Zenon, <2>2, CountsAreNat
  <2>4. /\ NAdd' = NAdd + In("end", {"add"}) - In("join", {"add"})
        /\ NAdded' = NAdded + In("end", {"added"}) - In("join", {"added"})
        /\ NBusy' = NBusy /\ NDeleted' = NDeleted
    BY <1>0, <2>1, CallerMoves, NobodyMoves, Zenon DEF PoolType, Callers
  <2>5. NAdd' = 0 /\ NAdded' = 0 /\ NBusy' = 0 /\ NDeleted' = 0
    BY SMTT(20), <2>3, <2>4 DEF In
  <2>6. Cardinality(Callers) >= 1
    <3>1. IsFiniteSet(Committers) /\ IsFiniteSet({Owner})
      BY FS_Singleton, Zenon DEF TpAssumption
    <3>2. IsFiniteSet(Callers) /\ Owner \in Callers
      BY <3>1, FS_Union, Zenon DEF Callers
    <3>3. Cardinality(Callers) # 0
      BY Zenon, <3>2, FS_EmptySet
    <3> QED  BY SMTT(20), <2>3, <3>3
  <2>7. 0 + 0 <= max_thread_num + Cardinality(Callers) - 1
    BY SMTT(20), <2>3, <2>6 DEF TpAssumption
  <2> QED  BY SMTT(20), <2>1, <2>5, <2>7 DEF Counts
<1>21. CASE WaitLooks
  <2>1. /\ cpc' = [cpc EXCEPT ![Owner] = cpc'[Owner]] /\ UNCHANGED pc
        /\ cpc[Owner] \in {"wait"} /\ cpc'[Owner] \in {"compare"}
        /\ UNCHANGED << status, cur_thread_num, idle_thread_num >>
    BY Zenon, <1>0, <1>21 DEF WaitLooks, Goto, NoTasks, PoolType, Callers, counters, pool
  <2>2. /\ NAdd' = NAdd + In(cpc'[Owner], {"add"}) - In(cpc[Owner], {"add"})
        /\ NAdded' = NAdded + In(cpc'[Owner], {"added"}) - In(cpc[Owner], {"added"})
        /\ NBusy' = NBusy /\ NDeleted' = NDeleted /\ NLive' = NLive
    BY <1>0, <2>1, CallerMoves, NobodyMoves, Zenon DEF PoolType, Callers
  <2>3. /\ NBusy' = NBusy /\ NDeleted' = NDeleted /\ NLive' = NLive
        /\ NAdd' = NAdd /\ NAdded' = NAdded
    BY SMTT(20), <1>0, <2>1, <2>2, CountsNumbers DEF In
  <2> QED  BY Zenon, <1>0, <2>1, <2>3, CountsNumbers DEF Counts
<1>22. CASE WaitCompares
  <2>1. /\ cpc' = [cpc EXCEPT ![Owner] = cpc'[Owner]] /\ UNCHANGED pc
        /\ cpc[Owner] \in {"compare"} /\ cpc'[Owner] \in {"waited", "wait"}
        /\ UNCHANGED << status, cur_thread_num, idle_thread_num >>
    BY Zenon, <1>0, <1>22 DEF WaitCompares, Goto, PoolType, Callers, counters, pool
  <2>2. /\ NAdd' = NAdd + In(cpc'[Owner], {"add"}) - In(cpc[Owner], {"add"})
        /\ NAdded' = NAdded + In(cpc'[Owner], {"added"}) - In(cpc[Owner], {"added"})
        /\ NBusy' = NBusy /\ NDeleted' = NDeleted /\ NLive' = NLive
    BY Zenon, <1>0, <2>1, CallerMoves, NobodyMoves DEF PoolType, Callers
  <2>3. /\ NBusy' = NBusy /\ NDeleted' = NDeleted /\ NLive' = NLive
        /\ NAdd' = NAdd /\ NAdded' = NAdded
    BY SMTT(20), <1>0, <2>1, <2>2, CountsNumbers DEF In
  <2> QED  BY Zenon, <1>0, <2>1, <2>3, CountsNumbers DEF Counts
<1>23. CASE WaitReturns
  <2>1. /\ cpc' = [cpc EXCEPT ![Owner] = cpc'[Owner]] /\ UNCHANGED pc
        /\ cpc[Owner] \in {"waited"} /\ cpc'[Owner] \in {"idle"}
        /\ UNCHANGED << status, cur_thread_num, idle_thread_num >>
    BY Zenon, <1>0, <1>23 DEF WaitReturns, Goto, PoolType, Callers, counters, pool
  <2>2. /\ NAdd' = NAdd + In(cpc'[Owner], {"add"}) - In(cpc[Owner], {"add"})
        /\ NAdded' = NAdded + In(cpc'[Owner], {"added"}) - In(cpc[Owner], {"added"})
        /\ NBusy' = NBusy /\ NDeleted' = NDeleted /\ NLive' = NLive
    BY <1>0, <2>1, CallerMoves, NobodyMoves, Zenon DEF PoolType, Callers
  <2>3. /\ NBusy' = NBusy /\ NDeleted' = NDeleted /\ NLive' = NLive
        /\ NAdd' = NAdd /\ NAdded' = NAdded
    BY SMTT(20), <1>0, <2>1, <2>2, CountsNumbers DEF In
  <2> QED  BY Zenon, <1>0, <2>1, <2>3, CountsNumbers DEF Counts
<1>24. CASE OwnerStarts
  <2>1. /\ cpc' = [cpc EXCEPT ![Owner] = cpc'[Owner]] /\ UNCHANGED pc
        /\ cpc[Owner] \in {"idle"} /\ cpc'[Owner] \in {"start"}
        /\ UNCHANGED << status, cur_thread_num, idle_thread_num >>
    BY Zenon, <1>0, <1>24 DEF OwnerStarts, Goto, PoolType, Callers, counters, pool
  <2>2. /\ NAdd' = NAdd + In(cpc'[Owner], {"add"}) - In(cpc[Owner], {"add"})
        /\ NAdded' = NAdded + In(cpc'[Owner], {"added"}) - In(cpc[Owner], {"added"})
        /\ NBusy' = NBusy /\ NDeleted' = NDeleted /\ NLive' = NLive
    BY <1>0, <2>1, CallerMoves, NobodyMoves, Zenon DEF PoolType, Callers
  <2>3. /\ NBusy' = NBusy /\ NDeleted' = NDeleted /\ NLive' = NLive
        /\ NAdd' = NAdd /\ NAdded' = NAdded
    BY SMTT(20), <1>0, <2>1, <2>2, CountsNumbers DEF In
  <2> QED  BY Zenon, <1>0, <2>1, <2>3, CountsNumbers DEF Counts
<1>25. CASE pause
  <2>1. status # "STOP" /\ UNCHANGED << cur_thread_num, idle_thread_num, pc, cpc >>
    BY Zenon, <1>25 DEF pause, counters, pool, call
  <2> QED  BY Zenon, <1>0, <2>1, NobodyMoves DEF Counts
<1>26. CASE resume
  <2>1. status # "STOP" /\ UNCHANGED << cur_thread_num, idle_thread_num, pc, cpc >>
    BY Zenon, <1>26 DEF resume, counters, pool, call
  <2> QED  BY Zenon, <1>0, <2>1, NobodyMoves DEF Counts
<1>27. CASE wait
  <2>1. /\ cpc' = [cpc EXCEPT ![Owner] = cpc'[Owner]] /\ UNCHANGED pc
        /\ cpc[Owner] \in {"idle"} /\ cpc'[Owner] \in {"wait"}
        /\ UNCHANGED << status, cur_thread_num, idle_thread_num >>
    BY Zenon, <1>0, <1>27 DEF wait, Goto, PoolType, Callers, counters, pool
  <2>2. /\ NAdd' = NAdd + In(cpc'[Owner], {"add"}) - In(cpc[Owner], {"add"})
        /\ NAdded' = NAdded + In(cpc'[Owner], {"added"}) - In(cpc[Owner], {"added"})
        /\ NBusy' = NBusy /\ NDeleted' = NDeleted /\ NLive' = NLive
    BY Zenon, <1>0, <2>1, CallerMoves, NobodyMoves DEF PoolType, Callers
  <2>3. /\ NBusy' = NBusy /\ NDeleted' = NDeleted /\ NLive' = NLive
        /\ NAdd' = NAdd /\ NAdded' = NAdded
    BY SMTT(20), <1>0, <2>1, <2>2, CountsNumbers DEF In
  <2> QED  BY Zenon, <1>0, <2>1, <2>3, CountsNumbers DEF Counts
<1>28. CASE stop
  <2>1. /\ cpc' = [cpc EXCEPT ![Owner] = cpc'[Owner]] /\ UNCHANGED pc
        /\ cpc[Owner] = "idle" /\ cpc'[Owner] = "notifyAll" /\ status' = "STOP"
        /\ UNCHANGED << cur_thread_num, idle_thread_num >>
    BY Zenon, <1>0, <1>28 DEF stop, Goto, PoolType, Callers, counters, pool
  <2>2. /\ NAdd' = NAdd + In(cpc'[Owner], {"add"}) - In(cpc[Owner], {"add"})
        /\ NAdded' = NAdded + In(cpc'[Owner], {"added"}) - In(cpc[Owner], {"added"})
        /\ NBusy' = NBusy /\ NDeleted' = NDeleted /\ NLive' = NLive
    BY <1>0, <2>1, CallerMoves, NobodyMoves, Zenon DEF PoolType, Callers
  <2>3. /\ NBusy' = NBusy /\ NDeleted' = NDeleted /\ NLive' = NLive
        /\ NAdd' = NAdd /\ NAdded' = NAdded
    BY SMTT(20), <1>0, <2>1, <2>2, CountsNumbers DEF In
  <2> QED  BY Zenon, <1>0, <2>1, <2>3, CountsNumbers DEF Counts
<1> QED
  BY Zenon, <1>1, <1>2, <1>3, <1>4, <1>5, <1>6, <1>7, <1>8, <1>9, <1>10, <1>11, <1>12, <1>13, <1>14, <1>15,
     <1>16, <1>17, <1>18, <1>19, <1>20, <1>21, <1>22, <1>23, <1>24, <1>25, <1>26, <1>27, <1>28 DEF TpNext,
     PoolStep, CallStep, OwnerStep, Callers

\* There are threads enough, or start creates them.
LEMMA EnoughStep ==
    ASSUME TpAssumption, PoolInv, TpNext
    PROVE  Enough'
<1>0. PoolType /\ Locks /\ Roles /\ Places /\ Stops /\ Counts /\ Enough /\ Wakes /\ Waits
  BY Zenon DEF PoolInv
<1>1. ASSUME NEW t \in Threads, delThread(t)  PROVE Enough'
  <2>1. cur_thread_num > min_thread_num /\ cur_thread_num' = cur_thread_num - 1
               /\ cur_thread_num \in Nat
    BY Zenon, <1>0, <1>1 DEF delThread, Locks, PoolType, TpTypeOK
  <2>2. cur_thread_num' >= Least
    BY SMTT(20), <2>1 DEF Least, TpAssumption
  <2> QED  BY Zenon, <2>2 DEF Enough
<1>2. ASSUME NEW c \in Committers, commit(c)  PROVE Enough'
  BY Zenon, <1>0, <1>2 DEF commit, Enough, Coming, Least, PoolType, counters, pool, waitvars
<1>3. ASSUME NEW c \in Committers, Grow(c)  PROVE Enough'
  BY Zenon, <1>0, <1>3 DEF Grow, Goto, Full, Enough, Coming, Least, PoolType, counters, pool, waitvars
<1>4. ASSUME NEW c \in Committers, Push(c)  PROVE Enough'
  BY Zenon, <1>0, <1>4 DEF Push, Goto, Enough, Coming, Least, PoolType, counters, pool, waitvars
<1>5. ASSUME NEW c \in Committers, Notify(c)  PROVE Enough'
  BY Zenon, <1>0, <1>5 DEF Notify, Goto, WokenByOne, Enough, Coming, Least, PoolType, counters, waitvars
<1>6. ASSUME NEW c \in Callers, start(c)  PROVE Enough'
  BY ZenonT(30), <1>0, <1>6 DEF start, Goto, Enough, Coming, Least, PoolType, counters, pool, waitvars
<1>7. ASSUME NEW c \in Callers, Started(c)  PROVE Enough'
  BY SMTT(20), <1>0, <1>7 DEF Started, Goto, Enough, Coming, Least, PoolType, TpTypeOK, TpAssumption, counters,
                    pool, waitvars
<1>8. ASSUME NEW c \in Callers, createThread(c)  PROVE Enough'
  <2>1. CASE Full
    <3>1. UNCHANGED cur_thread_num /\ cur_thread_num >= Least
      BY SMTT(20), <1>0, <1>8, <2>1 DEF createThread, counters, Full, Least, TpAssumption, PoolType, TpTypeOK
    <3> QED  BY Zenon, <3>1 DEF Enough
  <2>2. CASE ~Full
    <3>1. UNCHANGED << status, cur_thread_num, left >> /\ cpc' = [cpc EXCEPT ![c] = "add"]
                 /\ cpc[c] = "create"
      BY Zenon, <1>8, <2>2 DEF createThread, Goto, counters
    <3>2. \A d \in Callers : (cpc'[d] = "added") <=> (cpc[d] = "added")
      BY Zenon, <1>0, <3>1 DEF PoolType
    <3> QED  BY Zenon, <1>0, <3>1, <3>2 DEF Enough, Coming
  <2> QED  BY Zenon, <2>1, <2>2
<1>9. ASSUME NEW c \in Callers, addThread(c)  PROVE Enough'
  BY SMTT(20), <1>0, <1>9 DEF addThread, Goto, Enough, Coming, Least, PoolType, TpTypeOK, TpAssumption, pool,
                    waitvars
<1>10. ASSUME NEW c \in Callers, Added(c)  PROVE Enough'
  <2>1. /\ cpc[c] = "added" /\ UNCHANGED << status, cur_thread_num >>
        /\ cpc' = [cpc EXCEPT ![c] = Back(c)] /\ left' = Fewer(c)
    BY Zenon, <1>10 DEF Added, Goto
  <2>2. /\ left \in [Callers -> Nat] /\ Back(c) \in {"create", "idle", "grow", "push"}
               /\ cur_thread_num \in Nat
        /\ Least \in Nat
    BY Zenon, <1>0 DEF PoolType, TpTypeOK, Back, Least, TpAssumption
  <2>3. /\ cpc'[c] # "added" /\ left'[c] = (IF left[c] > 0 THEN left[c] - 1 ELSE 0)
        /\ \A d \in Callers : d # c => cpc'[d] = cpc[d] /\ left'[d] = left[d]
    BY Zenon, <1>0, <2>1, <2>2 DEF PoolType, Fewer
  <2> SUFFICES ASSUME status # "STOP", ~(cur_thread_num >= Least)
               PROVE  \E d \in Callers : left'[d] > 0 /\ cur_thread_num' + Coming(d)' >= Least
    BY Zenon, <2>1 DEF Enough
  <2>4. PICK d \in Callers : left[d] > 0 /\ cur_thread_num + Coming(d) >= Least
    BY Zenon, <1>0, <2>1 DEF Enough
  <2>5. left'[d] > 0 /\ cur_thread_num' + Coming(d)' >= Least
    <3>1. CASE d = c
      BY SMTT(20), <2>1, <2>2, <2>3, <2>4, <3>1 DEF Coming
    <3>2. CASE d # c
      BY Zenon, <2>1, <2>2, <2>3, <2>4, <3>2 DEF Coming
    <3> QED  BY Zenon, <3>1, <3>2
  <2> QED  BY Zenon, <2>5
<1>11. CASE NotifyAll
  BY Zenon, <1>0, <1>11 DEF NotifyAll, Goto, Enough, Coming, Least, PoolType, counters, waitvars
<1>12. CASE JoinAll
  <2>1. status = "STOP" /\ UNCHANGED status
    BY Zenon, <1>12, AllJoined DEF JoinAll
  <2> QED  BY Zenon, <2>1 DEF Enough
<1>13. CASE WaitLooks
  BY Zenon, <1>0, <1>13 DEF WaitLooks, Goto, NoTasks, Enough, Coming, Least, PoolType, counters, pool
<1>14. CASE WaitCompares
  BY Zenon, <1>0, <1>14 DEF WaitCompares, Goto, Enough, Coming, Least, PoolType, counters, pool, waitvars
<1>15. CASE WaitReturns
  BY Zenon, <1>0, <1>15 DEF WaitReturns, Goto, Enough, Coming, Least, PoolType, counters, pool
<1>16. CASE OwnerStarts
  BY Zenon, <1>0, <1>16 DEF OwnerStarts, Goto, Enough, Coming, Least, PoolType, counters, pool, waitvars
<1>17. CASE pause
  BY Zenon, <1>0, <1>17 DEF pause, Enough, Coming, Least, PoolType, counters, pool, call, waitvars
<1>18. CASE resume
  BY Zenon, <1>0, <1>18 DEF resume, Enough, Coming, Least, PoolType, counters, pool, call, waitvars
<1>19. CASE wait
  BY Zenon, <1>0, <1>19 DEF wait, Goto, Enough, Coming, Least, PoolType, counters, pool
<1>20. CASE stop
  BY Zenon, <1>0, <1>20 DEF stop, Goto, Enough, Coming, Least, PoolType, counters, pool, waitvars
<1>21. ASSUME NEW t \in Threads, Top(t) \/ Lock(t) \/ Block(t) \/ Awake(t) \/ Pop(t) \/ Run(t)
              \/ Deleted(t) \/ TimesOut(t)
       PROVE  Enough'
  <2>1. UNCHANGED << status, cur_thread_num, left, cpc >>
    BY <1>21, ZenonT(30) DEF Top, Lock, Block, Awake, Pop, Run, Deleted, TimesOut, counters, pool, call, waitvars
  <2> QED  BY Zenon, <1>0, <2>1 DEF Enough, Coming
<1> QED
  BY ZenonT(30), <1>1, <1>2, <1>3, <1>4, <1>5, <1>6, <1>7, <1>8, <1>9, <1>10, <1>11, <1>12, <1>13, <1>14, <1>15,
     <1>16, <1>17, <1>18, <1>19, <1>20, <1>21 DEF TpNext, PoolStep, CallStep, OwnerStep, Callers

\* A queued task is taken care of.
LEMMA WakesStep ==
    ASSUME TpAssumption, PoolInv, TpNext
    PROVE  Wakes'
<1>0. PoolType /\ Locks /\ Roles /\ Places /\ Stops /\ Counts /\ Enough /\ Wakes /\ Waits
  BY Zenon DEF PoolInv
<1>1. ASSUME NEW t \in Threads, Top(t)  PROVE Wakes'
  BY Zenon, <1>0, <1>1 DEF Top, Go, Wakes, Active, Off, Live, Stopping, PoolType, counters, call, waitvars
<1>2. ASSUME NEW t \in Threads, Lock(t)  PROVE Wakes'
  BY Zenon, <1>0, <1>2 DEF Lock, Go, Wakes, Active, Off, Live, Stopping, PoolType, counters, call, waitvars
<1>3. ASSUME NEW t \in Threads, Block(t)  PROVE Wakes'
  BY Zenon, <1>0, <1>3 DEF Block, Go, Wakes, Active, Off, Live, Stopping, PoolType, counters, call, waitvars
<1>4. ASSUME NEW t \in Threads, Awake(t)  PROVE Wakes'
  BY Zenon, <1>0, <1>4 DEF Awake, Go, MayShrink, Wakes, Active, Off, Live, Stopping, PoolType, call, waitvars
<1>5. ASSUME NEW t \in Threads, Pop(t)  PROVE Wakes'
  BY Zenon, <1>0, <1>5 DEF Pop, Go, Wakes, Active, Off, Live, Stopping, PoolType, counters, call, waitvars
<1>6. ASSUME NEW t \in Threads, Run(t)  PROVE Wakes'
  BY Zenon, <1>0, <1>6 DEF Run, Go, IdleAgain, Wakes, Active, Off, Live, Stopping, PoolType, call, waitvars
<1>7. ASSUME NEW t \in Threads, delThread(t)  PROVE Wakes'
  BY Zenon, <1>0, <1>7 DEF delThread, Go, Wakes, Active, Off, Live, Stopping, PoolType, call
<1>8. ASSUME NEW t \in Threads, Deleted(t)  PROVE Wakes'
  BY Zenon, <1>0, <1>8 DEF Deleted, Go, Wakes, Active, Off, Live, Stopping, PoolType, call, waitvars
<1>9. ASSUME NEW t \in Threads, TimesOut(t)  PROVE Wakes'
  BY Zenon, <1>0, <1>9 DEF TimesOut, Go, Wakes, Active, Off, Live, Stopping, PoolType, counters, call, waitvars
<1>10. ASSUME NEW c \in Committers, commit(c)  PROVE Wakes'
  BY SMTT(20), <1>0, <1>10 DEF commit, Wakes, Active, Off, Live, Stopping, PoolType, counters, pool, waitvars
<1>11. ASSUME NEW c \in Committers, Grow(c)  PROVE Wakes'
  BY SMTT(20), <1>0, <1>11 DEF Grow, Goto, Full, Wakes, Active, Off, Live, Stopping, PoolType, counters, pool,
                     waitvars
<1>12. ASSUME NEW c \in Committers, Push(c)  PROVE Wakes'
  BY <1>0, <1>12, ZenonT(30) DEF Push, Goto, Wakes, Active, Off, Live, Stopping, Stops, PoolType, TpTypeOK, PCs,
                     Callers, TpAssumption, counters, pool, waitvars
<1>13. ASSUME NEW c \in Committers, Notify(c)  PROVE Wakes'
  BY SMTT(20), <1>0, <1>13 DEF Notify, Goto, WokenByOne, Wakes, Active, Off, Live, Locks, Stops, Stopping,
                     PoolType, TpTypeOK, PCs, Callers, TpAssumption, counters, pool, call, waitvars
<1>14. ASSUME NEW c \in Callers, start(c)  PROVE Wakes'
  BY SMTT(20), <1>0, <1>14 DEF start, Goto, Wakes, Active, Off, Live, Stopping, PoolType, counters, pool, waitvars
<1>15. ASSUME NEW c \in Callers, Started(c)  PROVE Wakes'
  BY <1>0, <1>15, Zenon DEF Started, Goto, Wakes, Active, Off, Live, Stopping, Stops, PoolType, TpTypeOK, PCs,
                     Callers, TpAssumption, counters, pool, waitvars
<1>16. ASSUME NEW c \in Callers, createThread(c)  PROVE Wakes'
  BY <1>0, <1>16, ZenonT(30) DEF createThread, Go, Goto, Back, Fewer, Joined, Full, Wakes, Active, Off, Live,
                     Stopping, Stops, PoolType, TpTypeOK, PCs, Callers, TpAssumption, counters, waitvars
<1>17. ASSUME NEW c \in Callers, addThread(c)  PROVE Wakes'
  BY SMTT(20), <1>0, <1>17 DEF addThread, Goto, Wakes, Active, Off, Live, Stopping, PoolType, pool, waitvars
<1>18. ASSUME NEW c \in Callers, Added(c)  PROVE Wakes'
  BY SMTT(20), <1>0, <1>18 DEF Added, Goto, Back, Fewer, Wakes, Active, Off, Live, Stopping, PoolType, pool,
                     waitvars
<1>19. CASE NotifyAll
  BY SMTT(20), <1>0, <1>19 DEF NotifyAll, Goto, Wakes, Active, Off, Live, Stopping, PoolType, counters, waitvars
<1>20. CASE JoinAll
  BY SMTT(20), <1>0, <1>20 DEF JoinAll, Goto, Wakes, Active, Off, Live, Stopping, PoolType, pool, waitvars
<1>21. CASE WaitLooks
  BY Zenon, <1>0, <1>21 DEF WaitLooks, Goto, NoTasks, Wakes, Active, Off, Live, Stopping, PoolType, counters,
                     pool
<1>22. CASE WaitCompares
  BY SMTT(20), <1>0, <1>22 DEF WaitCompares, Goto, Wakes, Active, Off, Live, Stopping, PoolType, counters, pool,
                     waitvars
<1>23. CASE WaitReturns
  BY SMTT(20), <1>0, <1>23 DEF WaitReturns, Goto, Wakes, Active, Off, Live, Stopping, PoolType, counters, pool
<1>24. CASE OwnerStarts
  BY Zenon, <1>0, <1>24 DEF OwnerStarts, Goto, Wakes, Active, Off, Live, Stopping, PoolType, counters, pool,
                     waitvars
<1>25. CASE pause
  BY Zenon, <1>0, <1>25 DEF pause, Wakes, Active, Off, Live, Stopping, PoolType, counters, pool, call, waitvars
<1>26. CASE resume
  BY Zenon, <1>0, <1>26 DEF resume, Wakes, Active, Off, Live, Stopping, PoolType, counters, pool, call,
                     waitvars
<1>27. CASE wait
  BY SMTT(20), <1>0, <1>27 DEF wait, Goto, Wakes, Active, Off, Live, Stopping, PoolType, counters, pool
<1>28. CASE stop
  BY ZenonT(30), <1>0, <1>28 DEF stop, Goto, Wakes, Active, Off, Live, Stopping, PoolType, counters, pool, waitvars
<1> QED
  BY Zenon, <1>1, <1>2, <1>3, <1>4, <1>5, <1>6, <1>7, <1>8, <1>9, <1>10, <1>11, <1>12, <1>13, <1>14, <1>15,
     <1>16, <1>17, <1>18, <1>19, <1>20, <1>21, <1>22, <1>23, <1>24, <1>25, <1>26, <1>27, <1>28 DEF TpNext,
     PoolStep, CallStep, OwnerStep, Callers

\* Committed tasks are queued, running or done, and wait knows.
LEMMA WaitsStep ==
    ASSUME TpAssumption, PoolInv, TpNext
    PROVE  Waits'
<1>0. PoolType /\ Locks /\ Roles /\ Places /\ Stops /\ Counts /\ Enough /\ Wakes /\ Waits
  BY Zenon DEF PoolInv
<1>1. ASSUME NEW t \in Threads, Top(t)  PROVE Waits'
  BY Zenon, <1>0, <1>1 DEF Top, Go, Waits, Kept, Committed, WaitDone, PoolType, counters, call, waitvars
<1>2. ASSUME NEW t \in Threads, Lock(t)  PROVE Waits'
  BY Zenon, <1>0, <1>2 DEF Lock, Go, Waits, Kept, Committed, WaitDone, PoolType, counters, call, waitvars
<1>3. ASSUME NEW t \in Threads, Block(t)  PROVE Waits'
  BY Zenon, <1>0, <1>3 DEF Block, Go, Waits, Kept, Committed, WaitDone, PoolType, counters, call, waitvars
<1>4. ASSUME NEW t \in Threads, Awake(t)  PROVE Waits'
  BY ZenonT(30), <1>0, <1>4 DEF Awake, Go, MayShrink, Waits, Kept, Committed, WaitDone, PoolType, call, waitvars
<1>5. ASSUME NEW t \in Threads, Pop(t)  PROVE Waits'
  <2>1. /\ pc[t] = "pop" /\ tasks # << >> /\ tasks \in Seq(Committers)
        /\ taken' = [taken EXCEPT ![t] = Head(tasks)] /\ tasks' = Tail(tasks)
               /\ pc' = [pc EXCEPT ![t] = "run"]
        /\ UNCHANGED << cpc, done, status, before, seenIdle, shrunk, cur_thread_num >>
    BY Zenon, <1>0, <1>5 DEF Pop, Go, Locks, PoolType, TpTypeOK, counters, call, waitvars
  <2>2. \A i \in 1 .. Len(tasks) : (i = 1 /\ tasks[i] = Head(tasks)) \/ (i - 1 \in 1 .. Len(tasks')
               /\ tasks'[i - 1] = tasks[i])
    BY SMTT(20), <2>1
  <2>3. /\ pc'[t] = "run" /\ taken'[t] = Head(tasks)
        /\ \A u \in Threads : u # t => pc'[u] = pc[u] /\ taken'[u] = taken[u]
    BY Zenon, <1>0, <2>1 DEF PoolType
  <2>4. ASSUME NEW c \in Committed  PROVE Kept(c)'
    <3>1. CASE \E i \in 1 .. Len(tasks) : tasks[i] = c
      BY <2>2, <2>3, <3>1, Zenon DEF Kept
    <3>2. CASE \E u \in Threads : pc[u] = "run" /\ taken[u] = c
      BY Zenon, <2>1, <2>3, <3>2 DEF Kept
    <3>3. CASE c \in done
      BY Zenon, <2>1, <3>3 DEF Kept
    <3> QED  BY Zenon, <1>0, <3>1, <3>2, <3>3 DEF Waits, Kept
  <2>5. Committed' = Committed /\ WaitDone'
    BY Zenon, <1>0, <2>1 DEF Waits, Committed, WaitDone
  <2>6. (\A u \in Threads : pc[u] # "deleted") => \A u \in Threads : pc'[u] # "deleted"
    BY Zenon, <2>3
  <2> QED  BY Zenon, <1>0, <2>1, <2>4, <2>5, <2>6 DEF Waits
<1>6. ASSUME NEW t \in Threads, Run(t)  PROVE Waits'
  BY <1>0, <1>6, Zenon DEF Run, Go, IdleAgain, Waits, Kept, Committed, WaitDone, PoolType, call, waitvars
<1>7. ASSUME NEW t \in Threads, delThread(t)  PROVE Waits'
  BY <1>0, <1>7, Zenon DEF delThread, Go, Waits, Kept, Committed, WaitDone, PoolType, call
<1>8. ASSUME NEW t \in Threads, Deleted(t)  PROVE Waits'
  BY Zenon, <1>0, <1>8 DEF Deleted, Go, Waits, Kept, Committed, WaitDone, PoolType, call, waitvars
<1>9. ASSUME NEW t \in Threads, TimesOut(t)  PROVE Waits'
  BY ZenonT(30), <1>0, <1>9 DEF TimesOut, Go, Waits, Kept, Committed, WaitDone, PoolType, counters, call, waitvars
<1>10. ASSUME NEW c \in Committers, commit(c)  PROVE Waits'
  BY SMTT(20), <1>0, <1>10 DEF commit, Waits, Kept, Committed, WaitDone, PoolType, counters, pool, waitvars
<1>11. ASSUME NEW c \in Committers, Grow(c)  PROVE Waits'
  BY SMTT(20), <1>0, <1>11 DEF Grow, Goto, Full, Waits, Kept, Committed, WaitDone, PoolType, counters, pool,
                     waitvars
<1>12. ASSUME NEW c \in Committers, Push(c)  PROVE Waits'
  <2>1. /\ tasks' = Append(tasks, c) /\ cpc' = [cpc EXCEPT ![c] = "notify"] /\ tasks \in Seq(Committers)
        /\ UNCHANGED << pc, taken, done, status, before, seenIdle, shrunk, cur_thread_num >>
    BY Zenon, <1>0, <1>12 DEF Push, Goto, PoolType, TpTypeOK, counters, pool, waitvars
  <2>2. /\ Len(tasks') = Len(tasks) + 1 /\ tasks'[Len(tasks) + 1] = c /\ Len(tasks) \in Nat
        /\ \A i \in 1 .. Len(tasks) : tasks'[i] = tasks[i]
    BY SMTT(20), <2>1
  <2>3. cpc'[Owner] = cpc[Owner] /\ Committed' = Committed \cup {c}
    BY Zenon, <1>0, <2>1 DEF Committed, PoolType, TpAssumption, Callers
  <2>4. \A d \in Committed : Kept(d)'
    <3> SUFFICES ASSUME NEW d \in Committed  PROVE Kept(d)'
      BY Zenon
    <3>1. CASE \E i \in 1 .. Len(tasks) : tasks[i] = d
      <4>1. PICK i \in 1 .. Len(tasks) : tasks[i] = d
        BY Zenon, <3>1
      <4>2. i \in 1 .. Len(tasks') /\ tasks'[i] = d
        BY SMTT(20), <2>2, <4>1
      <4> QED  BY <4>2, Zenon DEF Kept
    <3>2. CASE (\E u \in Threads : pc[u] = "run" /\ taken[u] = d) \/ d \in done
      BY Zenon, <2>1, <3>2 DEF Kept
    <3> QED  BY Zenon, <1>0, <3>1, <3>2 DEF Waits, Kept
  <2>5. Kept(c)'
    <3>1. Len(tasks) + 1 \in 1 .. Len(tasks')
      BY SMTT(20), <2>2
    <3> QED  BY Zenon, <2>2, <3>1 DEF Kept
  <2> QED  BY Zenon, <1>0, <2>1, <2>3, <2>4, <2>5 DEF Waits, WaitDone
<1>13. ASSUME NEW c \in Committers, Notify(c)  PROVE Waits'
  <2>1. /\ pc' \in WokenByOne /\ cpc[c] = "notify" /\ cpc' = [cpc EXCEPT ![c] = "end"]
        /\ UNCHANGED << tasks, taken, done, status, before, seenIdle, shrunk, cur_thread_num >>
    BY Zenon, <1>13 DEF Notify, Goto, counters, waitvars
  <2>2. \A t \in Threads : pc'[t] = pc[t] \/ (pc[t] = "waiting" /\ pc'[t] = "woken")
    BY Zenon, <1>0, <2>1 DEF WokenByOne, PoolType
  <2>3. cpc'[Owner] = cpc[Owner] /\ Committed' = Committed
    BY Zenon, <1>0, <2>1 DEF Committed, PoolType, TpAssumption, Callers
  <2>4. \A d \in Committed : Kept(d)'
    BY Zenon, <1>0, <2>1, <2>2 DEF Waits, Kept
  <2>5. (\A t \in Threads : pc[t] # "deleted") => \A t \in Threads : pc'[t] # "deleted"
    BY ZenonT(30), <2>2
  <2> QED  BY <1>0, <2>1, <2>3, <2>4, <2>5, Zenon DEF Waits, WaitDone
<1>14. ASSUME NEW c \in Callers, start(c)  PROVE Waits'
  BY SMTT(20), <1>0, <1>14 DEF start, Goto, Waits, Kept, Committed, WaitDone, PoolType, counters, pool, waitvars
<1>15. ASSUME NEW c \in Callers, Started(c)  PROVE Waits'
  BY SMTT(20), <1>0, <1>15 DEF Started, Goto, Waits, Kept, Committed, WaitDone, PoolType, counters, pool, waitvars
<1>16. ASSUME NEW c \in Callers, createThread(c)  PROVE Waits'
  <2>1. /\ cpc[c] = "create" /\ cpc' = [cpc EXCEPT ![c] = cpc'[c]]
               /\ cpc'[c] \in {"add", "create", "idle", "grow", "push"}
        /\ UNCHANGED << tasks, taken, done, status, before, seenIdle, shrunk, cur_thread_num >>
    BY Zenon, <1>0, <1>16 DEF createThread, Goto, Back, PoolType, counters, waitvars
  <2>2. \A t \in Threads : pc'[t] = pc[t] \/ (pc[t] \in Off /\ pc'[t] = "top")
    BY Zenon, <1>0, <1>16 DEF createThread, Go, Joined, Off, PoolType
  <2>3. Committed' = Committed
               /\ \A d \in {"wait", "compare", "waited"} : cpc'[Owner] = d <=> cpc[Owner] = d
    BY Zenon, <1>0, <2>1 DEF Committed, PoolType, Callers
  <2>4. \A d \in Committed : Kept(d)'
    BY Zenon, <1>0, <2>1, <2>2 DEF Waits, Kept, Off
  <2>5. (\A t \in Threads : pc[t] # "deleted") => \A t \in Threads : pc'[t] # "deleted"
    BY ZenonT(30), <2>2
  <2> QED  BY <1>0, <2>1, <2>3, <2>4, <2>5, Zenon DEF Waits, WaitDone
<1>17. ASSUME NEW c \in Callers, addThread(c)  PROVE Waits'
  BY SMTT(20), <1>0, <1>17 DEF addThread, Goto, Waits, Kept, Committed, WaitDone, PoolType, TpTypeOK,
                     TpAssumption, pool, waitvars
<1>18. ASSUME NEW c \in Callers, Added(c)  PROVE Waits'
  BY SMTT(20), <1>0, <1>18 DEF Added, Goto, Back, Fewer, Waits, Kept, Committed, WaitDone, PoolType, pool,
                     waitvars
<1>19. CASE NotifyAll
  BY SMTT(20), <1>0, <1>19 DEF NotifyAll, Goto, Waits, Kept, Committed, WaitDone, PoolType, counters, waitvars
<1>20. CASE JoinAll
  BY <1>0, <1>20, ZenonT(30) DEF JoinAll, Goto, Waits, Kept, Committed, WaitDone, Roles, Stops, PoolType, TpTypeOK,
                     PCs, Callers, TpAssumption, pool, waitvars
<1>21. CASE WaitLooks
  <2>1. /\ cpc[Owner] = "wait" /\ tasks = << >> /\ seenIdle' = idle_thread_num
               /\ cpc' = [cpc EXCEPT ![Owner] = "compare"]
        /\ UNCHANGED << tasks, pc, taken, done, status, before, shrunk, cur_thread_num >>
    BY Zenon, <1>21 DEF WaitLooks, NoTasks, Goto, counters, pool
  <2>2. cpc'[Owner] = "compare" /\ Committed' = Committed
    BY Zenon, <1>0, <2>1 DEF Committed, PoolType, TpAssumption, Callers
  <2>3. shrunk \/ before \subseteq done \/ seenIdle' < cur_thread_num
    <3> SUFFICES ASSUME ~shrunk, ~(seenIdle' < cur_thread_num)  PROVE before \subseteq done
      BY Zenon
    <3>1. NDeleted = 0
      BY ZenonT(30), <1>0, <2>1, CountsAreNat DEF Waits
    <3>2. NBusy = 0
      BY SMTT(20), <1>0, <2>1, <3>1, CountsAreNat DEF Counts, Callers, PoolType, TpTypeOK
    <3>3. \A t \in Threads : pc[t] # "run"
      BY Zenon, <3>2, CountsAreNat DEF Working
    <3>4. before \subseteq Committed /\ 1 .. Len(tasks) = {}
      BY SMTT(20), <1>0, <2>1 DEF Waits
    <3> QED  BY Zenon, <1>0, <3>3, <3>4 DEF Waits, Kept
  <2>4. \A c \in Committed : Kept(c)'
    BY Zenon, <1>0, <2>1 DEF Waits, Kept
  <2> QED  BY Zenon, <1>0, <2>1, <2>2, <2>3, <2>4 DEF Waits, WaitDone
<1>22. CASE WaitCompares
  <2>1. /\ cpc[Owner] = "compare" /\ cpc' = [cpc EXCEPT ![Owner] = cpc'[Owner]]
        /\ cpc'[Owner] = (IF seenIdle = cur_thread_num THEN "waited" ELSE "wait")
        /\ UNCHANGED << tasks, pc, taken, done, status, before, seenIdle, shrunk, cur_thread_num >>
    BY Zenon, <1>0, <1>22 DEF WaitCompares, Goto, counters, pool, waitvars, PoolType, Callers
  <2>2. Committed' = Committed
    BY Zenon, <1>0, <2>1 DEF Committed, PoolType, TpAssumption, Callers
  <2>3. \A c \in Committed : Kept(c)'
    BY Zenon, <1>0, <2>1 DEF Waits, Kept
  <2>4. cpc'[Owner] = "waited" => shrunk \/ before \subseteq done
    BY SMTT(20), <1>0, <2>1 DEF Waits, PoolType, TpTypeOK
  <2> QED  BY Zenon, <1>0, <2>1, <2>2, <2>3, <2>4 DEF Waits, WaitDone
<1>23. CASE WaitReturns
  BY SMTT(20), <1>0, <1>23 DEF WaitReturns, Goto, Waits, Kept, Committed, WaitDone, PoolType, counters, pool
<1>24. CASE OwnerStarts
  BY SMTT(20), <1>0, <1>24 DEF OwnerStarts, Goto, Waits, Kept, Committed, WaitDone, PoolType, counters, pool,
                     waitvars
<1>25. CASE pause
  BY <1>0, <1>25, Zenon DEF pause, Waits, Kept, Committed, WaitDone, PoolType, counters, pool, call, waitvars
<1>26. CASE resume
  BY <1>0, <1>26, ZenonT(30) DEF resume, Waits, Kept, Committed, WaitDone, PoolType, counters, pool, call, waitvars
<1>27. CASE wait
  BY SMTT(20), <1>0, <1>27 DEF wait, Goto, Waits, Kept, Committed, WaitDone, PoolType, counters, pool
<1>28. CASE stop
  BY SMTT(20), <1>0, <1>28 DEF stop, Goto, Waits, Kept, Committed, WaitDone, PoolType, counters, pool, waitvars
<1> QED
  BY Zenon, <1>1, <1>2, <1>3, <1>4, <1>5, <1>6, <1>7, <1>8, <1>9, <1>10, <1>11, <1>12, <1>13, <1>14, <1>15,
     <1>16, <1>17, <1>18, <1>19, <1>20, <1>21, <1>22, <1>23, <1>24, <1>25, <1>26, <1>27, <1>28 DEF TpNext,
     PoolStep, CallStep, OwnerStep, Callers

\* A pool that has not been started.
LEMMA PoolStarts ==
    ASSUME TpAssumption, TpInit
    PROVE  PoolInv
<1>1. PoolType
  <2>1. pc \in [Threads -> PCs] /\ \A t \in Threads : pc[t] # "run"
    BY Zenon DEF TpInit, PCs
  <2>2. cpc \in [Callers -> OwnerPCs \cup CommitPCs] /\ ret \in [Callers -> {"idle", "grow", "push"}]
    BY Zenon DEF TpInit, CommitPCs, Calling
  <2>3. tasks \in Seq(Committers)
    BY SMTT(20) DEF TpInit
  <2>4. TpTypeOK
    BY SMTT(20), <2>3 DEF TpInit, TpTypeOK
  <2>5. taken \in [Threads -> Committers \cup {NoThread}]
    BY Zenon DEF TpInit
  <2>6. seenIdle \in Int /\ before \subseteq Committers
    BY SMTT(20) DEF TpInit
  <2>7. shrunk \in BOOLEAN
    BY Zenon DEF TpInit
  <2> QED  BY Zenon, <2>1, <2>2, <2>4, <2>5, <2>6, <2>7 DEF PoolType
<1>2. Locks /\ Roles /\ Places /\ Stops
  <2>1. Locks
    BY Zenon DEF TpInit, TpAssumption, Locks
  <2>2. Roles
    BY SMTT(20) DEF TpInit, Roles, OwnerPCs, CommitPCs, Calling, Callers
  <2>3. Places /\ Stops
    BY Zenon DEF TpInit, Places, Stops, Stopping, Off, Callers
  <2> QED  BY Zenon, <2>1, <2>2, <2>3
<1>3. Counts
  <2>1. /\ \A t \in Threads : pc[t] \notin Working /\ pc[t] # "deleted"
        /\ \A c \in Callers : cpc[c] # "add" /\ cpc[c] # "added"
        /\ status = "STOP" /\ cur_thread_num = 0 /\ idle_thread_num = 0
    BY Zenon DEF TpInit, Working
  <2>2. NBusy = 0 /\ NDeleted = 0 /\ NAdd = 0 /\ NAdded = 0 /\ Cardinality(Callers) \in Nat
    BY Zenon, <2>1, CountsAreNat
  <2>3. Cardinality(Callers) # 0
    <3>1. IsFiniteSet(Committers) /\ IsFiniteSet({Owner})
      BY FS_Singleton, Zenon DEF TpAssumption
    <3>2. IsFiniteSet(Callers) /\ Owner \in Callers
      BY <3>1, FS_Union, Zenon DEF Callers
    <3> QED  BY Zenon, <3>2, FS_EmptySet
  <2>4. 0 <= max_thread_num + Cardinality(Callers) - 1
    BY SMTT(20), <2>2, <2>3 DEF TpAssumption
  <2> QED  BY SMTT(20), <2>1, <2>2, <2>4 DEF Counts
<1>4. Enough /\ Wakes
  BY Zenon DEF TpInit, Enough, Wakes
<1>5. Waits
  BY Zenon DEF TpInit, Waits, WaitDone, Committed, Callers
<1> QED  BY Zenon, <1>1, <1>2, <1>3, <1>4, <1>5 DEF PoolInv

\* The parts of the invariant give what users of the pool rely on.
LEMMA PoolServes ==
    ASSUME TpAssumption, PoolInv, min_thread_num > 0, max_thread_num > 0
    PROVE  TasksServed
<1>0. PoolType /\ Counts /\ Enough /\ Wakes /\ Waits
  BY Zenon DEF PoolInv
<1>1. /\ NAdd \in Nat /\ NLive \in Nat /\ Cardinality(Callers) \in Nat /\ cur_thread_num \in Nat
      /\ min_thread_num \in Nat /\ max_thread_num \in Nat /\ left \in [Callers -> Nat]
  BY Zenon, <1>0, CountsAreNat DEF PoolType, TpTypeOK, TpAssumption
<1>2. CountsAgree
  BY Zenon, <1>0 DEF Counts, CountsAgree, NBusy, NAdded, NDeleted, Working
<1>3. ThreadLimit
  <2>1. cur_thread_num <= max_thread_num + Cardinality(Callers) - 1
    BY SMTT(20), <1>0, <1>1 DEF Counts
  <2>2. ASSUME status # "STOP", \A c \in Callers : left[c] = 0
        PROVE  cur_thread_num >= min_thread_num \/ min_thread_num > max_thread_num
    <3>1. cur_thread_num >= Least
      BY SMTT(20), <1>0, <2>2 DEF Enough
    <3> QED  BY Zenon, <1>1, <3>1 DEF Least
  <2> QED  BY Zenon, <2>1, <2>2 DEF ThreadLimit
<1>4. NoLostWakeup
  <2> SUFFICES ASSUME tasks # << >>, status # "STOP", \A t \in Threads : pc[t] \in Off
               PROVE  \E c \in Callers : left[c] > 0
    BY Zenon, <1>0 DEF NoLostWakeup, Wakes, Active
  <2>1. NLive = 0
    BY Zenon, CountsAreNat DEF Off, Live
  <2>2. cur_thread_num = 0
    BY SMTT(20), <1>0, <1>1, <2>1 DEF Counts
  <2>3. ~(cur_thread_num >= Least)
    BY SMTT(20), <1>1, <2>2 DEF Least
  <2> QED  BY Zenon, <1>0, <2>3 DEF Enough
<1> QED  BY Zenon, <1>0, <1>2, <1>3, <1>4 DEF TasksServed, PoolType, Waits

(***************************************************************************)
(* However many tasks are committed and threads come and go, a queued task *)
(* has a thread on its way to it, wait returns when the tasks before it    *)
(* are done, and the two counters count (hthreadpool.h:131-205) - as long  *)
(* as the pool may keep a thread at all, and no commit meets a stop.       *)
(***************************************************************************)
THEOREM PoolServesItsTasks ==
    ASSUME TpAssumption, ~StopRaces, min_thread_num > 0, max_thread_num > 0
    PROVE  TpSpec => []TasksServed
<1>1. TpInit => PoolInv
  BY Zenon, PoolStarts
<1>2. PoolInv /\ [TpNext]_tpvars => PoolInv'
  <2>1. ASSUME PoolInv, TpNext  PROVE PoolInv'
    BY Zenon, <2>1, TypeStep, LocksStep, RolesStep, PlacesStep, StopsStep, CountsStep, EnoughStep, WakesStep,
       WaitsStep DEF PoolInv
  <2>2. ASSUME PoolInv, UNCHANGED tpvars  PROVE PoolInv'
    <3>1. PoolType /\ Locks /\ Roles /\ Places /\ Stops /\ Counts /\ Enough /\ Wakes /\ Waits
      BY Zenon, <2>2 DEF PoolInv
    <3>2. PoolType' /\ Locks' /\ Roles' /\ Places' /\ Stops'
      BY <2>2, <3>1, ZenonT(30) DEF tpvars, counters, pool, call, waitvars, PoolType, TpTypeOK, Locks, Roles, Places,
                        Stops,
                        Stopping
    <3>3. Counts' /\ Enough' /\ Wakes' /\ Waits'
      BY <2>2, <3>1, Zenon DEF tpvars, counters, pool, call, waitvars, Counts, NBusy, NDeleted, NLive, NAdd,
                        NAdded,
                        Enough, Coming, Wakes, Waits, Kept, Committed, WaitDone
    <3> QED  BY Zenon, <3>2, <3>3 DEF PoolInv
  <2> QED  BY Zenon, <2>1, <2>2
<1>3. PoolInv => TasksServed
  BY Zenon, PoolServes
<1> QED  BY <1>1, <1>2, <1>3, PTL DEF TpSpec
=============================================================================
