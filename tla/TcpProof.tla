------------------------------ MODULE TcpProof ------------------------------
(***************************************************************************)
(* Proofs about the TCP server and the TCP client, for every value of the  *)
(* constants.                                                              *)
(***************************************************************************)
EXTENDS TcpServer, TcpClient, FiniteSetTheorems, SequenceTheorems, TLAPS

-----------------------------------------------------------------------------
(***************************************************************************)
(* TcpServer for any number of workers, descriptors, connections and       *)
(* broadcasting threads: the slot of a connection, the counts it appears   *)
(* in, and what is left when stop has returned.                            *)
(***************************************************************************)

Stages == {"none", "queued", "lost", "checked", "refused", "dropped", "attached", "open", "closing",
           "closed", "freed"}

\* Connections whose descriptor is not, or no longer, taken.
Gone == {"none", "dropped", "closed", "freed"}

SvType ==
    /\ stage \in [Conns -> Stages] /\ worker \in [Conns -> Workers]
    /\ fd \in [Conns -> Fds \cup {0}]
    /\ queue \in [Workers -> Seq(Conns)]
    /\ ios \in [Workers -> [Fds -> Conns \cup {0}]]
    /\ connectionNum \in [Workers -> Nat] /\ next_loop_idx \in Workers
    /\ mutex \in Broadcasters \cup {NoThread}
    /\ todo \in [Broadcasters -> SUBSET Conns] /\ bcur \in [Broadcasters -> Conns \cup {0}]
    /\ wstat \in [Workers -> {"running", "cleanup", "stopped"}]
    /\ loop_ \in [Workers -> {"set", "stopping", "null"}]

\* No two connections share a descriptor, and the slots and the connections
\* point to each other.
Slots ==
    /\ \A c \in Conns : stage[c] # "none" => fd[c] \in Fds
    /\ \A c, d \in Conns : stage[c] \notin Gone /\ stage[d] \notin Gone /\ fd[c] = fd[d] => c = d
    /\ SlotHolds
    /\ \A w \in Workers, f \in Fds : ios[w][f] # 0 =>
          /\ worker[ios[w][f]] = w /\ fd[ios[w][f]] = f
          /\ stage[ios[w][f]] \in {"attached", "open", "closing", "closed"}

\* A worker's queue holds connections on their way to it, each once.
Queues ==
    \A w \in Workers :
        /\ \A i \in DOMAIN queue[w] : stage[queue[w][i]] = "queued" /\ worker[queue[w][i]] = w
        /\ \A i, j \in DOMAIN queue[w] : queue[w][i] = queue[w][j] => i = j

BusyStages == {"checked", "attached", "closing"}

\* Each worker does one thing at a time.
OneAtATime ==
    \A c, d \in Conns :
        stage[c] \in BusyStages /\ stage[d] \in BusyStages /\ worker[c] = worker[d] => c = d

Listed == channels = {c \in Conns : stage[c] \in {"open", "closing"}}

\* Connections that passed the test of max_connections and are not closed.
Admitted == {c \in Conns : stage[c] \in {"checked", "attached", "open", "closing"}}

WithinLimit == Cardinality(Admitted) <= MaxConnections + NumWorkers - 1

\* A thread writes to a channel only with mutex_.
WritesLocked ==
    \A t \in Broadcasters : bcur[t] # 0 => mutex = t /\ stage[bcur[t]] \in {"open", "closing"}

\* A worker whose loop has ended sets nothing up, and one that has stopped has
\* closed everything.
StoppedHold ==
    \A c \in Conns :
        /\ wstat[worker[c]] # "running" => stage[c] \notin {"checked", "attached"}
        /\ wstat[worker[c]] = "stopped" => stage[c] \notin {"open", "closing"}

SvInv ==
    /\ SvType /\ Slots /\ Queues /\ OneAtATime /\ Listed /\ WithinLimit /\ LoadCounted
    /\ WritesLocked /\ StoppedHold
    /\ stopper = "done" => \A w \in Workers : wstat[w] = "stopped"

-----------------------------------------------------------------------------

\* Connections and workers are finite in number.
LEMMA Finite ==
    /\ IsFiniteSet(Conns) /\ \A S \in SUBSET Conns : IsFiniteSet(S) /\ Cardinality(S) \in Nat
    /\ IsFiniteSet(Workers) /\ Cardinality(Workers) = NumWorkers
    /\ 0 \notin Conns /\ NoThread \notin Broadcasters /\ 0 \notin Fds
    /\ NumWorkers \in Nat \ {0} /\ MaxConnections \in Nat /\ 0 \in Workers
<1>1. MaxConn \in Nat /\ NumWorkers \in Nat \ {0}
  BY Zenon, ServerAssumption DEF ServerAssumption
<1>2. IsFiniteSet(Conns) /\ IsFiniteSet(Workers) /\ Cardinality(Workers) = NumWorkers
  BY SMTT(20), <1>1, FS_Interval DEF Conns, Workers
<1>3. \A S \in SUBSET Conns : IsFiniteSet(S) /\ Cardinality(S) \in Nat
  BY Zenon, <1>2, FS_Subset, FS_CardinalityType
<1> QED  BY SMTT(20), <1>1, <1>2, <1>3, ServerAssumption DEF ServerAssumption, Conns, Workers

\* Of connections with different workers there are no more than workers.
LEMMA OnePerWorker ==
    ASSUME NEW S \in SUBSET Conns, NEW g \in [Conns -> Workers],
           \A c, d \in S : g[c] = g[d] => c = d
    PROVE  Cardinality(S) <= NumWorkers
<1> DEFINE h == [c \in S |-> g[c]]
<1>1. h \in Injection(S, Workers)
  BY Zenon DEF Injection, IsInjective
<1> HIDE DEF h
<1>2. Cardinality(S) <= Cardinality(Workers)
  BY Zenon, <1>1, Finite, FS_Injection
<1> QED  BY Zenon, <1>2, Finite

\* The connections LoadCounted counts for a worker.
CountedStages == {"queued", "lost", "checked", "attached", "open", "refused", "dropped"}

Load(w) == {c \in Conns : worker[c] = w /\ stage[c] \in CountedStages}

\* A step that changes no connection, and gives no channel away.
LEMMA ConnsAlone ==
    ASSUME SvInv, UNCHANGED << stage, fd, worker, queue, ios, connectionNum, channels >>
    PROVE  /\ Slots' /\ Queues' /\ OneAtATime' /\ Listed' /\ WithinLimit' /\ LoadCounted'
<1>1. Admitted' = Admitted
  BY Zenon DEF Admitted
<1>2. Slots'
  BY SMTT(20) DEF SvInv, Slots, SlotHolds
<1>3. Queues' /\ OneAtATime'
  BY SMTT(20) DEF SvInv, Queues, OneAtATime
<1>4. Listed' /\ WithinLimit'
  BY Zenon, <1>1 DEF SvInv, Listed, WithinLimit
<1>5. LoadCounted'
  BY Zenon DEF SvInv, LoadCounted
<1> QED  BY Zenon, <1>2, <1>3, <1>4, <1>5

\* The steps of stop and of broadcast, and the end of a loop.
LEMMA ThreadsInv ==
    ASSUME SvInv,
           \/ CloseListen \/ stop \/ StopStep
           \/ \E w \in Workers : LoopEnds(w) \/ ThreadEnds(w)
           \/ \E t \in Broadcasters : BroadcastBegins(t) \/ BroadcastStep(t)
    PROVE  SvInv'
<1>1. UNCHANGED << stage, fd, worker, queue, ios, connectionNum, channels, next_loop_idx >>
  BY Zenon DEF CloseListen, stop, StopStep, JoinAcceptor, JoinWorkers, StopWorker, ForgetWorker, LoopEnds,
         ThreadEnds, BroadcastBegins, BroadcastStep, Writes, BroadcastEnds, WriteTests, conn, wvars, avars
<1>2. /\ Slots' /\ Queues' /\ OneAtATime' /\ Listed' /\ WithinLimit' /\ LoadCounted'
  BY Zenon, <1>1, ConnsAlone
<1>0. SvType /\ WritesLocked /\ StoppedHold /\ Listed /\ (stopper = "done" => \A w \in Workers : wstat[w] = "stopped")
  BY Zenon DEF SvInv
<1>3. ASSUME SvType', WritesLocked', StoppedHold', (stopper = "done" => \A w \in Workers : wstat[w] = "stopped")'
      PROVE  SvInv'
  BY Zenon, <1>2, <1>3 DEF SvInv
<1>4. CASE CloseListen \/ stop \/ JoinAcceptor
  <2>1. UNCHANGED << mutex, todo, bcur, wstat, loop_ >> /\ (stopper' = stopper \/ stopper' # "done")
    BY Zenon, <1>4 DEF CloseListen, stop, JoinAcceptor, bvars, wvars
  <2> QED  BY Zenon, <1>0, <1>1, <1>3, <2>1 DEF SvType, WritesLocked, StoppedHold
<1>5. CASE JoinWorkers
  <2>1. UNCHANGED << mutex, todo, bcur, wstat, loop_ >> /\ \A w \in Workers : wstat[w] = "stopped"
    BY Zenon, <1>5 DEF JoinWorkers, bvars, wvars
  <2> QED  BY Zenon, <1>0, <1>1, <1>3, <2>1 DEF SvType, WritesLocked, StoppedHold
<1>6. ASSUME NEW w \in Workers, StopWorker(w) \/ ForgetWorker(w)
      PROVE  SvInv'
  <2>1. UNCHANGED << mutex, todo, bcur, wstat, stopper >>
    BY Zenon, <1>6 DEF StopWorker, ForgetWorker, bvars
  <2>2. loop_' \in [Workers -> {"set", "stopping", "null"}]
    BY <1>0, <1>6, Zenon DEF StopWorker, ForgetWorker, SvType
  <2> QED  BY Zenon, <1>0, <1>1, <1>3, <2>1, <2>2 DEF SvType, WritesLocked, StoppedHold
<1>7. ASSUME NEW w \in Workers, LoopEnds(w)
      PROVE  SvInv'
  <2>1. /\ UNCHANGED << mutex, todo, bcur, loop_, stopper >> /\ wstat[w] = "running" /\ ~Busy(w)
        /\ wstat' = [wstat EXCEPT ![w] = "cleanup"]
    BY Zenon, <1>7 DEF LoopEnds, bvars
  <2>2. wstat' \in [Workers -> {"running", "cleanup", "stopped"}]
    BY Zenon, <1>0, <2>1 DEF SvType
  <2>3. stopper # "done"
    BY Zenon, <1>0, <2>1
  <2>4. StoppedHold'
    BY Zenon, <1>0, <1>1, <2>1 DEF StoppedHold, Busy, SvType
  <2> QED  BY Zenon, <1>0, <1>1, <1>3, <2>1, <2>2, <2>3, <2>4 DEF SvType, WritesLocked
<1>8. ASSUME NEW w \in Workers, ThreadEnds(w)
      PROVE  SvInv'
  <2>1. /\ UNCHANGED << mutex, todo, bcur, loop_, stopper >> /\ wstat[w] = "cleanup" /\ CleanedUp(w)
        /\ wstat' = [wstat EXCEPT ![w] = "stopped"]
    BY Zenon, <1>8 DEF ThreadEnds, bvars
  <2>2. wstat' \in [Workers -> {"running", "cleanup", "stopped"}]
    BY Zenon, <1>0, <2>1 DEF SvType
  <2>3. stopper # "done"
    BY Zenon, <1>0, <2>1
  <2>4. \A c \in Conns : worker[c] = w => stage[c] \notin {"attached", "open", "closing"}
    <3> SUFFICES ASSUME NEW c \in Conns, worker[c] = w, stage[c] \in {"attached", "open", "closing"}
                 PROVE  FALSE
      BY Zenon
    <3>1. fd[c] \in Fds /\ ios[w][fd[c]] = c
      BY Zenon DEF SvInv, Slots, SlotHolds
    <3>2. ios[w][fd[c]] = 0
      BY Zenon, <3>1, <2>1 DEF CleanedUp
    <3> QED  BY Zenon, <3>1, <3>2, Finite
  <2>5. StoppedHold'
    BY Zenon, <1>0, <1>1, <2>1, <2>4 DEF StoppedHold, SvType
  <2> QED  BY Zenon, <1>0, <1>1, <1>3, <2>1, <2>2, <2>3, <2>5 DEF SvType, WritesLocked
<1>9. ASSUME NEW t \in Broadcasters, BroadcastBegins(t) \/ BroadcastStep(t)
      PROVE  SvInv'
  <2>1. UNCHANGED << wstat, loop_, stopper >>
    BY Zenon, <1>9 DEF BroadcastBegins, BroadcastStep, Writes, BroadcastEnds, WriteTests, wvars
  <2>2. StoppedHold'
    BY Zenon, <1>0, <1>1, <2>1 DEF StoppedHold
  <2>3. mutex' \in Broadcasters \cup {NoThread}
    BY Zenon, <1>0, <1>9 DEF BroadcastBegins, BroadcastStep, Writes, BroadcastEnds, WriteTests, SvType
  <2>7. /\ todo \in [Broadcasters -> SUBSET Conns] /\ channels \in SUBSET Conns
        /\ bcur \in [Broadcasters -> Conns \cup {0}]
    BY Zenon, <1>0 DEF SvType, Listed
  <2>4. todo' \in [Broadcasters -> SUBSET Conns]
    <3>1. \/ todo' = todo \/ todo' = [todo EXCEPT ![t] = channels]
          \/ \E c \in Conns : todo' = [todo EXCEPT ![t] = todo[t] \ {c}]
      BY Zenon, <1>9 DEF BroadcastBegins, BroadcastStep, Writes, BroadcastEnds, WriteTests
    <3> QED  BY Zenon, <2>7, <3>1
  <2>5. bcur' \in [Broadcasters -> Conns \cup {0}]
    <3>1. bcur' = bcur \/ \E c \in Conns \cup {0} : bcur' = [bcur EXCEPT ![t] = c]
      BY Zenon, <1>9 DEF BroadcastBegins, BroadcastStep, Writes, BroadcastEnds, WriteTests
    <3> QED  BY Zenon, <2>7, <3>1
  <2>6. WritesLocked'
    <3>1. CASE BroadcastBegins(t)
      <4>1. mutex = NoThread /\ mutex' = t /\ bcur' = bcur
        BY Zenon, <3>1 DEF BroadcastBegins
      <4> QED  BY Zenon, <1>0, <1>1, <4>1, Finite DEF WritesLocked
    <3>2. CASE BroadcastEnds(t)
      <4>1. mutex = t /\ bcur' = bcur /\ bcur[t] = 0
        BY Zenon, <3>2 DEF BroadcastEnds
      <4> QED  BY Zenon, <1>0, <1>1, <4>1 DEF WritesLocked
    <3>3. CASE Writes(t)
      <4>1. mutex' = mutex /\ bcur' = [bcur EXCEPT ![t] = 0]
        BY Zenon, <3>3 DEF Writes
      <4> QED  BY Zenon, <1>0, <1>1, <4>1 DEF WritesLocked, SvType
    <3>4. ASSUME NEW c \in Conns, WriteTests(t, c)
          PROVE  WritesLocked'
      <4>1. mutex = t /\ mutex' = mutex /\ bcur' = [bcur EXCEPT ![t] = IF stage[c] = "open" THEN c ELSE 0]
        BY Zenon, <3>4 DEF WriteTests
      <4> QED  BY Zenon, <1>0, <1>1, <4>1 DEF WritesLocked, SvType
    <3> QED  BY Zenon, <1>9, <3>1, <3>2, <3>3, <3>4 DEF BroadcastStep
  <2> QED  BY Zenon, <1>0, <1>1, <1>3, <2>1, <2>2, <2>3, <2>4, <2>5, <2>6 DEF SvType
<1> QED  BY Zenon, <1>4, <1>5, <1>6, <1>7, <1>8, <1>9 DEF StopStep

\* A step after which the same connections count for the same workers.
LEMMA LoadSame ==
    ASSUME SvInv, connectionNum' = connectionNum, worker' = worker,
           \A c \in Conns : stage'[c] \in CountedStages <=> stage[c] \in CountedStages
    PROVE  LoadCounted'
<1>1. \A w \in Workers : Load(w)' = Load(w)
  BY Zenon DEF Load
<1>2. \A w \in Workers : connectionNum[w] = Cardinality(Load(w))
  BY Zenon DEF SvInv, LoadCounted, Load, CountedStages
<1>3. \A w \in Workers : connectionNum'[w] = Cardinality(Load(w)')
  BY Zenon, <1>1, <1>2
<1> QED  BY Zenon, <1>3 DEF LoadCounted, Load, CountedStages

\* onAccept keeps the invariant.
LEMMA AcceptInv ==
    ASSUME SvInv, NEW c \in Conns, NEW f \in Fds, NEW w \in Workers, onAccept(c, f, w)
    PROVE  SvInv'
<1>0. /\ SvType /\ Slots /\ Queues /\ OneAtATime /\ Listed /\ WithinLimit /\ LoadCounted
      /\ WritesLocked /\ StoppedHold /\ (stopper = "done" => \A v \in Workers : wstat[v] = "stopped")
  BY Zenon DEF SvInv
<1>1. /\ stage[c] = "none" /\ ~InUse(f)
      /\ fd' = [fd EXCEPT ![c] = f] /\ worker' = [worker EXCEPT ![c] = w]
      /\ connectionNum' = [connectionNum EXCEPT ![w] = @ + 1]
      /\ UNCHANGED << ios, loop_, wstat, mutex, todo, bcur, channels, stopper >>
  BY Zenon DEF onAccept, bvars
<1>2. \/ stage' = [stage EXCEPT ![c] = "lost"] /\ UNCHANGED queue
      \/ stage' = [stage EXCEPT ![c] = "queued"] /\ queue' = [queue EXCEPT ![w] = Append(@, c)]
  BY Zenon DEF onAccept, Goto
<1>3. next_loop_idx' \in Workers
  <2>1. next_loop_idx \in Workers
    BY Zenon, <1>0 DEF SvType
  <2>2. PICK lb \in LoadBalances : nextLoop(lb, w)
    BY Zenon DEF onAccept
  <2> QED  BY <2>1, <2>2, Zenon DEF nextLoop, LoadBalances
<1>4. PICK s \in {"lost", "queued"} : stage' = [stage EXCEPT ![c] = s]
  BY Zenon, <1>2
<1>5. SvType'
  <2>1. stage' \in [Conns -> Stages] /\ fd' \in [Conns -> Fds \cup {0}] /\ worker' \in [Conns -> Workers]
    BY Zenon, <1>0, <1>1, <1>4 DEF SvType, Stages
  <2>4. queue \in [Workers -> Seq(Conns)]
    BY Zenon, <1>0 DEF SvType
  <2>2. queue' \in [Workers -> Seq(Conns)]
    BY SMTT(20), <1>2, <2>4
  <2>3. connectionNum' \in [Workers -> Nat]
    BY SMTT(20), <1>0, <1>1 DEF SvType
  <2> QED  BY Zenon, <1>0, <1>1, <1>3, <2>1, <2>2, <2>3 DEF SvType
<1>6. /\ stage'[c] = s /\ worker'[c] = w /\ fd'[c] = f
      /\ \A d \in Conns : d # c => stage'[d] = stage[d] /\ worker'[d] = worker[d] /\ fd'[d] = fd[d]
  BY Zenon, <1>0, <1>1, <1>4 DEF SvType
<1>7. Slots'
  <2>1. \A d \in Conns : stage[d] \notin Gone => fd[d] # f
    BY Zenon, <1>1 DEF InUse, Gone
  <2>2. \A d \in Conns : stage'[d] # "none" => fd'[d] \in Fds
    BY Zenon, <1>0, <1>6 DEF Slots
  <2>3. \A d, e \in Conns : stage'[d] \notin Gone /\ stage'[e] \notin Gone /\ fd'[d] = fd'[e] => d = e
    BY SMTT(20), <1>0, <1>6, <2>1 DEF Slots
  <2>4. SlotHolds'
    BY SMTT(20), <1>0, <1>1, <1>6 DEF Slots, SlotHolds
  <2>5. \A v \in Workers, g \in Fds : ios'[v][g] # 0 =>
          /\ worker'[ios'[v][g]] = v /\ fd'[ios'[v][g]] = g
          /\ stage'[ios'[v][g]] \in {"attached", "open", "closing", "closed"}
    <3> SUFFICES ASSUME NEW v \in Workers, NEW g \in Fds, ios[v][g] # 0
                 PROVE  /\ worker'[ios[v][g]] = v /\ fd'[ios[v][g]] = g
                        /\ stage'[ios[v][g]] \in {"attached", "open", "closing", "closed"}
      BY SMTT(20), <1>1
    <3>1. ios[v][g] \in Conns /\ worker[ios[v][g]] = v /\ fd[ios[v][g]] = g
          /\ stage[ios[v][g]] \in {"attached", "open", "closing", "closed"}
      BY SMTT(20), <1>0 DEF SvType, Slots
    <3>2. ios[v][g] # c
      BY Zenon, <3>1, <1>1
    <3> QED  BY Zenon, <3>1, <3>2, <1>6
  <2> QED  BY Zenon, <2>2, <2>3, <2>4, <2>5 DEF Slots
<1>8. Queues'
  <2> SUFFICES ASSUME NEW v \in Workers
               PROVE  /\ \A i \in DOMAIN queue'[v] : stage'[queue'[v][i]] = "queued" /\ worker'[queue'[v][i]] = v
                      /\ \A i, j \in DOMAIN queue'[v] : queue'[v][i] = queue'[v][j] => i = j
    BY Zenon DEF Queues
  <2>1. queue[v] \in Seq(Conns) /\ \A i \in DOMAIN queue[v] : queue[v][i] \in Conns /\ queue[v][i] # c
    BY SMTT(20), <1>0, <1>1 DEF SvType, Queues
  <2>4. /\ \A i \in DOMAIN queue[v] : stage[queue[v][i]] = "queued" /\ worker[queue[v][i]] = v
        /\ \A i, j \in DOMAIN queue[v] : queue[v][i] = queue[v][j] => i = j
    BY <1>0, Zenon DEF Queues
  <2>2. CASE queue'[v] = queue[v]
    BY SMTT(20), <1>6, <2>1, <2>2, <2>4
  <2>3. CASE v = w /\ queue'[v] = Append(queue[v], c) /\ stage'[c] = "queued"
    <3>1. \A i \in DOMAIN queue'[v] : \/ i \in DOMAIN queue[v] /\ queue'[v][i] = queue[v][i]
                                      \/ i = Len(queue[v]) + 1 /\ queue'[v][i] = c
      BY SMTT(20), <2>1, <2>3
    <3> QED  BY SMTT(20), <1>0, <1>6, <2>1, <2>3, <3>1 DEF Queues
  <2> QED  BY SMTT(20), <1>0, <1>2, <1>6, <2>2, <2>3 DEF SvType
<1>9. OneAtATime' /\ Listed'
  BY SMTT(20), <1>0, <1>1, <1>6 DEF OneAtATime, BusyStages, Listed
<1>10. WithinLimit'
  <2>1. Admitted' = Admitted
    BY Zenon, <1>1, <1>6 DEF Admitted
  <2> QED  BY Zenon, <1>0, <2>1 DEF WithinLimit
<1>11. LoadCounted'
  <2>1. \A v \in Workers : connectionNum[v] = Cardinality(Load(v)) /\ Load(v) \in SUBSET Conns
    BY Zenon, <1>0 DEF LoadCounted, Load, CountedStages
  <2>2. c \notin Load(w) /\ Load(w)' = Load(w) \cup {c}
    BY Zenon, <1>1, <1>6 DEF Load, CountedStages
  <2>3. \A v \in Workers : v # w => Load(v)' = Load(v)
    BY Zenon, <1>1, <1>6 DEF Load, CountedStages
  <2>4. Cardinality(Load(w)') = Cardinality(Load(w)) + 1
    BY Zenon, <2>1, <2>2, Finite, FS_AddElement
  <2>5. \A v \in Workers : connectionNum'[v] = Cardinality(Load(v)')
    BY Zenon, <1>0, <1>1, <2>1, <2>3, <2>4 DEF SvType
  <2> QED  BY Zenon, <2>5 DEF LoadCounted, Load, CountedStages
<1>12. WritesLocked' /\ StoppedHold'
  <2>1. \A t \in Broadcasters : bcur[t] # 0 => bcur[t] \in Conns /\ bcur[t] # c
    BY <1>0, <1>1, Zenon DEF SvType, WritesLocked
  <2>2. WritesLocked'
    BY Zenon, <1>0, <1>1, <1>6, <2>1 DEF WritesLocked
  <2>3. StoppedHold'
    BY Zenon, <1>0, <1>1, <1>6 DEF StoppedHold
  <2> QED  BY Zenon, <2>2, <2>3
<1> QED  BY Zenon, <1>0, <1>1, <1>5, <1>7, <1>8, <1>9, <1>10, <1>11, <1>12 DEF SvInv

\* One connection goes to stage s, and keeps its descriptor and its worker.
Moves(c, s) ==
    /\ stage' = [stage EXCEPT ![c] = s]
    /\ UNCHANGED << fd, worker, loop_, wstat, next_loop_idx, mutex, todo, bcur, stopper >>

InSlot == {"attached", "open", "closing"}

\* What such a step keeps, and when.
LEMMA Moved ==
    ASSUME SvInv, NEW c \in Conns, NEW s \in Stages, Moves(c, s)
    PROVE  /\ stage' \in [Conns -> Stages]
           /\ stage'[c] = s /\ \A d \in Conns : d # c => stage'[d] = stage[d]
           /\ /\ ios' = ios /\ stage[c] # "none" /\ (s \in Gone \/ stage[c] \notin Gone)
              /\ (s \in InSlot => stage[c] \in InSlot)
              /\ (stage[c] \in InSlot \cup {"closed"} => s \in InSlot \cup {"closed"})
              => Slots'
           /\ queue' = queue /\ stage[c] # "queued" => Queues'
           /\ s \notin BusyStages \/ stage[c] \in BusyStages \/ ~Busy(worker[c]) => OneAtATime'
           /\ channels' = (IF s \in {"open", "closing"} THEN channels \cup {c} ELSE channels \ {c}) => Listed'
           /\ s \notin InSlot \cup {"checked"} \/ stage[c] \in InSlot \cup {"checked"} => WithinLimit'
           /\ connectionNum' = connectionNum /\ (s \in CountedStages <=> stage[c] \in CountedStages)
              => LoadCounted'
           /\ s \in {"open", "closing"} \/ stage[c] \notin {"open", "closing"} \/ mutex = NoThread
              => WritesLocked'
           /\ (s \in {"checked", "attached"} => wstat[worker[c]] = "running")
              /\ (s \in {"open", "closing"} => wstat[worker[c]] # "stopped")
              => StoppedHold'
<1>0. /\ SvType /\ Slots /\ Queues /\ OneAtATime /\ Listed /\ WithinLimit /\ LoadCounted
      /\ WritesLocked /\ StoppedHold
  BY Zenon DEF SvInv
<1>1. /\ stage' \in [Conns -> Stages]
      /\ stage'[c] = s /\ \A d \in Conns : d # c => stage'[d] = stage[d]
  BY Zenon, <1>0 DEF SvType, Moves
<1>2. fd' = fd /\ worker' = worker /\ mutex' = mutex /\ bcur' = bcur /\ wstat' = wstat
  BY Zenon DEF Moves
<1>3. ASSUME ios' = ios, stage[c] # "none", s \in Gone \/ stage[c] \notin Gone,
             s \in InSlot => stage[c] \in InSlot,
             stage[c] \in InSlot \cup {"closed"} => s \in InSlot \cup {"closed"}
      PROVE  Slots'
  <2>1. \A d \in Conns : stage'[d] # "none" => fd'[d] \in Fds
    BY Zenon, <1>0, <1>1, <1>2, <1>3 DEF Slots
  <2>2. \A d \in Conns : stage'[d] \notin Gone => stage[d] \notin Gone
    BY Zenon, <1>1, <1>3
  <2>3. \A d, e \in Conns : stage'[d] \notin Gone /\ stage'[e] \notin Gone /\ fd'[d] = fd'[e] => d = e
    BY Zenon, <1>0, <1>2, <2>2 DEF Slots
  <2>4. \A d \in Conns : stage'[d] \in InSlot => stage[d] \in InSlot
    BY Zenon, <1>1, <1>3
  <2>5. SlotHolds'
    BY Zenon, <1>0, <1>2, <1>3, <2>4 DEF Slots, SlotHolds, InSlot
  <2>6. \A v \in Workers, g \in Fds : ios[v][g] # 0 =>
          /\ ios[v][g] \in Conns /\ worker[ios[v][g]] = v /\ fd[ios[v][g]] = g
          /\ stage'[ios[v][g]] \in {"attached", "open", "closing", "closed"}
    <3> SUFFICES ASSUME NEW v \in Workers, NEW g \in Fds, ios[v][g] # 0
                 PROVE  /\ ios[v][g] \in Conns /\ worker[ios[v][g]] = v /\ fd[ios[v][g]] = g
                        /\ stage'[ios[v][g]] \in InSlot \cup {"closed"}
      BY SMTT(20) DEF InSlot
    <3>1. /\ ios[v][g] \in Conns /\ worker[ios[v][g]] = v /\ fd[ios[v][g]] = g
          /\ stage[ios[v][g]] \in InSlot \cup {"closed"}
      BY SMTT(20), <1>0 DEF SvType, Slots, InSlot
    <3> QED  BY Zenon, <3>1, <1>1, <1>3
  <2> QED  BY SMTT(20), <1>2, <1>3, <2>1, <2>3, <2>5, <2>6 DEF Slots
<1>4. ASSUME queue' = queue, stage[c] # "queued"
      PROVE  Queues'
  <2>1. \A v \in Workers : \A i \in DOMAIN queue[v] : queue[v][i] \in Conns /\ queue[v][i] # c
    BY SMTT(20), <1>0, <1>4 DEF SvType, Queues
  <2> QED  BY SMTT(20), <1>0, <1>1, <1>2, <1>4, <2>1 DEF Queues
<1>5. ASSUME s \notin BusyStages \/ stage[c] \in BusyStages \/ ~Busy(worker[c])
      PROVE  OneAtATime'
  BY Zenon, <1>0, <1>1, <1>2, <1>5 DEF OneAtATime, Busy, BusyStages
<1>6. ASSUME channels' = (IF s \in {"open", "closing"} THEN channels \cup {c} ELSE channels \ {c})
      PROVE  Listed'
  BY Zenon, <1>0, <1>1, <1>6 DEF Listed
<1>7. ASSUME s \notin InSlot \cup {"checked"} \/ stage[c] \in InSlot \cup {"checked"}
      PROVE  WithinLimit'
  <2>1. Admitted' \subseteq Admitted /\ Admitted \in SUBSET Conns
    BY Zenon, <1>1, <1>7 DEF Admitted, InSlot
  <2>2. Cardinality(Admitted') <= Cardinality(Admitted)
    BY Zenon, <2>1, Finite, FS_Subset
  <2>3. Admitted' \in SUBSET Conns
    BY Zenon, <2>1
  <2>4. Cardinality(Admitted') \in Nat /\ Cardinality(Admitted) \in Nat
    BY Zenon, <2>1, <2>3, Finite
  <2> HIDE DEF Admitted
  <2> QED  BY SMTT(20), <1>0, <2>2, <2>4, Finite DEF WithinLimit
<1>8. ASSUME connectionNum' = connectionNum, s \in CountedStages <=> stage[c] \in CountedStages
      PROVE  LoadCounted'
  BY Zenon, <1>1, <1>2, <1>8, LoadSame
<1>9. ASSUME s \in {"open", "closing"} \/ stage[c] \notin {"open", "closing"} \/ mutex = NoThread
      PROVE  WritesLocked'
  <2>1. \A t \in Broadcasters : bcur[t] # 0 => bcur[t] \in Conns /\ mutex = t /\ t # NoThread
    BY ZenonT(30), <1>0, Finite DEF SvType, WritesLocked
  <2> QED  BY Zenon, <1>0, <1>1, <1>2, <1>9, <2>1 DEF WritesLocked
<1>10. ASSUME s \in {"checked", "attached"} => wstat[worker[c]] = "running",
              s \in {"open", "closing"} => wstat[worker[c]] # "stopped"
       PROVE  StoppedHold'
  BY Zenon, <1>0, <1>1, <1>2, <1>10 DEF StoppedHold
<1> QED  BY Zenon, <1>1, <1>3, <1>4, <1>5, <1>6, <1>7, <1>8, <1>9, <1>10

\* A step that moves a connection and changes nothing but these types' values.
LEMMA MovedInv ==
    ASSUME SvInv, NEW c \in Conns, NEW s \in Stages, Moves(c, s),
           queue' \in [Workers -> Seq(Conns)], ios' \in [Workers -> [Fds -> Conns \cup {0}]],
           connectionNum' \in [Workers -> Nat],
           Slots', Queues', OneAtATime', Listed', WithinLimit', LoadCounted', WritesLocked',
           StoppedHold'
    PROVE  SvInv'
<1>1. stage' \in [Conns -> Stages]
  BY Zenon, Moved
<1>2. SvType'
  BY Zenon, <1>1 DEF SvInv, SvType, Moves
<1> QED  BY Zenon, <1>2 DEF SvInv, Moves

\* CloseRefused keeps the invariant.
LEMMA RefusedInv ==
    ASSUME SvInv, NEW c \in Conns, CloseRefused(c)
    PROVE  SvInv'
<1>1. /\ stage[c] = "refused" /\ Moves(c, "dropped")
      /\ UNCHANGED << queue, ios, connectionNum, channels >>
  BY Zenon DEF CloseRefused, Goto, Moves, wvars, avars, bvars
<1>2. "dropped" \in Stages
  BY Zenon DEF Stages
<1>3. c \notin channels
  BY Zenon, <1>1 DEF SvInv, Listed
<1>4. /\ Slots' /\ Queues' /\ OneAtATime' /\ Listed' /\ WithinLimit' /\ LoadCounted' /\ WritesLocked'
      /\ StoppedHold'
  BY <1>1, <1>2, <1>3, Moved, Zenon DEF Gone, InSlot, BusyStages, CountedStages
<1> QED  BY <1>1, <1>2, <1>4, MovedInv, Zenon DEF SvInv, SvType

\* addChannel keeps the invariant.
LEMMA AddInv ==
    ASSUME SvInv, NEW c \in Conns, addChannel(c)
    PROVE  SvInv'
<1>1. /\ stage[c] = "attached" /\ Moves(c, "open") /\ channels' = channels \cup {c}
      /\ UNCHANGED << queue, ios, connectionNum >>
  BY Zenon DEF addChannel, Goto, Moves, wvars, avars, bvars
<1>2. "open" \in Stages
  BY Zenon DEF Stages
<1>3. wstat[worker[c]] # "stopped"
  BY Zenon, <1>1 DEF SvInv, StoppedHold
<1>4. /\ Slots' /\ Queues' /\ OneAtATime' /\ Listed' /\ WithinLimit' /\ LoadCounted' /\ WritesLocked'
      /\ StoppedHold'
  BY <1>1, <1>2, <1>3, Moved, Zenon DEF Gone, InSlot, BusyStages, CountedStages
<1> QED  BY <1>1, <1>2, <1>4, MovedInv, Zenon DEF SvInv, SvType

\* removeChannel keeps the invariant.
LEMMA RemoveInv ==
    ASSUME SvInv, NEW c \in Conns, removeChannel(c)
    PROVE  SvInv'
<1>1. /\ stage[c] = "closing" /\ Moves(c, "closed") /\ channels' = channels \ {c} /\ mutex = NoThread
      /\ UNCHANGED << queue, ios, connectionNum >>
  BY Zenon DEF removeChannel, MayRemove, Goto, Moves, wvars, avars, bvars
<1>2. "closed" \in Stages
  BY Zenon DEF Stages
<1>4. /\ Slots' /\ Queues' /\ OneAtATime' /\ Listed' /\ WithinLimit' /\ LoadCounted' /\ WritesLocked'
      /\ StoppedHold'
  BY <1>1, <1>2, Moved, Zenon DEF Gone, InSlot, BusyStages, CountedStages
<1> QED  BY <1>1, <1>2, <1>4, MovedInv, Zenon DEF SvInv, SvType

\* onclose keeps the invariant: the connection no longer counts for its worker.
LEMMA CloseInv ==
    ASSUME SvInv, NEW c \in Conns, onclose(c)
    PROVE  SvInv'
<1>1. /\ stage[c] = "open" /\ ~Busy(worker[c]) /\ wstat[worker[c]] # "stopped" /\ Moves(c, "closing")
      /\ connectionNum' = [connectionNum EXCEPT ![worker[c]] = @ - 1]
      /\ UNCHANGED << queue, ios, channels >>
  BY Zenon DEF onclose, Uncounted, Goto, Moves, avars, bvars
<1>2. "closing" \in Stages
  BY Zenon DEF Stages
<1>3. c \in channels /\ SvType /\ LoadCounted
  BY Zenon, <1>1 DEF SvInv, Listed
<1>4. /\ Slots' /\ Queues' /\ OneAtATime' /\ Listed' /\ WithinLimit' /\ WritesLocked' /\ StoppedHold'
  BY Zenon, <1>1, <1>2, <1>3, Moved DEF Gone, InSlot, BusyStages
<1>5. /\ worker' = worker /\ stage'[c] = "closing" /\ \A d \in Conns : d # c => stage'[d] = stage[d]
      /\ worker[c] \in Workers
  BY Zenon, <1>1, <1>2, <1>3, Moved DEF Moves, SvType
<1> DEFINE w == worker[c]
<1>6. \A v \in Workers : connectionNum[v] = Cardinality(Load(v)) /\ Load(v) \in SUBSET Conns
  BY Zenon, <1>3 DEF LoadCounted, Load, CountedStages
<1>7. c \in Load(w) /\ Load(w)' = Load(w) \ {c}
  BY Zenon, <1>1, <1>5 DEF Load, CountedStages
<1>8. \A v \in Workers : v # w => Load(v)' = Load(v)
  BY Zenon, <1>1, <1>5 DEF Load, CountedStages
<1>9. Cardinality(Load(w)') = Cardinality(Load(w)) - 1
  <2>1. IsFiniteSet(Load(w))
    BY Zenon, <1>5, <1>6, Finite
  <2>2. Cardinality(Load(w) \ {c}) = Cardinality(Load(w)) - 1
    BY <1>7, <2>1, FS_RemoveElement, Zenon
  <2> QED  BY Zenon, <1>7, <2>2
<1>10. \A v \in Workers : connectionNum'[v] = Cardinality(Load(v)')
  BY Zenon, <1>1, <1>3, <1>5, <1>6, <1>8, <1>9 DEF SvType
<1>11. LoadCounted'
  BY Zenon, <1>10 DEF LoadCounted, Load, CountedStages
<1>12. \A v \in Workers : Load(v)' \in SUBSET Conns
  BY Zenon DEF Load
<1>13. connectionNum' \in [Workers -> Nat]
  BY SMTT(20), <1>1, <1>3, <1>10, <1>12, Finite DEF SvType
<1> QED  BY <1>1, <1>2, <1>3, <1>4, <1>11, <1>13, MovedInv, Zenon DEF SvType

\* hio_free keeps the invariant.
LEMMA FreeInv ==
    ASSUME SvInv, NEW w \in Workers, NEW f \in Fds, hio_free(w, f)
    PROVE  SvInv'
<1> DEFINE c == ios[w][f]
<1>0. SvType /\ Slots /\ Listed
  BY Zenon DEF SvInv
<1>1. /\ c # 0 /\ stage[c] = "closed" /\ Moves(c, "freed") /\ ios' = [ios EXCEPT ![w][f] = 0]
      /\ UNCHANGED << queue, connectionNum, channels >>
  BY Zenon DEF hio_free, Goto, Moves, avars, bvars
<1>2. "freed" \in Stages /\ c \in Conns /\ c \notin channels
  BY SMTT(20), <1>0, <1>1 DEF Stages, SvType, Listed
<1>3. worker[c] = w /\ fd[c] = f
  BY Zenon, <1>0, <1>1 DEF Slots
<1> HIDE DEF c
<1>4. /\ Queues' /\ OneAtATime' /\ Listed' /\ WithinLimit' /\ LoadCounted' /\ WritesLocked' /\ StoppedHold'
  BY Zenon, <1>1, <1>2, Moved DEF Gone, InSlot, BusyStages, CountedStages
<1>5. stage'[c] = "freed" /\ (\A d \in Conns : d # c => stage'[d] = stage[d]) /\ fd' = fd /\ worker' = worker
  BY <1>1, <1>2, Moved, Zenon DEF Moves
<1>6. /\ ios' \in [Workers -> [Fds -> Conns \cup {0}]] /\ ios'[w][f] = 0
      /\ \A v \in Workers, g \in Fds : v # w \/ g # f => ios'[v][g] = ios[v][g]
  BY Zenon, <1>0, <1>1 DEF SvType
<1>7. Slots'
  <2>1. \A d \in Conns : stage'[d] # "none" => fd'[d] \in Fds
    BY Zenon, <1>0, <1>1, <1>5 DEF Slots
  <2>2. \A d, e \in Conns : stage'[d] \notin Gone /\ stage'[e] \notin Gone /\ fd'[d] = fd'[e] => d = e
    BY SMTT(20), <1>0, <1>5 DEF Slots, Gone
  <2>3. SlotHolds'
    <3> SUFFICES ASSUME NEW d \in Conns, stage'[d] \in InSlot
                 PROVE  ios'[worker[d]][fd[d]] = d
      BY Zenon, <1>5 DEF SlotHolds, InSlot
    <3>1. d # c /\ stage[d] \in InSlot
      BY Zenon, <1>5 DEF InSlot
    <3>2. ios[worker[d]][fd[d]] = d /\ fd[d] \in Fds /\ worker[d] \in Workers
      BY SMTT(20), <1>0, <3>1 DEF Slots, SlotHolds, InSlot, SvType
    <3>3. worker[d] # w \/ fd[d] # f
      BY <3>1, <3>2, Zenon DEF c
    <3> QED  BY Zenon, <1>6, <3>2, <3>3
  <2>4. \A v \in Workers, g \in Fds : ios'[v][g] # 0 =>
          /\ worker'[ios'[v][g]] = v /\ fd'[ios'[v][g]] = g
          /\ stage'[ios'[v][g]] \in {"attached", "open", "closing", "closed"}
    <3> SUFFICES ASSUME NEW v \in Workers, NEW g \in Fds, ios'[v][g] # 0
                 PROVE  /\ worker[ios'[v][g]] = v /\ fd[ios'[v][g]] = g
                        /\ stage'[ios'[v][g]] \in {"attached", "open", "closing", "closed"}
      BY SMTT(20), <1>5
    <3>1. (v # w \/ g # f) /\ ios'[v][g] = ios[v][g]
      BY Zenon, <1>6
    <3>2. ios[v][g] \in Conns /\ worker[ios[v][g]] = v /\ fd[ios[v][g]] = g
          /\ stage[ios[v][g]] \in {"attached", "open", "closing", "closed"}
      BY SMTT(20), <1>0, <3>1 DEF Slots, SvType
    <3>3. ios[v][g] # c
      BY Zenon, <3>1, <3>2, <1>3
    <3> QED  BY Zenon, <1>5, <3>1, <3>2, <3>3
  <2> QED  BY Zenon, <2>1, <2>2, <2>3, <2>4 DEF Slots
<1> QED  BY <1>0, <1>1, <1>2, <1>4, <1>6, <1>7, MovedInv, Zenon DEF SvType

\* A functor taken from its worker's queue: it is the first, and it is gone then.
LEMMA TakenInv ==
    ASSUME SvInv, NEW w \in Workers, newConnEvent(w)
    PROVE  SvInv'
<1> DEFINE c == Head(queue[w])
           s == IF OverMax THEN "refused" ELSE "checked"
<1>0. SvType /\ Slots /\ Queues /\ OneAtATime /\ Listed
  BY Zenon DEF SvInv
<1>1. /\ wstat[w] = "running" /\ ~Busy(w) /\ queue[w] # << >> /\ mutex = NoThread
      /\ queue' = [queue EXCEPT ![w] = Tail(@)] /\ Moves(c, s)
      /\ UNCHANGED << ios, connectionNum, channels >>
  BY Zenon DEF newConnEvent, Goto, Moves, avars, bvars
<1>2. queue[w] \in Seq(Conns) /\ 1 \in DOMAIN queue[w] /\ c = queue[w][1] /\ c \in Conns
  BY SMTT(20), <1>0, <1>1 DEF SvType
<1>3. stage[c] = "queued" /\ worker[c] = w
  BY SMTT(20), <1>0, <1>2 DEF Queues
<1>4. s \in Stages /\ s \in {"refused", "checked"} /\ (s = "checked" => ~OverMax)
  BY Zenon DEF Stages
<1>5. c \notin channels
  BY Zenon, <1>0, <1>3 DEF Listed
<1> HIDE DEF c, s
<1>6. stage'[c] = s /\ (\A d \in Conns : d # c => stage'[d] = stage[d]) /\ worker' = worker
  BY <1>1, <1>2, <1>4, Moved, Zenon DEF Moves
<1>7. /\ Slots' /\ OneAtATime' /\ Listed' /\ LoadCounted' /\ WritesLocked' /\ StoppedHold'
  BY SMTT(20), <1>1, <1>2, <1>3, <1>4, <1>5, Moved DEF Gone, InSlot, CountedStages
<1>8. /\ queue' \in [Workers -> Seq(Conns)] /\ queue'[w] = Tail(queue[w])
      /\ \A v \in Workers : v # w => queue'[v] = queue[v]
  BY SMTT(20), <1>0, <1>1, <1>2 DEF SvType
<1>9. Queues'
  <2> SUFFICES ASSUME NEW v \in Workers
               PROVE  /\ \A i \in DOMAIN queue'[v] : stage'[queue'[v][i]] = "queued" /\ worker[queue'[v][i]] = v
                      /\ \A i, j \in DOMAIN queue'[v] : queue'[v][i] = queue'[v][j] => i = j
    BY Zenon, <1>6 DEF Queues
  <2>1. /\ \A i \in DOMAIN queue[v] : queue[v][i] \in Conns /\ stage[queue[v][i]] = "queued" /\ worker[queue[v][i]] = v
        /\ \A i, j \in DOMAIN queue[v] : queue[v][i] = queue[v][j] => i = j
    BY SMTT(20), <1>0 DEF SvType, Queues
  <2>2. CASE v # w
    <3>1. \A i \in DOMAIN queue[v] : queue[v][i] # c
      BY Zenon, <1>3, <2>1, <2>2
    <3> QED  BY <1>6, <1>8, <2>1, <2>2, <3>1, ZenonT(30)
  <2>3. CASE v = w
    <3>1. \A i \in DOMAIN queue'[w] : i + 1 \in DOMAIN queue[w] /\ queue'[w][i] = queue[w][i + 1] /\ i \in Nat \ {0}
      BY SMTT(20), <1>1, <1>2, <1>8
    <3>2. \A i \in DOMAIN queue'[w] : queue'[w][i] # c
      BY SMTT(20), <1>2, <2>1, <2>3, <3>1
    <3>3. \A i, j \in DOMAIN queue'[w] : queue'[w][i] = queue'[w][j] => i = j
      BY SMTT(20), <2>1, <2>3, <3>1
    <3> QED  BY SMTT(20), <1>6, <2>1, <2>3, <3>1, <3>2, <3>3
  <2> QED  BY Zenon, <2>2, <2>3
<1>10. WithinLimit'
  <2>1. CASE s = "refused"
    BY Zenon, <1>1, <1>2, <1>4, <2>1, Moved DEF InSlot
  <2>2. CASE s = "checked"
    <3> DEFINE P == {d \in Conns : stage'[d] \in {"checked", "attached"}}
    <3>1. channels \in SUBSET Conns /\ P \in SUBSET Conns /\ Admitted' = channels \cup P
      BY <1>0, <1>1, <1>3, <1>6, <1>7, <2>2, Zenon DEF Listed, Admitted
    <3>2. \A d, e \in P : worker[d] = worker[e] => d = e
      BY Zenon, <1>6, <1>7 DEF OneAtATime, BusyStages
    <3>3. Cardinality(P) <= NumWorkers
      BY <1>0, <3>1, <3>2, OnePerWorker, Zenon DEF SvType
    <3>4. Cardinality(channels) < MaxConnections
      BY SMTT(20), <1>4, <2>2, <3>1, Finite DEF OverMax
    <3>5. Cardinality(channels \cup P) <= Cardinality(channels) + Cardinality(P)
      <4>1. /\ IsFiniteSet(channels) /\ IsFiniteSet(P) /\ IsFiniteSet(channels \cap P)
            /\ Cardinality(channels) \in Nat /\ Cardinality(P) \in Nat /\ Cardinality(channels \cap P) \in Nat
        <5>1. channels \cap P \in SUBSET Conns
          BY Zenon, <3>1
        <5> HIDE DEF P
        <5> QED  BY Zenon, <3>1, <5>1, Finite
      <4> HIDE DEF P
      <4>2. Cardinality(channels \cup P) = Cardinality(channels) + Cardinality(P) - Cardinality(channels \cap P)
        BY Zenon, <4>1, FS_Union
      <4> QED  BY SMTT(20), <4>1, <4>2
    <3>6. Cardinality(channels) \in Nat /\ Cardinality(P) \in Nat /\ Cardinality(channels \cup P) \in Nat
      <4>1. channels \cup P \in SUBSET Conns
        BY Zenon, <3>1
      <4> HIDE DEF P
      <4> QED  BY Zenon, <3>1, <4>1, Finite
    <3> HIDE DEF P
    <3>7. Cardinality(Admitted') <= MaxConnections + NumWorkers - 1
      BY SMTT(20), <3>1, <3>3, <3>4, <3>5, <3>6, Finite
    <3> QED  BY Zenon, <3>7 DEF WithinLimit
  <2> QED  BY Zenon, <1>4, <2>1, <2>2
<1> QED  BY <1>0, <1>1, <1>2, <1>4, <1>7, <1>8, <1>9, <1>10, MovedInv, Zenon DEF SvType

\* hio_attach frees what is left of a closed connection in the slot, and never
\* a connection in use.
LEMMA AttachInv ==
    ASSUME SvInv, NEW c \in Conns, hio_attach(c)
    PROVE  SvInv'
<1> DEFINE w == worker[c]
           f == fd[c]
           p == ios[w][f]
<1>0. /\ SvType /\ Slots /\ Queues /\ OneAtATime /\ Listed /\ WithinLimit /\ LoadCounted
      /\ WritesLocked /\ StoppedHold /\ (stopper = "done" => \A v \in Workers : wstat[v] = "stopped")
  BY Zenon DEF SvInv
<1>1. /\ stage[c] = "checked"
      /\ UNCHANGED << fd, worker, queue, connectionNum, loop_, wstat, next_loop_idx, mutex, todo, bcur, channels, stopper >>
      /\ \/ UNCHANGED << stage, ios >>
         \/ /\ stage' = [i \in Conns |-> CASE i = c -> "attached" [] i = p -> "freed" [] OTHER -> stage[i]]
            /\ ios' = [ios EXCEPT ![w][f] = c]
  BY Zenon DEF hio_attach, Attached, avars, bvars
<1>2. w \in Workers /\ f \in Fds /\ (p # 0 => p \in Conns)
  BY SMTT(20), <1>0, <1>1 DEF SvType, Slots
<1>3. p # 0 => p # c /\ stage[p] = "closed"
  <2> SUFFICES ASSUME p # 0  PROVE p # c /\ stage[p] = "closed"
    BY Zenon
  <2>1. p \in Conns /\ worker[p] = w /\ fd[p] = f /\ stage[p] \in {"attached", "open", "closing", "closed"}
    BY SMTT(20), <1>0, <1>2 DEF Slots
  <2>2. p # c
    BY Zenon, <1>1, <2>1
  <2>3. stage[p] \in Gone
    BY Zenon, <1>0, <1>1, <2>1, <2>2 DEF Slots, Gone
  <2> QED  BY Zenon, <2>1, <2>2, <2>3 DEF Gone
<1>4. CASE UNCHANGED << stage, ios >>
  BY Zenon, <1>0, <1>1, <1>4, ConnsAlone DEF SvInv, SvType, WritesLocked, StoppedHold
<1>5. CASE /\ stage' = [i \in Conns |-> CASE i = c -> "attached" [] i = p -> "freed" [] OTHER -> stage[i]]
           /\ ios' = [ios EXCEPT ![w][f] = c]
  <2>1. /\ stage'[c] = "attached"
        /\ \A d \in Conns : d # c => \/ d # p /\ stage'[d] = stage[d]
                                     \/ d = p /\ stage[d] = "closed" /\ stage'[d] = "freed"
    <3>1. stage'[c] = "attached"
      BY Zenon, <1>3, <1>5, Finite
    <3>2. ASSUME NEW d \in Conns, d # c
          PROVE  \/ d # p /\ stage'[d] = stage[d]
                 \/ d = p /\ stage[d] = "closed" /\ stage'[d] = "freed"
      BY Zenon, <1>3, <1>5, <3>2, Finite
    <3> QED  BY Zenon, <3>1, <3>2
  <2>2. /\ ios' \in [Workers -> [Fds -> Conns \cup {0}]] /\ ios'[w][f] = c
        /\ \A v \in Workers, g \in Fds : v # w \/ g # f => ios'[v][g] = ios[v][g]
    BY Zenon, <1>0, <1>2, <1>5 DEF SvType
  <2>3. stage' \in [Conns -> Stages]
    <3>1. \A d \in Conns : stage'[d] \in Stages
      BY <1>0, <2>1, ZenonT(30) DEF SvType, Stages
    <3> QED  BY Zenon, <1>5, <3>1
  <2> HIDE DEF p, w, f
  <2>4. SvType'
    BY Zenon, <1>0, <1>1, <2>2, <2>3 DEF SvType
  <2>5. Slots'
    <3>1. \A d \in Conns : stage'[d] # "none" => fd'[d] \in Fds
      BY ZenonT(30), <1>0, <1>1, <2>1 DEF Slots
    <3>2. \A d \in Conns : stage'[d] \notin Gone => stage[d] \notin Gone
      BY Zenon, <1>1, <2>1 DEF Gone
    <3>3. \A d, e \in Conns : stage'[d] \notin Gone /\ stage'[e] \notin Gone /\ fd'[d] = fd'[e] => d = e
      BY Zenon, <1>0, <1>1, <3>2 DEF Slots
    <3>4. SlotHolds'
      <4> SUFFICES ASSUME NEW d \in Conns, stage'[d] \in InSlot
                   PROVE  ios'[worker[d]][fd[d]] = d
        BY Zenon, <1>1 DEF SlotHolds, InSlot
      <4>1. CASE d = c
        BY Zenon, <2>2, <4>1 DEF w, f
      <4>2. CASE d # c
        <5>1. stage[d] \in InSlot /\ fd[d] # f
          BY SMTT(20), <1>0, <1>1, <2>1, <4>2 DEF InSlot, Slots, Gone, f
        <5>2. ios[worker[d]][fd[d]] = d /\ fd[d] \in Fds /\ worker[d] \in Workers
          BY SMTT(20), <1>0, <5>1 DEF Slots, SlotHolds, InSlot, SvType
        <5> QED  BY Zenon, <2>2, <5>1, <5>2
      <4> QED  BY Zenon, <4>1, <4>2
    <3>5. \A v \in Workers, g \in Fds : ios'[v][g] # 0 =>
            /\ worker'[ios'[v][g]] = v /\ fd'[ios'[v][g]] = g
            /\ stage'[ios'[v][g]] \in {"attached", "open", "closing", "closed"}
      <4> SUFFICES ASSUME NEW v \in Workers, NEW g \in Fds, ios'[v][g] # 0
                   PROVE  /\ worker[ios'[v][g]] = v /\ fd[ios'[v][g]] = g
                          /\ stage'[ios'[v][g]] \in {"attached", "open", "closing", "closed"}
        BY SMTT(20), <1>1
      <4>1. CASE v = w /\ g = f
        BY Zenon, <2>1, <2>2, <4>1 DEF w, f
      <4>2. CASE v # w \/ g # f
        <5>1. ios'[v][g] = ios[v][g] /\ ios[v][g] \in Conns
          BY SMTT(20), <1>0, <2>2, <4>2 DEF SvType
        <5>2. /\ worker[ios[v][g]] = v /\ fd[ios[v][g]] = g
              /\ stage[ios[v][g]] \in {"attached", "open", "closing", "closed"}
          BY <1>0, <5>1, Zenon DEF Slots
        <5>3. ios[v][g] # c
          BY Zenon, <1>1, <5>2
        <5>4. ios[v][g] # p
          <6> SUFFICES ASSUME ios[v][g] = p  PROVE FALSE
            BY Zenon
          <6>1. p # 0
            BY Zenon, <5>1
          <6>2. worker[p] = w /\ fd[p] = f
            BY SMTT(20), <1>0, <1>2, <6>1 DEF Slots, p
          <6> QED  BY Zenon, <4>2, <5>2, <6>2
        <5> QED  BY Zenon, <2>1, <5>1, <5>2, <5>3, <5>4
      <4> QED  BY Zenon, <4>1, <4>2
    <3> QED  BY <3>1, <3>3, <3>4, <3>5, Zenon DEF Slots
  <2>6. Queues'
    <3>1. \A v \in Workers : \A i \in DOMAIN queue[v] :
             queue[v][i] \in Conns /\ stage[queue[v][i]] = "queued" /\ worker[queue[v][i]] = v
      BY SMTT(20), <1>0 DEF SvType, Queues
    <3>2. \A v \in Workers : \A i \in DOMAIN queue[v] : stage'[queue[v][i]] = "queued"
      BY SMTT(20), <1>1, <2>1, <3>1
    <3> QED  BY SMTT(20), <1>0, <1>1, <3>1, <3>2 DEF Queues
  <2>7. OneAtATime'
    <3>1. \A d \in Conns : stage'[d] \in BusyStages => stage[d] \in BusyStages
      BY Zenon, <1>1, <2>1 DEF BusyStages
    <3> QED  BY Zenon, <1>0, <1>1, <3>1 DEF OneAtATime
  <2>8. Listed' /\ WithinLimit'
    <3>1. Admitted' = Admitted
      BY Zenon, <1>1, <2>1 DEF Admitted
    <3>2. Listed'
      BY Zenon, <1>0, <1>1, <2>1 DEF Listed
    <3> QED  BY Zenon, <1>0, <3>1, <3>2 DEF WithinLimit
  <2>9. LoadCounted'
    <3>1. \A d \in Conns : stage'[d] \in CountedStages <=> stage[d] \in CountedStages
      BY Zenon, <1>1, <2>1 DEF CountedStages
    <3> QED  BY Zenon, <1>1, <3>1, LoadSame
  <2>10. WritesLocked'
    <3>1. \A t \in Broadcasters : bcur[t] # 0 => bcur[t] \in Conns
      BY Zenon, <1>0 DEF SvType
    <3> QED  BY Zenon, <1>0, <1>1, <2>1, <3>1 DEF WritesLocked
  <2>11. StoppedHold'
    BY Zenon, <1>0, <1>1, <2>1 DEF StoppedHold
  <2> QED  BY Zenon, <1>0, <1>1, <2>4, <2>5, <2>6, <2>7, <2>8, <2>9, <2>10, <2>11 DEF SvInv
<1> QED  BY Zenon, <1>1, <1>4, <1>5

-----------------------------------------------------------------------------

\* A server with no connections.
LEMMA ServerInit == Init => SvInv
<1> SUFFICES ASSUME Init  PROVE SvInv
  BY Zenon
<1>1. SvType
  BY SMTT(20), Finite DEF Init, SvType, Stages
<1>2. Slots /\ Queues /\ OneAtATime /\ Listed
  BY SMTT(20), <1>1 DEF Init, Slots, SlotHolds, Gone, Queues, OneAtATime, BusyStages, Listed
<1>3. Admitted = {} /\ \A w \in Workers : Load(w) = {}
  BY Zenon DEF Init, Admitted, Load, CountedStages
<1>4. WithinLimit
  BY SMTT(20), <1>3, Finite, FS_EmptySet DEF WithinLimit
<1>5. \A w \in Workers : connectionNum[w] = Cardinality(Load(w))
  BY <1>3, FS_EmptySet, Zenon DEF Init
<1>6. LoadCounted
  BY Zenon, <1>5 DEF LoadCounted, Load, CountedStages
<1>7. WritesLocked /\ StoppedHold
  BY Zenon, Finite DEF Init, WritesLocked, StoppedHold
<1> QED  BY Zenon, <1>1, <1>2, <1>4, <1>6, <1>7 DEF SvInv, Init

\* Every step of every thread keeps the invariant.
LEMMA ServerStep == SvInv /\ [Next]_vars => SvInv'
<1> SUFFICES ASSUME SvInv, [Next]_vars  PROVE SvInv'
  BY Zenon
<1>1. CASE UNCHANGED vars
  <2>1. UNCHANGED << stage, fd, worker, queue, ios, connectionNum, channels, next_loop_idx, mutex, todo,
                     bcur, wstat, loop_, stopper >>
    BY Zenon, <1>1 DEF vars, conn, wvars, avars, bvars
  <2> QED  BY <2>1, ConnsAlone, Zenon DEF SvInv, SvType, WritesLocked, StoppedHold
<1>2. ASSUME NEW w \in Workers, WorkerStep(w)
      PROVE  SvInv'
  BY Zenon, <1>2, ThreadsInv, TakenInv, FreeInv, AttachInv, AddInv, RemoveInv, CloseInv DEF WorkerStep, ConnStep
<1>3. CASE AcceptorStep
  BY Zenon, <1>3, ThreadsInv, RefusedInv DEF AcceptorStep
<1>4. CASE Next
  BY Zenon, <1>2, <1>3, <1>4, AcceptInv, CloseInv, ThreadsInv DEF Next
<1> QED  BY Zenon, <1>1, <1>4

\* The inductive invariant holds in every state.
LEMMA ServerInvariant == Spec => []SvInv
BY ServerInit, ServerStep, PTL DEF Spec

(***************************************************************************)
(* Whatever the workers, descriptors and threads: a connection in use is   *)
(* the one its worker finds in the slot of its descriptor, although the    *)
(* kernel hands a descriptor out again while the last user's hio_t is      *)
(* still in a slot, and a broadcast writes only to one that is not freed.  *)
(***************************************************************************)
THEOREM ConnectionsHaveTheirSlots == Spec => []ServedFromItsSlot
<1>1. SvInv => ServedFromItsSlot
  BY Zenon DEF SvInv, Slots, WritesLocked, ServedFromItsSlot, NoWriteToFreed
<1> QED  BY <1>1, ServerInvariant, PTL

(***************************************************************************)
(* connectionNum is what a worker was given and has not let go, and the    *)
(* test of max_connections, which newConnEvent makes before it adds the    *)
(* channel, lets at most one connection too many in per other worker.      *)
(***************************************************************************)
THEOREM LoadIsKnown == Spec => []LoadKnown
<1>1. ASSUME SvInv  PROVE LoadKnown
  <2>1. channels \subseteq Admitted /\ Admitted \in SUBSET Conns /\ channels \in SUBSET Conns
    BY Zenon, <1>1 DEF SvInv, Listed, Admitted
  <2>2. Cardinality(channels) <= Cardinality(Admitted)
    BY Zenon, <2>1, Finite, FS_Subset
  <2>3. Cardinality(channels) \in Nat /\ Cardinality(Admitted) \in Nat
    BY Zenon, <2>1, Finite
  <2>4. WithinMax
    BY SMTT(20), <1>1, <2>2, <2>3, Finite DEF SvInv, WithinLimit, WithinMax
  <2>5. TypeOK
    <3>1. Conns \cup {0} = 0 .. MaxConn
      BY SMTT(20), ServerAssumption DEF ServerAssumption, Conns
    <3>2. SvType
      BY Zenon, <1>1 DEF SvInv
    <3>3. ios \in [Workers -> [Fds -> 0 .. MaxConn]]
      BY Zenon, <3>1, <3>2 DEF SvType
    <3> QED  BY SMTT(20), <3>2, <3>3 DEF SvType, TypeOK, Stages
  <2> QED  BY Zenon, <1>1, <2>4, <2>5 DEF SvInv, LoadKnown
<1> QED  BY <1>1, ServerInvariant, PTL

(***************************************************************************)
(* When TcpServer::stop has returned, no channel is listed, and no         *)
(* connection is open or half set up in any worker.                        *)
(***************************************************************************)
THEOREM StopLeavesNothing == Spec => []StopReleases
<1>1. SvInv => StopReleases
  BY Zenon DEF SvInv, SvType, Listed, StoppedHold, StopReleases
<1> QED  BY <1>1, ServerInvariant, PTL

-----------------------------------------------------------------------------
(***************************************************************************)
(* TcpClient for any number of sockets, retries and posted functors, when  *)
(* the application starts the client again only after its last socket has  *)
(* gone: the client holds one socket, keeps reconnecting while it is to,   *)
(* and not after closesocket.                                              *)
(***************************************************************************)

CStatus == {"OPENED", "CONNECTING", "CONNECTED", "CLOSED"}
IoStates == {"open", "closing", "closed"}

ClType ==
    /\ cstatus \in Seq(CStatus) /\ iostate \in Seq(IoStates) /\ backlog \in Seq(BOOLEAN)
    /\ Len(iostate) = Len(cstatus) /\ Len(backlog) = Len(cstatus) /\ channel = Len(cstatus)
    /\ reconn \in BOOLEAN /\ ended \in BOOLEAN
    /\ cur_retry_cnt \in Nat /\ rtimers \in Nat /\ lost \in Nat
    /\ posted \in Seq({"start", "close"})

\* Only the last socket is not closed; Channel and io agree on what is open;
\* only a connection has output waiting, and one that drains after closesocket
\* finds reconnection switched off.
SocketsEnd ==
    /\ \A c \in Sockets : c # channel => iostate[c] = "closed"
    /\ \A c \in Sockets : iostate[c] = "open" <=> cstatus[c] # "CLOSED"
    /\ \A c \in Sockets : backlog[c] = TRUE => cstatus[c] = "CONNECTED" \/ iostate[c] = "closing"
    /\ \A c \in Sockets : iostate[c] = "closing" => ~reconn

\* The channel is closed, or has never been asked to connect.
Resting == channel # None => iostate[channel] = "closed" \/ cstatus[channel] = "OPENED"

\* A reconnect timer, one at most, and a posted start never meet each other or a
\* connection; nothing is on its way after closesocket.
OneAttempt ==
    /\ rtimers > 0 => rtimers = 1 /\ channel # None /\ iostate[channel] = "closed"
    /\ \A i \in 1 .. Len(posted) : posted[i] = "start" => i = 1 /\ rtimers = 0 /\ ~ended /\ Resting
    /\ ended => rtimers = 0 /\ channel # None /\ cstatus[channel] = "CLOSED"

\* Retries are counted against the losses.
LossesCounted ==
    /\ channel = None => lost = 0 /\ rtimers = 0
    /\ lost <= MaxRetry => cur_retry_cnt <= lost

ClInv == ClType /\ SocketsEnd /\ OneAttempt /\ LossesCounted /\ KeepsReconnecting

-----------------------------------------------------------------------------

\* Writing a sequence in one place.
LEMMA Put ==
    ASSUME NEW S, NEW q \in Seq(S), NEW i \in 1 .. Len(q), NEW v \in S, NEW r, r = [q EXCEPT ![i] = v]
    PROVE  r \in Seq(S) /\ Len(r) = Len(q) /\ r[i] = v /\ \A j \in 1 .. Len(q) : j # i => r[j] = q[j]
<1>1. r \in Seq(S) /\ Len(r) = Len(q)
  BY SMTT(20), ExceptSeq
<1> QED  BY SMTT(20), <1>1

\* Adding to a sequence.
LEMMA Added ==
    ASSUME NEW S, NEW q \in Seq(S), NEW v \in S
    PROVE  /\ Append(q, v) \in Seq(S) /\ Len(Append(q, v)) = Len(q) + 1
           /\ Append(q, v)[Len(q) + 1] = v
           /\ \A j \in 1 .. Len(q) : Append(q, v)[j] = q[j]
BY SMTT(20)

\* The same of a flag.
LEMMA AddedFlag ==
    ASSUME NEW q \in Seq(BOOLEAN), NEW r, r = Append(q, FALSE)
    PROVE  /\ r \in Seq(BOOLEAN) /\ Len(r) = Len(q) + 1 /\ r[Len(q) + 1] = FALSE
           /\ \A j \in 1 .. Len(q) : r[j] = q[j]
BY SMT

\* A client that has not been started.
LEMMA ClientInit == ClInit => ClInv
<1> SUFFICES ASSUME ClInit  PROVE ClInv
  BY Zenon
<1>1. /\ << >> \in Seq(CStatus) /\ << >> \in Seq(IoStates) /\ << >> \in Seq(BOOLEAN)
      /\ << >> \in Seq({"start", "close"}) /\ Len(<< >>) = 0
  BY SMTT(20)
<1>2. reconn \in BOOLEAN /\ ended \in BOOLEAN /\ ended = FALSE
  BY Zenon DEF ClInit
<1>3. ClType
  BY Zenon, <1>1, <1>2 DEF ClInit, ClType, None
<1>4. Sockets = {} /\ 1 .. Len(posted) = {}
  BY SMTT(20), <1>1 DEF ClInit, Sockets
<1>5. SocketsEnd /\ OneAttempt /\ LossesCounted
  BY SMTT(20), <1>2, <1>4 DEF ClInit, SocketsEnd, OneAttempt, LossesCounted
<1>6. KeepsReconnecting
  BY SMTT(20) DEF ClInit, KeepsReconnecting
<1> QED  BY Zenon, <1>3, <1>5, <1>6 DEF ClInv

\* What is not closed is the client's channel.
LEMMA LiveIsChannel ==
    ASSUME ClInv, NEW c \in Sockets, iostate[c] # "closed"
    PROVE  c = channel /\ channel # None /\ channel \in Sockets /\ rtimers = 0
<1>1. c = channel /\ c # None
  BY SMTT(20) DEF ClInv, ClType, SocketsEnd, Sockets, None
<1>2. rtimers \in Nat
  BY Zenon DEF ClInv, ClType
<1> QED  BY SMTT(20), <1>1, <1>2 DEF ClInv, OneAttempt

\* startConnect, when the channel is closed or has not been connected and no
\* other attempt is due.
LEMMA StartsConnecting ==
    ASSUME ClInv, StartConnect, Resting, ~ended, rtimers' = 0,
           UNCHANGED << reconn, cur_retry_cnt, lost, ended >>,
           posted' \in Seq({"start", "close"}),
           \A i \in 1 .. Len(posted') : posted'[i] # "start"
    PROVE  ClInv'
<1>0. ClType /\ SocketsEnd /\ OneAttempt /\ LossesCounted
  BY Zenon DEF ClInv
<1>1. /\ Len(cstatus) \in Nat /\ Sockets = 1 .. Len(cstatus) /\ channel = Len(cstatus)
      /\ channel # None => channel \in Sockets
  BY SMTT(20), <1>0 DEF ClType, Sockets, None
<1>2. OneAttempt'
  <2>1. ~ended'
    BY Zenon
  <2>2. ~(rtimers' > 0)
    BY SMTT(20)
  <2> QED  BY Zenon, <2>1, <2>2 DEF OneAttempt
<1>3. \A c \in Sockets : iostate[c] # "closed" => c = channel /\ cstatus[c] = "OPENED"
  BY SMTT(20), <1>0, <1>1 DEF SocketsEnd, Resting, None
<1>4. CASE /\ ~isOpened(channel)
           /\ cstatus' = Append(cstatus, "CONNECTING") /\ iostate' = Append(iostate, "open")
           /\ backlog' = Append(backlog, FALSE) /\ channel' = Len(cstatus')
  <2>1. /\ cstatus' \in Seq(CStatus) /\ Len(cstatus') = Len(cstatus) + 1
        /\ cstatus'[Len(cstatus) + 1] = "CONNECTING"
        /\ \A c \in Sockets : cstatus'[c] = cstatus[c]
    BY SMTT(20), <1>0, <1>1, <1>4, Added DEF ClType, CStatus
  <2>2. /\ iostate' \in Seq(IoStates) /\ Len(iostate') = Len(cstatus) + 1
        /\ iostate'[Len(cstatus) + 1] = "open"
        /\ \A c \in Sockets : iostate'[c] = iostate[c]
    BY SMTT(20), <1>0, <1>1, <1>4, Added DEF ClType, IoStates
  <2>3. /\ backlog' \in Seq(BOOLEAN) /\ Len(backlog') = Len(cstatus) + 1
        /\ backlog'[Len(cstatus) + 1] = FALSE
        /\ \A c \in Sockets : backlog'[c] = backlog[c]
    <3>1. backlog \in Seq(BOOLEAN) /\ Len(backlog) = Len(cstatus) /\ FALSE \in BOOLEAN
      BY Zenon, <1>0 DEF ClType
    <3>2. /\ backlog' \in Seq(BOOLEAN) /\ Len(backlog') = Len(backlog) + 1
          /\ backlog'[Len(backlog) + 1] = FALSE
          /\ \A c \in 1 .. Len(backlog) : backlog'[c] = backlog[c]
      BY <1>4, <3>1, AddedFlag, Zenon
    <3> QED  BY Zenon, <1>1, <3>1, <3>2
  <2>4. \A c \in Sockets : iostate[c] = "closed"
    BY SMTT(20), <1>0, <1>3, <1>4 DEF isOpened, SocketsEnd, None, Sockets
  <2>5. /\ Sockets' = Sockets \cup {Len(cstatus) + 1} /\ channel' = Len(cstatus) + 1 /\ channel' # None
    BY SMTT(20), <1>1, <1>4, <2>1 DEF Sockets, None
  <2>6. ClType'
    BY Zenon, <1>0, <1>4, <2>1, <2>2, <2>3 DEF ClType
  <2>7. SocketsEnd'
    BY <1>0, <2>1, <2>2, <2>3, <2>4, <2>5, ZenonT(30) DEF SocketsEnd
  <2>8. LossesCounted'
    BY Zenon, <1>0, <2>5 DEF LossesCounted
  <2>9. KeepsReconnecting'
    BY Zenon, <2>1, <2>5 DEF KeepsReconnecting, Connecting
  <2> QED  BY Zenon, <1>2, <2>6, <2>7, <2>8, <2>9 DEF ClInv
<1>5. CASE nofd' = TRUE /\ UNCHANGED << channel, cstatus, iostate, backlog >>
  <2>1. ClType' /\ SocketsEnd'
    BY Zenon, <1>0, <1>5 DEF ClType, SocketsEnd, Sockets
  <2>2. LossesCounted' /\ KeepsReconnecting'
    BY Zenon, <1>0, <1>5 DEF LossesCounted, KeepsReconnecting
  <2> QED  BY Zenon, <1>2, <2>1, <2>2 DEF ClInv
<1>6. CASE /\ isOpened(channel)
           /\ cstatus' = [cstatus EXCEPT ![channel] = IF @ = "OPENED" THEN "CONNECTING" ELSE @]
           /\ UNCHANGED << channel, iostate, backlog, nofd >>
  <2>1. channel \in Sockets /\ iostate[channel] = "open" /\ cstatus[channel] = "OPENED" /\ channel # None
    BY Zenon, <1>1, <1>3, <1>6 DEF isOpened
  <2>2. cstatus' = [cstatus EXCEPT ![channel] = "CONNECTING"]
    BY Zenon, <1>6, <2>1
  <2>3. /\ cstatus' \in Seq(CStatus) /\ Len(cstatus') = Len(cstatus) /\ cstatus'[channel] = "CONNECTING"
        /\ \A c \in Sockets : c # channel => cstatus'[c] = cstatus[c]
    BY SMTT(20), <1>0, <1>1, <2>1, <2>2, Put DEF ClType, CStatus
  <2>4. Sockets' = Sockets
    BY Zenon, <2>3 DEF Sockets
  <2>5. ClType'
    BY Zenon, <1>0, <1>6, <2>3 DEF ClType
  <2>6. SocketsEnd'
    BY Zenon, <1>0, <1>6, <2>1, <2>3, <2>4 DEF SocketsEnd
  <2>7. LossesCounted' /\ KeepsReconnecting'
    BY Zenon, <1>0, <1>6, <2>1, <2>3 DEF LossesCounted, KeepsReconnecting, Connecting
  <2> QED  BY Zenon, <1>2, <2>5, <2>6, <2>7 DEF ClInv
<1> QED  BY <1>4, <1>5, <1>6, Zenon DEF StartConnect

\* The first functor of the queue is run.
LEMMA Ran ==
    ASSUME ClInv, posted # << >>, posted' = Tail(posted)
    PROVE  /\ posted' \in Seq({"start", "close"}) /\ Head(posted) = posted[1] /\ 1 \in 1 .. Len(posted)
           /\ \A i \in 1 .. Len(posted') : posted'[i] # "start"
<1>1. /\ posted \in Seq({"start", "close"}) /\ Len(posted) \in Nat \ {0} /\ Head(posted) = posted[1]
      /\ posted' \in Seq({"start", "close"}) /\ Len(posted') = Len(posted) - 1
      /\ \A i \in 1 .. Len(posted') : posted'[i] = posted[i + 1]
  BY SMTT(20) DEF ClInv, ClType
<1>2. \A i \in 1 .. Len(posted) : posted[i] = "start" => i = 1
  BY Zenon DEF ClInv, OneAttempt
<1>3. ASSUME NEW i \in 1 .. Len(posted')
      PROVE  posted'[i] # "start"
  <2>1. i + 1 \in 1 .. Len(posted) /\ i + 1 # 1
    BY SMTT(20), <1>1
  <2> QED  BY Zenon, <1>1, <1>2, <2>1
<1> QED  BY SMTT(20), <1>1, <1>3

\* The loop runs a functor or a reconnect timer.
LEMMA LoopInv ==
    ASSUME ClInv, RunStart \/ RunClose \/ ReconnectTimer
    PROVE  ClInv'
<1>0. ClType /\ SocketsEnd /\ OneAttempt /\ LossesCounted /\ KeepsReconnecting
  BY Zenon DEF ClInv
<1>1. CASE RunStart
  <2>1. /\ posted # << >> /\ Head(posted) = "start" /\ posted' = Tail(posted) /\ StartConnect
        /\ UNCHANGED << reconn, cur_retry_cnt, rtimers, lost, ended >>
    BY Zenon, <1>1 DEF RunStart
  <2>2. /\ posted' \in Seq({"start", "close"}) /\ posted[1] = "start" /\ 1 \in 1 .. Len(posted)
        /\ \A i \in 1 .. Len(posted') : posted'[i] # "start"
    BY Zenon, <2>1, Ran
  <2>3. rtimers = 0 /\ ~ended /\ Resting
    BY Zenon, <1>0, <2>2 DEF OneAttempt
  <2> QED  BY Zenon, <2>1, <2>2, <2>3, StartsConnecting
<1>2. CASE ReconnectTimer
  <2>1. /\ rtimers > 0 /\ rtimers' = rtimers - 1 /\ StartConnect
        /\ UNCHANGED << reconn, cur_retry_cnt, posted, lost, ended >>
    BY Zenon, <1>2 DEF ReconnectTimer
  <2>2. rtimers = 1 /\ ~ended /\ iostate[channel] = "closed"
    BY SMTT(20), <1>0, <2>1 DEF OneAttempt
  <2>3. rtimers' = 0 /\ Resting
    BY SMTT(20), <2>1, <2>2 DEF Resting
  <2>4. \A i \in 1 .. Len(posted') : posted'[i] # "start"
    BY SMTT(20), <1>0, <2>1, <2>2 DEF OneAttempt
  <2>5. posted' \in Seq({"start", "close"})
    BY Zenon, <1>0, <2>1 DEF ClType
  <2> QED  BY Zenon, <2>1, <2>2, <2>3, <2>4, <2>5, StartsConnecting
<1>3. CASE RunClose
  <2>1. /\ posted # << >> /\ posted' = Tail(posted) /\ reconn' = FALSE /\ cur_retry_cnt' = 0
        /\ UNCHANGED << channel, backlog, nofd, lost, rtimers >>
    BY Zenon, <1>3 DEF RunClose
  <2>2. posted' \in Seq({"start", "close"}) /\ \A i \in 1 .. Len(posted') : posted'[i] # "start"
    BY Zenon, <2>1, Ran
  <2>3. /\ KeepsReconnecting' /\ LossesCounted'
    BY SMTT(20), <1>0, <2>1 DEF KeepsReconnecting, LossesCounted, ClType
  <2>4. CASE ~isOpened(channel)
    <3>1. UNCHANGED << cstatus, iostate, ended >>
      BY Zenon, <1>3, <2>4 DEF RunClose
    <3>2. ClType'
      BY <1>0, <2>1, <2>2, <3>1, Zenon DEF ClType
    <3>3. SocketsEnd' /\ OneAttempt'
      BY Zenon, <1>0, <2>1, <2>2, <3>1 DEF SocketsEnd, OneAttempt, Sockets
    <3> QED  BY Zenon, <2>3, <3>2, <3>3 DEF ClInv
  <2>5. CASE isOpened(channel)
    <3> DEFINE s == IF backlog[channel] THEN "closing" ELSE "closed"
    <3>1. /\ ended' = TRUE /\ cstatus' = [cstatus EXCEPT ![channel] = "CLOSED"]
          /\ iostate' = [iostate EXCEPT ![channel] = s] /\ s \in {"closing", "closed"}
          /\ s = "closed" => backlog[channel] # TRUE
      BY <1>3, <2>5, Zenon DEF RunClose
    <3> HIDE DEF s
    <3>2. channel \in Sockets /\ channel \in 1 .. Len(iostate) /\ iostate[channel] # "closed" /\ channel # None
      BY SMTT(20), <1>0, <2>5 DEF isOpened, Sockets, ClType, None
    <3>3. rtimers = 0
      BY Zenon, <3>2, LiveIsChannel
    <3>4. /\ cstatus' \in Seq(CStatus) /\ Len(cstatus') = Len(cstatus) /\ cstatus'[channel] = "CLOSED"
          /\ \A c \in Sockets : c # channel => cstatus'[c] = cstatus[c]
      BY SMTT(20), <1>0, <3>1, <3>2, Put DEF ClType, CStatus, Sockets
    <3>5. /\ iostate' \in Seq(IoStates) /\ Len(iostate') = Len(iostate) /\ iostate'[channel] = s
          /\ \A c \in Sockets : c # channel => iostate'[c] = iostate[c]
      BY SMTT(20), <1>0, <3>1, <3>2, Put DEF ClType, IoStates, Sockets
    <3>6. Sockets' = Sockets
      BY Zenon, <3>4 DEF Sockets
    <3>7. ClType'
      BY <1>0, <2>1, <2>2, <3>1, <3>4, <3>5, Zenon DEF ClType
    <3>8. SocketsEnd'
      BY <1>0, <2>1, <3>1, <3>4, <3>5, <3>6, ZenonT(30) DEF SocketsEnd
    <3>9. OneAttempt'
      BY SMTT(20), <2>1, <2>2, <3>2, <3>3, <3>4 DEF OneAttempt
    <3> QED  BY Zenon, <2>3, <3>7, <3>8, <3>9 DEF ClInv
  <2> QED  BY Zenon, <2>4, <2>5
<1> QED  BY Zenon, <1>1, <1>2, <1>3

\* The network makes or ends a connection, or takes its output.
LEMMA NetworkInv ==
    ASSUME ClInv, NEW c \in Sockets, Connected(c) \/ Lost(c) \/ Drained(c) \/ Write(c)
    PROVE  ClInv'
<1>0. /\ ClType /\ SocketsEnd /\ OneAttempt /\ LossesCounted /\ KeepsReconnecting
      /\ MaxRetry \in Nat
  BY Zenon, ClientAssumption DEF ClInv, ClientAssumption
<1>1. c \in 1 .. Len(cstatus) /\ c \in 1 .. Len(iostate) /\ c \in 1 .. Len(backlog)
  BY Zenon, <1>0 DEF ClType, Sockets
<1>2. iostate[c] # "closed"
  BY Zenon, <1>0 DEF Connected, Lost, Drained, Write, SocketsEnd
<1>3. c = channel /\ channel # None /\ rtimers = 0
  BY Zenon, <1>2, LiveIsChannel
<1>4. \A i \in 1 .. Len(posted) : posted[i] = "start" => cstatus[c] = "OPENED"
  BY Zenon, <1>0, <1>2, <1>3 DEF OneAttempt, Resting
<1>5. CASE Connected(c)
  <2>1. /\ cstatus[c] = "CONNECTING" /\ iostate[c] = "open" /\ cstatus' = [cstatus EXCEPT ![c] = "CONNECTED"]
        /\ cur_retry_cnt' = 0 /\ lost' = 0
        /\ UNCHANGED << channel, iostate, backlog, reconn, rtimers, posted, ended >>
    BY Zenon, <1>5 DEF Connected
  <2>2. /\ cstatus' \in Seq(CStatus) /\ Len(cstatus') = Len(cstatus) /\ cstatus'[c] = "CONNECTED"
        /\ \A d \in Sockets : d # c => cstatus'[d] = cstatus[d]
    BY SMTT(20), <1>0, <1>1, <2>1, Put DEF ClType, CStatus, Sockets
  <2>3. Sockets' = Sockets
    BY Zenon, <2>2 DEF Sockets
  <2>4. ClType'
    BY Zenon, <1>0, <2>1, <2>2 DEF ClType
  <2>5. SocketsEnd'
    BY ZenonT(30), <1>0, <2>1, <2>2, <2>3 DEF SocketsEnd
  <2>6. OneAttempt'
    BY Zenon, <1>0, <1>3, <1>4, <2>1 DEF OneAttempt
  <2>7. LossesCounted' /\ KeepsReconnecting'
    BY SMTT(20), <1>0, <1>3, <2>1 DEF LossesCounted, KeepsReconnecting
  <2> QED  BY Zenon, <2>4, <2>5, <2>6, <2>7 DEF ClInv
<1>6. CASE Lost(c)
  <2>1. /\ cstatus[c] \in {"CONNECTING", "CONNECTED"} /\ iostate[c] = "open"
        /\ cstatus' = [cstatus EXCEPT ![c] = "CLOSED"] /\ iostate' = [iostate EXCEPT ![c] = "closed"]
        /\ backlog' = [backlog EXCEPT ![c] = FALSE]
        /\ lost' = (IF lost > MaxRetry THEN lost ELSE lost + 1)
        /\ cur_retry_cnt' = (IF reconn THEN cur_retry_cnt + 1 ELSE 0)
        /\ rtimers' = (IF reconn /\ cur_retry_cnt' <= MaxRetry THEN rtimers + 1 ELSE rtimers)
        /\ UNCHANGED << channel, reconn, posted, ended >>
    BY Zenon, <1>6 DEF Lost, OnClose
  <2>2. /\ cstatus' \in Seq(CStatus) /\ Len(cstatus') = Len(cstatus) /\ cstatus'[c] = "CLOSED"
        /\ \A d \in Sockets : d # c => cstatus'[d] = cstatus[d]
    BY SMTT(20), <1>0, <1>1, <2>1, Put DEF ClType, CStatus, Sockets
  <2>3. /\ iostate' \in Seq(IoStates) /\ Len(iostate') = Len(iostate) /\ iostate'[c] = "closed"
        /\ \A d \in Sockets : d # c => iostate'[d] = iostate[d]
    BY SMTT(20), <1>0, <1>1, <2>1, Put DEF ClType, IoStates, Sockets
  <2>4. /\ backlog' \in Seq(BOOLEAN) /\ Len(backlog') = Len(backlog) /\ backlog'[c] = FALSE
        /\ \A d \in Sockets : d # c => backlog'[d] = backlog[d]
    <3>1. backlog \in Seq(BOOLEAN) /\ FALSE \in BOOLEAN /\ Sockets = 1 .. Len(backlog)
      BY Zenon, <1>0 DEF ClType, Sockets
    <3>2. /\ backlog' \in Seq(BOOLEAN) /\ Len(backlog') = Len(backlog) /\ backlog'[c] = FALSE
          /\ \A d \in 1 .. Len(backlog) : d # c => backlog'[d] = backlog[d]
      BY SMTT(20), <1>1, <2>1, <3>1, Put
    <3> QED  BY Zenon, <3>1, <3>2
  <2>5. Sockets' = Sockets
    BY Zenon, <2>2 DEF Sockets
  <2>6. /\ lost \in Nat /\ cur_retry_cnt \in Nat /\ (lost <= MaxRetry => cur_retry_cnt <= lost)
    BY Zenon, <1>0 DEF ClType, LossesCounted
  <2>7. /\ lost' \in Nat /\ cur_retry_cnt' \in Nat /\ rtimers' \in {0, 1}
        /\ lost' <= MaxRetry => cur_retry_cnt' <= lost'
        /\ reconn /\ lost' <= MaxRetry => rtimers' = 1
    BY SMTT(20), <1>0, <1>3, <2>1, <2>6
  <2>8. ClType'
    BY SMTT(20), <1>0, <2>1, <2>2, <2>3, <2>4, <2>7 DEF ClType
  <2>9. SocketsEnd'
    BY SMTT(20), <1>0, <2>1, <2>2, <2>3, <2>4, <2>5 DEF SocketsEnd
  <2>10. OneAttempt'
    <3>1. ~ended
      BY Zenon, <1>0, <1>3, <2>1 DEF OneAttempt
    <3>2. \A i \in 1 .. Len(posted') : posted'[i] # "start"
      BY Zenon, <1>4, <2>1
    <3> QED  BY SMTT(20), <1>3, <2>1, <2>3, <2>7, <3>1, <3>2 DEF OneAttempt
  <2>11. LossesCounted' /\ KeepsReconnecting'
    BY SMTT(20), <1>0, <1>3, <2>1, <2>7 DEF LossesCounted, KeepsReconnecting
  <2> QED  BY Zenon, <2>8, <2>9, <2>10, <2>11 DEF ClInv
<1>7. ASSUME NEW b \in BOOLEAN, backlog' = [backlog EXCEPT ![c] = b]
      PROVE  /\ backlog' \in Seq(BOOLEAN) /\ Len(backlog') = Len(backlog) /\ backlog'[c] = b
             /\ \A d \in Sockets : d # c => backlog'[d] = backlog[d]
  <2>1. backlog \in Seq(BOOLEAN) /\ Sockets = 1 .. Len(backlog)
    BY Zenon, <1>0 DEF ClType, Sockets
  <2>2. /\ backlog' \in Seq(BOOLEAN) /\ Len(backlog') = Len(backlog) /\ backlog'[c] = b
        /\ \A d \in 1 .. Len(backlog) : d # c => backlog'[d] = backlog[d]
    BY SMTT(20), <1>1, <1>7, <2>1, Put
  <2> QED  BY Zenon, <2>1, <2>2
<1>8. CASE Drained(c) /\ iostate[c] = "closing"
  <2>1. /\ backlog' = [backlog EXCEPT ![c] = FALSE] /\ iostate' = [iostate EXCEPT ![c] = "closed"]
        /\ OnClose(reconn) /\ UNCHANGED << channel, cstatus, reconn, posted, nofd, lost, ended >>
    BY Zenon, <1>8 DEF Drained
  <2>2. ~reconn
    BY Zenon, <1>0, <1>8 DEF SocketsEnd
  <2>3. cur_retry_cnt' = 0 /\ rtimers' = rtimers
    BY Zenon, <2>1, <2>2 DEF OnClose
  <2>4. /\ iostate' \in Seq(IoStates) /\ Len(iostate') = Len(iostate) /\ iostate'[c] = "closed"
        /\ \A d \in Sockets : d # c => iostate'[d] = iostate[d]
    BY SMTT(20), <1>0, <1>1, <2>1, Put DEF ClType, IoStates, Sockets
  <2>5. /\ backlog' \in Seq(BOOLEAN) /\ Len(backlog') = Len(backlog) /\ backlog'[c] = FALSE
        /\ \A d \in Sockets : d # c => backlog'[d] = backlog[d]
    BY <1>7, <2>1, Zenon
  <2>6. Sockets' = Sockets
    BY Zenon, <2>1 DEF Sockets
  <2>7. ClType'
    BY Zenon, <1>0, <2>1, <2>3, <2>4, <2>5 DEF ClType
  <2>8. SocketsEnd'
    BY SMTT(20), <1>0, <1>8, <2>1, <2>4, <2>5, <2>6 DEF SocketsEnd
  <2>9. OneAttempt'
    BY Zenon, <1>0, <1>3, <2>1, <2>3, <2>4 DEF OneAttempt, Resting
  <2>10. LossesCounted' /\ KeepsReconnecting'
    BY SMTT(20), <1>0, <2>1, <2>2, <2>3 DEF LossesCounted, KeepsReconnecting, ClType
  <2> QED  BY Zenon, <2>7, <2>8, <2>9, <2>10 DEF ClInv
<1>9. CASE (Drained(c) /\ iostate[c] # "closing") \/ Write(c)
  <2>1. /\ UNCHANGED << channel, cstatus, reconn, cur_retry_cnt, rtimers, posted, nofd, lost, ended >>
        /\ iostate' = iostate \/ iostate' = [iostate EXCEPT ![c] = iostate[c]]
    BY Zenon, <1>9 DEF Drained, Write
  <2>2. iostate' = iostate
    BY SMTT(20), <1>0, <1>1, <2>1 DEF ClType
  <2>3. PICK b \in BOOLEAN : backlog' = [backlog EXCEPT ![c] = b]
    BY <1>9, Zenon DEF Drained, Write
  <2>4. /\ backlog' \in Seq(BOOLEAN) /\ Len(backlog') = Len(backlog) /\ backlog'[c] = b
        /\ \A d \in Sockets : d # c => backlog'[d] = backlog[d]
    BY <1>7, <2>3, Zenon
  <2>5. cstatus[c] = "CONNECTED"
    BY Zenon, <1>0, <1>9 DEF Drained, Write, SocketsEnd
  <2>6. Sockets' = Sockets
    BY Zenon, <2>1 DEF Sockets
  <2>7. ClType'
    BY Zenon, <1>0, <2>1, <2>2, <2>4 DEF ClType
  <2>8. SocketsEnd'
    BY Zenon, <1>0, <2>1, <2>2, <2>4, <2>5, <2>6 DEF SocketsEnd
  <2>9. OneAttempt'
    BY Zenon, <1>0, <2>1, <2>2 DEF OneAttempt, Resting
  <2>10. LossesCounted' /\ KeepsReconnecting'
    BY Zenon, <1>0, <2>1 DEF LossesCounted, KeepsReconnecting, Connecting
  <2> QED  BY Zenon, <2>7, <2>8, <2>9, <2>10 DEF ClInv
<1> QED  BY Zenon, <1>5, <1>6, <1>8, <1>9

\* What the application calls.
LEMMA ApplicationInv ==
    ASSUME Patient, ClInv, CreateSocket \/ Start \/ Closesocket \/ SetReconnect
    PROVE  ClInv'
<1>0. ClType /\ SocketsEnd /\ OneAttempt /\ LossesCounted /\ KeepsReconnecting
  BY Zenon DEF ClInv
<1>1. CASE CreateSocket
  <2>1. /\ channel = None /\ posted = << >> /\ cstatus' = << "OPENED" >> /\ iostate' = << "open" >>
        /\ backlog' = << FALSE >> /\ channel' = 1
        /\ UNCHANGED << reconn, cur_retry_cnt, rtimers, posted, nofd, lost, ended >>
    BY Zenon, <1>1 DEF CreateSocket
  <2>2. /\ cstatus' \in Seq(CStatus) /\ Len(cstatus') = 1 /\ cstatus'[1] = "OPENED"
        /\ iostate' \in Seq(IoStates) /\ Len(iostate') = 1 /\ iostate'[1] = "open"
    BY SMTT(20), <2>1 DEF CStatus, IoStates
  <2>3. backlog' \in Seq(BOOLEAN) /\ Len(backlog') = 1 /\ backlog'[1] = FALSE
    <3>1. << FALSE >> \in Seq(BOOLEAN) /\ Len(<< FALSE >>) = 1 /\ << FALSE >>[1] = FALSE
      BY SMTT(20)
    <3> QED  BY Zenon, <2>1, <3>1
  <2>4. Sockets' = {1} /\ lost = 0 /\ rtimers = 0 /\ ~ended /\ Len(posted) = 0
    BY SMTT(20), <1>0, <2>1, <2>2 DEF Sockets, LossesCounted, OneAttempt
  <2>5. ClType'
    BY Zenon, <1>0, <2>1, <2>2, <2>3 DEF ClType
  <2>6. SocketsEnd'
    BY Zenon, <2>1, <2>2, <2>3, <2>4 DEF SocketsEnd
  <2>7. OneAttempt'
    BY SMTT(20), <2>1, <2>4 DEF OneAttempt
  <2>8. LossesCounted' /\ KeepsReconnecting'
    BY SMTT(20), <1>0, <2>1, <2>4 DEF LossesCounted, KeepsReconnecting, None
  <2> QED  BY Zenon, <2>5, <2>6, <2>7, <2>8 DEF ClInv
<1>2. ASSUME UNCHANGED << channel, cstatus, iostate, backlog, reconn, cur_retry_cnt, rtimers, nofd, lost >>,
             ended' \in BOOLEAN, NEW f \in {"start", "close"}, posted' = Append(posted, f), OneAttempt'
      PROVE  ClInv'
  <2>1. posted' \in Seq({"start", "close"}) /\ posted' # << >>
    BY SMTT(20), <1>0, <1>2 DEF ClType
  <2>2. ClType' /\ SocketsEnd'
    BY Zenon, <1>0, <1>2, <2>1 DEF ClType, SocketsEnd, Sockets
  <2>3. LossesCounted' /\ KeepsReconnecting'
    BY Zenon, <1>0, <1>2, <2>1 DEF LossesCounted, KeepsReconnecting
  <2> QED  BY Zenon, <1>2, <2>2, <2>3 DEF ClInv
<1>3. CASE Start
  <2>1. /\ posted = << >> /\ rtimers = 0 /\ Resting /\ posted' = Append(posted, "start") /\ ended' = FALSE
        /\ UNCHANGED << channel, cstatus, iostate, backlog, reconn, cur_retry_cnt, rtimers, nofd, lost >>
    BY Zenon, <1>3 DEF Start, Resting
  <2>2. Len(posted') = 1
    BY SMTT(20), <2>1
  <2>3. Resting'
    BY Zenon, <2>1 DEF Resting
  <2>4. OneAttempt'
    BY SMTT(20), <2>1, <2>2, <2>3 DEF OneAttempt
  <2> QED  BY <1>2, <2>1, <2>4, Zenon
<1>4. CASE Closesocket
  <2>1. /\ posted' = Append(posted, "close")
        /\ UNCHANGED << channel, cstatus, iostate, backlog, reconn, cur_retry_cnt, rtimers, nofd, lost, ended >>
    BY Zenon, <1>4 DEF Closesocket
  <2>2. /\ Len(posted') = Len(posted) + 1 /\ Len(posted) \in Nat /\ posted'[Len(posted) + 1] = "close"
        /\ \A i \in 1 .. Len(posted) : posted'[i] = posted[i]
    BY SMTT(20), <1>0, <2>1, Added DEF ClType
  <2>3. \A i \in 1 .. Len(posted') : posted'[i] = "start" => i \in 1 .. Len(posted) /\ posted[i] = "start"
    BY SMTT(20), <2>2
  <2>4. Resting' <=> Resting
    BY Zenon, <2>1 DEF Resting
  <2>5. OneAttempt'
    BY Zenon, <1>0, <2>1, <2>3, <2>4 DEF OneAttempt
  <2>6. ended' \in BOOLEAN
    BY Zenon, <1>0, <2>1 DEF ClType
  <2> QED  BY Zenon, <1>2, <2>1, <2>5, <2>6
<1>5. CASE SetReconnect
  <2>1. /\ posted = << >> /\ (channel # None => iostate[channel] = "closed")
        /\ reconn' = TRUE /\ cur_retry_cnt' = 0 /\ lost' = 0
        /\ UNCHANGED << channel, cstatus, iostate, backlog, rtimers, posted, nofd, ended >>
    BY Zenon, <1>5 DEF SetReconnect
  <2>2. \A c \in Sockets : iostate[c] = "closed"
    BY SMTT(20), <1>0, <2>1 DEF SocketsEnd, Sockets, ClType, None
  <2>3. ClType'
    BY Zenon, <1>0, <2>1 DEF ClType
  <2>4. SocketsEnd' /\ OneAttempt'
    BY Zenon, <1>0, <2>1, <2>2 DEF SocketsEnd, OneAttempt, Sockets, Resting
  <2>5. LossesCounted' /\ KeepsReconnecting'
    BY SMTT(20), <1>0, <2>1 DEF LossesCounted, KeepsReconnecting
  <2> QED  BY Zenon, <2>3, <2>4, <2>5 DEF ClInv
<1> QED  BY Zenon, <1>1, <1>3, <1>4, <1>5

(***************************************************************************)
(* A client whose application starts it again only when its last socket    *)
(* has gone and no reconnection is due never holds two sockets, gives up   *)
(* reconnecting only after max_retry_cnt losses in a row (or when no       *)
(* socket could be made), and after closesocket sets no reconnect timer    *)
(* until it is started again (TcpClient.h:60-220).                         *)
(***************************************************************************)
THEOREM TcpClientReconnects == ASSUME Patient PROVE ClSpec => []ReconnectsAsAsked
<1>1. ClInv /\ [ClNext]_clvars => ClInv'
  <2> SUFFICES ASSUME ClInv, [ClNext]_clvars  PROVE ClInv'
    BY Zenon
  <2>1. CASE UNCHANGED clvars
    BY Zenon, <2>1 DEF clvars, ClInv, ClType, SocketsEnd, Sockets, OneAttempt, Resting, LossesCounted,
                KeepsReconnecting, Connecting
  <2>2. CASE ClNext
    BY Zenon, <2>2, NetworkInv, ApplicationInv, LoopInv DEF ClNext
  <2> QED  BY Zenon, <2>1, <2>2
<1>2. ClInv => ReconnectsAsAsked
  BY Zenon, LiveIsChannel DEF ReconnectsAsAsked, ClInv, OneAttempt, OneLiveSocket, EndedStaysEnded
<1> QED  BY <1>1, <1>2, ClientInit, PTL DEF ClSpec
=============================================================================
