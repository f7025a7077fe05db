----------------------------- MODULE TcpServer -----------------------------
(***************************************************************************)
(* evpp/TcpServer.h over EventLoopThreadPool, Channel and the io tables of *)
(* the loops (hio_detach, hio_attach, hio_free): the acceptor's loop hands *)
(* each connection to a worker's loop, which makes a channel for it; user  *)
(* threads broadcast over the table of channels; stop ends the threads.    *)
(*                                                                         *)
(* The hio_t of a connection is named by the connection's number: with     *)
(* worker threads nio_accept finds an empty slot (the last hio_t was       *)
(* detached) and allocates one.  A worker's loop is a thread that takes    *)
(* one functor or event at a time; how functors get to it is in LoopPost,  *)
(* and what one hio_t does in HioStream.                                   *)
(***************************************************************************)
EXTENDS Integers, Sequences, FiniteSets

CONSTANTS
    NumWorkers,     \* worker_threads.threadNum()
    MaxConnections, \* max_connections
    Fds,            \* descriptors the kernel may hand out
    MaxConn,        \* bound on the connections accepted
    Broadcasters,   \* user threads that call broadcast
    MaxBroadcasts,  \* bound on the broadcasts of one thread
    NoThread

ASSUME ServerAssumption ==
    /\ NumWorkers \in Nat \ {0} /\ MaxConnections \in Nat /\ MaxConn \in Nat
    /\ MaxBroadcasts \in Nat /\ IsFiniteSet(Broadcasters)
    /\ Fds \subseteq Nat \ {0} /\ NoThread \notin Broadcasters

Workers == 0 .. NumWorkers - 1
Conns   == 1 .. MaxConn

VARIABLES
    stage,         \* per connection, how far its hio_t is
    fd, worker,    \* its descriptor, and the loop it was given to
    queue,         \* per worker, newConnEvent functors on their way
    ios,           \* per worker, loop->ios: the hio_t in the slot of a descriptor, or 0
    channels,      \* the server's table of channels
    connectionNum, \* per worker, EventLoop::connectionNum
    next_loop_idx, \* EventLoopThreadPool::next_loop_idx_
    mutex,         \* holder of the server's mutex_
    is_loop_owner, \* does TcpServerTmpl own the acceptor's loop?
    acceptor,      \* the acceptor: "running", "closing" (told to stop), "stopped"
    loop_,         \* per worker, EventLoop::loop_: "set", "stopping" (told to stop) or "null"
    wstat,         \* per worker, its thread: "running", "cleanup" (hloop_free), "stopped"
    stopper,       \* where the thread that calls stop is
    todo, bcur,    \* per broadcaster, channels still to visit and the one being written to
    broadcasts,
    crashed        \* a loop that is null or freed was used

conn  == << stage, fd, worker >>
wvars == << queue, ios, connectionNum, loop_, wstat >>
avars == << next_loop_idx, is_loop_owner, acceptor >>
bvars == << mutex, todo, bcur, broadcasts >>
vars  == << conn, wvars, avars, bvars, channels, stopper, crashed >>

Init ==
    /\ stage = [c \in Conns |-> "none"]
    /\ fd = [c \in Conns |-> 0] /\ worker = [c \in Conns |-> 0]
    /\ queue = [w \in Workers |-> << >>]
    /\ ios = [w \in Workers |-> [f \in Fds |-> 0]]
    /\ channels = {}
    /\ connectionNum = [w \in Workers |-> 0]
    /\ next_loop_idx = 0
    /\ mutex = NoThread
    /\ is_loop_owner \in BOOLEAN
    /\ acceptor = "running"
    /\ loop_ = [w \in Workers |-> "set"]
    /\ wstat = [w \in Workers |-> "running"]
    /\ stopper = "idle"
    /\ todo = [t \in Broadcasters |-> {}] /\ bcur = [t \in Broadcasters |-> 0]
    /\ broadcasts = [t \in Broadcasters |-> 0]
    /\ crashed = FALSE

Goto(c, s) == stage' = [stage EXCEPT ![c] = s]

-----------------------------------------------------------------------------
(* The acceptor's thread. *)

LoadBalances == {"RoundRobin", "Random", "LeastConnections"}

\* EventLoopThreadPool::nextLoop: may it return worker w under policy lb?
nextLoop(lb, w) ==
    CASE lb = "RoundRobin" ->
           /\ next_loop_idx' = IF next_loop_idx + 1 >= NumWorkers THEN 0 ELSE next_loop_idx + 1
           /\ w = next_loop_idx'
      [] lb = "Random" -> UNCHANGED next_loop_idx
      [] lb = "LeastConnections" ->
           /\ \A v \in Workers : \/ connectionNum[w] < connectionNum[v]
                                 \/ connectionNum[w] = connectionNum[v] /\ w <= v
           /\ UNCHANGED next_loop_idx

\* A descriptor is the kernel's to give again after closesocket, where hio_close
\* ends; it gives the lowest one that is free.
InUse(f) ==
    \E c \in Conns : fd[c] = f /\ stage[c] \notin {"none", "dropped", "closed", "freed"}

\* nio_accept and onAccept: the connection is detached from this loop, counted
\* for the next worker and posted to it; a loop_ that is gone takes no functor.
\* The policy may have been changed since the last one (setLoadBalance).
onAccept(c, f, w) ==
    /\ acceptor \in {"running", "closing"}
    /\ stage[c] = "none" /\ (c > 1 => stage[c - 1] # "none")
    /\ ~InUse(f) /\ \A g \in Fds : g < f => InUse(g)
    /\ \E lb \in LoadBalances : nextLoop(lb, w)
    /\ fd' = [fd EXCEPT ![c] = f] /\ worker' = [worker EXCEPT ![c] = w]
    /\ connectionNum' = [connectionNum EXCEPT ![w] = @ + 1]
    /\ CASE loop_[w] = "null" -> Goto(c, "lost") /\ UNCHANGED << queue, crashed >>
         [] loop_[w] # "null" /\ wstat[w] # "stopped" ->
              /\ Goto(c, "queued")
              /\ queue' = [queue EXCEPT ![w] = Append(@, c)]
              /\ UNCHANGED crashed
         [] OTHER -> crashed' = TRUE /\ Goto(c, "lost") /\ UNCHANGED queue
    /\ UNCHANGED << ios, loop_, wstat, is_loop_owner, acceptor, bvars, channels,
                    stopper >>

\* A loop the server owns is freed when it has stopped.
AcceptorFreed == is_loop_owner /\ acceptor = "stopped"

\* The close of a refused connection, which newConnEvent posted to this loop.
CloseRefused(c) ==
    /\ ~AcceptorFreed /\ stage[c] = "refused"
    /\ Goto(c, "dropped")
    /\ UNCHANGED << fd, worker, wvars, avars, bvars, channels, stopper, crashed >>

\* The posted close of the listening io, or the end of the server's own loop.
CloseListen ==
    /\ acceptor = "closing"
    /\ acceptor' = "stopped"
    /\ UNCHANGED << conn, wvars, next_loop_idx, is_loop_owner, bvars, channels,
                    stopper, crashed >>

-----------------------------------------------------------------------------
(* A worker's thread. *)

\* Connections a worker is in the middle of: it does one thing at a time.
Busy(w) ==
    \E c \in Conns : worker[c] = w /\ stage[c] \in {"checked", "attached", "closing"}

OverMax == Cardinality(channels) >= MaxConnections

\* newConnEvent starts: over the limit, the hio_t, still of the acceptor's loop,
\* is closed by a post to that loop.
newConnEvent(w) ==
    /\ wstat[w] = "running" /\ ~Busy(w) /\ queue[w] # << >>
    /\ mutex = NoThread
    /\ queue' = [queue EXCEPT ![w] = Tail(@)]
    /\ Goto(Head(queue[w]), IF OverMax THEN "refused" ELSE "checked")
    /\ crashed' = (OverMax /\ AcceptorFreed)
    /\ UNCHANGED << fd, worker, ios, connectionNum, loop_, wstat, avars, bvars, channels, stopper >>

\* Mutant: the slot is only taken when it is empty.
AttachedIfEmpty(c) ==
    [ios EXCEPT ![worker[c]][fd[c]] = IF @ = 0 THEN c ELSE @]

Attached(c) == [ios EXCEPT ![worker[c]][fd[c]] = c]

\* hio_attach: an older hio_t in the slot is freed.  worker_loop->loop() is null
\* when stop has got that far.
hio_attach(c) ==
    LET w == worker[c]
        preio == ios[w][fd[c]]
    IN  /\ stage[c] = "checked"
        /\ IF loop_[w] # "null"
           THEN /\ stage' = [i \in Conns |-> CASE i = c -> "attached" [] i = preio -> "freed"
                                               [] OTHER -> stage[i]]
                /\ ios' = Attached(c)
                /\ UNCHANGED crashed
           ELSE crashed' = TRUE /\ UNCHANGED << stage, ios >>
        /\ UNCHANGED << fd, worker, queue, connectionNum, loop_, wstat, avars, bvars, channels,
                        stopper >>

\* addChannel, startRead and onConnection.
addChannel(c) ==
    /\ stage[c] = "attached" /\ mutex = NoThread
    /\ Goto(c, "open")
    /\ channels' = channels \cup {c}
    /\ UNCHANGED << fd, worker, wvars, avars, bvars, stopper, crashed >>

\* Mutant: the connection stays counted.
UncountedNot(w) == connectionNum

Uncounted(w) == [connectionNum EXCEPT ![w] = @ - 1]

\* hio_close in the worker's thread, for whatever reason, up to the first part of
\* the channel's onclose: closed is set, the loop's count goes down, onConnection.
onclose(c) ==
    /\ stage[c] = "open" /\ ~Busy(worker[c]) /\ wstat[worker[c]] # "stopped"
    /\ Goto(c, "closing")
    /\ connectionNum' = Uncounted(worker[c])
    /\ UNCHANGED << fd, worker, queue, ios, loop_, wstat, avars, bvars, channels, stopper,
                    crashed >>

MayRemove == mutex = NoThread

\* The rest of onclose, where removeChannel waits for mutex_, and of hio_close,
\* which ends with closesocket.
removeChannel(c) ==
    /\ stage[c] = "closing" /\ MayRemove
    /\ Goto(c, "closed")
    /\ channels' = channels \ {c}
    /\ UNCHANGED << fd, worker, wvars, avars, bvars, stopper, crashed >>

\* The loop sees the stop: hloop_run returns and, as it owns itself, hloop_free
\* follows; functors still queued are dropped.
LoopEnds(w) ==
    /\ wstat[w] = "running" /\ loop_[w] # "set" /\ ~Busy(w)
    /\ wstat' = [wstat EXCEPT ![w] = "cleanup"]
    /\ UNCHANGED << conn, queue, ios, connectionNum, loop_, avars, bvars, channels, stopper,
                    crashed >>

\* hloop_cleanup: hio_free on every slot; one that is open is closed first.
hio_free(w, f) ==
    /\ wstat[w] = "cleanup" /\ ios[w][f] # 0 /\ stage[ios[w][f]] = "closed"
    /\ Goto(ios[w][f], "freed")
    /\ ios' = [ios EXCEPT ![w][f] = 0]
    /\ UNCHANGED << fd, worker, queue, connectionNum, loop_, wstat, avars, bvars, channels,
                    stopper, crashed >>

CleanedUp(w) == \A f \in Fds : ios[w][f] = 0

ThreadEnds(w) ==
    /\ wstat[w] = "cleanup" /\ CleanedUp(w)
    /\ wstat' = [wstat EXCEPT ![w] = "stopped"]
    /\ UNCHANGED << conn, queue, ios, connectionNum, loop_, avars, bvars, channels, stopper,
                    crashed >>

-----------------------------------------------------------------------------
(* User threads. *)

\* foreachChannel: mutex_ is held while the channels are visited.
BroadcastBegins(t) ==
    /\ mutex = NoThread /\ broadcasts[t] < MaxBroadcasts
    /\ mutex' = t
    /\ todo' = [todo EXCEPT ![t] = channels]
    /\ broadcasts' = [broadcasts EXCEPT ![t] = @ + 1]
    /\ UNCHANGED << conn, wvars, avars, bcur, channels, stopper, crashed >>

\* Channel::write looks whether the hio_t is open, and then writes to it.
WriteTests(t, c) ==
    /\ mutex = t /\ bcur[t] = 0 /\ c \in todo[t]
    /\ todo' = [todo EXCEPT ![t] = @ \ {c}]
    /\ bcur' = [bcur EXCEPT ![t] = IF stage[c] = "open" THEN c ELSE 0]
    /\ UNCHANGED << conn, wvars, avars, mutex, broadcasts, channels, stopper, crashed >>

Writes(t) ==
    /\ bcur[t] # 0
    /\ bcur' = [bcur EXCEPT ![t] = 0]
    /\ UNCHANGED << conn, wvars, avars, mutex, todo, broadcasts, channels, stopper, crashed >>

BroadcastEnds(t) ==
    /\ mutex = t /\ todo[t] = {} /\ bcur[t] = 0
    /\ mutex' = NoThread
    /\ UNCHANGED << conn, wvars, avars, todo, bcur, broadcasts, channels, stopper, crashed >>

\* stop: the server's own acceptor loop is stopped, or closesocket posts the close
\* of the listening io to a loop that goes on.
stop ==
    /\ stopper = "idle"
    /\ stopper' = "acceptor"
    /\ acceptor' = "closing"
    /\ UNCHANGED << conn, wvars, next_loop_idx, is_loop_owner, bvars, channels,
                    crashed >>

\* Only a thread of the server's own is joined.
JoinAcceptor ==
    /\ stopper = "acceptor" /\ (is_loop_owner => acceptor = "stopped")
    /\ stopper' = "workers"
    /\ UNCHANGED << conn, wvars, avars, bvars, channels, crashed >>

\* Mutant: off by one.
StoppedThreadsButOne == 1 .. NumWorkers - 1

StoppedThreads == 0 .. NumWorkers - 1

\* EventLoopThreadPool::stop: EventLoop::stop of each worker in turn stops its
\* loop ...
StopWorker(w) ==
    /\ stopper = "workers" /\ w \in StoppedThreads /\ loop_[w] = "set"
    /\ \A v \in Workers : v < w => loop_[v] = "null"
    /\ loop_' = [loop_ EXCEPT ![w] = "stopping"]
    /\ UNCHANGED << conn, queue, ios, connectionNum, wstat, avars, bvars, channels, stopper,
                    crashed >>

\* ... and then forgets it.
ForgetWorker(w) ==
    /\ loop_[w] = "stopping"
    /\ loop_' = [loop_ EXCEPT ![w] = "null"]
    /\ UNCHANGED << conn, queue, ios, connectionNum, wstat, avars, bvars, channels, stopper,
                    crashed >>

\* Every worker's thread is joined.
JoinWorkers ==
    /\ stopper = "workers" /\ \A w \in Workers : loop_[w] = "null" /\ wstat[w] = "stopped"
    /\ stopper' = "done"
    /\ UNCHANGED << conn, wvars, avars, bvars, channels, crashed >>

-----------------------------------------------------------------------------

AcceptorStep == CloseListen \/ \E c \in Conns : CloseRefused(c)

ConnStep(c) == hio_attach(c) \/ addChannel(c) \/ removeChannel(c)

\* In cleanup the worker closes what is open; before, the peer or user code may.
WorkerStep(w) ==
    \/ newConnEvent(w) \/ LoopEnds(w) \/ ThreadEnds(w)
    \/ \E f \in Fds : hio_free(w, f)
    \/ \E c \in Conns : worker[c] = w /\ ConnStep(c)
    \/ wstat[w] = "cleanup" /\ \E c \in Conns : worker[c] = w /\ onclose(c)

BroadcastStep(t) == Writes(t) \/ BroadcastEnds(t) \/ \E c \in Conns : WriteTests(t, c)

StopStep == JoinAcceptor \/ JoinWorkers \/ \E w \in Workers : StopWorker(w) \/ ForgetWorker(w)

Next ==
    /\ ~crashed
    /\ \/ \E c \in Conns, f \in Fds, w \in Workers : onAccept(c, f, w)
       \/ AcceptorStep
       \/ \E w \in Workers : WorkerStep(w)
       \/ \E c \in Conns : onclose(c)
       \/ \E t \in Broadcasters : BroadcastBegins(t) \/ BroadcastStep(t)
       \/ stop \/ StopStep

Spec == Init /\ [][Next]_vars

-----------------------------------------------------------------------------

\* Type invariant.
TypeOK ==
    /\ stage \in [Conns -> {"none", "queued", "lost", "checked", "refused", "dropped", "attached",
                            "open", "closing", "closed", "freed"}]
    /\ worker \in [Conns -> Workers]
    /\ \A w \in Workers : \A i \in DOMAIN queue[w] : queue[w][i] \in Conns
    /\ ios \in [Workers -> [Fds -> 0 .. MaxConn]]
    /\ connectionNum \in [Workers -> Nat] /\ next_loop_idx \in Workers
    /\ mutex \in Broadcasters \cup {NoThread}

\* The slot of a worker's io table holds the connection that uses the descriptor
\* until closesocket: hio_attach never frees an hio_t that is in use, and each one
\* that is open will be found by hloop_cleanup.
SlotHolds ==
    \A c \in Conns : stage[c] \in {"attached", "open", "closing"}
                        => ios[worker[c]][fd[c]] = c

\* broadcast, in any thread, never writes to an hio_t that was freed: onclose
\* waits for mutex_ before the descriptor is closed and can come back.
NoWriteToFreed ==
    \A t \in Broadcasters : bcur[t] # 0 => stage[bcur[t]] \in {"open", "closing"}

\* max_connections is exceeded by no more than the connections other workers have
\* let in between the test and addChannel.
WithinMax == Cardinality(channels) <= MaxConnections + NumWorkers - 1

\* A loop's connectionNum counts the connections that are on their way to it or
\* open in it - and the ones it refused, which are never uncounted.
LoadCounted ==
    \A w \in Workers :
        connectionNum[w] =
            Cardinality({c \in Conns : /\ worker[c] = w
                                       /\ stage[c] \in {"queued", "lost", "checked", "attached",
                                                         "open", "refused", "dropped"}})

\* When stop has returned, no channel and no attached hio_t is left.
StopReleases ==
    stopper = "done" =>
        /\ channels = {}
        /\ \A c \in Conns : stage[c] \notin {"checked", "attached", "open", "closing"}

\* What the threads do by themselves, without a peer or a caller.
ThreadStep ==
    \/ StopStep \/ CloseListen
    \/ \E w \in Workers : WorkerStep(w)
    \/ \E t \in Broadcasters : BroadcastStep(t)

\* stop never hangs: until it returns, the threads it joins, the broadcasts that
\* hold mutex_ meanwhile or stop itself can go on.  Each such step takes a
\* connection, a broadcast or a thread nearer to its end.  (A run that ends in the
\* use of a null or freed loop goes no further.)
StopNeverHangs ==
    stopper \in {"acceptor", "workers"} /\ ~crashed => ENABLED ThreadStep

(***************************************************************************)
(* A connection in use is the one its worker finds in the slot of its      *)
(* descriptor, and a broadcast writes only to one that is not freed.       *)
(***************************************************************************)
ServedFromItsSlot == SlotHolds /\ NoWriteToFreed

(***************************************************************************)
(* connectionNum of each worker counts what it was given and has not let   *)
(* go, and max_connections is exceeded only by accepts that race each      *)
(* other, one per worker (TcpServer.h:185-230).                            *)
(***************************************************************************)
LoadKnown == TypeOK /\ LoadCounted /\ WithinMax
=============================================================================
