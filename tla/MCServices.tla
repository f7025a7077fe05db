----------------------------- MODULE MCServices -----------------------------
(***************************************************************************)
(* The utilities and protocol clients built on the loop, each explored on  *)
(* its own from an initial state that chooses one of them: the growable    *)
(* queue, the thread pool, the object pool, the loop thread, the HTTP      *)
(* client's connection pool, the MQTT client, the topic tree of the MQTT   *)
(* server, and a connection of the HTTP server ("handler").                *)
(***************************************************************************)
EXTENDS HvQueue, HThreadPool, ObjectPool, EvLoopThread, HttpClientPool, MqttClient, TopicTree, TLC

VARIABLES
    part,       \* the component this behaviour is about
    sent, parsed, feeding, conn, use, protocol, state, error, keepalive, writer, resp, async_calls,
    file, content_length, heartbeat, out, nhandled, cut, silenced

handlervars == << sent, parsed, feeding, conn, use, protocol, state, error, keepalive, writer, resp,
                  async_calls, file, content_length, heartbeat, out, nhandled, cut, silenced >>

\* Two requests of any kinds; the client waits for an answer that may be late.
Handler == INSTANCE HttpHandler
    WITH tasks <- async_calls, handled <- nhandled, MaxRequests <- 2, MaxPieces <- 2, MaxUses <- 2,
         Pipelining <- FALSE, Overtaking <- FALSE,
         Kinds <- {"sync", "expect", "reject", "drop", "end", "chunks", "response", "file", "slow",
                   "ws", "other"}

ASSUME TpAssumption

\* The threads of the pool are alike, and so are those that commit tasks.
Symmetry == Permutations(Threads) \cup Permutations(Committers)

\* Exact fit and one that grows.
MCInitSizes == {2, 3}

\* Filters with both wildcards, and topics below, at and beside their levels.
MCFilters == {<< "+" >>, << "a", "#" >>, << "+", "b" >>}
MCTopics == {<< "a" >>, << "a", "b" >>}

Parts == {"queue", "pool", "objects", "thread", "http", "mqtt", "topics", "handler"}

MCInit ==
    /\ part \in Parts
    /\ objects_ \in IF part = "objects" THEN SUBSET Object ELSE {{}}
    /\ bySelf \in IF part = "thread" THEN BOOLEAN ELSE {FALSE}
    /\ retry \in IF part = "http" THEN [Task -> 0 .. RetryCount] ELSE {[t \in Task |-> 0]}
    /\ hops \in IF part = "http" THEN [Task -> 0 .. MaxHops] ELSE {[t \in Task |-> 0]}
    /\ reconn \in IF part = "mqtt" THEN BOOLEAN ELSE {FALSE}
    /\ Init /\ TpInit /\ OpInit /\ EvInit /\ HcInit /\ MqInit /\ TtInit /\ Handler!HhInit

\* The variables of the components of ps stay as they are.
Rest(ps) ==
    /\ UNCHANGED part
    /\ "queue" \in ps => UNCHANGED vars
    /\ "pool" \in ps => UNCHANGED tpvars
    /\ "objects" \in ps => UNCHANGED opvars
    /\ "thread" \in ps => UNCHANGED evvars
    /\ "http" \in ps => UNCHANGED hcvars
    /\ "mqtt" \in ps => UNCHANGED mqvars
    /\ "topics" \in ps => UNCHANGED ttvars
    /\ "handler" \in ps => UNCHANGED handlervars

MCNext ==
    \/ part = "queue" /\ Next /\ Rest(Parts \ {"queue"})
    \/ part = "pool" /\ TpNext /\ Rest(Parts \ {"pool"})
    \/ part = "objects" /\ OpNext /\ Rest(Parts \ {"objects"})
    \/ part = "thread" /\ EvNext /\ Rest(Parts \ {"thread"})
    \/ part = "http" /\ HcNext /\ Rest(Parts \ {"http"})
    \/ part = "mqtt" /\ MqNext /\ Rest(Parts \ {"mqtt"})
    \/ part = "topics" /\ TtNext /\ Rest(Parts \ {"topics"})
    \/ part = "handler" /\ Handler!HhNext /\ Rest(Parts \ {"handler"})

MCSpec == MCInit /\ [][MCNext]_<< part, vars, tpvars, opvars, evvars, hcvars, mqvars, ttvars, handlervars >>

-----------------------------------------------------------------------------

(***************************************************************************)
(* A stop that arrives once the loop has run is heard, so that the join    *)
(* ends, and the hloop_t is freed once nobody uses it any more             *)
(* (EventLoop.h:49-71, EventLoopThread.h:43-106).                          *)
(***************************************************************************)
LoopThreadStops == part = "thread" => StopIsHeard /\ FreedAfterLastUse

(***************************************************************************)
(* Publishing reaches each live subscriber of a matching filter once, with *)
(* the QoS granted, and a new subscriber is given the retained messages    *)
(* its filter matches and no others (topic_tree.cpp:187-277, 426-506).     *)
(***************************************************************************)
TopicsMatch == part = "topics" => ReachesMatching /\ RetainedMatching

(***************************************************************************)
(* The answers of the HTTP server leave in the order of the requests, each *)
(* whole and from its own handler, although handlers in other threads      *)
(* share the writer with the io thread, and reads cut and join requests    *)
(* anywhere (HttpHandler.cpp:111-370, HttpResponseWriter.cpp).             *)
(***************************************************************************)
ResponsesInOrder == part = "handler" => Handler!ResponsesInOrder

(***************************************************************************)
(* Nothing is owed when nothing is going on: what was read is answered,    *)
(* the connection is open exactly if no request of it asked otherwise, and *)
(* a file that is being sent has what carries it on.                       *)
(***************************************************************************)
NothingOwed == part = "handler" => Handler!NothingOwed
=============================================================================
