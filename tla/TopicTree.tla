----------------------------- MODULE TopicTree ------------------------------
(***************************************************************************)
(* The MQTT broker's topic tree (mqtt/topic_tree.cpp) and the packets of   *)
(* mqtt/mqtt_server.cpp that use it.  A topic or filter is the sequence of *)
(* its levels, as split_topic cuts it; a node of the tree is named by the  *)
(* levels that lead to it.  Nodes hold weak references to sessions, which  *)
(* end without unsubscribing.  Every operation holds the tree's mutex.     *)
(***************************************************************************)
EXTENDS Integers, Sequences, FiniteSets

CONSTANTS
    Session,      \* sessions that ever connect
    Filters,      \* topic filters in use
    Topics,       \* topics in use
    QoS

ASSUME TopicTreeAssumption ==
    /\ Filters \cup Topics \subseteq Seq(STRING) /\ IsFiniteSet(Session) /\ QoS \subseteq 0 .. 2

VARIABLES
    nodes,        \* the nodes there are, the root << >> among them
    subscribers,  \* node -> set of [session, qos]
    retained,     \* node -> TRUE when it has a retained message
    alive,        \* sessions whose weak_ptr has not expired
    granted,      \* ghost: session -> filter -> QoS last granted, or -1
    kept          \* ghost: topics whose last retained publish was not empty

ttvars == << nodes, subscribers, retained, alive, granted, kept >>

Prefixes(p) == {SubSeq(p, 1, n) : n \in 0 .. Len(p)}
AnyNode == UNION {Prefixes(p) : p \in Filters \cup Topics}

TtInit ==
    /\ nodes = {<< >>}
    /\ subscribers = [n \in AnyNode |-> {}]
    /\ retained = [n \in AnyNode |-> FALSE]
    /\ alive = Session
    /\ granted = [s \in Session |-> [f \in Filters |-> -1]]
    /\ kept = {}

(***************************************************************************)
(* Validation.                                                             *)
(***************************************************************************)
IsValidTopic(tokens, wildcards) ==
    /\ tokens # << >>
    /\ \A i \in 1 .. Len(tokens) :
          /\ tokens[i] \in {"+", "#"} => wildcards
          /\ tokens[i] = "#" => i = Len(tokens)

(***************************************************************************)
(* Subscriptions.                                                          *)
(***************************************************************************)
\* Mutant: a repeated subscription is added beside the first.
SubscribeTwice(s, f, q) ==
    /\ s \in alive /\ IsValidTopic(f, TRUE)
    /\ nodes' = nodes \cup Prefixes(f)
    /\ subscribers' = [subscribers EXCEPT ![f] = @ \cup {[session |-> s, qos |-> q]}]
    /\ granted' = [granted EXCEPT ![s][f] = q]
    /\ UNCHANGED << retained, alive, kept >>

\* SUBSCRIBE: the nodes are created; an earlier subscription is replaced.
Subscribe(s, f, q) ==
    /\ s \in alive /\ IsValidTopic(f, TRUE)
    /\ nodes' = nodes \cup Prefixes(f)
    /\ subscribers' = [subscribers EXCEPT ![f] = {e \in @ : e.session # s} \cup {[session |-> s, qos |-> q]}]
    /\ granted' = [granted EXCEPT ![s][f] = q]
    /\ UNCHANGED << retained, alive, kept >>

Unsubscribe(s, f) ==
    /\ s \in alive /\ IsValidTopic(f, TRUE) /\ f \in nodes
    /\ subscribers' = [subscribers EXCEPT ![f] = {e \in @ : e.session # s}]
    /\ granted' = [granted EXCEPT ![s][f] = -1]
    /\ UNCHANGED << nodes, retained, alive, kept >>

\* The session's channel is gone; its entries stay in the tree.
SessionEnds(s) ==
    /\ alive' = alive \ {s}
    /\ UNCHANGED << nodes, subscribers, retained, granted, kept >>

CleanExpiredSubscriptions ==
    /\ subscribers' = [n \in AnyNode |-> {e \in subscribers[n] : e.session \in alive}]
    /\ UNCHANGED << nodes, retained, alive, granted, kept >>

(***************************************************************************)
(* Retained messages: PUBLISH with the retain flag; an empty payload       *)
(* clears, but creates the node too.                                       *)
(***************************************************************************)
SetRetained(t, empty) ==
    /\ IsValidTopic(t, FALSE)
    /\ nodes' = nodes \cup Prefixes(t)
    /\ retained' = [retained EXCEPT ![t] = ~empty]
    /\ kept' = IF empty THEN kept \ {t} ELSE kept \cup {t}
    /\ UNCHANGED << subscribers, alive, granted >>

TtNext ==
    \/ \E s \in Session, f \in Filters, q \in QoS : Subscribe(s, f, q)
    \/ \E s \in Session, f \in Filters : Unsubscribe(s, f)
    \/ \E s \in alive : SessionEnds(s)
    \/ CleanExpiredSubscriptions
    \/ \E t \in Topics, empty \in BOOLEAN : SetRetained(t, empty)

TtSpec == TtInit /\ [][TtNext]_ttvars

(***************************************************************************)
(* Finding the subscribers of a topic, and the retained messages a filter  *)
(* asks for, by walking the tree.                                          *)
(***************************************************************************)
Child(node, token) == {n \in {Append(node, token)} : n \in nodes}
Children(node) == {n \in nodes : Len(n) = Len(node) + 1 /\ SubSeq(n, 1, Len(node)) = node}
SubscribersAt(S) == UNION {subscribers[n] : n \in S}

\* Mutant: "#" is not looked for when the topic is used up.
RECURSIVE CollectSubscribersInside(_, _)
CollectSubscribersInside(node, tokens) ==
    IF tokens = << >> THEN subscribers[node]
    ELSE SubscribersAt(Child(node, "#"))
         \cup UNION {CollectSubscribersInside(n, Tail(tokens)) : n \in Child(node, Head(tokens)) \cup Child(node, "+")}

RECURSIVE CollectSubscribers(_, _)
CollectSubscribers(node, tokens) ==
    IF tokens = << >>
      THEN subscribers[node] \cup SubscribersAt(Child(node, "#"))
      ELSE SubscribersAt(Child(node, "#"))
           \cup UNION {CollectSubscribers(n, Tail(tokens)) : n \in Child(node, Head(tokens)) \cup Child(node, "+")}

GetSubscribers(t) ==
    IF IsValidTopic(t, FALSE) THEN {e.session : e \in CollectSubscribers(<< >>, t)} \cap alive ELSE {}

\* The path put together on the way down: a path that is the empty string gets no "/".
PathAdd(path, token) == IF path \in {<< >>, << "" >>} THEN << token >> ELSE Append(path, token)

RetainedAt(node, path) == IF retained[node] THEN {path} ELSE {}

RECURSIVE AllRetained(_, _)
AllRetained(node, path) ==
    RetainedAt(node, path) \cup UNION {AllRetained(n, PathAdd(path, n[Len(n)])) : n \in Children(node)}

RECURSIVE CollectRetained(_, _, _)
CollectRetained(node, tokens, path) ==
    IF tokens = << >> THEN RetainedAt(node, path)
    ELSE CASE Head(tokens) = "+" ->
                UNION {CollectRetained(n, Tail(tokens), PathAdd(path, n[Len(n)])) :
                           n \in {c \in Children(node) : c[Len(c)] \notin {"+", "#"}}}
           [] Head(tokens) = "#" -> AllRetained(node, path)
           [] OTHER ->
                UNION {CollectRetained(n, Tail(tokens), PathAdd(path, Head(tokens))) :
                           n \in Child(node, Head(tokens)) \cup Child(node, "+")}

GetRetained(f) == IF IsValidTopic(f, TRUE) THEN CollectRetained(<< >>, f, << >>) ELSE {}

\* is_wildcard_match, the matching of one filter with one topic.
WildcardMatch(f, t) ==
    LET n == Len(f)
        many == n > 0 /\ f[n] = "#"
        upto == IF many THEN n - 1 ELSE n
    IN  /\ \A i \in 1 .. upto : i <= Len(t) /\ f[i] \in {"+", t[i]}
        /\ many \/ n = Len(t)

(***************************************************************************)
(* After any history of subscriptions, repeated or withdrawn, retained     *)
(* messages and lost sessions, a publish reaches exactly the live sessions *)
(* one of whose filters matches the topic as is_wildcard_match has it      *)
(* (TopicTree::get_subscribers against topic_tree.cpp:626), and a session  *)
(* has one entry for a filter, with the QoS it was last granted.           *)
(***************************************************************************)
ReachesMatching ==
    /\ \A t \in Topics :
          GetSubscribers(t) = {s \in alive : \E f \in Filters : granted[s][f] >= 0 /\ WildcardMatch(f, t)}
    /\ \A s \in alive, f \in Filters :
          {e.qos : e \in {e \in subscribers[f] : e.session = s}} = {granted[s][f]} \ {-1}

(***************************************************************************)
(* A new subscription is sent exactly the retained messages of the topics  *)
(* its filter matches, under the names they were published with            *)
(* (TopicTree::get_retained_messages).                                     *)
(***************************************************************************)
RetainedMatching ==
    \A f \in Filters : GetRetained(f) = {t \in kept : WildcardMatch(f, t)}
=============================================================================
