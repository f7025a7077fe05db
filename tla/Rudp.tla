-------------------------------- MODULE Rudp --------------------------------
(***************************************************************************)
(* The table of KCP conversations of one UDP socket (event/rudp.c,         *)
(* event/kcp/hkcp.c).  An entry is made by whoever looks an address up,    *)
(* carries a KCP control block and its update timer once one is wanted,    *)
(* and is freed in the loop thread by the event hio_close_rudp posts: that *)
(* event holds the bare pointer.  A datagram with a foreign conversation   *)
(* number makes the loop itself close the entry; other threads close and   *)
(* write as they like.  The eventfd has a higher priority than the socket, *)
(* so one iteration runs the posted events before it reads a datagram.     *)
(***************************************************************************)
EXTENDS Integers, Sequences

CONSTANTS
    Addr,        \* peer addresses
    Rejected,    \* addresses whose peer also sends foreign conversation numbers
    Closable,    \* addresses some thread closes
    MaxEntries,  \* entries ever allocated
    MaxCalls     \* events in the loop's queue

ASSUME RudpAssumption ==
    /\ Rejected \subseteq Addr /\ Closable \subseteq Addr
    /\ MaxEntries \in Nat /\ MaxCalls \in Nat

VARIABLES
    table,       \* address -> the entry in the tree, or 0
    addrOf,      \* entry -> its address, for every entry ever made
    freed,       \* entries given back
    owned,       \* entries whose io field is set
    kcps,        \* entries with a control block and an update timer
    events,      \* the loop's custom events: closes of entries, writes to addresses
    step,        \* the loop: polling, running "events", reading the socket, timers
    pending,     \* events this eventfd read still runs
    readable,    \* the socket was readable when the loop polled
    opened       \* the socket is open

rudpvars == << table, addrOf, freed, owned, kcps, events, step, pending, readable, opened >>

Entry == 1 .. Len(addrOf)
CloseOf(e) == [kind |-> "close", entry |-> e]
WriteTo(a) == [kind |-> "write", addr |-> a]

RudpInit ==
    /\ table = [a \in Addr |-> 0]
    /\ addrOf = << >> /\ freed = {} /\ owned = {} /\ kcps = {}
    /\ events = << >>
    /\ step = "poll" /\ pending = 0 /\ readable = FALSE
    /\ opened = TRUE

\* rudp_get: the entry of an address, made if there is none.
rudp_get(a) ==
    IF table[a] # 0 THEN UNCHANGED << table, addrOf >>
    ELSE /\ Len(addrOf) < MaxEntries
         /\ addrOf' = Append(addrOf, a)
         /\ table' = [table EXCEPT ![a] = Len(addrOf')]

\* hio_get_kcp: look up, set io, and create the control block and its timer.
hio_get_kcp(a) ==
    /\ rudp_get(a)
    /\ owned' = owned \cup {table'[a]}
    /\ kcps' = kcps \cup {table'[a]}
    /\ UNCHANGED freed

\* hloop_post_event.
Post(ev) == Len(events) < MaxCalls /\ events' = Append(events, ev)

\* hio_close_rudp: the entry stays in the tree, a pointer to it is posted.
hio_close_rudp(a) == rudp_get(a) /\ Post(CloseOf(table'[a]))

\* A thread closes the conversation with a peer it is talking to, once.
UserClose(a) ==
    /\ opened /\ a \in Closable
    /\ table[a] \in owned
    /\ \A i \in 1 .. Len(events) : events[i] # CloseOf(table[a])
    /\ hio_close_rudp(a)
    /\ UNCHANGED << freed, owned, kcps, step, pending, readable, opened >>

\* hio_write from another thread: hio_write_kcp_async posts a copy.
UserWrite(a) ==
    /\ opened
    /\ Post(WriteTo(a))
    /\ UNCHANGED << table, addrOf, freed, owned, kcps, step, pending, readable, opened >>

\* Mutant: the eventfd's io keeps the normal priority.
PollNormalPriority ==
    /\ step = "poll"
    /\ readable' \in {FALSE, opened}
    /\ pending' = Len(events)
    /\ step' = IF readable' THEN "read" ELSE "events"
    /\ UNCHANGED << table, addrOf, freed, owned, kcps, events, opened >>

\* iowatcher_poll_events, then the pendings from high to low priority: the
\* eventfd read takes as many events as were counted.
Poll ==
    /\ step = "poll"
    /\ readable' \in {FALSE, opened}
    /\ pending' = Len(events)
    /\ step' = "events"
    /\ UNCHANGED << table, addrOf, freed, owned, kcps, events, opened >>

\* Mutant: the event unlinks the entry and leaves its timer behind.
CloseEventKeepsTimer ==
    /\ step = "events" /\ pending > 0 /\ Head(events).kind = "close"
    /\ LET e == Head(events).entry IN
       /\ e \notin freed /\ e \in owned
       /\ table' = [table EXCEPT ![addrOf[e]] = 0]
       /\ freed' = freed \cup {e}
    /\ events' = Tail(events) /\ pending' = pending - 1
    /\ UNCHANGED << addrOf, owned, kcps, step, readable, opened >>

\* hio_close_rudp_event_cb: rudp_del finds the address of the entry again and
\* frees what it finds, the control block and its timer with it.  A freed
\* entry, or one without io, is undefined behaviour: no step.
CloseEvent ==
    /\ step = "events" /\ pending > 0 /\ Head(events).kind = "close"
    /\ LET e == Head(events).entry
           found == {table[addrOf[e]]} \ {0} IN
       /\ e \notin freed /\ e \in owned
       /\ table' = [table EXCEPT ![addrOf[e]] = 0]
       /\ freed' = freed \cup found
       /\ kcps' = kcps \ found
       /\ owned' = owned \ found
    /\ events' = Tail(events) /\ pending' = pending - 1
    /\ UNCHANGED << addrOf, step, readable, opened >>

\* hio_write_kcp_event_cb, in the loop thread.
WriteEvent ==
    /\ step = "events" /\ pending > 0 /\ Head(events).kind = "write"
    /\ hio_get_kcp(Head(events).addr)
    /\ events' = Tail(events) /\ pending' = pending - 1
    /\ UNCHANGED << step, readable, opened >>

EventsDone ==
    /\ step = "events" /\ pending = 0
    /\ step' = IF readable THEN "read" ELSE "timers"
    /\ readable' = FALSE
    /\ UNCHANGED << table, addrOf, freed, owned, kcps, events, pending, opened >>

\* hio_read_kcp of one datagram of the conversation: input, and the messages
\* it completes are handed to the application, which may answer at once.
ReadData(a) ==
    /\ step = "read"
    /\ hio_get_kcp(a)
    /\ step' = "timers"
    /\ UNCHANGED << events, pending, readable, opened >>

\* hio_read_kcp of a datagram whose conversation number is not the entry's.
ReadForeign(a) ==
    /\ step = "read" /\ a \in Rejected
    /\ table[a] \in kcps
    /\ hio_close_rudp(a)
    /\ owned' = owned \cup {table[a]}
    /\ step' = "timers"
    /\ UNCHANGED << freed, kcps, pending, readable, opened >>

\* The update timers of the iteration run: ikcp_update of live control blocks.
TimersDone ==
    /\ step = "timers"
    /\ step' = "poll"
    /\ UNCHANGED << table, addrOf, freed, owned, kcps, events, pending, readable, opened >>

\* hio_close of the socket in the loop thread: hio_done empties the table.
\* The application closes it when no thread uses it any more.
CloseSocket ==
    /\ step = "timers" /\ opened
    /\ events = << >>
    /\ opened' = FALSE
    /\ freed' = freed \cup ({table[a] : a \in Addr} \ {0})
    /\ table' = [a \in Addr |-> 0]
    /\ kcps' = kcps \ freed'
    /\ owned' = owned \ freed'
    /\ UNCHANGED << addrOf, events, step, pending, readable >>

RudpNext ==
    \/ \E a \in Addr : UserClose(a) \/ UserWrite(a) \/ ReadData(a) \/ ReadForeign(a)
    \/ Poll \/ CloseEvent \/ WriteEvent \/ EventsDone \/ TimersDone \/ CloseSocket

RudpSpec == RudpInit /\ [][RudpNext]_rudpvars

RudpTypeOK ==
    /\ table \in [Addr -> 0 .. MaxEntries]
    /\ addrOf \in Seq(Addr) /\ Len(addrOf) <= MaxEntries
    /\ freed \subseteq Entry /\ owned \subseteq Entry /\ kcps \subseteq owned
    /\ step \in {"poll", "events", "read", "timers"}
    /\ pending \in 0 .. Len(events)
    /\ readable \in BOOLEAN /\ opened \in BOOLEAN

(***************************************************************************)
(* The pointer a posted close carries is still an entry of the table, with *)
(* its io set, when hio_close_rudp_event_cb dereferences it (rudp.c:147):  *)
(* whatever was read, written and closed since it was posted, it closes    *)
(* the conversation it was posted for, never a freed or a younger one.     *)
(***************************************************************************)
CloseFindsItsEntry ==
    (step = "events" /\ pending > 0 /\ Head(events).kind = "close") =>
        LET e == Head(events).entry IN
        e \notin freed /\ e \in owned /\ table[addrOf[e]] = e

(***************************************************************************)
(* Every entry is either in the table under its own address or freed, and  *)
(* an update timer (its privdata is the entry) never outlives its entry:   *)
(* nothing leaks and __kcp_update_timer_cb (hkcp.c:20) reads live memory.  *)
(***************************************************************************)
TimersOfLiveEntries ==
    /\ \A e \in Entry : (e \in freed) # (table[addrOf[e]] = e)
    /\ kcps \cap freed = {}
=============================================================================
