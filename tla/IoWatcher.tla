----------------------------- MODULE IoWatcher ------------------------------
(***************************************************************************)
(* The six engines a loop can be built with to learn which descriptors are *)
(* ready (event/epoll.c, poll.c, select.c, kqueue.c, evport.c,             *)
(* io_uring.c) under hio_add and hio_del.  Each keeps the descriptors and  *)
(* events asked for in a form of its own, next to io->events:              *)
(*   - epoll and port: an interest list in the kernel and a count;         *)
(*   - poll and kqueue: an array from which entries are taken by moving    *)
(*     the last one into the gap, with io->event_index pointing into it;   *)
(*   - select: two bit sets, and the highest descriptor;                   *)
(*   - io_uring: one-shot requests that are set again after they complete. *)
(*                                                                         *)
(* The arrays' capacity only decides when they are reallocated and is left *)
(* out.                                                                    *)
(***************************************************************************)
EXTENDS Integers, Sequences, FiniteSets

CONSTANTS
    NFds,       \* the descriptors are below this number
    Used,       \* the engines looked at, each with the descriptors it is used with
    Readiness,  \* what may be found ready: functions from Fds to sets of conditions
    MaxPolls    \* bound on the io_uring requests of a descriptor

Fds == 0 .. NFds - 1

Bits == {"READ", "WRITE"}

\* POLLHUP and POLLERR are reported unasked.
Conditions == Bits \cup {"HUP"}

ASSUME IoWatcherAssumption ==
    /\ DOMAIN Used \subseteq {"epoll", "port", "poll", "kqueue", "select", "io_uring"}
    /\ NFds \in Nat /\ MaxPolls \in Nat /\ \A e \in DOMAIN Used : Used[e] \subseteq Fds
    /\ Readiness \subseteq [Fds -> SUBSET Conditions]

VARIABLES
    engine,
    io_events,  \* io->events
    revents,    \* io->revents
    interest,   \* the kernel's interest list; the two fd_sets of select
    nwatched,   \* events.size of epoll, nevents of port, nfds of io_uring
    nset,       \* nread and nwrite of select
    table,      \* pollfds of poll, changes of kqueue: [fd, events]
    event_index,
    max_fd,
    polls,      \* io_uring: how many requests for each set of events are in the kernel
    canceled    \* io_uring: completions of canceled requests not yet seen

iwvars == << engine, io_events, revents, interest, nwatched, nset, table, event_index, max_fd, polls, canceled >>

IwInit ==
    /\ engine \in DOMAIN Used
    /\ io_events = [fd \in Fds |-> {}] /\ revents = [fd \in Fds |-> {}]
    /\ interest = [fd \in Fds |-> {}] /\ nwatched = 0 /\ nset = [b \in Bits |-> 0]
    /\ table = << >> /\ event_index = [fd \in Fds |-> [b \in Bits |-> -1]]
    /\ max_fd = -1
    /\ polls = [fd \in Fds |-> [m \in SUBSET Bits |-> 0]] /\ canceled = [fd \in Fds |-> 0]

-----------------------------------------------------------------------------

\* epoll_ctl: adding what is there and changing what is not there both fail.
epoll_ctl(op, fd, mask) ==
    interest' = [interest EXCEPT ![fd] =
                    CASE op = "ADD" -> IF @ = {} THEN mask ELSE @
                      [] op = "MOD" -> IF @ = {} THEN @ ELSE mask
                      [] op = "DEL" -> {}]

EpollAdd(fd, ev) ==
    /\ epoll_ctl(IF io_events[fd] = {} THEN "ADD" ELSE "MOD", fd, io_events[fd] \cup ev)
    /\ nwatched' = IF io_events[fd] = {} THEN nwatched + 1 ELSE nwatched
    /\ UNCHANGED << nset, table, event_index, max_fd, polls, canceled >>

\* Mutant: every deletion counts, not only that of the last event.
EpollDelCountsAll(fd, ev) ==
    LET left == io_events[fd] \ ev
    IN  /\ epoll_ctl(IF left = {} THEN "DEL" ELSE "MOD", fd, left)
        /\ nwatched' = nwatched - 1
        /\ UNCHANGED << nset, table, event_index, max_fd, polls, canceled >>

EpollDel(fd, ev) ==
    LET left == io_events[fd] \ ev
    IN  /\ epoll_ctl(IF left = {} THEN "DEL" ELSE "MOD", fd, left)
        /\ nwatched' = IF left = {} THEN nwatched - 1 ELSE nwatched
        /\ UNCHANGED << nset, table, event_index, max_fd, polls, canceled >>

\* port_associate replaces an association there may be.
PortAdd(fd, ev) ==
    /\ interest' = [interest EXCEPT ![fd] = io_events[fd] \cup ev]
    /\ nwatched' = IF io_events[fd] = {} THEN nwatched + 1 ELSE nwatched
    /\ UNCHANGED << nset, table, event_index, max_fd, polls, canceled >>

PortDel(fd, ev) ==
    LET left == io_events[fd] \ ev
    IN  /\ interest' = [interest EXCEPT ![fd] = left]
        /\ nwatched' = IF left = {} THEN nwatched - 1 ELSE nwatched
        /\ UNCHANGED << nset, table, event_index, max_fd, polls, canceled >>

SelectAdd(fd, ev) ==
    /\ max_fd' = IF fd > max_fd THEN fd ELSE max_fd
    /\ interest' = [interest EXCEPT ![fd] = @ \cup ev]
    /\ nset' = [b \in Bits |-> IF b \in ev \ interest[fd] THEN nset[b] + 1 ELSE nset[b]]
    /\ UNCHANGED << nwatched, table, event_index, polls, canceled >>

SelectDel(fd, ev) ==
    /\ max_fd' = IF fd = max_fd THEN -1 ELSE max_fd
    /\ interest' = [interest EXCEPT ![fd] = @ \ ev]
    /\ nset' = [b \in Bits |-> IF b \in ev \cap interest[fd] THEN nset[b] - 1 ELSE nset[b]]
    /\ UNCHANGED << nwatched, table, event_index, polls, canceled >>

-----------------------------------------------------------------------------

\* pollfds_del_nomove, and the swap of kqueue: the last entry fills the gap.
WithoutEntry(t, i) == SubSeq([t EXCEPT ![i] = t[Len(t)]], 1, Len(t) - 1)

\* poll has one entry per descriptor and uses event_index[0].
PollAdd(fd, ev) ==
    LET idx == event_index[fd]["READ"]
    IN  /\ IF idx < 0
           THEN /\ table' = Append(table, [fd |-> fd, events |-> ev])
                /\ event_index' = [event_index EXCEPT ![fd]["READ"] = Len(table)]
           ELSE /\ table' = [table EXCEPT ![idx + 1].events = @ \cup ev]
                /\ UNCHANGED event_index
        /\ UNCHANGED << interest, nwatched, nset, max_fd, polls, canceled >>

PollDel(fd, ev) ==
    LET i == event_index[fd]["READ"] + 1
        left == table[i].events \ ev
        moved == table[Len(table)].fd
    IN  /\ IF i = 0 THEN UNCHANGED << table, event_index >>
           ELSE IF left # {}
           THEN table' = [table EXCEPT ![i].events = left] /\ UNCHANGED event_index
           ELSE /\ table' = WithoutEntry(table, i)
                /\ event_index' = [event_index EXCEPT ![moved]["READ"] = i - 1, ![fd]["READ"] = -1]
        /\ UNCHANGED << interest, nwatched, nset, max_fd, polls, canceled >>

-----------------------------------------------------------------------------

\* kevent with the whole array of changes, each of them EV_ADD.
Applied(in, t) ==
    [fd \in Fds |-> in[fd] \cup {b \in Bits : \E i \in DOMAIN t : t[i].fd = fd /\ t[i].events = b}]

Watch == [table |-> table, index |-> event_index, interest |-> interest]

\* kqueue has one entry per descriptor and filter.
__add_event(w, fd, b) ==
    IF w.index[fd][b] >= 0 THEN [w EXCEPT !.interest = Applied(@, w.table)]
    ELSE LET t == Append(w.table, [fd |-> fd, events |-> b])
         IN  [table |-> t, index |-> [w.index EXCEPT ![fd][b] = Len(w.table)],
              interest |-> Applied(w.interest, t)]

__del_event(w, fd, b) ==
    IF w.index[fd][b] < 0 THEN w
    ELSE LET i == w.index[fd][b] + 1
             moved == w.table[Len(w.table)]
             t == WithoutEntry(w.table, i)
         IN  [table |-> t,
              index |-> [w.index EXCEPT ![moved.fd][moved.events] = i - 1, ![fd][b] = -1],
              interest |-> [Applied(w.interest, t) EXCEPT ![fd] = @ \ {b}]]

Watched(w) ==
    /\ table' = w.table /\ event_index' = w.index /\ interest' = w.interest
    /\ UNCHANGED << nwatched, nset, max_fd, polls, canceled >>

KqueueAdd(fd, ev) ==
    LET w == IF "READ" \in ev THEN __add_event(Watch, fd, "READ") ELSE Watch
    IN  Watched(IF "WRITE" \in ev THEN __add_event(w, fd, "WRITE") ELSE w)

KqueueDel(fd, ev) ==
    LET w == IF "READ" \in ev THEN __del_event(Watch, fd, "READ") ELSE Watch
    IN  Watched(IF "WRITE" \in ev THEN __del_event(w, fd, "WRITE") ELSE w)

-----------------------------------------------------------------------------

\* The requests of a descriptor after io_uring_prep_poll_remove, which cancels
\* one that carries the descriptor, whichever; m: the one it finds.
Removed(p, m) == IF p[m] > 0 THEN [p EXCEPT ![m] = @ - 1] ELSE p

\* It finds none only if there is none.
Removable(p, m) == p[m] > 0 \/ \A n \in SUBSET Bits : p[n] = 0

UringRemove(fd, m, p) ==
    /\ polls' = [polls EXCEPT ![fd] = p]
    /\ canceled' = [canceled EXCEPT ![fd] = IF polls[fd][m] > 0 THEN @ + 1 ELSE @]

UringAdd(fd, ev) ==
    /\ LET all == io_events[fd] \cup ev
       IN  IF io_events[fd] = {}
           THEN /\ nwatched' = nwatched + 1
                /\ polls' = [polls EXCEPT ![fd][all] = @ + 1] /\ UNCHANGED canceled
           ELSE /\ UNCHANGED nwatched
                /\ \E m \in SUBSET Bits :
                     /\ Removable(polls[fd], m)
                     /\ UringRemove(fd, m, [Removed(polls[fd], m) EXCEPT ![all] = @ + 1])
    /\ UNCHANGED << interest, nset, table, event_index, max_fd >>

UringDel(fd, ev) ==
    /\ LET left == io_events[fd] \ ev
       IN  \E m \in SUBSET Bits :
             /\ Removable(polls[fd], m)
             /\ IF left = {}
                THEN UringRemove(fd, m, Removed(polls[fd], m)) /\ nwatched' = nwatched - 1
                ELSE /\ UringRemove(fd, m, [Removed(polls[fd], m) EXCEPT ![left] = @ + 1])
                     /\ UNCHANGED nwatched
    /\ UNCHANGED << interest, nset, table, event_index, max_fd >>

-----------------------------------------------------------------------------

iowatcher_add_event(fd, ev) ==
    \/ engine = "epoll" /\ EpollAdd(fd, ev)
    \/ engine = "port" /\ PortAdd(fd, ev)
    \/ engine = "poll" /\ PollAdd(fd, ev)
    \/ engine = "kqueue" /\ KqueueAdd(fd, ev)
    \/ engine = "select" /\ SelectAdd(fd, ev)
    \/ engine = "io_uring" /\ UringAdd(fd, ev)

iowatcher_del_event(fd, ev) ==
    \/ engine = "epoll" /\ EpollDel(fd, ev)
    \/ engine = "port" /\ PortDel(fd, ev)
    \/ engine = "poll" /\ PollDel(fd, ev)
    \/ engine = "kqueue" /\ KqueueDel(fd, ev)
    \/ engine = "select" /\ SelectDel(fd, ev)
    \/ engine = "io_uring" /\ UringDel(fd, ev)

\* An event that is watched already keeps the others of ev from being added.
hio_add(fd, ev) ==
    /\ fd \in Used[engine] /\ canceled[fd] < MaxPolls
    /\ io_events[fd] \cap ev = {}
    /\ iowatcher_add_event(fd, ev)
    /\ io_events' = [io_events EXCEPT ![fd] = @ \cup ev]
    /\ UNCHANGED << engine, revents >>

hio_del(fd, ev) ==
    /\ canceled[fd] < MaxPolls
    /\ io_events[fd] \cap ev # {}
    /\ iowatcher_del_event(fd, ev)
    /\ io_events' = [io_events EXCEPT ![fd] = @ \ ev]
    /\ UNCHANGED << engine, revents >>

-----------------------------------------------------------------------------

\* What poll makes of the conditions of a descriptor watched for ws.
Hangup(ws, ready) == IF ws = {} THEN {} ELSE IF "HUP" \in ready THEN Bits ELSE ws \cap ready

\* EVFILT_READ and EVFILT_WRITE are -1 and -2, so that each has bits of the other.
BothFilters(ws, ready) == IF ws \cap ready = {} THEN {} ELSE Bits

\* The events asked of poll for a descriptor.
Asked(fd) == UNION {table[i].events : i \in {j \in DOMAIN table : table[j].fd = fd}}

find_max_active_fd ==
    IF \A fd \in Fds : io_events[fd] = {} THEN -1
    ELSE CHOOSE fd \in Fds : io_events[fd] # {} /\ \A g \in Fds : io_events[g] # {} => g <= fd

\* max_fd as iowatcher_poll_events uses it.
SelectMax == IF max_fd = -1 THEN find_max_active_fd ELSE max_fd

\* What the completions of requests report, and those of canceled ones: these
\* have res < 0, are taken for failures and report all events.
ByRequests(fd, ready) == UNION {Hangup(m, ready[fd]) : m \in {x \in SUBSET Bits : polls[fd][x] > 0}}

ByCanceled(fd) == IF canceled[fd] = 0 THEN {} ELSE IF io_events[fd] = {} THEN Bits ELSE io_events[fd]

\* iowatcher_poll_events returns at once.
NothingWatched ==
    \/ engine \in {"epoll", "io_uring"} /\ nwatched = 0
    \/ engine \in {"poll", "kqueue"} /\ table = << >>
    \/ engine = "select" /\ \A b \in Bits : nset[b] = 0

\* What a poll reports to the io of fd when the conditions are those of ready.
Finds(fd, ready) ==
    IF NothingWatched THEN {}
    ELSE CASE engine = "epoll" -> Hangup(interest[fd], ready[fd])
           [] engine = "port" -> interest[fd] \cap ready[fd]
           [] engine = "poll" -> Hangup(Asked(fd), ready[fd])
           [] engine = "kqueue" -> BothFilters(Applied(interest, table)[fd], ready[fd])
           [] engine = "select" -> IF fd <= SelectMax THEN interest[fd] \cap ready[fd] ELSE {}
           [] engine = "io_uring" -> ByRequests(fd, ready) \cup ByCanceled(fd)

Reported(ready) ==
    ~NothingWatched /\ revents' = [fd \in Fds |-> revents[fd] \cup Finds(fd, ready)]

EpollPoll(ready) ==
    /\ engine \in {"epoll", "poll"} /\ Reported(ready)
    /\ UNCHANGED << engine, io_events, interest, nwatched, nset, table, event_index, max_fd, polls, canceled >>

\* The array is passed once more as the list of changes.
KqueuePoll(ready) ==
    /\ engine = "kqueue" /\ Reported(ready)
    /\ interest' = Applied(interest, table)
    /\ UNCHANGED << engine, io_events, nwatched, nset, table, event_index, max_fd, polls, canceled >>

\* What is retrieved is dissociated by the port, and associated again by the code.
PortPoll(ready) ==
    /\ engine = "port" /\ Reported(ready)
    /\ interest' = [fd \in Fds |-> IF interest[fd] \cap ready[fd] = {} THEN interest[fd] ELSE io_events[fd]]
    /\ UNCHANGED << engine, io_events, nwatched, nset, table, event_index, max_fd, polls, canceled >>

\* revents is assigned, not added to.
SelectPoll(ready) ==
    /\ engine = "select" /\ ~NothingWatched
    /\ max_fd' = SelectMax
    /\ revents' = [fd \in Fds |-> IF Finds(fd, ready) # {} THEN Finds(fd, ready) ELSE revents[fd]]
    /\ UNCHANGED << engine, io_events, interest, nwatched, nset, table, event_index, polls, canceled >>

\* select fails with EBADF, for user code has closed the descriptors bad: their
\* events are deleted.
remove_bad_fds(bad) ==
    /\ engine = "select" /\ ~NothingWatched
    /\ LET gone == {fd \in bad : fd <= SelectMax /\ interest[fd] # {}}
       IN  /\ gone # {}
           /\ max_fd' = IF SelectMax \in gone THEN -1 ELSE SelectMax
           /\ interest' = [fd \in Fds |-> IF fd \in gone THEN {} ELSE interest[fd]]
           /\ io_events' = [fd \in Fds |-> IF fd \in gone THEN {} ELSE io_events[fd]]
           /\ nset' = [b \in Bits |-> nset[b] - Cardinality({fd \in gone : b \in interest[fd]})]
    /\ UNCHANGED << engine, revents, nwatched, table, event_index, polls, canceled >>

\* How many requests of a descriptor complete.
Completed(p, ready) ==
    LET n(m) == IF Hangup(m, ready) # {} THEN p[m] ELSE 0
    IN  n({"READ"}) + n({"WRITE"}) + n(Bits)

\* Every completion, of a canceled request too, is followed by a request for the
\* events of the descriptor, if it has any.
UringPoll(ready) ==
    /\ engine = "io_uring" /\ Reported(ready)
    /\ polls' = [fd \in Fds |-> [m \in SUBSET Bits |->
            (IF Hangup(m, ready[fd]) # {} THEN 0 ELSE polls[fd][m])
            + (IF m # {} /\ m = io_events[fd] THEN Completed(polls[fd], ready[fd]) + canceled[fd] ELSE 0)]]
    /\ canceled' = [fd \in Fds |-> 0]
    /\ \A fd \in Fds, m \in SUBSET Bits : polls'[fd][m] <= MaxPolls
    /\ UNCHANGED << engine, io_events, interest, nwatched, nset, table, event_index, max_fd >>

iowatcher_poll_events(ready) ==
    \/ NothingWatched /\ UNCHANGED iwvars
    \/ EpollPoll(ready) \/ UringPoll(ready)
    \/ KqueuePoll(ready) \/ PortPoll(ready) \/ SelectPoll(ready)

\* hio_handle_events, and hio_ready of the next connection, clear revents.
Handled(fd) ==
    /\ revents[fd] # {} /\ revents' = [revents EXCEPT ![fd] = {}]
    /\ UNCHANGED << engine, io_events, interest, nwatched, nset, table, event_index, max_fd, polls, canceled >>

IwNext ==
    \/ \E fd \in Fds : Handled(fd) \/ \E ev \in (SUBSET Bits) \ {{}} : hio_add(fd, ev) \/ hio_del(fd, ev)
    \/ \E ready \in Readiness : iowatcher_poll_events(ready)
    \/ \E bad \in SUBSET Fds : remove_bad_fds(bad)

IwSpec == IwInit /\ [][IwNext]_iwvars

-----------------------------------------------------------------------------

\* Whatever was added and deleted before, a poll would report every watched event
\* that is ready to its io; but select, once the highest descriptor is gone and
\* a lower one was added, misses those above it.
ReadyIsReported ==
    \A ready \in Readiness, fd \in Fds :
        \/ io_events[fd] \cap ready[fd] \subseteq Finds(fd, ready)
        \/ engine = "select" /\ max_fd # -1 /\ fd > max_fd
=============================================================================
