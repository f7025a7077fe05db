----------------------------- MODULE HioStream -----------------------------
(***************************************************************************)
(* One hio_t of stream type: connecting, the write queue, and closing      *)
(* (event/nio.c, event/hevent.c, hio_get and hio_close_async of            *)
(* event/hloop.c).  The object belongs to a descriptor and is used again   *)
(* for the next connection that gets the same descriptor; every use has    *)
(* its own id.                                                             *)
(*                                                                         *)
(* The loop's thread handles events, timers and posted events; user code   *)
(* runs in it between two of those and inside write_cb.  Other threads     *)
(* call hio_write and hio_close, which the header declares thread-safe.    *)
(* A step is what happens inside one critical section of write_mutex or    *)
(* between two accesses to fields that another thread may change.          *)
(***************************************************************************)
EXTENDS Integers, Sequences, FiniteSets, SequencesExt

CONSTANTS
    Loop,            \* the loop's thread
    Writers,         \* other threads that call hio_write
    Closers,         \* other threads that call hio_close
    Lens,            \* lengths of a write, in units
    MaxWriteBufsize, \* io->max_write_bufsize
    MaxWrites,       \* bound on the writes of one thread
    MaxCloses,       \* bound on the closes of one thread
    MaxConn,         \* bound on the connections that get this descriptor
    MayFail,         \* may the connection fail, or be ended by the peer?
    LoopReads,       \* does user code in the loop stop and start reading?
    CloseAgain,      \* may write_cb close an io that is closing or failed?
    NoThread

Threads == {Loop} \cup Writers \cup Closers

ASSUME StreamAssumption ==
    /\ Loop \notin Writers \cup Closers /\ NoThread \notin Threads
    /\ Lens \subseteq Nat \ {0}
    /\ {MaxWriteBufsize, MaxWrites, MaxCloses, MaxConn} \subseteq Nat
    /\ MayFail \in BOOLEAN /\ LoopReads \in BOOLEAN /\ CloseAgain \in BOOLEAN

VARIABLES
    io,       \* the fields of hio_t
    wq,       \* io->write_queue: per buffer, the units not written yet
    mutex,    \* holder of write_mutex
    timers,   \* live close timers, numbered; io.close_timer is one of them or 0
    posted,   \* custom events on their way to the loop
    lpc,      \* where the loop's thread is
    ret,      \* where it goes on after hio_close
    full,     \* nio_write: the front buffer was written to its end
    seen,     \* hio_read_stop: the value of io->events it read
    call,     \* per thread, the call of hio_write or hio_close it is in
    sock,     \* the connection behind the descriptor, 0 when closed
    conn,     \* connections so far
    sent,     \* ghost: units the kernel took, per connection
    accepted, \* ghost: units hio_write took, per connection
    due,      \* ghost: ids that someone wanted closed, or that failed
    over,     \* ghost: ids whose close_cb ran
    writes, closes

locals == << lpc, ret, full, seen >>
ghosts == << sent, accepted, due, over >>
vars   == << io, wq, mutex, timers, posted, locals, call, sock, conn, ghosts, writes, closes >>

Idle == [op |-> "idle", conn |-> 0, len |-> 0]

\* hio_ready: a new use of the object.
Ready(o) ==
    [id |-> o.id + 1, ready |-> TRUE, connected |-> FALSE, closed |-> FALSE, close |-> FALSE,
     connect |-> FALSE, error |-> FALSE, events |-> {}, bufsize |-> 0, close_timer |-> 0,
     connect_timer |-> FALSE]

Init ==
    /\ io = [Ready([id |-> -1]) EXCEPT !.ready = FALSE, !.closed = TRUE]
    /\ wq = << >> /\ mutex = NoThread
    /\ timers = {} /\ posted = << >>
    /\ lpc = "top" /\ ret = "top" /\ full = FALSE /\ seen = {}
    /\ call = [t \in Threads |-> Idle]
    /\ sock = 0 /\ conn = 0
    /\ sent = [c \in 1 .. MaxConn |-> << >>]
    /\ accepted = [c \in 1 .. MaxConn |-> << >>]
    /\ due = {} /\ over = {}
    /\ writes = [t \in Threads |-> 0] /\ closes = [t \in Threads |-> 0]

-----------------------------------------------------------------------------
(* Opening. *)

Top == lpc = "top" /\ call[Loop] = Idle

\* hio_add on an object that is not in use starts a new use.
hio_add(o, evs) ==
    LET r == IF o.ready THEN o ELSE Ready(o)
    IN  [r EXCEPT !.events = @ \cup evs]

NewSocket ==
    /\ Top
    /\ sock = 0 /\ conn < MaxConn /\ ~io.ready
    /\ conn' = conn + 1
    /\ UNCHANGED << wq, mutex, timers, locals, call, sent, accepted, over, writes, closes >>

\* nio_accept gets this descriptor: hio_get, and accept_cb starts reading.
Accepted ==
    /\ NewSocket
    /\ sock' = conn'
    /\ io' = hio_add(Ready(io), {"R"})
    /\ UNCHANGED << posted, due >>

\* hio_connect on a new socket: connect() is done, fails, or is in progress.
hio_connect ==
    /\ NewSocket
    /\ \/ /\ sock' = conn' /\ io' = Ready(io)
          /\ posted' = Append(posted, [kind |-> "connect", id |-> io'.id])
          /\ UNCHANGED due
       \/ /\ MayFail
          /\ sock' = 0 /\ io' = [Ready(io) EXCEPT !.error = TRUE]
          /\ posted' = Append(posted, [kind |-> "close", id |-> io'.id])
          /\ due' = due \cup {io'.id}
       \/ /\ sock' = conn'
          /\ io' = hio_add([Ready(io) EXCEPT !.connect = TRUE, !.connect_timer = TRUE], {"W"})
          /\ UNCHANGED << posted, due >>

\* The loop's thread goes on with hio_close, and then at r.
CallClose(r) ==
    /\ lpc' = "close" /\ ret' = r
    /\ due' = due \cup {io.id}
    /\ UNCHANGED << full, seen, sent, accepted, over >>

\* nio_connect: connect_cb starts reading, or the connection is closed.
nio_connect(o) ==
    \/ /\ sock # 0
       /\ io' = hio_add([o EXCEPT !.connect_timer = FALSE, !.connected = TRUE], {"R"})
       /\ lpc' = "top"
       /\ UNCHANGED << ret, full, seen, ghosts >>
    \/ /\ MayFail \/ sock = 0
       /\ io' = [o EXCEPT !.error = TRUE]
       /\ CallClose("top")

ConnectTimeout ==
    /\ MayFail
    /\ Top /\ io.connect_timer
    /\ io' = [io EXCEPT !.error = TRUE]
    /\ CallClose("top")
    /\ UNCHANGED << wq, mutex, timers, posted, call, sock, conn, writes, closes >>

-----------------------------------------------------------------------------
(* hio_write, in any thread. *)

Units(t, c, n) == [i \in 1 .. n |-> << t, c, writes[t], i >>]

\* The test of closed, before the mutex is taken.
WriteCall(t, n) ==
    /\ call[t] = Idle /\ writes[t] < MaxWrites
    /\ t \in Writers \/ (t = Loop /\ lpc \in {"top", "wcb"})
    /\ ~io.closed /\ sock # 0
    /\ writes' = [writes EXCEPT ![t] = @ + 1]
    /\ call' = [call EXCEPT ![t] = [op |-> "write", conn |-> sock, len |-> n]]
    /\ UNCHANGED << io, wq, mutex, timers, posted, locals, sock, conn, ghosts, closes >>

\* write_mutex is recursive, and the loop's thread holds it inside write_cb.
CanLock(t) == mutex = NoThread \/ mutex = t

\* With nothing queued the data is offered to the socket at once.
DirectWrite == wq = << >> /\ sock # 0 /\ ~io.connect

\* HV_WRITE is asked for when the queue is about to become non-empty.
Arm(o) == hio_add(o, {"W"})

\* The critical section of hio_write4: k units are sent and the rest is queued.
WriteTakes(t, k) ==
    LET n    == call[t].len
        data == Units(t, call[t].conn, n)
        rest == SubSeq(data, k + 1, n)
        o    == IF k < n /\ wq = << >> THEN Arm(io) ELSE io
    IN  /\ call[t].op = "write" /\ CanLock(t)
        /\ k > 0 => DirectWrite
        /\ wq = << >> => sock # 0
        /\ sent' = IF k = 0 THEN sent ELSE [sent EXCEPT ![sock] = @ \o SubSeq(data, 1, k)]
        /\ IF Len(rest) = 0 \/ o.bufsize + Len(rest) <= MaxWriteBufsize
           THEN /\ io' = [o EXCEPT !.bufsize = @ + Len(rest)]
                /\ wq' = IF rest = << >> THEN wq ELSE Append(wq, rest)
                /\ accepted' = [accepted EXCEPT ![call[t].conn] = @ \o data]
                /\ UNCHANGED << posted, due >>
           ELSE \* over the limit: hio_close_async
                /\ io' = [o EXCEPT !.error = TRUE]
                /\ accepted' = [accepted EXCEPT ![call[t].conn] = @ \o SubSeq(data, 1, k)]
                /\ posted' = Append(posted, [kind |-> "close", id |-> o.id])
                /\ due' = due \cup {o.id}
                /\ UNCHANGED wq
        /\ call' = [call EXCEPT ![t] = Idle]
        /\ UNCHANGED << mutex, timers, locals, sock, conn, over, writes, closes >>

\* send() fails, or takes nothing from a stream (z): hio_close_async.
WriteFails(t, z) ==
    /\ MayFail \/ sock = 0
    /\ call[t].op = "write" /\ CanLock(t) /\ wq = << >>
    /\ io' = [io EXCEPT !.error = @ \/ ~z]
    /\ posted' = Append(posted, [kind |-> "close", id |-> io.id])
    /\ due' = due \cup {io.id}
    /\ call' = [call EXCEPT ![t] = Idle]
    /\ UNCHANGED << wq, mutex, timers, locals, sock, conn, sent, accepted, over, writes, closes >>

-----------------------------------------------------------------------------
(* nio_write, in the loop's thread. *)

LoopOnly == UNCHANGED << call, sock, conn, writes, closes >>

\* hio_handle_events on a writable descriptor: HV_WRITE goes when nothing is
\* queued; the first time of a connecting socket is its connection.
Writable ==
    /\ Top /\ sock # 0 /\ "W" \in io.events /\ CanLock(Loop)
    /\ LET o == IF wq = << >> THEN [io EXCEPT !.events = @ \ {"W"}] ELSE io
       IN  IF o.connect
           THEN nio_connect([o EXCEPT !.connect = FALSE]) /\ UNCHANGED mutex
           ELSE /\ io' = o
                /\ lpc' = "lock"
                /\ UNCHANGED << mutex, ret, full, seen, ghosts >>
    /\ UNCHANGED << wq, timers, posted >> /\ LoopOnly

NwLock ==
    /\ lpc = "lock" /\ mutex = NoThread
    /\ mutex' = Loop
    /\ lpc' = "nw"
    /\ UNCHANGED << io, wq, timers, posted, ret, full, seen, ghosts >> /\ LoopOnly

\* Nothing left: unlock, and a close that was put off is due.
NwEmpty ==
    /\ lpc = "nw" /\ wq = << >>
    /\ mutex' = NoThread
    /\ io' = [io EXCEPT !.close = FALSE]
    /\ IF io.close THEN CallClose("top")
       ELSE lpc' = "top" /\ UNCHANGED << ret, full, seen, ghosts >>
    /\ UNCHANGED << wq, timers, posted >> /\ LoopOnly

\* Mutant: the offset of a buffer written in part is not advanced.
AdvancedNot(b, k) == b

Advanced(b, k) == SubSeq(b, k + 1, Len(b))

\* The socket takes k units of the front buffer; write_cb follows.
NwSend(k) ==
    /\ lpc = "nw" /\ wq # << >> /\ k <= Len(Head(wq))
    /\ sent' = [sent EXCEPT ![sock] = @ \o SubSeq(Head(wq), 1, k)]
    /\ wq' = << Advanced(Head(wq), k) >> \o Tail(wq)
    /\ io' = [io EXCEPT !.bufsize = @ - k]
    /\ full' = (k = Len(Head(wq)))
    /\ lpc' = "wcb"
    /\ UNCHANGED << mutex, timers, posted, ret, seen, accepted, due, over >> /\ LoopOnly

\* write_cb returned: a buffer written to its end is freed and popped, and the
\* next one is tried.
NwNext ==
    /\ lpc = "wcb" /\ call[Loop] = Idle
    /\ wq' = IF full /\ wq # << >> THEN Tail(wq) ELSE wq
    /\ IF full /\ ~io.closed
       THEN lpc' = "nw" /\ UNCHANGED mutex
       ELSE lpc' = "top" /\ mutex' = NoThread
    /\ full' = FALSE
    /\ UNCHANGED << io, timers, posted, ret, seen, ghosts >> /\ LoopOnly

NwAgain ==
    /\ lpc = "nw" /\ wq # << >>
    /\ mutex' = NoThread
    /\ lpc' = "top"
    /\ UNCHANGED << io, wq, timers, posted, ret, full, seen, ghosts >> /\ LoopOnly

\* send() fails, or takes nothing (z).
NwFails(z) ==
    /\ MayFail
    /\ lpc = "nw" /\ wq # << >>
    /\ io' = [io EXCEPT !.error = @ \/ ~z]
    /\ mutex' = NoThread
    /\ CallClose("top")
    /\ UNCHANGED << wq, timers, posted >> /\ LoopOnly

\* nio_read finds the end of the stream (z) or an error.
ReadEnds(z) ==
    /\ MayFail
    /\ Top /\ sock # 0 /\ "R" \in io.events
    /\ io' = [io EXCEPT !.error = @ \/ ~z]
    /\ CallClose("top")
    /\ UNCHANGED << wq, mutex, timers, posted >> /\ LoopOnly

\* User code: hio_read, and hio_read_stop, which reads io->events, and writes it
\* in a later step, without write_mutex.
hio_read ==
    /\ LoopReads
    /\ Top /\ ~io.closed /\ "R" \notin io.events
    /\ io' = hio_add(io, {"R"})
    /\ UNCHANGED << wq, mutex, timers, posted, locals, ghosts >> /\ LoopOnly

ReadStopLoads ==
    /\ LoopReads
    /\ Top /\ "R" \in io.events
    /\ seen' = io.events
    /\ lpc' = "rstop"
    /\ UNCHANGED << io, wq, mutex, timers, posted, ret, full, ghosts >> /\ LoopOnly

ReadStopStores ==
    /\ lpc = "rstop"
    /\ io' = [io EXCEPT !.events = seen \ {"R"}]
    /\ seen' = {}
    /\ lpc' = "top"
    /\ UNCHANGED << wq, mutex, timers, posted, ret, full, ghosts >> /\ LoopOnly

-----------------------------------------------------------------------------
(* hio_close. *)

\* User code in the loop's thread calls hio_close, or hio_close_async.
CloseCall ==
    /\ call[Loop] = Idle /\ closes[Loop] < MaxCloses
    /\ lpc = "top" \/ (lpc = "wcb" /\ (CloseAgain \/ (~io.close /\ ~io.error)))
    /\ ~io.closed
    /\ closes' = [closes EXCEPT ![Loop] = @ + 1]
    /\ \/ CallClose(lpc) /\ UNCHANGED posted
       \/ /\ posted' = Append(posted, [kind |-> "close", id |-> io.id])
          /\ due' = due \cup {io.id}
          /\ UNCHANGED << locals, sent, accepted, over >>
    /\ UNCHANGED << io, wq, mutex, timers, call, sock, conn, writes >>

\* Another thread: the test of closed, and then hio_close_async.
ForeignCloseCall(t) ==
    /\ t \in Closers /\ call[t] = Idle /\ closes[t] < MaxCloses
    /\ ~io.closed
    /\ closes' = [closes EXCEPT ![t] = @ + 1]
    /\ call' = [call EXCEPT ![t] = [Idle EXCEPT !.op = "close"]]
    /\ due' = due \cup {io.id}
    /\ UNCHANGED << io, wq, mutex, timers, posted, locals, sock, conn, sent, accepted, over, writes >>

ForeignClosePosts(t) ==
    /\ call[t].op = "close"
    /\ posted' = Append(posted, [kind |-> "close", id |-> io.id])
    /\ call' = [call EXCEPT ![t] = Idle]
    /\ UNCHANGED << io, wq, mutex, timers, locals, sock, conn, ghosts, writes, closes >>

\* hio_close_event_cb and nio_connect_event_cb compare ids.
Meant(ev) == ev.id = io.id

RunPosted ==
    /\ Top /\ posted # << >>
    /\ posted' = Tail(posted)
    /\ LET ev == Head(posted)
       IN  IF ~Meant(ev) THEN UNCHANGED << io, locals, ghosts >>
           ELSE IF ev.kind = "connect" THEN nio_connect(io)
           ELSE /\ lpc' = "close" /\ ret' = "top"
                /\ UNCHANGED << io, full, seen, ghosts >>
    /\ UNCHANGED << wq, mutex, timers >> /\ LoopOnly

CloseTimeout(k) ==
    /\ Top /\ k \in timers
    /\ timers' = timers \ {k}
    /\ io' = [io EXCEPT !.error = TRUE]
    /\ lpc' = "close" /\ ret' = "top"
    /\ UNCHANGED << wq, mutex, posted, full, seen, ghosts >> /\ LoopOnly

\* A healthy io with data queued is closed later, once.
PutOff == wq # << >> /\ ~io.error /\ ~io.close

NewTimer == CHOOSE k \in 1 .. Cardinality(timers) + 1 : k \notin timers

\* Mutant: the delayed close is not limited in time.
TimerNotStarted == timers

TimerStarted == timers \cup {NewTimer}

\* Mutant: hio_close without its test of closed.
AlreadyClosedNever == FALSE

AlreadyClosed == io.closed

\* hio_close up to the unlock.
hio_close ==
    /\ lpc = "close" /\ CanLock(Loop)
    /\ IF AlreadyClosed
       THEN lpc' = ret /\ UNCHANGED << io, timers >>
       ELSE IF PutOff
       THEN /\ timers' = TimerStarted
            /\ io' = [io EXCEPT !.close = TRUE, !.close_timer = NewTimer]
            /\ lpc' = ret
       ELSE /\ io' = [io EXCEPT !.closed = TRUE]
            /\ lpc' = "done"
            /\ UNCHANGED timers
    /\ UNCHANGED << wq, mutex, posted, ret, full, seen, ghosts >> /\ LoopOnly

\* hio_done: not ready, no events, nothing queued.
hio_done ==
    /\ lpc = "done" /\ CanLock(Loop)
    /\ io' = [io EXCEPT !.ready = FALSE, !.events = {}]
    /\ wq' = << >>
    /\ lpc' = "ccb"
    /\ UNCHANGED << mutex, timers, posted, ret, full, seen, ghosts >> /\ LoopOnly

\* hio_del_close_timer.
TimersDeleted == timers \ {io.close_timer}

\* __close_cb: the timers are deleted, close_cb is called.
CloseCb ==
    /\ lpc = "ccb"
    /\ timers' = TimersDeleted
    /\ io' = [io EXCEPT !.close_timer = 0, !.connect_timer = FALSE, !.connected = FALSE,
                        !.closed = TRUE]
    /\ over' = over \cup {io.id}
    /\ lpc' = "fd"
    /\ UNCHANGED << wq, mutex, posted, ret, full, seen, sent, accepted, due >> /\ LoopOnly

CloseFd ==
    /\ lpc = "fd"
    /\ sock' = 0
    /\ lpc' = ret
    /\ UNCHANGED << io, wq, mutex, timers, posted, ret, full, seen, call, conn, ghosts, writes, closes >>

-----------------------------------------------------------------------------

Send == \E k \in 1 .. MaxWriteBufsize : NwSend(k)

LoopStep ==
    \/ NwLock \/ NwEmpty \/ Send \/ NwNext \/ NwAgain \/ (\E z \in BOOLEAN : NwFails(z))
    \/ hio_close \/ hio_done \/ CloseCb \/ CloseFd \/ ReadStopStores

User ==
    \/ Accepted \/ hio_connect \/ hio_read \/ ReadStopLoads \/ CloseCall
    \/ \E t \in Threads : ForeignCloseCall(t) \/ (\E n \in Lens : WriteCall(t, n))

CallStep(t) ==
    \/ \E k \in 0 .. call[t].len : WriteTakes(t, k)
    \/ \E z \in BOOLEAN : WriteFails(t, z)
    \/ ForeignClosePosts(t)

Next ==
    \/ User \/ LoopStep
    \/ Writable \/ (\E z \in BOOLEAN : ReadEnds(z))
    \/ ConnectTimeout \/ RunPosted \/ (\E k \in timers : CloseTimeout(k))
    \/ \E t \in Threads : CallStep(t)

Spec == Init /\ [][Next]_vars

\* Threads inside a call are scheduled and callbacks return; posted events and
\* timers that expired get their turn among the other events of the loop (shown
\* for the loop itself in LoopPost and LoopEvents).  Nothing is assumed of the
\* peer: the socket need never be readable or writable.
FairSpec ==
    /\ Spec
    /\ WF_vars(LoopStep)
    /\ \A t \in Threads : WF_vars(CallStep(t))
    /\ SF_vars(RunPosted)
    /\ SF_vars(\E k \in timers : CloseTimeout(k))

-----------------------------------------------------------------------------

\* Type invariant.
TypeOK ==
    /\ io.id \in Nat /\ io.events \subseteq {"R", "W"} /\ io.bufsize \in Nat
    /\ {io.ready, io.connected, io.closed, io.close, io.connect, io.error,
        io.connect_timer} \subseteq BOOLEAN
    /\ mutex \in Threads \cup {NoThread}
    /\ timers \subseteq Nat /\ io.close_timer \in Nat
    /\ \A i \in DOMAIN posted : posted[i].kind \in {"close", "connect"} /\ posted[i].id \in Nat
    /\ lpc \in {"top", "lock", "nw", "wcb", "rstop", "close", "done", "ccb", "fd"}
    /\ ret \in {"top", "wcb"} /\ full \in BOOLEAN
    /\ sock \in {0, conn} /\ conn \in 0 .. MaxConn
    /\ lpc = "nw" => mutex = Loop

\* What the kernel took, followed by what is queued, is what hio_write took, in
\* the order of the calls: direct writes, queued writes and nio_write never
\* reorder, lose or repeat a unit, and closing only cuts off the end.
StreamOrder ==
    /\ \A c \in 1 .. MaxConn : IsPrefix(sent[c], accepted[c])
    /\ sock # 0 /\ ~io.closed => sent[sock] \o FlattenSeq(wq) = accepted[sock]

\* io->write_bufsize, which hio_write_is_complete and the limit rely on, is the
\* number of queued units, and is within the limit.
BufsizeExact ==
    ~io.closed => io.bufsize = Len(FlattenSeq(wq)) /\ io.bufsize <= MaxWriteBufsize

\* Queued data is never forgotten: HV_WRITE stays asked for.
WriteArmed == wq # << >> /\ ~io.closed /\ mutex = NoThread => "W" \in io.events

\* When nio_write frees and pops the front buffer after write_cb, that buffer is
\* still the front of the queue: the assertion in pop_front, and no double free.
PopHasFront == lpc = "wcb" /\ full => wq # << >> /\ Head(wq) = << >>

\* A unit is sent on the connection for which hio_write was called.
RightConnection == \A c \in 1 .. MaxConn : \A i \in DOMAIN sent[c] : sent[c][i][2] = c

\* A connection is closed only if somebody asked for that one, or it failed: a
\* posted close, or a timer, of an earlier use of the object does not reach it.
ClosedForReason == over \subseteq due

\* The only live close timer is the one the object knows; a closed object has
\* none.
TimersOwned ==
    /\ timers \subseteq {io.close_timer}
    /\ lpc = "top" /\ io.closed => timers = {} /\ ~io.connect_timer

\* close_cb is called at most once in each use of the object.
CloseCbOnce == [][lpc = "ccb" /\ lpc' = "fd" => io.id \notin over]_vars

\* A close that was asked for, or made necessary by an error, is carried out,
\* even if the peer never takes the queued data.
CloseCompletes == \A i \in 1 .. MaxConn : i \in due ~> i \in over
=============================================================================
