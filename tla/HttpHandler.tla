---------------------------- MODULE HttpHandler -----------------------------
(***************************************************************************)
(* One connection of the HTTP server: on_accept, on_recv and on_close of   *)
(* http/server/HttpServer.cpp, HttpHandler (http/server/HttpHandler.cpp)   *)
(* and the HttpResponseWriter it shares with the handlers that answer      *)
(* later, in a thread of hv::async or by the events of the connection.     *)
(*                                                                         *)
(* A request is its headers and its end, each in a read of its own or      *)
(* together with its neighbours.  What its handler does is its kind:       *)
(* "sync" returns a status, "expect" does so after 100 Continue, "reject"  *)
(* fails at the headers, "drop" returns HTTP_STATUS_CLOSE, "end", "chunks" *)
(* and "response" answer from a thread, "file" and "slow" send a large     *)
(* file as it can be written or at a limited rate, "ws" upgrades to        *)
(* WebSocket and "other" to something unknown.                             *)
(***************************************************************************)
EXTENDS Integers, Sequences, SequencesExt

CONSTANTS
    Kinds,        \* the kinds of requests the client makes
    MaxRequests,  \* bound on the requests of a connection
    MaxPieces,    \* pieces a large file is sent in
    MaxUses,      \* connections, one after the other, on the same hio_t
    Pipelining,   \* may the client send on before a late answer is complete?
    Overtaking    \* may it send on between WriteResponse and the End that follows it?

VARIABLES
    sent,       \* the requests of this connection: kind and Connection: keep-alive?
    parsed,     \* how many of their parts FeedRecvData has parsed
    feeding,    \* parts of the present read it has still to parse; -1: not in FeedRecvData
    conn,       \* "open", "closing" (a close is posted) or "closed"
    use,        \* which connection of the io this is (hio_id)
    protocol, state, error, keepalive,
    writer,     \* HttpResponseWriter: state, end, and is its Channel's status CONNECTED?
    resp,       \* HttpResponse: the request its content answers (0: none), keep-alive?
    tasks,      \* calls of async handlers: use, request, what is left to do
    file,       \* HttpResponseWriter::file: "closed", "wait" (for writable) or "tick" (by heartbeat)
    content_length,  \* pieces of the file still to write
    heartbeat,  \* what the heartbeat timer of the io does: "none", "file" or "ping"
    out,        \* ghost: what was given to hio_write: [of a request, part of its answer]
    handled,    \* ghost: requests onMessageComplete was called for
    cut,        \* ghost: the peer closed, a write failed or the first read was refused
    silenced    \* ghost: the writer of an earlier connection stopped the heartbeat

iovars == << conn, use, silenced >>
hhvars == << sent, parsed, feeding, iovars, protocol, state, error, keepalive, writer, resp,
             tasks, file, content_length, heartbeat, out, handled, cut >>

Item(r, part) == [of |-> r, part |-> part]

\* What the client gets for request r; for an upgrade nobody knows, nothing.
Answer(r) ==
    LET is(parts) == [i \in 1 .. Len(parts) |-> Item(r, parts[i])]
        kind == sent[r].kind
    IN  CASE kind \in {"drop", "other"} -> << >>
          [] kind = "expect" -> is(<< "100", "full" >>)
          [] kind = "chunks" -> is(<< "head", "chunk", "chunk", "last" >>)
          [] kind \in {"file", "slow"} -> is(<< "head" >> \o [i \in 1 .. MaxPieces |-> "piece"])
          [] OTHER -> is(<< "full" >>)

Answers(n) == FlattenSeq([r \in 1 .. n |-> Answer(r)])

\* Mutant: Begin leaves the state in which the last answer ended.
BeginWriterKeepsState(w) == [w EXCEPT !.end = FALSE]

\* Mutant: Begin leaves the mark that the answer has ended.
BeginWriterKeepsEnd(w) == [w EXCEPT !.state = "SEND_BEGIN"]

\* HttpResponseWriter::Begin.
BeginWriter(w) == [w EXCEPT !.state = "SEND_BEGIN", !.end = FALSE]

\* A connection is accepted; Init of its HttpHandler runs at the first read.
HhInit ==
    /\ sent = << >> /\ parsed = 0 /\ feeding = -1
    /\ conn = "open" /\ use = 1
    /\ protocol = "UNKNOWN" /\ state = "WANT_RECV" /\ error = FALSE /\ keepalive = TRUE
    /\ writer = [state |-> "SEND_BEGIN", end |-> FALSE, connected |-> TRUE]
    /\ resp = [of |-> 0, ka |-> TRUE] /\ tasks = {}
    /\ file = "closed" /\ content_length = 0 /\ heartbeat = "none"
    /\ out = << >> /\ handled = 0 /\ cut = FALSE /\ silenced = FALSE

-----------------------------------------------------------------------------
(* The client.                                                             *)

\* Requests whose answer may still be under way when FeedRecvData returns.
Late == {"end", "chunks", "response", "file", "slow", "ws"}

\* The client's next request.  It sends none after Connection: close, and, if
\* it does not pipeline over late answers, none before it has the answer to
\* what may be late.
Send(kind, ka) ==
    /\ conn # "closed" /\ Len(sent) < MaxRequests
    /\ sent # << >> => Last(sent).ka /\ Last(sent).kind # "ws"
    /\ kind \in {"ws", "other"} => ka
    /\ Pipelining \/ out = Answers(Len(sent)) \/ \A r \in DOMAIN sent : sent[r].kind \notin Late
    /\ Overtaking \/ \A t \in tasks : t.use = use => sent[t.req].kind # "response"
    /\ sent' = Append(sent, [kind |-> kind, ka |-> ka])
    /\ UNCHANGED << parsed, feeding, iovars, protocol, state, error, keepalive, writer, resp, tasks,
                    file, content_length, heartbeat, out, handled, cut >>

-----------------------------------------------------------------------------
(* The io thread.                                                          *)

Reset ==
    /\ state' = "WANT_RECV" /\ error' = FALSE
    /\ resp' = [of |-> 0, ka |-> TRUE]
    /\ writer' = BeginWriter(writer)
    /\ file' = "closed" /\ heartbeat' = "none"      \* Begin calls endFile
    /\ content_length' = 0

\* on_recv -> FeedRecvData, up to the parser: n parts of what was sent are in
\* the buffer.
Recv(n) ==
    /\ feeding = -1 /\ conn # "closed" /\ protocol \in {"UNKNOWN", "HTTP_V1"}
    /\ n <= 2 * Len(sent) - parsed
    /\ protocol' = "HTTP_V1"
    /\ feeding' = n
    /\ IF state # "WANT_RECV" THEN Reset
       ELSE UNCHANGED << state, error, resp, writer, file, heartbeat, content_length >>
    /\ UNCHANGED << sent, parsed, iovars, keepalive, tasks, out, handled, cut >>

\* The handler is destroyed: ~HttpHandler -> Close, and hio_close has deleted
\* the timers of the io.
Closed ==
    /\ conn' = "closed" /\ feeding' = -1
    /\ writer' = [writer EXCEPT !.connected = FALSE]
    /\ file' = "closed" /\ heartbeat' = "none"

\* The first read is shorter than a request line can be: FeedRecvData refuses.
RefuseFirst ==
    /\ feeding = -1 /\ conn # "closed" /\ protocol = "UNKNOWN" /\ sent # << >>
    /\ Closed /\ cut' = TRUE
    /\ UNCHANGED << sent, parsed, use, silenced, protocol, state, error, keepalive, resp, tasks,
                    content_length, out, handled >>

Parsing(part) ==
    /\ feeding > 0 /\ parsed % 2 = part
    /\ parsed' = parsed + 1 /\ feeding' = feeding - 1
    /\ UNCHANGED << sent, iovars, cut >>

Cur == parsed \div 2 + 1     \* the request being parsed

onHeadersComplete ==
    /\ Parsing(0)
    /\ LET r == Cur
       IN  IF state = "WANT_CLOSE" \/ error
           THEN UNCHANGED << error, keepalive, out >>
           ELSE /\ keepalive' = sent[r].ka
                /\ error' = (sent[r].kind = "reject")
                /\ out' = IF sent[r].kind = "expect" THEN Append(out, Item(r, "100")) ELSE out
    /\ UNCHANGED << protocol, state, writer, resp, tasks, file, content_length, heartbeat, handled >>

\* The request is answered: keepalive ? Reset : close after the read.
Finish ==
    IF keepalive THEN Reset
    ELSE /\ state' = "WANT_CLOSE"
         /\ UNCHANGED << error, resp, writer, file, heartbeat, content_length >>

\* The end of a message nobody looks at any more.
MessageIgnored ==
    /\ Parsing(1) /\ state = "WANT_CLOSE"
    /\ UNCHANGED << protocol, state, error, keepalive, writer, resp, tasks, file, content_length,
                    heartbeat, out, handled >>

Completing(kinds) ==
    /\ Parsing(1) /\ state # "WANT_CLOSE" /\ ~error
    /\ sent[Cur].kind \in kinds
    /\ handled' = handled + 1
    /\ UNCHANGED keepalive

\* SendHttpStatusResponse of what was wrong with the headers, once; error
\* stays, so that on_recv closes.
CompleteRejected ==
    /\ Parsing(1) /\ state # "WANT_CLOSE" /\ error
    /\ IF state = "SEND_DONE" THEN UNCHANGED << out, handled >>
       ELSE out' = Append(out, Item(Cur, "full")) /\ handled' = handled + 1
    /\ state' = "SEND_DONE"
    /\ UNCHANGED << protocol, error, keepalive, writer, resp, tasks, file, content_length, heartbeat >>

\* A handler that returns a status is taken for one that answers later if the
\* writer has been used.
CompleteSync ==
    /\ Completing({"sync", "expect"})
    /\ IF writer.state = "SEND_BEGIN"
       THEN out' = Append(out, Item(Cur, "full")) /\ Finish
       ELSE /\ state' = "HANDLE_CONTINUE"
            /\ UNCHANGED << error, resp, writer, file, heartbeat, content_length, out >>
    /\ UNCHANGED << protocol, tasks >>

CompleteDrop ==
    /\ Completing({"drop"})
    /\ state' = "WANT_CLOSE"
    /\ UNCHANGED << protocol, error, writer, resp, tasks, file, content_length, heartbeat, out >>

Program(kind) ==
    CASE kind = "end" -> << "End" >>
      [] kind = "response" -> << "WriteResponse", "End" >>
      [] kind = "chunks" -> << "WriteChunked", "WriteChunked", "End" >>

\* hv::async(handler, req, writer); the Connection header is that of this request.
CompleteAsync ==
    /\ Completing({"end", "chunks", "response"})
    /\ tasks' = tasks \cup {[use |-> use, req |-> Cur, todo |-> Program(sent[Cur].kind)]}
    /\ resp' = [resp EXCEPT !.ka = keepalive]
    /\ state' = "HANDLE_CONTINUE"
    /\ UNCHANGED << protocol, error, writer, file, content_length, heartbeat, out >>

\* Channel::close(true) of the writer.
CloseAsync(w) == [w EXCEPT !.connected = FALSE]

\* writeFile has written n pieces and stops: all is written ("done"), the
\* socket took the last only in part or the rate is used up ("waits"), the file
\* has ended too early ("short") or a write failed ("fails").
Outcomes(left, n) ==
    (IF n = left THEN {"done"} ELSE {"short", "fails"}) \cup (IF n > 0 THEN {"waits"} ELSE {})

writeFile(r, mode, left, n, outcome, before) ==
    /\ n <= left /\ outcome \in Outcomes(left, n)
    /\ content_length' = left - n
    /\ out' = out \o before \o [i \in 1 .. n |-> Item(r, "piece")]
    /\ file' = IF outcome \in {"done", "fails"} THEN "closed" ELSE mode
    /\ heartbeat' = IF file' = "tick" THEN "file" ELSE "none"
    /\ LET w == [writer EXCEPT !.state = IF outcome = "done" THEN "SEND_END" ELSE "SEND_BODY"]
           closes == outcome = "short" \/ (outcome = "done" /\ ~resp'.ka)
       IN  /\ writer' = IF closes THEN CloseAsync(w) ELSE w
           /\ conn' = IF closes \/ outcome = "fails" THEN "closing" ELSE conn
    /\ cut' = (cut \/ outcome \in {"short", "fails"})

\* ResponseFile of a file too large for memory: EndHeaders, and a first
\* writeFile.
CompleteFile(n, outcome) ==
    /\ feeding > 0 /\ parsed % 2 = 1 /\ state # "WANT_CLOSE" /\ ~error
    /\ sent[Cur].kind \in {"file", "slow"}
    /\ parsed' = parsed + 1 /\ feeding' = feeding - 1 /\ handled' = handled + 1
    /\ resp' = [of |-> Cur, ka |-> keepalive]
    /\ writeFile(Cur, IF sent[Cur].kind = "slow" THEN "tick" ELSE "wait", MaxPieces, n, outcome,
                 IF writer.state = "SEND_BEGIN" THEN << Item(Cur, "head") >> ELSE << >>)
    /\ state' = "HANDLE_CONTINUE"
    /\ UNCHANGED << sent, use, silenced, protocol, error, keepalive, tasks >>

\* The heartbeat of a limited rate, or the write event of a socket that has
\* taken everything: writeFile goes on.
FileEvent(n, outcome) ==
    /\ feeding = -1 /\ conn # "closed"
    /\ file = "wait" \/ (file = "tick" /\ heartbeat = "file")
    /\ writer.connected
    /\ UNCHANGED resp
    /\ writeFile(resp.of, file, content_length, n, outcome, << >>)
    /\ UNCHANGED << sent, parsed, feeding, use, silenced, protocol, state, error, keepalive, tasks, handled >>

\* 101, SwitchWebSocket with its ping timer, and then what follows every
\* answer.
CompleteUpgrade ==
    /\ Completing({"ws"})
    /\ out' = Append(out, Item(Cur, "full"))
    /\ protocol' = "WEBSOCKET"
    /\ IF keepalive THEN Reset
       ELSE /\ state' = "WANT_CLOSE" /\ heartbeat' = "ping"
            /\ UNCHANGED << error, resp, writer, file, content_length >>
    /\ UNCHANGED tasks

\* An upgrade to anything else: SetError, and then what follows every answer.
CompleteUnsupported ==
    /\ Completing({"other"})
    /\ Finish
    /\ UNCHANGED << protocol, tasks, out >>

\* FeedRecvData returns to on_recv.
FeedReturns ==
    /\ feeding = 0
    /\ IF state = "WANT_CLOSE" \/ error THEN Closed
       ELSE feeding' = -1 /\ UNCHANGED << conn, writer, file, heartbeat >>
    /\ UNCHANGED << sent, parsed, use, silenced, protocol, state, error, keepalive, resp, tasks,
                    content_length, out, handled, cut >>

\* The close that was posted, or one by the peer.
CloseEvent ==
    /\ feeding = -1 /\ conn # "closed"
    /\ cut' = (cut \/ conn = "open")
    /\ Closed
    /\ UNCHANGED << sent, parsed, use, silenced, protocol, state, error, keepalive, resp, tasks,
                    content_length, out, handled >>

\* A write fails: hio_write posts a close.
WriteError ==
    /\ conn = "open" /\ out # << >>
    /\ conn' = "closing" /\ cut' = TRUE
    /\ UNCHANGED << sent, parsed, feeding, use, silenced, protocol, state, error, keepalive, writer, resp, tasks,
                    file, content_length, heartbeat, out, handled >>

\* on_accept of the next connection with this descriptor.
Reopen ==
    /\ conn = "closed" /\ use < MaxUses
    /\ sent' = << >> /\ parsed' = 0 /\ feeding' = -1
    /\ conn' = "open" /\ use' = use + 1
    /\ protocol' = "UNKNOWN" /\ keepalive' = TRUE
    /\ state' = "WANT_RECV" /\ error' = FALSE
    /\ writer' = [state |-> "SEND_BEGIN", end |-> FALSE, connected |-> TRUE]
    /\ resp' = [of |-> 0, ka |-> TRUE]
    /\ file' = "closed" /\ content_length' = 0 /\ heartbeat' = "none"
    /\ out' = << >> /\ handled' = 0 /\ cut' = FALSE /\ silenced' = FALSE
    /\ UNCHANGED tasks

-----------------------------------------------------------------------------
(* A thread of hv::async, in the calls of the writer it makes.             *)

Current(t) == t.use = use /\ conn # "closed"
Written(items) == IF writer.connected THEN out \o items ELSE out
Then(t, todo) ==
    tasks' = (tasks \ {t}) \cup (IF todo = << >> THEN {} ELSE {[t EXCEPT !.todo = todo]})
Calling(t, call) ==
    /\ t \in tasks /\ Current(t) /\ Head(t.todo) = call
    /\ UNCHANGED << sent, parsed, feeding, use, silenced, protocol, state, error, keepalive, file,
                    content_length, heartbeat, handled, cut >>

WriteResponse(t) ==
    /\ Calling(t, "WriteResponse")
    /\ resp' = [resp EXCEPT !.of = t.req]
    /\ writer' = [writer EXCEPT !.state = "SEND_BODY"]
    /\ out' = Written(<< Item(t.req, IF writer.state = "SEND_BEGIN" THEN "full" ELSE "body") >>)
    /\ Then(t, Tail(t.todo))
    /\ UNCHANGED conn

WriteChunked(t) ==
    /\ Calling(t, "WriteChunked")
    /\ resp' = [resp EXCEPT !.of = t.req]
    /\ writer' = [writer EXCEPT !.state = "SEND_CHUNKED"]
    /\ out' = Written((IF writer.state = "SEND_BEGIN" THEN << Item(t.req, "head") >> ELSE << >>)
                          \o << Item(t.req, "chunk") >>)
    /\ Then(t, Tail(t.todo))
    /\ UNCHANGED conn

\* End, with the body if that is all the handler writes; the close that may
\* follow the last write is a step of its own.
End(t) ==
    /\ Calling(t, "End")
    /\ LET only == sent[t.req].kind = "end"
           writes == ~writer.end /\ writer.connected
       IN  /\ resp' = IF writes /\ only THEN [resp EXCEPT !.of = t.req] ELSE resp
           /\ out' = CASE ~writes \/ writer.state = "SEND_BODY" -> out
                       [] writer.state = "SEND_CHUNKED" -> Append(out, Item(t.req, "last"))
                       [] OTHER -> Append(out, Item(resp'.of, "full"))
           /\ writer' = [writer EXCEPT !.end = TRUE,
                                      !.state = IF ~writes THEN @
                                                ELSE IF @ = "SEND_CHUNKED" THEN "SEND_CHUNKED_END"
                                                ELSE "SEND_BODY"]
           /\ Then(t, IF writes /\ ~resp.ka THEN << "close" >> ELSE << >>)
    /\ UNCHANGED conn

EndCloses(t) ==
    /\ Calling(t, "close")
    /\ writer' = CloseAsync(writer)
    /\ conn' = "closing"
    /\ Then(t, << >>)
    /\ UNCHANGED << resp, out >>

\* The connection the call was for is gone: nothing is written, and the last
\* holder of the writer destroys it.  ~HttpResponseWriter calls endFile, which
\* stops the heartbeat of the io, whoever uses it now.
StaleTask(t) ==
    /\ t \in tasks /\ ~Current(t)
    /\ tasks' = tasks \ {t}
    /\ IF \E u \in tasks \ {t} : u.use = t.use THEN UNCHANGED << heartbeat, silenced >>
       ELSE heartbeat' = "none" /\ silenced' = (heartbeat # "none" \/ silenced)
    /\ UNCHANGED << sent, parsed, feeding, conn, use, protocol, state, error, keepalive, writer, resp,
                    file, content_length, out, handled, cut >>

-----------------------------------------------------------------------------

FileOutcome == {"done", "waits", "short", "fails"}

IoThread ==
    \/ \E n \in 1 .. 2 * MaxRequests : Recv(n)
    \/ RefuseFirst \/ onHeadersComplete \/ MessageIgnored
    \/ CompleteRejected \/ CompleteSync \/ CompleteDrop \/ CompleteAsync
    \/ \E n \in 0 .. MaxPieces, o \in FileOutcome : CompleteFile(n, o) \/ FileEvent(n, o)
    \/ CompleteUpgrade \/ CompleteUnsupported
    \/ FeedReturns \/ CloseEvent \/ WriteError \/ Reopen

Async == \E t \in tasks :
    WriteResponse(t) \/ WriteChunked(t) \/ End(t) \/ EndCloses(t) \/ StaleTask(t)

HhNext == (\E k \in Kinds, ka \in BOOLEAN : Send(k, ka)) \/ IoThread \/ Async

HhSpec == HhInit /\ [][HhNext]_hhvars

-----------------------------------------------------------------------------

\* The answers leave in the order of the requests, each of them whole and from
\* its own handler, whatever the reads look like and whoever writes them: at
\* any time they are a prefix of all answers after each other.
ResponsesInOrder == IsPrefix(out, Answers(Len(sent)))

Final(item) == item.part # "100"
Closes(r) == ~sent[r].ka \/ sent[r].kind \in {"drop", "reject"}

\* Nothing is owed when nothing is going on: every request that was read is
\* answered, the connection is still open unless one of them closes it, and
\* then it is not open.  What is still under way has something that carries it
\* on: a file sent at a limited rate has its heartbeat, unless the writer of an
\* earlier connection, destroyed late, has taken it away.
NothingOwed ==
    /\ feeding = -1 /\ file = "closed" /\ ~cut /\ (\A t \in tasks : t.use # use) =>
          /\ SelectSeq(out, Final) = SelectSeq(Answers(handled), Final)
          /\ conn = "open" => handled = parsed \div 2 /\ \A r \in 1 .. handled : ~Closes(r)
          /\ conn # "open" => \E r \in DOMAIN sent : Closes(r)
    /\ conn = "open" /\ file = "tick" => heartbeat = "file" \/ silenced

\* An upgraded connection is watched by pings: its keepalive timeout was
\* cancelled for them.
PingsAfterUpgrade == protocol = "WEBSOCKET" /\ conn = "open" /\ feeding = -1 => heartbeat = "ping"
=============================================================================
