------------------------------ MODULE WsFrames ------------------------------
(***************************************************************************)
(* WebSocket messages from several threads to the other end:               *)
(* WebSocketChannel::send (http/WebSocketChannel.cpp), which cuts a long   *)
(* message into fragments, websocket_build_frame, and the parser           *)
(* (http/websocket_parser.c, http/WebSocketParser.cpp), which is fed what  *)
(* a read returned, wherever that ends.                                    *)
(*                                                                         *)
(* A byte of the payload is a bit, and xor is addition modulo 2.  The      *)
(* lengths at which the header grows (126 and 65536), the bytes of an      *)
(* extended length (2 and 8) and their base (256) are constants.           *)
(***************************************************************************)
EXTENDS Integers, Sequences, SequencesExt

CONSTANTS
    Senders,    \* threads that send
    Payloads,   \* what they send
    MaxSends,   \* bound on the messages of a thread
    Fragment,   \* the longest fragment (65535)
    Masks,      \* the masks of a client; a server has none: {}
    Inline,     \* the shortest length that has bytes of its own (126)
    Base,       \* of these bytes (256)
    LongBytes   \* how many a long one has (8)

VARIABLES
    todo,    \* frames a thread has still to write: [op, fin, data]
    sends,   \* messages a thread has begun
    mutex_,  \* who holds the lock, or 0
    wire,    \* bytes written and not yet read
    wp,      \* websocket_parser and WebSocketParser
    order,   \* ghost: the messages in the order of their locks
    got      \* what onMessage was called with

wsvars == << todo, sends, mutex_, wire, wp, order, got >>

WsInit ==
    /\ todo = [s \in Senders |-> << >>] /\ sends = [s \in Senders |-> 0] /\ mutex_ = 0
    /\ wire = << >>
    /\ wp = [st |-> "s_start", fin |-> FALSE, op |-> "CLOSE", masked |-> FALSE, length |-> 0,
             require |-> 0, mask |-> << 0, 0, 0, 0 >>, mask_offset |-> 0,
             state |-> "WS_FRAME_BEGIN", opcode |-> "CLOSE", message |-> << >>]
    /\ order = << >> /\ got = << >>

-----------------------------------------------------------------------------
(* The sending end.                                                        *)

\* WebSocketChannel::send: whole, or a first fragment, others, and a last one.
FragmentsFor(op, data) ==
    LET n == IF Len(data) <= Fragment THEN 1 ELSE (Len(data) + Fragment - 1) \div Fragment
    IN  [i \in 1 .. n |->
            [op   |-> IF i = 1 THEN op ELSE "CONTINUE",
             fin  |-> i = n,
             data |-> SubSeq(data, (i - 1) * Fragment + 1, IF i = n THEN Len(data) ELSE i * Fragment)]]

\* data_len in n bytes, the most significant first.
LengthBytes(len, n) == [i \in 1 .. n |-> (len \div Base ^ (n - i)) % Base]

Xor(data, mask, offset) ==
    [i \in 1 .. Len(data) |-> (data[i] + mask[((i - 1 + offset) % 4) + 1]) % 2]

websocket_build_frame(f, mask) ==
    LET len == Len(f.data)
        ext == IF len < Inline THEN << >>
               ELSE LengthBytes(len, IF len < Base ^ 2 THEN 2 ELSE LongBytes)
        len7 == IF len < Inline THEN len ELSE IF len < Base ^ 2 THEN Inline ELSE Inline + 1
    IN  << [fin |-> f.fin, op |-> f.op], [masked |-> mask # << >>, len7 |-> len7] >>
        \o ext \o mask \o (IF mask = << >> THEN f.data ELSE Xor(f.data, mask, 0))

\* send, or sendPing, which writes an empty frame.
Send(s, op, data) ==
    /\ todo[s] = << >> /\ sends[s] < MaxSends
    /\ mutex_ = 0
    /\ op = "PING" => data = << >>
    /\ mutex_' = s
    /\ todo' = [todo EXCEPT ![s] = FragmentsFor(op, data)]
    /\ sends' = [sends EXCEPT ![s] = @ + 1]
    /\ order' = Append(order, [op |-> op, data |-> data])
    /\ UNCHANGED << wire, wp, got >>

\* sendFrame; the lock is released after the last.
sendFrame(s, mask) ==
    /\ todo[s] # << >>
    /\ wire' = wire \o websocket_build_frame(Head(todo[s]), mask)
    /\ todo' = [todo EXCEPT ![s] = Tail(@)]
    /\ mutex_' = IF Len(todo[s]) = 1 THEN 0 ELSE mutex_
    /\ UNCHANGED << sends, wp, order, got >>

-----------------------------------------------------------------------------
(* The receiving end.  A step of the parser yields the parser and the      *)
(* messages that were complete.                                            *)

on_frame_header(p) ==
    [p EXCEPT !.opcode  = IF p.op = "CONTINUE" THEN @ ELSE p.op,
              !.message = IF p.state \in {"WS_FRAME_BEGIN", "WS_FRAME_FIN"} THEN << >> ELSE @,
              !.state   = "WS_FRAME_HEADER"]

\* Mutant: every part starts at the beginning of the mask.
on_frame_bodyRestarts(p, data) ==
    [p EXCEPT !.state   = "WS_FRAME_BODY",
              !.message = @ \o (IF p.masked THEN Xor(data, p.mask, 0) ELSE data)]

\* websocket_parser_decode goes on in the mask where the last part ended.
on_frame_body(p, data) ==
    [p EXCEPT !.state       = "WS_FRAME_BODY",
              !.message     = @ \o (IF p.masked THEN Xor(data, p.mask, p.mask_offset) ELSE data),
              !.mask_offset = IF p.masked THEN (@ + Len(data)) % 4 ELSE @]

on_frame_end(p) == [p EXCEPT !.state = IF p.fin THEN "WS_FRAME_FIN" ELSE "WS_FRAME_END"]
Message(p) == IF p.fin THEN << [op |-> p.opcode, data |-> p.message] >> ELSE << >>

\* The header is complete: the body follows, or the frame has none.
Headed(p) ==
    IF p.length > 0 THEN << [on_frame_header(p) EXCEPT !.st = "s_body", !.require = p.length], << >> >>
    ELSE LET q == [on_frame_header(p) EXCEPT !.st = "s_start"] IN << on_frame_end(q), Message(q) >>

AfterLength(p) ==
    IF p.masked THEN << [p EXCEPT !.st = "s_mask", !.require = 4], << >> >> ELSE Headed(p)

\* What the parser does with the byte b, when it is not in a body.
Byte(p, b) ==
    CASE p.st = "s_start" ->
             << [p EXCEPT !.st = "s_head", !.fin = b.fin, !.op = b.op, !.masked = FALSE,
                          !.length = 0, !.mask_offset = 0], << >> >>
      [] p.st = "s_head" ->
             LET q == [p EXCEPT !.masked = b.masked]
             IN  IF b.len7 < Inline THEN AfterLength([q EXCEPT !.length = b.len7])
                 ELSE << [q EXCEPT !.st = "s_length", !.length = 0,
                                   !.require = IF b.len7 = Inline THEN 2 ELSE LongBytes], << >> >>
      [] p.st = "s_length" ->
             LET q == [p EXCEPT !.length = @ * Base + b, !.require = @ - 1]
             IN  IF q.require = 0 THEN AfterLength(q) ELSE << q, << >> >>
      [] p.st = "s_mask" ->
             LET q == [p EXCEPT !.mask[5 - p.require] = b, !.require = @ - 1]
             IN  IF q.require = 0 THEN Headed(q) ELSE << q, << >> >>

\* What it does with the part of a body that is in the buffer.
Body(p, data) ==
    LET q == [on_frame_body(p, data) EXCEPT !.require = @ - Len(data)]
    IN  IF q.require > 0 THEN << q, << >> >>
        ELSE << [on_frame_end(q) EXCEPT !.st = "s_start"], Message(q) >>

RECURSIVE websocket_parser_execute(_, _)
websocket_parser_execute(p, data) ==
    IF data = << >> THEN << p, << >> >>
    ELSE LET n == IF p.st # "s_body" THEN 1
                  ELSE IF p.require <= Len(data) THEN p.require ELSE Len(data)
             one == IF p.st = "s_body" THEN Body(p, SubSeq(data, 1, n)) ELSE Byte(p, data[1])
             more == websocket_parser_execute(one[1], SubSeq(data, n + 1, Len(data)))
         IN  << more[1], one[2] \o more[2] >>

\* FeedRecvData with what a read returned.
FeedRecvData(n) ==
    /\ n <= Len(wire)
    /\ LET r == websocket_parser_execute(wp, SubSeq(wire, 1, n))
       IN  wp' = r[1] /\ got' = got \o r[2]
    /\ wire' = SubSeq(wire, n + 1, Len(wire))
    /\ UNCHANGED << todo, sends, mutex_, order >>

MaxRead == 16   \* reads longer than this are those of everything

WsNext ==
    \/ \E s \in Senders, op \in {"TEXT", "PING"}, data \in Payloads : Send(s, op, data)
    \/ \E s \in Senders, mask \in IF Masks = {} THEN {<< >>} ELSE Masks : sendFrame(s, mask)
    \/ \E n \in 1 .. MaxRead : FeedRecvData(n)

WsSpec == WsInit /\ [][WsNext]_wsvars

-----------------------------------------------------------------------------

\* The messages of all threads arrive whole, decoded and in the order in which
\* they took the lock, however the reads cut the frames; when everything is
\* read nothing is missing.
MessagesWhole ==
    /\ IsPrefix(got, order)
    /\ wire = << >> /\ (\A s \in Senders : todo[s] = << >>) => got = order
=============================================================================
