--------------------------- MODULE MCConnections ----------------------------
(***************************************************************************)
(* What carries bytes between two ends, each part explored on its own from *)
(* an initial state that chooses one of them: a TCP connection whose       *)
(* object is reused ("stream") and one that several threads write to       *)
(* ("writers"), a TCP server and a TCP client, the KCP peers of a UDP      *)
(* socket ("rudp") and the KCP protocol between two ends, and the messages *)
(* of several threads over a WebSocket.                                    *)
(***************************************************************************)
EXTENDS TcpServer, TcpClient, Rudp, Kcp

CONSTANTS Loop, Writers, Lens

VARIABLES
    part,       \* the component this behaviour is about
    io, wq, write_mutex, timers, custom, lpc, ret, full, seen, call, sock, conn_no, sent, accepted,
    due, ended_ios, writes, closes,
    frames, nsends, ws_mutex, wire, wp, taken, got

streamvars == << io, wq, write_mutex, timers, custom, lpc, ret, full, seen, call, sock, conn_no,
                 sent, accepted, due, ended_ios, writes, closes >>
socketvars == << frames, nsends, ws_mutex, wire, wp, taken, got >>

\* Two uses of one object, which its user closes, stops reading and starts again.
Stream == INSTANCE HioStream
    WITH mutex <- write_mutex, posted <- custom, conn <- conn_no, over <- ended_ios,
         Writers <- {}, Closers <- {}, Lens <- {1, 2}, MaxWriteBufsize <- 2, MaxWrites <- 2,
         MaxCloses <- 2, MaxConn <- 2, MayFail <- TRUE, LoopReads <- TRUE, CloseAgain <- FALSE

\* One connection with writers in other threads; nothing is refused for size.
Shared == INSTANCE HioStream
    WITH mutex <- write_mutex, posted <- custom, conn <- conn_no, over <- ended_ios,
         Closers <- {}, MaxWriteBufsize <- 12, MaxWrites <- 2, MaxCloses <- 0, MaxConn <- 1,
         MayFail <- FALSE, LoopReads <- FALSE, CloseAgain <- FALSE

\* A message of two segments and one of one, in a window of three.
MCFragments == << 2, 1 >>

ASSUME KcpAssumption

\* Two threads of a WebSocket client, one message each: empty, and in one frame
\* and in two; the header grows at lengths 2 and 4.
Socket == INSTANCE WsFrames
    WITH Senders <- {1, 2}, Payloads <- {<< >>, << 1, 0, 1 >>, << 1, 0, 1, 1, 0, 1 >>}, MaxSends <- 1,
         Fragment <- 5, Masks <- {<< 0, 1, 1, 0 >>, << 1, 0, 0, 0 >>}, Inline <- 2, Base <- 2, LongBytes <- 3,
         todo <- frames, sends <- nsends, mutex_ <- ws_mutex, order <- taken

Parts == {"stream", "writers", "server", "client", "rudp", "kcp", "websocket"}

MCInit ==
    /\ part \in Parts
    /\ is_loop_owner \in IF part = "server" THEN BOOLEAN ELSE {TRUE}
    /\ reconn \in IF part = "client" THEN BOOLEAN ELSE {TRUE}
    /\ IF part = "writers" THEN Shared!Init ELSE Stream!Init
    /\ Init /\ ClInit /\ RudpInit /\ KcpInit /\ Socket!WsInit

\* The variables of the components of ps stay as they are.
Rest(ps) ==
    /\ UNCHANGED part
    /\ "stream" \in ps => UNCHANGED streamvars
    /\ "server" \in ps => UNCHANGED vars
    /\ "client" \in ps => UNCHANGED clvars
    /\ "rudp" \in ps => UNCHANGED rudpvars
    /\ "kcp" \in ps => UNCHANGED kcpvars
    /\ "websocket" \in ps => UNCHANGED socketvars

MCNext ==
    \/ part = "stream" /\ Stream!Next /\ Rest(Parts \ {"stream"})
    \/ part = "writers" /\ Shared!Next /\ Rest(Parts \ {"stream"})
    \/ part = "server" /\ Next /\ Rest(Parts \ {"server"})
    \/ part = "client" /\ ClNext /\ Rest(Parts \ {"client"})
    \/ part = "rudp" /\ RudpNext /\ Rest(Parts \ {"rudp"})
    \/ part = "kcp" /\ KcpNext /\ Rest(Parts \ {"kcp"})
    \/ part = "websocket" /\ Socket!WsNext /\ Rest(Parts \ {"websocket"})

MCSpec == MCInit /\ [][MCNext]_<< part, streamvars, vars, clvars, rudpvars, kcpvars, socketvars >>

-----------------------------------------------------------------------------

(***************************************************************************)
(* What the kernel took is a prefix of what hio_write accepted, in order   *)
(* and per connection, and the rest is exactly the queue; write_bufsize is *)
(* the queue's size, nio_write pops the buffer it has written although     *)
(* write_cb ran in between, and output that is left in the queue has       *)
(* HV_WRITE registered whenever write_mutex is free, so that it does not   *)
(* wait for ever, whoever queued it (nio.c:367-443, 493-567).              *)
(***************************************************************************)
OutputExact ==
    /\ part = "stream" =>
          Stream!StreamOrder /\ Stream!BufsizeExact /\ Stream!PopHasFront /\ Stream!WriteArmed
    /\ part = "writers" => Shared!StreamOrder /\ Shared!BufsizeExact /\ Shared!WriteArmed

(***************************************************************************)
(* A connection is closed only when someone meant that one to be or it     *)
(* failed, its close timer never outlives it, and close_cb runs once per   *)
(* use of the object, though errors, the peer, timers and users all end in *)
(* hio_close (nio.c:593-633).                                              *)
(***************************************************************************)
ClosesOnceForReason ==
    /\ [](part = "stream" => Stream!ClosedForReason /\ Stream!TimersOwned)
    /\ [][lpc = "ccb" /\ lpc' = "fd" => io.id \notin ended_ios]_<< lpc, io, ended_ios >>

(***************************************************************************)
(* While stop waits, some thread can take a step, and when it has returned *)
(* no connection is left open or half set up.                              *)
(***************************************************************************)
StopCompletes == part = "server" => StopNeverHangs /\ StopReleases

(***************************************************************************)
(* The WebSocket messages of all threads arrive whole, decoded and in the  *)
(* order in which they took the channel's lock, whatever their lengths and *)
(* wherever a read ends (WebSocketChannel.cpp, websocket_parser.c).        *)
(***************************************************************************)
MessagesWhole == part = "websocket" => Socket!MessagesWhole
=============================================================================
