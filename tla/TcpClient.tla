------------------------------ MODULE TcpClient ------------------------------
(***************************************************************************)
(* A TCP client with reconnection (evpp/TcpClient.h, Channel.h, and the    *)
(* reconn_setting of event/hloop.h): one loop thread, an application that  *)
(* starts, writes and closes from any thread, and a peer that accepts,     *)
(* refuses and disconnects.  Each socket has a Channel; the io keeps a     *)
(* bare pointer to it (hio_set_context) and uses it when it closes.        *)
(***************************************************************************)
EXTENDS Integers, Sequences

CONSTANTS
    MaxSockets,   \* sockets ever created
    MaxRetry,     \* reconn_setting.max_retry_cnt
    MaxPosted,    \* functors in the loop's queue
    Patient       \* the application starts again only when the last socket has
                  \* gone and no reconnection is due

ASSUME ClientAssumption ==
    MaxSockets \in Nat /\ MaxRetry \in Nat /\ MaxPosted \in Nat /\ Patient \in BOOLEAN

None == 0

VARIABLES
    channel,      \* the client's Channel (named by its socket), or None
    cstatus,      \* socket -> Channel::status
    iostate,      \* socket -> "open", "closing" (output left to write), "closed"
    backlog,      \* socket -> output is waiting in the write queue
    reconn,       \* reconn_setting is set
    cur_retry_cnt,
    rtimers,      \* reconnect timers that are due to fire
    posted,       \* functors: "start", "close"
    nofd,         \* ghost: a socket could not be created
    lost,         \* ghost: connections lost since the last success or setReconnect
    ended         \* ghost: closesocket ended a connection and nobody has started since

clvars == << channel, cstatus, iostate, backlog, reconn, cur_retry_cnt, rtimers, posted,
             nofd, lost, ended >>

Sockets == 1 .. Len(cstatus)

ClInit ==
    /\ channel = None
    /\ cstatus = << >> /\ iostate = << >> /\ backlog = << >>
    /\ reconn \in BOOLEAN
    /\ cur_retry_cnt = 0 /\ rtimers = 0 /\ posted = << >>
    /\ nofd = FALSE /\ lost = 0 /\ ended = FALSE

isOpened(c) == c # None /\ cstatus[c] # "CLOSED" /\ iostate[c] = "open"
Connecting(c) == c # None /\ cstatus[c] \in {"CONNECTING", "CONNECTED"}

\* startConnect: a new socket unless the channel is open (createsocket may
\* fail, its host may not resolve), and a connect unless one is under way.
StartConnect ==
    \/ /\ ~isOpened(channel)
       /\ Len(cstatus) < MaxSockets
       /\ cstatus' = Append(cstatus, "CONNECTING")
       /\ iostate' = Append(iostate, "open")
       /\ backlog' = Append(backlog, FALSE)
       /\ channel' = Len(cstatus')
       /\ UNCHANGED nofd
    \/ /\ ~isOpened(channel)
       /\ nofd' = TRUE
       /\ UNCHANGED << channel, cstatus, iostate, backlog >>
    \/ /\ isOpened(channel)
       /\ cstatus' = [cstatus EXCEPT ![channel] = IF @ = "OPENED" THEN "CONNECTING" ELSE @]
       /\ UNCHANGED << channel, iostate, backlog, nofd >>

\* createsocket called by the application before start: the channel is only open.
CreateSocket ==
    /\ channel = None /\ posted = << >>
    /\ cstatus' = << "OPENED" >> /\ iostate' = << "open" >> /\ backlog' = << FALSE >>
    /\ channel' = 1
    /\ UNCHANGED << reconn, cur_retry_cnt, rtimers, posted, nofd, lost, ended >>

\* onclose: startReconnect, if reconnection is (still) configured.
OnClose(configured) ==
    /\ cur_retry_cnt' = IF configured THEN cur_retry_cnt + 1 ELSE 0
    /\ rtimers' = IF configured /\ cur_retry_cnt' <= MaxRetry THEN rtimers + 1 ELSE rtimers

(***************************************************************************)
(* The network.                                                            *)
(***************************************************************************)
Connected(c) ==
    /\ cstatus[c] = "CONNECTING" /\ iostate[c] = "open"
    /\ cstatus' = [cstatus EXCEPT ![c] = "CONNECTED"]
    /\ cur_retry_cnt' = 0 /\ lost' = 0
    /\ UNCHANGED << channel, iostate, backlog, reconn, rtimers, posted, nofd, ended >>

\* Refused, timed out, or closed by the peer: hio_close, on_close, onclose.
Lost(c) ==
    /\ iostate[c] = "open" /\ cstatus[c] \in {"CONNECTING", "CONNECTED"}
    /\ iostate' = [iostate EXCEPT ![c] = "closed"]
    /\ cstatus' = [cstatus EXCEPT ![c] = "CLOSED"]
    /\ backlog' = [backlog EXCEPT ![c] = FALSE]
    /\ lost' = IF lost > MaxRetry THEN lost ELSE lost + 1
    /\ OnClose(reconn)
    /\ UNCHANGED << channel, reconn, posted, nofd, ended >>

\* The queue of a socket that is closing drains or its close timer fires: the
\* io closes and calls back its Channel.
Drained(c) ==
    /\ backlog[c]
    /\ backlog' = [backlog EXCEPT ![c] = FALSE]
    /\ iostate' = [iostate EXCEPT ![c] = IF @ = "closing" THEN "closed" ELSE @]
    /\ IF iostate[c] = "closing" THEN OnClose(reconn) ELSE UNCHANGED << cur_retry_cnt, rtimers >>
    /\ UNCHANGED << channel, cstatus, reconn, posted, nofd, lost, ended >>

(***************************************************************************)
(* The application, from any thread.                                       *)
(***************************************************************************)
Write(c) ==
    /\ c = channel /\ cstatus[c] = "CONNECTED" /\ iostate[c] = "open"
    /\ ~backlog[c] /\ backlog' = [backlog EXCEPT ![c] = TRUE]
    /\ UNCHANGED << channel, cstatus, iostate, reconn, cur_retry_cnt, rtimers, posted, nofd, lost, ended >>

Start ==
    /\ Len(posted) < MaxPosted
    /\ Patient => posted = << >> /\ rtimers = 0
                  /\ (channel # None => iostate[channel] = "closed" \/ cstatus[channel] = "OPENED")
    /\ posted' = Append(posted, "start")
    /\ ended' = FALSE
    /\ UNCHANGED << channel, cstatus, iostate, backlog, reconn, cur_retry_cnt, rtimers, nofd, lost >>

\* closesocket: nothing to do for a channel that is closed.
Closesocket ==
    /\ Len(posted) < MaxPosted
    /\ channel # None /\ cstatus[channel] # "CLOSED"
    /\ posted' = Append(posted, "close")
    /\ UNCHANGED << channel, cstatus, iostate, backlog, reconn, cur_retry_cnt, rtimers, nofd, lost, ended >>

SetReconnect ==
    /\ ~reconn /\ posted = << >> /\ (channel # None => iostate[channel] = "closed")
    /\ reconn' = TRUE /\ cur_retry_cnt' = 0 /\ lost' = 0
    /\ UNCHANGED << channel, cstatus, iostate, backlog, rtimers, posted, nofd, ended >>

(***************************************************************************)
(* The loop.                                                               *)
(***************************************************************************)
RunStart ==
    /\ posted # << >> /\ Head(posted) = "start"
    /\ posted' = Tail(posted)
    /\ StartConnect
    /\ UNCHANGED << reconn, cur_retry_cnt, rtimers, lost, ended >>

\* Mutant: the reconnect settings survive closesocket.
RunCloseKeepsReconn ==
    /\ posted # << >> /\ Head(posted) = "close"
    /\ posted' = Tail(posted)
    /\ LET c == channel IN
       IF ~isOpened(c)
       THEN UNCHANGED << cstatus, iostate, backlog, rtimers, cur_retry_cnt, ended >>
       ELSE /\ ended' = TRUE
            /\ cstatus' = [cstatus EXCEPT ![c] = "CLOSED"]
            /\ iostate' = [iostate EXCEPT ![c] = IF backlog[c] THEN "closing" ELSE "closed"]
            /\ OnClose(reconn /\ ~backlog[c])
            /\ UNCHANGED backlog
    /\ UNCHANGED << channel, reconn, nofd, lost >>

\* The functor of closesocket: no more reconnection, then Channel::close, which
\* leaves the io open while output is waiting.
RunClose ==
    /\ posted # << >> /\ Head(posted) = "close"
    /\ posted' = Tail(posted)
    /\ reconn' = FALSE
    /\ LET c == channel IN
       IF ~isOpened(c) THEN UNCHANGED << cstatus, iostate, rtimers, ended >>
       ELSE /\ ended' = TRUE
            /\ cstatus' = [cstatus EXCEPT ![c] = "CLOSED"]
            /\ iostate' = [iostate EXCEPT ![c] = IF backlog[c] THEN "closing" ELSE "closed"]
            /\ UNCHANGED rtimers
    /\ cur_retry_cnt' = 0
    /\ UNCHANGED << channel, backlog, nofd, lost >>

ReconnectTimer ==
    /\ rtimers > 0
    /\ rtimers' = rtimers - 1
    /\ StartConnect
    /\ UNCHANGED << reconn, cur_retry_cnt, posted, lost, ended >>

ClNext ==
    \/ \E c \in Sockets : Connected(c) \/ Lost(c) \/ Drained(c) \/ Write(c)
    \/ CreateSocket \/ Start \/ Closesocket \/ SetReconnect
    \/ RunStart \/ RunClose \/ ReconnectTimer

ClSpec == ClInit /\ [][ClNext]_clvars

(***************************************************************************)
(* A Channel that is replaced is destroyed (createsocket, TcpClient.h:69); *)
(* by then its io has closed, so no io is left that would call back        *)
(* through the pointer in its context (Channel::on_close), and the client  *)
(* never holds two sockets.                                                *)
(***************************************************************************)
OneLiveSocket == \A c \in Sockets : iostate[c] # "closed" => c = channel

(***************************************************************************)
(* While reconnection is configured, a client that lost its connection at  *)
(* most max_retry_cnt times in a row is connected, connecting, or has a    *)
(* reconnect timer or a start on its way (onclose, startReconnect): it     *)
(* gives up for no other reason than a socket that could not be created.   *)
(***************************************************************************)
KeepsReconnecting ==
    (reconn /\ ~nofd /\ lost \in 1 .. MaxRetry) =>
        Connecting(channel) \/ rtimers > 0 \/ posted # << >>

(***************************************************************************)
(* When closesocket has ended a connection the client is left alone until  *)
(* the application starts it again: no reconnect timer is set, neither by  *)
(* the close nor by a connection that drains or fails after it             *)
(* (setReconnect(NULL) before channel->close(), TcpClient.h:99).           *)
(***************************************************************************)
EndedStaysEnded == ended => rtimers = 0

(***************************************************************************)
(* A client that was told to reconnect keeps trying after every loss, up   *)
(* to max_retry_cnt in a row, one whose application ended the connection   *)
(* stays disconnected, and either has one socket at a time, the one its    *)
(* channel is for (TcpClient.h:95-185).                                    *)
(***************************************************************************)
ReconnectsAsAsked == EndedStaysEnded /\ KeepsReconnecting /\ OneLiveSocket
=============================================================================
