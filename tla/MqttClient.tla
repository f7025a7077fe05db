----------------------------- MODULE MqttClient -----------------------------
(***************************************************************************)
(* The MQTT client (mqtt/mqtt_client.c): connecting with an optional       *)
(* connect timeout, reconnecting, keep-alive pings, and publishing from    *)
(* several threads.  One field, cli->timer, names the connect timer or the *)
(* reconnect timer, whichever was added last.  A PUBLISH goes out in two   *)
(* writes, head and payload, under cli->mutex_; every other packet is one  *)
(* write.                                                                  *)
(***************************************************************************)
EXTENDS Integers, Sequences, FiniteSets

CONSTANTS
    Publisher,      \* threads that publish
    MaxIos,         \* sockets ever created
    MaxRetry,       \* max_retry_cnt
    ConnectTimeout, \* a connect timeout is set
    SlowTimeout,    \* the connect timeout may exceed the reconnect delay
    SlowPublish     \* a publish may last longer than the reconnect delay

Nobody == "nobody"

ASSUME MqttAssumption ==
    /\ Nobody \notin Publisher /\ MaxIos \in Nat /\ MaxRetry \in Nat
    /\ {ConnectTimeout, SlowTimeout, SlowPublish} \subseteq BOOLEAN

VARIABLES
    io,          \* cli->io: the number of a socket, 0 before the first
    ios,         \* socket -> "connecting", "up" (login sent), "ready" (CONNACK), "closed"
    connected,   \* cli->connected
    timer,       \* cli->timer: the number of a timer, or 0
    alarms,      \* timers that are set: number, kind, socket they were set for
    ntimer,      \* timers ever added
    reconn, retry_cnt, ping_cnt,
    mutex_,      \* who holds cli->mutex_
    ppc,         \* publisher -> "idle", "lock", "head", "payload"
    half,        \* socket -> the publisher whose payload is due next, or Nobody
    torn,        \* sockets on which a packet was cut by another one
    failed       \* ghost: attempts that failed in a row

mqvars == << io, ios, connected, timer, alarms, ntimer, reconn, retry_cnt, ping_cnt, mutex_,
             ppc, half, torn, failed >>
PubThreads == << mutex_, ppc >>
Wire == << half, torn >>

MqInit ==
    /\ io = 0 /\ ios = << >> /\ connected = FALSE
    /\ timer = 0 /\ alarms = {} /\ ntimer = 0
    /\ reconn \in BOOLEAN /\ retry_cnt = 0 /\ ping_cnt = 0
    /\ mutex_ = Nobody /\ ppc = [p \in Publisher |-> "idle"]
    /\ half = << >> /\ torn = {} /\ failed = 0

Open(i) == i # 0 /\ ios[i] # "closed"

\* hio_write of a whole packet; nothing goes out on a closed io.
WriteWhole(i) == torn' = IF Open(i) /\ half[i] # Nobody THEN torn \cup {i} ELSE torn

Alarm(kind, i) == [no |-> ntimer + 1, kind |-> kind, io |-> i]

\* mqtt_client_add_reconnect_timer; otherwise cli->timer stays what it was, old.
AddReconnectTimer(others, old) ==
    IF reconn /\ retry_cnt < MaxRetry
      THEN /\ retry_cnt' = retry_cnt + 1
           /\ ntimer' = ntimer + 1 /\ timer' = ntimer'
           /\ alarms' = others \cup {Alarm("reconnect", 0)}
      ELSE /\ retry_cnt' = IF reconn THEN MaxRetry + 1 ELSE retry_cnt
           /\ alarms' = others /\ timer' = old /\ UNCHANGED ntimer

(***************************************************************************)
(* mqtt_client_connect, called by the application or a reconnect timer.    *)
(***************************************************************************)
NewSocket(others, old) ==
    /\ Len(ios) < MaxIos
    /\ ios' = Append(ios, "connecting") /\ half' = Append(half, Nobody)
    /\ io' = Len(ios')
    /\ IF ConnectTimeout THEN /\ ntimer' = ntimer + 1 /\ timer' = ntimer'
                       /\ alarms' = others \cup {Alarm("connect", io')}
                  ELSE alarms' = others /\ timer' = old /\ UNCHANGED ntimer
    /\ UNCHANGED << retry_cnt, torn >>

MqConnect ==
    /\ io = 0
    /\ NewSocket(alarms, timer)
    /\ UNCHANGED << connected, reconn, ping_cnt, PubThreads, failed >>

\* The reconnect delay passes, longer than what SlowTimeout and SlowPublish say.
Due(a) ==
    /\ a.kind = "reconnect"
    /\ ~SlowTimeout => \A b \in alarms : b.kind # "connect"
    /\ ~SlowPublish => mutex_ = Nobody

\* reconnect_timer_cb: a new socket; if there is none, the timer is added again.
ReconnectTimer(a) ==
    /\ Due(a)
    /\ \/ NewSocket(alarms \ {a}, 0) /\ UNCHANGED failed
       \/ /\ AddReconnectTimer(alarms \ {a}, 0)
          /\ failed' = failed + 1
          /\ UNCHANGED << io, ios, Wire >>
    /\ UNCHANGED << connected, reconn, ping_cnt, PubThreads >>

(***************************************************************************)
(* The socket's callbacks.                                                 *)
(***************************************************************************)
\* on_connect: the retries start over, the login is sent.
MqOnConnect(i) ==
    /\ ios[i] = "connecting" /\ mutex_ = Nobody
    /\ ios' = [ios EXCEPT ![i] = "up"]
    /\ retry_cnt' = 0 /\ failed' = 0
    /\ WriteWhole(i)
    /\ UNCHANGED << io, connected, timer, alarms, ntimer, reconn, ping_cnt, PubThreads, half >>

\* Mutant: the connect timer is not deleted.
ConnackKeepsTimer(i) ==
    /\ ios[i] = "up"
    /\ ios' = [ios EXCEPT ![i] = "ready"]
    /\ connected' = TRUE /\ ping_cnt' = 0 /\ timer' = 0
    /\ UNCHANGED << io, alarms, ntimer, reconn, retry_cnt, PubThreads, Wire, failed >>

\* An accepting CONNACK deletes the timer cli->timer names.
Connack(i) ==
    /\ ios[i] = "up"
    /\ ios' = [ios EXCEPT ![i] = "ready"]
    /\ connected' = TRUE /\ ping_cnt' = 0
    /\ alarms' = {a \in alarms : a.no # timer} /\ timer' = 0
    /\ UNCHANGED << io, ntimer, reconn, retry_cnt, PubThreads, Wire, failed >>

\* hio_close and on_close: refused, lost, malformed packet, no pong, DISCONNECT.
MqOnClose(i, others, old) ==
    /\ ios' = [ios EXCEPT ![i] = "closed"]
    /\ connected' = FALSE
    /\ AddReconnectTimer(others, old)
    /\ failed' = failed + 1
    /\ UNCHANGED << io, reconn, PubThreads, Wire >>

Lost(i) == Open(i) /\ failed <= MaxRetry /\ MqOnClose(i, alarms, timer) /\ UNCHANGED ping_cnt

\* A PUBLISH, PUBREC, PUBREL or PINGREQ of the server is answered at once.
OnPacket(i) ==
    /\ ios[i] = "ready" /\ mutex_ = Nobody
    /\ WriteWhole(i)
    /\ UNCHANGED << io, ios, connected, timer, alarms, ntimer, reconn, retry_cnt, ping_cnt,
                    PubThreads, half, failed >>

Pong(i) ==
    /\ ios[i] = "ready" /\ ping_cnt > 0
    /\ ping_cnt' = 0
    /\ UNCHANGED << io, ios, connected, timer, alarms, ntimer, reconn, retry_cnt, PubThreads, Wire, failed >>

\* mqtt_send_ping: the fourth ping without an answer closes.
Ping(i) ==
    /\ ios[i] = "ready"
    /\ ping_cnt' = ping_cnt + 1
    /\ IF ping_cnt = 3
         THEN MqOnClose(i, alarms, timer)
         ELSE /\ mutex_ = Nobody /\ WriteWhole(i)
              /\ UNCHANGED << io, ios, connected, timer, alarms, ntimer, reconn, retry_cnt,
                              PubThreads, half, failed >>

\* connect_timeout_cb closes whatever cli->io is by now.
ConnectTimer(a) ==
    /\ a.kind = "connect"
    /\ IF Open(io)
         THEN MqOnClose(io, alarms \ {a}, 0)
         ELSE /\ timer' = 0 /\ alarms' = alarms \ {a}
              /\ UNCHANGED << io, ios, connected, ntimer, reconn, retry_cnt, PubThreads, Wire, failed >>
    /\ UNCHANGED ping_cnt

(***************************************************************************)
(* The application.                                                        *)
(***************************************************************************)
\* mqtt_client_disconnect: no more reconnection, DISCONNECT, close.
Disconnect ==
    /\ io # 0 /\ mutex_ = Nobody
    /\ reconn' = FALSE
    /\ WriteWhole(io)
    /\ ios' = [ios EXCEPT ![io] = "closed"]
    /\ connected' = FALSE
    /\ UNCHANGED << io, timer, alarms, ntimer, retry_cnt, ping_cnt, PubThreads, half, failed >>

\* mqtt_client_publish checks cli->connected, then takes the mutex.
PublishCall(p) ==
    /\ ppc[p] = "idle" /\ connected
    /\ ppc' = [ppc EXCEPT ![p] = "lock"]
    /\ UNCHANGED << io, ios, connected, timer, alarms, ntimer, reconn, retry_cnt, ping_cnt, mutex_, Wire, failed >>

PublishLock(p) ==
    /\ ppc[p] = "lock" /\ mutex_ = Nobody
    /\ mutex_' = p /\ ppc' = [ppc EXCEPT ![p] = "head"]
    /\ UNCHANGED << io, ios, connected, timer, alarms, ntimer, reconn, retry_cnt, ping_cnt, Wire, failed >>

\* Mutant: each write takes the mutex for itself.
PublishHeadUnlocks(p) ==
    /\ ppc[p] = "head"
    /\ WriteWhole(io)
    /\ half' = IF Open(io) THEN [half EXCEPT ![io] = p] ELSE half
    /\ ppc' = [ppc EXCEPT ![p] = IF Open(io) THEN "payload" ELSE "idle"]
    /\ mutex_' = Nobody
    /\ UNCHANGED << io, ios, connected, timer, alarms, ntimer, reconn, retry_cnt, ping_cnt, failed >>

PublishHead(p) ==
    /\ ppc[p] = "head"
    /\ WriteWhole(io)
    /\ half' = IF Open(io) THEN [half EXCEPT ![io] = p] ELSE half
    /\ ppc' = [ppc EXCEPT ![p] = IF Open(io) THEN "payload" ELSE "idle"]
    /\ mutex_' = IF Open(io) THEN p ELSE Nobody
    /\ UNCHANGED << io, ios, connected, timer, alarms, ntimer, reconn, retry_cnt, ping_cnt, failed >>

\* The payload goes to whatever cli->io is by now.
PublishPayload(p) ==
    /\ ppc[p] = "payload"
    /\ torn' = IF Open(io) /\ half[io] # p THEN torn \cup {io} ELSE torn
    /\ half' = IF Open(io) THEN [half EXCEPT ![io] = Nobody] ELSE half
    /\ ppc' = [ppc EXCEPT ![p] = "idle"] /\ mutex_' = Nobody
    /\ UNCHANGED << io, ios, connected, timer, alarms, ntimer, reconn, retry_cnt, ping_cnt, failed >>

MqNext ==
    \/ MqConnect \/ Disconnect
    \/ \E i \in 1 .. Len(ios) : MqOnConnect(i) \/ Connack(i) \/ Lost(i) \/ OnPacket(i) \/ Pong(i) \/ Ping(i)
    \/ \E a \in alarms : ReconnectTimer(a) \/ ConnectTimer(a)
    \/ \E p \in Publisher : PublishCall(p) \/ PublishLock(p) \/ PublishHead(p) \/ PublishPayload(p)

MqSpec == MqInit /\ [][MqNext]_mqvars

(***************************************************************************)
(* A connect timeout closes the attempt it was set for and no other: while *)
(* it is set, its socket is the client's (connect_timeout_cb closes        *)
(* cli->io), and a connection the server has accepted has none             *)
(* (mqtt_client.c:284).                                                    *)
(***************************************************************************)
TimeoutIsOfThisAttempt ==
    \A a \in alarms : a.kind = "connect" => a.io = io /\ ~connected

(***************************************************************************)
(* With several threads publishing while the loop answers and pings, the   *)
(* server receives whole packets on every connection: a head is followed   *)
(* by its own payload (the two writes of mqtt_client_publish).             *)
(***************************************************************************)
PacketsWhole == torn = {}

(***************************************************************************)
(* A client that reconnects does not stall: unless max_retry_cnt attempts  *)
(* failed in a row, it is connected, connecting, or has a reconnect timer  *)
(* set, also when a socket could not be created                            *)
(* (mqtt_client_reconnect adds the timer again on ERR_SOCKET).             *)
(***************************************************************************)
MqttKeepsTrying ==
    (reconn /\ io # 0 /\ failed <= MaxRetry) =>
        Open(io) \/ \E a \in alarms : a.kind = "reconnect"

(***************************************************************************)
(* The MQTT client's connect timeout closes only the attempt it was set    *)
(* for, and a client told to reconnect has an attempt under way or a timer *)
(* set until its retries are used up (mqtt_client.c:202-286).              *)
(***************************************************************************)
MqttReconnects == TimeoutIsOfThisAttempt /\ MqttKeepsTrying
=============================================================================
