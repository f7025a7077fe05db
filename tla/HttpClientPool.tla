--------------------------- MODULE HttpClientPool ---------------------------
(***************************************************************************)
(* The asynchronous HTTP client (http/client/AsyncHttpClient.h and .cpp):  *)
(* tasks are queued to the loop, a task takes a connection from the pool   *)
(* or opens one, and its callback is called with the response or with      *)
(* NULL.  Connections break at any time, requests time out, are cancelled  *)
(* by other threads, redirected, and retried with or without a delay;      *)
(* a response that keeps the connection alive puts it back into the pool.  *)
(***************************************************************************)
EXTENDS Integers, Sequences

CONSTANTS
    Task,       \* requests the application sends
    MaxConns,   \* connections ever opened
    RetryCount, \* largest retry_count of a request
    MaxHops,    \* redirections a request meets
    Reply       \* what a server sends back, see OnRead

NoTask == "no task"

ASSUME PoolAssumption ==
    MaxConns \in Nat /\ RetryCount \in Nat /\ MaxHops \in Nat /\ NoTask \notin Task

VARIABLES
    fresh,      \* tasks not sent yet
    queued,     \* tasks whose sendInLoop is posted
    delayed,    \* tasks waiting for a retry timer
    retry,      \* task -> req->retry_count
    hops,       \* task -> redirections still to come
    cancel,     \* tasks whose request is cancelled
    answers,    \* task -> calls of its callback
    cst,        \* connection -> "connecting", "connected", "closing", "gone"
    task,       \* connection -> ctx->task
    armed,      \* connection -> ctx->timerID is a timer that may fire
    stray,      \* connections some other, forgotten timer refers to
    conn_pool   \* idle connections

hcvars == << fresh, queued, delayed, retry, hops, cancel, answers, cst, task, armed, stray, conn_pool >>
taskvars == << fresh, queued, delayed, retry, hops, cancel >>

Conns == 1 .. Len(cst)

HcInit ==
    /\ fresh = Task /\ queued = {} /\ delayed = {} /\ cancel = {}
    /\ retry \in [Task -> 0 .. RetryCount] /\ hops \in [Task -> 0 .. MaxHops]
    /\ answers = [t \in Task |-> 0]
    /\ cst = << >> /\ task = << >> /\ armed = << >> /\ stray = {}
    /\ conn_pool = << >>

Answer(ans, t) == IF t = NoTask THEN ans ELSE [ans EXCEPT ![t] = @ + 1]

(***************************************************************************)
(* The application.                                                        *)
(***************************************************************************)
Send(t) ==
    /\ t \in fresh
    /\ fresh' = fresh \ {t} /\ queued' = queued \cup {t}
    /\ UNCHANGED << delayed, retry, hops, cancel, answers, cst, task, armed, stray, conn_pool >>

Cancel(t) ==
    /\ t \notin cancel /\ answers[t] = 0
    /\ cancel' = cancel \cup {t}
    /\ UNCHANGED << fresh, queued, delayed, retry, hops, answers, cst, task, armed, stray, conn_pool >>

\* ConnPool::remove erases the first element that is equal.
remove(conns, c) ==
    LET at == {i \in DOMAIN conns : conns[i] = c}
        i  == CHOOSE i \in at : \A j \in at : i <= j
    IN  IF at = {} THEN conns ELSE SubSeq(conns, 1, i - 1) \o SubSeq(conns, i + 1, Len(conns))

(***************************************************************************)
(* onclose: out of the pool; a task that is still attached is answered     *)
(* (its response ended with the connection), sent again, or failed; the    *)
(* context goes, and its timer with it.  t and ans are the context's task  *)
(* and the answers given when the connection closes.                       *)
(***************************************************************************)
OnClose(c, t, ans) ==
    /\ cst' = [cst EXCEPT ![c] = "gone"]
    /\ task' = [task EXCEPT ![c] = NoTask]
    /\ armed' = [armed EXCEPT ![c] = FALSE]
    /\ conn_pool' = remove(conn_pool, c)
    /\ UNCHANGED << fresh, hops, cancel, stray >>
    /\ IF t # NoTask /\ t \notin cancel /\ retry[t] > 0
         THEN \/ /\ retry' = [retry EXCEPT ![t] = @ - 1]
                 /\ \/ queued' = queued \cup {t} /\ UNCHANGED delayed
                    \/ delayed' = delayed \cup {t} /\ UNCHANGED queued
                 /\ answers' = ans
              \/ /\ cst[c] # "connecting"      \* the parser saw the end of the response
                 /\ answers' = Answer(ans, t)
                 /\ UNCHANGED << queued, delayed, retry >>
         ELSE answers' = Answer(ans, t) /\ UNCHANGED << queued, delayed, retry >>

\* Channel::close: nothing if it is closed already; the io may have to write
\* its output first.
Close(c, t, ans) ==
    \/ /\ cst[c] # "closing"
       /\ OnClose(c, t, ans)
    \/ /\ cst[c] # "connecting"
       /\ cst' = [cst EXCEPT ![c] = "closing"]
       /\ task' = [task EXCEPT ![c] = t]
       /\ answers' = ans
       /\ UNCHANGED << taskvars, stray, conn_pool >>
       /\ armed' = [armed EXCEPT ![c] = @ /\ t # NoTask]

(***************************************************************************)
(* doTask.                                                                 *)
(***************************************************************************)
\* Cancelled, too late, unknown host, no socket: sendInLoop answers NULL.
TaskFails(t) ==
    /\ t \in queued
    /\ queued' = queued \ {t}
    /\ answers' = Answer(answers, t)
    /\ UNCHANGED << fresh, delayed, retry, hops, cancel, cst, task, armed, stray, conn_pool >>

\* A pooled connection: the context takes the task and a new timer.
TaskReuses(t) ==
    /\ t \in queued \ cancel /\ conn_pool # << >>
    /\ queued' = queued \ {t}
    /\ LET c == Head(conn_pool) IN
       /\ cst[c] # "gone"
       /\ task' = [task EXCEPT ![c] = t]
       /\ stray' = IF armed[c] THEN stray \cup {c} ELSE stray
       /\ armed' = [armed EXCEPT ![c] = TRUE]
    /\ conn_pool' = Tail(conn_pool)
    /\ UNCHANGED << fresh, delayed, retry, hops, cancel, answers, cst >>

TaskConnects(t) ==
    /\ t \in queued \ cancel /\ conn_pool = << >> /\ Len(cst) < MaxConns
    /\ queued' = queued \ {t}
    /\ cst' = Append(cst, "connecting")
    /\ task' = Append(task, t) /\ armed' = Append(armed, TRUE)
    /\ UNCHANGED << fresh, delayed, retry, hops, cancel, answers, stray, conn_pool >>

\* The retry timer calls sendInLoop.
RetryTimer(t) ==
    /\ t \in delayed
    /\ delayed' = delayed \ {t} /\ queued' = queued \cup {t}
    /\ UNCHANGED << fresh, retry, hops, cancel, answers, cst, task, armed, stray, conn_pool >>

(***************************************************************************)
(* Events of a connection.                                                 *)
(***************************************************************************)
\* onconnect: sendRequest, which gives up when the request was cancelled.
Connected(c) ==
    /\ cst[c] = "connecting"
    /\ \/ /\ cst' = [cst EXCEPT ![c] = "connected"]
          /\ UNCHANGED << taskvars, answers, task, armed, stray, conn_pool >>
       \/ task[c] \in cancel /\ OnClose(c, task[c], answers)

\* Mutant: a redirected task stays attached to the connection it came from.
OnReadKeepsTask(c, kind) ==
    /\ cst[c] \in {"connected", "closing"} /\ task[c] \notin cancel \cup {NoTask}
    /\ kind = "redirect" /\ hops[task[c]] > 0
    /\ hops' = [hops EXCEPT ![task[c]] = @ - 1]
    /\ queued' = queued \cup {task[c]}
    /\ armed' = [armed EXCEPT ![c] = FALSE]
    /\ conn_pool' = Append(conn_pool, c)
    /\ UNCHANGED << fresh, delayed, retry, cancel, answers, cst, task, stray >>

\* onread: a response that cannot be parsed, one that ends the connection, one
\* that keeps it, a redirection (its connection is kept or closed), a
\* redirection without a Location.
OnRead(c, kind) ==
    /\ cst[c] \in {"connected", "closing"} /\ task[c] # NoTask
    /\ LET t    == task[c]
           done == /\ task' = [task EXCEPT ![c] = NoTask]
                   /\ armed' = [armed EXCEPT ![c] = FALSE]
           pool == conn_pool' = Append(conn_pool, c) /\ UNCHANGED << cst, stray >>
           shut == /\ cst' \in {[cst EXCEPT ![c] = s] : s \in {"closing", "gone"}}
                   /\ conn_pool' = remove(conn_pool, c)
                   /\ UNCHANGED stray
       IN  IF t \in cancel THEN Close(c, t, answers)
           ELSE \/ /\ kind \in {"bad", "last"}
                   /\ Close(c, NoTask, Answer(answers, t))
                \/ /\ kind = "ok"
                   /\ done /\ pool
                   /\ answers' = Answer(answers, t)
                   /\ UNCHANGED taskvars
                \/ /\ kind = "redirect" /\ hops[t] > 0
                   /\ hops' = [hops EXCEPT ![t] = @ - 1]
                   /\ done /\ (pool \/ shut)
                   /\ queued' = queued \cup {t}
                   /\ UNCHANGED << fresh, delayed, retry, cancel, answers >>
                \/ kind = "nowhere" /\ pool /\ UNCHANGED << taskvars, answers, task, armed >>
                \/ kind = "nowhere" /\ Close(c, t, answers)

\* The connection breaks, cannot be made, or has written what was left.
Broken(c) == cst[c] # "gone" /\ OnClose(c, task[c], answers)

\* The request's timer closes the channel, or finds it closing.
Timeout(c) ==
    /\ armed[c]
    /\ \/ cst[c] # "closing" /\ OnClose(c, task[c], answers)
       \/ /\ cst[c] # "connecting"
          /\ cst' = [cst EXCEPT ![c] = "closing"]
          /\ armed' = [armed EXCEPT ![c] = FALSE]
          /\ UNCHANGED << taskvars, answers, task, stray, conn_pool >>

HcNext ==
    \/ \E t \in Task : Send(t) \/ Cancel(t) \/ TaskFails(t) \/ TaskReuses(t) \/ TaskConnects(t) \/ RetryTimer(t)
    \/ \E c \in Conns : Connected(c) \/ Broken(c) \/ Timeout(c)
    \/ \E c \in Conns, kind \in Reply : OnRead(c, kind)

HcSpec == HcInit /\ [][HcNext]_hcvars

(***************************************************************************)
(* Every request is answered exactly once.  Until its callback is called   *)
(* a task is in one place: not sent, queued, waiting for a retry, or the   *)
(* task of one connection; afterwards in none (doTask, onread, onclose,    *)
(* callback: the paths on which it changes hands).                         *)
(***************************************************************************)
AnsweredOnce ==
    \A t \in Task :
        LET holders == {c \in Conns : task[c] = t}
            waits   == {p \in {"fresh", "queued", "delayed"} :
                          t \in (CASE p = "fresh" -> fresh [] p = "queued" -> queued [] OTHER -> delayed)}
        IN  \/ answers[t] = 1 /\ holders = {} /\ waits = {}
            \/ answers[t] = 0 /\ holders = {} /\ \E p \in waits : waits = {p}
            \/ answers[t] = 0 /\ waits = {} /\ \E c \in holders : holders = {c}

(***************************************************************************)
(* A pooled connection is live and idle (conn_pools holds bare fds,        *)
(* AsyncHttpClient.cpp:120): it is in the pool once, it has no task, and   *)
(* no timer of an earlier request will close it under the next one; a      *)
(* timer's reference to its channel never outlives the channel.            *)
(***************************************************************************)
PoolIsIdle ==
    /\ \A i, j \in 1 .. Len(conn_pool) : conn_pool[i] = conn_pool[j] => i = j
    /\ \A i \in 1 .. Len(conn_pool) :
          LET c == conn_pool[i] IN cst[c] # "gone" /\ task[c] = NoTask /\ ~armed[c]
    /\ stray = {}

(***************************************************************************)
(* Every request of the asynchronous HTTP client is answered exactly once, *)
(* and a pooled connection is live and idle: in the pool once, without a   *)
(* task, and without a timer of an earlier request that would close it     *)
(* under the next one (AsyncHttpClient.cpp:8-150).                         *)
(***************************************************************************)
RequestsAnswered == AnsweredOnce /\ PoolIsIdle
=============================================================================
