---------------------------- MODULE HThreadPool ----------------------------
(***************************************************************************)
(* cpputil/hthreadpool.h: a pool of threads that grows in commit and       *)
(* shrinks when threads have been idle for max_idle_time.  A committer     *)
(* makes one call of commit; the owner calls start, pause, resume, wait    *)
(* and stop.  A step is what one thread does between two accesses that     *)
(* other threads can tell apart; in particular the counters are atomics    *)
(* changed one at a time, and the mutexes are held across steps.           *)
(*                                                                         *)
(* The task of a commit is named by its committer.  Time is abstract: a    *)
(* wait may run out at any moment.                                         *)
(***************************************************************************)
EXTENDS Integers, Sequences, FiniteSets

CONSTANTS
    Committers, Owner,
    Threads,                         \* names for std::threads; a joined one is used again
    min_thread_num, max_thread_num,
    MaxPauses,                       \* bound on the calls of pause
    StopRaces,                       \* may a commit and a stop run at the same time?
    NoThread

TpAssumption ==
    /\ min_thread_num \in Nat /\ max_thread_num \in Nat
    /\ MaxPauses \in Nat /\ StopRaces \in BOOLEAN
    /\ IsFiniteSet(Threads) /\ IsFiniteSet(Committers)
    /\ Owner \notin Committers /\ NoThread \notin Threads

Callers == Committers \cup {Owner}

VARIABLES
    status, cur_thread_num, idle_thread_num,
    tasks,            \* the queue
    task_mutex,       \* the pool thread that holds it, or NoThread
    thread_mutex,     \* the pool thread or the caller that holds it, or NoThread
    listed, marked,   \* threads in the list, and those of them marked STOP
    pc,               \* where each pool thread is
    taken,            \* the task a pool thread has taken
    cpc, ret, left,   \* where a caller is, returns to, and the threads start has yet to create
    new,              \* the thread a caller has created and not yet added
    seenIdle,         \* wait: the value it has read
    before, shrunk,   \* wait: tasks committed before it; has a thread left the pool meanwhile?
    done,             \* tasks that have been run
    pauses

counters == << cur_thread_num, idle_thread_num >>
pool     == << pc, taken, task_mutex >>
call     == << cpc, ret, left, new >>
waitvars == << seenIdle, before, shrunk >>
tpvars     == << status, counters, tasks, thread_mutex, listed, marked, pool, call, waitvars, done,
               pauses >>

TpInit ==
    /\ status = "STOP" /\ cur_thread_num = 0 /\ idle_thread_num = 0
    /\ tasks = << >> /\ task_mutex = NoThread /\ thread_mutex = NoThread
    /\ listed = {} /\ marked = {}
    /\ pc = [t \in Threads |-> "none"] /\ taken = [t \in Threads |-> NoThread]
    /\ cpc = [c \in Callers |-> "idle"] /\ ret = [c \in Callers |-> "idle"]
    /\ left = [c \in Callers |-> 0] /\ new = [c \in Callers |-> NoThread]
    /\ seenIdle = 0 /\ before = {} /\ shrunk = FALSE
    /\ done = {} /\ pauses = 0

Go(t, s)   == pc' = [pc EXCEPT ![t] = s]
Goto(c, s) == cpc' = [cpc EXCEPT ![c] = s]

-----------------------------------------------------------------------------
(* start, createThread and addThread, called by commit or by the owner. *)

commit(c) ==
    /\ cpc[c] = "idle"
    /\ StopRaces \/ cpc[Owner] \notin {"notifyAll", "join"}
    /\ cpc' = [cpc EXCEPT ![c] = IF status = "STOP" THEN "start" ELSE "grow"]
    /\ ret' = [ret EXCEPT ![c] = "grow"]
    /\ UNCHANGED << status, counters, tasks, thread_mutex, listed, marked, pool, left, new,
                    waitvars, done, pauses >>

\* The owner calls start.
OwnerStarts ==
    /\ cpc[Owner] = "idle" /\ status = "STOP"
    /\ Goto(Owner, "start") /\ ret' = [ret EXCEPT ![Owner] = "idle"]
    /\ UNCHANGED << status, counters, tasks, thread_mutex, listed, marked, pool, left, new,
                    waitvars, done, pauses >>

start(c) ==
    /\ cpc[c] = "start"
    /\ Goto(c, IF status # "STOP" THEN ret[c] ELSE "started")
    /\ UNCHANGED << status, counters, tasks, thread_mutex, listed, marked, pool, ret, left, new,
                    waitvars, done, pauses >>

\* status is set, and start_threads brought within the limits.
Started(c) ==
    /\ cpc[c] = "started"
    /\ status' = "RUNNING"
    /\ left' = [left EXCEPT ![c] = IF min_thread_num > max_thread_num THEN max_thread_num
                                   ELSE min_thread_num]
    /\ Goto(c, IF left'[c] = 0 THEN ret[c] ELSE "create")
    /\ UNCHANGED << counters, tasks, thread_mutex, listed, marked, pool, ret, new, waitvars,
                    done, pauses >>

\* After one createThread start goes on with the next.
Back(c) == IF left[c] > 1 THEN "create" ELSE ret[c]
Fewer(c) == [left EXCEPT ![c] = IF @ > 0 THEN @ - 1 ELSE 0]

Joined(t) == pc[t] \in {"none", "exited"} /\ t \notin listed /\ \A c \in Callers : new[c] # t

Full == cur_thread_num >= max_thread_num

createThread(c) ==
    /\ cpc[c] = "create"
    /\ IF Full
       THEN Goto(c, Back(c)) /\ left' = Fewer(c) /\ UNCHANGED << pc, new >>
       ELSE \E t \in Threads :
              /\ Joined(t)
              /\ Go(t, "top") /\ new' = [new EXCEPT ![c] = t]
              /\ Goto(c, "add") /\ UNCHANGED left
    /\ UNCHANGED << status, counters, tasks, thread_mutex, listed, marked, taken, task_mutex,
                    ret, waitvars, done, pauses >>

\* addThread: with thread_mutex, ++cur_thread_num ...
addThread(c) ==
    /\ cpc[c] = "add" /\ thread_mutex = NoThread
    /\ thread_mutex' = c
    /\ cur_thread_num' = cur_thread_num + 1
    /\ Goto(c, "added")
    /\ UNCHANGED << status, idle_thread_num, tasks, listed, marked, pool, ret, left, new,
                    waitvars, done, pauses >>

\* ... and ++idle_thread_num and the list.
Added(c) ==
    /\ cpc[c] = "added"
    /\ thread_mutex' = NoThread
    /\ idle_thread_num' = idle_thread_num + 1
    /\ listed' = listed \cup {new[c]}
    /\ new' = [new EXCEPT ![c] = NoThread]
    /\ Goto(c, Back(c)) /\ left' = Fewer(c)
    /\ UNCHANGED << status, cur_thread_num, tasks, marked, pool, ret, waitvars, done, pauses >>

\* commit: is another thread wanted?  The comparison is one of size_t, in which a
\* negative idle_thread_num is large.
Grow(c) ==
    /\ cpc[c] = "grow"
    /\ Goto(c, IF idle_thread_num \in 0 .. Len(tasks) /\ ~Full
               THEN "create" ELSE "push")
    /\ ret' = [ret EXCEPT ![c] = "push"]
    /\ UNCHANGED << status, counters, tasks, thread_mutex, listed, marked, pool, left, new,
                    waitvars, done, pauses >>

Push(c) ==
    /\ cpc[c] = "push" /\ task_mutex = NoThread
    /\ tasks' = Append(tasks, c)
    /\ Goto(c, "notify")
    /\ UNCHANGED << status, counters, thread_mutex, listed, marked, pool, ret, left, new,
                    waitvars, done, pauses >>

\* Mutant: nobody is told.
WokenByOneNot == {pc}

\* notify_one: some waiting thread, if there is one, wakes up.
WokenByOne ==
    IF \E t \in Threads : pc[t] = "waiting"
    THEN {[pc EXCEPT ![t] = "woken"] : t \in {u \in Threads : pc[u] = "waiting"}}
    ELSE {pc}

Notify(c) ==
    /\ cpc[c] = "notify"
    /\ pc' \in WokenByOne
    /\ Goto(c, "end")
    /\ UNCHANGED << status, counters, tasks, thread_mutex, listed, marked, taken, task_mutex, ret,
                    left, new, waitvars, done, pauses >>

-----------------------------------------------------------------------------
(* A pool thread. *)

\* The loops on status: paused, it spins.
Top(t) ==
    /\ pc[t] = "top" /\ status # "PAUSE"
    /\ Go(t, IF status = "STOP" THEN "exited" ELSE "lock")
    /\ UNCHANGED << status, counters, tasks, thread_mutex, listed, marked, taken, task_mutex, call,
                    waitvars, done, pauses >>

\* wait_for takes the mutex and tests the predicate, first and when woken; a wait
\* that ran out goes on whatever the predicate says.
Lock(t) ==
    /\ pc[t] \in {"lock", "woken", "late"} /\ task_mutex = NoThread
    /\ task_mutex' = t
    /\ Go(t, IF status = "STOP" \/ tasks # << >> \/ pc[t] = "late" THEN "go" ELSE "block")
    /\ UNCHANGED << status, counters, tasks, thread_mutex, listed, marked, taken, call, waitvars,
                    done, pauses >>

\* It blocks and gives up the mutex; status, which needs no mutex, may have
\* changed since the predicate was tested.
Block(t) ==
    /\ pc[t] = "block"
    /\ task_mutex' = NoThread
    /\ Go(t, "waiting")
    /\ UNCHANGED << status, counters, tasks, thread_mutex, listed, marked, taken, call, waitvars,
                    done, pauses >>

TimesOut(t) ==
    /\ pc[t] = "waiting"
    /\ Go(t, "late")
    /\ UNCHANGED << status, counters, tasks, thread_mutex, listed, marked, taken, task_mutex, call,
                    waitvars, done, pauses >>

MayShrink == cur_thread_num > min_thread_num

\* With the mutex: leave, shrink the pool, wait again, or take a task.
Awake(t) ==
    /\ pc[t] = "go"
    /\ \/ /\ status = "STOP"
          /\ Go(t, "exited") /\ task_mutex' = NoThread /\ UNCHANGED idle_thread_num
       \/ /\ status # "STOP" /\ tasks = << >> /\ MayShrink
          /\ Go(t, "delete") /\ UNCHANGED << task_mutex, idle_thread_num >>
       \/ /\ status # "STOP" /\ tasks = << >> /\ ~MayShrink
          /\ Go(t, "top") /\ task_mutex' = NoThread /\ UNCHANGED idle_thread_num
       \/ /\ status # "STOP" /\ tasks # << >>
          /\ Go(t, "pop") /\ idle_thread_num' = idle_thread_num - 1 /\ UNCHANGED task_mutex
    /\ UNCHANGED << status, cur_thread_num, tasks, thread_mutex, listed, marked, taken, call,
                    waitvars, done, pauses >>

Pop(t) ==
    /\ pc[t] = "pop"
    /\ taken' = [taken EXCEPT ![t] = Head(tasks)]
    /\ tasks' = Tail(tasks)
    /\ task_mutex' = NoThread
    /\ Go(t, "run")
    /\ UNCHANGED << status, counters, thread_mutex, listed, marked, call, waitvars, done, pauses >>

IdleAgain == idle_thread_num + 1

Run(t) ==
    /\ pc[t] = "run"
    /\ done' = done \cup {taken[t]}
    /\ taken' = [taken EXCEPT ![t] = NoThread]
    /\ idle_thread_num' = IdleAgain
    /\ Go(t, "top")
    /\ UNCHANGED << status, cur_thread_num, tasks, thread_mutex, listed, marked, task_mutex, call,
                    waitvars, pauses >>

\* delThread, with both mutexes: --cur_thread_num ...
delThread(t) ==
    /\ pc[t] = "delete" /\ thread_mutex = NoThread
    /\ thread_mutex' = t
    /\ cur_thread_num' = cur_thread_num - 1
    /\ shrunk' = (shrunk \/ cpc[Owner] \in {"wait", "compare"})
    /\ Go(t, "deleted")
    /\ UNCHANGED << status, idle_thread_num, tasks, listed, marked, taken, task_mutex, call,
                    seenIdle, before, done, pauses >>

\* ... then --idle_thread_num; threads marked in an earlier second are joined and
\* this one, if it is in the list yet, is marked.
Deleted(t) ==
    /\ pc[t] = "deleted"
    /\ idle_thread_num' = idle_thread_num - 1
    /\ \E old \in SUBSET marked :
          /\ listed' = listed \ old
          /\ marked' = (marked \ old) \cup ({t} \cap listed)
    /\ thread_mutex' = NoThread /\ task_mutex' = NoThread
    /\ Go(t, "exited")
    /\ UNCHANGED << status, cur_thread_num, tasks, taken, call, waitvars, done, pauses >>

-----------------------------------------------------------------------------
(* The owner's other calls. *)

pause ==
    /\ cpc[Owner] = "idle" /\ status = "RUNNING" /\ pauses < MaxPauses
    /\ status' = "PAUSE" /\ pauses' = pauses + 1
    /\ UNCHANGED << counters, tasks, thread_mutex, listed, marked, pool, call, waitvars, done >>

resume ==
    /\ cpc[Owner] = "idle" /\ status = "PAUSE"
    /\ status' = "RUNNING"
    /\ UNCHANGED << counters, tasks, thread_mutex, listed, marked, pool, call, waitvars, done,
                    pauses >>

Committed == {c \in Committers : cpc[c] \in {"notify", "end"}}

wait ==
    /\ cpc[Owner] = "idle" /\ status # "STOP"
    /\ Goto(Owner, "wait")
    /\ before' = Committed /\ shrunk' = \E t \in Threads : pc[t] = "deleted"
    /\ UNCHANGED << status, counters, tasks, thread_mutex, listed, marked, pool, ret, left, new,
                    seenIdle, done, pauses >>

NoTasks == tasks = << >>

\* wait reads the queue, then one counter, then the other, with no mutex.
WaitLooks ==
    /\ cpc[Owner] = "wait" /\ NoTasks
    /\ seenIdle' = idle_thread_num
    /\ Goto(Owner, "compare")
    /\ UNCHANGED << status, counters, tasks, thread_mutex, listed, marked, pool, ret, left, new,
                    before, shrunk, done, pauses >>

WaitCompares ==
    /\ cpc[Owner] = "compare"
    /\ Goto(Owner, IF seenIdle = cur_thread_num THEN "waited" ELSE "wait")
    /\ UNCHANGED << status, counters, tasks, thread_mutex, listed, marked, pool, ret, left, new,
                    waitvars, done, pauses >>

WaitReturns ==
    /\ cpc[Owner] = "waited"
    /\ Goto(Owner, "idle")
    /\ before' = {} /\ shrunk' = FALSE /\ seenIdle' = 0
    /\ UNCHANGED << status, counters, tasks, thread_mutex, listed, marked, pool, ret, left, new,
                    done, pauses >>

stop ==
    /\ cpc[Owner] = "idle" /\ status # "STOP"
    /\ StopRaces \/ \A c \in Committers : cpc[c] \in {"idle", "end"}
    /\ status' = "STOP"
    /\ Goto(Owner, "notifyAll")
    /\ UNCHANGED << counters, tasks, thread_mutex, listed, marked, pool, ret, left, new, waitvars,
                    done, pauses >>

NotifyAll ==
    /\ cpc[Owner] = "notifyAll"
    /\ pc' = [t \in Threads |-> IF pc[t] = "waiting" THEN "woken" ELSE pc[t]]
    /\ Goto(Owner, "join")
    /\ UNCHANGED << status, counters, tasks, thread_mutex, listed, marked, taken, task_mutex, ret,
                    left, new, waitvars, done, pauses >>

\* Every thread in the list is joined, the list and the counters are cleared.  It
\* is the owner's last call; commit starts the pool again.
JoinAll ==
    /\ cpc[Owner] = "join" /\ \A t \in listed : pc[t] = "exited"
    /\ listed' = {} /\ marked' = {}
    /\ cur_thread_num' = 0 /\ idle_thread_num' = 0
    /\ Goto(Owner, "end")
    /\ UNCHANGED << status, tasks, thread_mutex, pool, ret, left, new, waitvars, done, pauses >>

-----------------------------------------------------------------------------

PoolStep(t) ==
    Top(t) \/ Lock(t) \/ Block(t) \/ Awake(t) \/ Pop(t) \/ Run(t) \/ delThread(t) \/ Deleted(t)

CallStep(c) ==
    \/ start(c) \/ Started(c) \/ createThread(c) \/ addThread(c) \/ Added(c)
    \/ c \in Committers /\ (Grow(c) \/ Push(c) \/ Notify(c))

OwnerStep == NotifyAll \/ JoinAll \/ WaitLooks \/ WaitCompares \/ WaitReturns

TpNext ==
    \/ \E t \in Threads : PoolStep(t) \/ TimesOut(t)
    \/ \E c \in Committers : commit(c)
    \/ \E c \in Callers : CallStep(c)
    \/ OwnerStep \/ OwnerStarts \/ pause \/ resume \/ wait \/ stop

TpSpec == TpInit /\ [][TpNext]_tpvars

-----------------------------------------------------------------------------

\* Type invariant; no count of threads is ever negative.
TpTypeOK ==
    /\ status \in {"STOP", "RUNNING", "PAUSE"}
    /\ cur_thread_num \in Nat /\ idle_thread_num \in Int
    /\ tasks \in Seq(Committers) /\ done \subseteq Committers
    /\ task_mutex \in Threads \cup {NoThread}
    /\ thread_mutex \in Threads \cup Callers \cup {NoThread}
    /\ marked \subseteq listed /\ listed \subseteq Threads
    /\ new \in [Callers -> Threads \cup {NoThread}]
    /\ left \in [Callers -> Nat]

\* idle_thread_num is cur_thread_num less the threads that have a task, up to the
\* gap between the two updates in addThread and in delThread.
CountsAgree ==
    cur_thread_num - idle_thread_num =
        Cardinality({t \in Threads : pc[t] \in {"pop", "run"}})
        + Cardinality({c \in Callers : cpc[c] = "added"})
        - Cardinality({t \in Threads : pc[t] = "deleted"})

\* Callers that test cur_thread_num together may all go on to create a thread, so
\* the pool is larger than max_thread_num by at most the other callers.  The threads
\* that leave when idle never take it below min_thread_num.
ThreadLimit ==
    /\ cur_thread_num <= max_thread_num + Cardinality(Callers) - 1
    /\ status # "STOP" /\ (\A c \in Callers : left[c] = 0)
        => cur_thread_num >= min_thread_num \/ min_thread_num > max_thread_num

\* When wait returns, every task committed before it was called has been run -
\* unless a thread left the pool meanwhile, whose delThread lets the two counters
\* look equal with a task still running.
WaitDone == cpc[Owner] = "waited" => before \subseteq done \/ shrunk

\* No wakeup is lost: while a task is queued, some thread is on its way to the
\* queue or a notify_one is still to come, so no task waits for a timeout.  (A task left
\* over by stop is found by the first thread that the next start creates.)
NoLostWakeup ==
    tasks # << >> /\ status # "STOP" =>
        \/ \E t \in Threads : pc[t] \in {"top", "lock", "woken", "late", "go", "pop", "run"}
        \/ \E c \in Committers : cpc[c] = "notify"
        \/ \E c \in Callers : left[c] > 0

(***************************************************************************)
(* A task in the queue has a thread that will come for it, and when wait   *)
(* returns the tasks committed before it are done, unless a thread left    *)
(* the pool meanwhile; for the two counters it decides by differ by the    *)
(* threads that run a task and those being created or leaving, and their   *)
(* number stays within the limits up to one racing commit per caller       *)
(* (hthreadpool.h:131-205).                                                *)
(***************************************************************************)
TasksServed == TpTypeOK /\ CountsAgree /\ ThreadLimit /\ NoLostWakeup /\ WaitDone
=============================================================================
