------------------------------ MODULE LoopPost ------------------------------
(***************************************************************************)
(* Posting to a running loop from other threads, and stopping, pausing and *)
(* resuming it: hloop_post_event, eventfd_read_cb, hloop_run, hloop_stop,  *)
(* hloop_pause and hloop_resume of event/hloop.c, and EventLoop::postEvent *)
(* and onCustomEvent of evpp/EventLoop.h, which keep a second queue of     *)
(* functors beside the loop's queue of events.                             *)
(*                                                                         *)
(* Each thread executes its call in the steps other threads can observe.   *)
(* A critical section that only reads and writes data under its mutex is   *)
(* one step; hloop_post_event is not, as the counter of the eventfd is     *)
(* read without custom_events_mutex.                                       *)
(***************************************************************************)
EXTENDS Integers, Sequences, FiniteSets

CONSTANTS
    Posters,   \* threads that call EventLoop::postEvent
    Stoppers,  \* threads that call hloop_stop once
    Pausers,   \* threads that call hloop_pause and then hloop_resume once
    LoopThread,
    MaxPosts,  \* bound on the posts of one thread
    CanFail,   \* may creating or writing the eventfd fail?
    None       \* no thread

Threads == Posters \cup Stoppers \cup Pausers \cup {LoopThread}

ASSUME PostAssumption ==
    /\ IsFiniteSet(Threads)
    /\ LoopThread \notin Posters \cup Stoppers \cup Pausers
    /\ Posters \cap Stoppers = {} /\ Posters \cap Pausers = {} /\ Stoppers \cap Pausers = {}
    /\ None \notin Threads
    /\ MaxPosts \in Nat /\ CanFail \in BOOLEAN

VARIABLES
    status,         \* loop->status
    created,        \* eventfds[EVENTFDS_WRITE_INDEX] != -1
    efd,            \* the counter of the eventfd
    custom_events,  \* the loop's queue: "fn" (onCustomEvent) or "null" (wakeup)
    mutex,          \* holder of custom_events_mutex, or None
    customEvents,   \* EventLoop's queue of functors
    run,            \* where the loop's thread is in hloop_run
    woken,          \* the eventfd was readable when poll returned
    batch,          \* iterations left in eventfd_read_cb
    pc,             \* where a thread is in its call
    posts,          \* posts a thread has made
    ran             \* functors that ran

vars == << status, created, efd, custom_events, mutex, customEvents, run, woken, batch,
           pc, posts, ran >>

Init ==
    /\ status = "STOP"
    /\ created = FALSE /\ efd = 0
    /\ custom_events = << >> /\ mutex = None
    /\ customEvents = << >>
    /\ run = "start" /\ woken = FALSE /\ batch = 0
    /\ pc = [t \in Threads |-> "idle"]
    /\ posts = [t \in Threads |-> 0]
    /\ ran = {}

Goto(t, l) == pc' = [pc EXCEPT ![t] = l]

loopVars == << run, woken, batch, ran >>
fdVars   == << created, efd, custom_events, mutex >>

-----------------------------------------------------------------------------
(* EventLoop::postEvent and hloop_post_event. *)

\* Functor number posts[t] of thread t joins customEvents, under mutex_.
Enqueue(t) ==
    /\ pc[t] = "idle" /\ posts[t] < MaxPosts
    /\ t \in Posters \/ (t = LoopThread /\ run = "fn")
    /\ posts' = [posts EXCEPT ![t] = @ + 1]
    /\ customEvents' = Append(customEvents, << t, posts'[t] >>)
    /\ Goto(t, "lock")
    /\ UNCHANGED << status, fdVars, loopVars >>

Lock(t) ==
    /\ pc[t] = "lock" /\ mutex = None
    /\ mutex' = t
    /\ Goto(t, "write")
    /\ UNCHANGED << status, created, efd, custom_events, customEvents, loopVars, posts >>

\* Mutant: hloop_stop only wakes the loop.
AfterPostNoStop(t) == IF t \in Stoppers THEN "stopped" ELSE "idle"

\* Where a thread goes on after hloop_post_event.
AfterPost(t) == IF t \in Stoppers THEN "setstop" ELSE "idle"

\* The first post creates the eventfd; then its counter goes up by one.
Write(t) ==
    /\ pc[t] = "write"
    /\ created' = TRUE
    /\ efd' = efd + 1
    /\ Goto(t, "push")
    /\ UNCHANGED << status, custom_events, mutex, customEvents, loopVars, posts >>

\* Mutant: the event is queued although nothing was written.
WriteFailsQueued(t) ==
    /\ CanFail
    /\ pc[t] = "write"
    /\ created' \in {created, TRUE}
    /\ Goto(t, "push")
    /\ UNCHANGED << status, efd, custom_events, mutex, customEvents, loopVars, posts >>

\* eventfd() or write() fails: the event is not queued.
WriteFails(t) ==
    /\ CanFail
    /\ pc[t] = "write"
    /\ created' \in {created, TRUE}
    /\ mutex' = None
    /\ Goto(t, AfterPost(t))
    /\ UNCHANGED << status, efd, custom_events, customEvents, loopVars, posts >>

Push(t) ==
    /\ pc[t] = "push"
    /\ custom_events' = Append(custom_events, IF t \in Stoppers THEN "null" ELSE "fn")
    /\ mutex' = None
    /\ Goto(t, AfterPost(t))
    /\ UNCHANGED << status, created, efd, customEvents, loopVars, posts >>

PostStep(t) == Lock(t) \/ Write(t) \/ WriteFails(t) \/ Push(t)

-----------------------------------------------------------------------------
(* hloop_stop from another thread, hloop_pause and hloop_resume. *)

\* A loop that does not run is left alone (-2); otherwise hloop_wakeup posts an
\* event without callback.
StopTest(t) ==
    /\ t \in Stoppers /\ pc[t] = "idle"
    /\ Goto(t, IF status = "STOP" THEN "refused" ELSE "lock")
    /\ UNCHANGED << status, fdVars, customEvents, loopVars, posts >>

StopSet(t) ==
    /\ pc[t] = "setstop"
    /\ status' = "STOP"
    /\ Goto(t, "stopped")
    /\ UNCHANGED << fdVars, customEvents, loopVars, posts >>

\* The status is read, and written in a later step.
PauseTest(t) ==
    /\ t \in Pausers /\ pc[t] = "idle"
    /\ status = "RUNNING"
    /\ Goto(t, "setpause")
    /\ UNCHANGED << status, fdVars, customEvents, loopVars, posts >>

PauseSet(t) ==
    /\ pc[t] = "setpause"
    /\ status' = "PAUSE"
    /\ Goto(t, "paused")
    /\ UNCHANGED << fdVars, customEvents, loopVars, posts >>

ResumeTest(t) ==
    /\ pc[t] = "paused"
    /\ Goto(t, IF status = "PAUSE" THEN "setresume" ELSE "resumed")
    /\ UNCHANGED << status, fdVars, customEvents, loopVars, posts >>

ResumeSet(t) ==
    /\ pc[t] = "setresume"
    /\ status' = "RUNNING"
    /\ Goto(t, "resumed")
    /\ UNCHANGED << fdVars, customEvents, loopVars, posts >>

ControlStep(t) == StopSet(t) \/ PauseSet(t) \/ ResumeTest(t) \/ ResumeSet(t)

-----------------------------------------------------------------------------
(* The loop's thread: hloop_run, hloop_process_events, eventfd_read_cb. *)

callVars == << pc, posts >>

RunStarts ==
    /\ run = "start" /\ status # "RUNNING"
    /\ status' = "RUNNING"
    /\ run' = "create"
    /\ UNCHANGED << fdVars, customEvents, woken, batch, ran, callVars >>

\* The eventfd is created unless a post has done so.
CreateEventfds ==
    /\ run = "create" /\ mutex = None
    /\ created' \in IF CanFail THEN {created, TRUE} ELSE {TRUE}
    /\ run' = "top"
    /\ UNCHANGED << status, efd, custom_events, mutex, customEvents, woken, batch, ran, callVars >>

\* The while loop's test; in PAUSE the loop sleeps and tests again.
Top ==
    /\ run = "top" /\ status # "PAUSE"
    /\ run' = IF status = "STOP" THEN "exit" ELSE "poll"
    /\ UNCHANGED << status, fdVars, customEvents, woken, batch, ran, callVars >>

\* hloop_process_ios, which finds the eventfd readable or not: the time is up,
\* another io is ready, or an overdue timer skips the poll.
Poll(w) ==
    /\ run = "poll"
    /\ w => created /\ efd > 0
    /\ woken' = w
    /\ run' = "polled"
    /\ UNCHANGED << status, fdVars, customEvents, batch, ran, callVars >>

\* "wakeup by hloop_stop", or on to the pending events.
Polled ==
    /\ run = "polled"
    /\ run' = IF status # "STOP" /\ woken THEN "read" ELSE "top"
    /\ UNCHANGED << status, fdVars, customEvents, woken, batch, ran, callVars >>

\* Mutant: one event per readiness, whatever the count.
ReadOne ==
    /\ run = "read" /\ efd > 0
    /\ batch' = 1 /\ efd' = 0
    /\ run' = "drain"
    /\ UNCHANGED << status, created, custom_events, mutex, customEvents, woken, ran, callVars >>

\* read() on the eventfd gives its counter and resets it; it blocks on 0.
Read ==
    /\ run = "read" /\ efd > 0
    /\ batch' = efd /\ efd' = 0
    /\ run' = "drain"
    /\ UNCHANGED << status, created, custom_events, mutex, customEvents, woken, ran, callVars >>

\* One round of eventfd_read_cb: an empty queue ends the callback; an event
\* without cb is dropped; ev.cb is onCustomEvent.
Pop ==
    /\ run = "drain" /\ batch > 0 /\ mutex = None
    /\ IF custom_events = << >>
       THEN /\ batch' = 0
            /\ UNCHANGED << custom_events, run >>
       ELSE /\ batch' = batch - 1
            /\ custom_events' = Tail(custom_events)
            /\ run' = IF Head(custom_events) = "fn" THEN "cb" ELSE "drain"
    /\ UNCHANGED << status, created, efd, mutex, customEvents, woken, ran, callVars >>

DrainEnds ==
    /\ run = "drain" /\ batch = 0
    /\ run' = "top"
    /\ UNCHANGED << status, fdVars, customEvents, woken, batch, ran, callVars >>

\* Mutant: onCustomEvent leaves the functor on the queue.
onCustomEventPeeks ==
    /\ run = "cb" /\ customEvents # << >>
    /\ ran' = ran \cup {Head(customEvents)}
    /\ run' = "fn"
    /\ UNCHANGED << status, fdVars, customEvents, woken, batch, callVars >>

\* onCustomEvent pops the front functor, under mutex_, and calls it.
onCustomEvent ==
    /\ run = "cb" /\ customEvents # << >>
    /\ ran' = ran \cup {Head(customEvents)}
    /\ customEvents' = Tail(customEvents)
    /\ run' = "fn"
    /\ UNCHANGED << status, fdVars, woken, batch, callVars >>

\* The functor may post (Enqueue), call hloop_stop, and returns.
FnStops ==
    /\ run = "fn" /\ pc[LoopThread] = "idle" /\ status # "STOP"
    /\ status' = "STOP"
    /\ UNCHANGED << fdVars, customEvents, loopVars, callVars >>

FnReturns ==
    /\ run = "fn" /\ pc[LoopThread] = "idle"
    /\ run' = "drain"
    /\ UNCHANGED << status, fdVars, customEvents, woken, batch, ran, callVars >>

RunReturns ==
    /\ run = "exit"
    /\ status' = "STOP"
    /\ run' = "done"
    /\ UNCHANGED << fdVars, customEvents, woken, batch, ran, callVars >>

LoopStep ==
    \/ RunStarts \/ CreateEventfds \/ Top \/ Polled \/ Read \/ Pop \/ DrainEnds
    \/ onCustomEvent \/ FnReturns \/ RunReturns
    \/ \E w \in BOOLEAN : Poll(w)

Next ==
    \/ LoopStep \/ FnStops
    \/ \E t \in Threads :
        Enqueue(t) \/ StopTest(t) \/ PauseTest(t) \/ PostStep(t) \/ ControlStep(t)

Spec == Init /\ [][Next]_vars

\* Every thread inside a call is scheduled, functors return, a pauser resumes,
\* and the loop is not behind its timers for ever (an overdue timer skips poll).
FairSpec ==
    /\ Spec
    /\ WF_vars(LoopStep)
    /\ SF_vars(Poll(TRUE))
    /\ \A t \in Threads : WF_vars(PostStep(t)) /\ WF_vars(ControlStep(t))

-----------------------------------------------------------------------------

\* Type invariant; a thread inside hloop_post_event's critical section is the
\* one that holds custom_events_mutex, and batch lives in eventfd_read_cb only.
TypeOK ==
    /\ status \in {"STOP", "RUNNING", "PAUSE"}
    /\ created \in BOOLEAN /\ woken \in BOOLEAN
    /\ efd \in Nat /\ batch \in Nat
    /\ custom_events \in Seq({"fn", "null"})
    /\ mutex \in Threads \cup {None}
    /\ customEvents \in Seq(Threads \X Nat)
    /\ run \in {"start", "create", "top", "poll", "polled", "read", "drain", "cb", "fn",
                "exit", "done"}
    /\ pc \in [Threads -> {"idle", "lock", "write", "push", "setstop", "stopped", "refused",
                           "setpause", "paused", "setresume", "resumed"}]
    /\ posts \in [Threads -> Nat]
    /\ ran \subseteq Threads \X Nat
    /\ \A t \in Threads : pc[t] \in {"write", "push"} <=> mutex = t
    /\ run \notin {"drain", "cb", "fn"} => batch = 0

\* Every unit of the eventfd's counter, read or not, stands for one queued
\* event, or for the one its writer is about to queue: hloop_post_event writes
\* before it pushes, and eventfd_read_cb pops one event per unit.
WakeupAccounted ==
    efd + batch =
        Len(custom_events) + (IF mutex # None /\ pc[mutex] = "push" THEN 1 ELSE 0)

\* The event a unit of the counter announces is in the queue when the loop gets
\* the mutex: the early exit of eventfd_read_cb, which would forget the rest of
\* the count, is never taken.
PopFinds == run = "drain" /\ batch > 0 /\ mutex = None => custom_events # << >>

\* The loop reads the (blocking) eventfd only when it is readable, so a post
\* never leaves the loop blocked outside of poll.
ReadNeverBlocks == run = "read" \/ (run = "polled" /\ woken) => efd > 0

Calling(t) == t \notin Stoppers /\ pc[t] \in {"lock", "write", "push"}

\* EventLoop's queue of functors holds one functor for every onCustomEvent that
\* is queued, running or about to be posted; front() is never called on an
\* empty queue.  A post that failed leaves its functor behind.
FunctorsAccounted ==
    LET due == Cardinality({i \in 1 .. Len(custom_events) : custom_events[i] = "fn"})
                 + Cardinality({t \in Threads : Calling(t)})
                 + (IF run = "cb" THEN 1 ELSE 0)
    IN  Len(customEvents) >= due /\ (~CanFail => Len(customEvents) = due)

\* A posted functor runs, unless hloop_run returns first: no wakeup is lost,
\* whatever the interleaving of posts, reads, stops and pauses.
EveryFunctorRuns ==
    \A t \in Threads, n \in 1 .. MaxPosts :
        posts[t] >= n ~> (<< t, n >> \in ran \/ run = "done")

\* When hloop_stop has returned 0 in another thread, hloop_run returns, so that
\* joining the loop's thread ends.
StopEndsRun == \A t \in Stoppers : pc[t] = "stopped" ~> run = "done"
=============================================================================
