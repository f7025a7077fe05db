---------------------------- MODULE EvLoopThread ----------------------------
(***************************************************************************)
(* The life of an event loop thread: evpp/EventLoopThread.h and the        *)
(* run/stop half of evpp/EventLoop.h over hloop_run and hloop_stop         *)
(* (event/hloop.c).  An owner starts the thread and, having waited for it, *)
(* goes on; one stop follows, from the owner's thread or from a functor in *)
(* the loop (a pre functor that fails, or a call of EventLoop::stop).      *)
(* hloop_run frees the hloop_t when it ends (HLOOP_FLAG_AUTO_FREE).        *)
(*                                                                         *)
(* Three words of state are kept apart because the code keeps them apart:  *)
(* the status of the EventLoopThread, of the EventLoop and of the hloop_t. *)
(***************************************************************************)
EXTENDS Integers

CONSTANT
    EarlyStop    \* stop may be called as soon as start has returned; otherwise
                 \* only once the loop has handled an event

ASSUME EvAssumption == EarlyStop \in BOOLEAN

\* Status.h: the order of the values matters, they are compared with <.
kInitialized == 2
kStarting    == 3
kStarted     == 4
kRunning     == 5
kPause       == 6
kStopping    == 7
kStopped     == 8

VARIABLES
    tstatus,   \* EventLoopThread::status_
    estatus,   \* EventLoop::status_
    hstatus,   \* hloop_t::status: "stop", "running", "pause", or "freed"
    loop_,     \* EventLoop::loop_ is not NULL
    lpc,       \* where the loop thread is
    opc,       \* where the owner is
    bySelf,    \* this time the stop comes from the loop thread itself
    woken,     \* the eventfd was written
    handled    \* the loop has handled an event

evvars == << tstatus, estatus, hstatus, loop_, lpc, opc, bySelf, woken, handled >>

EvInit ==
    /\ tstatus = kInitialized /\ estatus = kInitialized
    /\ hstatus = "stop" /\ loop_ = TRUE
    /\ lpc = "none" /\ opc = "start"
    /\ bySelf \in BOOLEAN
    /\ woken = FALSE /\ handled = FALSE

LoopGoes(to) == lpc' = to /\ UNCHANGED << opc, bySelf >>
OwnerGoes(to) == opc' = to /\ UNCHANGED << lpc, bySelf >>

(***************************************************************************)
(* The owner: start(true), then stop(true) unless the loop stops itself.   *)
(***************************************************************************)
Start ==
    /\ opc = "start"
    /\ tstatus' = kStarting
    /\ lpc' = "born" /\ opc' = "wait"
    /\ UNCHANGED << estatus, hstatus, loop_, bySelf, woken, handled >>

\* start polls the loop's status.
StartReturns ==
    /\ opc = "wait" /\ estatus >= kRunning
    /\ OwnerGoes(IF bySelf THEN "join" ELSE "running")
    /\ UNCHANGED << tstatus, estatus, hstatus, loop_, woken, handled >>

Pause ==
    /\ opc = "running" /\ loop_ /\ handled
    /\ \/ estatus = kRunning /\ estatus' = kPause
          /\ hstatus' = IF hstatus = "running" THEN "pause" ELSE hstatus
       \/ estatus = kPause /\ estatus' = kRunning
          /\ hstatus' = IF hstatus = "pause" THEN "running" ELSE hstatus
    /\ UNCHANGED << tstatus, loop_, lpc, opc, bySelf, woken, handled >>

\* An EventLoop that never ran is destroyed: ~EventLoop calls stop.
Destroy ==
    /\ opc = "start"
    /\ OwnerGoes("free")
    /\ UNCHANGED << tstatus, estatus, hstatus, loop_, woken, handled >>

\* EventLoopThread::stop: its status check, and the check of EventLoop::stop.
Stop ==
    /\ opc = "running" /\ (EarlyStop \/ handled)
    /\ tstatus >= kStarting /\ tstatus < kStopping
    /\ tstatus' = kStopping
    /\ OwnerGoes(IF ~loop_ THEN "join" ELSE IF estatus < kRunning THEN "free" ELSE "hstop")
    /\ UNCHANGED << estatus, hstatus, loop_, woken, handled >>

\* EventLoop::stop of a loop that is not running yet frees it.
StopFrees ==
    /\ opc = "free"
    /\ hstatus' = "freed" /\ loop_' = FALSE
    /\ OwnerGoes("join")
    /\ UNCHANGED << tstatus, estatus, woken, handled >>

\* hloop_stop: nothing to do for a loop that is not running; otherwise wake it.
HloopStop ==
    /\ opc = "hstop"
    /\ estatus' = kStopping
    /\ woken' = (woken \/ hstatus # "stop")
    /\ OwnerGoes(IF hstatus = "stop" THEN "null" ELSE "hset")
    /\ UNCHANGED << tstatus, hstatus, loop_, handled >>

\* Mutant: the thread that stops the loop frees it.
HloopStopFrees ==
    /\ opc = "hset"
    /\ hstatus' = "freed"
    /\ OwnerGoes("null")
    /\ UNCHANGED << tstatus, estatus, loop_, woken, handled >>

HloopSetStop ==
    /\ opc = "hset"
    /\ hstatus' = "stop"
    /\ OwnerGoes("null")
    /\ UNCHANGED << tstatus, estatus, loop_, woken, handled >>

StopNull ==
    /\ opc = "null"
    /\ loop_' = FALSE
    /\ OwnerGoes("join")
    /\ UNCHANGED << tstatus, estatus, hstatus, woken, handled >>

JoinReturns ==
    /\ opc = "join" /\ lpc \in {"none", "ended"}
    /\ OwnerGoes("done")
    /\ UNCHANGED << tstatus, estatus, hstatus, loop_, woken, handled >>

(***************************************************************************)
(* The loop thread: loop_thread, EventLoop::run, hloop_run.                *)
(***************************************************************************)
\* The pre functor is queued and posted before the loop runs.
Born ==
    /\ lpc = "born"
    /\ tstatus' = kStarted
    /\ woken' = (woken \/ loop_)
    /\ LoopGoes(IF loop_ THEN "run" ELSE "ran")
    /\ UNCHANGED << estatus, hstatus, loop_, handled >>

EvRun ==
    /\ lpc = "run"
    /\ estatus' = kRunning
    /\ LoopGoes("hrun")
    /\ UNCHANGED << tstatus, hstatus, loop_, woken, handled >>

\* hloop_run(loop_) sets its status; stop may have cleared loop_ by now.
HloopRun ==
    /\ lpc = "hrun"
    /\ IF loop_ THEN hstatus' = "running" /\ LoopGoes("loop")
                ELSE UNCHANGED hstatus /\ LoopGoes("ran")
    /\ UNCHANGED << tstatus, estatus, loop_, woken, handled >>

\* An iteration: it handles what was posted.
Iterate ==
    /\ lpc = "loop" /\ hstatus = "running" /\ woken
    /\ woken' = FALSE /\ handled' = TRUE
    /\ LoopGoes(IF bySelf THEN "selfstop" ELSE "loop")
    /\ UNCHANGED << tstatus, estatus, hstatus, loop_ >>

\* EventLoop::stop called by a functor: no wakeup is needed.
SelfStop ==
    /\ lpc = "selfstop"
    /\ estatus' = kStopping
    /\ hstatus' = "stop" /\ loop_' = FALSE
    /\ LoopGoes("loop")
    /\ UNCHANGED << tstatus, woken, handled >>

\* The while loop of hloop_run ends; HLOOP_FLAG_AUTO_FREE.
LoopEnds ==
    /\ lpc = "loop" /\ hstatus = "stop"
    /\ hstatus' = "freed"
    /\ LoopGoes("ran")
    /\ UNCHANGED << tstatus, estatus, loop_, woken, handled >>

Ran ==
    /\ lpc = "ran"
    /\ estatus' = kStopped /\ tstatus' = kStopped
    /\ LoopGoes("ended")
    /\ UNCHANGED << hstatus, loop_, woken, handled >>

EvDone == opc = "done" /\ UNCHANGED evvars

EvNext ==
    \/ Start \/ StartReturns \/ Destroy \/ Pause \/ Stop \/ StopFrees \/ HloopStop \/ HloopSetStop
    \/ StopNull \/ JoinReturns
    \/ Born \/ EvRun \/ HloopRun \/ Iterate \/ SelfStop \/ LoopEnds \/ Ran \/ EvDone

EvSpec == EvInit /\ [][EvNext]_evvars

(***************************************************************************)
(* "this method will block until loop_thread stopped"                      *)
(* (EventLoopThread.h:59): a stop that waits in join was heard, the loop   *)
(* it waits for has been told to end and is not running on (hloop_stop,    *)
(* hloop.c:502).                                                           *)
(***************************************************************************)
StopIsHeard ==
    (opc = "join" /\ ~bySelf) =>
        ~(lpc = "loop" /\ hstatus \in {"running", "pause"})

(***************************************************************************)
(* hloop_run frees the hloop_t in the loop thread; nobody is then inside   *)
(* hloop_stop, hloop_pause or hloop_run with the pointer (hloop.c:492),    *)
(* and when the owner's join has returned it has been freed.               *)
(***************************************************************************)
FreedAfterLastUse ==
    /\ hstatus = "freed" =>
          /\ opc \notin {"hstop", "hset", "free"} /\ lpc \notin {"born", "run", "hrun", "loop"}
          /\ loop_ => opc = "null"
    /\ opc = "done" => hstatus = "freed"
=============================================================================
