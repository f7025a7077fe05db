----------------------------- MODULE LoopEvents -----------------------------
(***************************************************************************)
(* event/hloop.c: one iteration of the event loop and the life of its      *)
(* events (timeouts, periods, idles, ios): the flags active, pending and   *)
(* destroy, the priority lists of pending events, and when the memory of   *)
(* an event is returned.  Everything here runs in the loop's thread; the   *)
(* only foreign step is hloop_stop from another thread.                    *)
(*                                                                         *)
(* Times are relative to loop->cur_hrtime: next[t] is next_timeout minus   *)
(* cur_hrtime, and lag is how far the clock is ahead of cur_hrtime.        *)
(***************************************************************************)
EXTENDS Integers, Sequences, FiniteSets

CONSTANTS
    Timeouts,      \* htimer_t objects made by htimer_add
    Periods,       \* htimer_t objects made by htimer_add_period
    Idles,         \* hidle_t objects
    Ios,           \* hio_t objects; not freed here but reused when reopened
    Delays,        \* values of timeout_ms
    Repeats,       \* values of repeat
    INFINITE,      \* the largest value of repeat, (uint32_t)-1
    GRAN, COARSE,  \* timeouts >= COARSE divisible by GRAN are rounded down
    MaxBlock,      \* bound on the time one poll, or one callback, takes
    MaxCallsMade,  \* bound on the calls user code makes
    MaxRuns,       \* bound on the calls of hloop_run
    QuitWhenIdle,  \* flag HLOOP_FLAG_QUIT_WHEN_NO_ACTIVE_EVENTS
    DelAfterReset, \* may user code delete a timer it reset in this round?
    DelAfterStop,  \* may it delete an io that a stopped run left pending?
    NoEvent        \* no event

Timers == Timeouts \cup Periods
Counted == Timers \cup Idles
Ev == Counted \cup Ios

ASSUME LoopAssumption ==
    /\ IsFiniteSet(Ev) /\ NoEvent \notin Ev
    /\ Timeouts \cap (Periods \cup Idles \cup Ios) = {}
    /\ Periods \cap (Idles \cup Ios) = {} /\ Idles \cap Ios = {}
    /\ Delays \subseteq Nat \ {0}
    /\ INFINITE \in Nat \ {0} /\ Repeats \subseteq 0 .. INFINITE
    /\ GRAN \in Nat \ {0} /\ COARSE \in Nat /\ COARSE >= GRAN
    /\ MaxBlock \in Nat /\ MaxCallsMade \in Nat /\ MaxRuns \in Nat
    /\ {QuitWhenIdle, DelAfterReset, DelAfterStop} \subseteq BOOLEAN

VARIABLES
    live,        \* events whose memory is allocated
    active, pending, destroy,
    repeat,      \* of timers and idles
    timeout,     \* htimeout_t.timeout
    next,        \* next_timeout - cur_hrtime
    events,      \* hio_t.events
    loop_timers, \* members of loop->timers and loop->realtimers
    idles,       \* members of loop->idles
    pendings,    \* per priority, the list linked by pending_next, not yet visited
    nactives, ntimers, nidles, nios, npendings,
    loop_status, \* loop->status
    phase,       \* cur_hrtime % GRAN
    lag,         \* the clock minus cur_hrtime
    loop_pc,     \* "out" of hloop_run, "poll", "polled", "timers", "dispatch", "cb", "freed";
                 \* "ring" when pending_next has become a ring
    cur,         \* the event whose callback runs, or NoEvent
    owned,       \* ghost: handles user code may still use
    stale,       \* ghost: linked events that were re-armed since they were linked
    budget,      \* ghost: callbacks a timer or idle is still entitled to
    ops, runs

flags    == << live, active, pending, destroy >>
fields   == << repeat, timeout, next, events >>
sets     == << loop_timers, idles, pendings >>
counters == << nactives, ntimers, nidles, nios, npendings >>
clock    == << phase, lag >>
control  == << loop_status, loop_pc, cur, ops, runs >>
ghosts   == << owned, stale, budget >>
loopvars == << flags, fields, sets, counters, clock, control, ghosts >>

\* HEVENT_*_PRIORITY: timeouts HIGHEST, periods HIGH, ios NORMAL, idles LOWEST.
Prio == 1 .. 4
PriorityOf(e) ==
    CASE e \in Timeouts -> 4 [] e \in Periods -> 3 [] e \in Ios -> 2 [] OTHER -> 1

\* Events that hloop_process_pendings has still to visit or is visiting.
Linked == {e \in Ev : e = cur \/ \E p \in Prio : \E i \in DOMAIN pendings[p] : pendings[p][i] = e}

LoopInit ==
    /\ live = Ios
    /\ active = [e \in Ev |-> FALSE]
    /\ pending = [e \in Ev |-> FALSE]
    /\ destroy = [e \in Ev |-> FALSE]
    /\ repeat = [e \in Counted |-> 0]
    /\ timeout = [t \in Timeouts |-> 0]
    /\ next = [t \in Timers |-> 0]
    /\ events = [io \in Ios |-> {}]
    /\ loop_timers = {} /\ idles = {}
    /\ pendings = [p \in Prio |-> << >>]
    /\ nactives = 0 /\ ntimers = 0 /\ nidles = 0 /\ nios = 0 /\ npendings = 0
    /\ loop_status = "STOP"
    /\ phase = 0 /\ lag = 0
    /\ loop_pc = "out" /\ cur = NoEvent
    /\ owned = Ios /\ stale = {}
    /\ budget = [e \in Counted |-> 0]
    /\ ops = 0 /\ runs = 0

-----------------------------------------------------------------------------
(* The macros of hevent.h and the clock. *)

\* Mutant: EVENT_ACTIVE without its test.
EVENT_ACTIVEUnguarded(e) ==
    /\ active' = [active EXCEPT ![e] = TRUE]
    /\ nactives' = nactives + 1

EVENT_ACTIVE(e) ==
    /\ active' = [active EXCEPT ![e] = TRUE]
    /\ nactives' = IF active[e] THEN nactives ELSE nactives + 1

EVENT_INACTIVE(e) ==
    /\ active' = [active EXCEPT ![e] = FALSE]
    /\ nactives' = IF active[e] THEN nactives - 1 ELSE nactives

\* Mutants: EVENT_DEL frees a pending event, or leaves the event active.
EVENT_DELAtOnce(e) == EVENT_INACTIVE(e) /\ live' = live \ {e}

EVENT_DELStillActive(e) ==
    /\ live' = IF pending[e] THEN live ELSE live \ {e}
    /\ UNCHANGED << active, nactives >>

\* EVENT_DEL: inactive, and freed at once unless it is pending.
EVENT_DEL(e) ==
    /\ EVENT_INACTIVE(e)
    /\ live' = IF pending[e] THEN live ELSE live \ {e}

\* HV_ALLOC_SIZEOF gives a zeroed object, EVENT_ADD activates it.
EVENT_ADD(e) ==
    /\ e \notin live
    /\ live' = live \cup {e}
    /\ owned' = owned \cup {e}
    /\ pending' = [pending EXCEPT ![e] = FALSE]
    /\ destroy' = [destroy EXCEPT ![e] = FALSE]
    /\ EVENT_ACTIVE(e)

\* EVENT_RESET clears pending but leaves the event on its list.
EVENT_RESET(e) ==
    /\ destroy' = [destroy EXCEPT ![e] = FALSE]
    /\ EVENT_ACTIVE(e)
    /\ pending' = [pending EXCEPT ![e] = FALSE]

\* Mutant: EVENT_UNPENDING without its effect.
EVENT_UNPENDINGNothing(e) == UNCHANGED << pending, npendings >>

EVENT_UNPENDING(e) ==
    /\ pending' = [pending EXCEPT ![e] = FALSE]
    /\ npendings' = IF pending[e] THEN npendings - 1 ELSE npendings

\* Mutant: the loop's time is not refreshed.
UpdatedNextNever(d) == next

\* hloop_update_time, d after the last moment the model looked at the clock.
\* The next_timeout of a timer off the heap is never read.
UpdatedNext(d) == [t \in Timers |-> IF t \in loop_timers THEN next[t] - lag - d ELSE 0]
UpdatedPhase(d) == (phase + lag + d) % GRAN

\* next_timeout - cur_hrtime for a timeout of d when cur_hrtime % GRAN = ph.
NextExpiry(d, ph) ==
    IF d >= COARSE /\ d % GRAN = 0 THEN d - ((ph + d) % GRAN) ELSE d

-----------------------------------------------------------------------------
(* Calls of user code, made before hloop_run, after it, or in a callback. *)

UserCode ==
    /\ loop_pc \in {"out", "cb"}
    /\ ops < MaxCallsMade
    /\ ops' = ops + 1
    /\ UNCHANGED << loop_status, loop_pc, cur, runs >>

\* The callbacks a new timer or idle gets: --repeat wraps from 0 to INFINITE.
Entitled(r) == IF r = 0 THEN INFINITE ELSE r

\* htimer_add refreshes the loop's time; timeout_ms = 0 is refused.
htimer_add(t, d, r) ==
    /\ UserCode
    /\ EVENT_ADD(t)
    /\ repeat' = [repeat EXCEPT ![t] = r]
    /\ budget' = [budget EXCEPT ![t] = Entitled(r)]
    /\ timeout' = [timeout EXCEPT ![t] = d]
    /\ phase' = UpdatedPhase(0) /\ lag' = 0
    /\ next' = [UpdatedNext(0) EXCEPT ![t] = NextExpiry(d, phase')]
    /\ loop_timers' = loop_timers \cup {t}
    /\ ntimers' = ntimers + 1
    /\ UNCHANGED << events, idles, pendings, nidles, nios, npendings, stale >>

\* htimer_add_period: cron_next_timeout answers a later instant, d from now.
htimer_add_period(t, d, r) ==
    /\ UserCode
    /\ EVENT_ADD(t)
    /\ repeat' = [repeat EXCEPT ![t] = r]
    /\ budget' = [budget EXCEPT ![t] = Entitled(r)]
    /\ next' = [next EXCEPT ![t] = lag + d]
    /\ loop_timers' = loop_timers \cup {t}
    /\ ntimers' = ntimers + 1
    /\ UNCHANGED << timeout, events, idles, pendings, nidles, nios, npendings, clock, stale >>

\* htimer_reset: back into the heap, counted from loop->cur_hrtime, which it does
\* not refresh; d = 0 keeps the timeout.
htimer_reset(t, d) ==
    /\ UserCode
    /\ t \in owned \cap Timeouts
    /\ repeat' = [repeat EXCEPT ![t] = IF @ = 0 THEN 1 ELSE @]
    /\ budget' = [budget EXCEPT ![t] = IF @ = 0 THEN 1 ELSE @]
    /\ timeout' = [timeout EXCEPT ![t] = IF d > 0 THEN d ELSE @]
    /\ next' = [next EXCEPT ![t] = NextExpiry(timeout'[t], phase)]
    /\ loop_timers' = loop_timers \cup {t}
    /\ ntimers' = IF destroy[t] THEN ntimers + 1 ELSE ntimers
    /\ EVENT_RESET(t)
    /\ stale' = stale \cup ({t} \cap Linked)
    /\ UNCHANGED << live, events, idles, pendings, nidles, nios, npendings, clock, owned >>

\* htimer_del: __htimer_del takes it off the heap unless that was done when it
\* expired, then EVENT_DEL.
htimer_del(t) ==
    /\ UserCode
    /\ t \in owned
    /\ DelAfterReset \/ t \notin stale
    /\ owned' = owned \ {t}
    /\ IF active[t]
       THEN /\ loop_timers' = loop_timers \ {t}
            /\ ntimers' = IF destroy[t] THEN ntimers ELSE ntimers - 1
            /\ destroy' = [destroy EXCEPT ![t] = TRUE]
            /\ EVENT_DEL(t)
       ELSE UNCHANGED << loop_timers, ntimers, destroy, active, nactives, live >>
    /\ UNCHANGED << pending, fields, idles, pendings, nidles, nios, npendings, clock, stale, budget >>

hidle_add(i, r) ==
    /\ UserCode
    /\ EVENT_ADD(i)
    /\ repeat' = [repeat EXCEPT ![i] = r]
    /\ budget' = [budget EXCEPT ![i] = Entitled(r)]
    /\ idles' = idles \cup {i}
    /\ nidles' = nidles + 1
    /\ UNCHANGED << timeout, next, events, loop_timers, pendings, ntimers, nios, npendings, clock, stale >>

hidle_del(i) ==
    /\ UserCode
    /\ i \in owned
    /\ owned' = owned \ {i}
    /\ IF active[i]
       THEN /\ idles' = idles \ {i}
            /\ nidles' = IF destroy[i] THEN nidles ELSE nidles - 1
            /\ destroy' = [destroy EXCEPT ![i] = TRUE]
            /\ EVENT_DEL(i)
       ELSE UNCHANGED << idles, nidles, destroy, active, nactives, live >>
    /\ UNCHANGED << pending, fields, loop_timers, pendings, ntimers, nios, npendings, clock, stale, budget >>

\* hio_add.
IoAdd(io, evs) ==
    /\ UserCode
    /\ EVENT_ACTIVE(io)
    /\ nios' = IF active[io] THEN nios ELSE nios + 1
    /\ events' = [events EXCEPT ![io] = IF @ \cap evs = {} THEN @ \cup evs ELSE @]
    /\ stale' = IF active[io] THEN stale ELSE stale \cup ({io} \cap Linked)
    /\ UNCHANGED << live, pending, destroy, repeat, timeout, next, sets, ntimers, nidles,
                    npendings, clock, owned, budget >>

\* hio_del: with no event left the io is inactive and EVENT_UNPENDING drops
\* its readiness, but it stays on its list.
IoDel(io, evs) ==
    /\ UserCode
    /\ active[io]
    /\ DelAfterStop \/ loop_pc = "cb" \/ io \notin Linked
    /\ events' = [events EXCEPT ![io] = @ \ evs]
    /\ IF events'[io] = {}
       THEN /\ nios' = nios - 1
            /\ EVENT_INACTIVE(io)
            /\ EVENT_UNPENDING(io)
       ELSE UNCHANGED << nios, active, nactives, npendings, pending >>
    /\ UNCHANGED << live, destroy, repeat, timeout, next, sets, ntimers, nidles, clock, ghosts >>

\* User code takes time.
Stall ==
    /\ loop_pc \in {"out", "cb"}
    /\ lag < MaxBlock
    /\ lag' = lag + 1
    /\ UNCHANGED << flags, fields, sets, counters, phase, control, ghosts >>

\* hloop_stop, from a callback or from another thread, at any moment.
hloop_stop ==
    /\ loop_status # "STOP"
    /\ loop_status' = "STOP"
    /\ UNCHANGED << flags, fields, sets, counters, clock, loop_pc, cur, ops, runs, ghosts >>

-----------------------------------------------------------------------------
(* hloop_run and hloop_process_events. *)

hloop_run ==
    /\ loop_pc = "out" /\ runs < MaxRuns
    /\ loop_status' = "RUNNING"
    /\ runs' = runs + 1
    /\ loop_pc' = "poll"
    /\ UNCHANGED << flags, fields, sets, counters, clock, cur, ops, ghosts >>

\* The condition of the while loop, and the break for a loop without events.
Quit == loop_status = "STOP" \/ (QuitWhenIdle /\ nactives = 0)

HloopRunReturns ==
    /\ loop_pc = "poll" /\ Quit
    /\ loop_status' = "STOP"
    /\ loop_pc' = "out"
    /\ UNCHANGED << flags, fields, sets, counters, clock, cur, ops, runs, ghosts >>

\* The lists that pushing each member of S at the head once can produce.
Orders(S) ==
    {s \in [1 .. Cardinality(S) -> S] :
        /\ \A e \in S : \E i \in DOMAIN s : s[i] = e
        /\ \A i, j \in DOMAIN s : s[i] = s[j] => i = j}

Overdue == ntimers # 0 /\ \E t \in loop_timers : next[t] - lag < 0

\* An overdue timer: no poll, straight to the timers.
SkipPoll ==
    /\ loop_pc = "poll" /\ ~Quit /\ Overdue
    /\ next' = UpdatedNext(0) /\ phase' = UpdatedPhase(0) /\ lag' = 0
    /\ loop_pc' = "timers"
    /\ UNCHANGED << flags, repeat, timeout, events, sets, counters, loop_status, cur, ops, runs, ghosts >>

\* hloop_process_ios: after d the watcher reports some of the registered ios,
\* in any order, and each that is not pending yet is pushed.  EVENT_PENDING does
\* not see that an event is linked: it points pending_next of one that is, back
\* to the list it is on.  hloop_process_pendings would never come to the end of
\* such a ring, and nothing is said of what follows.
PollIos(d, ready) ==
    /\ loop_pc = "poll" /\ ~Quit /\ ~Overdue
    /\ next' = UpdatedNext(d) /\ phase' = UpdatedPhase(d) /\ lag' = 0
    /\ LET fresh == {io \in ready : ~pending[io]}
       IN  /\ \E s \in Orders(fresh) : pendings' = [pendings EXCEPT ![2] = s \o @]
           /\ npendings' = npendings + Cardinality(fresh)
           /\ pending' = [e \in Ev |-> pending[e] \/ e \in fresh]
           /\ stale' = stale \ fresh
           /\ loop_pc' = IF fresh \cap Linked = {} THEN "polled" ELSE "ring"
    /\ UNCHANGED << live, active, destroy, repeat, timeout, events, loop_timers, idles, nactives,
                    ntimers, nidles, nios, loop_status, cur, ops, runs, owned, budget >>

\* "wakeup by hloop_stop": what was polled stays pending.
WokenByStop ==
    /\ loop_pc = "polled" /\ loop_status = "STOP"
    /\ loop_pc' = "poll"
    /\ UNCHANGED << flags, fields, sets, counters, clock, loop_status, cur, ops, runs, ghosts >>

DecrementNever(r) == r

\* --repeat on a uint32_t, unless it is INFINITE.
Decrement(r) == IF r = INFINITE THEN r ELSE IF r = 0 THEN INFINITE ELSE r - 1

\* The first next_timeout after now, in steps of the timeout.
Rearmed(t) == next[t] + timeout[t] * ((0 - next[t]) \div timeout[t] + 1)

\* hloop_process_timers, then hloop_process_idles if nothing is pending: an
\* event on its last repetition is marked destroy and taken off the heap or
\* list, another timer gets its next timeout (again: the time cron_next_timeout
\* gives a period), and all are pushed.  Timers leave the heap by increasing
\* next_timeout, so the list has the latest first.
ProcessTimersAndIdles ==
    /\ loop_pc = "timers" \/ (loop_pc = "polled" /\ loop_status # "STOP")
    /\ LET due   == IF ntimers = 0 THEN {} ELSE {t \in loop_timers : next[t] <= 0}
           idle  == IF nidles # 0 /\ npendings = 0 /\ (\A t \in due : pending[t]) THEN idles ELSE {}
           fired == due \cup idle
           last  == {e \in fired : Decrement(repeat[e]) = 0}
           fresh == {e \in fired : ~pending[e]}
       IN  /\ repeat' = [e \in Counted |-> IF e \in fired THEN Decrement(repeat[e]) ELSE repeat[e]]
           /\ destroy' = [e \in Ev |-> destroy[e] \/ e \in last]
           /\ loop_timers' = loop_timers \ last
           /\ idles' = idles \ last
           /\ ntimers' = ntimers - Cardinality(last \cap Timers)
           /\ nidles' = nidles - Cardinality(last \cap Idles)
           /\ \E again \in [due \cap Periods -> Delays] :
                next' = [t \in Timers |->
                          IF t \notin due \ last THEN next[t]
                          ELSE IF t \in Timeouts THEN Rearmed(t) ELSE again[t]]
           /\ \E s \in Orders(fresh \cap Timeouts), u \in Orders(fresh \cap Periods),
                 w \in Orders(fresh \cap Idles) :
                /\ \A i, j \in DOMAIN s : i < j => next[s[i]] >= next[s[j]]
                /\ pendings' = [pendings EXCEPT ![4] = s \o @, ![3] = u \o @, ![1] = w \o @]
           /\ npendings' = npendings + Cardinality(fresh)
           /\ pending' = [e \in Ev |-> pending[e] \/ e \in fresh]
           /\ stale' = stale \ fresh
    /\ loop_pc' = IF npendings' = 0 THEN "poll" ELSE "dispatch"
    /\ UNCHANGED << live, active, timeout, events, nactives, nios, clock, loop_status, cur, ops,
                    runs, owned, budget >>

\* The end of a visit: pending is cleared, and an event marked destroy is
\* deleted for good.
Finish(e) ==
    /\ pending' = [pending EXCEPT ![e] = FALSE]
    /\ IF destroy[e]
       THEN EVENT_INACTIVE(e) /\ live' = live \ {e} /\ owned' = owned \ {e}
       ELSE UNCHANGED << active, nactives, live, owned >>

\* hloop_process_pendings visits the next event, from high to low priority.
Visit(p) ==
    /\ loop_pc = "dispatch"
    /\ pendings[p] # << >> /\ \A q \in Prio : q > p => pendings[q] = << >>
    /\ pendings' = [pendings EXCEPT ![p] = Tail(@)]
    /\ LET e == Head(pendings[p])
       IN  \/ /\ pending[e] /\ active[e]
              /\ cur' = e
              /\ loop_pc' = "cb"
              /\ budget' = IF e \in Counted /\ budget[e] # INFINITE
                           THEN [budget EXCEPT ![e] = @ - 1] ELSE budget
              /\ UNCHANGED << flags, nactives, owned, stale >>
           \/ /\ pending[e] /\ ~active[e]
              /\ Finish(e)
              /\ stale' = stale \ {e}
              /\ UNCHANGED << destroy, cur, loop_pc, budget >>
           \/ /\ ~pending[e]
              /\ stale' = stale \ {e}
              /\ UNCHANGED << flags, nactives, owned, cur, loop_pc, budget >>
    /\ UNCHANGED << fields, loop_timers, idles, ntimers, nidles, nios, npendings, clock, loop_status, ops, runs >>

\* The callback returns.
Return ==
    /\ loop_pc = "cb"
    /\ Finish(cur)
    /\ cur' = NoEvent
    /\ loop_pc' = "dispatch"
    /\ stale' = stale \ {cur}
    /\ UNCHANGED << destroy, fields, sets, ntimers, nidles, nios, npendings, clock, loop_status, ops,
                    runs, budget >>

EndRound ==
    /\ loop_pc = "dispatch"
    /\ \A p \in Prio : pendings[p] = << >>
    /\ npendings' = 0
    /\ loop_pc' = "poll"
    /\ UNCHANGED << flags, fields, sets, nactives, ntimers, nidles, nios, clock, loop_status, cur,
                    ops, runs, ghosts >>

\* hloop_free: hloop_cleanup walks the io table, the idle list and the heaps.
hloop_free ==
    /\ loop_pc = "out"
    /\ loop_pc' = "freed"
    /\ live' = live \ (loop_timers \cup idles \cup Ios)
    /\ loop_timers' = {} /\ idles' = {}
    /\ pendings' = [p \in Prio |-> << >>]
    /\ owned' = {} /\ stale' = {}
    /\ UNCHANGED << active, pending, destroy, fields, counters, clock, loop_status, cur, ops, runs, budget >>

-----------------------------------------------------------------------------

User ==
    \/ \E t \in Timeouts, d \in Delays, r \in Repeats : htimer_add(t, d, r)
    \/ \E t \in Periods, d \in Delays, r \in Repeats : htimer_add_period(t, d, r)
    \/ \E t \in Timeouts, d \in Delays \cup {0} : htimer_reset(t, d)
    \/ \E t \in Timers : htimer_del(t)
    \/ \E i \in Idles, r \in Repeats : hidle_add(i, r)
    \/ \E i \in Idles : hidle_del(i)
    \/ \E io \in Ios, evs \in (SUBSET {"R", "W"}) \ {{}} : IoAdd(io, evs) \/ IoDel(io, evs)
    \/ Stall
    \/ hloop_stop

Registered == {io \in Ios : events[io] # {}}

PollEvents == SkipPoll \/ \E d \in 0 .. MaxBlock, ready \in SUBSET Registered : PollIos(d, ready)

Loop ==
    \/ HloopRunReturns
    \/ PollEvents
    \/ WokenByStop
    \/ ProcessTimersAndIdles
    \/ \E p \in Prio : Visit(p)
    \/ Return
    \/ EndRound

LoopNext == hloop_run \/ hloop_free \/ User \/ Loop

LoopSpec == LoopInit /\ [][LoopNext]_loopvars

\* The loop's thread is scheduled, callbacks return, and time passes while the
\* loop polls again and again.
Fairness ==
    /\ WF_loopvars(Loop)
    /\ SF_loopvars(\E d \in 1 .. MaxBlock, ready \in SUBSET Registered : PollIos(d, ready))

LoopFairSpec == LoopSpec /\ Fairness

-----------------------------------------------------------------------------

\* Type invariant.
LoopTypeOK ==
    /\ live \subseteq Ev /\ owned \subseteq Ev /\ stale \subseteq Ev
    /\ active \in [Ev -> BOOLEAN] /\ pending \in [Ev -> BOOLEAN] /\ destroy \in [Ev -> BOOLEAN]
    /\ repeat \in [Counted -> 0 .. INFINITE] /\ budget \in [Counted -> Int]
    /\ timeout \in [Timeouts -> Nat] /\ next \in [Timers -> Int]
    /\ events \in [Ios -> SUBSET {"R", "W"}]
    /\ loop_timers \subseteq Timers /\ idles \subseteq Idles
    /\ pendings \in [Prio -> Seq(Ev)]
    /\ {nactives, ntimers, nidles, nios, npendings} \subseteq Int
    /\ loop_status \in {"STOP", "RUNNING"}
    /\ phase \in 0 .. GRAN - 1 /\ lag \in Nat
    /\ loop_pc \in {"out", "poll", "polled", "timers", "dispatch", "cb", "freed", "ring"}
    /\ cur \in Ev \cup {NoEvent} /\ (loop_pc = "cb" <=> cur # NoEvent)
    /\ ops \in 0 .. MaxCallsMade /\ runs \in 0 .. MaxRuns

\* hloop_process_pendings never follows a link to an event that was freed, and
\* the event whose callback runs is not freed under it: EVENT_DEL leaves an
\* event that is on a list to the loop.
NoDanglingPendings == Linked \subseteq live

\* Nothing is freed while the heap or the idle list holds it, and what is on
\* neither is about to be freed by the loop: one-shot timers and deleted events
\* leak nothing, and hloop_cleanup, which walks only the heap, the list and the
\* io table, finds all there is.
NoLeak ==
    /\ loop_timers \cup idles \subseteq live
    /\ live \subseteq loop_timers \cup idles \cup Ios \cup Linked
    /\ loop_pc = "freed" => live = {}

\* No event is pushed while it is still linked, so that hloop_process_pendings
\* comes to the end of each list.
NoRing == loop_pc # "ring"

\* Each event is freed once, by the loop if it is on one of the loop's lists.
EventsFreedOnce == NoDanglingPendings /\ NoLeak /\ NoRing

\* The counters that hloop_process_events and the quit test read agree with the
\* structures: ntimers = 0 skips the timers, nios = 0 sleeps instead of polling,
\* nactives = 0 ends hloop_run, and outside a dispatch npendings = 0 lets
\* hloop_process_pendings return at once.  All of the state keeps its type.
CountersAgree ==
    /\ LoopTypeOK
    /\ loop_pc # "freed" =>
          /\ ntimers = Cardinality(loop_timers)
          /\ nidles = Cardinality(idles)
          /\ nios = Cardinality(Registered)
          /\ nactives = Cardinality({e \in Ev : active[e]})
          /\ nactives = 0 => loop_timers = {} /\ idles = {} /\ Registered = {}
          /\ loop_pc \in {"out", "poll", "polled", "timers"} =>
              npendings = Cardinality({e \in Ev : pending[e]})

\* A timer or idle runs its callback at most repeat times, plus once for each
\* reset that found it exhausted.
WithinBudget == \A e \in Counted : budget[e] >= 0

\* No callback on readiness that precedes the event's last re-arming: not for a
\* timer reset after it expired in this round, nor for an io closed and opened
\* again by an earlier callback of the round.
NoStaleCallback == [][loop_pc # "cb" /\ loop_pc' = "cb" => cur' \notin stale]_loopvars

\* No callback of a timer or idle after htimer_del or hidle_del returned.
NoCallbackAfterDel == [][loop_pc # "cb" /\ loop_pc' = "cb" => cur' \in owned]_loopvars

\* A callback is one the event is due.
CallbacksDue == NoStaleCallback /\ NoCallbackAfterDel /\ []WithinBudget

\* A timer in the heap gets its callback, unless it is deleted or the loop is
\* stopped: overdue timers, resets and idles do not starve it.
TimerFires ==
    \A t \in Timers : t \in loop_timers ~> (cur = t \/ t \notin loop_timers \/ loop_status = "STOP")
=============================================================================
