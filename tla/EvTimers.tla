------------------------------ MODULE EvTimers ------------------------------
(***************************************************************************)
(* The timer table of evpp/EventLoop.h: setTimer, killTimer, resetTimer    *)
(* and onTimer over the loop's own timers (event/hloop.c).  The loop       *)
(* allocates and frees an htimer; the table keeps, under a TimerID, a      *)
(* Timer object with a pointer to it and a repeat count of its own.        *)
(* Timers expire together (they become pending), then their callbacks run  *)
(* one by one, and each callback may set, kill and reset any timer.        *)
(***************************************************************************)
EXTENDS Integers, Sequences

CONSTANTS
    TimerID,       \* identifiers the application uses
    TimerRepeats,  \* repeat counts it asks for
    FOREVER,       \* the count that is never decremented
    MaxTimers,     \* htimers ever added
    MaxTimerCalls, \* calls of the application
    Rearm          \* a callback may set its own identifier again

ASSUME TimersAssumption ==
    /\ FOREVER \in Nat \ {0, 1} /\ TimerRepeats \subseteq 1 .. FOREVER
    /\ MaxTimers \in Nat /\ MaxTimerCalls \in Nat
    /\ Rearm \in BOOLEAN

VARIABLES
    timers,      \* TimerID -> the Timer object (named by its htimer), or 0
    tid,         \* htimer -> its hevent id
    hrep, trep,  \* htimer -> repeat of the htimer, repeat of the Timer object
    hst,         \* htimer -> "armed", "expired" (pending, in the heap again),
                 \* "last" (pending, marked destroy), "dead" (pending, deleted), "freed"
    functors,    \* functors posted to the loop
    where,       \* the loop's thread: before "run", "idle", "dispatch", in a callback "cb"
    fired,       \* htimer whose callback runs, or 0
    held,        \* Timer object onTimer holds, or 0
    nops

tmvars == << timers, tid, hrep, trep, hst, functors, where, fired, held, nops >>

TmInit ==
    /\ timers = [id \in TimerID |-> 0]
    /\ tid = << >> /\ hrep = << >> /\ trep = << >> /\ hst = << >>
    /\ functors = << >>
    /\ where = "run" /\ fired = 0 /\ held = 0
    /\ nops = 0

Op == nops < MaxTimerCalls /\ nops' = nops + 1
Pending(h) == hst[h] \in {"expired", "last", "dead"}

\* htimer_del, of a timer that is in the heap or pending.
Deleted(h) == IF Pending(h) THEN "dead" ELSE "freed"

\* The body of killTimer's functor.
Kill(id) ==
    IF timers[id] = 0 THEN UNCHANGED << timers, hst >>
    ELSE /\ hst[timers[id]] # "freed"
         /\ hst' = [hst EXCEPT ![timers[id]] = Deleted(timers[id])]
         /\ timers' = [timers EXCEPT ![id] = 0]

\* setTimer when killTimer runs its functor at once.
SetNow(id, n) ==
    LET old == timers[id]
        hs  == IF old = 0 THEN hst ELSE [hst EXCEPT ![old] = Deleted(old)]
    IN  /\ old # 0 => hst[old] # "freed"
        /\ Len(tid) < MaxTimers
        /\ tid' = Append(tid, id)
        /\ hrep' = Append(hrep, n) /\ trep' = Append(trep, n)
        /\ hst' = Append(hs, "armed")
        /\ timers' = [timers EXCEPT ![id] = Len(tid')]
    
\* setTimer of a new identifier before run, by the thread that made the loop:
\* runInLoop finds the loop not running and queues the kill.
SetEarly(id, n) ==
    /\ where = "run" /\ Op
    /\ timers[id] = 0 /\ Len(tid) < MaxTimers
    /\ tid' = Append(tid, id)
    /\ hrep' = Append(hrep, n) /\ trep' = Append(trep, n)
    /\ hst' = Append(hst, "armed")
    /\ timers' = [timers EXCEPT ![id] = Len(tid')]
    /\ functors' = Append(functors, [op |-> "kill", id |-> id])
    /\ UNCHANGED << where, fired, held >>

\* htimer_reset: back into the heap, no longer pending, and never without a
\* repeat left; the Timer object likewise.
ResetNow(id) ==
    LET h == timers[id] IN
    IF h = 0 THEN UNCHANGED << hst, hrep, trep >>
    ELSE /\ hst[h] # "freed"
         /\ hst' = [hst EXCEPT ![h] = "armed"]
         /\ hrep' = [hrep EXCEPT ![h] = IF @ = 0 THEN 1 ELSE @]
         /\ trep' = [trep EXCEPT ![h] = IF @ = 0 THEN 1 ELSE @]

(***************************************************************************)
(* Any thread posts; the loop runs what was posted between two dispatches. *)
(***************************************************************************)
Posts(f) ==
    /\ Op
    /\ functors' = Append(functors, f)
    /\ UNCHANGED << timers, tid, hrep, trep, hst, where, fired, held >>

RunFunctor ==
    /\ where = "idle" /\ functors # << >>
    /\ functors' = Tail(functors)
    /\ LET f == Head(functors) IN
       \/ f.op = "set" /\ SetNow(f.id, f.n)
       \/ f.op = "kill" /\ Kill(f.id) /\ UNCHANGED << tid, hrep, trep >>
       \/ f.op = "reset" /\ ResetNow(f.id) /\ UNCHANGED << timers, tid >>
    /\ UNCHANGED << where, fired, held, nops >>

Run ==
    /\ where = "run"
    /\ where' = "idle"
    /\ UNCHANGED << timers, tid, hrep, trep, hst, functors, fired, held, nops >>

(***************************************************************************)
(* Callbacks in the loop's thread: of a timer, or of something else.       *)
(***************************************************************************)
Callback ==
    /\ where = "idle"
    /\ where' = "cb"
    /\ UNCHANGED << timers, tid, hrep, trep, hst, functors, fired, held, nops >>

CallSet(id, n) ==
    /\ where = "cb" /\ Op
    /\ (held # 0 /\ ~Rearm) => tid[held] # id
    /\ SetNow(id, n)
    /\ UNCHANGED << functors, where, fired, held >>

CallKill(id) ==
    /\ where = "cb" /\ Op
    /\ Kill(id)
    /\ UNCHANGED << tid, hrep, trep, functors, where, fired, held >>

CallReset(id) ==
    /\ where = "cb" /\ Op
    /\ ResetNow(id)
    /\ UNCHANGED << timers, tid, functors, where, fired, held >>

\* __hloop_process_timers: some timers are due and become pending.
Expire(due) ==
    /\ where = "idle"
    /\ \A h \in due : hst[h] = "armed"
    /\ where' = "dispatch"
    /\ hrep' = [h \in 1 .. Len(tid) |->
                  IF h \in due /\ hrep[h] # FOREVER THEN hrep[h] - 1 ELSE hrep[h]]
    /\ hst' = [h \in 1 .. Len(tid) |->
                  IF h \notin due THEN hst[h] ELSE IF hrep'[h] = 0 THEN "last" ELSE "expired"]
    /\ UNCHANGED << timers, tid, trep, functors, fired, held, nops >>

\* A pending timer that was deleted is only freed; for another one onTimer
\* looks up the identifier and runs the callback of what it finds.
Dispatch(h) ==
    /\ where = "dispatch" /\ Pending(h)
    /\ IF hst[h] = "dead"
         THEN /\ hst' = [hst EXCEPT ![h] = "freed"]
              /\ UNCHANGED << trep, where, fired, held >>
         ELSE /\ where' = "cb" /\ fired' = h /\ held' = timers[tid[h]]
              /\ trep' = IF held' = 0 THEN trep
                         ELSE [trep EXCEPT ![held'] = IF @ = FOREVER THEN @ ELSE @ - 1]
              /\ UNCHANGED hst
    /\ UNCHANGED << timers, tid, hrep, functors, nops >>

\* Mutant: a timer that has run out keeps its entry.
CallbackDoneKeeps ==
    /\ where = "cb"
    /\ fired' = 0 /\ held' = 0
    /\ where' = IF fired = 0 THEN "idle" ELSE "dispatch"
    /\ hst' = IF fired = 0 \/ ~Pending(fired) THEN hst
              ELSE [hst EXCEPT ![fired] = IF @ = "expired" THEN "armed" ELSE "freed"]
    /\ UNCHANGED << timers, tid, hrep, trep, functors, nops >>

\* The callback returns: onTimer erases the entry of a Timer object that has
\* run out, and the loop frees an htimer marked destroy.
CallbackDone ==
    /\ where = "cb"
    /\ fired' = 0 /\ held' = 0
    /\ where' = IF fired = 0 THEN "idle" ELSE "dispatch"
    /\ timers' = IF held # 0 /\ trep[held] = 0 THEN [timers EXCEPT ![tid[held]] = 0] ELSE timers
    /\ hst' = IF fired = 0 \/ ~Pending(fired) THEN hst
              ELSE [hst EXCEPT ![fired] = IF @ = "expired" THEN "armed" ELSE "freed"]
    /\ UNCHANGED << tid, hrep, trep, functors, nops >>

Dispatched ==
    /\ where = "dispatch" /\ \A h \in 1 .. Len(tid) : ~Pending(h)
    /\ where' = "idle"
    /\ UNCHANGED << timers, tid, hrep, trep, hst, functors, fired, held, nops >>

TmNext ==
    \/ \E id \in TimerID, n \in TimerRepeats :
          SetEarly(id, n) \/ CallSet(id, n) \/ Posts([op |-> "set", id |-> id, n |-> n])
    \/ \E id \in TimerID :
          \/ CallKill(id) \/ CallReset(id)
          \/ Posts([op |-> "kill", id |-> id]) \/ Posts([op |-> "reset", id |-> id])
    \/ \E due \in SUBSET (1 .. Len(tid)) \ {{}} : Expire(due)
    \/ \E h \in 1 .. Len(tid) : Dispatch(h)
    \/ RunFunctor \/ Run \/ Callback \/ CallbackDone \/ Dispatched

TmSpec == TmInit /\ [][TmNext]_tmvars

(***************************************************************************)
(* An entry of the table never points to an htimer the loop has freed, so  *)
(* that killTimer and resetTimer may follow it (EventLoop.h:129, :141);    *)
(* and between two dispatches an armed htimer is the one of its            *)
(* identifier's entry, with as many repeats left: no timer fires for       *)
(* nobody, and none can no longer be killed.                               *)
(***************************************************************************)
TableMatchesHeap ==
    /\ \A id \in TimerID : timers[id] # 0 => hst[timers[id]] # "freed"
    /\ where = "idle" => \A h \in 1 .. Len(tid) :
          hst[h] = "armed" => timers[tid[h]] = h /\ hrep[h] = trep[h]
=============================================================================
