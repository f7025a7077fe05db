----------------------------- MODULE HioTimers ------------------------------
(***************************************************************************)
(* The timeouts of a connection (event/hevent.c): hio_set_read_timeout,    *)
(* hio_set_write_timeout and hio_set_keepalive_timeout, their one-shot     *)
(* timers, and the callbacks that look how long the connection has been    *)
(* silent and close it or set the timer again for what is missing.         *)
(*                                                                         *)
(* Times are those of the code: cur_hrtime and next_timeout in             *)
(* microseconds, timeouts in milliseconds.  A timer may run late, for the  *)
(* clock moves while callbacks run.                                        *)
(***************************************************************************)
EXTENDS Integers

CONSTANTS
    Kinds,     \* the timers used, of "read", "write" and "keepalive"
    Millis,    \* the timeouts that are asked for, in ms; 0 deletes the timer
    Starts,    \* values of cur_hrtime at the beginning
    Steps,     \* by how much it is found to have moved
    MaxTime    \* bound on it

ASSUME HioTimersAssumption ==
    /\ Kinds \subseteq {"read", "write", "keepalive"}
    /\ Millis \subseteq Nat /\ Starts \subseteq Nat /\ Steps \subseteq Nat /\ MaxTime \in Nat

VARIABLES
    cur_hrtime,
    opened,
    last_read_hrtime, last_write_hrtime,
    io_timeout,    \* of each kind, io->*_timeout; 0: it has no timer
    next_timeout,  \* of its timer
    since,         \* ghost: when user code set it
    quiet          \* ghost: has nothing happened since the timer was set or reset?

htvars == << cur_hrtime, opened, last_read_hrtime, last_write_hrtime, io_timeout, next_timeout, since,
             quiet >>

MAX(a, b) == IF a > b THEN a ELSE b

\* What the callback of a kind takes as the last sign of life.
LastLife(k) ==
    CASE k = "read" -> last_read_hrtime
      [] k = "write" -> last_write_hrtime
      [] k = "keepalive" -> MAX(last_read_hrtime, last_write_hrtime)

HtInit ==
    /\ cur_hrtime \in Starts /\ opened = FALSE
    /\ last_read_hrtime = 0 /\ last_write_hrtime = 0
    /\ io_timeout = [k \in Kinds |-> 0] /\ next_timeout = [k \in Kinds |-> 0]
    /\ since = [k \in Kinds |-> 0] /\ quiet = [k \in Kinds |-> FALSE]

\* next_timeout of a timer set to ms from now, rounded down to 100 ms if it is
\* a long one.
NextTimeout(ms) ==
    LET exact == cur_hrtime + ms * 1000
    IN  IF ms >= 1000 /\ ms % 100 = 0 THEN (exact \div 100000) * 100000 ELSE exact

\* __close_cb deletes the timers.
__close_cb ==
    /\ opened /\ opened' = FALSE
    /\ io_timeout' = [k \in Kinds |-> 0] /\ next_timeout' = [k \in Kinds |-> 0]
    /\ since' = [k \in Kinds |-> 0] /\ quiet' = [k \in Kinds |-> FALSE]
    /\ UNCHANGED << cur_hrtime, last_read_hrtime, last_write_hrtime >>

\* hio_ready, of a new connection.
hio_ready ==
    /\ ~opened /\ opened' = TRUE
    /\ last_read_hrtime' = cur_hrtime /\ last_write_hrtime' = cur_hrtime
    /\ UNCHANGED << cur_hrtime, io_timeout, next_timeout, since, quiet >>

Heard(kinds) == quiet' = [k \in Kinds |-> quiet[k] /\ k \notin kinds]

__read_cb ==
    /\ opened /\ last_read_hrtime' = cur_hrtime
    /\ Heard({"read", "keepalive"})
    /\ UNCHANGED << cur_hrtime, opened, last_write_hrtime, io_timeout, next_timeout, since >>

__write_cb ==
    /\ opened /\ last_write_hrtime' = cur_hrtime
    /\ Heard({"write", "keepalive"})
    /\ UNCHANGED << cur_hrtime, opened, last_read_hrtime, io_timeout, next_timeout, since >>

\* hio_set_*_timeout: add, reset or delete the timer.
SetTimeout(k, ms) ==
    /\ opened
    /\ io_timeout' = [io_timeout EXCEPT ![k] = ms]
    /\ next_timeout' = [next_timeout EXCEPT ![k] = IF ms = 0 THEN 0 ELSE NextTimeout(ms)]
    /\ since' = [since EXCEPT ![k] = IF ms = 0 THEN 0 ELSE cur_hrtime]
    /\ quiet' = [quiet EXCEPT ![k] = ms # 0]
    /\ UNCHANGED << cur_hrtime, opened, last_read_hrtime, last_write_hrtime >>

Inactive(k) == (cur_hrtime - LastLife(k)) \div 1000

\* Mutant: the timer is set again for the whole timeout.
ResetForAll(k) == io_timeout[k]

ResetFor(k) == io_timeout[k] - Inactive(k)

Alive(k) == Inactive(k) + 100 < io_timeout[k]

\* __read_timeout_cb, __write_timeout_cb, __keepalive_timeout_cb.
TimeoutCb(k) ==
    /\ opened /\ io_timeout[k] > 0 /\ next_timeout[k] <= cur_hrtime
    /\ IF Alive(k)
       THEN /\ next_timeout' = [next_timeout EXCEPT ![k] = NextTimeout(ResetFor(k))]
            /\ quiet' = [quiet EXCEPT ![k] = TRUE]
            /\ UNCHANGED << cur_hrtime, opened, last_read_hrtime, last_write_hrtime, io_timeout, since >>
       ELSE __close_cb

\* hloop_update_time.
UpdateTime(d) ==
    /\ cur_hrtime + d <= MaxTime
    /\ cur_hrtime' = cur_hrtime + d
    /\ UNCHANGED << opened, last_read_hrtime, last_write_hrtime, io_timeout, next_timeout, since, quiet >>

HtNext ==
    \/ hio_ready \/ __close_cb \/ __read_cb \/ __write_cb
    \/ \E k \in Kinds : TimeoutCb(k) \/ \E ms \in Millis : SetTimeout(k, ms)
    \/ \E d \in Steps : UpdateTime(d)

HtSpec == HtInit /\ [][HtNext]_htvars

-----------------------------------------------------------------------------

HtTypeOK ==
    /\ cur_hrtime \in Nat /\ opened \in BOOLEAN
    /\ last_read_hrtime \in Nat /\ last_write_hrtime \in Nat
    /\ io_timeout \in [Kinds -> Nat] /\ next_timeout \in [Kinds -> Nat]
    /\ since \in [Kinds -> Nat] /\ quiet \in [Kinds -> BOOLEAN]

\* However often the timer has been moved, it is due less than a millisecond
\* after the timeout has passed since the last sign of life or since it was
\* set, and a timer that finds the connection silent since it was last set
\* closes it, so that it does not run again and again for the little that
\* rounding has taken away.
SilenceIsNoticed ==
    \A k \in Kinds : opened /\ io_timeout[k] > 0 =>
        /\ next_timeout[k] < MAX(LastLife(k), since[k]) + io_timeout[k] * 1000 + 1000
        /\ quiet[k] => (next_timeout[k] - LastLife(k)) \div 1000 + 100 >= io_timeout[k]

\* What makes SilenceIsNoticed inductive: a closed connection has no timers,
\* and nothing has happened in the future.
HtInv ==
    /\ HtTypeOK /\ SilenceIsNoticed
    /\ ~opened => \A k \in Kinds : io_timeout[k] = 0
    /\ last_read_hrtime <= cur_hrtime /\ last_write_hrtime <= cur_hrtime
    /\ \A k \in Kinds : since[k] <= cur_hrtime
=============================================================================
