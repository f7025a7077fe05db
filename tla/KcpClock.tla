------------------------------ MODULE KcpClock ------------------------------
(***************************************************************************)
(* The time a KCP control block is given (event/kcp/hkcp.c) and what       *)
(* ikcp_update and ikcp_flush (event/kcp/ikcp.c) make of it for one        *)
(* segment whose first transmission is lost.  The loop's clock cur_hrtime  *)
(* counts ticks in 64 bits; KCP wants milliseconds in 32.  The update      *)
(* timer divides and then truncates, hio_write_kcp truncates and then      *)
(* divides.                                                                *)
(***************************************************************************)
EXTENDS Integers

CONSTANTS
    Word,         \* 2^32: the number of values of an IUINT32
    TicksPerMs,   \* ticks of cur_hrtime in a millisecond
    Interval,     \* kcp->interval and the period of the update timer, in ms
    Rto,          \* rx_rto plus rtomin, in ms
    Skew,         \* a clock that is off by this many ms restarts the flush schedule
    Starts,       \* values of cur_hrtime when the model starts
    Duration      \* ticks the model runs for

VARIABLES
    start, cur_hrtime,   \* the loop's clock
    nextTimer,           \* when the update timer fires next
    updated, ts_flush,   \* the control block's flush schedule
    xmit, resendts,      \* the segment: transmissions, time of the next one
    sentAt               \* cur_hrtime of the first transmission

clockvars == << start, cur_hrtime, nextTimer, updated, ts_flush, xmit, resendts, sentAt >>

\* hkcp.c:23 and hkcp.c:124.
TimerCurrent(hr) == (hr \div TicksPerMs) % Word
WriteCurrent(hr) == (hr % Word) \div TicksPerMs

\* The difference of two IUINT32 as an IINT32.
_itimediff(later, earlier) ==
    LET d == (later - earlier) % Word IN IF 2 * d < Word THEN d ELSE d - Word

ClockInit ==
    /\ start \in Starts
    /\ cur_hrtime = start
    /\ nextTimer = start + Interval * TicksPerMs
    /\ updated = FALSE /\ ts_flush = 0
    /\ xmit = -1 /\ resendts = 0 /\ sentAt = 0

\* ikcp_flush for the segment: xmit is -1 until ikcp_send, 0 until it is sent.
\* The first retransmission ends the model.
ikcp_flush(current, x) ==
    \/ /\ x = 0
       /\ xmit' = 1
       /\ resendts' = (current + Rto) % Word
       /\ sentAt' = cur_hrtime
    \/ /\ x = 1 /\ _itimediff(current, resendts) >= 0
       /\ xmit' = 2
       /\ UNCHANGED << resendts, sentAt >>
    \/ /\ x = -1 \/ (x = 1 /\ _itimediff(current, resendts) < 0)
       /\ xmit' = x
       /\ UNCHANGED << resendts, sentAt >>

\* ikcp_update with the segment in state x.
ikcp_update(current, x) ==
    LET due  == IF updated THEN ts_flush ELSE current
        away == _itimediff(current, due)
        base == IF away >= Skew \/ away < -Skew THEN current ELSE due
        next == (base + Interval) % Word
    IN  /\ updated' = TRUE
        /\ IF _itimediff(current, base) >= 0
             THEN /\ ts_flush' = IF _itimediff(current, next) >= 0
                                   THEN (current + Interval) % Word ELSE next
                  /\ ikcp_flush(current, x)
             ELSE ts_flush' = base /\ xmit' = x /\ UNCHANGED << resendts, sentAt >>

\* __kcp_update_timer_cb.
UpdateTimer ==
    /\ cur_hrtime = nextTimer /\ xmit < 2
    /\ ikcp_update(TimerCurrent(cur_hrtime), xmit)
    /\ nextTimer' = nextTimer + Interval * TicksPerMs
    /\ UNCHANGED << start, cur_hrtime >>

\* hio_write_kcp: ikcp_send of the message, then ikcp_update.
Write ==
    /\ xmit = -1
    /\ ikcp_update(WriteCurrent(cur_hrtime), 0)
    /\ UNCHANGED << start, cur_hrtime, nextTimer >>

\* Time passes; a timer that is due fires first.
Tick ==
    /\ cur_hrtime < nextTimer /\ cur_hrtime < start + Duration /\ xmit < 2
    /\ cur_hrtime' = cur_hrtime + 1
    /\ UNCHANGED << start, nextTimer, updated, ts_flush, xmit, resendts, sentAt >>

ClockNext == UpdateTimer \/ Write \/ Tick

ClockSpec == ClockInit /\ [][ClockNext]_clockvars

(***************************************************************************)
(* ikcp_update's "'current' - current timestamp in millisec"               *)
(* (ikcp.c:1206) is what retransmission rests on: a segment that is not    *)
(* acknowledged is sent again once its timeout has passed, at the latest   *)
(* two timer periods after it.                                             *)
(***************************************************************************)
ResentAfterRto ==
    xmit = 1 => cur_hrtime - sentAt <= (Rto + 2 * Interval) * TicksPerMs
=============================================================================
