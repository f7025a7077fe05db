-------------------------------- MODULE Kcp --------------------------------
(***************************************************************************)
(* event/kcp/ikcp.c: one direction of a KCP link.  Both ends run the same   *)
(* code; here one of them sends messages and the other receives them, over *)
(* UDP, which loses, duplicates and reorders datagrams.                     *)
(*                                                                         *)
(* Sequence numbers start at 0 and the link carries fewer than 2^31         *)
(* segments, so _itimediff is subtraction.  The clock is left out: a        *)
(* retransmission or probe timer may have expired at any flush.  The byte   *)
(* count behind congestion avoidance (incr) is left out: cwnd may grow at   *)
(* any input that advances snd_una.                                         *)
(***************************************************************************)
EXTENDS Naturals, FiniteSets, Sequences, FiniteSetsExt

CONSTANTS
    Fragments,   \* Fragments[m]: how many segments of mss bytes message m needs
    WND_RCV,     \* IKCP_WND_RCV
    SND_WND,     \* kcp->snd_wnd
    RCV_WND,     \* kcp->rcv_wnd
    FASTRESEND,  \* kcp->fastresend, 0 when off
    FASTLIMIT,   \* kcp->fastlimit
    NoCwnd,      \* kcp->nocwnd # 0
    MaxReplies,  \* datagrams to the sender the network holds
    MaxDup       \* datagrams the network duplicates

KcpAssumption ==
    /\ Fragments \in Seq(Nat \ {0})
    /\ \A m \in DOMAIN Fragments : Fragments[m] < WND_RCV
    /\ SND_WND \in Nat \ {0} /\ RCV_WND \in Nat \ {0} /\ WND_RCV \in 1 .. RCV_WND
    /\ FASTRESEND \in Nat /\ FASTLIMIT \in Nat \ {0} /\ NoCwnd \in BOOLEAN
    /\ MaxReplies \in Nat \ {0} /\ MaxDup \in Nat

VARIABLES
    \* the sending end
    nsent,       \* messages given to ikcp_send
    snd_queue,   \* fragments without a sequence number
    snd_buf,     \* segments sent and not acknowledged; the list is ordered by sn
    snd_una, snd_nxt, rmt_wnd, cwnd, ssthresh,
    probing,     \* probe_wait # 0
    \* the receiving end
    rcv_buf,     \* segments received out of order
    rcv_queue,   \* fragments ready for ikcp_recv
    rcv_nxt,
    acklist,     \* sequence numbers to acknowledge at the next flush
    tell,        \* probe & IKCP_ASK_TELL
    delivered,   \* what ikcp_recv returned: each message as its fragments
    \* the network
    pushes,      \* datagrams to the receiver: a PUSH segment or a WASK
    replies,     \* datagrams to the sender: ACK segments or a WINS
    ndup

sender == << nsent, snd_queue, snd_buf, snd_una, snd_nxt, rmt_wnd, cwnd, ssthresh, probing >>
receiver == << rcv_buf, rcv_queue, rcv_nxt, acklist, tell, delivered >>
kcpvars == << sender, receiver, pushes, replies, ndup >>

THRESH_MIN == 2

Wask == [cmd |-> "WASK"]

Push(seg) == [cmd |-> "PUSH", sn |-> seg.sn, msg |-> seg.msg, frg |-> seg.frg]

\* ikcp_create, then ikcp_nodelay and ikcp_wndsize.
KcpInit ==
    /\ nsent = 0 /\ snd_queue = << >> /\ snd_buf = {}
    /\ snd_una = 0 /\ snd_nxt = 0 /\ rmt_wnd = WND_RCV
    /\ cwnd = 0 /\ ssthresh = THRESH_MIN /\ probing = FALSE
    /\ rcv_buf = {} /\ rcv_queue = << >> /\ rcv_nxt = 0
    /\ acklist = {} /\ tell = FALSE /\ delivered = << >>
    /\ pushes = {} /\ replies = {} /\ ndup = 0

-----------------------------------------------------------------------------
(* Network: UDP between the two sockets.                                    *)

\* sendto towards the sending end: a full network drops the datagram.
Carried(d) == IF Cardinality(replies \cup {d}) <= MaxReplies THEN replies \cup {d} ELSE replies

\* A datagram leaves the network when it arrives, unless it was duplicated.
Arrive(net, d) ==
    \/ net' = net \ {d} /\ UNCHANGED ndup
    \/ ndup < MaxDup /\ ndup' = ndup + 1 /\ UNCHANGED net

Lose ==
    /\ \/ \E d \in pushes : pushes' = pushes \ {d} /\ UNCHANGED replies
       \/ \E d \in replies : replies' = replies \ {d} /\ UNCHANGED pushes
    /\ UNCHANGED << sender, receiver, ndup >>

-----------------------------------------------------------------------------
(* Sending end.                                                             *)

_imin_(a, b) == IF a <= b THEN a ELSE b
_imax_(a, b) == IF a >= b THEN a ELSE b

\* The fragments of message m, numbered down to 0.
FragmentsOf(m) == [i \in 1 .. Fragments[m] |-> [msg |-> m, frg |-> Fragments[m] - i]]

\* ikcp_send in message mode.
ikcp_send ==
    /\ nsent < Len(Fragments)
    /\ nsent' = nsent + 1
    /\ snd_queue' = snd_queue \o FragmentsOf(nsent + 1)
    /\ UNCHANGED << snd_buf, snd_una, snd_nxt, rmt_wnd, cwnd, ssthresh, probing >>
    /\ UNCHANGED << receiver, pushes, replies, ndup >>

\* The window ikcp_flush sends in.
SendWindow ==
    LET peer == _imin_(SND_WND, rmt_wnd) IN IF NoCwnd THEN peer ELSE _imin_(cwnd, peer)

\* How many segments get a sequence number now.
Admits ==
    LET room == IF snd_una + SendWindow > snd_nxt THEN snd_una + SendWindow - snd_nxt ELSE 0
    IN  _imin_(room, Len(snd_queue))

Admitted ==
    { [sn |-> snd_nxt + i - 1, msg |-> snd_queue[i].msg, frg |-> snd_queue[i].frg,
       xmit |-> 0, fastack |-> 0] : i \in 1 .. Admits }

\* xmit only has to tell the first transmission and FASTLIMIT apart.
Again(seg) ==
    [seg EXCEPT !.xmit = _imin_(@ + 1, IF FASTRESEND = 0 THEN 1 ELSE FASTLIMIT + 1)]

\* ikcp_flush at the sending end, through ikcp_update.  due: the sequence
\* numbers whose resendts has passed; probeDue: ts_probe has passed.
FlushSender(due, probeDue) ==
    LET buf     == snd_buf \cup Admitted
        timeout == {seg \in buf : seg.xmit > 0 /\ seg.sn \in due}
        skipped == {seg \in buf : /\ seg.xmit > 0 /\ seg.sn \notin due
                                  /\ FASTRESEND > 0 /\ seg.fastack >= FASTRESEND
                                  /\ seg.xmit <= FASTLIMIT}
        first   == {seg \in buf : seg.xmit = 0}
        resend  == timeout \cup skipped \cup first
        ask     == rmt_wnd = 0 /\ probing /\ probeDue
        inflight == snd_nxt + Admits - snd_una
        fast    == _imax_(THRESH_MIN, inflight \div 2)
    IN  /\ snd_buf' = {IF seg \in skipped THEN [Again(seg) EXCEPT !.fastack = 0]
                       ELSE IF seg \in resend THEN Again(seg) ELSE seg : seg \in buf}
        /\ snd_queue' = SubSeq(snd_queue, Admits + 1, Len(snd_queue))
        /\ snd_nxt' = snd_nxt + Admits
        /\ pushes' = pushes \cup {Push(seg) : seg \in resend} \cup (IF ask THEN {Wask} ELSE {})
        /\ probing' = (rmt_wnd = 0)
        /\ ssthresh' = IF timeout # {} THEN _imax_(THRESH_MIN, SendWindow \div 2)
                       ELSE IF skipped # {} THEN fast ELSE ssthresh
        /\ cwnd' = IF timeout # {} THEN 1
                   ELSE _imax_(1, IF skipped # {} THEN fast + FASTRESEND ELSE cwnd)
        /\ UNCHANGED << nsent, snd_una, rmt_wnd, receiver, replies, ndup >>

\* ikcp_shrink_buf.
FirstSn(buf, nxt) == IF buf = {} THEN nxt ELSE Min({seg.sn : seg \in buf})

\* Mutant: una itself is taken for received.
UnackedUpToUna(d) ==
    {seg \in snd_buf : ~(seg.sn <= d.una \/ (seg.sn \in d.sns /\ seg.sn >= snd_una))}

\* parse_una and parse_ack over the segments of one datagram: what is left.
Unacked(d) ==
    {seg \in snd_buf : ~(seg.sn < d.una \/ (seg.sn \in d.sns /\ seg.sn >= snd_una))}

\* The values congestion control may give cwnd when snd_una advances.
GrownCwnd(wnd) ==
    IF cwnd >= wnd THEN {cwnd}
    ELSE IF cwnd < ssthresh THEN {cwnd + 1}
    ELSE cwnd .. wnd

\* ikcp_input of ACK and WINS segments at the sending end.
InputSender(d) ==
    LET left == Unacked(d)
        una  == FirstSn(left, snd_nxt)
        passed(seg) == /\ d.sns # {}
                       /\ Max(d.sns) \in una .. snd_nxt - 1
                       /\ seg.sn < Max(d.sns)
    IN  /\ d \in replies
        /\ Arrive(replies, d)
        /\ rmt_wnd' = d.wnd
        /\ snd_una' = una
        /\ snd_buf' = {IF passed(seg) THEN [seg EXCEPT !.fastack = _imin_(@ + 1, FASTRESEND)]
                       ELSE seg : seg \in left}
        /\ cwnd' \in IF una > snd_una THEN GrownCwnd(d.wnd) ELSE {cwnd}
        /\ UNCHANGED << nsent, snd_queue, snd_nxt, ssthresh, probing, receiver, pushes >>

-----------------------------------------------------------------------------
(* Receiving end.                                                           *)

\* How many segments can move from rcv_buf to rcv_queue: those that follow
\* rcv_nxt without a gap, while the queue is shorter than the window.
Movable(buf, nxt, queued) ==
    LET sns == {seg.sn : seg \in buf}
    IN  Cardinality({k \in 1 .. RCV_WND - queued : nxt .. nxt + k - 1 \subseteq sns})

\* The move itself, after a new segment and after ikcp_recv made room.
MoveReady(buf, queue) ==
    LET k == Movable(buf, rcv_nxt, Len(queue))
        at(j) == CHOOSE seg \in buf : seg.sn = rcv_nxt + j - 1
    IN  /\ rcv_buf' = {seg \in buf : seg.sn >= rcv_nxt + k}
        /\ rcv_queue' = queue \o [j \in 1 .. k |-> [msg |-> at(j).msg, frg |-> at(j).frg]]
        /\ rcv_nxt' = rcv_nxt + k

\* ikcp_parse_data: a segment that is there already is dropped.
Inserted(d) ==
    IF \E seg \in rcv_buf : seg.sn = d.sn THEN rcv_buf ELSE rcv_buf \cup {d}

\* ikcp_input of a PUSH segment, with ikcp_parse_data.
InputPush(d) ==
    /\ d.cmd = "PUSH"
    /\ IF d.sn < rcv_nxt + RCV_WND
       THEN /\ acklist' = acklist \cup {d.sn}
            /\ IF d.sn >= rcv_nxt
               THEN MoveReady(Inserted(d), rcv_queue)
               ELSE UNCHANGED << rcv_buf, rcv_queue, rcv_nxt >>
       ELSE UNCHANGED << acklist, rcv_buf, rcv_queue, rcv_nxt >>
    /\ UNCHANGED << tell, delivered >>

\* Mutant: the question is not answered.
InputWaskIgnored(d) ==
    /\ d.cmd = "WASK"
    /\ UNCHANGED << rcv_buf, rcv_queue, rcv_nxt, acklist, tell, delivered >>

InputWask(d) ==
    /\ d.cmd = "WASK"
    /\ tell' = TRUE
    /\ UNCHANGED << rcv_buf, rcv_queue, rcv_nxt, acklist, delivered >>

InputReceiver(d) ==
    /\ d \in pushes
    /\ Arrive(pushes, d)
    /\ InputPush(d) \/ InputWask(d)
    /\ UNCHANGED << sender, replies >>

\* ikcp_flush at the receiving end: every acknowledgement and the window
\* advertisement go out once.
FlushReceiver ==
    /\ acklist # {} \/ tell
    /\ replies' = Carried([sns |-> acklist, una |-> rcv_nxt, wnd |-> RCV_WND - Len(rcv_queue)])
    /\ acklist' = {}
    /\ tell' = FALSE
    /\ UNCHANGED << sender, rcv_buf, rcv_queue, rcv_nxt, delivered, pushes, ndup >>

\* ikcp_peeksize >= 0: the first message is complete.
FirstComplete == rcv_queue # << >> /\ Len(rcv_queue) >= rcv_queue[1].frg + 1

\* Mutant: the end of the first message is not noticed.
ikcp_recvAll ==
    /\ FirstComplete
    /\ delivered' = Append(delivered, rcv_queue)
    /\ MoveReady(rcv_buf, << >>)
    /\ tell' = (tell \/ (Len(rcv_queue) >= RCV_WND /\ Len(rcv_queue') < RCV_WND))
    /\ UNCHANGED << sender, acklist, pushes, replies, ndup >>

\* ikcp_recv of the first message.
ikcp_recv ==
    /\ FirstComplete
    /\ LET n    == Min({i \in DOMAIN rcv_queue : rcv_queue[i].frg = 0})
           rest == SubSeq(rcv_queue, n + 1, Len(rcv_queue))
       IN  /\ delivered' = Append(delivered, SubSeq(rcv_queue, 1, n))
           /\ MoveReady(rcv_buf, rest)
           /\ tell' = (tell \/ (Len(rcv_queue) >= RCV_WND /\ Len(rcv_queue') < RCV_WND))
    /\ UNCHANGED << sender, acklist, pushes, replies, ndup >>

-----------------------------------------------------------------------------

Outstanding == {seg.sn : seg \in snd_buf}

\* The oldest segment is resent.
FlushSenderDue ==
    \E due \in SUBSET Outstanding, p \in {FALSE, probing} : snd_una \in due /\ FlushSender(due, p)

FlushSenderProbe == \E due \in SUBSET Outstanding : FlushSender(due, TRUE)

KcpNext ==
    \/ ikcp_send
    \/ \E due \in SUBSET Outstanding, p \in {FALSE, probing} : FlushSender(due, p)
    \/ \E d \in replies : InputSender(d)
    \/ \E d \in pushes : InputReceiver(d)
    \/ FlushReceiver
    \/ ikcp_recv
    \/ Lose

\* update_timer calls ikcp_update for ever and every timer expires in the end;
\* the receiving end flushes and its user calls ikcp_recv; a datagram that is
\* sent again and again arrives in the end.
Fairness ==
    /\ WF_kcpvars(FlushSenderDue)
    /\ WF_kcpvars(FlushSenderProbe)
    /\ WF_kcpvars(FlushReceiver)
    /\ WF_kcpvars(ikcp_recv)
    /\ SF_kcpvars(\E d \in pushes : d.cmd = "PUSH" /\ d.sn = snd_una /\ InputReceiver(d))
    /\ SF_kcpvars(InputReceiver(Wask))
    /\ SF_kcpvars(\E d \in replies : InputSender(d))

KcpSpec == KcpInit /\ [][KcpNext]_kcpvars /\ Fairness

-----------------------------------------------------------------------------

\* Type invariant; the receiving end only knows sequence numbers that were given
\* out.
KcpTypeOK ==
    /\ nsent \in 0 .. Len(Fragments)
    /\ snd_una \in Nat /\ snd_nxt \in Nat /\ rcv_nxt \in Nat
    /\ rmt_wnd \in 0 .. RCV_WND /\ cwnd \in Nat /\ ssthresh \in Nat
    /\ tell \in BOOLEAN /\ probing \in BOOLEAN
    /\ \A seg \in snd_buf \cup rcv_buf : seg.sn \in 0 .. snd_nxt - 1
    /\ acklist \subseteq 0 .. snd_nxt - 1
    /\ \A d \in replies : d.sns \subseteq 0 .. snd_nxt - 1 /\ d.una \in Nat /\ d.wnd \in 0 .. RCV_WND

\* The sending end forgets a segment only when the receiving end has it:
\* ikcp_parse_ack and ikcp_parse_una free it, and nobody could resend it.
ForgottenIsReceived ==
    \A sn \in 0 .. snd_nxt - 1 :
        sn \in Outstanding \/ sn < rcv_nxt \/ \E seg \in rcv_buf : seg.sn = sn

\* The receiving end never holds more than its window in either queue, and
\* what it advertises (ikcp_wnd_unused) is not below zero.
WithinWindow ==
    /\ Len(rcv_queue) <= RCV_WND
    /\ \A seg \in rcv_buf : seg.sn \in rcv_nxt .. rcv_nxt + RCV_WND - 1
    /\ Cardinality({seg.sn : seg \in rcv_buf}) = Cardinality(rcv_buf)

(***************************************************************************)
(* The sender forgets a KCP segment only when the receiver has it, and     *)
(* neither end holds more than its window (ikcp.c:596-785, 984-1200).      *)
(***************************************************************************)
ConversationSafe == KcpTypeOK /\ ForgottenIsReceived /\ WithinWindow

Channel == INSTANCE MsgChannel WITH
    Message <- {FragmentsOf(m) : m \in DOMAIN Fragments},
    sent <- [m \in 1 .. nsent |-> FragmentsOf(m)]

\* Whatever the network loses, repeats and reorders, ikcp_recv returns the
\* messages of ikcp_send whole, in order and once: KCP implements MsgChannel.
ImplementsChannel == Channel!ChSpec

\* Every message arrives in the end, although a window may close and the
\* datagram that reopens it may be lost: probing asks again.
EveryMessageArrives == <>[](Len(delivered) = nsent)
=============================================================================
