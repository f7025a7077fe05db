------------------------------ MODULE KcpProof ------------------------------
(***************************************************************************)
(* A KCP conversation (Kcp), for any messages, windows and limits and any  *)
(* network: what one end gives out the other has, and ikcp_recv returns    *)
(* the messages of ikcp_send.                                              *)
(***************************************************************************)
EXTENDS Kcp, FiniteSetTheorems, WellFoundedInduction, SequenceTheorems, TLAPS

Frag == [msg : Nat, frg : Nat]
Segment == [sn : Nat, msg : Nat, frg : Nat, xmit : Nat, fastack : Nat]
PushSeg == [cmd : {"PUSH"}, sn : Nat, msg : Nat, frg : Nat]
Reply == [sns : SUBSET Nat, una : Nat, wnd : 0 .. RCV_WND]

SenderType ==
    /\ nsent \in 0 .. Len(Fragments) /\ snd_queue \in Seq(Frag) /\ snd_buf \subseteq Segment
    /\ snd_una \in Nat /\ snd_nxt \in Nat /\ rmt_wnd \in 0 .. RCV_WND
    /\ cwnd \in Nat /\ ssthresh \in Nat /\ probing \in BOOLEAN

ReceiverType ==
    /\ rcv_buf \subseteq PushSeg /\ IsFiniteSet(rcv_buf) /\ rcv_queue \in Seq(Frag) /\ rcv_nxt \in Nat
    /\ acklist \subseteq Nat /\ tell \in BOOLEAN /\ delivered \in Seq(Seq(Frag))

NetType == pushes \subseteq PushSeg \cup {Wask} /\ replies \subseteq Reply

\* The receiving end holds segments of its window, each once.
Window ==
    /\ Len(rcv_queue) <= RCV_WND
    /\ \A seg \in rcv_buf : rcv_nxt <= seg.sn /\ seg.sn < rcv_nxt + RCV_WND
    /\ \A s, t \in rcv_buf : s.sn = t.sn => s = t

\* Every sequence number that is under way was given out.
GivenOut ==
    /\ rcv_nxt <= snd_nxt
    /\ \A seg \in snd_buf \cup rcv_buf : seg.sn < snd_nxt
    /\ \A d \in pushes : d.cmd = "PUSH" => d.sn < snd_nxt
    /\ \A sn \in acklist : sn < snd_nxt
    /\ \A d \in replies : \A sn \in d.sns : sn < snd_nxt

Got(sn) == sn < rcv_nxt \/ \E seg \in rcv_buf : seg.sn = sn

\* What is acknowledged, or about to be, was received.
Acknowledged ==
    /\ \A sn \in acklist : Got(sn)
    /\ \A d \in replies : d.una <= rcv_nxt /\ \A sn \in d.sns : Got(sn)
    /\ ForgottenIsReceived

-----------------------------------------------------------------------------
(* Numbers. *)

\* A set of numbers that is not empty has a least member, and Min is it.
LEMMA LeastOf ==
    ASSUME NEW S, S \subseteq Nat, S # {}
    PROVE  Min(S) \in S /\ \A x \in S : Min(S) <= x
<1>1. PICK m \in S : \A y \in S : ~ (<< y, m >> \in OpToRel(<, Nat))
  BY Zenon, NatLessThanWellFounded, WFMin
<1>2. \A y \in S : m <= y
  <2> SUFFICES ASSUME NEW y \in S, ~(m <= y)  PROVE FALSE
    BY Zenon
  <2>1. y \in Nat /\ m \in Nat /\ y < m
    BY SMTT(20)
  <2>2. << y, m >> \in Nat \X Nat /\ << y, m >>[1] < << y, m >>[2]
    BY SMTT(20), <2>1
  <2>3. << y, m >> \in OpToRel(<, Nat)
    BY Zenon, <2>2 DEF OpToRel
  <2> QED  BY Zenon, <1>1, <2>3
<1>3. \E x \in S : \A y \in S : x =< y
  BY Zenon, <1>2
<1> QED  BY Zenon, <1>3 DEF Min

\* A set of numbers from 1 that holds all below each of its members counts up
\* to its size.
LEMMA CountsUp ==
    ASSUME NEW R \in Int, NEW S, S \subseteq 1 .. R,
           \A k \in S : \A j \in 1 .. k : j \in S
    PROVE  Cardinality(S) \in Nat /\ S = 1 .. Cardinality(S)
<1> DEFINE Missing == {k \in Nat : k >= 1 /\ k \notin S}
<1>1. Missing # {}
  <2>1. CASE R >= 0
    <3>1. R + 1 \in Nat /\ R + 1 >= 1 /\ R + 1 \notin 1 .. R
      BY SMTT(20), <2>1
    <3> QED  BY Zenon, <3>1
  <2>2. CASE R < 0
    <3>1. 1 \in Nat /\ 1 >= 1 /\ 1 \notin 1 .. R
      BY SMTT(20), <2>2
    <3> QED  BY Zenon, <3>1
  <2> QED  BY SMTT(20), <2>1, <2>2
<1>2. PICK m \in Nat : m = Min(Missing) /\ m \in Missing /\ \A x \in Missing : m <= x
  BY Zenon, <1>1, LeastOf
<1>3. \A k \in Nat : k >= 1 /\ k < m => k \in S
  BY SMTT(20), <1>2
<1>4. \A k \in S : k < m
  <2> SUFFICES ASSUME NEW k \in S, ~(k < m)  PROVE FALSE
    BY Zenon
  <2>1. m \in 1 .. k
    BY SMTT(20), <1>2
  <2> QED  BY Zenon, <1>2, <2>1
<1>5. S = 1 .. m - 1
  <2>1. \A k \in 1 .. R : k < m => k \in 1 .. m - 1
    BY SMTT(20), <1>2
  <2>2. \A k \in 1 .. m - 1 : k \in Nat /\ k >= 1 /\ k < m
    BY SMTT(20), <1>2
  <2> QED  BY Zenon, <1>3, <1>4, <2>1, <2>2
<1>6. Cardinality(1 .. m - 1) = m - 1 /\ m - 1 \in Nat
  <2>1. 1 \in Int /\ m - 1 \in Int /\ m >= 1
    BY SMTT(20), <1>2
  <2>2. Cardinality(1 .. m - 1) = IF 1 > m - 1 THEN 0 ELSE (m - 1) - 1 + 1
    BY Zenon, <2>1, FS_Interval
  <2> QED  BY SMTT(20), <2>1, <2>2
<1> QED  BY Zenon, <1>5, <1>6

\* The segments that move to the queue follow rcv_nxt without a gap and fit.
LEMMA MovableRun ==
    ASSUME NEW buf, NEW nxt \in Nat, NEW queued \in Nat, RCV_WND \in Nat, queued <= RCV_WND
    PROVE  /\ Movable(buf, nxt, queued) \in 0 .. RCV_WND - queued
           /\ \A j \in 1 .. Movable(buf, nxt, queued) : \E seg \in buf : seg.sn = nxt + j - 1
<1> DEFINE sns == {seg.sn : seg \in buf}
           S == {k \in 1 .. RCV_WND - queued : nxt .. nxt + k - 1 \subseteq sns}
           c == Cardinality(S)
<1>1. \A k \in S : \A j \in 1 .. k : j \in S
  <2> SUFFICES ASSUME NEW k \in S, NEW j \in 1 .. k  PROVE j \in S
    BY Zenon
  <2>1. j \in 1 .. RCV_WND - queued /\ nxt .. nxt + j - 1 \subseteq nxt .. nxt + k - 1
    BY SMTT(20)
  <2> QED  BY Zenon, <2>1
<1>2. RCV_WND - queued \in Int /\ S \subseteq 1 .. RCV_WND - queued
  BY SMTT(20)
<1> HIDE DEF S
<1>3. c \in Nat /\ S = 1 .. c
  BY Zenon, <1>1, <1>2, CountsUp
<1>4. c \in 0 .. RCV_WND - queued
  BY SMTT(20), <1>2, <1>3
<1>5. Movable(buf, nxt, queued) = c
  BY Zenon DEF Movable, S
<1> HIDE DEF c
<1>6. ASSUME NEW j \in 1 .. c  PROVE \E seg \in buf : seg.sn = nxt + j - 1
  <2>1. j \in S /\ nxt + j - 1 \in nxt .. nxt + j - 1
    BY SMTT(20), <1>3
  <2>2. nxt .. nxt + j - 1 \subseteq sns
    BY Zenon, <2>1 DEF S
  <2> QED  BY Zenon, <2>1, <2>2
<1> QED  BY Zenon, <1>4, <1>5, <1>6

-----------------------------------------------------------------------------
(* The receiving end. *)

\* k segments go from the buffer to the end of the queue, in order.
Moves(buf, queue, k) ==
    /\ rcv_nxt' = rcv_nxt + k
    /\ rcv_buf' = {seg \in buf : seg.sn >= rcv_nxt + k}
    /\ rcv_queue' \in Seq(Frag) /\ Len(rcv_queue') = Len(queue) + k
    /\ \A i \in 1 .. Len(queue) : rcv_queue'[i] = queue[i]
    /\ \A j \in 1 .. k : \E seg \in buf :
          /\ seg.sn = rcv_nxt + j - 1
          /\ rcv_queue'[Len(queue) + j] = [msg |-> seg.msg, frg |-> seg.frg]

\* The move of ready segments is one of some k that fit.
LEMMA MoveResult ==
    ASSUME NEW buf, buf \subseteq PushSeg, NEW queue \in Seq(Frag), rcv_nxt \in Nat,
           RCV_WND \in Nat, Len(queue) <= RCV_WND, MoveReady(buf, queue)
    PROVE  \E k \in 0 .. RCV_WND - Len(queue) : Moves(buf, queue, k)
<1> DEFINE at(j) == CHOOSE seg \in buf : seg.sn = rcv_nxt + j - 1
<1>1. PICK k \in 0 .. RCV_WND - Len(queue) :
          /\ k = Movable(buf, rcv_nxt, Len(queue))
          /\ \A j \in 1 .. k : \E seg \in buf : seg.sn = rcv_nxt + j - 1
  <2>1. Len(queue) \in Nat
    BY SMTT(20)
  <2> QED  BY Zenon, <2>1, MovableRun
<1>2. \A j \in 1 .. k : at(j) \in buf /\ at(j).sn = rcv_nxt + j - 1
  BY Zenon, <1>1
<1> DEFINE moved == [j \in 1 .. k |-> [msg |-> at(j).msg, frg |-> at(j).frg]]
<1>3. /\ rcv_buf' = {seg \in buf : seg.sn >= rcv_nxt + k} /\ rcv_queue' = queue \o moved
      /\ rcv_nxt' = rcv_nxt + k
  BY Zenon, <1>1 DEF MoveReady
<1> HIDE DEF at
<1>4. \A j \in 1 .. k : [msg |-> at(j).msg, frg |-> at(j).frg] \in Frag
  BY SMTT(20), <1>2 DEF PushSeg, Frag
<1>5. moved \in Seq(Frag) /\ Len(moved) = k
  BY SMTT(20), <1>1, <1>4
<1>6. \A j \in 1 .. k : moved[j] = [msg |-> at(j).msg, frg |-> at(j).frg]
  BY Zenon
<1> HIDE DEF moved
<1>7. /\ rcv_queue' \in Seq(Frag) /\ Len(rcv_queue') = Len(queue) + k
      /\ \A i \in 1 .. Len(queue) + k :
            rcv_queue'[i] = IF i <= Len(queue) THEN queue[i] ELSE moved[i - Len(queue)]
  BY Zenon, <1>3, <1>5, ConcatProperties
<1>8. \A i \in 1 .. Len(queue) : rcv_queue'[i] = queue[i]
  BY SMTT(20), <1>1, <1>7
<1>9. \A j \in 1 .. k : rcv_queue'[Len(queue) + j] = moved[j]
  <2> SUFFICES ASSUME NEW j \in 1 .. k  PROVE rcv_queue'[Len(queue) + j] = moved[j]
    BY Zenon
  <2>1. Len(queue) + j \in 1 .. Len(queue) + k /\ ~(Len(queue) + j <= Len(queue)) /\ Len(queue) + j - Len(queue) = j
    BY SMTT(20), <1>1
  <2> QED  BY SMTT(20), <1>7, <2>1
<1>10. \A j \in 1 .. k : \E seg \in buf :
          /\ seg.sn = rcv_nxt + j - 1
          /\ rcv_queue'[Len(queue) + j] = [msg |-> seg.msg, frg |-> seg.frg]
  BY Zenon, <1>2, <1>6, <1>9
<1> QED  BY Zenon, <1>1, <1>3, <1>7, <1>8, <1>10 DEF Moves

\* After a move the receiving end is within its window, has what it had, and
\* is not ahead of the sending end.
LEMMA MoveKeeps ==
    ASSUME NEW buf, buf \subseteq PushSeg, IsFiniteSet(buf), NEW queue \in Seq(Frag), rcv_nxt \in Nat,
           RCV_WND \in Nat \ {0}, Len(queue) <= RCV_WND, MoveReady(buf, queue),
           \A seg \in buf : rcv_nxt <= seg.sn /\ seg.sn < rcv_nxt + RCV_WND /\ seg.sn < snd_nxt,
           \A s, t \in buf : s.sn = t.sn => s = t,
           snd_nxt \in Nat, rcv_nxt <= snd_nxt
    PROVE  /\ rcv_buf' \subseteq buf /\ IsFiniteSet(rcv_buf') /\ rcv_queue' \in Seq(Frag)
           /\ rcv_nxt' \in Nat /\ rcv_nxt <= rcv_nxt' /\ rcv_nxt' <= snd_nxt
           /\ Window'
           /\ \A sn \in Nat : sn < rcv_nxt \/ (\E seg \in buf : seg.sn = sn) => Got(sn)'
<1>0. PICK k \in 0 .. RCV_WND - Len(queue) : Moves(buf, queue, k)
  <2>1. RCV_WND \in Nat
    BY Zenon
  <2> QED  BY Zenon, <2>1, MoveResult
<1>1. /\ rcv_nxt' = rcv_nxt + k
      /\ rcv_buf' = {seg \in buf : seg.sn >= rcv_nxt + k}
      /\ rcv_queue' \in Seq(Frag) /\ Len(rcv_queue') = Len(queue) + k
      /\ \A j \in 1 .. k : \E seg \in buf : seg.sn = rcv_nxt + j - 1
  BY Zenon, <1>0 DEF Moves
<1>2. k \in Nat /\ Len(queue) \in Nat /\ Len(queue) + k <= RCV_WND
  BY SMTT(20), <1>0
<1>3. rcv_buf' \subseteq buf /\ IsFiniteSet(rcv_buf')
  BY Zenon, <1>1, FS_Subset
<1>4. rcv_nxt' \in Nat /\ rcv_nxt <= rcv_nxt'
  BY SMTT(20), <1>1, <1>2
<1>5. rcv_nxt' <= snd_nxt
  <2>1. CASE k = 0
    BY SMTT(20), <1>1, <2>1
  <2>2. CASE k # 0
    <3>1. k \in 1 .. k
      BY SMTT(20), <1>2, <2>2
    <3>2. rcv_nxt + k - 1 < snd_nxt
      BY Zenon, <1>1, <3>1
    <3> QED  BY SMTT(20), <1>1, <1>2, <3>2
  <2> QED  BY Zenon, <2>1, <2>2
<1>6. Window'
  <2>1. \A seg \in rcv_buf' : seg.sn >= rcv_nxt + k /\ seg.sn < rcv_nxt + RCV_WND /\ seg.sn \in Nat
    BY Zenon, <1>1 DEF PushSeg
  <2>2. \A n \in Nat : n >= rcv_nxt + k /\ n < rcv_nxt + RCV_WND => rcv_nxt' <= n /\ n < rcv_nxt' + RCV_WND
    BY SMTT(20), <1>1, <1>2
  <2> QED  BY Zenon, <1>1, <1>2, <1>3, <2>1, <2>2 DEF Window
<1>7. ASSUME NEW sn \in Nat, sn < rcv_nxt \/ (\E seg \in buf : seg.sn = sn)  PROVE Got(sn)'
  <2>1. CASE sn < rcv_nxt
    <3>1. sn < rcv_nxt'
      BY SMTT(20), <1>4, <2>1
    <3> QED  BY Zenon, <3>1 DEF Got
  <2>2. ASSUME NEW seg \in buf, seg.sn = sn  PROVE Got(sn)'
    <3>1. seg.sn >= rcv_nxt + k \/ sn < rcv_nxt'
      BY SMTT(20), <1>1, <1>2, <2>2
    <3>2. seg.sn >= rcv_nxt + k => seg \in rcv_buf'
      BY Zenon, <1>1
    <3> QED  BY Zenon, <2>2, <3>1, <3>2 DEF Got
  <2> QED  BY Zenon, <1>7, <2>1, <2>2
<1> QED  BY Zenon, <1>1, <1>3, <1>4, <1>5, <1>6, <1>7

-----------------------------------------------------------------------------
(* The sending end. *)

SameFrag(a, b) == a.sn = b.sn /\ a.msg = b.msg /\ a.frg = b.frg

\* d stands for a segment of snd_buf or for one of the n that leave snd_queue.
Sent(d, n) ==
    \/ \E seg \in snd_buf : SameFrag(d, seg)
    \/ \E i \in 1 .. n : /\ d.sn = snd_nxt + i - 1
                         /\ d.msg = snd_queue[i].msg /\ d.frg = snd_queue[i].frg

\* ikcp_flush gives n fragments their numbers and sends again what it has.
Flushes(n) ==
    /\ snd_nxt' = snd_nxt + n
    /\ snd_queue' = SubSeq(snd_queue, n + 1, Len(snd_queue))
    /\ snd_buf' \subseteq Segment /\ \A seg \in snd_buf' : Sent(seg, n)
    /\ \A d \in pushes' : d \in pushes \cup {Wask} \/ (d \in PushSeg /\ Sent(d, n))
    /\ \A sn \in Outstanding \cup (snd_nxt .. snd_nxt + n - 1) : sn \in Outstanding'

\* No more fragments get a number than the queue holds.
LEMMA AdmitsFew ==
    ASSUME KcpAssumption, SenderType
    PROVE  SendWindow \in Nat /\ Admits \in 0 .. Len(snd_queue)
<1>1. SND_WND \in Nat /\ rmt_wnd \in Nat /\ cwnd \in Nat /\ snd_una \in Nat /\ snd_nxt \in Nat
      /\ Len(snd_queue) \in Nat
  BY SMTT(20) DEF KcpAssumption, SenderType
<1>2. SendWindow \in Nat
  BY SMTT(20), <1>1 DEF SendWindow, _imin_
<1>3. Admits \in 0 .. Len(snd_queue)
  BY SMTT(20), <1>1, <1>2 DEF Admits, _imin_
<1> QED  BY Zenon, <1>2, <1>3

\* Retransmitting a segment keeps its number and its fragment.
LEMMA AgainSame ==
    ASSUME KcpAssumption, NEW seg \in Segment
    PROVE  /\ Again(seg) \in Segment /\ SameFrag(Again(seg), seg)
           /\ [Again(seg) EXCEPT !.fastack = 0] \in Segment
           /\ SameFrag([Again(seg) EXCEPT !.fastack = 0], seg)
<1> DEFINE x == _imin_(seg.xmit + 1, IF FASTRESEND = 0 THEN 1 ELSE FASTLIMIT + 1)
<1>1. x \in Nat
  BY SMTT(20) DEF KcpAssumption, Segment, _imin_
<1>2. Again(seg) = [seg EXCEPT !.xmit = x]
  BY Zenon DEF Again
<1> HIDE DEF x
<1>3. Again(seg) \in Segment /\ SameFrag(Again(seg), seg)
  BY SMTT(20), <1>1, <1>2 DEF Segment, SameFrag
<1> DEFINE a == Again(seg)
<1>4. a \in Segment /\ SameFrag(a, seg)
  BY Zenon, <1>3
<1> HIDE DEF a
<1>5. [a EXCEPT !.fastack = 0] \in Segment /\ SameFrag([a EXCEPT !.fastack = 0], seg)
  BY SMTT(20), <1>4 DEF Segment, SameFrag
<1> QED  BY Zenon, <1>3, <1>5 DEF a

\* The fragments that get a number.
LEMMA AdmittedSegs ==
    ASSUME SenderType, Admits \in 0 .. Len(snd_queue)
    PROVE  /\ Admitted \subseteq Segment /\ \A seg \in Admitted : Sent(seg, Admits)
           /\ \A sn \in snd_nxt .. snd_nxt + Admits - 1 : \E seg \in Admitted : seg.sn = sn
<1> DEFINE new(i) == [sn |-> snd_nxt + i - 1, msg |-> snd_queue[i].msg, frg |-> snd_queue[i].frg,
                      xmit |-> 0, fastack |-> 0]
<1>1. Admitted = {new(i) : i \in 1 .. Admits}
  BY Zenon DEF Admitted
<1>2. ASSUME NEW i \in 1 .. Admits  PROVE new(i) \in Segment /\ Sent(new(i), Admits) /\ new(i).sn = snd_nxt + i - 1
  <2>1. snd_queue[i] \in Frag /\ snd_nxt + i - 1 \in Nat
    BY SMTT(20) DEF SenderType
  <2>2. new(i) \in Segment
    BY SMTT(20), <2>1 DEF Frag, Segment
  <2>3. new(i).sn = snd_nxt + i - 1 /\ new(i).msg = snd_queue[i].msg /\ new(i).frg = snd_queue[i].frg
    BY Zenon
  <2> QED  BY Zenon, <2>2, <2>3 DEF Sent
<1> HIDE DEF new
<1>3. ASSUME NEW sn \in snd_nxt .. snd_nxt + Admits - 1  PROVE \E seg \in Admitted : seg.sn = sn
  <2>1. sn - snd_nxt + 1 \in 1 .. Admits /\ snd_nxt + (sn - snd_nxt + 1) - 1 = sn
    BY SMTT(20) DEF SenderType
  <2> QED  BY Zenon, <1>1, <1>2, <2>1
<1> QED  BY Zenon, <1>1, <1>2, <1>3

\* What ikcp_flush does at the sending end.
LEMMA FlushResult ==
    ASSUME KcpAssumption, SenderType, NEW due, NEW probeDue, FlushSender(due, probeDue)
    PROVE  \E n \in 0 .. Len(snd_queue) : Flushes(n)
<1> DEFINE n == Admits
           buf == snd_buf \cup Admitted
           timeout == {seg \in buf : seg.xmit > 0 /\ seg.sn \in due}
           skipped == {seg \in buf : /\ seg.xmit > 0 /\ seg.sn \notin due
                                     /\ FASTRESEND > 0 /\ seg.fastack >= FASTRESEND
                                     /\ seg.xmit <= FASTLIMIT}
           first   == {seg \in buf : seg.xmit = 0}
           resend  == timeout \cup skipped \cup first
           ask     == rmt_wnd = 0 /\ probing /\ probeDue
           img(seg) == IF seg \in skipped THEN [Again(seg) EXCEPT !.fastack = 0]
                       ELSE IF seg \in resend THEN Again(seg) ELSE seg
<1>1. /\ snd_buf' = {img(seg) : seg \in buf}
      /\ snd_queue' = SubSeq(snd_queue, n + 1, Len(snd_queue))
      /\ snd_nxt' = snd_nxt + n
      /\ pushes' = pushes \cup {Push(seg) : seg \in resend} \cup (IF ask THEN {Wask} ELSE {})
  BY Zenon DEF FlushSender
<1>2. resend \subseteq buf
  BY Zenon
<1>3. n \in 0 .. Len(snd_queue)
  BY Zenon, AdmitsFew
<1>4. /\ buf \subseteq Segment /\ \A seg \in buf : Sent(seg, n)
      /\ \A sn \in snd_nxt .. snd_nxt + n - 1 : \E seg \in buf : seg.sn = sn
  <2>1. \A seg \in snd_buf : Sent(seg, n)
    BY Zenon DEF Sent, SameFrag
  <2> QED  BY Zenon, <1>3, <2>1, AdmittedSegs DEF SenderType
<1>5. \A seg \in buf : img(seg) \in Segment /\ SameFrag(img(seg), seg)
  BY Zenon, <1>4, AgainSame DEF SameFrag
<1> HIDE DEF buf, resend, img, n
<1>6. ASSUME NEW a, NEW seg \in buf, SameFrag(a, seg)  PROVE Sent(a, n)
  <2>1. CASE \E s \in snd_buf : SameFrag(seg, s)
    <3>1. \E s \in snd_buf : SameFrag(a, s)
      BY Zenon, <1>6, <2>1 DEF SameFrag
    <3> QED  BY Zenon, <3>1 DEF Sent
  <2>2. ASSUME NEW i \in 1 .. n, seg.sn = snd_nxt + i - 1, seg.msg = snd_queue[i].msg, seg.frg = snd_queue[i].frg
        PROVE  Sent(a, n)
    <3>1. a.sn = snd_nxt + i - 1 /\ a.msg = snd_queue[i].msg /\ a.frg = snd_queue[i].frg
      BY Zenon, <1>6, <2>2 DEF SameFrag
    <3> QED  BY Zenon, <3>1 DEF Sent
  <2> QED  BY Zenon, <1>4, <2>1, <2>2 DEF Sent
<1>7. ASSUME NEW seg \in buf  PROVE Push(seg) \in PushSeg /\ Sent(Push(seg), n)
  <2>1. seg \in Segment
    BY Zenon, <1>4
  <2>2. Push(seg) \in PushSeg /\ SameFrag(Push(seg), seg)
    BY SMTT(20), <2>1 DEF Push, Segment, PushSeg, SameFrag
  <2> QED  BY Zenon, <1>6, <2>2
<1>8. \A d \in pushes' : d \in pushes \cup {Wask} \/ (d \in PushSeg /\ Sent(d, n))
  BY Zenon, <1>1, <1>2, <1>7
<1>9. snd_buf' \subseteq Segment /\ \A seg \in snd_buf' : Sent(seg, n)
  BY Zenon, <1>1, <1>5, <1>6
<1>10. \A seg \in buf : seg.sn \in Outstanding'
  BY Zenon, <1>1, <1>5 DEF SameFrag, Outstanding
<1>11. \A sn \in Outstanding \cup (snd_nxt .. snd_nxt + n - 1) : sn \in Outstanding'
  BY Zenon, <1>4, <1>10 DEF Outstanding, buf
<1> QED  BY Zenon, <1>1, <1>3, <1>8, <1>9, <1>11 DEF Flushes

\* What an acknowledgement does: the segments it names are forgotten, no other.
LEMMA AckResult ==
    ASSUME KcpAssumption, SenderType, NEW d \in Reply, InputSender(d)
    PROVE  /\ snd_buf' \subseteq Segment /\ \A a \in snd_buf' : \E seg \in snd_buf : SameFrag(a, seg)
           /\ \A sn \in Outstanding : sn \in Outstanding' \/ sn < d.una \/ sn \in d.sns
<1> DEFINE left == Unacked(d)
           una  == FirstSn(left, snd_nxt)
           passed(seg) == /\ d.sns # {}
                          /\ Max(d.sns) \in una .. snd_nxt - 1
                          /\ seg.sn < Max(d.sns)
           img(seg) == IF passed(seg) THEN [seg EXCEPT !.fastack = _imin_(@ + 1, FASTRESEND)] ELSE seg
<1>1. snd_buf' = {img(seg) : seg \in left}
  BY Zenon DEF InputSender
<1> HIDE DEF passed
<1>2. ASSUME NEW seg \in snd_buf  PROVE img(seg) \in Segment /\ SameFrag(img(seg), seg)
  <2>1. seg \in Segment
    BY Zenon DEF SenderType
  <2>2. _imin_(seg.fastack + 1, FASTRESEND) \in Nat
    BY SMTT(20), <2>1 DEF Segment, KcpAssumption, _imin_
  <2> DEFINE x == _imin_(seg.fastack + 1, FASTRESEND)
  <2>3. img(seg) = IF passed(seg) THEN [seg EXCEPT !.fastack = x] ELSE seg
    BY Zenon
  <2> HIDE DEF x
  <2>4. [seg EXCEPT !.fastack = x] \in Segment /\ SameFrag([seg EXCEPT !.fastack = x], seg)
    BY SMTT(20), <2>1, <2>2 DEF Segment, SameFrag, x
  <2> QED  BY Zenon, <2>1, <2>3, <2>4 DEF SameFrag
<1> HIDE DEF img
<1>3. left \subseteq snd_buf /\ \A seg \in snd_buf : seg \in left \/ seg.sn < d.una \/ seg.sn \in d.sns
  BY Zenon DEF Unacked
<1> HIDE DEF left
<1>4. \A seg \in left : seg.sn \in Outstanding'
  BY Zenon, <1>1, <1>2, <1>3 DEF SameFrag, Outstanding
<1>5. \A sn \in Outstanding : sn \in Outstanding' \/ sn < d.una \/ sn \in d.sns
  BY Zenon, <1>3, <1>4 DEF Outstanding
<1> QED  BY Zenon, <1>1, <1>2, <1>3, <1>5

-----------------------------------------------------------------------------
(* The invariant of a conversation, step by step. *)

ConvInv == SenderType /\ ReceiverType /\ NetType /\ Window /\ GivenOut /\ Acknowledged

\* The fragments of a message.
LEMMA FragmentSeq ==
    ASSUME KcpAssumption, NEW m \in 1 .. Len(Fragments)
    PROVE  /\ Fragments[m] \in Nat \ {0} /\ FragmentsOf(m) \in Seq(Frag) /\ Len(FragmentsOf(m)) = Fragments[m]
           /\ \A i \in 1 .. Fragments[m] : FragmentsOf(m)[i] = [msg |-> m, frg |-> Fragments[m] - i]
<1>1. Fragments[m] \in Nat \ {0} /\ m \in Nat
  BY SMTT(20) DEF KcpAssumption
<1>2. \A i \in 1 .. Fragments[m] : [msg |-> m, frg |-> Fragments[m] - i] \in Frag
  BY SMTT(20), <1>1 DEF Frag
<1>3. FragmentsOf(m) \in Seq(Frag) /\ Len(FragmentsOf(m)) = Fragments[m]
  BY SMTT(20), <1>1, <1>2 DEF FragmentsOf
<1> QED  BY Zenon, <1>1, <1>3 DEF FragmentsOf

\* The segments and numbers of the other end do not depend on the sender.
LEMMA ReceiverSame ==
    ASSUME UNCHANGED receiver
    PROVE  /\ ReceiverType => ReceiverType'
           /\ Window => Window'
           /\ \A sn : Got(sn)' = Got(sn)
BY Zenon DEF receiver, ReceiverType, Window, Got

\* ForgottenIsReceived in terms of Got.
LEMMA ForgottenGot == ForgottenIsReceived <=> \A sn \in 0 .. snd_nxt - 1 : sn \in Outstanding \/ Got(sn)
BY Zenon DEF ForgottenIsReceived, Got

\* ikcp_send only lengthens the queue of fragments.
LEMMA SendStep ==
    ASSUME KcpAssumption, ConvInv, ikcp_send
    PROVE  ConvInv'
<1>1. /\ nsent' = nsent + 1 /\ nsent < Len(Fragments) /\ snd_queue' = snd_queue \o FragmentsOf(nsent + 1)
      /\ UNCHANGED << snd_buf, snd_una, snd_nxt, rmt_wnd, cwnd, ssthresh, probing, receiver, pushes, replies >>
  BY Zenon DEF ikcp_send
<1>2. nsent + 1 \in 1 .. Len(Fragments) /\ nsent' \in 0 .. Len(Fragments)
  BY SMTT(20), <1>1 DEF ConvInv, SenderType, KcpAssumption
<1>3. snd_queue' \in Seq(Frag)
  BY Zenon, <1>1, <1>2, FragmentSeq, ConcatProperties DEF ConvInv, SenderType
<1>4. SenderType'
  BY Zenon, <1>1, <1>2, <1>3 DEF ConvInv, SenderType
<1>5. GivenOut' /\ Acknowledged' /\ NetType'
  BY Zenon, <1>1 DEF ConvInv, GivenOut, Acknowledged, ForgottenIsReceived, Got, Outstanding, NetType, receiver
<1> QED  BY Zenon, <1>1, <1>4, <1>5, ReceiverSame DEF ConvInv

\* A segment that was sent or is given out now has a number below the next.
LEMMA SentBelow ==
    ASSUME SenderType, GivenOut, NEW n \in 0 .. Len(snd_queue), NEW d, Sent(d, n)
    PROVE  d.sn < snd_nxt + n
<1>1. snd_nxt \in Nat /\ n \in Nat
  BY SMTT(20) DEF SenderType
<1>2. ASSUME NEW seg \in snd_buf, SameFrag(d, seg)  PROVE d.sn < snd_nxt + n
  <2>1. seg.sn < snd_nxt /\ seg.sn \in Nat /\ d.sn = seg.sn
    BY Zenon, <1>2 DEF GivenOut, SameFrag, SenderType, Segment
  <2> QED  BY SMTT(20), <1>1, <2>1
<1>3. ASSUME NEW i \in 1 .. n, d.sn = snd_nxt + i - 1  PROVE d.sn < snd_nxt + n
  BY SMTT(20), <1>1, <1>3
<1> QED  BY Zenon, <1>2, <1>3 DEF Sent

\* ikcp_flush at the sending end forgets no segment and sends only segments it
\* holds.
LEMMA FlushStep ==
    ASSUME KcpAssumption, ConvInv, NEW due, NEW probeDue, FlushSender(due, probeDue)
    PROVE  ConvInv'
<1>0. SenderType /\ NetType /\ GivenOut /\ Acknowledged
  BY Zenon DEF ConvInv
<1>1. PICK n \in 0 .. Len(snd_queue) : Flushes(n)
  BY Zenon, <1>0, FlushResult
<1>2. snd_nxt \in Nat /\ n \in Nat /\ snd_nxt' \in Nat /\ snd_nxt <= snd_nxt' /\ snd_nxt' = snd_nxt + n
  BY SMTT(20), <1>0, <1>1 DEF Flushes, SenderType
<1>3. UNCHANGED << nsent, snd_una, rmt_wnd, receiver, replies, ndup >> /\ probing' \in BOOLEAN
  BY Zenon DEF FlushSender
<1>4. cwnd' \in Nat /\ ssthresh' \in Nat
  <2> DEFINE buf == snd_buf \cup Admitted
             timeout == {seg \in buf : seg.xmit > 0 /\ seg.sn \in due}
             skipped == {seg \in buf : /\ seg.xmit > 0 /\ seg.sn \notin due
                                       /\ FASTRESEND > 0 /\ seg.fastack >= FASTRESEND
                                       /\ seg.xmit <= FASTLIMIT}
             fast == _imax_(THRESH_MIN, (snd_nxt + Admits - snd_una) \div 2)
  <2>1. /\ ssthresh' = IF timeout # {} THEN _imax_(THRESH_MIN, SendWindow \div 2)
                       ELSE IF skipped # {} THEN fast ELSE ssthresh
        /\ cwnd' = IF timeout # {} THEN 1
                   ELSE _imax_(1, IF skipped # {} THEN fast + FASTRESEND ELSE cwnd)
    BY Zenon DEF FlushSender
  <2> HIDE DEF timeout, skipped
  <2>2. /\ SendWindow \in Nat /\ Admits \in Nat /\ snd_una \in Nat /\ FASTRESEND \in Nat
        /\ cwnd \in Nat /\ ssthresh \in Nat
    BY SMTT(20), <1>0, AdmitsFew DEF SenderType, KcpAssumption
  <2>3. fast \in Nat /\ _imax_(THRESH_MIN, SendWindow \div 2) \in Nat
    BY SMTT(20), <1>2, <2>2 DEF _imax_, THRESH_MIN
  <2> HIDE DEF fast
  <2>4. _imax_(1, IF skipped # {} THEN fast + FASTRESEND ELSE cwnd) \in Nat
    BY SMTT(20), <2>2, <2>3 DEF _imax_
  <2> QED  BY SMTT(20), <2>1, <2>2, <2>3, <2>4
<1>5. snd_queue' \in Seq(Frag)
  BY SMTT(20), <1>0, <1>1 DEF Flushes, SenderType
<1>6. SenderType'
  BY Zenon, <1>0, <1>1, <1>2, <1>3, <1>4, <1>5 DEF SenderType, Flushes
<1>7. NetType'
  BY Zenon, <1>0, <1>1, <1>3 DEF NetType, Flushes
<1>8. \A k \in Nat : k < snd_nxt => k < snd_nxt'
  BY SMTT(20), <1>2
<1>9. GivenOut'
  <2>1. rcv_nxt <= snd_nxt'
    BY SMTT(20), <1>0, <1>2 DEF GivenOut, ConvInv, ReceiverType
  <2>2. \A seg \in snd_buf' : seg.sn < snd_nxt'
    BY Zenon, <1>0, <1>1, <1>2, SentBelow DEF Flushes
  <2>3. \A d \in pushes' : d.cmd = "PUSH" => d.sn < snd_nxt'
    <3> SUFFICES ASSUME NEW d \in pushes', d.cmd = "PUSH"  PROVE d.sn < snd_nxt'
      BY Zenon
    <3>1. CASE d \in pushes
      <4>1. d # Wask
        BY SMTT(20) DEF Wask
      <4>2. d.sn < snd_nxt /\ d.sn \in Nat
        BY Zenon, <1>0, <3>1, <4>1 DEF GivenOut, NetType, PushSeg
      <4> QED  BY Zenon, <1>8, <4>2
    <3>2. CASE d = Wask
      BY SMTT(20), <3>2 DEF Wask
    <3>3. CASE Sent(d, n)
      BY Zenon, <1>0, <1>2, <3>3, SentBelow
    <3> QED  BY Zenon, <1>1, <3>1, <3>2, <3>3 DEF Flushes
  <2>4. \A seg \in rcv_buf : seg.sn < snd_nxt'
    BY Zenon, <1>0, <1>8 DEF GivenOut, ConvInv, ReceiverType, PushSeg
  <2>5. \A sn \in acklist : sn < snd_nxt'
    BY Zenon, <1>0, <1>8 DEF GivenOut, ConvInv, ReceiverType
  <2>6. \A d \in replies : \A sn \in d.sns : sn < snd_nxt'
    BY Zenon, <1>0, <1>8 DEF GivenOut, NetType, Reply
  <2> QED  BY Zenon, <1>3, <2>1, <2>2, <2>3, <2>4, <2>5, <2>6 DEF GivenOut, receiver
<1>10. Acknowledged'
  <2>1. ForgottenIsReceived'
    <3> SUFFICES ASSUME NEW sn \in 0 .. snd_nxt' - 1  PROVE sn \in Outstanding' \/ Got(sn)'
      BY Zenon DEF ForgottenIsReceived, Got
    <3>1. sn \in 0 .. snd_nxt - 1 \/ sn \in snd_nxt .. snd_nxt + n - 1
      BY SMTT(20), <1>2
    <3>2. sn \in 0 .. snd_nxt - 1 => sn \in Outstanding \/ Got(sn)
      BY Zenon, <1>0, ForgottenGot DEF Acknowledged
    <3> QED  BY Zenon, <1>1, <1>3, <3>1, <3>2, ReceiverSame DEF Flushes
  <2> QED  BY Zenon, <1>0, <1>3, <2>1, ReceiverSame DEF Acknowledged, receiver
<1> QED  BY Zenon, <1>3, <1>6, <1>7, <1>9, <1>10, ReceiverSame DEF ConvInv

\* An acknowledgement removes only segments that were received.
LEMMA AckStep ==
    ASSUME KcpAssumption, ConvInv, NEW d \in replies, InputSender(d)
    PROVE  ConvInv'
<1>0. SenderType /\ NetType /\ GivenOut /\ Acknowledged /\ d \in Reply
  BY Zenon DEF ConvInv, NetType
<1>1. /\ snd_buf' \subseteq Segment /\ \A a \in snd_buf' : \E seg \in snd_buf : SameFrag(a, seg)
      /\ \A sn \in Outstanding : sn \in Outstanding' \/ sn < d.una \/ sn \in d.sns
  BY Zenon, <1>0, AckResult
<1>2. /\ replies' \subseteq replies /\ rmt_wnd' = d.wnd
      /\ UNCHANGED << nsent, snd_queue, snd_nxt, ssthresh, probing, receiver, pushes >>
  BY Zenon DEF InputSender, Arrive
<1>3. snd_una' \in Nat
  <2>1. snd_una' = FirstSn(Unacked(d), snd_nxt) /\ Unacked(d) \subseteq Segment
    BY Zenon, <1>0 DEF InputSender, Unacked, SenderType
  <2> DEFINE S == {seg.sn : seg \in Unacked(d)}
  <2>2. S \subseteq Nat
    BY Zenon, <2>1 DEF Segment
  <2>3. CASE Unacked(d) = {}
    BY Zenon, <1>0, <2>1, <2>3 DEF FirstSn, SenderType
  <2>4. CASE Unacked(d) # {}
    <3>1. S # {}
      BY Zenon, <2>4
    <3>2. Min(S) \in Nat
      BY Zenon, <2>2, <3>1, LeastOf
    <3> QED  BY Zenon, <2>1, <2>4, <3>2 DEF FirstSn
  <2> QED  BY Zenon, <2>3, <2>4
<1>4. cwnd' \in Nat
  <2>1. cwnd' \in GrownCwnd(d.wnd) \/ cwnd' = cwnd
    BY Zenon DEF InputSender
  <2>2. cwnd \in Nat /\ d.wnd \in Nat /\ ssthresh \in Nat
    BY SMTT(20), <1>0 DEF SenderType, Reply, KcpAssumption
  <2> QED  BY SMTT(20), <2>1, <2>2 DEF GrownCwnd
<1>5. SenderType'
  BY Zenon, <1>0, <1>1, <1>2, <1>3, <1>4 DEF SenderType, Reply
<1>6. NetType'
  BY Zenon, <1>0, <1>2 DEF NetType
<1>7. GivenOut'
  <2>1. \A seg \in snd_buf' : seg.sn < snd_nxt
    BY Zenon, <1>0, <1>1 DEF GivenOut, SameFrag
  <2> QED  BY Zenon, <1>0, <1>2, <2>1 DEF GivenOut, receiver
<1>8. Acknowledged'
  <2>1. ForgottenIsReceived'
    <3> SUFFICES ASSUME NEW sn \in 0 .. snd_nxt - 1  PROVE sn \in Outstanding' \/ Got(sn)
      BY Zenon, <1>2, ReceiverSame DEF ForgottenIsReceived, Got
    <3>1. sn \in Outstanding \/ Got(sn)
      BY Zenon, <1>0, ForgottenGot DEF Acknowledged
    <3>2. sn < d.una => sn < rcv_nxt
      BY SMTT(20), <1>0 DEF Acknowledged, Reply, ConvInv, ReceiverType, SenderType
    <3>3. sn \in d.sns => Got(sn)
      BY Zenon, <1>0 DEF Acknowledged
    <3> QED  BY Zenon, <1>1, <3>1, <3>2, <3>3 DEF Got
  <2> QED  BY Zenon, <1>0, <1>2, <2>1, ReceiverSame DEF Acknowledged, receiver
<1> QED  BY Zenon, <1>2, <1>5, <1>6, <1>7, <1>8, ReceiverSame DEF ConvInv

\* The other end's segments and numbers do not depend on the receiver.
LEMMA SenderSame ==
    ASSUME UNCHANGED sender
    PROVE  (SenderType => SenderType') /\ Outstanding' = Outstanding /\ snd_nxt' = snd_nxt
BY Zenon DEF sender, SenderType, Outstanding

\* What a move of ready segments leaves true, when it starts from a buffer
\* that holds what the receiving end had.
LEMMA MoveStep ==
    ASSUME KcpAssumption, ConvInv, UNCHANGED << sender, replies >>, pushes' \subseteq pushes,
           NEW buf, buf \subseteq PushSeg, IsFiniteSet(buf), rcv_buf \subseteq buf,
           NEW queue \in Seq(Frag), Len(queue) <= RCV_WND, MoveReady(buf, queue),
           \A seg \in buf : rcv_nxt <= seg.sn /\ seg.sn < rcv_nxt + RCV_WND /\ seg.sn < snd_nxt,
           \A s, t \in buf : s.sn = t.sn => s = t,
           acklist' \subseteq Nat, \A sn \in acklist' : sn < snd_nxt /\ (sn \in acklist \/ \E seg \in buf : seg.sn = sn),
           tell' \in BOOLEAN, delivered' \in Seq(Seq(Frag))
    PROVE  ConvInv'
<1>0. /\ SenderType /\ ReceiverType /\ NetType /\ GivenOut /\ Acknowledged
      /\ RCV_WND \in Nat \ {0} /\ rcv_nxt \in Nat /\ snd_nxt \in Nat /\ rcv_nxt <= snd_nxt
  BY Zenon DEF ConvInv, KcpAssumption, SenderType, ReceiverType, GivenOut
<1>1. /\ rcv_buf' \subseteq buf /\ IsFiniteSet(rcv_buf') /\ rcv_queue' \in Seq(Frag)
      /\ rcv_nxt' \in Nat /\ rcv_nxt <= rcv_nxt' /\ rcv_nxt' <= snd_nxt
      /\ Window'
      /\ \A sn \in Nat : sn < rcv_nxt \/ (\E seg \in buf : seg.sn = sn) => Got(sn)'
  BY Zenon, <1>0, MoveKeeps
<1>2. \A sn \in Nat : Got(sn) => Got(sn)'
  BY Zenon, <1>1 DEF Got
<1>3. ReceiverType'
  BY Zenon, <1>1 DEF ReceiverType
<1>4. NetType'
  BY Zenon, <1>0 DEF NetType
<1>5. GivenOut'
  BY Zenon, <1>0, <1>1, SenderSame DEF GivenOut, sender
<1>6. Acknowledged'
  <2>1. \A sn \in acklist' : Got(sn)'
    BY Zenon, <1>0, <1>1, <1>2 DEF Acknowledged
  <2>2. \A d \in replies : d.una <= rcv_nxt' /\ \A sn \in d.sns : Got(sn)'
    <3> SUFFICES ASSUME NEW d \in replies  PROVE d.una <= rcv_nxt' /\ \A sn \in d.sns : Got(sn)'
      BY Zenon
    <3>1. d.una \in Nat /\ d.sns \subseteq Nat /\ d.una <= rcv_nxt /\ \A sn \in d.sns : Got(sn)
      BY Zenon, <1>0 DEF NetType, Reply, Acknowledged
    <3>2. d.una <= rcv_nxt'
      BY SMTT(20), <1>0, <1>1, <3>1
    <3> QED  BY Zenon, <1>2, <3>1, <3>2
  <2>3. ForgottenIsReceived'
    <3> SUFFICES ASSUME NEW sn \in 0 .. snd_nxt - 1  PROVE sn \in Outstanding' \/ Got(sn)'
      BY Zenon, SenderSame DEF ForgottenIsReceived, Got
    <3>1. sn \in Nat
      BY SMTT(20), <1>0
    <3>2. sn \in Outstanding \/ Got(sn)
      BY Zenon, <1>0, ForgottenGot DEF Acknowledged
    <3> QED  BY Zenon, <1>2, <3>1, <3>2, SenderSame
  <2> QED  BY Zenon, <2>1, <2>2, <2>3 DEF Acknowledged
<1> QED  BY Zenon, <1>0, <1>1, <1>3, <1>4, <1>5, <1>6, SenderSame DEF ConvInv

\* A segment that arrives within the window is in the buffer from then on.
LEMMA InsertedSegs ==
    ASSUME ReceiverType, Window, NEW d \in PushSeg
    PROVE  /\ Inserted(d) \subseteq PushSeg /\ IsFiniteSet(Inserted(d)) /\ rcv_buf \subseteq Inserted(d)
           /\ \A seg \in Inserted(d) : seg \in rcv_buf \/ seg = d
           /\ \A s, t \in Inserted(d) : s.sn = t.sn => s = t
           /\ \E seg \in Inserted(d) : seg.sn = d.sn
<1>1. CASE \E seg \in rcv_buf : seg.sn = d.sn
  BY Zenon, <1>1 DEF Inserted, ReceiverType, Window
<1>2. CASE ~ \E seg \in rcv_buf : seg.sn = d.sn
  <2>1. Inserted(d) = rcv_buf \cup {d}
    BY Zenon, <1>2 DEF Inserted
  <2>2. IsFiniteSet(rcv_buf \cup {d})
    BY Zenon, FS_AddElement DEF ReceiverType
  <2>3. \A s, t \in rcv_buf \cup {d} : s.sn = t.sn => s = t
    BY Zenon, <1>2 DEF Window
  <2> QED  BY Zenon, <2>1, <2>2, <2>3 DEF ReceiverType
<1> QED  BY Zenon, <1>1, <1>2

\* A segment that arrives, wanted or not, is acknowledged only if it was
\* received before or is kept now.
LEMMA InputStep ==
    ASSUME KcpAssumption, ConvInv, NEW d \in pushes, InputReceiver(d)
    PROVE  ConvInv'
<1>0. /\ SenderType /\ ReceiverType /\ NetType /\ Window /\ GivenOut /\ Acknowledged
      /\ UNCHANGED << sender, replies >> /\ pushes' \subseteq pushes
  BY Zenon DEF ConvInv, InputReceiver, Arrive
<1>1. CASE InputPush(d) /\ d.sn < rcv_nxt + RCV_WND
  <2>1. d.cmd = "PUSH" /\ acklist' = acklist \cup {d.sn} /\ UNCHANGED << tell, delivered >>
    BY Zenon, <1>1 DEF InputPush
  <2>2. d # Wask
    BY SMTT(20), <2>1 DEF Wask
  <2>3. d \in PushSeg /\ d.sn \in Nat /\ d.sn < snd_nxt
    BY Zenon, <1>0, <2>1, <2>2 DEF NetType, PushSeg, GivenOut
  <2>4. CASE d.sn >= rcv_nxt
    <3> DEFINE buf == Inserted(d)
    <3>1. MoveReady(buf, rcv_queue)
      BY Zenon, <1>1, <2>4 DEF InputPush
    <3>2. /\ buf \subseteq PushSeg /\ IsFiniteSet(buf) /\ rcv_buf \subseteq buf
          /\ \A seg \in buf : seg \in rcv_buf \/ seg = d
          /\ \A s, t \in buf : s.sn = t.sn => s = t
          /\ \E seg \in buf : seg.sn = d.sn
      BY Zenon, <1>0, <2>3, InsertedSegs
    <3> HIDE DEF buf
    <3>3. rcv_nxt <= d.sn
      BY SMTT(20), <1>0, <2>3, <2>4 DEF ReceiverType
    <3>4. \A seg \in buf : rcv_nxt <= seg.sn /\ seg.sn < rcv_nxt + RCV_WND /\ seg.sn < snd_nxt
      BY Zenon, <1>0, <1>1, <2>3, <3>2, <3>3 DEF Window, GivenOut
    <3>5. acklist' \subseteq Nat /\ \A sn \in acklist' : sn < snd_nxt /\ (sn \in acklist \/ \E seg \in buf : seg.sn = sn)
      BY Zenon, <1>0, <2>1, <2>3, <3>2 DEF ReceiverType, GivenOut
    <3>6. rcv_queue \in Seq(Frag) /\ Len(rcv_queue) <= RCV_WND /\ tell' \in BOOLEAN /\ delivered' \in Seq(Seq(Frag))
      BY Zenon, <1>0, <2>1 DEF ReceiverType, Window
    <3> QED  BY Zenon, <1>0, <3>1, <3>2, <3>4, <3>5, <3>6, MoveStep
  <2>5. CASE ~(d.sn >= rcv_nxt)
    <3>1. UNCHANGED << rcv_buf, rcv_queue, rcv_nxt >>
      BY Zenon, <1>1, <2>5 DEF InputPush
    <3>2. d.sn < rcv_nxt
      BY SMTT(20), <1>0, <2>3, <2>5 DEF ReceiverType
    <3>3. ReceiverType' /\ Window'
      BY Zenon, <1>0, <2>1, <2>3, <3>1 DEF ReceiverType, Window
    <3>4. NetType' /\ GivenOut'
      BY Zenon, <1>0, <2>1, <2>3, <3>1, SenderSame DEF NetType, GivenOut, sender
    <3>5. Acknowledged'
      BY Zenon, <1>0, <2>1, <3>1, <3>2, SenderSame DEF Acknowledged, Got, ForgottenIsReceived
    <3> QED  BY Zenon, <1>0, <3>3, <3>4, <3>5, SenderSame DEF ConvInv
  <2> QED  BY Zenon, <2>4, <2>5
<1>2. CASE (InputPush(d) /\ ~(d.sn < rcv_nxt + RCV_WND)) \/ InputWask(d)
  <2>1. UNCHANGED << rcv_buf, rcv_queue, rcv_nxt, acklist, delivered >> /\ tell' \in BOOLEAN
    BY Zenon, <1>0, <1>2 DEF InputPush, InputWask, ReceiverType
  <2>2. ReceiverType' /\ Window'
    BY Zenon, <1>0, <2>1 DEF ReceiverType, Window
  <2>3. NetType' /\ GivenOut'
    BY Zenon, <1>0, <2>1, SenderSame DEF NetType, GivenOut, sender
  <2>4. Acknowledged'
    BY Zenon, <1>0, <2>1, SenderSame DEF Acknowledged, Got, ForgottenIsReceived
  <2> QED  BY Zenon, <1>0, <2>2, <2>3, <2>4, SenderSame DEF ConvInv
<1> QED  BY Zenon, <1>1, <1>2 DEF InputReceiver

\* ikcp_flush at the receiving end acknowledges what it has.
LEMMA FlushReceiverStep ==
    ASSUME KcpAssumption, ConvInv, FlushReceiver
    PROVE  ConvInv'
<1>0. SenderType /\ ReceiverType /\ NetType /\ Window /\ GivenOut /\ Acknowledged
  BY Zenon DEF ConvInv
<1> DEFINE d == [sns |-> acklist, una |-> rcv_nxt, wnd |-> RCV_WND - Len(rcv_queue)]
<1>1. /\ replies' \subseteq replies \cup {d} /\ acklist' = {} /\ tell' = FALSE
      /\ UNCHANGED << sender, rcv_buf, rcv_queue, rcv_nxt, delivered, pushes >>
  BY Zenon DEF FlushReceiver, Carried
<1>2. d \in Reply
  <2>1. RCV_WND - Len(rcv_queue) \in 0 .. RCV_WND
    BY SMTT(20), <1>0 DEF KcpAssumption, Window, ReceiverType
  <2> QED  BY SMTT(20), <1>0, <2>1 DEF Reply, ReceiverType
<1>3. d.sns = acklist /\ d.una = rcv_nxt
  BY Zenon
<1> HIDE DEF d
<1>4. ReceiverType' /\ Window'
  BY Zenon, <1>0, <1>1 DEF ReceiverType, Window
<1>5. NetType'
  BY Zenon, <1>0, <1>1, <1>2 DEF NetType
<1>6. GivenOut'
  BY Zenon, <1>0, <1>1, <1>3, SenderSame DEF GivenOut, sender
<1>7. rcv_nxt <= rcv_nxt
  BY SMTT(20), <1>0 DEF ReceiverType
<1>8. Acknowledged'
  BY Zenon, <1>0, <1>1, <1>3, <1>7, SenderSame DEF Acknowledged, Got, ForgottenIsReceived
<1> QED  BY Zenon, <1>0, <1>1, <1>4, <1>5, <1>6, <1>8, SenderSame DEF ConvInv

\* A lost datagram takes nothing from either end.
LEMMA LoseStep ==
    ASSUME ConvInv, Lose \/ UNCHANGED kcpvars
    PROVE  ConvInv'
<1>1. UNCHANGED << sender, receiver >> /\ pushes' \subseteq pushes /\ replies' \subseteq replies
  BY Zenon DEF Lose, kcpvars
<1>2. NetType' /\ GivenOut'
  BY Zenon, <1>1, SenderSame DEF ConvInv, NetType, GivenOut, sender, receiver
<1>3. Acknowledged'
  BY Zenon, <1>1, SenderSame DEF ConvInv, Acknowledged, Got, ForgottenIsReceived, receiver
<1> QED  BY Zenon, <1>1, <1>2, <1>3, SenderSame, ReceiverSame DEF ConvInv

-----------------------------------------------------------------------------
(* The stream of fragments.  E[m] is the number of segments of the first m   *)
(* messages: segment s belongs to message m when E[m - 1] <= s < E[m].       *)

Ends(E, n) ==
    /\ E \in [0 .. n -> Nat] /\ E[0] = 0
    /\ \A m \in 1 .. n : E[m] = E[m - 1] + Fragments[m]
    /\ \A a, b \in 0 .. n : a < b => E[a] < E[b]

\* f is what the stream of n messages has at position s.
At(E, n, s, f) ==
    f.msg \in 1 .. n /\ E[f.msg - 1] <= s /\ s < E[f.msg] /\ f.frg = E[f.msg] - 1 - s

\* What the sending end has not sent, has not been acknowledged or is under way.
SenderStream(E) ==
    /\ Ends(E, nsent)
    /\ snd_nxt + Len(snd_queue) = E[nsent]
    /\ \A i \in 1 .. Len(snd_queue) : At(E, nsent, snd_nxt + i - 1, snd_queue[i])
    /\ \A seg \in snd_buf : At(E, nsent, seg.sn, seg)
    /\ \A d \in pushes : d.cmd = "PUSH" => At(E, nsent, d.sn, d)

\* What the receiving end has: whole messages that were returned, then the
\* queue, then the buffer.
ReceiverStream(E) ==
    /\ Len(delivered) <= nsent
    /\ \A j \in 1 .. Len(delivered) : delivered[j] = FragmentsOf(j)
    /\ E[Len(delivered)] + Len(rcv_queue) = rcv_nxt
    /\ \A i \in 1 .. Len(rcv_queue) : At(E, nsent, E[Len(delivered)] + i - 1, rcv_queue[i])
    /\ \A seg \in rcv_buf : At(E, nsent, seg.sn, seg)

\* The place in the stream is that of a fragment, whatever carries it.
LEMMA SameAt ==
    ASSUME NEW E, NEW n, NEW s, NEW f, NEW g, f.msg = g.msg, f.frg = g.frg, At(E, n, s, f)
    PROVE  At(E, n, s, g)
BY Zenon DEF At

\* Positions within message m are those of its fragments.
LEMMA MessageAt ==
    ASSUME NEW E, NEW n \in Nat, Ends(E, n), NEW m \in 1 .. n, NEW s \in Nat, E[m - 1] <= s, s < E[m],
           NEW f, At(E, n, s, f)
    PROVE  f.msg = m /\ f.frg = E[m] - 1 - s
<1> DEFINE k == f.msg
<1>1. k \in 1 .. n /\ E[k - 1] <= s /\ s < E[k] /\ f.frg = E[k] - 1 - s
  BY Zenon DEF At
<1> HIDE DEF k
<1>2. /\ k \in 0 .. n /\ k - 1 \in 0 .. n /\ m \in 0 .. n /\ m - 1 \in 0 .. n
      /\ E[k] \in Nat /\ E[k - 1] \in Nat /\ E[m] \in Nat /\ E[m - 1] \in Nat
  BY SMTT(20), <1>1 DEF Ends
<1>3. \A a, b \in 0 .. n : a < b => E[a] < E[b]
  BY Zenon DEF Ends
<1>4. ~(k < m)
  <2> SUFFICES ASSUME k < m  PROVE FALSE
    BY Zenon
  <2>1. k = m - 1 \/ k < m - 1
    BY SMTT(20), <1>1
  <2>2. k < m - 1 => E[k] < E[m - 1]
    BY Zenon, <1>2, <1>3
  <2> QED  BY SMTT(20), <1>1, <1>2, <2>1, <2>2
<1>5. ~(m < k)
  <2> SUFFICES ASSUME m < k  PROVE FALSE
    BY Zenon
  <2>1. m = k - 1 \/ m < k - 1
    BY SMTT(20), <1>1
  <2>2. m < k - 1 => E[m] < E[k - 1]
    BY Zenon, <1>2, <1>3
  <2>3. m = k - 1 => E[m] = E[k - 1]
    BY Zenon
  <2> QED  BY SMTT(20), <1>1, <1>2, <2>1, <2>2, <2>3
<1>6. k = m
  BY SMTT(20), <1>1, <1>4, <1>5
<1> QED  BY Zenon, <1>1, <1>6 DEF k

\* The fragments that get a number get the one of their place in the stream.
LEMMA FlushStream ==
    ASSUME KcpAssumption, SenderType, NetType, NEW E, SenderStream(E),
           NEW due, NEW probeDue, FlushSender(due, probeDue)
    PROVE  SenderStream(E)'
<1>1. PICK n \in 0 .. Len(snd_queue) : Flushes(n)
  BY Zenon, FlushResult
<1>2. nsent' = nsent /\ snd_nxt' = snd_nxt + n /\ snd_queue' = SubSeq(snd_queue, n + 1, Len(snd_queue))
  BY Zenon, <1>1 DEF Flushes, FlushSender
<1>3. snd_nxt \in Nat /\ n \in Nat /\ Len(snd_queue) \in Nat /\ n <= Len(snd_queue) /\ snd_queue \in Seq(Frag)
  BY SMTT(20) DEF SenderType
<1>4. /\ Len(snd_queue') = Len(snd_queue) - n
      /\ \A i \in 1 .. Len(snd_queue') : n + i \in 1 .. Len(snd_queue) /\ snd_queue'[i] = snd_queue[n + i]
  BY SMTT(20), <1>2, <1>3
<1>5. snd_nxt' + Len(snd_queue') = E[nsent]
  <2>1. snd_nxt + Len(snd_queue) = E[nsent]
    BY Zenon DEF SenderStream
  <2>2. /\ Len(snd_queue') = Len(snd_queue) - n /\ snd_nxt' = snd_nxt + n
        /\ snd_nxt \in Nat /\ n \in Nat /\ Len(snd_queue) \in Nat
    BY Zenon, <1>2, <1>3, <1>4
  <2>3. snd_nxt' + Len(snd_queue') = snd_nxt + Len(snd_queue)
    BY SMTT(20), <2>2
  <2> QED  BY Zenon, <2>1, <2>3
<1>6. ASSUME NEW i \in 1 .. Len(snd_queue')  PROVE At(E, nsent, snd_nxt' + i - 1, snd_queue'[i])
  <2>1. n + i \in 1 .. Len(snd_queue) /\ snd_queue'[i] = snd_queue[n + i]
    BY Zenon, <1>4
  <2>2. i \in Int
    BY SMTT(20)
  <2>3. snd_nxt' + i - 1 = snd_nxt + (n + i) - 1
    BY SMTT(20), <1>2, <1>3, <2>2
  <2>4. At(E, nsent, snd_nxt + (n + i) - 1, snd_queue[n + i])
    BY Zenon, <2>1 DEF SenderStream
  <2> QED  BY Zenon, <2>1, <2>3, <2>4
<1>7. ASSUME NEW d, Sent(d, n)  PROVE At(E, nsent, d.sn, d)
  <2>1. ASSUME NEW seg \in snd_buf, SameFrag(d, seg)  PROVE At(E, nsent, d.sn, d)
    <3>1. At(E, nsent, seg.sn, seg) /\ d.sn = seg.sn /\ d.msg = seg.msg /\ d.frg = seg.frg
      BY Zenon, <2>1 DEF SenderStream, SameFrag
    <3> QED  BY Zenon, <3>1 DEF At
  <2>2. ASSUME NEW i \in 1 .. n, d.sn = snd_nxt + i - 1, d.msg = snd_queue[i].msg, d.frg = snd_queue[i].frg
        PROVE  At(E, nsent, d.sn, d)
    <3>1. i \in 1 .. Len(snd_queue)
      BY SMTT(20), <1>3
    <3>2. At(E, nsent, d.sn, snd_queue[i])
      BY Zenon, <2>2, <3>1 DEF SenderStream
    <3> QED  BY Zenon, <2>2, <3>2 DEF At
  <2> QED  BY Zenon, <1>7, <2>1, <2>2 DEF Sent
<1>8. \A seg \in snd_buf' : At(E, nsent, seg.sn, seg)
  BY Zenon, <1>1, <1>7 DEF Flushes
<1>9. \A d \in pushes' : d.cmd = "PUSH" => At(E, nsent, d.sn, d)
  <2>1. Wask.cmd # "PUSH"
    BY SMTT(20) DEF Wask
  <2> QED  BY Zenon, <1>1, <1>7, <2>1 DEF Flushes, SenderStream
<1>10. Ends(E, nsent)
  BY Zenon DEF SenderStream
<1> QED  BY Zenon, <1>2, <1>5, <1>6, <1>8, <1>9, <1>10 DEF SenderStream

\* What an acknowledgement leaves in snd_buf is in place.
LEMMA AckStream ==
    ASSUME KcpAssumption, SenderType, NEW E, SenderStream(E), NEW d \in Reply, InputSender(d)
    PROVE  SenderStream(E)'
<1>1. \A a \in snd_buf' : \E seg \in snd_buf : SameFrag(a, seg)
  BY Zenon, AckResult
<1>2. UNCHANGED << nsent, snd_queue, snd_nxt, pushes >>
  BY Zenon DEF InputSender
<1>3. ASSUME NEW a \in snd_buf'  PROVE At(E, nsent, a.sn, a)
  <2>1. PICK seg \in snd_buf : SameFrag(a, seg)
    BY Zenon, <1>1
  <2>2. At(E, nsent, seg.sn, seg) /\ a.sn = seg.sn /\ a.msg = seg.msg /\ a.frg = seg.frg
    BY Zenon, <2>1 DEF SenderStream, SameFrag
  <2> QED  BY Zenon, <2>2 DEF At
<1> QED  BY Zenon, <1>2, <1>3 DEF SenderStream

\* The sender's part of the stream while the receiving end or the network acts.
LEMMA SenderStreamSame ==
    ASSUME NEW E, SenderStream(E), UNCHANGED sender, pushes' \subseteq pushes
    PROVE  SenderStream(E)'
BY Zenon DEF SenderStream, sender

\* The receiver's part of the stream while the sending end or the network acts.
LEMMA ReceiverStreamSame ==
    ASSUME NEW E, ReceiverStream(E), UNCHANGED << nsent, rcv_buf, rcv_queue, rcv_nxt, delivered >>
    PROVE  ReceiverStream(E)'
BY Zenon DEF ReceiverStream

\* One message more: the ends go on with its last fragment.
LEMMA EndsExtended ==
    ASSUME NEW E, NEW n \in Nat, Ends(E, n), NEW F \in Nat \ {0}, F = Fragments[n + 1]
    PROVE  \E E2 : /\ Ends(E2, n + 1) /\ E2[n + 1] = E[n] + F
                   /\ \A x \in 0 .. n : E2[x] = E[x]
<1> DEFINE E2 == [x \in 0 .. n + 1 |-> IF x <= n THEN E[x] ELSE E[n] + F]
<1>1. /\ \A x \in 0 .. n : x \in 0 .. n + 1 /\ x <= n /\ x \in Nat
      /\ n + 1 \in 0 .. n + 1 /\ ~(n + 1 <= n) /\ n \in 0 .. n /\ 0 \in 0 .. n
      /\ \A x \in 0 .. n + 1 : x \in 0 .. n \/ x = n + 1
  BY SMTT(20)
<1>2. E2[n + 1] = E[n] + F /\ \A x \in 0 .. n : E2[x] = E[x]
  BY Zenon, <1>1
<1>3. (\A x \in 0 .. n : E[x] \in Nat) /\ E[n] + F \in Nat
  <2>1. \A x \in 0 .. n : E[x] \in Nat
    BY Zenon DEF Ends
  <2>2. E[n] \in Nat
    BY Zenon, <1>1, <2>1
  <2> QED  BY SMTT(20), <2>1, <2>2
<1>4. E2 \in [0 .. n + 1 -> Nat]
  <2>1. \A x \in 0 .. n + 1 : E2[x] \in Nat
    BY Zenon, <1>1, <1>2, <1>3
  <2> QED  BY Zenon, <2>1
<1> HIDE DEF E2
<1>5. E2[0] = 0
  BY Zenon, <1>1, <1>2 DEF Ends
<1>6. ASSUME NEW m \in 1 .. n + 1  PROVE E2[m] = E2[m - 1] + Fragments[m]
  <2>1. CASE m = n + 1
    <3>1. m - 1 = n
      BY SMTT(20), <2>1
    <3> QED  BY Zenon, <1>1, <1>2, <2>1, <3>1
  <2>2. CASE m # n + 1
    <3>1. m \in 1 .. n /\ m \in 0 .. n /\ m - 1 \in 0 .. n
      BY SMTT(20), <2>2
    <3>2. E[m] = E[m - 1] + Fragments[m]
      BY Zenon, <3>1 DEF Ends
    <3> QED  BY Zenon, <1>2, <3>1, <3>2
  <2> QED  BY Zenon, <2>1, <2>2
<1>7. ASSUME NEW a \in 0 .. n + 1, NEW b \in 0 .. n + 1, a < b  PROVE E2[a] < E2[b]
  <2>1. a \in 0 .. n
    BY SMTT(20), <1>7
  <2>2. CASE b \in 0 .. n
    <3>1. E[a] < E[b]
      BY Zenon, <1>7, <2>1, <2>2 DEF Ends
    <3> QED  BY Zenon, <1>2, <2>1, <2>2, <3>1
  <2>3. CASE b = n + 1
    <3>1. a = n \/ a < n
      BY SMTT(20), <2>1
    <3>2. E[a] = E[n] \/ E[a] < E[n]
      BY Zenon, <1>1, <2>1, <3>1 DEF Ends
    <3>3. E[a] \in Nat /\ E[n] \in Nat
      BY Zenon, <1>1, <1>3, <2>1
    <3>4. E[a] < E[n] + F
      BY SMTT(20), <3>2, <3>3
    <3> QED  BY Zenon, <1>2, <2>1, <2>3, <3>4
  <2> QED  BY Zenon, <1>1, <2>2, <2>3
<1>8. Ends(E2, n + 1)
  BY Zenon, <1>4, <1>5, <1>6, <1>7 DEF Ends
<1> QED  BY Zenon, <1>2, <1>8

\* Places in the stream are kept when a message follows.
LEMMA AtExtended ==
    ASSUME NEW E, NEW E2, NEW n \in Nat, \A x \in 0 .. n : E2[x] = E[x], NEW s, NEW f, At(E, n, s, f)
    PROVE  At(E2, n + 1, s, f)
<1>1. f.msg \in 1 .. n + 1 /\ f.msg \in 0 .. n /\ f.msg - 1 \in 0 .. n
  BY SMTT(20) DEF At
<1> QED  BY Zenon, <1>1 DEF At

\* The places of the last message.
LEMMA LastAt ==
    ASSUME NEW E, NEW n \in Nat, NEW s, NEW f, f.msg = n + 1,
           E[n] <= s, s < E[n + 1], f.frg = E[n + 1] - 1 - s
    PROVE  At(E, n + 1, s, f)
<1>1. n + 1 \in 1 .. n + 1 /\ n + 1 - 1 = n
  BY SMTT(20)
<1>2. f.msg \in 1 .. n + 1 /\ f.msg - 1 = n
  BY SMTT(20), <1>1
<1> QED  BY Zenon, <1>2 DEF At

\* ikcp_send extends the stream by the fragments of its message.
LEMMA SendStream ==
    ASSUME KcpAssumption, SenderType, ReceiverType, NEW E, SenderStream(E), ReceiverStream(E), ikcp_send
    PROVE  \E E2 : SenderStream(E2)' /\ ReceiverStream(E2)'
<1>1. /\ nsent' = nsent + 1 /\ nsent < Len(Fragments) /\ snd_queue' = snd_queue \o FragmentsOf(nsent + 1)
      /\ UNCHANGED << snd_buf, snd_nxt, receiver, pushes >>
  BY Zenon DEF ikcp_send
<1>2. nsent + 1 \in 1 .. Len(Fragments) /\ nsent \in Nat /\ snd_nxt \in Nat /\ snd_queue \in Seq(Frag)
      /\ Len(snd_queue) \in Nat
  BY SMTT(20), <1>1 DEF SenderType, KcpAssumption
<1> DEFINE n == nsent
           F == Fragments[n + 1]
           new == FragmentsOf(n + 1)
<1>3. /\ F \in Nat \ {0} /\ new \in Seq(Frag) /\ Len(new) = F
      /\ \A i \in 1 .. F : new[i] = [msg |-> n + 1, frg |-> F - i]
  BY Zenon, <1>2, FragmentSeq
<1>0. snd_queue' = snd_queue \o new /\ Ends(E, n) /\ n \in Nat /\ F = Fragments[n + 1]
  BY Zenon, <1>1, <1>2 DEF SenderStream
<1> HIDE DEF F, new
<1>4. PICK E2 : Ends(E2, n + 1) /\ E2[n + 1] = E[n] + F /\ \A x \in 0 .. n : E2[x] = E[x]
  BY Zenon, <1>0, <1>3, EndsExtended
<1>5. ASSUME NEW s, NEW f, At(E, n, s, f)  PROVE At(E2, n + 1, s, f)
  BY Zenon, <1>2, <1>4, <1>5, AtExtended
<1>6. /\ Len(snd_queue') = Len(snd_queue) + F
      /\ \A i \in 1 .. Len(snd_queue) + F :
            snd_queue'[i] = IF i <= Len(snd_queue) THEN snd_queue[i] ELSE new[i - Len(snd_queue)]
  <2>1. /\ Len(snd_queue') = Len(snd_queue) + Len(new)
        /\ \A i \in 1 .. Len(snd_queue) + Len(new) :
              snd_queue'[i] = IF i <= Len(snd_queue) THEN snd_queue[i] ELSE new[i - Len(snd_queue)]
    BY Zenon, <1>0, <1>2, <1>3, ConcatProperties
  <2> QED  BY Zenon, <1>3, <2>1
<1>7. snd_nxt + Len(snd_queue) = E[n] /\ E[n] \in Nat /\ n \in 0 .. n /\ E2[n] = E[n]
  <2>1. n \in 0 .. n
    BY SMTT(20), <1>2
  <2> QED  BY Zenon, <1>4, <2>1 DEF SenderStream, Ends
<1>8. snd_nxt + Len(snd_queue') = E2[n + 1]
  <2>1. snd_nxt + (Len(snd_queue) + F) = E[n] + F
    BY SMTT(20), <1>2, <1>3, <1>7
  <2> QED  BY Zenon, <1>4, <1>6, <2>1
<1>9. ASSUME NEW i \in 1 .. Len(snd_queue')  PROVE At(E2, n + 1, snd_nxt + i - 1, snd_queue'[i])
  <2>0. i \in 1 .. Len(snd_queue) + F /\ i \in Nat
    BY SMTT(20), <1>6
  <2>1. CASE i <= Len(snd_queue)
    <3>1. i \in 1 .. Len(snd_queue)
      BY SMTT(20), <1>2, <2>0, <2>1
    <3>2. snd_queue'[i] = snd_queue[i] /\ At(E, n, snd_nxt + i - 1, snd_queue[i])
      BY Zenon, <1>6, <2>0, <2>1, <3>1 DEF SenderStream
    <3> QED  BY Zenon, <1>5, <3>2
  <2>2. CASE ~(i <= Len(snd_queue))
    <3> DEFINE j == i - Len(snd_queue)
               f == [msg |-> n + 1, frg |-> F - j]
               s == snd_nxt + i - 1
    <3>1. j \in 1 .. F /\ s = E[n] + j - 1
      BY SMTT(20), <1>2, <1>3, <1>7, <2>0, <2>2
    <3>2. snd_queue'[i] = f
      <4>1. snd_queue'[i] = new[j]
        BY Zenon, <1>6, <2>0, <2>2
      <4>2. new[j] = f
        BY Zenon, <1>3, <3>1
      <4> QED  BY Zenon, <4>1, <4>2
    <3> HIDE DEF f, s, j
    <3>3. f.msg = n + 1 /\ f.frg = F - j
      BY Zenon DEF f
    <3>4. /\ E[n] <= s /\ s < E[n] + F /\ F - j = (E[n] + F) - 1 - s
      <4> DEFINE e == E[n]
      <4>1. e \in Nat /\ F \in Nat /\ j \in 1 .. F /\ s = e + j - 1
        BY Zenon, <1>3, <1>7, <3>1
      <4> HIDE DEF e
      <4>2. e <= s /\ s < e + F /\ F - j = (e + F) - 1 - s
        BY SMTT(20), <4>1
      <4> QED  BY Zenon, <4>2 DEF e
    <3>5. At(E2, n + 1, s, f)
      <4>1. E2[n] <= s /\ s < E2[n + 1] /\ f.frg = E2[n + 1] - 1 - s
        BY Zenon, <1>4, <1>7, <3>3, <3>4
      <4> QED  BY Zenon, <1>2, <3>3, <4>1, LastAt
    <3> QED  BY Zenon, <3>2, <3>5 DEF s
  <2> QED  BY Zenon, <2>1, <2>2
<1>10. SenderStream(E2)'
  <2>1. \A seg \in snd_buf : At(E2, n + 1, seg.sn, seg)
    BY Zenon, <1>5 DEF SenderStream
  <2>2. \A d \in pushes : d.cmd = "PUSH" => At(E2, n + 1, d.sn, d)
    BY Zenon, <1>5 DEF SenderStream
  <2> QED  BY Zenon, <1>1, <1>4, <1>8, <1>9, <2>1, <2>2 DEF SenderStream
<1>11. ReceiverStream(E2)'
  <2>1. Len(delivered) \in 0 .. n /\ Len(delivered) <= n + 1
    BY SMTT(20), <1>2 DEF ReceiverType, ReceiverStream
  <2>2. E2[Len(delivered)] = E[Len(delivered)]
    BY Zenon, <1>4, <2>1
  <2>3. \A i \in 1 .. Len(rcv_queue) : At(E2, n + 1, E2[Len(delivered)] + i - 1, rcv_queue[i])
    BY Zenon, <1>5, <2>2 DEF ReceiverStream
  <2>4. \A seg \in rcv_buf : At(E2, n + 1, seg.sn, seg)
    BY Zenon, <1>5 DEF ReceiverStream
  <2> QED  BY Zenon, <1>1, <2>1, <2>2, <2>3, <2>4 DEF ReceiverStream, receiver
<1> QED  BY Zenon, <1>10, <1>11

\* A move of ready segments goes on with the stream where the queue ended.
LEMMA MoveStream ==
    ASSUME NEW E, nsent' = nsent, rcv_nxt \in Nat, NEW buf, buf \subseteq PushSeg,
           NEW queue \in Seq(Frag), NEW k \in Nat, Moves(buf, queue, k),
           \A seg \in buf : At(E, nsent, seg.sn, seg),
           NEW base \in Nat, base + Len(queue) = rcv_nxt,
           \A i \in 1 .. Len(queue) : At(E, nsent, base + i - 1, queue[i]),
           Len(delivered') <= nsent, E[Len(delivered')] = base,
           \A j \in 1 .. Len(delivered') : delivered'[j] = FragmentsOf(j)
    PROVE  ReceiverStream(E)'
<1>1. /\ rcv_nxt' = rcv_nxt + k /\ rcv_buf' \subseteq buf /\ Len(rcv_queue') = Len(queue) + k
      /\ \A i \in 1 .. Len(queue) : rcv_queue'[i] = queue[i]
      /\ \A j \in 1 .. k : \E seg \in buf :
            /\ seg.sn = rcv_nxt + j - 1
            /\ rcv_queue'[Len(queue) + j] = [msg |-> seg.msg, frg |-> seg.frg]
  BY Zenon DEF Moves
<1>2. Len(queue) \in Nat
  BY SMTT(20)
<1>3. base + Len(rcv_queue') = rcv_nxt'
  <2>1. base + (Len(queue) + k) = rcv_nxt + k
    BY SMTT(20), <1>2
  <2> QED  BY Zenon, <1>1, <2>1
<1>4. ASSUME NEW i \in 1 .. Len(rcv_queue')  PROVE At(E, nsent, base + i - 1, rcv_queue'[i])
  <2>0. i \in 1 .. Len(queue) + k
    BY Zenon, <1>1
  <2>1. CASE i <= Len(queue)
    <3>1. i \in 1 .. Len(queue)
      BY SMTT(20), <1>2, <2>0, <2>1
    <3> QED  BY Zenon, <1>1, <3>1
  <2>2. CASE ~(i <= Len(queue))
    <3> DEFINE j == i - Len(queue)
    <3>1. j \in 1 .. k /\ Len(queue) + j = i /\ rcv_nxt + j - 1 = base + i - 1
      <4>1. i \in Int /\ j \in 1 .. k /\ Len(queue) + j = i
        BY SMTT(20), <1>2, <2>0, <2>2
      <4>2. base + Len(queue) + j - 1 = base + i - 1
        BY SMTT(20), <1>2, <4>1
      <4> QED  BY Zenon, <4>1, <4>2
    <3> HIDE DEF j
    <3>2. PICK seg \in buf : seg.sn = rcv_nxt + j - 1 /\ rcv_queue'[i] = [msg |-> seg.msg, frg |-> seg.frg]
      BY Zenon, <1>1, <3>1
    <3>3. At(E, nsent, base + i - 1, seg)
      BY Zenon, <3>1, <3>2
    <3>4. [msg |-> seg.msg, frg |-> seg.frg].msg = seg.msg /\ [msg |-> seg.msg, frg |-> seg.frg].frg = seg.frg
      BY Zenon
    <3> QED  BY Zenon, <3>2, <3>3, <3>4, SameAt
  <2> QED  BY Zenon, <2>1, <2>2
<1> QED  BY Zenon, <1>1, <1>3, <1>4 DEF ReceiverStream

\* ikcp_recv takes all fragments of message m and no other off the queue.
Receives(E, m) ==
    /\ m \in 1 .. nsent /\ Fragments[m] \in 1 .. Len(rcv_queue)
    /\ E[Len(delivered)] + Fragments[m] = E[m] /\ E[Len(delivered)] \in Nat
    /\ delivered' = Append(delivered, FragmentsOf(m))
    /\ MoveReady(rcv_buf, SubSeq(rcv_queue, Fragments[m] + 1, Len(rcv_queue)))

\* The message that ikcp_recv returns is the one after those returned before.
LEMMA RecvResult ==
    ASSUME KcpAssumption, SenderType, ReceiverType, NEW E, SenderStream(E), ReceiverStream(E), ikcp_recv
    PROVE  Receives(E, Len(delivered) + 1)
<1> DEFINE D == Len(delivered)
           L == Len(rcv_queue)
           m == D + 1
           f == rcv_queue[1]
           F == Fragments[m]
<1>1. /\ D \in Nat /\ nsent \in Nat /\ D \in 0 .. nsent /\ nsent <= Len(Fragments)
      /\ rcv_queue \in Seq(Frag) /\ L \in Nat
  <2>1. D \in Nat /\ nsent \in Nat /\ nsent <= Len(Fragments) /\ rcv_queue \in Seq(Frag) /\ L \in Nat
    BY SMTT(20) DEF SenderType, ReceiverType, KcpAssumption
  <2>2. D <= nsent
    BY Zenon DEF ReceiverStream
  <2>3. D \in 0 .. nsent
    BY SMTT(20), <2>1, <2>2
  <2> QED  BY Zenon, <2>1, <2>3
<1>2. 1 \in 1 .. L /\ f \in Frag /\ L >= f.frg + 1 /\ f.frg \in Nat
  <2>1. rcv_queue # << >> /\ L >= f.frg + 1
    BY Zenon DEF ikcp_recv, FirstComplete
  <2>2. 1 \in 1 .. L
    BY SMTT(20), <1>1, <2>1
  <2>3. f \in Frag
    BY Zenon, <1>1, <2>2, ElementOfSeq
  <2> HIDE DEF f
  <2>4. f.frg \in Nat
    BY Zenon, <2>3 DEF Frag
  <2> QED  BY Zenon, <2>1, <2>2, <2>3, <2>4
<1>3. Ends(E, nsent)
  BY Zenon DEF SenderStream
<1>4. E[D] \in Nat /\ E[D] + 1 - 1 = E[D]
  <2>1. E[D] \in Nat
    BY Zenon, <1>1, <1>3 DEF Ends
  <2> QED  BY SMTT(20), <2>1
<1>5. \A i \in 1 .. L : At(E, nsent, E[D] + i - 1, rcv_queue[i])
  BY Zenon DEF ReceiverStream
<1>6. At(E, nsent, E[D], f)
  BY Zenon, <1>2, <1>4, <1>5
<1> HIDE DEF D, L, f
<1>7. m \in 1 .. nsent /\ m \in 0 .. nsent /\ m - 1 = D
  <2> DEFINE k == f.msg
  <2>1. k \in 1 .. nsent /\ E[D] < E[k]
    BY Zenon, <1>6 DEF At
  <2> HIDE DEF k
  <2>2. k \in 0 .. nsent /\ E[k] \in Nat
    BY SMTT(20), <1>3, <2>1 DEF Ends
  <2>3. k < D => E[k] < E[D]
    BY Zenon, <1>1, <1>3, <2>2 DEF Ends
  <2>4. k = D => E[k] = E[D]
    BY Zenon
  <2>5. D < k
    BY SMTT(20), <1>1, <1>4, <2>1, <2>2, <2>3, <2>4
  <2> QED  BY SMTT(20), <1>1, <2>1, <2>5
<1>8. E[m] = E[D] + F
  <2> HIDE DEF m
  <2> QED  BY Zenon, <1>3, <1>7 DEF Ends
<1>9. F \in Nat \ {0} /\ m \in 1 .. Len(Fragments)
  BY SMTT(20), <1>1, <1>7 DEF KcpAssumption
<1> HIDE DEF m, F
<1>10. ASSUME NEW i \in 1 .. L, i <= F  PROVE rcv_queue[i].msg = m /\ rcv_queue[i].frg = F - i
  <2> DEFINE s == E[D] + i - 1
  <2>1. s \in Nat /\ E[D] <= s /\ s < E[D] + F /\ (E[D] + F) - 1 - s = F - i
    BY SMTT(20), <1>1, <1>4, <1>9, <1>10
  <2>2. At(E, nsent, s, rcv_queue[i])
    BY Zenon, <1>5
  <2> HIDE DEF s
  <2>3. E[m - 1] <= s /\ s < E[m]
    BY Zenon, <1>7, <1>8, <2>1
  <2> DEFINE g == rcv_queue[i]
  <2> HIDE DEF g
  <2>4. At(E, nsent, s, g) /\ s \in Nat /\ nsent \in Nat /\ m \in 1 .. nsent
    BY Zenon, <1>1, <1>7, <2>1, <2>2 DEF g
  <2>5. g.msg = m /\ g.frg = E[m] - 1 - s
    BY SMTT(30), <1>3, <2>3, <2>4, MessageAt
  <2>6. g.frg = F - i
    BY Zenon, <1>8, <2>1, <2>5
  <2> QED  BY Zenon, <2>5, <2>6 DEF g
<1>11. F \in 1 .. L
  <2>1. 1 <= F
    BY SMTT(20), <1>9
  <2>2. f.frg = F - 1
    BY Zenon, <1>2, <1>10, <2>1 DEF f
  <2> QED  BY SMTT(20), <1>1, <1>2, <1>9, <2>2
<1>12. Min({i \in DOMAIN rcv_queue : rcv_queue[i].frg = 0}) = F
  <2> DEFINE S == {i \in DOMAIN rcv_queue : rcv_queue[i].frg = 0}
  <2>0. DOMAIN rcv_queue = 1 .. L
    BY SMTT(20), <1>1 DEF L
  <2>1. F \in S
    <3>1. F <= F /\ F - F = 0
      BY SMTT(20), <1>9
    <3> QED  BY Zenon, <1>10, <1>11, <2>0, <3>1
  <2>2. ASSUME NEW x \in S, x < F  PROVE FALSE
    <3>1. x \in 1 .. L /\ rcv_queue[x].frg = 0
      BY Zenon, <2>0
    <3>2. x <= F /\ F - x # 0
      BY SMTT(20), <1>9, <2>2, <3>1
    <3> QED  BY Zenon, <1>10, <3>1, <3>2
  <2>3. S \subseteq 1 .. L
    BY Zenon, <2>0
  <2> HIDE DEF S
  <2>4. S \subseteq Nat /\ S # {}
    BY SMTT(20), <2>1, <2>3
  <2>5. Min(S) \in S /\ Min(S) <= F
    BY Zenon, <2>1, <2>4, LeastOf
  <2>6. ~(Min(S) < F)
    BY Zenon, <2>2, <2>5
  <2>7. \A x \in Nat : x <= F /\ ~(x < F) => x = F
    BY SMTT(20), <1>9
  <2>8. Min(S) = F
    BY Zenon, <2>4, <2>5, <2>6, <2>7
  <2> QED  BY Zenon, <2>8 DEF S
<1>13. SubSeq(rcv_queue, 1, F) = FragmentsOf(m)
  <2> DEFINE a == SubSeq(rcv_queue, 1, F)
             b == FragmentsOf(m)
  <2>1. a \in Seq(Frag) /\ Len(a) = F /\ \A i \in 1 .. F : a[i] = rcv_queue[i]
    BY SMTT(20), <1>1, <1>9, <1>11 DEF L
  <2>2. b \in Seq(Frag) /\ Len(b) = F /\ \A i \in 1 .. F : b[i] = [msg |-> m, frg |-> F - i]
    BY Zenon, <1>9, FragmentSeq DEF F
  <2>3. ASSUME NEW i \in 1 .. F  PROVE rcv_queue[i] = [msg |-> m, frg |-> F - i]
    <3>1. i \in 1 .. L /\ i <= F
      BY SMTT(20), <1>1, <1>9, <1>11
    <3>2. rcv_queue[i].msg = m /\ rcv_queue[i].frg = F - i
      BY Zenon, <1>10, <3>1
    <3>3. rcv_queue[i] \in Frag
      BY Zenon, <1>1, <3>1, ElementOfSeq DEF L
    <3>4. \A g \in Frag : g = [msg |-> g.msg, frg |-> g.frg]
      BY SMTT(20) DEF Frag
    <3> QED  BY Zenon, <3>2, <3>3, <3>4
  <2> HIDE DEF a, b
  <2>4. \A i \in 1 .. Len(a) : a[i] = b[i]
    BY Zenon, <2>1, <2>2, <2>3
  <2>5. a = b
    BY Zenon, <2>1, <2>2, <2>4, SeqEqual
  <2> QED  BY Zenon, <2>5 DEF a, b
<1>14. /\ delivered' = Append(delivered, SubSeq(rcv_queue, 1, F))
       /\ MoveReady(rcv_buf, SubSeq(rcv_queue, F + 1, Len(rcv_queue)))
  BY Zenon, <1>12 DEF ikcp_recv
<1>15. Receives(E, m)
  BY Zenon, <1>4, <1>7, <1>8, <1>11, <1>13, <1>14 DEF Receives, D, L, F
<1> QED  BY Zenon, <1>15 DEF m, D

\* What is left of the queue after ikcp_recv is its end.
LEMMA RecvRest ==
    ASSUME ReceiverType, NEW F \in 1 .. Len(rcv_queue),
           NEW rest, rest = SubSeq(rcv_queue, F + 1, Len(rcv_queue))
    PROVE  /\ rest \in Seq(Frag) /\ Len(rest) = Len(rcv_queue) - F /\ Len(rest) <= Len(rcv_queue)
           /\ \A i \in 1 .. Len(rest) : F + i \in 1 .. Len(rcv_queue) /\ rest[i] = rcv_queue[F + i]
<1>1. rcv_queue \in Seq(Frag) /\ Len(rcv_queue) \in Nat
  BY SMTT(20) DEF ReceiverType
<1>2. rest \in Seq(Frag)
  BY SMTT(20), <1>1
<1>3. Len(rest) = Len(rcv_queue) - F /\ Len(rest) <= Len(rcv_queue)
  BY SMTT(20), <1>1
<1>4. \A i \in 1 .. Len(rcv_queue) - F : F + i \in 1 .. Len(rcv_queue) /\ rest[i] = rcv_queue[F + i]
  BY SMTT(20), <1>1
<1> QED  BY Zenon, <1>2, <1>3, <1>4

\* ikcp_recv: what was returned grows by the next message.
LEMMA RecvDelivered ==
    ASSUME KcpAssumption, SenderType, ReceiverType, NEW E, ReceiverStream(E), Receives(E, Len(delivered) + 1)
    PROVE  /\ delivered' \in Seq(Seq(Frag)) /\ Len(delivered') = Len(delivered) + 1
           /\ \A j \in 1 .. Len(delivered') : delivered'[j] = FragmentsOf(j)
<1> DEFINE D == Len(delivered)
           new == FragmentsOf(D + 1)
<1>1. D + 1 \in 1 .. nsent /\ delivered' = Append(delivered, new)
  BY Zenon DEF Receives
<1>2. D + 1 \in 1 .. Len(Fragments) /\ D \in Nat /\ delivered \in Seq(Seq(Frag))
  BY SMTT(20), <1>1 DEF SenderType, KcpAssumption, ReceiverType
<1>3. new \in Seq(Frag)
  BY Zenon, <1>2, FragmentSeq
<1>4. \A j \in 1 .. D : delivered[j] = FragmentsOf(j)
  BY Zenon DEF ReceiverStream
<1> HIDE DEF new
<1>5. /\ delivered' \in Seq(Seq(Frag)) /\ Len(delivered') = D + 1
      /\ \A j \in 1 .. D : delivered'[j] = delivered[j]
      /\ delivered'[D + 1] = new
  <2>1. /\ Append(delivered, new) \in Seq(Seq(Frag)) /\ Len(Append(delivered, new)) = Len(delivered) + 1
        /\ \A j \in 1 .. Len(delivered) : Append(delivered, new)[j] = delivered[j]
        /\ Append(delivered, new)[Len(delivered) + 1] = new
    BY SMTT(20), <1>2, <1>3, AppendProperties
  <2> QED  BY Zenon, <1>1, <2>1
<1>6. \A j \in 1 .. D + 1 : j \in 1 .. D \/ j = D + 1
  BY SMTT(20), <1>2
<1> QED  BY Zenon, <1>4, <1>5, <1>6 DEF new

\* ikcp_recv keeps the invariant: the queue goes on with the next message.
LEMMA RecvStep ==
    ASSUME KcpAssumption, ConvInv, NEW E, SenderStream(E), ReceiverStream(E), ikcp_recv
    PROVE  ConvInv' /\ ReceiverStream(E)'
<1> DEFINE D == Len(delivered)
           m == D + 1
           F == Fragments[m]
           rest == SubSeq(rcv_queue, F + 1, Len(rcv_queue))
<1>0. SenderType /\ ReceiverType /\ NetType /\ Window /\ GivenOut /\ Acknowledged
  BY Zenon DEF ConvInv
<1>1. Receives(E, m)
  BY Zenon, <1>0, RecvResult
<1>2. /\ m \in 1 .. nsent /\ F \in 1 .. Len(rcv_queue) /\ E[D] + F = E[m] /\ E[D] \in Nat
      /\ MoveReady(rcv_buf, rest)
  BY Zenon, <1>1 DEF Receives
<1>3. /\ delivered' \in Seq(Seq(Frag)) /\ Len(delivered') = m
      /\ \A j \in 1 .. Len(delivered') : delivered'[j] = FragmentsOf(j)
  BY Zenon, <1>0, <1>1, RecvDelivered
<1>4. UNCHANGED << sender, acklist, pushes, replies >> /\ tell' \in BOOLEAN /\ nsent' = nsent
  <2>1. /\ tell' = (tell \/ (Len(rcv_queue) >= RCV_WND /\ Len(rcv_queue') < RCV_WND))
        /\ UNCHANGED << sender, acklist, pushes, replies >>
    BY Zenon DEF ikcp_recv
  <2>2. nsent' = nsent
    BY Zenon, <2>1 DEF sender
  <2>3. tell' \in BOOLEAN
    BY Zenon, <2>1
  <2> QED  BY Zenon, <2>1, <2>2, <2>3
<1> HIDE DEF F, m
<1>5. /\ rest \in Seq(Frag) /\ Len(rest) = Len(rcv_queue) - F /\ Len(rest) <= Len(rcv_queue)
      /\ \A i \in 1 .. Len(rest) : F + i \in 1 .. Len(rcv_queue) /\ rest[i] = rcv_queue[F + i]
  BY Zenon, <1>0, <1>2, RecvRest
<1> HIDE DEF rest
<1>6. RCV_WND \in Nat /\ Len(rcv_queue) \in Nat /\ Len(rest) \in Nat /\ F \in Nat /\ rcv_nxt \in Nat
  BY SMTT(20), <1>0, <1>2, <1>5 DEF KcpAssumption, ReceiverType
<1>7. Len(rest) <= RCV_WND
  <2>1. Len(rcv_queue) <= RCV_WND
    BY Zenon, <1>0 DEF Window
  <2> QED  BY SMTT(20), <1>5, <1>6, <2>1
<1>8. ConvInv'
  <2>1. /\ rcv_buf \subseteq PushSeg /\ IsFiniteSet(rcv_buf) /\ rcv_buf \subseteq rcv_buf
        /\ \A seg \in rcv_buf : rcv_nxt <= seg.sn /\ seg.sn < rcv_nxt + RCV_WND /\ seg.sn < snd_nxt
        /\ \A s, t \in rcv_buf : s.sn = t.sn => s = t
    BY Zenon, <1>0 DEF ReceiverType, Window, GivenOut
  <2>2. acklist' \subseteq Nat /\ \A sn \in acklist' : sn < snd_nxt /\ (sn \in acklist \/ \E seg \in rcv_buf : seg.sn = sn)
    BY Zenon, <1>0, <1>4 DEF ReceiverType, GivenOut
  <2>3. pushes' \subseteq pushes /\ UNCHANGED << sender, replies >>
    BY Zenon, <1>4
  <2> QED  BY Zenon, <1>2, <1>3, <1>4, <1>5, <1>7, <2>1, <2>2, <2>3, MoveStep
<1>9. ReceiverStream(E)'
  <2>1. PICK k \in 0 .. RCV_WND - Len(rest) : Moves(rcv_buf, rest, k)
    BY Zenon, <1>0, <1>2, <1>5, <1>6, <1>7, MoveResult DEF ReceiverType
  <2>2. k \in Nat
    BY SMTT(20), <1>6
  <2>3. E[m] \in Nat /\ E[m] + Len(rest) = rcv_nxt
    <3>1. E[D] + Len(rcv_queue) = rcv_nxt
      BY Zenon DEF ReceiverStream
    <3>2. E[D] + F \in Nat /\ (E[D] + F) + (Len(rcv_queue) - F) = E[D] + Len(rcv_queue)
      BY SMTT(20), <1>2, <1>6
    <3> QED  BY Zenon, <1>2, <1>5, <3>1, <3>2
  <2>4. ASSUME NEW i \in 1 .. Len(rest)  PROVE At(E, nsent, E[m] + i - 1, rest[i])
    <3>1. At(E, nsent, E[D] + (F + i) - 1, rcv_queue[F + i])
      BY Zenon, <1>5 DEF ReceiverStream
    <3>2. E[D] + (F + i) - 1 = (E[D] + F) + i - 1
      BY SMTT(20), <1>2, <1>6
    <3> QED  BY Zenon, <1>2, <1>5, <3>1, <3>2
  <2>5. m <= nsent
    BY SMTT(20), <1>2
  <2>6. \A seg \in rcv_buf : At(E, nsent, seg.sn, seg)
    BY Zenon DEF ReceiverStream
  <2>7. rcv_buf \subseteq PushSeg
    BY Zenon, <1>0 DEF ReceiverType
  <2>8. Len(delivered') <= nsent /\ E[Len(delivered')] = E[m]
    BY Zenon, <1>3, <2>5
  <2> DEFINE base == E[m]
  <2>9. /\ base \in Nat /\ base + Len(rest) = rcv_nxt /\ E[Len(delivered')] = base
        /\ \A i \in 1 .. Len(rest) : At(E, nsent, base + i - 1, rest[i])
    BY Zenon, <2>3, <2>4, <2>8
  <2> HIDE DEF base
  <2> QED  BY Zenon, <1>3, <1>4, <1>5, <1>6, <2>1, <2>2, <2>6, <2>7, <2>8, <2>9, MoveStream
<1> QED  BY Zenon, <1>8, <1>9

\* A segment that arrives goes to its place in the stream.
LEMMA InputStream ==
    ASSUME KcpAssumption, ConvInv, NEW E, SenderStream(E), ReceiverStream(E), NEW d \in pushes, InputReceiver(d)
    PROVE  ReceiverStream(E)'
<1>0. /\ SenderType /\ ReceiverType /\ NetType /\ Window
      /\ UNCHANGED sender /\ nsent' = nsent /\ delivered' = delivered
  BY Zenon DEF ConvInv, InputReceiver, InputPush, InputWask, sender
<1>1. CASE UNCHANGED << rcv_buf, rcv_queue, rcv_nxt >>
  BY Zenon, <1>0, <1>1, ReceiverStreamSame
<1>2. CASE d.cmd = "PUSH" /\ MoveReady(Inserted(d), rcv_queue)
  <2> DEFINE buf == Inserted(d)
  <2>1. d # Wask
    BY SMTT(20), <1>2 DEF Wask
  <2>2. d \in PushSeg /\ At(E, nsent, d.sn, d)
    BY Zenon, <1>0, <1>2, <2>1 DEF NetType, SenderStream
  <2>3. buf \subseteq PushSeg /\ \A seg \in buf : seg \in rcv_buf \/ seg = d
    BY Zenon, <1>0, <2>2, InsertedSegs
  <2>4. MoveReady(buf, rcv_queue)
    BY Zenon, <1>2
  <2> HIDE DEF buf
  <2>5. \A seg \in buf : At(E, nsent, seg.sn, seg)
    BY Zenon, <2>2, <2>3 DEF ReceiverStream
  <2>6. rcv_queue \in Seq(Frag) /\ rcv_nxt \in Nat /\ RCV_WND \in Nat /\ Len(rcv_queue) <= RCV_WND
    BY Zenon, <1>0 DEF ReceiverType, Window, KcpAssumption
  <2>7. PICK k \in 0 .. RCV_WND - Len(rcv_queue) : Moves(buf, rcv_queue, k)
    BY Zenon, <2>3, <2>4, <2>6, MoveResult
  <2>8. k \in Nat /\ Len(delivered) \in 0 .. nsent
    BY SMTT(20), <1>0, <2>6 DEF ReceiverType, ReceiverStream, SenderType
  <2> DEFINE base == E[Len(delivered)]
  <2>9. /\ base \in Nat /\ base + Len(rcv_queue) = rcv_nxt /\ E[Len(delivered')] = base
        /\ Len(delivered') <= nsent
        /\ \A i \in 1 .. Len(rcv_queue) : At(E, nsent, base + i - 1, rcv_queue[i])
        /\ \A j \in 1 .. Len(delivered') : delivered'[j] = FragmentsOf(j)
    BY Zenon, <1>0, <2>8 DEF ReceiverStream, SenderStream, Ends
  <2> HIDE DEF base
  <2> QED  BY Zenon, <1>0, <2>3, <2>5, <2>6, <2>7, <2>8, <2>9, MoveStream
<1> QED  BY Zenon, <1>1, <1>2 DEF InputReceiver, InputPush, InputWask

-----------------------------------------------------------------------------
(* The inductive invariant and the theorems.                                *)

KcpInv == ConvInv /\ \E E : SenderStream(E) /\ ReceiverStream(E)

\* ikcp_create makes both ends agree on an empty stream.
LEMMA KcpInitInv ==
    ASSUME KcpAssumption, KcpInit
    PROVE  KcpInv
<1>1. /\ Fragments \in Seq(Nat \ {0}) /\ Len(Fragments) \in Nat /\ RCV_WND \in Nat \ {0}
  BY SMTT(20) DEF KcpAssumption
<1>2. /\ nsent = 0 /\ snd_queue = << >> /\ snd_buf = {} /\ snd_una = 0 /\ snd_nxt = 0 /\ rmt_wnd = WND_RCV
      /\ cwnd = 0 /\ ssthresh = 2 /\ probing = FALSE /\ rcv_buf = {} /\ rcv_queue = << >> /\ rcv_nxt = 0
      /\ acklist = {} /\ tell = FALSE /\ delivered = << >> /\ pushes = {} /\ replies = {}
  BY Zenon DEF KcpInit, THRESH_MIN
<1>3. rmt_wnd \in 0 .. RCV_WND
  BY SMTT(20), <1>1, <1>2 DEF KcpAssumption
<1>4. SenderType
  <2>1. 0 \in 0 .. Len(Fragments) /\ 0 \in Nat /\ 2 \in Nat /\ << >> \in Seq(Frag)
    BY SMTT(20), <1>1
  <2> QED  BY Zenon, <1>2, <1>3, <2>1 DEF SenderType
<1>5. IsFiniteSet(rcv_buf)
  BY Zenon, <1>2, FS_EmptySet
<1>6. ReceiverType
  <2>1. << >> \in Seq(Frag) /\ << >> \in Seq(Seq(Frag)) /\ 0 \in Nat
    BY SMTT(20)
  <2> QED  BY Zenon, <1>2, <1>5, <2>1 DEF ReceiverType
<1>7. Len(rcv_queue) = 0 /\ Len(snd_queue) = 0 /\ Len(delivered) = 0
  BY SMTT(20), <1>2
<1>8. 0 <= RCV_WND /\ 0 .. 0 - 1 = {} /\ 0 <= 0 /\ 1 .. 0 = {} /\ 0 + 0 = 0 /\ 0 .. 0 = {0}
  BY SMTT(20), <1>1
<1>9. NetType /\ Window /\ GivenOut /\ Acknowledged
  BY Zenon, <1>2, <1>7, <1>8 DEF NetType, Window, GivenOut, Acknowledged, ForgottenIsReceived
<1> DEFINE E == [x \in {0} |-> 0]
<1>10. Ends(E, 0)
  <2>1. E[0] = 0 /\ E \in [{0} -> {0}]
    BY Zenon
  <2>2. E \in [0 .. 0 -> Nat]
    BY SMTT(20)
  <2>3. \A a, b \in 0 .. 0 : ~(a < b)
    BY SMTT(20)
  <2> QED  BY Zenon, <1>8, <2>1, <2>2, <2>3 DEF Ends
<1>11. E[0] = 0
  BY Zenon
<1> HIDE DEF E
<1>12. SenderStream(E)
  BY Zenon, <1>2, <1>7, <1>8, <1>10, <1>11 DEF SenderStream
<1>13. ReceiverStream(E)
  BY Zenon, <1>2, <1>7, <1>8, <1>11 DEF ReceiverStream
<1> QED  BY Zenon, <1>4, <1>6, <1>9, <1>12, <1>13 DEF KcpInv, ConvInv

\* Every step of either end and of the network keeps it.
LEMMA KcpNextInv ==
    ASSUME KcpAssumption, KcpInv, [KcpNext]_kcpvars
    PROVE  KcpInv'
<1>0. PICK E : SenderStream(E) /\ ReceiverStream(E)
  BY Zenon DEF KcpInv
<1>1. ConvInv /\ SenderType /\ ReceiverType /\ NetType
  BY Zenon DEF KcpInv, ConvInv
<1>2. CASE ikcp_send
  BY Zenon, <1>0, <1>1, <1>2, SendStep, SendStream DEF KcpInv
<1>3. ASSUME NEW due, NEW p, FlushSender(due, p)  PROVE KcpInv'
  <2>1. UNCHANGED << nsent, receiver >>
    BY Zenon, <1>3 DEF FlushSender
  <2>2. ConvInv' /\ SenderStream(E)'
    BY Zenon, <1>0, <1>1, <1>3, FlushStep, FlushStream
  <2>3. ReceiverStream(E)'
    BY Zenon, <1>0, <2>1, ReceiverStreamSame DEF receiver
  <2> QED  BY Zenon, <2>2, <2>3 DEF KcpInv
<1>4. ASSUME NEW d \in replies, InputSender(d)  PROVE KcpInv'
  <2>1. UNCHANGED << nsent, receiver >> /\ d \in Reply
    BY Zenon, <1>1, <1>4 DEF InputSender, NetType
  <2>2. ConvInv' /\ SenderStream(E)'
    BY Zenon, <1>0, <1>1, <1>4, <2>1, AckStep, AckStream
  <2>3. ReceiverStream(E)'
    BY Zenon, <1>0, <2>1, ReceiverStreamSame DEF receiver
  <2> QED  BY Zenon, <2>2, <2>3 DEF KcpInv
<1>5. ASSUME NEW d \in pushes, InputReceiver(d)  PROVE KcpInv'
  <2>1. UNCHANGED sender /\ pushes' \subseteq pushes
    BY Zenon, <1>5 DEF InputReceiver, Arrive
  <2>2. ConvInv' /\ ReceiverStream(E)'
    BY Zenon, <1>0, <1>1, <1>5, InputStep, InputStream
  <2> QED  BY Zenon, <1>0, <2>1, <2>2, SenderStreamSame DEF KcpInv
<1>6. CASE FlushReceiver
  <2>1. UNCHANGED << sender, pushes, rcv_buf, rcv_queue, rcv_nxt, delivered >> /\ nsent' = nsent
    BY Zenon, <1>6 DEF FlushReceiver, sender
  <2>2. SenderStream(E)' /\ ReceiverStream(E)'
    BY Zenon, <1>0, <2>1, SenderStreamSame, ReceiverStreamSame
  <2> QED  BY Zenon, <1>1, <1>6, <2>2, FlushReceiverStep DEF KcpInv
<1>7. CASE ikcp_recv
  <2>1. UNCHANGED << sender, pushes >>
    BY Zenon, <1>7 DEF ikcp_recv
  <2>2. SenderStream(E)'
    BY Zenon, <1>0, <2>1, SenderStreamSame
  <2> QED  BY Zenon, <1>0, <1>1, <1>7, <2>2, RecvStep DEF KcpInv
<1>8. CASE Lose \/ UNCHANGED kcpvars
  <2>1. UNCHANGED << sender, receiver >> /\ pushes' \subseteq pushes /\ nsent' = nsent
    BY Zenon, <1>8 DEF Lose, kcpvars, sender
  <2>2. SenderStream(E)' /\ ReceiverStream(E)'
    BY Zenon, <1>0, <2>1, SenderStreamSame, ReceiverStreamSame DEF receiver
  <2> QED  BY Zenon, <1>1, <1>8, <2>2, LoseStep DEF KcpInv
<1> QED  BY Zenon, <1>2, <1>3, <1>4, <1>5, <1>6, <1>7, <1>8 DEF KcpNext

\* The invariant has the property of the runs: in particular no sequence number
\* is twice in the receive buffer.
LEMMA KcpInvSafe ==
    ASSUME KcpAssumption, KcpInv
    PROVE  ConversationSafe
<1>0. SenderType /\ ReceiverType /\ NetType /\ Window /\ GivenOut /\ ForgottenIsReceived
  BY Zenon DEF KcpInv, ConvInv, Acknowledged
<1>1. snd_nxt \in Nat /\ rcv_nxt \in Nat /\ RCV_WND \in Nat
  BY Zenon, <1>0 DEF SenderType, ReceiverType, KcpAssumption
<1>2. \A n \in Nat : n < snd_nxt => n \in 0 .. snd_nxt - 1
  BY SMTT(20), <1>1
<1>3. \A n \in Nat : rcv_nxt <= n /\ n < rcv_nxt + RCV_WND => n \in rcv_nxt .. rcv_nxt + RCV_WND - 1
  BY SMTT(20), <1>1
<1>4. \A seg \in snd_buf \cup rcv_buf : seg.sn \in Nat
  BY Zenon, <1>0 DEF SenderType, ReceiverType, Segment, PushSeg
<1>5. \A d \in replies : d.sns \subseteq Nat /\ d.una \in Nat /\ d.wnd \in 0 .. RCV_WND
  BY Zenon, <1>0 DEF NetType, Reply
<1>6. KcpTypeOK
  BY Zenon, <1>0, <1>2, <1>4, <1>5 DEF KcpTypeOK, SenderType, ReceiverType, GivenOut
<1>7. Cardinality({seg.sn : seg \in rcv_buf}) = Cardinality(rcv_buf)
  <2> DEFINE T == {seg.sn : seg \in rcv_buf}
             g == [seg \in rcv_buf |-> seg.sn]
  <2>1. g \in [rcv_buf -> T] /\ \A seg \in rcv_buf : g[seg] = seg.sn
    BY Zenon
  <2>2. \A a, b \in rcv_buf : g[a] = g[b] => a = b
    BY Zenon, <1>0, <2>1 DEF Window
  <2>3. \A t \in T : \E seg \in rcv_buf : g[seg] = t
    BY Zenon, <2>1
  <2> HIDE DEF T, g
  <2>4. g \in Bijection(rcv_buf, T)
    BY Zenon, <2>1, <2>2, <2>3 DEF Bijection, Injection, Surjection, IsInjective
  <2>5. ExistsBijection(rcv_buf, T) /\ IsFiniteSet(rcv_buf)
    BY Zenon, <1>0, <2>4 DEF ExistsBijection, ReceiverType
  <2>6. Cardinality(T) = Cardinality(rcv_buf)
    BY Zenon, <2>5, FS_Bijection
  <2> QED  BY Zenon, <2>6 DEF T
<1>8. WithinWindow
  BY Zenon, <1>0, <1>3, <1>4, <1>7 DEF WithinWindow, Window
<1> QED  BY Zenon, <1>0, <1>6, <1>8 DEF ConversationSafe

\* In every conversation, whatever the messages, the windows and the network's
\* losses, duplicates and reorderings, the sending end forgets a segment only
\* when the receiving end has it, and neither end holds more than its window
\* (ikcp_parse_ack, ikcp_parse_una, ikcp_parse_data, ikcp_input, ikcp_flush).
THEOREM ConversationAlwaysSafe ==
    ASSUME KcpAssumption
    PROVE  KcpSpec => []ConversationSafe
<1>1. KcpInit => KcpInv
  BY Zenon, KcpInitInv
<1>2. KcpInv /\ [KcpNext]_kcpvars => KcpInv'
  BY Zenon, KcpNextInv
<1>3. KcpInv => ConversationSafe
  BY Zenon, KcpInvSafe
<1> QED  BY PTL, <1>1, <1>2, <1>3 DEF KcpSpec

\* The messages given to ikcp_send, one more.
LEMMA SentGrows ==
    ASSUME KcpAssumption, NEW n \in Nat, n < Len(Fragments)
    PROVE  [m \in 1 .. n + 1 |-> FragmentsOf(m)] = Append([m \in 1 .. n |-> FragmentsOf(m)], FragmentsOf(n + 1))
<1> DEFINE s == [m \in 1 .. n |-> FragmentsOf(m)]
           t == [m \in 1 .. n + 1 |-> FragmentsOf(m)]
           e == FragmentsOf(n + 1)
<1>1. /\ \A m \in 1 .. n + 1 : m \in 1 .. Len(Fragments) /\ (m \in 1 .. n \/ m = n + 1)
      /\ \A m \in 1 .. n : m \in 1 .. n + 1
      /\ n + 1 \in 1 .. n + 1 /\ n + 1 \in Nat
  BY SMTT(20) DEF KcpAssumption
<1>2. \A m \in 1 .. n + 1 : FragmentsOf(m) \in Seq(Frag)
  BY Zenon, <1>1, FragmentSeq
<1>3. s \in Seq(Seq(Frag)) /\ Len(s) = n
  BY SMTT(20), <1>1, <1>2
<1>4. t \in Seq(Seq(Frag)) /\ Len(t) = n + 1
  BY SMTT(20), <1>1, <1>2
<1>5. (\A m \in 1 .. n : s[m] = FragmentsOf(m)) /\ \A m \in 1 .. n + 1 : t[m] = FragmentsOf(m)
  BY Zenon
<1>6. e \in Seq(Frag)
  BY Zenon, <1>1, <1>2
<1> HIDE DEF s, t
<1>7. /\ Append(s, e) \in Seq(Seq(Frag)) /\ Len(Append(s, e)) = n + 1
      /\ \A i \in 1 .. n : Append(s, e)[i] = s[i]
      /\ Append(s, e)[n + 1] = e
  BY SMTT(20), <1>3, <1>6, AppendProperties
<1>8. \A i \in 1 .. Len(t) : t[i] = Append(s, e)[i]
  BY Zenon, <1>1, <1>4, <1>5, <1>7
<1>9. t = Append(s, e)
  BY Zenon, <1>4, <1>7, <1>8, SeqEqual
<1> QED  BY Zenon, <1>9 DEF s, t

\* A step of the conversation sends a message, delivers the next one, or shows
\* neither user anything.
LEMMA KcpChannelStep ==
    ASSUME KcpAssumption, KcpInv, [KcpNext]_kcpvars
    PROVE  [Channel!ChNext]_<< [m \in 1 .. nsent |-> FragmentsOf(m)], delivered >>
<1>0. PICK E : SenderStream(E) /\ ReceiverStream(E)
  BY Zenon DEF KcpInv
<1>1. SenderType /\ ReceiverType
  BY Zenon DEF KcpInv, ConvInv
<1>2. nsent \in Nat /\ nsent <= Len(Fragments)
  BY SMTT(20), <1>1 DEF SenderType, KcpAssumption
<1>3. CASE ikcp_send
  <2>1. nsent < Len(Fragments) /\ nsent' = nsent + 1 /\ delivered' = delivered
    BY Zenon, <1>3 DEF ikcp_send, receiver
  <2>2. nsent + 1 \in DOMAIN Fragments
    BY SMTT(20), <1>2, <2>1 DEF KcpAssumption
  <2>3. [m \in 1 .. nsent' |-> FragmentsOf(m)]
            = Append([m \in 1 .. nsent |-> FragmentsOf(m)], FragmentsOf(nsent + 1))
    BY Zenon, <1>2, <2>1, SentGrows
  <2>4. Channel!ChSend(FragmentsOf(nsent + 1))
    BY Zenon, <2>1, <2>3 DEF Channel!ChSend
  <2> QED  BY Zenon, <2>2, <2>4 DEF Channel!ChNext
<1>4. CASE ikcp_recv
  <2> DEFINE s == [m \in 1 .. nsent |-> FragmentsOf(m)]
  <2>1. Receives(E, Len(delivered) + 1) /\ nsent' = nsent
    BY Zenon, <1>0, <1>1, <1>4, RecvResult DEF ikcp_recv, sender
  <2>2. Len(delivered) + 1 \in 1 .. nsent /\ delivered' = Append(delivered, FragmentsOf(Len(delivered) + 1))
    BY Zenon, <2>1 DEF Receives
  <2>3. Len(s) = nsent
    BY SMTT(20), <1>2
  <2>4. s[Len(delivered) + 1] = FragmentsOf(Len(delivered) + 1)
    BY Zenon, <2>2
  <2>5. Len(delivered) < nsent
    BY SMTT(20), <1>1, <1>2, <2>2 DEF ReceiverType
  <2>6. Channel!ChDeliver
    BY Zenon, <2>1, <2>2, <2>3, <2>4, <2>5 DEF Channel!ChDeliver
  <2> QED  BY Zenon, <2>6 DEF Channel!ChNext
<1>5. CASE UNCHANGED << nsent, delivered >>
  BY Zenon, <1>5
<1>6. ASSUME NEW due, NEW p, FlushSender(due, p)  PROVE UNCHANGED << nsent, delivered >>
  BY Zenon, <1>6 DEF FlushSender, receiver
<1>7. ASSUME NEW d, InputSender(d)  PROVE UNCHANGED << nsent, delivered >>
  BY Zenon, <1>7 DEF InputSender, receiver
<1>8. ASSUME NEW d, InputReceiver(d)  PROVE UNCHANGED << nsent, delivered >>
  BY Zenon, <1>8 DEF InputReceiver, InputPush, InputWask, sender
<1>9. FlushReceiver \/ Lose \/ UNCHANGED kcpvars => UNCHANGED << nsent, delivered >>
  BY Zenon DEF FlushReceiver, Lose, kcpvars, sender, receiver
<1> QED  BY Zenon, <1>3, <1>4, <1>5, <1>6, <1>7, <1>8, <1>9 DEF KcpNext

\* Whatever the messages, the windows, the limits of fast retransmission and the
\* losses, duplicates and reorderings of the network, ikcp_recv returns the
\* messages given to ikcp_send, whole, in order, each once.
THEOREM KcpImplementsChannel ==
    ASSUME KcpAssumption
    PROVE  KcpSpec => ImplementsChannel
<1>1. KcpInit => KcpInv
  BY Zenon, KcpInitInv
<1>2. KcpInv /\ [KcpNext]_kcpvars => KcpInv'
  BY Zenon, KcpNextInv
<1>3. KcpInit => Channel!ChInit
  <2> SUFFICES ASSUME KcpInit  PROVE Channel!ChInit
    BY Zenon
  <2>1. nsent = 0 /\ delivered = << >>
    BY Zenon DEF KcpInit
  <2>2. [m \in 1 .. nsent |-> FragmentsOf(m)] = << >>
    BY SMTT(20), <2>1
  <2> QED  BY Zenon, <2>1, <2>2 DEF Channel!ChInit
<1>4. KcpInv /\ [KcpNext]_kcpvars => [Channel!ChNext]_<< [m \in 1 .. nsent |-> FragmentsOf(m)], delivered >>
  BY Zenon, KcpChannelStep
<1> QED  BY PTL, <1>1, <1>2, <1>3, <1>4 DEF KcpSpec, ImplementsChannel, Channel!ChSpec
=============================================================================
