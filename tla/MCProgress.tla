----------------------------- MODULE MCProgress -----------------------------
(***************************************************************************)
(* What must happen in the end, each part explored on its own from an      *)
(* initial state that chooses one of them: the close of a connection       *)
(* completes ("close"), and a message given to KCP arrives ("kcp").  The   *)
(* fairness of each part is that of its module, for the behaviours that    *)
(* are about the part.                                                     *)
(***************************************************************************)
EXTENDS HioStream, Kcp

VARIABLE part    \* the component this behaviour is about

allvars == << part, vars, kcpvars >>

\* Three messages in a window of two: the receiver's window closes while there
\* is still something to send, and probing must reopen it.
MCFragments == << 1, 1, 1 >>

MCInit ==
    /\ part \in {"close", "kcp"}
    /\ Init /\ KcpInit

InClose(A) == part = "close" /\ A /\ UNCHANGED << part, kcpvars >>
InKcp(A)   == part = "kcp" /\ A /\ UNCHANGED << part, vars >>

MCNext == InClose(Next) \/ InKcp(KcpNext)

MCSpec ==
    /\ MCInit /\ [][MCNext]_allvars
    \* FairSpec of HioStream
    /\ WF_allvars(InClose(LoopStep))
    /\ \A t \in Threads : WF_allvars(InClose(CallStep(t)))
    /\ SF_allvars(InClose(RunPosted))
    /\ SF_allvars(InClose(\E k \in timers : CloseTimeout(k)))
    \* Fairness of Kcp
    /\ WF_allvars(InKcp(FlushSenderDue))
    /\ WF_allvars(InKcp(FlushSenderProbe))
    /\ WF_allvars(InKcp(FlushReceiver))
    /\ WF_allvars(InKcp(ikcp_recv))
    /\ SF_allvars(InKcp(\E d \in pushes : /\ d.cmd = "PUSH" /\ d.sn = snd_una
                                          /\ InputReceiver(d)))
    /\ SF_allvars(InKcp(InputReceiver(Wask)))
    /\ SF_allvars(InKcp(\E d \in replies : InputSender(d)))

=============================================================================
