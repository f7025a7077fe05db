----------------------------- MODULE MCLoopLive -----------------------------
(***************************************************************************)
(* What must happen in an event loop in the end, each part explored on its *)
(* own from an initial state that chooses one of them: a functor posted to *)
(* the loop runs and a stop is heard ("post"), and a timer fires           *)
(* ("timers").  The fairness of each part is that of its module, for the   *)
(* behaviours that are about the part.                                     *)
(***************************************************************************)
EXTENDS LoopPost, LoopEvents

VARIABLE part    \* the component this behaviour is about

allvars == << part, vars, loopvars >>

MCInit ==
    /\ part \in {"post", "timers"}
    /\ Init /\ LoopInit

InTimers(A) == part = "timers" /\ A /\ UNCHANGED << part, vars >>
InPost(A)   == part = "post" /\ A /\ UNCHANGED << part, loopvars >>

MCNext == InTimers(LoopNext) \/ InPost(Next)

MCSpec ==
    /\ MCInit /\ [][MCNext]_allvars
    \* LoopFairSpec of LoopEvents
    /\ WF_allvars(InTimers(Loop))
    /\ SF_allvars(InTimers(\E d \in 1 .. MaxBlock, ready \in SUBSET Registered : PollIos(d, ready)))
    \* FairSpec of LoopPost
    /\ WF_allvars(InPost(LoopStep))
    /\ SF_allvars(InPost(Poll(TRUE)))
    /\ \A t \in Threads : /\ WF_allvars(InPost(PostStep(t)))
                          /\ WF_allvars(InPost(ControlStep(t)))

=============================================================================
