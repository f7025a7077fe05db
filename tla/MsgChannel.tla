----------------------------- MODULE MsgChannel -----------------------------
(***************************************************************************)
(* What the KCP link of event/kcp promises to its two users: the messages  *)
(* given to ikcp_send come out of ikcp_recv whole, in order, each once.    *)
(***************************************************************************)
EXTENDS Naturals, Sequences

CONSTANT Message
VARIABLES sent, delivered

ChInit == sent = << >> /\ delivered = << >>

ChSend(m) == sent' = Append(sent, m) /\ UNCHANGED delivered

ChDeliver ==
    /\ Len(delivered) < Len(sent)
    /\ delivered' = Append(delivered, sent[Len(delivered) + 1])
    /\ UNCHANGED sent

ChNext == (\E m \in Message : ChSend(m)) \/ ChDeliver

ChSpec == ChInit /\ [][ChNext]_<< sent, delivered >>
=============================================================================
