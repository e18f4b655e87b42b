------------------------------ MODULE FifoLink ------------------------------
(***************************************************************************)
(* What one hop of the packet sender promises to the code above it: the    *)
(* packets handed over for a next hop come out at that hop in the order in *)
(* which they were handed over, each once, none skipped.  Nothing is said  *)
(* of queues, windows, timers, sequence numbers or acknowledgements.       *)
(***************************************************************************)
EXTENDS Naturals, Sequences

CONSTANT Packets    \* what can be handed over

VARIABLES sent,     \* the packets handed over for the hop, oldest first
          rcvd      \* the packets the hop has handed to its application

vars == <<sent, rcvd>>

TypeOK ==
    /\ sent \in Seq(Packets)
    /\ rcvd \in Seq(Packets)

Init ==
    /\ sent = <<>>
    /\ rcvd = <<>>

Send(p) ==
    /\ sent' = Append(sent, p)
    /\ UNCHANGED rcvd

Deliver ==
    /\ Len(rcvd) < Len(sent)
    /\ rcvd' = Append(rcvd, sent[Len(rcvd) + 1])
    /\ UNCHANGED sent

Next == (\E p \in Packets : Send(p)) \/ Deliver

Spec == Init /\ [][Next]_vars
=============================================================================
