--------------------------- MODULE MessageChannel ---------------------------
(***************************************************************************)
(* What the framing of the input promises to the dispatcher: the messages  *)
(* of the peer arrive unaltered, in order, each exactly once.  A peer that *)
(* breaks the framing gets everything it sent before the break dispatched, *)
(* nothing of what it sent after it, and is then cut off.                  *)
(***************************************************************************)
EXTENDS Naturals, Sequences

CONSTANT Message

VARIABLES sent,       \* messages sent before the framing was broken
          delivered,  \* messages handed to the dispatcher
          broken,     \* the peer has broken the framing
          closed      \* the session has been closed for it

vars == <<sent, delivered, broken, closed>>

Init ==
    /\ sent = <<>>
    /\ delivered = <<>>
    /\ broken = FALSE
    /\ closed = FALSE

Send(m) ==
    /\ ~broken
    /\ sent' = Append(sent, m)
    /\ UNCHANGED <<delivered, broken, closed>>

Break ==
    /\ ~broken
    /\ broken' = TRUE
    /\ UNCHANGED <<sent, delivered, closed>>

Deliver ==
    /\ ~closed
    /\ Len(delivered) < Len(sent)
    /\ delivered' = Append(delivered, sent[Len(delivered) + 1])
    /\ UNCHANGED <<sent, broken, closed>>

Close ==
    /\ broken
    /\ ~closed
    /\ delivered = sent
    /\ closed' = TRUE
    /\ UNCHANGED <<sent, delivered, broken>>

Next == (\E m \in Message : Send(m)) \/ Break \/ Deliver \/ Close

Spec == Init /\ [][Next]_vars

\* The network brings what was sent, and the read loop goes on.
Fairness == WF_vars(Deliver) /\ WF_vars(Close)
=============================================================================
