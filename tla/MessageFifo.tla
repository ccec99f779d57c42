----------------------------- MODULE MessageFifo -----------------------------
(***************************************************************************)
(* What two connected sockets are to the device: a queue of messages, each *)
(* of which comes out once, whole, and in the order of AsyncSendMsg.       *)
(***************************************************************************)
EXTENDS Naturals, Sequences

VARIABLES
  pushed,      \* the messages given to the sender
  delivered    \* the messages the receiver told its owner of

vars == <<pushed, delivered>>

Init == pushed = <<>> /\ delivered = <<>>

\* The sender is given one more message.
Push ==
  /\ Len(pushed') = Len(pushed) + 1
  /\ SubSeq(pushed', 1, Len(pushed)) = pushed
  /\ UNCHANGED delivered

Deliver ==
  /\ Len(delivered) < Len(pushed)
  /\ delivered' = Append(delivered, pushed[Len(delivered) + 1])
  /\ UNCHANGED pushed

Next == Push \/ Deliver

Spec == Init /\ [][Next]_vars /\ WF_vars(Deliver)
=============================================================================
