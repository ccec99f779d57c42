------------------------------- MODULE Channel -------------------------------
(***************************************************************************)
(* Channel<T>: a queue of items between threads, with an end to send and   *)
(* an end to receive, each of which can be closed.  Every operation holds  *)
(* mutex_ throughout, but for the time Receive spends in cond_.wait.  A    *)
(* thread that is notified looks at the condition again, so that a         *)
(* spurious wake-up changes nothing and is left out.                       *)
(***************************************************************************)
EXTENDS Naturals, Sequences

CONSTANTS
  Pollers      \* the threads that receive

VARIABLES
  val,                \* val_
  is_send_closed,
  is_receive_closed,
  blocked             \* the threads in cond_.wait

channelVars == <<val, is_send_closed, is_receive_closed, blocked>>

ChannelInit ==
  /\ val = <<>>
  /\ is_send_closed = FALSE /\ is_receive_closed = FALSE
  /\ blocked = {}

NotifyOne ==
  IF blocked = {} THEN UNCHANGED blocked
  ELSE \E p \in blocked : blocked' = blocked \ {p}

NotifyAll == blocked' = {}

\* Mutant: nobody is woken for the item.
SendSilently(item) ==
  /\ IF is_send_closed
     THEN UNCHANGED <<val, blocked>>
     ELSE /\ val' = Append(val, item)
          /\ UNCHANGED blocked
  /\ UNCHANGED <<is_send_closed, is_receive_closed>>

Send(item) ==
  /\ IF is_send_closed
     THEN UNCHANGED <<val, blocked>>
     ELSE /\ val' = Append(val, item)
          /\ NotifyOne
  /\ UNCHANGED <<is_send_closed, is_receive_closed>>

\* What Receive waits for.
Receivable == val # <<>> \/ is_receive_closed \/ is_send_closed

\* Receive waits, ...
Block(p) ==
  /\ p \notin blocked
  /\ ~Receivable
  /\ blocked' = blocked \cup {p}
  /\ UNCHANGED <<val, is_send_closed, is_receive_closed>>

\* ... takes an item (returns 0), ...
Take(p) ==
  /\ p \notin blocked
  /\ val # <<>> /\ ~is_receive_closed
  /\ val' = Tail(val)
  /\ UNCHANGED <<is_send_closed, is_receive_closed, blocked>>

\* Mutant: items that are left keep the receiver from giving up.
GiveUpWhenEmpty(p) ==
  /\ p \notin blocked
  /\ is_receive_closed \/ is_send_closed
  /\ val = <<>>
  /\ UNCHANGED channelVars

\* ... or finds an end closed (returns -1).
GiveUp(p) ==
  /\ p \notin blocked
  /\ Receivable
  /\ val = <<>> \/ is_receive_closed
  /\ UNCHANGED channelVars

CloseSendEnd ==
  /\ is_send_closed' = TRUE
  /\ NotifyAll
  /\ UNCHANGED <<val, is_receive_closed>>

CloseReceiveEnd ==
  /\ is_receive_closed' = TRUE
  /\ NotifyAll
  /\ UNCHANGED <<val, is_send_closed>>
=============================================================================
