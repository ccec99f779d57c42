------------------------------- MODULE TaskBox -------------------------------
(***************************************************************************)
(* What a NetWorker promises to the threads that hand it tasks: one FIFO   *)
(* without duplicates.  Asking for a task that is already waiting adds     *)
(* nothing; tasks are taken in the order they were first asked for, one at *)
(* a time; a waiting task may be withdrawn; once the box is closed nothing *)
(* is taken any more.                                                      *)
(***************************************************************************)
EXTENDS Sequences, SequencesExt

CONSTANTS
  Items,    \* the tasks that can be asked for
  NoItem    \* "nothing is being run", not an item

VARIABLES
  queue,    \* the tasks waiting, oldest first
  running,  \* the task taken and not finished yet, or NoItem
  closed    \* TRUE once the box takes nothing any more

boxVars == <<queue, running, closed>>

BoxTypeOK ==
  /\ queue \in Seq(Items)
  /\ running \in Items \cup {NoItem}
  /\ closed \in BOOLEAN

BoxInit ==
  /\ queue = <<>>
  /\ running = NoItem
  /\ closed = FALSE

Waiting == ToSet(queue)

\* Ask for t: it waits behind the others, unless it waits already.
Request(t) ==
  /\ ~closed
  /\ t \notin Waiting
  /\ queue' = Append(queue, t)
  /\ UNCHANGED <<running, closed>>

\* The oldest waiting task is taken to be run.
Take ==
  /\ ~closed
  /\ running = NoItem
  /\ queue # <<>>
  /\ running' = Head(queue)
  /\ queue' = Tail(queue)
  /\ UNCHANGED closed

Finish ==
  /\ running # NoItem
  /\ running' = NoItem
  /\ UNCHANGED <<queue, closed>>

\* A waiting task is taken back before it ran.
Withdraw(t) ==
  /\ \E i \in DOMAIN queue : queue[i] = t /\ queue' = RemoveAt(queue, i)
  /\ UNCHANGED <<running, closed>>

\* The box is closed between two tasks; what still waits is dropped.
Close ==
  /\ ~closed
  /\ running = NoItem
  /\ queue' = <<>>
  /\ closed' = TRUE
  /\ UNCHANGED running

BoxNext ==
  \/ \E t \in Items : Request(t) \/ Withdraw(t)
  \/ Take
  \/ Finish
  \/ Close

\* The box is served: a waiting task is taken, a task taken is finished.
BoxFairness == WF_boxVars(Take) /\ WF_boxVars(Finish)

BoxSpec == BoxInit /\ [][BoxNext]_boxVars /\ BoxFairness
=============================================================================
