------------------------------ MODULE NetWorker ------------------------------
(***************************************************************************)
(* A NetWorker: the thread that runs the tasks and the descriptor events   *)
(* of the sockets assigned to it (worker.cpp), seen from the task side.    *)
(* Other threads hand it tasks through the intrusive queue tasks_, guarded *)
(* by sync_, and wake it through an eventfd.  The worker moves the whole   *)
(* queue into a local copy under the lock and then pops the copy without   *)
(* the lock, while other threads go on testing and setting the "in a       *)
(* queue" mark of the very same items.                                     *)
(*                                                                         *)
(* An item is an object of the program and sits in at most one list;       *)
(* linked is the set of items whose next_ is not NETQUEUE_NOT_INQUEUE.     *)
(* work stands for the state a task is asked to look at (the message queue *)
(* behind task_send_): a thread publishes work and then calls Execute, as  *)
(* AsyncSendMsg does, and the task's handler takes it.                     *)
(***************************************************************************)
EXTENDS Integers, Sequences, SequencesExt

CONSTANTS
  Tasks,       \* the NetWorkerTask objects served by this worker
  Threads,     \* the threads that hand tasks to the worker
  stop_,       \* the queue item Terminate uses to end the worker
  None,        \* no task
  SignalMax    \* the eventfd counts up to here (2^64 - 2 in the kernel)

ASSUME WorkerAssumption ==
  /\ stop_ \notin Tasks
  /\ None \notin Tasks \cup {stop_}
  /\ SignalMax \in Nat \ {0}

VARIABLES
  tasks_,      \* the shared queue, oldest first
  local,       \* the worker's copy of it, "tasks" in NetWorkerRoutine
  linked,      \* the items marked as being in a queue
  efd,         \* the eventfd's counter, -1 once it is closed
  wpc,         \* where the worker thread is
  cur,         \* the task popped and not yet fed to its socket, or None
  tpc,         \* where the thread that calls Terminate is
  work,        \* work[t]: something is there for task t to find
  asking       \* asking[p]: the task p is about to Execute, or None

vars == <<tasks_, local, linked, efd, wpc, cur, tpc, work, asking>>

Items == Tasks \cup {stop_}

(***************************************************************************)
(* The type invariant.  A list threaded through the items themselves can   *)
(* hold an item once only, which is part of what its type is.              *)
(***************************************************************************)
TypeOK ==
  /\ tasks_ \in Seq(Items) /\ IsInjective(tasks_)
  /\ local \in Seq(Items) /\ IsInjective(local)
  /\ linked \subseteq Items
  /\ efd \in -1 .. SignalMax
  /\ wpc \in {"wait", "unsignal", "pop", "feed", "exited", "failed"}
  /\ cur \in Tasks \cup {None}
  /\ tpc \in {"running", "joining", "done"}
  /\ work \in [Tasks -> BOOLEAN]
  /\ asking \in [Threads -> Tasks \cup {None}]

Init ==
  /\ tasks_ = <<>>
  /\ local = <<>>
  /\ linked = {}
  /\ efd = 0
  /\ wpc = "wait"
  /\ cur = None
  /\ tpc = "running"
  /\ work = [t \in Tasks |-> FALSE]
  /\ asking = [p \in Threads |-> None]
-----------------------------------------------------------------------------
(* The queue and the eventfd. *)

\* Mutant: Push without the test of the item's mark.
PushAlways(i) ==
  /\ tasks_' = Append(tasks_, i)
  /\ linked' = linked \cup {i}

\* NetQueue::Push: an item already in a queue, whichever, is left alone.
Push(i) ==
  IF i \in linked
  THEN UNCHANGED <<tasks_, linked>>
  ELSE /\ tasks_' = Append(tasks_, i)
       /\ linked' = linked \cup {i}

\* NetEventFd::Signal: nothing once the descriptor is closed.
Signal == efd' = IF efd < 0 THEN efd ELSE efd + 1

\* NetQueue::Remove on tasks_: an item linked elsewhere is not found there.
Remove_(i) ==
  IF i \in linked /\ i \in ToSet(tasks_)
  THEN /\ \E k \in DOMAIN tasks_ : tasks_[k] = i /\ tasks_' = RemoveAt(tasks_, k)
       /\ linked' = linked \ {i}
  ELSE UNCHANGED <<tasks_, linked>>
-----------------------------------------------------------------------------
(* The threads that use the worker. *)

\* A thread leaves work for t to find, before it asks for t.
Publish(p, t) ==
  /\ asking[p] = None
  /\ work' = [work EXCEPT ![t] = TRUE]
  /\ asking' = [asking EXCEPT ![p] = t]
  /\ UNCHANGED <<tasks_, local, linked, efd, wpc, cur, tpc>>

\* NetWorker::Execute, one critical section of sync_.
Execute(p) ==
  /\ asking[p] # None
  /\ efd < SignalMax
  /\ Push(asking[p])
  /\ Signal
  /\ asking' = [asking EXCEPT ![p] = None]
  /\ UNCHANGED <<local, wpc, cur, tpc, work>>

\* NetWorker::Cancel, called by NetSocket::Terminate, which also gives up
\* whatever the task was to find.
Cancel(p, t) ==
  /\ asking[p] = None
  /\ \A q \in Threads : asking[q] # t
  /\ Remove_(t)
  /\ work' = [work EXCEPT ![t] = FALSE]
  /\ UNCHANGED <<local, efd, wpc, cur, tpc, asking>>

\* NetWorker::Terminate, up to the join.
TerminateAsk ==
  /\ tpc = "running"
  /\ efd < SignalMax
  /\ Push(stop_)
  /\ Signal
  /\ tpc' = "joining"
  /\ UNCHANGED <<local, wpc, cur, work, asking>>

\* ... and after it: the descriptors are closed, the queue's ends are reset;
\* items still in the queue keep their mark.
TerminateJoined ==
  /\ tpc = "joining"
  /\ wpc = "exited"
  /\ tpc' = "done"
  /\ efd' = -1
  /\ tasks_' = <<>>
  /\ UNCHANGED <<local, linked, wpc, cur, work, asking>>
-----------------------------------------------------------------------------
(* The worker thread, NetWorkerRoutine. *)

\* Mutant: the worker goes on although the eventfd is not readable.
WakeAnyway ==
  /\ wpc = "wait"
  /\ wpc' = "unsignal"
  /\ UNCHANGED <<tasks_, local, linked, efd, cur, tpc, work, asking>>

\* poller_.Wait returns and the poller reports the eventfd readable.
Wake ==
  /\ wpc = "wait"
  /\ efd > 0
  /\ wpc' = "unsignal"
  /\ UNCHANGED <<tasks_, local, linked, efd, cur, tpc, work, asking>>

\* Mutant: the copy is taken but tasks_ is not reset.
SnapshotKeepingQueue ==
  /\ wpc = "unsignal"
  /\ efd' = 0
  /\ local' = tasks_
  /\ wpc' = "pop"
  /\ UNCHANGED <<tasks_, linked, cur, tpc, work, asking>>

\* Mutant: one item is moved per wake-up, though the eventfd is emptied.
SnapshotOne ==
  /\ wpc = "unsignal"
  /\ efd' = 0
  /\ local' = IF tasks_ = <<>> THEN <<>> ELSE <<Head(tasks_)>>
  /\ tasks_' = IF tasks_ = <<>> THEN <<>> ELSE Tail(tasks_)
  /\ wpc' = "pop"
  /\ UNCHANGED <<linked, cur, tpc, work, asking>>

\* Under sync_: read the eventfd, which must not be empty, copy the queue,
\* reset it.
Snapshot ==
  /\ wpc = "unsignal"
  /\ IF efd > 0
     THEN /\ efd' = 0
          /\ local' = tasks_
          /\ tasks_' = <<>>
          /\ wpc' = "pop"
     ELSE /\ wpc' = "failed"
          /\ UNCHANGED <<efd, local, tasks_>>
  /\ UNCHANGED <<linked, cur, tpc, work, asking>>

\* Mutant: the item keeps its mark, and is never free again.
PopTaskUnmarked ==
  /\ wpc = "pop"
  /\ local # <<>>
  /\ Head(local) # stop_
  /\ local' = Tail(local)
  /\ cur' = Head(local)
  /\ wpc' = "feed"
  /\ UNCHANGED <<tasks_, linked, efd, tpc, work, asking>>

\* tasks.Pop() yields a task; the item is free again from here on.
PopTask ==
  /\ wpc = "pop"
  /\ local # <<>>
  /\ Head(local) # stop_
  /\ local' = Tail(local)
  /\ linked' = linked \ {Head(local)}
  /\ cur' = Head(local)
  /\ wpc' = "feed"
  /\ UNCHANGED <<tasks_, efd, tpc, work, asking>>

\* tasks.Pop() yields stop_: the rest of the copy is popped and dropped.
PopStop ==
  /\ wpc = "pop"
  /\ local # <<>>
  /\ Head(local) = stop_
  /\ local' = <<>>
  /\ linked' = linked \ ToSet(local)
  /\ wpc' = "exited"
  /\ UNCHANGED <<tasks_, efd, cur, tpc, work, asking>>

\* The copy is used up: back to the poller.
PopNothing ==
  /\ wpc = "pop"
  /\ local = <<>>
  /\ wpc' = "wait"
  /\ UNCHANGED <<tasks_, local, linked, efd, cur, tpc, work, asking>>

\* The task is fed to its socket, in the socket's critical section.
Feed ==
  /\ wpc = "feed"
  /\ work' = [work EXCEPT ![cur] = FALSE]
  /\ cur' = None
  /\ wpc' = "pop"
  /\ UNCHANGED <<tasks_, local, linked, efd, tpc, asking>>

Worker == Wake \/ Snapshot \/ PopTask \/ PopStop \/ PopNothing \/ Feed

Next ==
  \/ \E p \in Threads : Execute(p)
  \/ \E p \in Threads, t \in Tasks : Publish(p, t) \/ Cancel(p, t)
  \/ TerminateAsk
  \/ TerminateJoined
  \/ Worker

(***************************************************************************)
(* The worker is a thread of its own that never blocks but in epoll_wait,  *)
(* so each of its steps is weakly fair.  A thread inside AsyncSendMsg goes *)
(* on to its Execute; strong fairness, because the bound SignalMax may     *)
(* hold it back for a while, which the real counter never does.  Nobody    *)
(* has to publish, cancel or terminate.                                    *)
(***************************************************************************)
Fairness ==
  /\ WF_vars(Worker)
  /\ \A p \in Threads : SF_vars(Execute(p))

Spec == Init /\ [][Next]_vars /\ Fairness
-----------------------------------------------------------------------------
(* Properties. *)

Alive == wpc # "exited"

(***************************************************************************)
(* The mark next_ != NETQUEUE_NOT_INQUEUE agrees with the lists, across    *)
(* the two queues and three kinds of thread that maintain it: an item is   *)
(* marked exactly while it sits in one of the two lists, never in both.    *)
(* After Terminate has reset tasks_ only the "never unmarked" half is left.*)
(***************************************************************************)
MarkedWhileQueued ==
  /\ ToSet(tasks_) \cap ToSet(local) = {}
  /\ ToSet(tasks_) \cup ToSet(local) \subseteq linked
  /\ tpc # "done" => linked \subseteq ToSet(tasks_) \cup ToSet(local)

(***************************************************************************)
(* No wake-up is lost: whenever something is in tasks_ and the worker has  *)
(* not gone, the eventfd is readable, so epoll_wait will return.           *)
(***************************************************************************)
Signalled == tasks_ # <<>> /\ Alive => efd > 0

(***************************************************************************)
(* NetEventFd::Unsignal never meets an empty eventfd: its CHECK_GT(sz, 0)  *)
(* cannot fail, whatever the threads do between the poller's report and    *)
(* the read.                                                               *)
(***************************************************************************)
UnsignalFindsSignal ==
  /\ wpc # "failed"
  /\ wpc = "unsignal" => efd > 0

(***************************************************************************)
(* Work is never forgotten: if something was published for a task, then a  *)
(* thread is about to ask for the task, or the task waits in one of the    *)
(* queues, or its handler is about to run.  This is what lets Push drop a  *)
(* task that is marked already.                                            *)
(***************************************************************************)
NoLostWork ==
  \A t \in Tasks :
    work[t] /\ Alive =>
      \/ \E p \in Threads : asking[p] = t
      \/ t \in ToSet(tasks_) \cup ToSet(local)
      \/ cur = t

(***************************************************************************)
(* Published work is taken, unless the worker is terminated.               *)
(***************************************************************************)
WorkIsDone == \A t \in Tasks : work[t] ~> (~work[t] \/ tpc # "running")

(***************************************************************************)
(* The worker implements TaskBox: its two lists together are one FIFO.     *)
(***************************************************************************)
Box == INSTANCE TaskBox WITH
         Items <- Items,
         NoItem <- None,
         queue <- IF Alive THEN local \o tasks_ ELSE <<>>,
         running <- cur,
         closed <- ~Alive

ImplementsTaskBox == Box!BoxSpec
=============================================================================
