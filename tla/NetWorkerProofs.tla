--------------------------- MODULE NetWorkerProofs ---------------------------
(***************************************************************************)
(* The invariants of NetWorker, for any number of tasks and of threads and *)
(* any capacity of the eventfd.                                            *)
(***************************************************************************)
EXTENDS NetWorker, ListLemmas

(***************************************************************************)
(* What the invariants need to be inductive: the local copy is empty       *)
(* outside the pop loop, a task is held exactly while it is about to be    *)
(* fed, and the eventfd is closed only after the worker has gone.          *)
(***************************************************************************)
Phase ==
  /\ wpc \in {"wait", "unsignal"} => local = <<>>
  /\ wpc = "feed" <=> cur # None
  /\ tpc = "done" => wpc = "exited"
  /\ efd = -1 => tpc = "done"

IInv ==
  /\ TypeOK
  /\ Phase
  /\ MarkedWhileQueued
  /\ Signalled
  /\ UnsignalFindsSignal
  /\ NoLostWork

-----------------------------------------------------------------------------
\* NetQueue::Push: afterwards the item is marked, and it joined tasks_ unless
\* it was marked before.
LEMMA PushEffect ==
  ASSUME TypeOK, MarkedWhileQueued, NEW i \in Items, Push(i)
  PROVE  /\ tasks_' \in Seq(Items) /\ IsInjective(tasks_')
         /\ linked' \subseteq Items
         /\ linked' = linked \cup {i}
         /\ i \in linked => tasks_' = tasks_
         /\ i \notin linked => tasks_' # <<>>
         /\ ToSet(tasks_') = IF i \in linked THEN ToSet(tasks_)
                             ELSE ToSet(tasks_) \cup {i}
<1>1. CASE i \in linked
  BY <1>1 DEF Push, TypeOK
<1>2. CASE i \notin linked
  <2>1. i \notin ToSet(tasks_)
    BY <1>2 DEF MarkedWhileQueued
  <2>2. /\ Append(tasks_, i) \in Seq(Items)
        /\ Append(tasks_, i) # <<>>
        /\ ToSet(Append(tasks_, i)) = ToSet(tasks_) \cup {i}
        /\ IsInjective(Append(tasks_, i))
    BY <2>1, AppendElements DEF TypeOK
  <2> QED
    BY <1>2, <2>2 DEF Push, TypeOK
<1> QED
  BY <1>1, <1>2

\* NetQueue::Remove: an item found in tasks_ leaves it and loses its mark;
\* nothing changes for an item that is elsewhere.
LEMMA RemoveEffect ==
  ASSUME TypeOK, MarkedWhileQueued, NEW i \in Items, Remove_(i)
  PROVE  /\ tasks_' \in Seq(Items) /\ IsInjective(tasks_')
         /\ ToSet(tasks_') = ToSet(tasks_) \ {i}
         /\ linked' = IF i \in ToSet(tasks_) THEN linked \ {i} ELSE linked
         /\ tasks_' # <<>> => tasks_ # <<>>
<1>1. CASE i \in ToSet(tasks_)
  <2>1. i \in linked
    BY <1>1 DEF MarkedWhileQueued
  <2>2. PICK k \in DOMAIN tasks_ : tasks_[k] = i /\ tasks_' = RemoveAt(tasks_, k)
    BY <1>1, <2>1 DEF Remove_
  <2>3. k \in 1 .. Len(tasks_)
    BY <2>2, LenProperties DEF TypeOK
  <2>4. /\ tasks_' \in Seq(Items) /\ IsInjective(tasks_')
        /\ ToSet(tasks_') = ToSet(tasks_) \ {i}
    BY <2>2, <2>3, RemoveAtElements DEF TypeOK
  <2>5. linked' = linked \ {i}
    BY <1>1, <2>1 DEF Remove_
  <2>6. tasks_ # <<>>
    BY <2>3 DEF TypeOK
  <2> QED
    BY <1>1, <2>4, <2>5, <2>6
<1>2. CASE i \notin ToSet(tasks_)
  BY <1>2 DEF Remove_, TypeOK
<1> QED
  BY <1>1, <1>2

\* NetEventFd::Signal: a descriptor that is open becomes readable.
LEMMA SignalEffect ==
  ASSUME TypeOK, efd < SignalMax, Signal
  PROVE  /\ efd' \in -1 .. SignalMax
         /\ efd = -1 => efd' = -1
         /\ efd # -1 => efd' > 0
BY WorkerAssumption DEF TypeOK, Signal

\* The empty queue, written by NetQueue::Init.
LEMMA EmptyList ==
  /\ <<>> \in Seq(Items)
  /\ IsInjective(<<>>)
  /\ ToSet(<<>>) = {}
BY DEF IsInjective, ToSet
-----------------------------------------------------------------------------
\* NetWorker::Init and NetSocket::Init leave everything empty and unmarked.
LEMMA InitInv == Init => IInv
<1> SUFFICES ASSUME Init PROVE IInv
  OBVIOUS
<1> USE WorkerAssumption, EmptyList DEF Init
<1>1. TypeOK
  BY DEF TypeOK
<1>2. Phase
  BY DEF Phase
<1>3. MarkedWhileQueued
  BY DEF MarkedWhileQueued
<1>4. Signalled /\ UnsignalFindsSignal
  BY DEF Signalled, UnsignalFindsSignal
<1>5. NoLostWork
  BY DEF NoLostWork
<1> QED
  BY <1>1, <1>2, <1>3, <1>4, <1>5 DEF IInv
-----------------------------------------------------------------------------
(* Each action preserves IInv. *)

\* A thread leaves work behind and will ask for the task.
LEMMA PublishInv ==
  ASSUME IInv, NEW p \in Threads, NEW t \in Tasks, Publish(p, t)
  PROVE  IInv'
<1> USE DEF IInv, Publish
<1>1. TypeOK'
  BY DEF TypeOK
<1>2. (Phase /\ MarkedWhileQueued /\ Signalled /\ UnsignalFindsSignal)'
  BY DEF Phase, MarkedWhileQueued, Signalled, Alive, UnsignalFindsSignal
<1>3. NoLostWork'
  <2>1. SUFFICES ASSUME NEW u \in Tasks, work'[u], Alive
                 PROVE  \/ \E q \in Threads : asking'[q] = u
                        \/ u \in ToSet(tasks_) \cup ToSet(local)
                        \/ cur = u
    BY DEF NoLostWork, Alive
  <2>2. CASE u = t
    BY <2>2 DEF TypeOK
  <2>3. CASE u # t
    <3>1. work[u]
      BY <2>1, <2>3 DEF TypeOK
    <3>2. \A q \in Threads : asking[q] = u => asking'[q] = u
      BY WorkerAssumption DEF TypeOK
    <3> QED
      BY <2>1, <3>1, <3>2 DEF NoLostWork
  <2> QED
    BY <2>2, <2>3
<1> QED
  BY <1>1, <1>2, <1>3

\* NetWorker::Execute: the asking thread's task is queued, or was already.
LEMMA ExecuteInv ==
  ASSUME IInv, NEW p \in Threads, Execute(p)
  PROVE  IInv'
<1> DEFINE i == asking[p]
<1>1. i \in Tasks /\ i \in Items
  BY DEF IInv, TypeOK, Execute, Items
<1>2. /\ tasks_' \in Seq(Items) /\ IsInjective(tasks_')
      /\ linked' \subseteq Items
      /\ linked' = linked \cup {i}
      /\ i \in linked => tasks_' = tasks_
      /\ ToSet(tasks_') = IF i \in linked THEN ToSet(tasks_)
                          ELSE ToSet(tasks_) \cup {i}
  BY <1>1, PushEffect DEF IInv, Execute
<1>3. /\ efd' \in -1 .. SignalMax
      /\ efd = -1 => efd' = -1
      /\ efd # -1 => efd' > 0
  BY SignalEffect DEF IInv, Execute
<1>4. UNCHANGED <<local, wpc, cur, tpc, work>> /\ asking' = [asking EXCEPT ![p] = None]
  BY DEF Execute
<1> HIDE DEF i
<1>5. TypeOK'
  BY <1>2, <1>3, <1>4 DEF IInv, TypeOK
<1>6. Phase'
  BY <1>3, <1>4 DEF IInv, Phase
<1>7. MarkedWhileQueued'
  BY <1>2, <1>4 DEF IInv, MarkedWhileQueued
<1>8. Signalled' /\ UnsignalFindsSignal'
  BY <1>3, <1>4, WorkerAssumption
     DEF IInv, Phase, Signalled, UnsignalFindsSignal, Alive, TypeOK
<1>9. NoLostWork'
  <2>1. SUFFICES ASSUME NEW t \in Tasks, work[t], Alive
                 PROVE  \/ \E q \in Threads : asking'[q] = t
                        \/ t \in ToSet(tasks_') \cup ToSet(local)
                        \/ cur = t
    BY <1>4 DEF NoLostWork, Alive
  <2>2. CASE t = i
    <3>1. tpc # "done"
      BY <2>1 DEF IInv, Phase, Alive
    <3>2. i \in ToSet(tasks_') \cup ToSet(local)
      BY <3>1, <1>2 DEF IInv, MarkedWhileQueued
    <3> QED
      BY <2>2, <3>2
  <2>3. CASE t # i
    <3>1. \A q \in Threads : asking[q] = t => asking'[q] = t
      BY <2>3, <1>4 DEF IInv, TypeOK, i
    <3> QED
      BY <2>1, <3>1, <1>2 DEF IInv, NoLostWork
  <2> QED
    BY <2>2, <2>3
<1> QED
  BY <1>5, <1>6, <1>7, <1>8, <1>9 DEF IInv

\* NetWorker::Cancel: the task leaves tasks_, if it is there.
LEMMA CancelInv ==
  ASSUME IInv, NEW p \in Threads, NEW t \in Tasks, Cancel(p, t)
  PROVE  IInv'
<1>1. /\ tasks_' \in Seq(Items) /\ IsInjective(tasks_')
      /\ ToSet(tasks_') = ToSet(tasks_) \ {t}
      /\ linked' = IF t \in ToSet(tasks_) THEN linked \ {t} ELSE linked
      /\ tasks_' # <<>> => tasks_ # <<>>
  <2>1. t \in Items /\ Remove_(t)
    BY DEF Cancel, Items
  <2> QED
    BY <2>1, RemoveEffect DEF IInv
<1>2. /\ UNCHANGED <<local, efd, wpc, cur, tpc, asking>>
      /\ work' = [work EXCEPT ![t] = FALSE]
  BY DEF Cancel
<1>3. TypeOK'
  BY <1>1, <1>2 DEF IInv, TypeOK
<1>4. (Phase /\ Signalled /\ UnsignalFindsSignal)'
  BY <1>1, <1>2 DEF IInv, Phase, Signalled, Alive, UnsignalFindsSignal
<1>5. MarkedWhileQueued'
  BY <1>1, <1>2 DEF IInv, MarkedWhileQueued
<1>6. NoLostWork'
  BY <1>1, <1>2 DEF IInv, NoLostWork, TypeOK, Alive
<1> QED
  BY <1>3, <1>4, <1>5, <1>6 DEF IInv

\* NetWorker::Terminate queues stop_ ...
LEMMA TerminateAskInv ==
  ASSUME IInv, TerminateAsk
  PROVE  IInv'
<1>1. /\ tasks_' \in Seq(Items) /\ IsInjective(tasks_')
      /\ linked' \subseteq Items
      /\ linked' = linked \cup {stop_}
      /\ ToSet(tasks_') = IF stop_ \in linked THEN ToSet(tasks_)
                          ELSE ToSet(tasks_) \cup {stop_}
  <2>1. stop_ \in Items /\ Push(stop_)
    BY DEF TerminateAsk, Items
  <2> QED
    BY <2>1, PushEffect DEF IInv
<1>2. efd' \in -1 .. SignalMax /\ efd' > 0
  <2>1. efd # -1
    BY DEF IInv, Phase, TerminateAsk
  <2> QED
    BY <2>1, SignalEffect DEF IInv, TerminateAsk
<1>3. /\ UNCHANGED <<local, wpc, cur, work, asking>>
      /\ tpc = "running" /\ tpc' = "joining"
  BY DEF TerminateAsk
<1>4. TypeOK'
  BY <1>1, <1>2, <1>3 DEF IInv, TypeOK
<1>5. (Phase /\ Signalled /\ UnsignalFindsSignal)'
  BY <1>2, <1>3 DEF IInv, Phase, Signalled, UnsignalFindsSignal
<1>6. MarkedWhileQueued'
  BY <1>1, <1>3 DEF IInv, MarkedWhileQueued
<1>7. NoLostWork'
  BY <1>1, <1>3 DEF IInv, NoLostWork, Alive
<1> QED
  BY <1>4, <1>5, <1>6, <1>7 DEF IInv

\* ... and closes everything once the thread has been joined.
LEMMA TerminateJoinedInv ==
  ASSUME IInv, TerminateJoined
  PROVE  IInv'
<1> USE EmptyList, WorkerAssumption DEF IInv, TerminateJoined
<1>1. TypeOK'
  BY DEF TypeOK
<1>2. (Phase /\ MarkedWhileQueued)'
  BY DEF Phase, MarkedWhileQueued
<1>3. (Signalled /\ UnsignalFindsSignal /\ NoLostWork)'
  BY DEF Signalled, UnsignalFindsSignal, NoLostWork, Alive
<1> QED
  BY <1>1, <1>2, <1>3
-----------------------------------------------------------------------------
\* The poller reports the eventfd readable.
LEMMA WakeInv ==
  ASSUME IInv, Wake
  PROVE  IInv'
<1> USE DEF IInv, Wake
<1>1. TypeOK'
  BY DEF TypeOK
<1>2. (Phase /\ MarkedWhileQueued /\ Signalled /\ UnsignalFindsSignal)'
  BY DEF Phase, MarkedWhileQueued, Signalled, UnsignalFindsSignal, Alive
<1>3. NoLostWork'
  BY DEF NoLostWork, Alive
<1> QED
  BY <1>1, <1>2, <1>3

\* The whole queue moves into the local copy, which was empty.
LEMMA SnapshotInv ==
  ASSUME IInv, Snapshot
  PROVE  IInv'
<1>1. wpc = "unsignal" /\ efd > 0 /\ local = <<>>
  BY DEF IInv, Phase, UnsignalFindsSignal, Snapshot
<1>2. /\ efd' = 0 /\ local' = tasks_ /\ tasks_' = <<>> /\ wpc' = "pop"
      /\ UNCHANGED <<linked, cur, tpc, work, asking>>
  BY <1>1 DEF Snapshot
<1>3. tpc # "done" /\ Alive /\ Alive'
  BY <1>1, <1>2 DEF IInv, Phase, Alive
<1>4. ToSet(local) = {} /\ ToSet(tasks_') = {}
  BY <1>1, <1>2, EmptyList
<1>5. TypeOK'
  BY <1>2, EmptyList, WorkerAssumption DEF IInv, TypeOK
<1>6. (Phase /\ Signalled /\ UnsignalFindsSignal)'
  BY <1>1, <1>2 DEF IInv, Phase, Signalled, UnsignalFindsSignal
<1>7. MarkedWhileQueued'
  BY <1>2, <1>4 DEF IInv, MarkedWhileQueued
<1>8. NoLostWork'
  BY <1>2, <1>3, <1>4 DEF IInv, NoLostWork
<1> QED
  BY <1>5, <1>6, <1>7, <1>8 DEF IInv

\* A task leaves the local copy and is free again before its handler runs.
LEMMA PopTaskInv ==
  ASSUME IInv, PopTask
  PROVE  IInv'
<1> DEFINE i == Head(local)
<1>1. /\ i \in Items /\ i \in ToSet(local)
      /\ Tail(local) \in Seq(Items) /\ IsInjective(Tail(local))
      /\ ToSet(Tail(local)) = ToSet(local) \ {i}
  BY TailElements DEF IInv, TypeOK, PopTask
<1>2. i \in Tasks
  BY <1>1 DEF PopTask, Items
<1>3. /\ wpc = "pop" /\ wpc' = "feed"
      /\ local' = Tail(local) /\ linked' = linked \ {i} /\ cur' = i
      /\ UNCHANGED <<tasks_, efd, tpc, work, asking>>
  BY DEF PopTask
<1>4. i \notin ToSet(tasks_)
  BY <1>1 DEF IInv, MarkedWhileQueued
<1>5. cur = None
  BY <1>3 DEF IInv, Phase
<1> HIDE DEF i
<1>6. TypeOK'
  BY <1>1, <1>2, <1>3 DEF IInv, TypeOK
<1>7. (Phase /\ Signalled /\ UnsignalFindsSignal)'
  BY <1>2, <1>3, WorkerAssumption
     DEF IInv, Phase, Signalled, UnsignalFindsSignal, Alive
<1>8. MarkedWhileQueued'
  BY <1>1, <1>3, <1>4 DEF IInv, MarkedWhileQueued
<1>9. NoLostWork'
  BY <1>1, <1>3, <1>5, WorkerAssumption DEF IInv, NoLostWork, Alive
<1> QED
  BY <1>6, <1>7, <1>8, <1>9 DEF IInv

\* stop_ is met: what is left of the copy is popped, the thread ends.
LEMMA PopStopInv ==
  ASSUME IInv, PopStop
  PROVE  IInv'
<1> USE EmptyList DEF IInv, PopStop
<1>1. TypeOK'
  BY DEF TypeOK
<1>2. (Phase /\ MarkedWhileQueued)'
  BY DEF Phase, MarkedWhileQueued
<1>3. (Signalled /\ UnsignalFindsSignal /\ NoLostWork)'
  BY DEF Signalled, UnsignalFindsSignal, NoLostWork, Alive
<1> QED
  BY <1>1, <1>2, <1>3

\* The copy is used up.
LEMMA PopNothingInv ==
  ASSUME IInv, PopNothing
  PROVE  IInv'
<1> USE DEF IInv, PopNothing
<1>1. TypeOK'
  BY DEF TypeOK
<1>2. (Phase /\ MarkedWhileQueued /\ Signalled /\ UnsignalFindsSignal)'
  BY DEF Phase, MarkedWhileQueued, Signalled, UnsignalFindsSignal, Alive
<1>3. NoLostWork'
  BY DEF NoLostWork, Alive
<1> QED
  BY <1>1, <1>2, <1>3

\* The task's handler runs and takes the work it finds.
LEMMA FeedInv ==
  ASSUME IInv, Feed
  PROVE  IInv'
<1> USE DEF IInv, Feed
<1>1. TypeOK'
  BY DEF TypeOK
<1>2. (Phase /\ MarkedWhileQueued /\ Signalled /\ UnsignalFindsSignal)'
  BY DEF Phase, MarkedWhileQueued, Signalled, UnsignalFindsSignal, Alive
<1>3. NoLostWork'
  BY DEF NoLostWork, Alive, TypeOK
<1> QED
  BY <1>1, <1>2, <1>3
-----------------------------------------------------------------------------
\* Every step of the program, and none, preserves IInv.
LEMMA NextInv == IInv /\ [Next]_vars => IInv'
<1> SUFFICES ASSUME IInv, [Next]_vars PROVE IInv'
  OBVIOUS
<1>1. CASE \E p \in Threads : Execute(p)
  BY <1>1, ExecuteInv
<1>2. CASE \E p \in Threads, t \in Tasks : Publish(p, t) \/ Cancel(p, t)
  BY <1>2, PublishInv, CancelInv
<1>3. CASE TerminateAsk
  BY <1>3, TerminateAskInv
<1>4. CASE TerminateJoined
  BY <1>4, TerminateJoinedInv
<1>5. CASE Worker
  BY <1>5, WakeInv, SnapshotInv, PopTaskInv, PopStopInv, PopNothingInv, FeedInv
     DEF Worker
<1>6. CASE UNCHANGED vars
  BY <1>6 DEF vars, IInv, TypeOK, Phase, MarkedWhileQueued, Signalled,
              UnsignalFindsSignal, NoLostWork, Alive
<1> QED
  BY <1>1, <1>2, <1>3, <1>4, <1>5, <1>6 DEF Next

(***************************************************************************)
(* The inductive invariant holds of the specification.                     *)
(***************************************************************************)
THEOREM Invariance == Spec => []IInv
<1>1. Init => IInv
  BY InitInv
<1>2. IInv /\ [Next]_vars => IInv'
  BY NextInv
<1> QED
  BY <1>1, <1>2, PTL DEF Spec

(***************************************************************************)
(* The lists stay lists of items, each item once: Push, which drops an     *)
(* item that is marked, never threads an item into a list twice.           *)
(***************************************************************************)
THEOREM TypeCorrect == Spec => []TypeOK
<1>1. IInv => TypeOK
  BY DEF IInv
<1> QED
  BY <1>1, Invariance, PTL

(***************************************************************************)
(* NetQueueItem's mark agrees with the two lists although the local copy   *)
(* is popped without the lock that guards the other one.                   *)
(***************************************************************************)
THEOREM MarksAgree == Spec => []MarkedWhileQueued
<1>1. IInv => MarkedWhileQueued
  BY DEF IInv
<1> QED
  BY <1>1, Invariance, PTL

(***************************************************************************)
(* No wake-up of the worker is lost: while tasks wait in tasks_, the       *)
(* eventfd is readable or the worker is past its wait.                     *)
(***************************************************************************)
THEOREM WakeUps == Spec => []Signalled
<1>1. IInv => Signalled
  BY DEF IInv
<1> QED
  BY <1>1, Invariance, PTL

(***************************************************************************)
(* NetEventFd::Unsignal never reads an empty eventfd, which would block    *)
(* the worker or fail its CHECK: the tasks' signals outlive the snapshots. *)
(***************************************************************************)
THEOREM UnsignalSafe == Spec => []UnsignalFindsSignal
<1>1. IInv => UnsignalFindsSignal
  BY DEF IInv
<1> QED
  BY <1>1, Invariance, PTL

(***************************************************************************)
(* No work published for a task is forgotten, although Execute drops a     *)
(* task that is queued already.                                            *)
(***************************************************************************)
THEOREM WorkIsKept == Spec => []NoLostWork
<1>1. IInv => NoLostWork
  BY DEF IInv
<1> QED
  BY <1>1, Invariance, PTL
-----------------------------------------------------------------------------
(* NetWorker implements TaskBox. *)

\* The queue TaskBox sees: the local copy in front of tasks_.
LEMMA BoxQueue ==
  ASSUME IInv
  PROVE  /\ local \o tasks_ \in Seq(Items)
         /\ ToSet(local \o tasks_) = ToSet(local) \cup ToSet(tasks_)
BY ConcatProperties, ConcatElements DEF IInv, TypeOK

\* Push puts the item at the end of TaskBox's queue, or changes nothing.
LEMMA PushIsRequest ==
  ASSUME IInv, NEW i \in Items, Push(i), UNCHANGED <<local, wpc, cur>>
  PROVE  Box!Request(i) \/ UNCHANGED Box!boxVars
<1>1. CASE i \in linked
  BY <1>1 DEF Push, Box!boxVars, Alive
<1>2. CASE i \notin linked /\ Alive
  <2>1. i \notin ToSet(local \o tasks_)
    BY <1>2, BoxQueue DEF IInv, MarkedWhileQueued
  <2>2. local \o tasks_' = Append(local \o tasks_, i)
    <3>1. tasks_' = Append(tasks_, i)
      BY <1>2 DEF Push
    <3>2. local \in Seq(Items) /\ tasks_ \in Seq(Items)
      BY DEF IInv, TypeOK
    <3> QED
      BY ONLY <3>1, <3>2, i \in Items, ConcatAppend
  <2>3. i \notin Box!Waiting
    BY <1>2, <2>1 DEF Box!Waiting, Box!ToSet, ToSet
  <2>4. UNCHANGED <<wpc, cur>> /\ local' = local
    OBVIOUS
  <2> QED
    BY <1>2, <2>2, <2>3, <2>4 DEF Box!Request, Alive
<1>3. CASE ~Alive
  BY <1>3 DEF Box!boxVars, Alive
<1> QED
  BY <1>1, <1>2, <1>3

\* Cancel withdraws the task from tasks_, or changes nothing.
LEMMA CancelIsWithdraw ==
  ASSUME IInv, NEW p \in Threads, NEW t \in Tasks, Cancel(p, t)
  PROVE  Box!Withdraw(t) \/ UNCHANGED Box!boxVars
<1>1. CASE t \notin ToSet(tasks_) \/ ~Alive
  BY <1>1 DEF Cancel, Remove_, Box!boxVars, Alive
<1>2. CASE t \in ToSet(tasks_) /\ Alive
  <2>1. t \in linked
    BY <1>2 DEF IInv, MarkedWhileQueued
  <2>2. PICK k \in DOMAIN tasks_ : tasks_[k] = t /\ tasks_' = RemoveAt(tasks_, k)
    BY <1>2, <2>1 DEF Cancel, Remove_
  <2>3. k \in 1 .. Len(tasks_)
    BY <2>2, LenProperties DEF IInv, TypeOK
  <2>4. /\ Len(local) + k \in DOMAIN (local \o tasks_)
        /\ (local \o tasks_)[Len(local) + k] = t
        /\ local \o tasks_' = RemoveAt(local \o tasks_, Len(local) + k)
    BY <2>2, <2>3, ConcatRemoveAt DEF IInv, TypeOK
  <2>5. UNCHANGED <<local, wpc, cur>>
    BY DEF Cancel
  <2> QED
    BY <1>2, <2>4, <2>5 DEF Box!Withdraw, Box!RemoveAt, RemoveAt, Alive
<1> QED
  BY <1>1, <1>2

\* PopTask takes the oldest task.
LEMMA PopTaskIsTake ==
  ASSUME IInv, PopTask
  PROVE  Box!Take
<1>1. /\ local \o tasks_ # <<>>
      /\ Head(local \o tasks_) = Head(local)
      /\ Tail(local \o tasks_) = Tail(local) \o tasks_
  BY ConcatHeadTail DEF IInv, TypeOK, PopTask
<1>2. cur = None
  BY DEF IInv, Phase, PopTask
<1> QED
  BY <1>1, <1>2 DEF PopTask, Box!Take, Alive

\* Moving the whole queue into the empty local copy is not seen.
LEMMA SnapshotIsHidden ==
  ASSUME IInv, Snapshot
  PROVE  UNCHANGED Box!boxVars
<1>1. wpc = "unsignal" /\ efd > 0 /\ local = <<>>
  BY DEF IInv, Phase, UnsignalFindsSignal, Snapshot
<1>2. local' \o tasks_' = local \o tasks_
  <2>1. tasks_ \o <<>> = tasks_ /\ <<>> \o tasks_ = tasks_
    BY ConcatEmptySeq DEF IInv, TypeOK
  <2> QED
    BY <1>1, <2>1 DEF Snapshot
<1> QED
  BY <1>1, <1>2 DEF Snapshot, Box!boxVars, Alive

\* Each step of the program is a step of TaskBox, or is not seen.
LEMMA NextIsBoxNext ==
  IInv /\ [Next]_vars => [Box!BoxNext]_(Box!boxVars)
<1> SUFFICES ASSUME IInv, [Next]_vars
             PROVE  Box!BoxNext \/ UNCHANGED Box!boxVars
  OBVIOUS
<1>1. ASSUME NEW p \in Threads, Execute(p)
      PROVE  Box!BoxNext \/ UNCHANGED Box!boxVars
  <2>1. asking[p] \in Items
    BY <1>1 DEF Execute, IInv, TypeOK, Items
  <2>2. Box!Request(asking[p]) \/ UNCHANGED Box!boxVars
    BY <1>1, <2>1, PushIsRequest DEF Execute
  <2> QED
    BY <2>1, <2>2 DEF Box!BoxNext
<1>2. ASSUME NEW p \in Threads, NEW t \in Tasks, Publish(p, t)
      PROVE  UNCHANGED Box!boxVars
  BY <1>2 DEF Publish, Box!boxVars, Alive
<1>3. ASSUME NEW p \in Threads, NEW t \in Tasks, Cancel(p, t)
      PROVE  Box!BoxNext \/ UNCHANGED Box!boxVars
  <2>1. t \in Items
    BY DEF Items
  <2> QED
    BY <1>3, <2>1, CancelIsWithdraw DEF Box!BoxNext
<1>4. CASE TerminateAsk
  <2>1. stop_ \in Items
    BY DEF Items
  <2>2. Box!Request(stop_) \/ UNCHANGED Box!boxVars
    BY <1>4, <2>1, PushIsRequest DEF TerminateAsk
  <2> QED
    BY <2>1, <2>2 DEF Box!BoxNext
<1>5. CASE TerminateJoined
  BY <1>5 DEF TerminateJoined, Box!boxVars, Alive
<1>6. CASE Wake \/ PopNothing
  BY <1>6 DEF Wake, PopNothing, Box!boxVars, Alive
<1>7. CASE Snapshot
  BY <1>7, SnapshotIsHidden
<1>8. CASE PopTask
  BY <1>8, PopTaskIsTake DEF Box!BoxNext
<1>9. CASE PopStop
  <2>1. cur = None
    BY <1>9 DEF PopStop, IInv, Phase
  <2> QED
    BY <1>9, <2>1 DEF PopStop, Alive, Box!Close, Box!BoxNext
<1>10. CASE Feed
  <2>1. cur # None
    BY <1>10 DEF Feed, IInv, Phase
  <2> QED
    BY <1>10, <2>1 DEF Feed, Alive, Box!Finish, Box!BoxNext
<1>11. CASE UNCHANGED vars
  BY <1>11 DEF vars, Box!boxVars, Alive
<1> QED
  BY <1>1, <1>2, <1>3, <1>4, <1>5, <1>6, <1>7, <1>8, <1>9, <1>10, <1>11
     DEF Next, Worker

(***************************************************************************)
(* The two lists, one locked and one not, behave as one FIFO without       *)
(* duplicates: what Execute, Cancel and NetWorkerRoutine do to them is     *)
(* what TaskBox allows.                                                    *)
(***************************************************************************)
THEOREM Refinement == Spec => Box!BoxInit /\ [][Box!BoxNext]_(Box!boxVars)
<1>1. Init => Box!BoxInit
  <2>1. <<>> \o <<>> = <<>>
    BY ConcatEmptySeq, EmptyList
  <2> QED
    BY <2>1 DEF Init, Box!BoxInit, Alive
<1>2. IInv /\ [Next]_vars => [Box!BoxNext]_(Box!boxVars)
  BY NextIsBoxNext
<1> QED
  BY <1>1, <1>2, Invariance, PTL DEF Spec
=============================================================================
