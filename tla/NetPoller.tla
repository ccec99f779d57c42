------------------------------ MODULE NetPoller ------------------------------
(***************************************************************************)
(* NetPoller: a worker's epoll descriptor, the batch of events that the    *)
(* last epoll_wait returned, and the handles of the sockets it polls for.  *)
(*                                                                         *)
(* Between two calls of Event the worker runs the handler of the event, or *)
(* the tasks of any sockets; they add and remove descriptors and change    *)
(* the interest in them while later entries of the batch are waiting.      *)
(* Descriptors are closed and used again, and so is the memory of deleted  *)
(* sockets with their handles.                                             *)
(***************************************************************************)
EXTENDS Naturals, Sequences, FiniteSets, Functions

CONSTANTS
  Handles,     \* NetPollerHandle, one in every socket
  Fds,         \* descriptors
  Nobody,
  Garbage,     \* what hndl->fd may be before Add writes it; Nobody stands for
               \* all numbers that are not a descriptor in this poller
  Early,       \* the operations a task may call on a handle before another
               \* task has added its descriptor, or after it was removed
  MaxEvents    \* kNetPollerMaxEvents

ASSUME PollerAssumption ==
  /\ MaxEvents \in Nat \ {0}
  /\ Nobody \notin Fds /\ Garbage \subseteq Fds \cup {Nobody}
  /\ Early \subseteq {"Rm", "SetIn", "SetOut", "ResetIn", "ResetOut"}
  /\ Nobody \notin [ptr : Handles, events : SUBSET {"in", "out"}]

VARIABLES
  s,           \* the descriptor a handle's socket has open, or Nobody
  hfd,         \* hndl->fd
  hevents,     \* hndl->events
  epoll,       \* the kernel's entry for a descriptor, or Nobody
  events,      \* events_[0 .. nevents_ - 1]
  index,       \* index_ + 1
  report       \* what Event returned last: handle and kind

handleVars == <<s, hfd, hevents>>
batchVars == <<events, index>>
vars == <<handleVars, epoll, batchVars, report>>

Interests == SUBSET {"in", "out"}
Entries == [ptr : Handles, events : SUBSET {"in", "out", "err"}]

TypeOK ==
  /\ s \in [Handles -> Fds \cup {Nobody}]
  /\ hfd \in [Handles -> Fds \cup {Nobody}]
  /\ hevents \in [Handles -> Interests]
  /\ epoll \in [Fds -> [ptr : Handles, events : Interests] \cup {Nobody}]
  /\ events \in Seq(Entries) /\ Len(events) <= MaxEvents
  /\ index \in 1 .. Len(events) + 1
  /\ report \in (Handles \X {"in", "out", "err"}) \cup {<<>>}

Init ==
  /\ s = [h \in Handles |-> Nobody]
  /\ hfd = [h \in Handles |-> Nobody]
  /\ hevents = [h \in Handles |-> {}]
  /\ epoll = [f \in Fds |-> Nobody]
  /\ events = <<>> /\ index = 1
  /\ report = <<>>
-----------------------------------------------------------------------------
(* epoll_ctl *)

CtlAdd(f, h) == IF epoll[f] = Nobody
                THEN [epoll EXCEPT ![f] = [ptr |-> h, events |-> {}]] ELSE epoll
CtlMod(f, h, ev) == IF f \notin Fds \/ epoll[f] = Nobody THEN epoll
                    ELSE [epoll EXCEPT ![f] = [ptr |-> h, events |-> ev]]
CtlDel(f) == IF f \notin Fds THEN epoll ELSE [epoll EXCEPT ![f] = Nobody]
-----------------------------------------------------------------------------
(* The operations. *)

Added(h) == \E f \in Fds : epoll[f] # Nobody /\ epoll[f].ptr = h

\* Nothing in the poller asks whether the handle was added: task_stop may come
\* before the task that adds it, and so may task_send of a second thread.
Called(op, h) == s[h] # Nobody /\ (Added(h) \/ op \in Early)

\* Mutant: hndl->events is left as it is.
AddUncleared(h) ==
  /\ s[h] # Nobody /\ ~Added(h)
  /\ hfd' = [hfd EXCEPT ![h] = s[h]]
  /\ epoll' = CtlAdd(s[h], h)
  /\ UNCHANGED <<s, hevents, batchVars, report>>

Add(h) ==
  /\ s[h] # Nobody /\ ~Added(h)
  /\ hfd' = [hfd EXCEPT ![h] = s[h]]
  /\ hevents' = [hevents EXCEPT ![h] = {}]
  /\ epoll' = CtlAdd(s[h], h)
  /\ UNCHANGED <<s, batchVars, report>>

\* Mutant: the entry that is next to be reported is passed over.
DropLater(h, ev) ==
  [i \in DOMAIN events |->
     IF i > index /\ events[i].ptr = h
     THEN [events[i] EXCEPT !.events = @ \ ev] ELSE events[i]]

\* The entries of h that are still to be reported lose the kinds in ev.
Drop(h, ev) ==
  [i \in DOMAIN events |->
     IF i >= index /\ events[i].ptr = h
     THEN [events[i] EXCEPT !.events = @ \ ev] ELSE events[i]]

\* Mutant: the batch is left as it is.
RmOnly(h) ==
  /\ Called("Rm", h)
  /\ epoll' = CtlDel(hfd[h])
  /\ UNCHANGED <<handleVars, batchVars, report>>

Rm(h) ==
  /\ Called("Rm", h)
  /\ epoll' = CtlDel(hfd[h])
  /\ events' = Drop(h, {"in", "out", "err"})
  /\ UNCHANGED <<handleVars, index, report>>

\* Start polling for e.
Set(h, e) ==
  /\ e \notin hevents[h]
  /\ hevents' = [hevents EXCEPT ![h] = @ \cup {e}]
  /\ epoll' = CtlMod(hfd[h], h, hevents'[h])
  /\ UNCHANGED <<s, hfd, batchVars, report>>

SetIn(h) == Called("SetIn", h) /\ Set(h, "in")
SetOut(h) == Called("SetOut", h) /\ Set(h, "out")

\* Mutant: the kernel goes on polling for e.
ResetHandle(h, e) ==
  /\ e \in hevents[h]
  /\ hevents' = [hevents EXCEPT ![h] = @ \ {e}]
  /\ events' = Drop(h, {e})
  /\ UNCHANGED <<s, hfd, epoll, index, report>>

\* Stop polling for e, also in the batch there is.
Reset(h, e) ==
  /\ e \in hevents[h]
  /\ hevents' = [hevents EXCEPT ![h] = @ \ {e}]
  /\ epoll' = CtlMod(hfd[h], h, hevents'[h])
  /\ events' = Drop(h, {e})
  /\ UNCHANGED <<s, hfd, index, report>>

ResetIn(h) == Called("ResetIn", h) /\ Reset(h, "in")
ResetOut(h) == Called("ResetOut", h) /\ Reset(h, "out")

\* What epoll_wait may say: any kind that is polled for, or an error.
Found == UNION {{[ptr |-> epoll[f].ptr, events |-> ev] :
                   ev \in (SUBSET (epoll[f].events \cup {"err"})) \ {{}}} :
                 f \in {g \in Fds : epoll[g] # Nobody}}

\* Mutant: index_ stays where it is.
WaitFromIndex ==
  /\ index = Len(events) + 1
  /\ \E n \in 1 .. MaxEvents : \E batch \in [1 .. n -> Found] :
       /\ \A i, j \in 1 .. n : batch[i].ptr = batch[j].ptr => i = j
       /\ events' = batch
  /\ UNCHANGED <<handleVars, epoll, index, report>>

\* The batch is used up: Wait, which ends with up to MaxEvents descriptors.
Wait ==
  /\ index = Len(events) + 1
  /\ \E n \in 1 .. MaxEvents : \E batch \in [1 .. n -> Found] :
       /\ \A i, j \in 1 .. n : batch[i].ptr = batch[j].ptr => i = j
       /\ events' = batch
  /\ index' = 1
  /\ UNCHANGED <<handleVars, epoll, report>>

Empty(i) == events[i].events = {}

\* Event skips entries with nothing left; i is where it comes to stop.
Skips(i) == /\ i >= index
            /\ \A j \in index .. i - 1 : Empty(j)

\* Mutant: errors are told first.
FirstError(ev) == IF "err" \in ev THEN "err" ELSE IF "in" \in ev THEN "in" ELSE "out"

\* The kind Event tells of an entry: IN, else OUT, else an error.
First(ev) == IF "in" \in ev THEN "in" ELSE IF "out" \in ev THEN "out" ELSE "err"

\* Event reports an entry of the batch.
EventFound ==
  \E i \in DOMAIN events :
    /\ Skips(i) /\ ~Empty(i)
    /\ LET e == First(events[i].events) IN
         /\ report' = <<events[i].ptr, e>>
         /\ IF e = "err"
            THEN index' = i + 1 /\ UNCHANGED events
            ELSE index' = i /\ events' = [events EXCEPT ![i].events = @ \ {e}]
    /\ UNCHANGED <<handleVars, epoll>>

\* Event finds nothing (-EAGAIN).
EventNone ==
  /\ index <= Len(events)
  /\ Skips(Len(events) + 1)
  /\ index' = Len(events) + 1
  /\ UNCHANGED <<handleVars, epoll, events, report>>

Event == EventFound \/ EventNone
-----------------------------------------------------------------------------
(* The sockets: socket() or accept4(), and close(). *)

\* The handle of a new socket is not initialised.
Open(h) ==
  /\ s[h] = Nobody
  /\ \E f \in Fds \ Range(s) : s' = [s EXCEPT ![h] = f]
  /\ \E f \in Garbage : hfd' = [hfd EXCEPT ![h] = f]
  /\ \E ev \in Interests : hevents' = [hevents EXCEPT ![h] = ev]
  /\ UNCHANGED <<epoll, batchVars, report>>

\* A descriptor is closed only when it is not in the poller.
Close(h) ==
  /\ s[h] # Nobody /\ ~Added(h)
  /\ s' = [s EXCEPT ![h] = Nobody]
  /\ UNCHANGED <<hfd, hevents, epoll, batchVars, report>>

Operation(h) ==
  \/ Open(h) \/ Add(h)
  \/ SetIn(h) \/ SetOut(h) \/ ResetIn(h) \/ ResetOut(h)
  \/ Rm(h) \/ Close(h)

Next == Wait \/ Event \/ \E h \in Handles : Operation(h)

\* The worker calls Event again after each event; handlers do not block.
Spec == Init /\ [][Next]_vars /\ WF_vars(Event)
-----------------------------------------------------------------------------
(* Properties. *)

(***************************************************************************)
(* The two copies of the interest agree: an entry in the kernel is that of *)
(* the handle whose socket has the descriptor open, with its interest.  It *)
(* must hold over reused descriptors and handles that nobody initialised.  *)
(***************************************************************************)
KernelAgrees ==
  \A f \in Fds : epoll[f] # Nobody =>
    LET h == epoll[f].ptr IN
    s[h] = f /\ hfd[h] = f /\ epoll[f].events = hevents[h]

(***************************************************************************)
(* What is left of the batch is wanted still: a descriptor has one entry,  *)
(* only descriptors in the poller have events left in theirs, and only of  *)
(* kinds they are polled for.                                              *)
(***************************************************************************)
BatchCurrent ==
  \A i \in index .. Len(events) :
    /\ ~Empty(i) => /\ Added(events[i].ptr)
                    /\ events[i].events \subseteq hevents[events[i].ptr] \cup {"err"}
    /\ \A j \in index .. Len(events) : events[j].ptr = events[i].ptr => i = j

(***************************************************************************)
(* The poller keeps its promise: whatever handlers do to the descriptors   *)
(* of the batch, Event reports what is wanted at that moment, once, errors *)
(* last, and comes to the end of the batch.                                *)
(***************************************************************************)
Promise == INSTANCE PollerPromise WITH
  interest <- [h \in Handles |-> IF Added(h) THEN hevents[h] \cup {"err"} ELSE {}],
  pending <- UNION {{events[i].ptr} \X events[i].events : i \in index .. Len(events)},
  report <- report

KeepsPromise == Promise!Spec
=============================================================================
