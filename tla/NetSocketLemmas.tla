--------------------------- MODULE NetSocketLemmas ---------------------------
(***************************************************************************)
(* Facts about the socket's state machine: where the dispatch of the       *)
(* inputs the device uses ends, and what feeding them does to a socket.    *)
(***************************************************************************)
EXTENDS NetSocketFsm, ListLemmas, WellFoundedInduction

(* The dispatch. *)

\* What is needed of the table of clauses.
LEMMA Table ==
  /\ DOMAIN Clauses = 1 .. 18
  /\ Clauses[1].state = "Idle" /\ Clauses[2].state = "Starting" /\ Clauses[3].state = "BeingAccepted"
  /\ Clauses[4].state = "Accepted" /\ Clauses[5].state = "Connecting" /\ Clauses[6].state = "Connecting"
  /\ Clauses[7].state = "Active" /\ Clauses[8].state = "Active" /\ Clauses[9].state = "RemovingFd"
  /\ Clauses[10].state = "RemovingFd" /\ Clauses[11].state = "RemovingFd" /\ Clauses[12].state = "Done"
  /\ Clauses[13].state = "Listening" /\ Clauses[14].state = "Accepting" /\ Clauses[15].state = "Accepting"
  /\ Clauses[16].state = "AcceptingError" /\ Clauses[17].state = "Cancelling" /\ Clauses[18].state = "Cancelling"
BY DEF Clauses

\* A clause takes what is meant for it if no clause of its state that is looked
\* at before it is about the source.
LEMMA DispatchOwn ==
  ASSUME NEW state \in SockStates, NEW src \in Sources, NEW type \in AnyType,
         NEW k \in DOMAIN Clauses, DOMAIN Clauses \subseteq Nat, NEW first \in Nat,
         Clauses[k].state = state, Clauses[k].src = src, type \in Clauses[k].types,
         \A j \in DOMAIN Clauses : Clauses[j].state = state => first <= j,
         \A j \in DOMAIN Clauses : first <= j /\ j < k => ~Entered(j, src)
  PROVE  Dispatch[state][src][type] = k
<1> DEFINE reached == {j \in DOMAIN Clauses :
                         /\ \E i \in Positions(state) : i <= j
                         /\ Entered(j, src)
                         /\ type \in Clauses[j].types}
<1>1. Dispatch[state][src][type] = IF reached = {} THEN 0 ELSE Min(reached)
  BY DEF Dispatch
<1>2. k \in reached
  BY DEF Positions, Entered
<1>3. \A j \in reached : k <= j
  BY DEF Positions
<1>5. reached \subseteq Nat
  OBVIOUS
<1> HIDE DEF reached
<1>4. Min(reached) = k
  BY <1>2, <1>3, <1>5 DEF Min
<1> QED
  BY <1>1, <1>2, <1>4

\* The first clause of a state takes what is meant for it.
LEMMA DispatchFirst ==
  ASSUME NEW state \in SockStates, NEW src \in Sources, NEW type \in AnyType,
         NEW k \in DOMAIN Clauses, DOMAIN Clauses \subseteq Nat,
         Clauses[k].state = state, Clauses[k].src = src, type \in Clauses[k].types,
         \A j \in DOMAIN Clauses : Clauses[j].state = state => k <= j
  PROVE  Dispatch[state][src][type] = k
BY DispatchOwn

\* The clauses of the inputs the device uses.
LEMMA Dispatched ==
  /\ Dispatch["Idle"][kNetFsmAction][kNetFsmStart] = 1
  /\ Dispatch["Starting"][kNetFsmAction][kNetSockActionListen] = 2
  /\ Dispatch["Starting"][kNetFsmAction][kNetSockActionBeingAccepted] = 2
  /\ Dispatch["Accepted"][kNetFsmAction][kNetSockActionActivate] = 4
  /\ Dispatch["Active"][kNetSockSrcFd][kNetWorkerFdIn] = 7
  /\ Dispatch["Active"][kNetSockSrcFd][kNetWorkerFdErr] = 7
  /\ Dispatch["Listening"][kNetFsmAction][kNetSockActionAccept] = 13
  /\ Dispatch["Accepting"][kNetSockSrcFd][kNetWorkerFdIn] = 15
<1>1. /\ {"Idle", "Starting", "Accepted", "Active", "Listening", "Accepting"} \subseteq SockStates
      /\ {kNetFsmAction, kNetSockSrcFd} \subseteq Sources
      /\ {kNetFsmStart, kNetSockActionListen, kNetSockActionBeingAccepted,
          kNetSockActionActivate, kNetSockActionAccept,
          kNetWorkerFdIn, kNetWorkerFdErr} \subseteq AnyType
  BY DEF SockStates, Sources, AnyType, kNetFsmAction, kNetSockSrcFd, kNetSockSrcTaskStop,
         kNetFsmStart, kNetSockActionListen, kNetSockActionBeingAccepted,
         kNetSockActionActivate, kNetSockActionAccept, kNetWorkerFdIn, kNetWorkerFdErr
<1>2. /\ \A j \in 1 .. 18 : Clauses[j].state = "Idle" => 1 <= j
      /\ \A j \in 1 .. 18 : Clauses[j].state = "Starting" => 2 <= j
      /\ \A j \in 1 .. 18 : Clauses[j].state = "Accepted" => 4 <= j
      /\ \A j \in 1 .. 18 : Clauses[j].state = "Active" => 7 <= j
      /\ \A j \in 1 .. 18 : Clauses[j].state = "Listening" => 13 <= j
  BY Table
<1>3. /\ Clauses[1].src = kNetFsmAction /\ kNetFsmStart \in Clauses[1].types
      /\ Clauses[2].src = kNetFsmAction
      /\ {kNetSockActionListen, kNetSockActionBeingAccepted} \subseteq Clauses[2].types
      /\ Clauses[4].src = kNetFsmAction /\ kNetSockActionActivate \in Clauses[4].types
      /\ Clauses[7].src = kNetSockSrcFd
      /\ {kNetWorkerFdIn, kNetWorkerFdErr} \subseteq Clauses[7].types
      /\ Clauses[13].src = kNetFsmAction /\ kNetSockActionAccept \in Clauses[13].types
  BY DEF Clauses
<1>4. /\ {1, 2, 4, 7, 13} \subseteq DOMAIN Clauses
      /\ DOMAIN Clauses = 1 .. 18 /\ DOMAIN Clauses \subseteq Nat
  BY Table
<1>5. /\ Dispatch["Idle"][kNetFsmAction][kNetFsmStart] = 1
      /\ Dispatch["Starting"][kNetFsmAction][kNetSockActionListen] = 2
      /\ Dispatch["Starting"][kNetFsmAction][kNetSockActionBeingAccepted] = 2
  BY <1>1, <1>2, <1>3, <1>4, Table, DispatchFirst
<1>6. /\ Dispatch["Accepted"][kNetFsmAction][kNetSockActionActivate] = 4
      /\ Dispatch["Active"][kNetSockSrcFd][kNetWorkerFdIn] = 7
      /\ Dispatch["Active"][kNetSockSrcFd][kNetWorkerFdErr] = 7
      /\ Dispatch["Listening"][kNetFsmAction][kNetSockActionAccept] = 13
  BY <1>1, <1>2, <1>3, <1>4, Table, DispatchFirst
<1>7. Dispatch["Accepting"][kNetSockSrcFd][kNetWorkerFdIn] = 15
  <2>1. /\ Clauses[14].src = kNetFsmAction
        /\ Clauses[15].src = kNetSockSrcFd /\ kNetWorkerFdIn \in Clauses[15].types
    BY DEF Clauses
  <2>2. \A j \in 1 .. 18 : Clauses[j].state = "Accepting" => j \in {14, 15}
    BY Table
  <2>3. ~Entered(14, kNetSockSrcFd)
    BY <1>4, <2>1, <2>2, Table
       DEF Entered, Positions, kNetFsmAction, kNetSockSrcFd, AnySrc
  <2>4. \A j \in 1 .. 18 : 14 <= j /\ j < 15 => ~Entered(j, kNetSockSrcFd)
    BY <2>3
  <2> QED
    <3>1. /\ "Accepting" \in SockStates /\ kNetSockSrcFd \in Sources /\ kNetWorkerFdIn \in AnyType
          /\ 15 \in DOMAIN Clauses /\ 14 \in Nat /\ DOMAIN Clauses \subseteq Nat
          /\ Clauses[15].state = "Accepting"
          /\ \A j \in DOMAIN Clauses : Clauses[j].state = "Accepting" => 14 <= j
          /\ \A j \in DOMAIN Clauses : 14 <= j /\ j < 15 => ~Entered(j, kNetSockSrcFd)
      BY <1>1, <1>4, <2>2, <2>4, Table
    <3> QED
      BY ONLY <2>1, <3>1, DispatchOwn
<1> QED
  BY <1>5, <1>6, <1>7
-----------------------------------------------------------------------------
(* What is foreseen. *)

\* An input that a clause of the state is meant for.
LEMMA ForeseenOwn ==
  ASSUME NEW state \in SockStates, NEW src \in Sources, NEW type \in AnyType,
         NEW k \in DOMAIN Clauses,
         Clauses[k].state = state, Clauses[k].src = src, type \in Clauses[k].types
  PROVE  <<state, src, type>> \in Foreseen
BY DEF Foreseen, Positions

\* The inputs of sockets that were started.
LEMMA ForeseenInputs ==
  /\ <<"Listening", kNetFsmAction, kNetSockActionAccept>> \in Foreseen
  /\ <<"Accepted", kNetFsmAction, kNetSockActionActivate>> \in Foreseen
  /\ <<"Active", kNetSockSrcFd, kNetWorkerFdIn>> \in Foreseen
  /\ <<"Active", kNetSockSrcFd, kNetWorkerFdErr>> \in Foreseen
  /\ <<"Accepting", kNetSockSrcFd, kNetWorkerFdIn>> \in Foreseen
<1>1. /\ {"Accepted", "Active", "Listening", "Accepting"} \subseteq SockStates
      /\ {kNetFsmAction, kNetSockSrcFd} \subseteq Sources
      /\ {kNetSockActionActivate, kNetSockActionAccept,
          kNetWorkerFdIn, kNetWorkerFdErr} \subseteq AnyType
  BY DEF SockStates, Sources, AnyType, kNetFsmAction, kNetSockSrcFd, kNetSockSrcTaskStop,
         kNetSockActionActivate, kNetSockActionAccept, kNetWorkerFdIn, kNetWorkerFdErr
<1>2. /\ Clauses[4].src = kNetFsmAction /\ kNetSockActionActivate \in Clauses[4].types
      /\ Clauses[7].src = kNetSockSrcFd
      /\ {kNetWorkerFdIn, kNetWorkerFdErr} \subseteq Clauses[7].types
      /\ Clauses[13].src = kNetFsmAction /\ kNetSockActionAccept \in Clauses[13].types
      /\ Clauses[15].src = kNetSockSrcFd /\ kNetWorkerFdIn \in Clauses[15].types
  BY DEF Clauses
<1>3. {4, 7, 13, 15} \subseteq DOMAIN Clauses
  BY Table
<1> QED
  BY <1>1, <1>2, <1>3, Table, ForeseenOwn
-----------------------------------------------------------------------------
(* What the clauses do. *)

\* The clauses that only change the state, for the inputs the device uses.
LEMMA OwnersMoves ==
  /\ MovesFrom("Idle", kNetFsmStart) = {<<"Idle", kNetFsmStart, "Starting">>}
  /\ MovesFrom("Starting", kNetSockActionListen)
       = {<<"Starting", kNetSockActionListen, "Listening">>}
  /\ MovesFrom("Starting", kNetSockActionBeingAccepted)
       = {<<"Starting", kNetSockActionBeingAccepted, "BeingAccepted">>}
  /\ MovesFrom("Listening", kNetSockActionAccept)
       = {<<"Listening", kNetSockActionAccept, "Accepting">>}
  /\ MovesFrom("Starting", kNetSockActionConnect)
       = {<<"Starting", kNetSockActionConnect, "Connecting">>}
  /\ MovesFrom("Accepted", kNetSockActionActivate) = {}
  /\ \A type : MovesFrom("Connecting", type) = {}
<1>1. ToSet(Moves) = {<<"Idle", kNetFsmStart, "Starting">>,
                      <<"Starting", kNetSockActionListen, "Listening">>,
                      <<"Starting", kNetSockActionConnect, "Connecting">>,
                      <<"Starting", kNetSockActionBeingAccepted, "BeingAccepted">>,
                      <<"Listening", kNetSockActionAccept, "Accepting">>,
                      <<"Accepting", kNetSockActionDone, "Listening">>,
                      <<"AcceptingError", kNetSockActionAccept, "Accepting">>}
  BY DEF ToSet, Moves
<1> QED
  BY <1>1 DEF MovesFrom, kNetFsmStart, kNetSockActionListen, kNetSockActionConnect,
       kNetSockActionBeingAccepted, kNetSockActionAccept, kNetSockActionDone,
       kNetSockActionActivate

InState(r, state) == [r EXCEPT !.state = state]
AsActive(r) == [r EXCEPT !.fsm = "Active"]

\* A clause that only changes the state.
LEMMA MoveEffect ==
  ASSUME NEW r, NEW k, NEW type, NEW to, NEW out, Clauses[k].src = kNetFsmAction,
         MovesFrom(Clauses[k].state, type) = {<<Clauses[k].state, type, to>>}
  PROVE  Effect(r, Clauses[k], type, out) = InState(r, to)
<1> DEFINE move == MovesFrom(Clauses[k].state, type)
<1>1. move # {} /\ (CHOOSE m \in move : TRUE) = <<Clauses[k].state, type, to>>
  OBVIOUS
<1>2. (CHOOSE m \in move : TRUE)[3] = to
  BY <1>1
<1>3. Effect(r, Clauses[k], type, out) = [r EXCEPT !.state = (CHOOSE m \in move : TRUE)[3]]
  <2> HIDE DEF move
  <2> QED
    BY <1>1 DEF Effect, move
<1> QED
  BY <1>2, <1>3 DEF InState

\* An action of the owner runs the clause it is dispatched to.
LEMMA ActionIsFed ==
  ASSUME NEW r, NEW type, NEW out, r.fsm # "Stopping",
         NEW k \in DOMAIN Clauses, DOMAIN Clauses \subseteq Nat \ {0},
         Dispatch[r.state][kNetFsmAction][type] = k
  PROVE  Feed(r, kNetFsmAction, type, out) = Effect(r, Clauses[k], type, out)
BY DEF Feed, NetSocketHandler, InternalTasks, Tasks, kNetFsmAction,
       kNetSockSrcTaskConnecting, kNetSockSrcTaskConnected, kNetSockSrcTaskAccept,
       kNetSockSrcTaskSend, kNetSockSrcTaskRecv, kNetSockSrcTaskStop

\* So does an event of the descriptor.
LEMMA FdIsFed ==
  ASSUME NEW r, NEW type, NEW out, r.fsm # "Stopping",
         NEW k \in DOMAIN Clauses, DOMAIN Clauses \subseteq Nat \ {0},
         Dispatch[r.state][kNetSockSrcFd][type] = k
  PROVE  Feed(r, kNetSockSrcFd, type, out) = Effect(r, Clauses[k], type, out)
BY DEF Feed, NetSocketHandler, InternalTasks, Tasks, kNetSockSrcFd,
       kNetSockSrcTaskConnecting, kNetSockSrcTaskConnected, kNetSockSrcTaskAccept,
       kNetSockSrcTaskSend, kNetSockSrcTaskRecv, kNetSockSrcTaskStop

\* NetFsm::Start of a socket that was just made.
LEMMA Starts ==
  ASSUME NEW r, IsIdle(r), r.state = "Idle"
  PROVE  Start(r) = AsActive(InState(r, "Starting"))
<1>1. NetSocketHandler(r, kNetFsmAction, kNetFsmStart, "")
        = Effect(r, Clauses[1], kNetFsmStart, "")
  BY Dispatched DEF NetSocketHandler
<1>2. \A out : Effect(r, Clauses[1], kNetFsmStart, out) = InState(r, "Starting")
  <2>1. Clauses[1].src = kNetFsmAction
    BY DEF Clauses
  <2>2. MovesFrom(Clauses[1].state, kNetFsmStart) = {<<Clauses[1].state, kNetFsmStart, "Starting">>}
    BY Table, OwnersMoves
  <2> QED
    BY <2>1, <2>2, MoveEffect
<1> QED
  BY <1>1, <1>2 DEF Start, InState, AsActive

\* What the owner tells a socket that was started, or that listens.
LEMMA Moved ==
  ASSUME NEW r, NEW out, r.fsm # "Stopping"
  PROVE  /\ r.state = "Starting" =>
              Feed(r, kNetFsmAction, kNetSockActionListen, out) = InState(r, "Listening")
         /\ r.state = "Starting" =>
              Feed(r, kNetFsmAction, kNetSockActionBeingAccepted, out)
                = InState(r, "BeingAccepted")
         /\ r.state = "Listening" =>
              Feed(r, kNetFsmAction, kNetSockActionAccept, out) = InState(r, "Accepting")
<1>1. Clauses[2].src = kNetFsmAction /\ Clauses[13].src = kNetFsmAction
  BY DEF Clauses
<1>2. {2, 13} \subseteq DOMAIN Clauses /\ DOMAIN Clauses \subseteq Nat \ {0}
  BY Table
<1>3. /\ Effect(r, Clauses[2], kNetSockActionListen, out) = InState(r, "Listening")
      /\ Effect(r, Clauses[2], kNetSockActionBeingAccepted, out)
           = InState(r, "BeingAccepted")
      /\ Effect(r, Clauses[13], kNetSockActionAccept, out) = InState(r, "Accepting")
  <2>1. /\ MovesFrom(Clauses[2].state, kNetSockActionListen)
             = {<<Clauses[2].state, kNetSockActionListen, "Listening">>}
        /\ MovesFrom(Clauses[2].state, kNetSockActionBeingAccepted)
             = {<<Clauses[2].state, kNetSockActionBeingAccepted, "BeingAccepted">>}
        /\ MovesFrom(Clauses[13].state, kNetSockActionAccept)
             = {<<Clauses[13].state, kNetSockActionAccept, "Accepting">>}
    BY Table, OwnersMoves
  <2> QED
    BY <1>1, <2>1, MoveEffect
<1> QED
  BY <1>2, <1>3, Dispatched, ActionIsFed

\* NetSocket::Activate.
LEMMA Activated ==
  ASSUME NEW r, NEW out, r.fsm # "Stopping", r.state = "Accepted"
  PROVE  /\ Feed(r, kNetFsmAction, kNetSockActionActivate, out)
              = InState(AddFd(r), "Active")
         /\ FeedForeseen(r, kNetFsmAction, kNetSockActionActivate)
<1>1. Clauses[4].src = kNetFsmAction /\ Clauses[4].state = "Accepted"
  BY Table DEF Clauses
<1>2. Effect(r, Clauses[4], kNetSockActionActivate, out) = InState(AddFd(r), "Active")
  BY <1>1, OwnersMoves DEF Effect, InState, kNetFsmAction, kNetSockSrcFd, kNetSockSrcTaskStop
<1>3. 4 \in DOMAIN Clauses /\ DOMAIN Clauses \subseteq Nat \ {0}
  BY Table
<1> QED
  BY <1>2, <1>3, Dispatched, ActionIsFed, ForeseenInputs DEF FeedForeseen

\* epoll reports a connection to a listener that accepts.
LEMMA Accepts ==
  ASSUME NEW r, NEW out, r.fsm # "Stopping", r.state = "Accepting"
  PROVE  /\ Feed(r, kNetSockSrcFd, kNetWorkerFdIn, out) = AcceptStep(r, out)
         /\ FeedForeseen(r, kNetSockSrcFd, kNetWorkerFdIn)
<1>1. Clauses[15].src = kNetSockSrcFd /\ Clauses[15].state = "Accepting"
  BY Table DEF Clauses
<1>2. Effect(r, Clauses[15], kNetWorkerFdIn, out) = AcceptStep(r, out)
  BY <1>1 DEF Effect, kNetFsmAction, kNetSockSrcFd, kNetSockSrcTaskStop
<1>3. 15 \in DOMAIN Clauses /\ DOMAIN Clauses \subseteq Nat \ {0}
  BY Table
<1> QED
  BY <1>2, <1>3, Dispatched, FdIsFed, ForeseenInputs DEF FeedForeseen

\* ... data or an error to an active socket.
LEMMA ActiveFd ==
  ASSUME NEW r, NEW out, r.fsm # "Stopping", r.state = "Active"
  PROVE  /\ Feed(r, kNetSockSrcFd, kNetWorkerFdIn, out) = RecvStep(r, out)
         /\ Feed(r, kNetSockSrcFd, kNetWorkerFdErr, out) = Fail(r)
         /\ FeedForeseen(r, kNetSockSrcFd, kNetWorkerFdIn)
         /\ FeedForeseen(r, kNetSockSrcFd, kNetWorkerFdErr)
<1>1. Clauses[7].src = kNetSockSrcFd /\ Clauses[7].state = "Active"
  BY Table DEF Clauses
<1>2. /\ Effect(r, Clauses[7], kNetWorkerFdIn, out) = RecvStep(r, out)
      /\ Effect(r, Clauses[7], kNetWorkerFdErr, out) = Fail(r)
  BY <1>1 DEF Effect, kNetFsmAction, kNetSockSrcFd, kNetSockSrcTaskStop,
              kNetWorkerFdIn, kNetWorkerFdOut, kNetWorkerFdErr
<1>3. 7 \in DOMAIN Clauses /\ DOMAIN Clauses \subseteq Nat \ {0}
  BY Table
<1> QED
  BY <1>2, <1>3, Dispatched, FdIsFed, ForeseenInputs DEF FeedForeseen

\* The tasks that only change what is polled for are never unforeseen.
LEMMA InternalFed ==
  ASSUME NEW r, NEW out
  PROVE  /\ Feed(r, kNetSockSrcTaskRecv, kNetWorkerTaskExecute, out) = SetIn(r)
         /\ FeedForeseen(r, kNetSockSrcTaskRecv, kNetWorkerTaskExecute)
         /\ Feed(r, kNetSockSrcTaskAccept, kNetWorkerTaskExecute, out) = SetIn(AddFd(r))
         /\ FeedForeseen(r, kNetSockSrcTaskAccept, kNetWorkerTaskExecute)
BY DEF Feed, FeedForeseen, InternalTask, InternalTasks, Tasks,
       kNetSockSrcTaskConnecting, kNetSockSrcTaskConnected, kNetSockSrcTaskAccept,
       kNetSockSrcTaskSend, kNetSockSrcTaskRecv, kNetSockSrcTaskStop
-----------------------------------------------------------------------------
(* What becomes of a socket. *)

\* Fields that few inputs change.
Kept(q, r) ==
  /\ q \in Sockets
  /\ q.fsm = r.fsm /\ q.s = r.s /\ q.raised = r.raised /\ q.failed = r.failed

\* What a change of the state leaves alone.
LEMMA InStateFields ==
  ASSUME NEW r \in Sockets, NEW state \in SockStates
  PROVE  /\ Kept(InState(r, state), r) /\ InState(r, state).state = state
         /\ InState(r, state).hevents = r.hevents /\ InState(r, state).epoll = r.epoll
         /\ InState(r, state).tasks = r.tasks
         /\ InState(r, state).events = r.events /\ InState(r, state).etype = r.etype
BY DEF Sockets, Kept, InState

\* What a change of the machine leaves alone.
LEMMA AsActiveFields ==
  ASSUME NEW r \in Sockets
  PROVE  LET q == AsActive(r) IN
         /\ q \in Sockets /\ q.state = r.state /\ q.fsm = "Active" /\ q.s = r.s
         /\ q.hevents = r.hevents /\ q.epoll = r.epoll /\ q.tasks = r.tasks
         /\ q.events = r.events /\ q.etype = r.etype
         /\ q.raised = r.raised /\ q.failed = r.failed
BY DEF Sockets, AsActive, FsmStates

\* NetPoller::Add for an open descriptor that is not in the poller.
LEMMA AddFdFields ==
  ASSUME NEW r \in Sockets, r.s # -1, r.epoll = NotAdded
  PROVE  LET q == AddFd(r) IN
         /\ Kept(q, r) /\ q.state = r.state /\ q.tasks = r.tasks
         /\ q.events = r.events /\ q.etype = r.etype
         /\ q.hevents = {} /\ q.epoll = {}
BY DEF Sockets, Kept, AddFd, Interests

\* NetPoller::SetIn when the handle says nothing is polled for.
LEMMA SetInFields ==
  ASSUME NEW r \in Sockets, r.hevents = {}, r.epoll = {}
  PROVE  LET q == SetIn(r) IN
         /\ Kept(q, r) /\ q.state = r.state /\ q.tasks = r.tasks
         /\ q.events = r.events /\ q.etype = r.etype
         /\ q.hevents = {kNetWorkerFdIn} /\ q.epoll = {kNetWorkerFdIn}
BY DEF Sockets, Kept, SetIn, Modify, Interests, NotAdded

\* NetWorker::Execute for a socket without waiting tasks.
LEMMA ExecuteFields ==
  ASSUME NEW r \in Sockets, NEW task \in Tasks, r.tasks = <<>>
  PROVE  LET q == Execute(r, task) IN
         /\ Kept(q, r) /\ q.state = r.state /\ q.tasks = <<task>>
         /\ q.events = r.events /\ q.etype = r.etype
         /\ q.hevents = r.hevents /\ q.epoll = r.epoll
<1>1. Push(<<>>, task) = <<task>> /\ <<task>> \in Seq(Tasks)
  BY DEF Push, ToSet
<1> QED
  BY <1>1 DEF Sockets, Kept, Execute

\* The worker takes the only task.
TakeTask(r) == [r EXCEPT !.tasks = Tail(@)]

\* It is taken off the list before it is executed.
LEMMA TakeTaskFields ==
  ASSUME NEW r \in Sockets, NEW task, r.tasks = <<task>>
  PROVE  LET q == TakeTask(r) IN
         /\ Kept(q, r) /\ q.state = r.state /\ q.tasks = <<>>
         /\ q.events = r.events /\ q.etype = r.etype
         /\ q.hevents = r.hevents /\ q.epoll = r.epoll
<1>1. Tail(<<task>>) = <<>> /\ <<>> \in Seq(Tasks)
  OBVIOUS
<1> QED
  BY <1>1 DEF Sockets, Kept, TakeTask

\* A handler that raised nothing.
LEMMA FlushNothing ==
  ASSUME NEW r \in Sockets, r.raised = NotRaised
  PROVE  LET q == Flush(r) IN
         /\ Kept(q, r) /\ q.state = r.state /\ q.tasks = r.tasks
         /\ q.events = r.events /\ q.etype = r.etype
         /\ q.hevents = r.hevents /\ q.epoll = r.epoll
BY DEF Sockets, Kept, Flush, Raised

\* A handler that raised the only event of the socket.
LEMMA FlushRaise ==
  ASSUME NEW r \in Sockets, r.events = <<>>, NEW e \in Events, NEW type \in EventTypes
  PROVE  LET q == Flush(Raise(r, e, type)) IN
         /\ q \in Sockets /\ q.state = r.state /\ q.fsm = r.fsm /\ q.s = r.s
         /\ q.raised = NotRaised /\ q.failed = r.failed /\ q.tasks = r.tasks
         /\ q.events = <<e>> /\ q.etype[e] = type
         /\ q.hevents = r.hevents /\ q.epoll = r.epoll
<1>1. <<e, type>> # NotRaised
  BY DEF Events, NotRaised
<1>2. Push(<<>>, e) = <<e>> /\ <<e>> \in Seq(Events)
  BY DEF Push, ToSet
<1> DEFINE p == Raise(r, e, type)
<1>3. /\ p \in Sockets /\ p.state = r.state /\ p.fsm = r.fsm /\ p.s = r.s
      /\ p.raised = <<e, type>> /\ p.failed = r.failed /\ p.tasks = r.tasks
      /\ p.events = <<>> /\ p.hevents = r.hevents /\ p.epoll = r.epoll
  BY DEF Sockets, Raise
<1> HIDE DEF p
<1> DEFINE u == Raised(p, p.raised)
<1> DEFINE et == [p.etype EXCEPT ![e] = type]
<1>7. et \in [Events -> EventTypes] /\ et[e] = type
  BY <1>3 DEF Sockets
<1>4. u = [p EXCEPT !.etype = et, !.events = <<e>>]
  <2>1. u = [p EXCEPT !.etype[e] = type, !.events = Push(p.events, e)]
    BY <1>1, <1>3, <<e, type>>[1] = e, <<e, type>>[2] = type, Zenon DEF Raised
  <2>2. Push(p.events, e) = <<e>>
    BY <1>2, <1>3
  <2> QED
    BY <1>3, <2>1, <2>2 DEF Sockets
<1> HIDE DEF et
<1>5. /\ u \in Sockets /\ u.state = p.state /\ u.fsm = p.fsm /\ u.s = p.s
      /\ u.failed = p.failed /\ u.tasks = p.tasks
      /\ u.events = <<e>> /\ u.etype[e] = type
      /\ u.hevents = p.hevents /\ u.epoll = p.epoll
  BY <1>2, <1>3, <1>4, <1>7 DEF Sockets
<1> HIDE DEF u
<1>6. Flush(p) = [u EXCEPT !.raised = NotRaised]
  BY DEF Flush, u
<1> QED
  BY <1>3, <1>5, <1>6 DEF Sockets, p
-----------------------------------------------------------------------------
(* The lists a socket's tasks and events wait in. *)

\* NetQueue::Push, whether the item is in the queue or not.
LEMMA PushElements ==
  ASSUME NEW S, NEW q \in Seq(S), NEW x \in S
  PROVE  /\ Push(q, x) \in Seq(S)
         /\ ToSet(Push(q, x)) = ToSet(q) \cup {x}
         /\ IsInjective(q) => IsInjective(Push(q, x))
BY AppendElements DEF Push
-----------------------------------------------------------------------------
(* Every operation keeps the type of the socket, and an item in a list once. *)

Tidy(r) == r \in Sockets /\ IsInjective(r.tasks) /\ IsInjective(r.events)

LEMMA TidyState ==
  ASSUME NEW r, Tidy(r), NEW state \in SockStates
  PROVE  Tidy([r EXCEPT !.state = state])
BY DEF Tidy, Sockets

LEMMA TidyFailed ==
  ASSUME NEW r, Tidy(r)
  PROVE  Tidy([r EXCEPT !.failed = TRUE])
BY DEF Tidy, Sockets

\* The operations of the poller.
LEMMA TidyPolled ==
  ASSUME NEW r, Tidy(r)
  PROVE  /\ Tidy(AddFd(r)) /\ Tidy(RmFd(r)) /\ Tidy(CloseFd(r))
         /\ Tidy(SetIn(r)) /\ Tidy(SetOut(r)) /\ Tidy(ResetOut(r))
<1>1. Tidy(AddFd(r)) /\ Tidy(RmFd(r)) /\ Tidy(CloseFd(r))
  BY DEF Tidy, Sockets, AddFd, RmFd, CloseFd, Interests
<1>2. \A interest \in Interests : Tidy(Modify(r, interest))
  BY DEF Tidy, Sockets, Modify
<1>3. /\ r.hevents \cup {kNetWorkerFdIn} \in Interests
      /\ r.hevents \cup {kNetWorkerFdOut} \in Interests
      /\ r.hevents \ {kNetWorkerFdOut} \in Interests
  BY DEF Tidy, Sockets, Interests
<1> QED
  BY <1>1, <1>2, <1>3 DEF SetIn, SetOut, ResetOut

LEMMA TidyExecute ==
  ASSUME NEW r, Tidy(r), NEW task \in Tasks
  PROVE  Tidy(Execute(r, task))
<1>1. Push(r.tasks, task) \in Seq(Tasks) /\ IsInjective(Push(r.tasks, task))
  BY PushElements DEF Tidy, Sockets
<1> QED
  BY <1>1 DEF Tidy, Sockets, Execute

LEMMA TidyRaise ==
  ASSUME NEW r, Tidy(r), NEW e \in Events, NEW type \in EventTypes
  PROVE  Tidy(Raise(r, e, type))
BY DEF Tidy, Sockets, Raise

\* What can be raised.
Raisable == (Events \X EventTypes) \cup {NotRaised}

LEMMA TidyRaised ==
  ASSUME NEW r, Tidy(r), NEW ev \in Raisable
  PROVE  Tidy(Raised(r, ev)) /\ Raised(r, ev).raised = r.raised
         /\ Raised(r, ev).failed = r.failed
<1>1. CASE ev = NotRaised
  BY <1>1 DEF Raised
<1>2. CASE ev # NotRaised
  <2> DEFINE et == [r.etype EXCEPT ![ev[1]] = ev[2]]
             es == Push(r.events, ev[1])
  <2>1. ev[1] \in Events /\ ev[2] \in EventTypes
    BY <1>2 DEF Raisable
  <2>2. et \in [Events -> EventTypes]
    BY <2>1 DEF Tidy, Sockets
  <2>3. es \in Seq(Events) /\ IsInjective(es)
    BY <2>1, PushElements DEF Tidy, Sockets
  <2>4. Raised(r, ev) = [r EXCEPT !.etype = et, !.events = es]
    BY <1>2 DEF Raised, Tidy, Sockets
  <2> HIDE DEF et, es
  <2> QED
    BY <2>2, <2>3, <2>4 DEF Tidy, Sockets
<1> QED
  BY <1>1, <1>2

LEMMA TidyFlush ==
  ASSUME NEW r, Tidy(r)
  PROVE  Tidy(Flush(r)) /\ Flush(r).raised = NotRaised
<1>1. r.raised \in Raisable
  BY DEF Tidy, Sockets, Raisable
<1>2. Tidy(Raised(r, r.raised))
  BY <1>1, TidyRaised
<1> QED
  BY <1>2 DEF Tidy, Sockets, Flush

\* The ends of a connection.
LEMMA TidyEnds ==
  ASSUME NEW r, Tidy(r)
  PROVE  Tidy(Fail(r)) /\ Tidy(Stopped(r)) /\ Tidy(AsyncStop(r))
<1>1. Tidy(Fail(r))
  <2>1. Tidy([CloseFd(RmFd(r)) EXCEPT !.state = "Done"])
    BY TidyPolled, TidyState, "Done" \in SockStates DEF SockStates
  <2> QED
    BY <2>1, TidyRaise DEF Fail, Events, EventTypes
<1>2. Tidy(Stopped(r))
  <2>1. Tidy([r EXCEPT !.state = "Idle", !.fsm = "Idle"])
    BY DEF Tidy, Sockets, SockStates, FsmStates
  <2> QED
    BY <2>1, TidyRaise DEF Stopped, Events, EventTypes
<1>3. Tidy(AsyncStop(r))
  <2>1. Tidy(Execute(r, kNetSockSrcTaskStop))
    BY TidyExecute DEF Tasks
  <2> QED
    BY <2>1, TidyRaise DEF AsyncStop, Events, EventTypes
<1> QED
  BY <1>1, <1>2, <1>3

\* What the clauses do.
LEMMA TidySteps ==
  ASSUME NEW r, Tidy(r), NEW out
  PROVE  /\ Tidy(ConnectedAtOnce(r)) /\ Tidy(ConnectedLater(r, out))
         /\ Tidy(SendStep(r, out)) /\ Tidy(RecvStep(r, out)) /\ Tidy(AcceptStep(r, out))
<1>0. /\ {"Active", "Listening", "AcceptingError"} \subseteq SockStates
      /\ {"established", "sent", "received", "error"} \subseteq Events
      /\ {"Connected", "Sent", "Received", "AcceptError"} \subseteq EventTypes
  BY DEF SockStates, Events, EventTypes
<1>1. Tidy(ConnectedAtOnce(r))
  <2>1. Tidy(Execute([r EXCEPT !.state = "Active"], kNetSockSrcTaskConnected))
    BY <1>0, TidyState, TidyExecute DEF Tasks
  <2> QED
    BY <1>0, <2>1, TidyRaise DEF ConnectedAtOnce
<1>2. Tidy(ConnectedLater(r, out))
  <2>1. Tidy([ResetOut(r) EXCEPT !.state = "Active"])
    BY <1>0, TidyState, TidyPolled
  <2> QED
    BY <1>0, <2>1, TidyRaise, TidyEnds DEF ConnectedLater
<1>3. Tidy(SendStep(r, out))
  BY <1>0, TidyRaise, TidyPolled DEF SendStep
<1>4. Tidy(RecvStep(r, out))
  BY <1>0, TidyRaise DEF RecvStep
<1>5. Tidy(AcceptStep(r, out))
  <2>1. Tidy([RmFd(r) EXCEPT !.state = "Listening"])
    BY <1>0, TidyState, TidyPolled
  <2>2. Tidy([RmFd(r) EXCEPT !.state = "AcceptingError"])
    BY <1>0, TidyState, TidyPolled
  <2>3. Tidy(Raise([RmFd(r) EXCEPT !.state = "AcceptingError"], "error", "AcceptError"))
    BY <1>0, <2>2, TidyRaise
  <2> QED
    BY <2>1, <2>3, TidyFailed DEF AcceptStep
<1> QED
  BY <1>1, <1>2, <1>3, <1>4, <1>5

\* The least element of a set of numbers is one of them.
Less == {p \in Nat \X Nat : p[1] < p[2]}

LEMMA LeastElement ==
  ASSUME NEW S, S \subseteq Nat, S # {}
  PROVE  Min(S) \in S
<1>1. IsWellFoundedOn(Less, Nat)
  BY NatLessThanWellFounded, Zenon DEF OpToRel, Less
<1>2. \E x \in S : \A y \in S : ~(<<y, x>> \in Less)
  BY <1>1, WFMin
<1>3. \E x \in S : \A y \in S : x <= y
  <2>1. \A x, y \in Nat : y < x => <<y, x>> \in Less
    BY DEF Less
  <2>2. \A x, y \in Nat : ~(y < x) => x <= y
    OBVIOUS
  <2> QED
    BY <1>2, <2>1, <2>2, Zenon
<1> QED
  BY <1>3 DEF Min

LEMMA TidyEffect ==
  ASSUME NEW r, Tidy(r), NEW k \in DOMAIN Clauses, NEW type, NEW out
  PROVE  Tidy(Effect(r, Clauses[k], type, out))
<1> DEFINE c == Clauses[k]
           move == MovesFrom(c.state, type)
           fix == (CHOOSE m \in move : TRUE)[3]
<1>1. CASE c.src = kNetFsmAction /\ move # {}
  <2>1. (CHOOSE m \in move : TRUE) \in ToSet(Moves)
    BY <1>1 DEF MovesFrom
  <2>2. \A m \in ToSet(Moves) : m[3] \in SockStates
    BY DEF ToSet, Moves, SockStates
  <2>3. Effect(r, c, type, out) = [r EXCEPT !.state = fix]
    <3> HIDE DEF c, move
    <3> QED
      BY <1>1 DEF Effect, move
  <2> QED
    BY <2>1, <2>2, <2>3, TidyState
<1>2. CASE ~(c.src = kNetFsmAction /\ move # {})
  <2>1. {"Active", "Accepted", "RemovingFd", "Cancelling", "Listening"} \subseteq SockStates
    BY DEF SockStates
  <2>2. Tidy([AddFd(r) EXCEPT !.state = "Active"])
    BY <2>1, TidyState, TidyPolled
  <2>3. Tidy(Raise([r EXCEPT !.state = "Accepted"], "established", "Accepted"))
    BY <2>1, TidyState, TidyRaise DEF Events, EventTypes
  <2>4. Tidy(AsyncStop([r EXCEPT !.state = "RemovingFd"]))
    BY <2>1, TidyState, TidyEnds
  <2>5. Tidy(Execute([r EXCEPT !.state = "Cancelling"], kNetSockSrcTaskStop))
    BY <2>1, TidyState, TidyExecute DEF Tasks
  <2>6. Tidy([RmFd(r) EXCEPT !.state = "Listening"])
    BY <2>1, TidyState, TidyPolled
  <2>7. /\ Tidy(ConnectedAtOnce(r)) /\ Tidy(ConnectedLater(r, out)) /\ Tidy(Fail(r))
        /\ Tidy(SendStep(r, out)) /\ Tidy(RecvStep(r, out)) /\ Tidy(AcceptStep(r, out))
    BY TidySteps, TidyEnds
  <2> HIDE DEF c, move
  <2>8. Tidy(Effect(r, c, type, out))
    BY <1>2, <2>2, <2>3, <2>4, <2>5, <2>6, <2>7 DEF Effect, move
  <2> QED
    BY <2>8 DEF c
<1> QED
  BY <1>1, <1>2

\* The two handlers, and the tasks both deal with first.
LEMMA TidyHandlers ==
  ASSUME NEW r, Tidy(r), NEW src \in Sources, NEW type \in AnyType, NEW out
  PROVE  /\ Tidy(NetSocketHandler(r, src, type, out))
         /\ Tidy(NetSocketShutdownHandler(r, src, type))
         /\ src \in InternalTasks => Tidy(InternalTask(r, src))
<1>1. Tidy(NetSocketHandler(r, src, type, out))
  <2> DEFINE k == Dispatch[r.state][src][type]
  <2>1. k = 0 \/ k \in DOMAIN Clauses
    <3> DEFINE reached == {j \in DOMAIN Clauses :
                             /\ \E first \in Positions(r.state) : first <= j
                             /\ Entered(j, src)
                             /\ type \in Clauses[j].types}
    <3>1. k = IF reached = {} THEN 0 ELSE Min(reached)
      BY DEF Dispatch, Tidy, Sockets
    <3>2. reached \subseteq 1 .. 18 /\ DOMAIN Clauses = 1 .. 18
      BY Table
    <3> HIDE DEF reached
    <3>3. reached # {} => Min(reached) \in reached
      BY <3>2, LeastElement, 1 .. 18 \subseteq Nat
    <3> QED
      BY <3>1, <3>2, <3>3
  <2> QED
    BY <2>1, TidyEffect DEF NetSocketHandler
<1>2. Tidy(StopRequest(r))
  <2>1. {"StoppingAccept", "Stopping"} \subseteq SockStates
    BY DEF SockStates
  <2>2. /\ Tidy([r EXCEPT !.state = "StoppingAccept"]) /\ Tidy([r EXCEPT !.state = "Stopping"])
        /\ Tidy(AsyncStop([r EXCEPT !.state = "Stopping"]))
    BY <2>1, TidyState, TidyEnds
  <2>3. Tidy(Stopped(r)) /\ Tidy(Stopped(CloseFd(r)))
    BY TidyEnds, TidyPolled
  <2> QED
    BY <2>2, <2>3, TidyFailed DEF StopRequest
<1>3. Tidy(NetSocketShutdownHandler(r, src, type))
  <2>1. Tidy(Stopped(r)) /\ Tidy(Stopped(CloseFd(RmFd(r))))
    BY TidyEnds, TidyPolled
  <2> QED
    BY <1>2, <2>1, TidyFailed DEF NetSocketShutdownHandler
<1>4. ASSUME src \in InternalTasks PROVE Tidy(InternalTask(r, src))
  <2>1. Tidy(SetOut(AddFd(r))) /\ Tidy(SetIn(AddFd(r)))
    BY TidyPolled
  <2> QED
    BY <1>4, <2>1, TidyPolled DEF InternalTask, InternalTasks, Tasks
<1> QED
  BY <1>1, <1>3, <1>4

LEMMA TidyFeed ==
  ASSUME NEW r, Tidy(r), NEW src \in Sources, NEW type \in AnyType, NEW out
  PROVE  Tidy(Feed(r, src, type, out))
BY TidyHandlers DEF Feed

LEMMA TidyStart ==
  ASSUME NEW r, Tidy(r)
  PROVE  Tidy(Start(r))
<1>1. Tidy(NetSocketHandler(r, kNetFsmAction, kNetFsmStart, ""))
  <2>1. \A out : Tidy(NetSocketHandler(r, kNetFsmAction, kNetFsmStart, out))
    BY TidyHandlers DEF Sources, AnyType, kNetFsmAction, kNetFsmStart
  <2> QED
    BY <2>1
<1>2. ASSUME NEW q, Tidy(q) PROVE Tidy([q EXCEPT !.fsm = "Active"])
  BY <1>2 DEF Tidy, Sockets, FsmStates
<1> QED
  BY <1>1, <1>2, TidyFailed DEF Start
-----------------------------------------------------------------------------
(* The inputs of an outbound socket, those that fall through included. *)

\* Control stops at a clause that takes the type, if a switch over src was
\* entered by then and no clause on the way took it.
LEMMA DispatchAt ==
  ASSUME NEW state \in SockStates, NEW src \in Sources, NEW type \in AnyType,
         NEW k \in DOMAIN Clauses, DOMAIN Clauses \subseteq Nat,
         NEW first \in DOMAIN Clauses, Clauses[first].state = state, first <= k,
         \A j \in DOMAIN Clauses : Clauses[j].state = state => first <= j,
         Entered(k, src), type \in Clauses[k].types,
         \A j \in DOMAIN Clauses : first <= j /\ j < k =>
           ~Entered(j, src) \/ type \notin Clauses[j].types
  PROVE  Dispatch[state][src][type] = k
<1> DEFINE reached == {j \in DOMAIN Clauses :
                         /\ \E i \in Positions(state) : i <= j
                         /\ Entered(j, src)
                         /\ type \in Clauses[j].types}
<1>1. Dispatch[state][src][type] = IF reached = {} THEN 0 ELSE Min(reached)
  BY DEF Dispatch
<1>2. k \in reached
  BY DEF Positions
<1>3. \A j \in reached : k <= j
  <2> SUFFICES ASSUME NEW j \in reached PROVE k <= j
    OBVIOUS
  <2>1. j \in DOMAIN Clauses /\ j \in Nat /\ k \in Nat /\ first \in Nat
    OBVIOUS
  <2>2. first <= j
    BY <2>1 DEF Positions
  <2>3. ~(j < k)
    BY <2>1, <2>2
  <2> QED
    BY <2>1, <2>3
<1>5. reached \subseteq Nat
  OBVIOUS
<1> HIDE DEF reached
<1>4. Min(reached) = k
  BY <1>2, <1>3, <1>5 DEF Min
<1> QED
  BY <1>1, <1>2, <1>4

\* Sources of the clauses an outbound socket meets.
LEMMA SourceTable ==
  /\ \A k \in {1, 2, 3, 4, 5, 8} : Clauses[k].src = kNetFsmAction
  /\ Clauses[6].src = kNetSockSrcFd /\ Clauses[7].src = kNetSockSrcFd
  /\ Clauses[9].src = kNetSockSrcTaskStop /\ Clauses[12].src = AnySrc
BY DEF Clauses

LEMMA DispatchedOutbound ==
  /\ Dispatch["Idle"][kNetFsmAction][kNetSockActionConnect] = 2
  /\ Dispatch["Starting"][kNetFsmAction][kNetSockActionConnect] = 2
  /\ Dispatch["Connecting"][kNetFsmAction][kNetSockActionDone] = 5
  /\ Dispatch["Connecting"][kNetFsmAction][kNetSockActionError] = 5
  /\ Dispatch["Connecting"][kNetSockSrcFd][kNetWorkerFdOut] = 6
  /\ Dispatch["Connecting"][kNetSockSrcFd][kNetWorkerFdErr] = 6
  /\ Dispatch["Active"][kNetSockSrcFd][kNetWorkerFdOut] = 7
  /\ \A state \in {"Idle", "Starting", "Connecting", "Active"} :
       Dispatch[state][kNetSockSrcTaskStop][kNetWorkerTaskExecute] = 9
  /\ \A src \in Sources, type \in AnyType : Dispatch["Done"][src][type] = 12
<1>1. /\ {"Idle", "Starting", "Connecting", "Active", "Done"} \subseteq SockStates
      /\ {kNetFsmAction, kNetSockSrcFd, kNetSockSrcTaskStop} \subseteq Sources
      /\ {kNetSockActionConnect, kNetSockActionDone, kNetSockActionError,
          kNetWorkerFdOut, kNetWorkerFdErr, kNetWorkerTaskExecute} \subseteq AnyType
  BY DEF SockStates, Sources, AnyType, kNetFsmAction, kNetSockSrcFd, kNetSockSrcTaskStop,
         kNetSockActionConnect, kNetSockActionDone, kNetSockActionError,
         kNetWorkerFdOut, kNetWorkerFdErr, kNetWorkerTaskExecute
<1>2. /\ \A j \in 1 .. 18 : Clauses[j].state = "Idle" => 1 <= j
      /\ \A j \in 1 .. 18 : Clauses[j].state = "Starting" => 2 <= j
      /\ \A j \in 1 .. 18 : Clauses[j].state = "Connecting" => 5 <= j
      /\ \A j \in 1 .. 18 : Clauses[j].state = "Active" => 7 <= j
      /\ \A j \in 1 .. 18 : Clauses[j].state = "Done" => 12 <= j
  BY Table
<1>3. /\ kNetSockActionConnect \notin Clauses[1].types /\ kNetSockActionConnect \in Clauses[2].types
      /\ {kNetSockActionDone, kNetSockActionError} \subseteq Clauses[5].types
      /\ {kNetWorkerFdOut, kNetWorkerFdErr} \subseteq Clauses[6].types
      /\ kNetWorkerFdOut \in Clauses[7].types
      /\ kNetWorkerTaskExecute \in Clauses[9].types /\ Clauses[12].types = AnyType
  BY DEF Clauses, kNetSockActionConnect, kNetFsmStart
<1>4. /\ {1, 2, 5, 6, 7, 9, 12} \subseteq DOMAIN Clauses
      /\ DOMAIN Clauses = 1 .. 18 /\ DOMAIN Clauses \subseteq Nat
  BY Table
<1>5. /\ Dispatch["Starting"][kNetFsmAction][kNetSockActionConnect] = 2
      /\ Dispatch["Connecting"][kNetFsmAction][kNetSockActionDone] = 5
      /\ Dispatch["Connecting"][kNetFsmAction][kNetSockActionError] = 5
      /\ Dispatch["Active"][kNetSockSrcFd][kNetWorkerFdOut] = 7
  BY <1>1, <1>2, <1>3, <1>4, Table, SourceTable, DispatchFirst
<1>6. Dispatch["Idle"][kNetFsmAction][kNetSockActionConnect] = 2
  <2>1. Entered(2, kNetFsmAction)
    BY <1>4, Table, SourceTable DEF Entered, Positions
  <2>2. /\ "Idle" \in SockStates /\ kNetFsmAction \in Sources /\ kNetSockActionConnect \in AnyType
        /\ 2 \in DOMAIN Clauses /\ 1 \in DOMAIN Clauses /\ Clauses[1].state = "Idle" /\ 1 <= 2
        /\ DOMAIN Clauses \subseteq Nat
        /\ \A j \in DOMAIN Clauses : Clauses[j].state = "Idle" => 1 <= j
        /\ kNetSockActionConnect \in Clauses[2].types
        /\ \A j \in DOMAIN Clauses : 1 <= j /\ j < 2 =>
             ~Entered(j, kNetFsmAction) \/ kNetSockActionConnect \notin Clauses[j].types
    <3>1. \A j \in DOMAIN Clauses : 1 <= j /\ j < 2 => j = 1
      BY <1>4
    <3> QED
      BY <1>1, <1>2, <1>3, <1>4, <3>1, Table
  <2> QED
    BY ONLY <2>1, <2>2, DispatchAt
<1>7. \A type \in {kNetWorkerFdOut, kNetWorkerFdErr} :
        Dispatch["Connecting"][kNetSockSrcFd][type] = 6
  <2> SUFFICES ASSUME NEW type \in {kNetWorkerFdOut, kNetWorkerFdErr}
               PROVE  Dispatch["Connecting"][kNetSockSrcFd][type] = 6
    OBVIOUS
  <2>1. ~Entered(5, kNetSockSrcFd)
    <3>1. \A j \in 1 .. 18 : Clauses[j].state = "Connecting" /\ j <= 5 => j = 5
      BY <1>2
    <3> QED
      BY <1>4, <3>1, Table, SourceTable
         DEF Entered, Positions, kNetFsmAction, kNetSockSrcFd, AnySrc
  <2>2. \A j \in DOMAIN Clauses : 5 <= j /\ j < 6 => ~Entered(j, kNetSockSrcFd)
    <3>1. \A j \in DOMAIN Clauses : 5 <= j /\ j < 6 => j = 5
      BY <1>4
    <3> QED
      BY <2>1, <3>1
  <2>3. /\ "Connecting" \in SockStates /\ kNetSockSrcFd \in Sources /\ type \in AnyType
        /\ 6 \in DOMAIN Clauses /\ 5 \in Nat /\ DOMAIN Clauses \subseteq Nat
        /\ Clauses[6].state = "Connecting" /\ Clauses[6].src = kNetSockSrcFd
        /\ type \in Clauses[6].types
        /\ \A j \in DOMAIN Clauses : Clauses[j].state = "Connecting" => 5 <= j
    BY <1>1, <1>2, <1>3, <1>4, Table, SourceTable
  <2> QED
    BY ONLY <2>2, <2>3, DispatchOwn
<1>8. \A state \in {"Idle", "Starting", "Connecting", "Active"} :
        Dispatch[state][kNetSockSrcTaskStop][kNetWorkerTaskExecute] = 9
  <2>1. Entered(9, kNetSockSrcTaskStop)
    BY <1>4, Table, SourceTable DEF Entered, Positions
  <2>2. \A j \in DOMAIN Clauses : j < 9 => ~Entered(j, kNetSockSrcTaskStop)
    <3>1. \A j \in DOMAIN Clauses : j < 9 => Clauses[j].src \notin {kNetSockSrcTaskStop, AnySrc}
      <4>1. \A j \in DOMAIN Clauses : j < 9 => j \in {1, 2, 3, 4, 5, 8} \/ j = 6 \/ j = 7
        BY <1>4
      <4> QED
        BY <4>1, SourceTable DEF kNetFsmAction, kNetSockSrcFd, kNetSockSrcTaskStop, AnySrc
    <3> SUFFICES ASSUME NEW j \in DOMAIN Clauses, j < 9, Entered(j, kNetSockSrcTaskStop)
                 PROVE  FALSE
      OBVIOUS
    <3>2. PICK i \in DOMAIN Clauses : i <= j /\ Clauses[i].src \in {kNetSockSrcTaskStop, AnySrc}
      BY DEF Entered, Positions
    <3>3. i < 9
      BY <1>4, <3>2
    <3> QED
      BY <3>1, <3>2, <3>3
  <2>3. \A state \in SockStates, first \in DOMAIN Clauses :
          /\ Clauses[first].state = state /\ first <= 9
          /\ \A j \in DOMAIN Clauses : Clauses[j].state = state => first <= j
          => Dispatch[state][kNetSockSrcTaskStop][kNetWorkerTaskExecute] = 9
    <3> SUFFICES ASSUME NEW state \in SockStates, NEW first \in DOMAIN Clauses,
                        Clauses[first].state = state, first <= 9,
                        \A j \in DOMAIN Clauses : Clauses[j].state = state => first <= j
                 PROVE  Dispatch[state][kNetSockSrcTaskStop][kNetWorkerTaskExecute] = 9
      OBVIOUS
    <3>1. /\ kNetSockSrcTaskStop \in Sources /\ kNetWorkerTaskExecute \in AnyType
          /\ 9 \in DOMAIN Clauses /\ DOMAIN Clauses \subseteq Nat
          /\ kNetWorkerTaskExecute \in Clauses[9].types
          /\ \A j \in DOMAIN Clauses : first <= j /\ j < 9 =>
               ~Entered(j, kNetSockSrcTaskStop) \/ kNetWorkerTaskExecute \notin Clauses[j].types
      BY <1>1, <1>3, <1>4, <2>2
    <3> QED
      BY <2>1, <3>1, DispatchAt
  <2>4. /\ Clauses[1].state = "Idle" /\ Clauses[2].state = "Starting"
        /\ Clauses[5].state = "Connecting" /\ Clauses[7].state = "Active"
    BY Table
  <2> QED
    BY <1>1, <1>2, <1>4, <2>3, <2>4
<1>9. \A src \in Sources, type \in AnyType : Dispatch["Done"][src][type] = 12
  <2> SUFFICES ASSUME NEW src \in Sources, NEW type \in AnyType
               PROVE  Dispatch["Done"][src][type] = 12
    OBVIOUS
  <2>1. Entered(12, src)
    BY <1>4, Table, SourceTable DEF Entered, Positions
  <2>2. /\ "Done" \in SockStates /\ 12 \in DOMAIN Clauses /\ Clauses[12].state = "Done"
        /\ DOMAIN Clauses \subseteq Nat
        /\ \A j \in DOMAIN Clauses : Clauses[j].state = "Done" => 12 <= j
        /\ type \in Clauses[12].types
        /\ 12 <= 12
        /\ \A j \in DOMAIN Clauses : ~(12 <= j /\ j < 12)
    BY <1>1, <1>2, <1>3, <1>4, Table
  <2> QED
    BY ONLY <2>1, <2>2, DispatchAt, src \in Sources, type \in AnyType
<1> QED
  BY <1>5, <1>6, <1>7, <1>8, <1>9

\* The owner has the socket connect; a socket that is done does nothing.
LEMMA ConnectFed ==
  ASSUME NEW r, NEW out, r.fsm # "Stopping"
  PROVE  /\ r.state \in {"Idle", "Starting"} =>
              Feed(r, kNetFsmAction, kNetSockActionConnect, out) = InState(r, "Connecting")
         /\ r.state = "Starting" => FeedForeseen(r, kNetFsmAction, kNetSockActionConnect)
         /\ r.state = "Done" => \A type \in AnyType : Feed(r, kNetFsmAction, type, out) = r
<1>1. {2, 12} \subseteq DOMAIN Clauses /\ DOMAIN Clauses \subseteq Nat \ {0}
  BY Table
<1>2. Effect(r, Clauses[2], kNetSockActionConnect, out) = InState(r, "Connecting")
  <2>1. Clauses[2].src = kNetFsmAction
    BY SourceTable
  <2>2. MovesFrom(Clauses[2].state, kNetSockActionConnect)
          = {<<Clauses[2].state, kNetSockActionConnect, "Connecting">>}
    BY Table, OwnersMoves
  <2> QED
    BY <2>1, <2>2, MoveEffect
<1>3. \A type \in AnyType : Effect(r, Clauses[12], type, out) = r
  BY SourceTable DEF Effect, AnySrc, kNetFsmAction, kNetSockSrcFd, kNetSockSrcTaskStop
<1>4. kNetFsmAction \in Sources
  BY DEF Sources
<1>5. <<"Starting", kNetFsmAction, kNetSockActionConnect>> \in Foreseen
  <2>1. /\ "Starting" \in SockStates /\ kNetSockActionConnect \in AnyType
        /\ Clauses[2].src = kNetFsmAction /\ kNetSockActionConnect \in Clauses[2].types
    BY DEF SockStates, AnyType, kNetSockActionConnect, Clauses
  <2> QED
    BY <1>1, <1>4, <2>1, Table, ForeseenOwn
<1> QED
  BY <1>1, <1>2, <1>3, <1>4, <1>5, DispatchedOutbound, ActionIsFed DEF FeedForeseen

\* connect() succeeds at once or fails.
LEMMA DialFed ==
  ASSUME NEW r, NEW out, r.fsm # "Stopping", r.state = "Connecting"
  PROVE  /\ Feed(r, kNetFsmAction, kNetSockActionDone, out) = ConnectedAtOnce(r)
         /\ Feed(r, kNetFsmAction, kNetSockActionError, out) = Fail(r)
         /\ FeedForeseen(r, kNetFsmAction, kNetSockActionDone)
<1>1. 5 \in DOMAIN Clauses /\ DOMAIN Clauses \subseteq Nat \ {0}
  BY Table
<1>2. Clauses[5].src = kNetFsmAction /\ Clauses[5].state = "Connecting"
  BY Table, SourceTable
<1>3. /\ Effect(r, Clauses[5], kNetSockActionDone, out) = ConnectedAtOnce(r)
      /\ Effect(r, Clauses[5], kNetSockActionError, out) = Fail(r)
  BY <1>2, OwnersMoves DEF Effect, kNetFsmAction, kNetSockSrcFd, kNetSockSrcTaskStop,
                           kNetSockActionDone, kNetSockActionError
<1>4. <<"Connecting", kNetFsmAction, kNetSockActionDone>> \in Foreseen
  <2>1. /\ "Connecting" \in SockStates /\ kNetFsmAction \in Sources
        /\ kNetSockActionDone \in AnyType /\ kNetSockActionDone \in Clauses[5].types
    BY DEF SockStates, Sources, AnyType, kNetSockActionDone, Clauses
  <2> QED
    BY <1>1, <1>2, <2>1, ForeseenOwn
<1> QED
  BY <1>1, <1>3, <1>4, DispatchedOutbound, ActionIsFed DEF FeedForeseen

\* epoll reports the descriptor of a connection writable, or broken.
LEMMA OutFed ==
  ASSUME NEW r, NEW out, r.fsm # "Stopping"
  PROVE  /\ r.state = "Connecting" =>
              /\ Feed(r, kNetSockSrcFd, kNetWorkerFdOut, out) = ConnectedLater(r, out)
              /\ Feed(r, kNetSockSrcFd, kNetWorkerFdErr, out) = Fail(r)
              /\ FeedForeseen(r, kNetSockSrcFd, kNetWorkerFdOut)
         /\ r.state = "Active" =>
              /\ Feed(r, kNetSockSrcFd, kNetWorkerFdOut, out) = SendStep(r, out)
              /\ FeedForeseen(r, kNetSockSrcFd, kNetWorkerFdOut)
<1>1. {6, 7} \subseteq DOMAIN Clauses /\ DOMAIN Clauses \subseteq Nat \ {0}
  BY Table
<1>2. /\ Clauses[6].src = kNetSockSrcFd /\ Clauses[6].state = "Connecting"
      /\ Clauses[7].src = kNetSockSrcFd /\ Clauses[7].state = "Active"
  BY Table, SourceTable
<1>3. /\ Effect(r, Clauses[6], kNetWorkerFdOut, out) = ConnectedLater(r, out)
      /\ Effect(r, Clauses[6], kNetWorkerFdErr, out) = Fail(r)
      /\ Effect(r, Clauses[7], kNetWorkerFdOut, out) = SendStep(r, out)
  BY <1>2 DEF Effect, kNetFsmAction, kNetSockSrcFd, kNetSockSrcTaskStop,
              kNetWorkerFdIn, kNetWorkerFdOut, kNetWorkerFdErr
<1>4. /\ <<"Connecting", kNetSockSrcFd, kNetWorkerFdOut>> \in Foreseen
      /\ <<"Active", kNetSockSrcFd, kNetWorkerFdOut>> \in Foreseen
  <2>1. /\ {"Connecting", "Active"} \subseteq SockStates /\ kNetSockSrcFd \in Sources
        /\ kNetWorkerFdOut \in AnyType
        /\ kNetWorkerFdOut \in Clauses[6].types /\ kNetWorkerFdOut \in Clauses[7].types
    BY DEF SockStates, Sources, AnyType, kNetSockSrcFd, kNetSockSrcTaskStop,
           kNetWorkerFdOut, Clauses
  <2> QED
    BY <1>1, <1>2, <2>1, ForeseenOwn
<1> QED
  BY <1>1, <1>3, <1>4, DispatchedOutbound, FdIsFed DEF FeedForeseen

\* task_stop closes a socket in any of these states: RemovingFd's clause is
\* the next one that is about the task.
LEMMA StopFed ==
  ASSUME NEW r, NEW out, r.fsm # "Stopping"
  PROVE  /\ r.state \in {"Idle", "Starting", "Connecting", "Active"} =>
              Feed(r, kNetSockSrcTaskStop, kNetWorkerTaskExecute, out) = Fail(r)
         /\ r.state = "Done" =>
              Feed(r, kNetSockSrcTaskStop, kNetWorkerTaskExecute, out) = r
<1>1. {9, 12} \subseteq DOMAIN Clauses /\ DOMAIN Clauses \subseteq Nat \ {0}
  BY Table
<1>2. /\ Clauses[9].src = kNetSockSrcTaskStop /\ Clauses[9].state = "RemovingFd"
      /\ Clauses[12].src = AnySrc
  BY Table, SourceTable
<1>3. /\ Effect(r, Clauses[9], kNetWorkerTaskExecute, out) = Fail(r)
      /\ Effect(r, Clauses[12], kNetWorkerTaskExecute, out) = r
  BY <1>2 DEF Effect, AnySrc, kNetFsmAction, kNetSockSrcFd, kNetSockSrcTaskStop
<1>4. kNetSockSrcTaskStop \in Sources /\ kNetWorkerTaskExecute \in AnyType
  BY DEF Sources, AnyType, kNetWorkerTaskExecute, kNetSockSrcFd, kNetSockSrcTaskStop
<1>5. Feed(r, kNetSockSrcTaskStop, kNetWorkerTaskExecute, out)
        = NetSocketHandler(r, kNetSockSrcTaskStop, kNetWorkerTaskExecute, out)
  BY DEF Feed, InternalTasks
<1> QED
  BY <1>1, <1>3, <1>4, <1>5, DispatchedOutbound DEF NetSocketHandler

\* The other tasks of a connection only change what is polled for.
LEMMA TasksFed ==
  ASSUME NEW r, NEW out
  PROVE  /\ Feed(r, kNetSockSrcTaskSend, kNetWorkerTaskExecute, out) = SetOut(r)
         /\ Feed(r, kNetSockSrcTaskConnected, kNetWorkerTaskExecute, out) = AddFd(r)
         /\ Feed(r, kNetSockSrcTaskConnecting, kNetWorkerTaskExecute, out) = SetOut(AddFd(r))
         /\ \A src \in InternalTasks : \A type : FeedForeseen(r, src, type)
<1>1. {kNetSockSrcTaskSend, kNetSockSrcTaskConnected, kNetSockSrcTaskConnecting}
        \subseteq InternalTasks
  BY DEF InternalTasks, Tasks, kNetSockSrcTaskStop, kNetSockSrcTaskSend,
         kNetSockSrcTaskConnected, kNetSockSrcTaskConnecting
<1>2. /\ InternalTask(r, kNetSockSrcTaskSend) = SetOut(r)
      /\ InternalTask(r, kNetSockSrcTaskConnected) = AddFd(r)
      /\ InternalTask(r, kNetSockSrcTaskConnecting) = SetOut(AddFd(r))
  BY DEF InternalTask, kNetSockSrcTaskConnecting, kNetSockSrcTaskConnected,
         kNetSockSrcTaskAccept, kNetSockSrcTaskSend, kNetSockSrcTaskRecv
<1> QED
  BY <1>1, <1>2 DEF Feed, FeedForeseen

\* NetFsm::Start of a socket that was stopped before it was started.
LEMMA StartFed ==
  ASSUME NEW r, IsIdle(r)
  PROVE  /\ r.state = "Idle" => Start(r) = AsActive(InState(r, "Starting"))
         /\ r.state = "Done" => Start(r) = AsActive(r)
<1>1. ASSUME r.state = "Done"
      PROVE  NetSocketHandler(r, kNetFsmAction, kNetFsmStart, "") = r
  <2>1. \A type, out : Effect(r, Clauses[12], type, out) = r
    BY SourceTable DEF Effect, AnySrc, kNetFsmAction, kNetSockSrcFd, kNetSockSrcTaskStop
  <2>2. kNetFsmAction \in Sources /\ kNetFsmStart \in AnyType
    BY DEF Sources, AnyType, kNetFsmStart
  <2> QED
    BY <1>1, <2>1, <2>2, DispatchedOutbound DEF NetSocketHandler
<1> QED
  BY <1>1, Starts DEF Start, AsActive
-----------------------------------------------------------------------------
(* What these inputs make of an outbound socket. *)

\* The connection is as it was, and the tasks.
SameConn(q, r) ==
  /\ q.state = r.state /\ q.fsm = r.fsm /\ q.s = r.s
  /\ q.hevents = r.hevents /\ q.epoll = r.epoll /\ q.tasks = r.tasks

\* The events are as they were.
SameEvents(q, r) == q.events = r.events /\ q.etype = r.etype /\ q.failed = r.failed

\* An event is queued, or was and is overwritten.
LEMMA RaisedFields ==
  ASSUME NEW r, Tidy(r), NEW ev \in Raisable
  PROVE  LET q == Raised(r, ev) IN
         /\ SameConn(q, r) /\ q.failed = r.failed /\ q.raised = r.raised
         /\ ev = NotRaised => SameEvents(q, r)
         /\ ev # NotRaised =>
              /\ ToSet(q.events) = ToSet(r.events) \cup {ev[1]}
              /\ q.etype[ev[1]] = ev[2]
              /\ \A e \in Events \ {ev[1]} : q.etype[e] = r.etype[e]
<1>1. CASE ev = NotRaised
  BY <1>1 DEF Raised, SameConn, SameEvents
<1>2. CASE ev # NotRaised
  <2> DEFINE et == [r.etype EXCEPT ![ev[1]] = ev[2]]
             es == Push(r.events, ev[1])
  <2>1. ev[1] \in Events /\ ev[2] \in EventTypes
    BY <1>2 DEF Raisable
  <2>2. /\ et[ev[1]] = ev[2] /\ \A e \in Events \ {ev[1]} : et[e] = r.etype[e]
        /\ et \in [Events -> EventTypes]
    BY <2>1 DEF Tidy, Sockets
  <2>3. ToSet(es) = ToSet(r.events) \cup {ev[1]} /\ es \in Seq(Events)
    BY <2>1, PushElements DEF Tidy, Sockets
  <2>4. Raised(r, ev) = [r EXCEPT !.etype = et, !.events = es]
    BY <1>2 DEF Raised, Tidy, Sockets
  <2> HIDE DEF et, es
  <2>5. LET q == [r EXCEPT !.etype = et, !.events = es] IN
        /\ SameConn(q, r) /\ q.failed = r.failed /\ q.raised = r.raised
        /\ q.events = es /\ q.etype = et
    BY DEF Tidy, Sockets, SameConn
  <2> QED
    BY <1>2, <2>2, <2>3, <2>4, <2>5
<1> QED
  BY <1>1, <1>2

\* What is queued when the handler has run.
LEMMA FlushFields ==
  ASSUME NEW r, Tidy(r)
  PROVE  LET q == Flush(r)
             ev == r.raised
         IN
         /\ SameConn(q, r) /\ q.failed = r.failed
         /\ ev = NotRaised => SameEvents(q, r)
         /\ ev # NotRaised =>
              /\ ToSet(q.events) = ToSet(r.events) \cup {ev[1]}
              /\ q.etype[ev[1]] = ev[2]
              /\ \A e \in Events \ {ev[1]} : q.etype[e] = r.etype[e]
<1> DEFINE u == Raised(r, r.raised)
<1>1. r.raised \in Raisable
  BY DEF Tidy, Sockets, Raisable
<1>2. Tidy(u)
  BY <1>1, TidyRaised
<1>3. /\ SameConn(u, r) /\ u.failed = r.failed
      /\ r.raised = NotRaised => SameEvents(u, r)
      /\ r.raised # NotRaised =>
           /\ ToSet(u.events) = ToSet(r.events) \cup {r.raised[1]}
           /\ u.etype[r.raised[1]] = r.raised[2]
           /\ \A e \in Events \ {r.raised[1]} : u.etype[e] = r.etype[e]
  BY <1>1, RaisedFields
<1>4. Flush(r) = [u EXCEPT !.raised = NotRaised]
  BY DEF Flush
<1> HIDE DEF u
<1>5. SameConn(Flush(r), u) /\ SameEvents(Flush(r), u)
  BY <1>2, <1>4 DEF Tidy, Sockets, SameConn, SameEvents
<1> QED
  BY <1>3, <1>5 DEF SameConn, SameEvents

LEMMA FailFields ==
  ASSUME NEW r, Tidy(r)
  PROVE  LET q == Fail(r) IN
         /\ q.state = "Done" /\ q.s = -1 /\ q.epoll = NotAdded
         /\ q.fsm = r.fsm /\ q.tasks = r.tasks /\ SameEvents(q, r)
         /\ q.raised = <<"error", "Error">>
BY DEF Tidy, Sockets, Fail, Raise, CloseFd, RmFd, SameEvents

LEMMA AtOnceFields ==
  ASSUME NEW r, Tidy(r)
  PROVE  LET q == ConnectedAtOnce(r) IN
         /\ q.state = "Active" /\ q.s = r.s /\ q.fsm = r.fsm
         /\ q.hevents = r.hevents /\ q.epoll = r.epoll
         /\ q.tasks = Push(r.tasks, kNetSockSrcTaskConnected) /\ SameEvents(q, r)
         /\ q.raised = <<"established", "Connected">>
BY DEF Tidy, Sockets, ConnectedAtOnce, Execute, Raise, SameEvents

\* NetPoller keeps what the handle says about a registered descriptor true.
LEMMA ModifyFields ==
  ASSUME NEW r, Tidy(r), NEW interest \in Interests
  PROVE  LET q == Modify(r, interest) IN
         /\ q.state = r.state /\ q.s = r.s /\ q.fsm = r.fsm /\ q.tasks = r.tasks
         /\ SameEvents(q, r) /\ q.raised = r.raised
         /\ q.hevents = interest
         /\ r.epoll = NotAdded => q.epoll = NotAdded
         /\ r.epoll # NotAdded /\ r.epoll = r.hevents =>
              q.epoll = interest /\ q.epoll # NotAdded
<1>1. interest # NotAdded
  BY DEF Interests, NotAdded, kNetWorkerFdIn, kNetWorkerFdOut
<1> QED
  BY <1>1 DEF Tidy, Sockets, Modify, SameEvents

LEMMA OutFields ==
  ASSUME NEW r, Tidy(r)
  PROVE  /\ LET q == SetOut(r) IN
            /\ q.state = r.state /\ q.s = r.s /\ q.fsm = r.fsm /\ q.tasks = r.tasks
            /\ SameEvents(q, r) /\ q.raised = r.raised
            /\ r.epoll = NotAdded => q.epoll = NotAdded
            /\ r.epoll # NotAdded /\ r.epoll = r.hevents =>
                 q.epoll = q.hevents /\ q.epoll # NotAdded /\ kNetWorkerFdOut \in q.epoll
         /\ LET q == ResetOut(r) IN
            /\ q.state = r.state /\ q.s = r.s /\ q.fsm = r.fsm /\ q.tasks = r.tasks
            /\ SameEvents(q, r) /\ q.raised = r.raised
            /\ r.epoll = NotAdded => q.epoll = NotAdded
            /\ r.epoll # NotAdded /\ r.epoll = r.hevents =>
                 q.epoll = q.hevents /\ q.epoll # NotAdded
<1>1. /\ r.hevents \cup {kNetWorkerFdOut} \in Interests
      /\ r.hevents \ {kNetWorkerFdOut} \in Interests
  BY DEF Tidy, Sockets, Interests
<1>2. kNetWorkerFdOut \in r.hevents \cup {kNetWorkerFdOut}
  OBVIOUS
<1> QED
  BY <1>1, <1>2, ModifyFields DEF SetOut, ResetOut

LEMMA AddFields ==
  ASSUME NEW r, Tidy(r)
  PROVE  LET q == AddFd(r) IN
         /\ q.state = r.state /\ q.s = r.s /\ q.fsm = r.fsm /\ q.tasks = r.tasks
         /\ SameEvents(q, r) /\ q.raised = r.raised
         /\ r.s = -1 => q.epoll = NotAdded
         /\ r.s # -1 /\ r.epoll = NotAdded =>
              q.epoll = q.hevents /\ q.epoll # NotAdded
<1>1. {} # NotAdded
  BY DEF NotAdded
<1> QED
  BY <1>1 DEF Tidy, Sockets, AddFd, SameEvents

LEMMA LaterFields ==
  ASSUME NEW r, Tidy(r), NEW out
  PROVE  LET q == ConnectedLater(r, out) IN
         \/ /\ out = "ok"
            /\ q.state = "Active" /\ q.s = r.s /\ q.fsm = r.fsm /\ q.tasks = r.tasks
            /\ SameEvents(q, r) /\ q.raised = <<"established", "Connected">>
            /\ r.epoll # NotAdded /\ r.epoll = r.hevents =>
                 q.epoll = q.hevents /\ q.epoll # NotAdded
         \/ /\ out # "ok"
            /\ q.state = "Done" /\ q.s = -1 /\ q.epoll = NotAdded
            /\ q.fsm = r.fsm /\ q.tasks = r.tasks /\ SameEvents(q, r)
            /\ q.raised = <<"error", "Error">>
<1> DEFINE a == [ResetOut(r) EXCEPT !.state = "Active"]
<1>1. Tidy(a)
  BY TidyPolled, TidyState, "Active" \in SockStates DEF SockStates
<1>2. /\ a.state = "Active" /\ a.s = r.s /\ a.fsm = r.fsm /\ a.tasks = r.tasks
      /\ SameEvents(a, r)
      /\ r.epoll # NotAdded /\ r.epoll = r.hevents =>
           a.epoll = a.hevents /\ a.epoll # NotAdded
  <2>1. Tidy(ResetOut(r))
    BY TidyPolled
  <2> QED
    BY <2>1, OutFields DEF Tidy, Sockets, SameEvents
<1>3. ConnectedLater(r, out) = IF out = "ok" THEN Raise(a, "established", "Connected") ELSE Fail(a)
  BY DEF ConnectedLater
<1> HIDE DEF a
<1>4. LET q == Raise(a, "established", "Connected") IN
      /\ SameConn(q, a) /\ SameEvents(q, a) /\ q.raised = <<"established", "Connected">>
  BY <1>1 DEF Tidy, Sockets, Raise, SameConn, SameEvents
<1> QED
  BY <1>1, <1>2, <1>3, <1>4, FailFields DEF SameConn, SameEvents

LEMMA SendFields ==
  ASSUME NEW r, Tidy(r), NEW out
  PROVE  LET q == SendStep(r, out) IN
         /\ out = "empty" => q = ResetOut(r)
         /\ out = "sent" => SameConn(q, r) /\ SameEvents(q, r) /\ q.raised = <<"sent", "Sent">>
         /\ out \notin {"empty", "sent"} => q = r
BY DEF SendStep, Tidy, Sockets, Raise, SameConn, SameEvents

LEMMA PoppedFields ==
  ASSUME NEW r, Tidy(r), r.tasks # <<>>
  PROVE  LET q == TakeTask(r) IN
         /\ Head(r.tasks) \in ToSet(r.tasks)
         /\ q.tasks = Tail(r.tasks) /\ ToSet(q.tasks) = ToSet(r.tasks) \ {Head(r.tasks)}
         /\ q.state = r.state /\ q.fsm = r.fsm /\ q.s = r.s
         /\ q.hevents = r.hevents /\ q.epoll = r.epoll
         /\ SameEvents(q, r) /\ q.raised = r.raised
<1>1. /\ Head(r.tasks) \in ToSet(r.tasks)
      /\ ToSet(Tail(r.tasks)) = ToSet(r.tasks) \ {Head(r.tasks)}
  BY TailElements DEF Tidy, Sockets
<1> QED
  BY <1>1 DEF Tidy, Sockets, TakeTask, SameEvents

LEMMA ExecutedFields ==
  ASSUME NEW r, Tidy(r), NEW task \in Tasks
  PROVE  LET q == Execute(r, task) IN
         /\ q.tasks = Push(r.tasks, task) /\ ToSet(q.tasks) = ToSet(r.tasks) \cup {task}
         /\ q.state = r.state /\ q.fsm = r.fsm /\ q.s = r.s
         /\ q.hevents = r.hevents /\ q.epoll = r.epoll
         /\ SameEvents(q, r) /\ q.raised = r.raised
<1>1. ToSet(Push(r.tasks, task)) = ToSet(r.tasks) \cup {task}
  BY PushElements DEF Tidy, Sockets
<1> QED
  BY <1>1 DEF Tidy, Sockets, Execute, SameEvents
=============================================================================
