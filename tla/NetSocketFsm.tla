---------------------------- MODULE NetSocketFsm ----------------------------
(***************************************************************************)
(* The state machine of a NetSocket (socket.cpp) as operators: how an      *)
(* input fed to the socket's NetFsm is dispatched, and what the clause     *)
(* that runs does to the socket.  Modules that follow a socket through its *)
(* life hold its record in a variable and apply Feed to it.                *)
(*                                                                         *)
(* The dispatch is a switch over the state with nested switches over src   *)
(* and type.  Its default branches only print a message and do not return, *)
(* so an input that is not foreseen FALLS THROUGH to the clauses of the    *)
(* states that come later in the text.  Sources and types share their      *)
(* numbers (action Accept is 1, so is "readable"), which decides where     *)
(* such an input ends; so they keep their numbers here.                    *)
(***************************************************************************)
EXTENDS Integers, Sequences, SequencesExt

(* utils.h: sources of inputs, and their types. *)
kNetFsmAction == -2
kNetSockSrcFd == 1
kNetSockSrcTaskConnecting == 2
kNetSockSrcTaskConnected == 3
kNetSockSrcTaskAccept == 4
kNetSockSrcTaskSend == 5
kNetSockSrcTaskRecv == 6
kNetSockSrcTaskStop == 7
AnySrc == 0           \* a clause that looks at neither source nor type

kNetFsmStart == -2
kNetFsmStop == -3
kNetSockActionAccept == 1
kNetSockActionBeingAccepted == 2
kNetSockActionCancel == 3
kNetSockActionListen == 4
kNetSockActionConnect == 5
kNetSockActionActivate == 6
kNetSockActionDone == 7
kNetSockActionError == 8
kNetSockActionStarted == 9
kNetWorkerFdIn == 1
kNetWorkerFdOut == 2
kNetWorkerFdErr == 3
kNetWorkerTaskExecute == 1
AnyType == -3 .. 9
Sources == {kNetFsmAction} \cup (kNetSockSrcFd .. kNetSockSrcTaskStop)

Tasks == {kNetSockSrcTaskConnecting, kNetSockSrcTaskConnected,
          kNetSockSrcTaskAccept, kNetSockSrcTaskSend, kNetSockSrcTaskRecv,
          kNetSockSrcTaskStop}

SockStates == {"Idle", "Starting", "BeingAccepted", "Accepted", "Connecting",
               "Active", "RemovingFd", "Done", "Listening", "Accepting",
               "Cancelling", "Stopping", "StoppingAccept", "AcceptingError"}

FsmStates == {"Idle", "Active", "Stopping"}

\* The NetFsmEvent members of a socket and of its NetFsm, and what they say.
Events == {"established", "sent", "received", "error", "stopped"}
EventTypes == {"none", "Connected", "Accepted", "Sent", "Received", "Error",
               "AcceptError", "Stopped", "Shutdown"}
NotRaised == <<"none", "none">>
-----------------------------------------------------------------------------
(* The socket. *)

Interests == SUBSET {kNetWorkerFdIn, kNetWorkerFdOut}
NotAdded == {-1}      \* the descriptor is not registered with the poller

(***************************************************************************)
(*   state   state_                        fsm     fsm_.state_             *)
(*   s       s_: a descriptor, or -1                                       *)
(*   hevents wfd_.handle_.events, what the poller believes is polled for   *)
(*   epoll   what the kernel polls for, or NotAdded                        *)
(*   tasks   the socket's tasks waiting at its worker, see TaskBox         *)
(*   events  ctx_.events_: the events raised and not yet processed         *)
(*   etype   etype[e]: the type_ event e was last raised with              *)
(*   raised  the event the running handler raises, or NotRaised            *)
(*   failed  a CHECK did not hold                                          *)
(***************************************************************************)
Sockets ==
  [ state : SockStates, fsm : FsmStates, s : {-1, 1},
    hevents : Interests, epoll : Interests \cup {NotAdded},
    tasks : Seq(Tasks), events : Seq(Events),
    etype : [Events -> EventTypes], raised : (Events \X EventTypes) \cup {NotRaised},
    failed : BOOLEAN ]

\* NetSocket::Init.  The handle's events are not written before AddFd.
InitialSocket(garbage) ==
  [ state |-> "Idle", fsm |-> "Idle", s |-> -1,
    hevents |-> garbage, epoll |-> NotAdded,
    tasks |-> <<>>, events |-> <<>>,
    etype |-> [e \in Events |-> "none"], raised |-> NotRaised,
    failed |-> FALSE ]

\* Mutant: an item is queued although it is in the queue.
PushAgain(q, x) == Append(q, x)

\* NetQueue::Push: an item in a queue is left where it is.
Push(q, x) == IF x \in ToSet(q) THEN q ELSE Append(q, x)

Execute(r, task) == [r EXCEPT !.tasks = Push(@, task)]

\* NetFsm::Raise fills the event in, then queues it with NetCtx::Raise; a
\* queued event is overwritten where it stands.
Raise(r, e, type) == [r EXCEPT !.raised = <<e, type>>]
Raised(r, ev) ==
  IF ev = NotRaised THEN r
  ELSE [r EXCEPT !.etype[ev[1]] = ev[2], !.events = Push(@, ev[1])]
Flush(r) == [Raised(r, r.raised) EXCEPT !.raised = NotRaised]

IsIdle(r) == r.fsm = "Idle" /\ "stopped" \notin ToSet(r.events)
-----------------------------------------------------------------------------
(* The poller's part: NetPoller's operations on the socket's handle. *)

AddFd(r) ==
  [r EXCEPT !.hevents = {},
            !.epoll = IF r.s = -1 THEN NotAdded
                      ELSE IF r.epoll = NotAdded THEN {} ELSE r.epoll]

RmFd(r) == [r EXCEPT !.epoll = NotAdded]

\* epoll_ctl(MOD) is skipped when the handle says nothing changes, and fails
\* on a descriptor that is not registered.
Modify(r, interest) ==
  IF interest = r.hevents THEN r
  ELSE [r EXCEPT !.hevents = interest,
                 !.epoll = IF r.epoll = NotAdded THEN NotAdded ELSE interest]

SetIn(r) == Modify(r, r.hevents \cup {kNetWorkerFdIn})
SetOut(r) == Modify(r, r.hevents \cup {kNetWorkerFdOut})
ResetOut(r) == Modify(r, r.hevents \ {kNetWorkerFdOut})

\* close() also takes the descriptor out of the epoll set.
CloseFd(r) == [r EXCEPT !.s = -1, !.epoll = NotAdded]
-----------------------------------------------------------------------------
(* NetSocketHandler: the clauses in the order of the text. *)

Clauses == <<
  [state |-> "Idle", src |-> kNetFsmAction, types |-> {kNetFsmStart}],
  [state |-> "Starting", src |-> kNetFsmAction,
   types |-> {kNetSockActionListen, kNetSockActionConnect,
              kNetSockActionBeingAccepted, kNetSockActionStarted}],
  [state |-> "BeingAccepted", src |-> kNetFsmAction,
   types |-> {kNetSockActionDone}],
  [state |-> "Accepted", src |-> kNetFsmAction,
   types |-> {kNetSockActionActivate}],
  [state |-> "Connecting", src |-> kNetFsmAction,
   types |-> {kNetSockActionDone, kNetSockActionError}],
  [state |-> "Connecting", src |-> kNetSockSrcFd,
   types |-> {kNetWorkerFdOut, kNetWorkerFdErr}],
  [state |-> "Active", src |-> kNetSockSrcFd,
   types |-> {kNetWorkerFdIn, kNetWorkerFdOut, kNetWorkerFdErr}],
  [state |-> "Active", src |-> kNetFsmAction, types |-> {kNetSockActionError}],
  [state |-> "RemovingFd", src |-> kNetSockSrcTaskStop,
   types |-> {kNetWorkerTaskExecute}],
  [state |-> "RemovingFd", src |-> kNetSockSrcFd, types |-> AnyType],
  [state |-> "RemovingFd", src |-> kNetFsmAction,
   types |-> {kNetSockActionError}],
  [state |-> "Done", src |-> AnySrc, types |-> AnyType],
  [state |-> "Listening", src |-> kNetFsmAction,
   types |-> {kNetSockActionAccept}],
  [state |-> "Accepting", src |-> kNetFsmAction,
   types |-> {kNetSockActionDone, kNetSockActionCancel}],
  [state |-> "Accepting", src |-> kNetSockSrcFd, types |-> {kNetWorkerFdIn}],
  [state |-> "AcceptingError", src |-> kNetFsmAction,
   types |-> {kNetSockActionAccept}],
  [state |-> "Cancelling", src |-> kNetSockSrcTaskStop,
   types |-> {kNetWorkerTaskExecute}],
  [state |-> "Cancelling", src |-> kNetSockSrcFd,
   types |-> {kNetWorkerFdIn}] >>

Positions(state) == {k \in DOMAIN Clauses : Clauses[k].state = state}

\* The switch over src inside Clauses[k]'s state enters at k or before it.
Entered(k, src) ==
  \E j \in Positions(Clauses[k].state) : j <= k /\ Clauses[j].src \in {src, AnySrc}

\* Where control stops for (src, type) in `state': at the first clause that
\* takes the type, once a switch over src has been entered.  0: nowhere.
Dispatch ==
  [state \in SockStates |-> [src \in Sources |-> [type \in AnyType |->
     LET reached == {k \in DOMAIN Clauses :
                       /\ \E first \in Positions(state) : first <= k
                       /\ Entered(k, src)
                       /\ type \in Clauses[k].types}
     IN  IF reached = {} THEN 0 ELSE Min(reached)]]]

\* The inputs foreseen in a state: nothing is printed.
Foreseen ==
  {input \in SockStates \X Sources \X AnyType :
     \E k \in Positions(input[1]) :
       Clauses[k].src \in {input[2], AnySrc} /\ input[3] \in Clauses[k].types}
-----------------------------------------------------------------------------
(* What the clauses do.  out is the outcome of the system call the clause  *)
(* makes, if it makes one.                                                 *)

\* The inputs of the owner that do no more than change the state.
Moves == <<
  <<"Idle", kNetFsmStart, "Starting">>,
  <<"Starting", kNetSockActionListen, "Listening">>,
  <<"Starting", kNetSockActionConnect, "Connecting">>,
  <<"Starting", kNetSockActionBeingAccepted, "BeingAccepted">>,
  <<"Listening", kNetSockActionAccept, "Accepting">>,
  <<"Accepting", kNetSockActionDone, "Listening">>,
  <<"AcceptingError", kNetSockActionAccept, "Accepting">> >>

MovesFrom(state, type) ==
  {m \in ToSet(Moves) : m[1] = state /\ m[2] = type}

\* The end of a connection: close, Done, tell the owner.
Fail(r) == Raise([CloseFd(RmFd(r)) EXCEPT !.state = "Done"], "error", "Error")

\* NetSocket::AsyncStop.
AsyncStop(r) == Raise(Execute(r, kNetSockSrcTaskStop), "error", "Shutdown")

\* Mutant: nobody adds the descriptor of a connection made at once.
ConnectedAtOnceUnpolled(r) ==
  Raise([r EXCEPT !.state = "Active"], "established", "Connected")

\* connect() succeeded at once: the worker is to add the descriptor.
ConnectedAtOnce(r) ==
  Raise(Execute([r EXCEPT !.state = "Active"], kNetSockSrcTaskConnected),
        "established", "Connected")

\* Mutant: the test of SO_ERROR is the wrong way round.
ConnectedLaterInverted(r, out) ==
  LET active == [ResetOut(r) EXCEPT !.state = "Active"] IN
  IF out = "ok" THEN Fail(active) ELSE Raise(active, "established", "Connected")

\* The descriptor became writable while connecting; out is SO_ERROR.
ConnectedLater(r, out) ==
  LET active == [ResetOut(r) EXCEPT !.state = "Active"] IN
  IF out = "ok" THEN Raise(active, "established", "Connected") ELSE Fail(active)

\* Mutant: polling for OUT goes on when nothing is left to send.
SendStepNoReset(r, out) ==
  IF out = "sent" THEN Raise(r, "sent", "Sent") ELSE r

\* The descriptor of an active socket is writable.  out is "empty" if there
\* is nothing to send, "sent" if the message in out_buf went out completely,
\* "again" and "reset" if it did not.
SendStep(r, out) ==
  CASE out = "empty" -> ResetOut(r)
    [] out = "sent" -> Raise(r, "sent", "Sent")
    [] OTHER -> r

\* ... is readable: "msg" if a message is complete.
RecvStep(r, out) == IF out = "msg" THEN Raise(r, "received", "Received") ELSE r

\* The listener's part of accepting a connection; what happens to the socket
\* being accepted is up to the module that follows both.
AcceptStep(r, out) ==
  CASE out = "ok" -> [RmFd(r) EXCEPT !.state = "Listening"]
    [] out = "nores" -> Raise([RmFd(r) EXCEPT !.state = "AcceptingError"],
                              "error", "AcceptError")
    [] out = "aborted" -> r
    [] OTHER -> [r EXCEPT !.failed = TRUE]

Effect(r, c, type, out) ==
  LET move == MovesFrom(c.state, type)
      at(state) == c.state = state /\ c.src = kNetFsmAction
      io(state) == c.state = state /\ c.src = kNetSockSrcFd
      stop(state) == c.state = state /\ c.src = kNetSockSrcTaskStop
  IN
  IF c.src = kNetFsmAction /\ move # {}
  THEN [r EXCEPT !.state = (CHOOSE m \in move : TRUE)[3]]
  ELSE
  CASE at("Starting") \/ at("Accepted") ->       \* Started, Activate
         [AddFd(r) EXCEPT !.state = "Active"]
    [] at("BeingAccepted") ->
         Raise([r EXCEPT !.state = "Accepted"], "established", "Accepted")
    [] at("Connecting") ->
         IF type = kNetSockActionDone THEN ConnectedAtOnce(r) ELSE Fail(r)
    [] io("Connecting") ->
         IF type = kNetWorkerFdOut THEN ConnectedLater(r, out) ELSE Fail(r)
    [] io("Active") /\ type = kNetWorkerFdIn -> RecvStep(r, out)
    [] io("Active") /\ type = kNetWorkerFdOut -> SendStep(r, out)
    [] io("Active") /\ type = kNetWorkerFdErr -> Fail(r)
    [] at("Active") -> AsyncStop([r EXCEPT !.state = "RemovingFd"])
    [] stop("RemovingFd") -> Fail(r)
    [] at("Accepting") ->                        \* Cancel
         Execute([r EXCEPT !.state = "Cancelling"], kNetSockSrcTaskStop)
    [] io("Accepting") -> AcceptStep(r, out)
    [] stop("Cancelling") -> [RmFd(r) EXCEPT !.state = "Listening"]
    [] OTHER -> r                                \* the clauses that only return

\* NetSocket::InternalTasks: the tasks that only change what is polled for.
InternalTasks == Tasks \ {kNetSockSrcTaskStop}

InternalTask(r, src) ==
  CASE src = kNetSockSrcTaskSend -> SetOut(r)
    [] src = kNetSockSrcTaskRecv -> SetIn(r)
    [] src = kNetSockSrcTaskConnected -> AddFd(r)
    [] src = kNetSockSrcTaskConnecting -> SetOut(AddFd(r))
    [] src = kNetSockSrcTaskAccept -> SetIn(AddFd(r))

\* The clause that ends a cancelled wait runs.  It goes on to feed Done to the
\* paired socket, which is up to the module that follows both.
Cancels(r, src, type) ==
  /\ src \notin InternalTasks /\ r.fsm # "Stopping"
  /\ Dispatch[r.state][src][type] # 0
  /\ LET c == Clauses[Dispatch[r.state][src][type]] IN
       c.state = "Cancelling" /\ c.src = kNetSockSrcTaskStop

NetSocketHandler(r, src, type, out) ==
  LET k == Dispatch[r.state][src][type] IN
  IF k = 0 THEN r ELSE Effect(r, Clauses[k], type, out)
-----------------------------------------------------------------------------
(* NetSocketShutdownHandler: the inputs of a socket asked to stop. *)

\* NetFsm::Stopped.
Stopped(r) == Raise([r EXCEPT !.state = "Idle", !.fsm = "Idle"], "stopped", "Stopped")

StopRequest(r) ==
  CASE r.state \in {"Accepting", "Cancelling"} -> [r EXCEPT !.failed = TRUE]
    [] r.state = "Idle" -> r
    [] r.state = "Done" -> Stopped(r)
    [] r.state \in {"Starting", "Accepted", "AcceptingError", "Listening"} ->
         Stopped(CloseFd(r))
    \* Its own machine is Stopping, where Cancel is not foreseen.
    [] r.state = "BeingAccepted" -> [r EXCEPT !.state = "StoppingAccept"]
    [] r.state = "RemovingFd" -> [r EXCEPT !.state = "Stopping"]
    [] OTHER -> AsyncStop([r EXCEPT !.state = "Stopping"])

NetSocketShutdownHandler(r, src, type) ==
  IF src = kNetFsmAction /\ type = kNetFsmStop THEN StopRequest(r)
  ELSE
  CASE r.state = "StoppingAccept" ->
         IF src = kNetFsmAction /\ type = kNetSockActionDone
         THEN Stopped(r) ELSE [r EXCEPT !.failed = TRUE]
    [] r.state = "Stopping" /\ src = kNetSockSrcTaskStop ->
         Stopped(CloseFd(RmFd(r)))
    [] OTHER -> r

\* NetFsm::Feed; both handlers deal with the internal tasks first.
Feed(r, src, type, out) ==
  IF src \in InternalTasks THEN InternalTask(r, src)
  ELSE IF r.fsm # "Stopping" THEN NetSocketHandler(r, src, type, out)
  ELSE NetSocketShutdownHandler(r, src, type)

\* Nothing is printed when (src, type) is fed to r.
FeedForeseen(r, src, type) ==
  \/ src \in InternalTasks
  \/ r.fsm # "Stopping" /\ <<r.state, src, type>> \in Foreseen
  \/ /\ r.fsm = "Stopping"
     /\ \/ src = kNetFsmAction /\ type = kNetFsmStop
        \/ r.state \in {"StoppingAccept", "Stopping"}

\* Mutant: the machine does not note that it was started.
StartStaysIdle(r) ==
  IF ~IsIdle(r) THEN [r EXCEPT !.failed = TRUE]
  ELSE NetSocketHandler(r, kNetFsmAction, kNetFsmStart, "")

\* Mutant: the socket is not told that its machine was started.
StartUntold(r) ==
  IF ~IsIdle(r) THEN [r EXCEPT !.failed = TRUE] ELSE [r EXCEPT !.fsm = "Active"]

\* NetFsm::Start and NetFsm::Stop.
Start(r) ==
  IF ~IsIdle(r) THEN [r EXCEPT !.failed = TRUE]
  ELSE [NetSocketHandler(r, kNetFsmAction, kNetFsmStart, "") EXCEPT !.fsm = "Active"]

Stop(r) ==
  IF r.fsm # "Active" THEN r
  ELSE NetSocketShutdownHandler([r EXCEPT !.fsm = "Stopping"],
                                kNetFsmAction, kNetFsmStop)
=============================================================================
