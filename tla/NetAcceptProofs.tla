--------------------------- MODULE NetAcceptProofs ---------------------------
(***************************************************************************)
(* Theorems about NetAccept, for any number of connections, pieces and     *)
(* parts: the listener and the sockets it is paired with stay together,    *)
(* and so do what was read and what was parsed.                            *)
(***************************************************************************)
EXTENDS NetAccept, NetSocketLemmas

(* The inductive invariant. *)

Fine(r) == r \in Sockets /\ r.raised = NotRaised /\ ~r.failed
Resting(r) == r.tasks = <<>> /\ r.events = <<>> /\ r.epoll = NotAdded

Shape ==
  /\ lasock \in 0 .. made /\ made \in 0 .. MaxConns + 1
  /\ lpc \in {"idle", "leaving", "handing"} /\ upc \in {"open", "pair", "done"}
  /\ IF fate = "accept_failed" THEN lsock \in Sockets ELSE Fine(lsock)
  /\ socks \in [Slots -> Sockets] /\ \A i \in Slots : Fine(socks[i])
  /\ ctx \in [Slots -> {"free", "leaving"}]
  /\ arrived \in 0 .. MaxConns /\ backlog \in Seq(Conns)
  /\ connOf \in [Slots -> 0 .. arrived] /\ inoff \in [Slots -> 0 .. Parts - 1]
  /\ conn \in [Conns -> {"none", "up", "closed", "reset"}]
  /\ sent \in [Conns -> Nat] /\ got \in [Conns -> Nat] /\ parsed \in [Conns -> Nat]
  /\ \A c \in Conns : got[c] <= sent[c]
  /\ fate \in {"running", "accept_failed", "unexpected_run"} /\ complained = FALSE

\* NetDevice::Init before it pairs the listener.
Opening ==
  /\ made = 0 /\ lasock = 0 /\ lpc = "idle" /\ eventsto = <<>> /\ handing = <<>>
  /\ Resting(lsock)
  /\ upc = "open" => lsock.state = "Idle" /\ lsock.fsm = "Idle"
  /\ upc = "pair" => lsock.state = "Listening" /\ lsock.fsm = "Active" /\ lsock.s = 1

\* The listener waits for a connection, or is about to.
Waits ==
  /\ lsock.state = "Accepting" /\ lsock.events = <<>>
  /\ lasock = made /\ eventsto = <<>> /\ handing = <<>>
  /\ \/ lsock.tasks = <<kNetSockSrcTaskAccept>> /\ lsock.epoll = NotAdded
     \/ lsock.tasks = <<>> /\ lsock.epoll = {kNetWorkerFdIn}

\* It accepted one into the last socket that was made, which is handed over.
Hands ==
  /\ lsock.state = "Listening" /\ Resting(lsock) /\ lasock = 0
  /\ \/ lpc = "leaving" /\ eventsto = <<made>> /\ handing = <<>>
     \/ lpc = "handing" /\ eventsto = <<>> /\ handing = <<made>>

\* accept4 found no resources.
Failed ==
  /\ lsock.state = "AcceptingError" /\ lsock.tasks = <<>> /\ lsock.epoll = NotAdded
  /\ lasock = made /\ eventsto = <<>> /\ handing = <<>> /\ lpc = "leaving"
  /\ \/ lsock.events = <<"error">> /\ lsock.etype["error"] = "AcceptError"
     \/ lsock.events = <<>> /\ fate # "running"

ListenerPhase ==
  IF upc = "done" THEN /\ made > 0 /\ lsock.fsm = "Active" /\ lsock.s = 1
                       /\ Waits \/ Hands \/ Failed
  ELSE Opening

\* Where a socket that was made can be.
Fresh(i) ==
  /\ socks[i].state = "BeingAccepted" /\ socks[i].s = -1 /\ Resting(socks[i])
  /\ ctx[i] = "free" /\ connOf[i] = 0 /\ inoff[i] = 0
Taken(i) ==
  /\ socks[i].state = "Accepted" /\ socks[i].s = 1 /\ Resting(socks[i])
  /\ ctx[i] = "free" /\ connOf[i] # 0 /\ inoff[i] = 0
Reads(i) ==
  /\ socks[i].state = "Active" /\ socks[i].s = 1 /\ connOf[i] # 0
  /\ \/ /\ socks[i].tasks = <<kNetSockSrcTaskRecv>>
        /\ socks[i].epoll = {} /\ socks[i].hevents = {}
     \/ socks[i].tasks = <<>> /\ socks[i].epoll = {kNetWorkerFdIn}
  /\ \/ socks[i].events = <<>>
     \/ /\ socks[i].events = <<"received">> /\ socks[i].etype["received"] = "Received"
        /\ ctx[i] = "leaving"
Over(i) ==
  /\ socks[i].state = "Done" /\ socks[i].epoll = NotAdded /\ connOf[i] # 0
  /\ ctx[i] = "leaving"
  /\ \/ socks[i].events = <<"error">> /\ socks[i].etype["error"] = "Error"
     \/ socks[i].events = <<>> /\ fate # "running"

SockPhase(i) ==
  IF i > made THEN Resting(socks[i]) /\ ctx[i] = "free" /\ connOf[i] = 0 /\ inoff[i] = 0
  ELSE /\ socks[i].fsm = "Active"
       /\ IF i = lasock THEN Fresh(i)
          ELSE IF i = made /\ lasock = 0 /\ lsock.state = "Listening" THEN Taken(i)
          ELSE Reads(i) \/ Over(i)

SockPhases == \A i \in Slots : SockPhase(i)

\* Connections are accepted in the order in which they arrive.
InTurn ==
  /\ \A i, j \in Slots : i < j /\ connOf[j] # 0 => connOf[i] < connOf[j]
  /\ \A i \in Slots : connOf[i] # 0 => i <= connOf[i]
  /\ \A k \in 1 .. Len(backlog) : /\ backlog[k] \in 1 .. arrived
                                  /\ \A i \in Slots : connOf[i] < backlog[k]
  /\ \A k, l \in 1 .. Len(backlog) : k < l => backlog[k] < backlog[l]

\* A connection that no socket has yet was not read.
Unread ==
  \A c \in Conns : (\A i \in Slots : connOf[i] # c) => got[c] = 0 /\ parsed[c] = 0

Pairing == waiting = IF lasock = 0 THEN {} ELSE {lasock}

IInv ==
  Shape /\ ListenerPhase /\ SockPhases /\ Pairing /\ InTurn /\ Unread /\ NoMessageLost
-----------------------------------------------------------------------------
(* What the steps do to a socket. *)

\* Facts about lists of one element or none.
LEMMA ShortLists ==
  ASSUME NEW x
  PROVE  /\ <<x>> # <<>> /\ Head(<<x>>) = x /\ Tail(<<x>>) = <<>>
         /\ ToSet(<<x>>) = {x} /\ ToSet(<<>>) = {}
         /\ IsInjective(<<x>>) /\ IsInjective(<<>>)
         /\ Push(<<>>, x) = <<x>>
BY DEF ToSet, IsInjective, Push

\* NetSocket::Init and Start, before the socket is told what it is for.
LEMMA NewSocket ==
  ASSUME NEW g \in Interests, NEW open \in {-1, 1}
  PROVE  LET r == [InitialSocket(g) EXCEPT !.s = open] IN
         /\ InitialSocket(g) \in Sockets
         /\ Fine(r) /\ Resting(r) /\ r.state = "Idle" /\ r.fsm = "Idle" /\ r.s = open
<1>1. <<>> \in Seq(Tasks) /\ <<>> \in Seq(Events)
  OBVIOUS
<1> QED
  BY <1>1 DEF InitialSocket, Sockets, Fine, Resting, SockStates, FsmStates, EventTypes

\* NetFsm::Start of a socket that was just made.
LEMMA StartedFields ==
  ASSUME NEW r, Fine(r), Resting(r), r.state = "Idle", r.fsm = "Idle"
  PROVE  LET q == Start(r) IN
         /\ Fine(q) /\ Resting(q) /\ q.state = "Starting" /\ q.fsm = "Active" /\ q.s = r.s
<1>1. IsIdle(r)
  BY ShortLists DEF Resting, IsIdle
<1>2. Start(r) = AsActive(InState(r, "Starting"))
  BY <1>1, Starts
<1>3. "Starting" \in SockStates
  BY DEF SockStates
<1>4. InState(r, "Starting") \in Sockets
  BY <1>3, InStateFields DEF Fine, Kept
<1> QED
  BY <1>2, <1>3, <1>4, InStateFields, AsActiveFields DEF Fine, Resting, Kept

\* The listener after Start, Bind and Listen.
LEMMA ListenedFields ==
  ASSUME NEW r, Fine(r), Resting(r), r.state = "Idle", r.fsm = "Idle"
  PROVE  LET q == Action(Start([r EXCEPT !.s = 1]), kNetSockActionListen) IN
         Fine(q) /\ Resting(q) /\ q.state = "Listening" /\ q.fsm = "Active" /\ q.s = 1
<1> DEFINE o == [r EXCEPT !.s = 1]
<1>1. Fine(o) /\ Resting(o) /\ o.state = "Idle" /\ o.fsm = "Idle" /\ o.s = 1
  BY DEF Fine, Resting, Sockets
<1> HIDE DEF o
<1> DEFINE p == Start(o)
<1>2. Fine(p) /\ Resting(p) /\ p.state = "Starting" /\ p.fsm = "Active" /\ p.s = 1
  BY <1>1, StartedFields
<1> HIDE DEF p
<1>3. Action(p, kNetSockActionListen) = InState(p, "Listening")
  BY <1>2, Moved DEF Action
<1>4. "Listening" \in SockStates
  BY DEF SockStates
<1> QED
  BY <1>2, <1>3, <1>4, InStateFields DEF Fine, Resting, Kept, o, p

\* A socket that waits to be accepted.
LEMMA FreshFields ==
  ASSUME NEW g \in Interests
  PROVE  LET q == BeingAccepted(g) IN
         Fine(q) /\ Resting(q) /\ q.state = "BeingAccepted" /\ q.fsm = "Active" /\ q.s = -1
<1> DEFINE r == InitialSocket(g)
           p == Start(r)
<1>1. Fine(r) /\ Resting(r) /\ r.state = "Idle" /\ r.fsm = "Idle" /\ r.s = -1
  BY NewSocket DEF InitialSocket, Fine, Resting
<1> HIDE DEF r
<1>2. Fine(p) /\ Resting(p) /\ p.state = "Starting" /\ p.fsm = "Active" /\ p.s = -1
  BY <1>1, StartedFields
<1> HIDE DEF p
<1>3. Action(p, kNetSockActionBeingAccepted) = InState(p, "BeingAccepted")
  BY <1>2, Moved DEF Action
<1>4. "BeingAccepted" \in SockStates
  BY DEF SockStates
<1> QED
  BY <1>2, <1>3, <1>4, InStateFields DEF Fine, Resting, Kept, BeingAccepted, r, p

\* The listener is paired, and its worker asked to wait for a connection.
LEMMA AskedFields ==
  ASSUME NEW r, Fine(r), Resting(r), r.state = "Listening", r.fsm = "Active"
  PROVE  LET q == Execute(Action(r, kNetSockActionAccept), kNetSockSrcTaskAccept) IN
         /\ Fine(q) /\ q.state = "Accepting" /\ q.fsm = "Active" /\ q.s = r.s
         /\ q.tasks = <<kNetSockSrcTaskAccept>> /\ q.events = <<>> /\ q.epoll = NotAdded
         /\ FeedForeseen(r, kNetFsmAction, kNetSockActionAccept)
<1> DEFINE p == InState(r, "Accepting")
<1>1. Action(r, kNetSockActionAccept) = p
  BY Moved DEF Action
<1>2. "Accepting" \in SockStates /\ kNetSockSrcTaskAccept \in Tasks
  BY DEF SockStates, Tasks
<1>3. /\ Fine(p) /\ p.state = "Accepting" /\ p.fsm = "Active" /\ p.s = r.s
      /\ p.tasks = <<>> /\ p.events = <<>> /\ p.epoll = NotAdded
  BY <1>2, InStateFields DEF Fine, Resting, Kept
<1> HIDE DEF p
<1>4. FeedForeseen(r, kNetFsmAction, kNetSockActionAccept)
  BY ForeseenInputs DEF FeedForeseen
<1> QED
  BY <1>1, <1>2, <1>3, <1>4, ExecuteFields DEF Fine, Kept

\* Its worker runs task_accept.
LEMMA ArmedFields ==
  ASSUME NEW r, NEW out, Fine(r), r.s = 1, r.fsm = "Active", r.events = <<>>,
         r.tasks = <<kNetSockSrcTaskAccept>>, r.epoll = NotAdded
  PROVE  LET p == TakeTask(r)
             q == Flush(Feed(p, kNetSockSrcTaskAccept, kNetWorkerTaskExecute, out)) IN
         /\ Fine(q) /\ q.state = r.state /\ q.fsm = "Active" /\ q.s = 1
         /\ q.tasks = <<>> /\ q.events = <<>> /\ q.epoll = {kNetWorkerFdIn}
         /\ FeedForeseen(p, kNetSockSrcTaskAccept, kNetWorkerTaskExecute)
<1> DEFINE p == TakeTask(r)
           u == AddFd(p)
           v == SetIn(u)
<1>1. /\ Fine(p) /\ p.state = r.state /\ p.fsm = "Active" /\ p.s = 1
      /\ p.tasks = <<>> /\ p.events = <<>> /\ p.epoll = NotAdded
  BY TakeTaskFields DEF Fine, Kept
<1> HIDE DEF p
<1>2. /\ Fine(u) /\ u.state = r.state /\ u.fsm = "Active" /\ u.s = 1
      /\ u.tasks = <<>> /\ u.events = <<>> /\ u.hevents = {} /\ u.epoll = {}
  BY <1>1, AddFdFields DEF Fine, Kept
<1> HIDE DEF u
<1>3. /\ Fine(v) /\ v.state = r.state /\ v.fsm = "Active" /\ v.s = 1
      /\ v.tasks = <<>> /\ v.events = <<>> /\ v.epoll = {kNetWorkerFdIn}
  BY <1>2, SetInFields DEF Fine, Kept
<1>4. /\ Feed(p, kNetSockSrcTaskAccept, kNetWorkerTaskExecute, out) = v
      /\ FeedForeseen(p, kNetSockSrcTaskAccept, kNetWorkerTaskExecute)
  BY InternalFed DEF u
<1> HIDE DEF v
<1> QED
  BY <1>3, <1>4, FlushNothing DEF Fine, Kept, p

\* The worker of an accepted socket runs task_recv.
LEMMA ReadyFields ==
  ASSUME NEW r, NEW out, Fine(r), r.fsm = "Active", r.events = <<>>,
         r.tasks = <<kNetSockSrcTaskRecv>>, r.hevents = {}, r.epoll = {}
  PROVE  LET p == TakeTask(r)
             q == Flush(Feed(p, kNetSockSrcTaskRecv, kNetWorkerTaskExecute, out)) IN
         /\ Fine(q) /\ q.state = r.state /\ q.fsm = "Active" /\ q.s = r.s
         /\ q.tasks = <<>> /\ q.events = <<>> /\ q.epoll = {kNetWorkerFdIn}
         /\ FeedForeseen(p, kNetSockSrcTaskRecv, kNetWorkerTaskExecute)
<1> DEFINE p == TakeTask(r)
           v == SetIn(p)
<1>1. /\ Fine(p) /\ p.state = r.state /\ p.fsm = "Active" /\ p.s = r.s
      /\ p.tasks = <<>> /\ p.events = <<>> /\ p.hevents = {} /\ p.epoll = {}
  BY TakeTaskFields DEF Fine, Kept
<1> HIDE DEF p
<1>3. /\ Fine(v) /\ v.state = r.state /\ v.fsm = "Active" /\ v.s = r.s
      /\ v.tasks = <<>> /\ v.events = <<>> /\ v.epoll = {kNetWorkerFdIn}
  BY <1>1, SetInFields DEF Fine, Kept
<1>4. /\ Feed(p, kNetSockSrcTaskRecv, kNetWorkerTaskExecute, out) = v
      /\ FeedForeseen(p, kNetSockSrcTaskRecv, kNetWorkerTaskExecute)
  BY InternalFed
<1> HIDE DEF v
<1> QED
  BY <1>3, <1>4, FlushNothing DEF Fine, Kept, p

\* accept4 yields a connection, an aborted one, or none for lack of resources.
LEMMA AcceptedFields ==
  ASSUME NEW r, NEW out \in {"ok", "aborted", "nores"}, Fine(r), r.fsm = "Active",
         r.state = "Accepting", r.tasks = <<>>, r.events = <<>>, r.epoll = {kNetWorkerFdIn}
  PROVE  LET q == Flush(Feed(r, kNetSockSrcFd, kNetWorkerFdIn, out)) IN
         /\ Fine(q) /\ q.fsm = "Active" /\ q.s = r.s /\ q.tasks = <<>>
         /\ FeedForeseen(r, kNetSockSrcFd, kNetWorkerFdIn)
         /\ out = "ok" => q.state = "Listening" /\ q.events = <<>> /\ q.epoll = NotAdded
         /\ out = "aborted" =>
              q.state = "Accepting" /\ q.events = <<>> /\ q.epoll = {kNetWorkerFdIn}
         /\ out = "nores" =>
              /\ q.state = "AcceptingError" /\ q.epoll = NotAdded
              /\ q.events = <<"error">> /\ q.etype["error"] = "AcceptError"
<1>1. /\ Feed(r, kNetSockSrcFd, kNetWorkerFdIn, out) = AcceptStep(r, out)
      /\ FeedForeseen(r, kNetSockSrcFd, kNetWorkerFdIn)
  BY Accepts
<1> DEFINE left(state) == InState(RmFd(r), state)
<1>2. ASSUME NEW state \in SockStates
      PROVE  LET u == left(state) IN
             /\ Fine(u) /\ u.fsm = "Active" /\ u.s = r.s /\ u.tasks = <<>>
             /\ u.events = <<>> /\ u.epoll = NotAdded /\ u.state = state
  <2>1. /\ RmFd(r) \in Sockets /\ RmFd(r).fsm = "Active" /\ RmFd(r).s = r.s
        /\ RmFd(r).tasks = <<>> /\ RmFd(r).events = <<>> /\ RmFd(r).epoll = NotAdded
        /\ RmFd(r).raised = NotRaised /\ ~RmFd(r).failed
    BY DEF RmFd, Fine, Sockets
  <2> QED
    BY <2>1, InStateFields DEF Fine, Kept
<1>3. {"Listening", "AcceptingError"} \subseteq SockStates
  BY DEF SockStates
<1>4. CASE out = "ok"
  <2>1. AcceptStep(r, out) = left("Listening")
    BY <1>4 DEF AcceptStep, InState
  <2> QED
    BY <1>1, <1>2, <1>3, <1>4, <2>1, FlushNothing DEF Fine, Kept
<1>5. CASE out = "aborted"
  <2>1. AcceptStep(r, out) = r
    BY <1>5 DEF AcceptStep
  <2> QED
    BY <1>1, <1>5, <2>1, FlushNothing DEF Fine, Kept
<1>6. CASE out = "nores"
  <2>1. AcceptStep(r, out) = Raise(left("AcceptingError"), "error", "AcceptError")
    BY <1>6 DEF AcceptStep, InState
  <2>2. "error" \in Events /\ "AcceptError" \in EventTypes
    BY DEF Events, EventTypes
  <2> QED
    BY <1>1, <1>2, <1>3, <1>6, <2>1, <2>2, FlushRaise DEF Fine
<1> QED
  BY <1>4, <1>5, <1>6

\* The owner activates an accepted socket and asks its worker to read.
LEMMA ActivatedFields ==
  ASSUME NEW r, Fine(r), Resting(r), r.s = 1, r.fsm = "Active", r.state = "Accepted"
  PROVE  LET q == Execute(Action(r, kNetSockActionActivate), kNetSockSrcTaskRecv) IN
         /\ Fine(q) /\ q.state = "Active" /\ q.fsm = "Active" /\ q.s = 1
         /\ q.tasks = <<kNetSockSrcTaskRecv>> /\ q.events = <<>>
         /\ q.hevents = {} /\ q.epoll = {}
         /\ FeedForeseen(r, kNetFsmAction, kNetSockActionActivate)
<1> DEFINE u == AddFd(r)
           p == InState(u, "Active")
<1>1. Action(r, kNetSockActionActivate) = p
      /\ FeedForeseen(r, kNetFsmAction, kNetSockActionActivate)
  BY Activated DEF Action
<1>2. "Active" \in SockStates /\ kNetSockSrcTaskRecv \in Tasks
  BY DEF SockStates, Tasks
<1>3. /\ Fine(u) /\ u.fsm = "Active" /\ u.s = 1
      /\ u.tasks = <<>> /\ u.events = <<>> /\ u.hevents = {} /\ u.epoll = {}
  BY AddFdFields DEF Fine, Resting, Kept
<1> HIDE DEF u
<1>4. /\ Fine(p) /\ p.state = "Active" /\ p.fsm = "Active" /\ p.s = 1
      /\ p.tasks = <<>> /\ p.events = <<>> /\ p.hevents = {} /\ p.epoll = {}
  BY <1>2, <1>3, InStateFields DEF Fine, Kept
<1> HIDE DEF p
<1> QED
  BY <1>1, <1>2, <1>4, ExecuteFields DEF Fine, Kept

\* An active socket reads, and tells its owner of a complete message.
LEMMA ReceivedFields ==
  ASSUME NEW r, NEW out, Fine(r), r.fsm = "Active", r.state = "Active", r.events = <<>>
  PROVE  LET q == Flush(Feed(r, kNetSockSrcFd, kNetWorkerFdIn, out)) IN
         /\ Fine(q) /\ q.fsm = "Active" /\ q.s = r.s /\ q.tasks = r.tasks
         /\ q.state = "Active" /\ q.hevents = r.hevents /\ q.epoll = r.epoll
         /\ IF out = "msg"
            THEN q.events = <<"received">> /\ q.etype["received"] = "Received"
            ELSE q.events = <<>>
         /\ FeedForeseen(r, kNetSockSrcFd, kNetWorkerFdIn)
<1>1. /\ Feed(r, kNetSockSrcFd, kNetWorkerFdIn, out) = RecvStep(r, out)
      /\ FeedForeseen(r, kNetSockSrcFd, kNetWorkerFdIn)
  BY ActiveFd
<1>2. CASE out = "msg"
  <2>1. "received" \in Events /\ "Received" \in EventTypes
    BY DEF Events, EventTypes
  <2> QED
    BY <1>1, <1>2, <2>1, FlushRaise DEF RecvStep, Fine
<1>3. CASE out # "msg"
  BY <1>1, <1>3, FlushNothing DEF RecvStep, Fine, Kept
<1> QED
  BY <1>2, <1>3

\* ... or meets an error.
LEMMA BrokenFields ==
  ASSUME NEW r, NEW out, Fine(r), r.fsm = "Active", r.state = "Active", r.events = <<>>
  PROVE  LET q == Flush(Feed(r, kNetSockSrcFd, kNetWorkerFdErr, out)) IN
         /\ Fine(q) /\ q.fsm = "Active" /\ q.state = "Done" /\ q.epoll = NotAdded
         /\ q.events = <<"error">> /\ q.etype["error"] = "Error"
         /\ FeedForeseen(r, kNetSockSrcFd, kNetWorkerFdErr)
<1>1. /\ Feed(r, kNetSockSrcFd, kNetWorkerFdErr, out) = Fail(r)
      /\ FeedForeseen(r, kNetSockSrcFd, kNetWorkerFdErr)
  BY ActiveFd
<1> DEFINE u == CloseFd(RmFd(r))
           p == InState(u, "Done")
<1>2. Fail(r) = Raise(p, "error", "Error")
  BY DEF Fail, InState
<1>3. /\ u \in Sockets /\ u.fsm = "Active" /\ u.epoll = NotAdded /\ u.events = <<>>
      /\ u.raised = NotRaised /\ ~u.failed
  BY DEF CloseFd, RmFd, Fine, Sockets
<1> HIDE DEF u
<1>4. "error" \in Events /\ "Error" \in EventTypes /\ "Done" \in SockStates
  BY DEF Events, EventTypes, SockStates
<1>5. /\ p \in Sockets /\ p.fsm = "Active" /\ p.epoll = NotAdded /\ p.events = <<>>
      /\ p.raised = NotRaised /\ ~p.failed /\ p.state = "Done"
  BY <1>3, <1>4, InStateFields DEF Kept
<1> HIDE DEF p
<1> QED
  BY <1>1, <1>2, <1>4, <1>5, FlushRaise DEF Fine

\* The owner was told of the only event that was raised.
LEMMA ToldFields ==
  ASSUME NEW r, Fine(r), NEW e \in Events, r.events = <<e>>
  PROVE  LET q == [r EXCEPT !.events = Tail(@), !.etype[e] = "none"] IN
         /\ Fine(q) /\ q.state = r.state /\ q.fsm = r.fsm /\ q.s = r.s
         /\ q.tasks = r.tasks /\ q.events = <<>>
         /\ q.hevents = r.hevents /\ q.epoll = r.epoll
<1> DEFINE et == [r.etype EXCEPT ![e] = "none"]
<1>1. et \in [Events -> EventTypes]
  BY DEF Fine, Sockets, EventTypes
<1>2. Tail(r.events) = <<>> /\ <<>> \in Seq(Events)
  BY ShortLists
<1>3. [r EXCEPT !.events = Tail(@), !.etype[e] = "none"] = [r EXCEPT !.events = <<>>, !.etype = et]
  BY <1>2 DEF Fine, Sockets
<1> HIDE DEF et
<1> QED
  BY <1>1, <1>2, <1>3 DEF Fine, Sockets
-----------------------------------------------------------------------------
(* What a step leaves alone. *)

\* The process goes on when the CHECKs of a step hold.
LEMMA ChecksPassed ==
  ASSUME NEW holds, NEW end, Check(holds, end), holds,
         Fine(lsock'), \A i \in Slots : Fine(socks'[i])
  PROVE  fate' = fate
BY DEF Check, Fine

\* The sockets are fine as long as the step leaves them, or all but one, alone.
LEMMA StillFine ==
  ASSUME IInv, fate = "running"
  PROVE  Fine(lsock) /\ \A i \in Slots : Fine(socks[i])
BY DEF IInv, Shape

\* The accepted sockets and their connections, while the listener is at work.
LEMMA SocketsRest ==
  ASSUME SockPhases, fate = "running", made \in Nat,
         UNCHANGED <<made, lasock, socks, ctx, connOf, inoff>>,
         made > 0 /\ lasock = 0 => (lsock'.state = "Listening" <=> lsock.state = "Listening")
  PROVE  SockPhases'
<1> SUFFICES ASSUME NEW i \in Slots PROVE SockPhase(i)'
  BY DEF SockPhases
<1>1. SockPhase(i)
  BY DEF SockPhases
<1>2. (Fresh(i)' <=> Fresh(i)) /\ (Taken(i)' <=> Taken(i)) /\ (Reads(i)' <=> Reads(i))
  BY DEF Fresh, Taken, Reads, Resting
<1>3. Over(i) => Over(i)'
  BY DEF Over
<1>4. Resting(socks[i])' <=> Resting(socks[i])
  BY DEF Resting
<1>5. i <= made => made > 0
  BY AcceptAssumption DEF Slots
<1>6. CASE i > made
  BY <1>1, <1>4, <1>6 DEF SockPhase
<1>7. CASE ~(i > made)
  <2>1. made > 0
    BY <1>5, <1>7, i \in Nat DEF Slots
  <2>2. i = made /\ lasock = 0 => (lsock'.state = "Listening" <=> lsock.state = "Listening")
    BY <2>1
  <2> QED
    BY <1>1, <1>2, <1>3, <1>7, <2>2 DEF SockPhase
<1> QED
  BY <1>6, <1>7

\* What was read, as long as the events stay.
LEMMA DataRest ==
  ASSUME Unread, NoMessageLost, UNCHANGED <<made, connOf, inoff, got, parsed>>,
         \A i \in 1 .. made : socks'[i].events = socks[i].events
  PROVE  Unread' /\ NoMessageLost'
BY DEF Unread, NoMessageLost

\* The order of the connections, as long as none is accepted or made.
LEMMA TurnRest ==
  ASSUME InTurn, UNCHANGED <<connOf, arrived, backlog>>
  PROVE  InTurn'
BY DEF InTurn

\* A step of the listener's worker that is about no connection.
LEMMA ListenerAlone ==
  ASSUME IInv, fate = "running", Fine(lsock'), ListenerPhase',
         lpc' \in {"idle", "leaving", "handing"}, upc' \in {"open", "pair", "done"},
         UNCHANGED <<lasock, sockVars, dataVars, netVars, complained>>,
         fate' \in {"running", "unexpected_run"},
         made > 0 /\ lasock = 0 => (lsock'.state = "Listening" <=> lsock.state = "Listening")
  PROVE  IInv'
<1>1. /\ UNCHANGED <<lasock, made, socks, waiting, ctx, connOf, inoff, parsed, got,
                     arrived, backlog, conn, sent, complained>>
  BY DEF sockVars, dataVars, netVars
<1>2. Shape'
  BY <1>1 DEF IInv, Shape, Fine
<1>3. SockPhases'
  BY <1>1, SocketsRest DEF IInv, Shape
<1>4. Unread' /\ NoMessageLost' /\ InTurn'
  BY <1>1, DataRest, TurnRest DEF IInv
<1>5. Pairing'
  BY <1>1 DEF IInv, Pairing
<1> QED
  BY <1>2, <1>3, <1>4, <1>5 DEF IInv
-----------------------------------------------------------------------------
(* The thread in NetDevice::Init, and the listener's worker. *)

\* The initial states.
LEMMA InitInv ==
  ASSUME Init
  PROVE  IInv
<1>1. PICK g \in Garbage : lsock = InitialSocket(g)
  BY DEF Init
<1>2. g \in Interests /\ {} \in Interests /\ -1 \in {-1, 1}
  BY <1>1, AcceptAssumption DEF Interests
<1>3. \A h \in Interests : /\ Fine(InitialSocket(h)) /\ Resting(InitialSocket(h))
                           /\ InitialSocket(h).state = "Idle" /\ InitialSocket(h).fsm = "Idle"
  BY <1>2, NewSocket DEF InitialSocket, Fine, Resting
<1>4. Shape
  <2>1. MaxConns \in Nat /\ Parts \in Nat \ {0} /\ <<>> \in Seq(Conns)
    BY AcceptAssumption
  <2> QED
    BY <1>1, <1>2, <1>3, <2>1 DEF Init, Shape, Fine
<1>5. ListenerPhase
  BY <1>1, <1>2, <1>3 DEF Init, ListenerPhase, Opening
<1>6. SockPhases
  BY <1>2, <1>3 DEF Init, SockPhases, SockPhase, Slots
<1>7. Pairing /\ Unread
  BY DEF Init, Pairing, Unread
<1>8. InTurn
  BY DEF Init, InTurn
<1>9. NoMessageLost
  BY DEF Init, NoMessageLost
<1> QED
  BY <1>4, <1>5, <1>6, <1>7, <1>8, <1>9 DEF IInv

\* Start, Bind and Listen.
LEMMA OpenListenerInv ==
  ASSUME IInv, fate = "running", OpenListener
  PROVE  IInv'
<1>1. Opening /\ upc = "open" /\ Fine(lsock)
  BY DEF IInv, Shape, ListenerPhase, OpenListener
<1>2. /\ Fine(lsock') /\ Resting(lsock') /\ lsock'.state = "Listening"
      /\ lsock'.fsm = "Active" /\ lsock'.s = 1
  BY <1>1, ListenedFields DEF OpenListener, Opening
<1>3. /\ upc' = "pair"
      /\ UNCHANGED <<lasock, eventsto, handing, lpc, made, fate, socks, complained>>
      /\ UNCHANGED <<sockVars, dataVars, netVars>>
  <2>1. UNCHANGED socks /\ Check(TRUE, "check_failed")
    BY DEF OpenListener, sockVars
  <2>2. fate' = fate
    BY <1>2, <2>1, StillFine, ChecksPassed
  <2> QED
    BY <2>1, <2>2 DEF OpenListener, sockVars
<1>4. ListenerPhase'
  BY <1>1, <1>2, <1>3 DEF ListenerPhase, Opening
<1>5. ~(made > 0)
  BY <1>1 DEF Opening
<1> QED
  BY <1>1, <1>2, <1>3, <1>4, <1>5, ListenerAlone DEF IInv, Shape

\* PairListenSocket.
LEMMA PairEffect ==
  ASSUME NEW ss \in [Slots -> Sockets], Pair(ss, FALSE),
         \A j \in Slots : Fine(ss[j]),
         Shape, Pairing, lasock = 0, made + 1 \in Slots, fate = "running",
         lsock.state = "Listening", lsock.fsm = "Active", lsock.s = 1, Resting(lsock)
  PROVE  /\ made' = made + 1 /\ lasock' = made'
         /\ waiting' = {made'} /\ fate' = fate /\ complained' = FALSE
         /\ Fine(lsock') /\ lsock'.state = "Accepting" /\ lsock'.fsm = "Active" /\ lsock'.s = 1
         /\ lsock'.tasks = <<kNetSockSrcTaskAccept>> /\ lsock'.events = <<>>
         /\ lsock'.epoll = NotAdded
         /\ socks' \in [Slots -> Sockets]
         /\ \A j \in Slots : j # made' => socks'[j] = ss[j]
         /\ Fine(socks'[made']) /\ Resting(socks'[made'])
         /\ socks'[made'].state = "BeingAccepted" /\ socks'[made'].fsm = "Active"
         /\ socks'[made'].s = -1
<1>1. made' = made + 1 /\ lasock' = made' /\ waiting' = waiting \cup {made'}
  BY DEF Pair
<1>2. /\ Fine(lsock') /\ lsock'.state = "Accepting" /\ lsock'.fsm = "Active" /\ lsock'.s = 1
      /\ lsock'.tasks = <<kNetSockSrcTaskAccept>> /\ lsock'.events = <<>>
      /\ lsock'.epoll = NotAdded
      /\ FeedForeseen(lsock, kNetFsmAction, kNetSockActionAccept)
  BY AskedFields DEF Pair, Shape
<1>3. PICK g \in Garbage : socks' = [ss EXCEPT ![made'] = BeingAccepted(g)]
  BY DEF Pair
<1>4. g \in Interests
  BY AcceptAssumption
<1> DEFINE q == BeingAccepted(g)
<1>5. Fine(q) /\ Resting(q) /\ q.state = "BeingAccepted" /\ q.fsm = "Active" /\ q.s = -1
  BY <1>4, FreshFields
<1> HIDE DEF q
<1>6. socks' = [ss EXCEPT ![made'] = q] /\ q \in Sockets
  BY <1>3, <1>5 DEF q, Fine
<1>7. complained' = FALSE
  BY <1>2 DEF Pair, Shape
<1>8. waiting' = {made'}
  BY <1>1 DEF Pairing
<1>9. /\ socks' \in [Slots -> Sockets] /\ socks'[made'] = q
      /\ \A j \in Slots : j # made' => socks'[j] = ss[j]
  BY <1>1, <1>6
<1>10. fate' = fate
  <2>1. \A j \in Slots : Fine(socks'[j])
    BY <1>5, <1>9
  <2> QED
    BY <1>2, <2>1, ChecksPassed DEF Pair
<1> QED
  BY <1>1, <1>2, <1>5, <1>7, <1>8, <1>9, <1>10

\* PairListenSocket in NetDevice::Init.
LEMMA FirstPairInv ==
  ASSUME IInv, fate = "running", FirstPair
  PROVE  IInv'
<1>1. Opening /\ upc = "pair" /\ Shape /\ Pairing
  BY DEF IInv, ListenerPhase, FirstPair
<1>2. made = 0 /\ made + 1 = 1 /\ 1 \in Slots /\ lasock = 0
  BY <1>1, AcceptAssumption DEF Opening, Slots
<1>3. UNCHANGED <<eventsto, handing, lpc, ctx, connOf, inoff, parsed, got,
                  arrived, backlog, conn, sent>> /\ upc' = "done"
  BY DEF FirstPair, dataVars, netVars
<1>4. /\ made' = 1 /\ lasock' = 1 /\ waiting' = {1} /\ fate' = fate /\ complained' = FALSE
      /\ Fine(lsock') /\ lsock'.state = "Accepting" /\ lsock'.fsm = "Active" /\ lsock'.s = 1
      /\ lsock'.tasks = <<kNetSockSrcTaskAccept>> /\ lsock'.events = <<>>
      /\ lsock'.epoll = NotAdded
      /\ socks' \in [Slots -> Sockets]
      /\ \A j \in Slots : j # 1 => socks'[j] = socks[j]
      /\ Fine(socks'[1]) /\ Resting(socks'[1])
      /\ socks'[1].state = "BeingAccepted" /\ socks'[1].fsm = "Active"
      /\ socks'[1].s = -1
  <2>1. Pair(socks, FALSE) /\ socks \in [Slots -> Sockets] /\ \A j \in Slots : Fine(socks[j])
    BY <1>1 DEF FirstPair, Shape
  <2>2. /\ lsock.state = "Listening" /\ lsock.fsm = "Active" /\ lsock.s = 1 /\ Resting(lsock)
    BY <1>1 DEF Opening
  <2> QED
    BY <1>1, <1>2, <2>1, <2>2, PairEffect
<1>5. Shape'
  <2>1. \A i \in Slots : Fine(socks'[i])
    BY <1>1, <1>4 DEF Shape
  <2>2. Fine(lsock)'
    BY <1>4 DEF Fine
  <2>3. \A i \in Slots : Fine(socks[i])'
    BY <2>1 DEF Fine
  <2>4. lasock' \in 0 .. made' /\ made' \in 0 .. MaxConns + 1
    BY <1>4, AcceptAssumption
  <2> QED
    BY <1>1, <1>3, <1>4, <2>2, <2>3, <2>4 DEF Shape
<1>6. ListenerPhase'
  BY <1>1, <1>3, <1>4 DEF ListenerPhase, Waits, Opening
<1>7. SockPhases'
  <2> SUFFICES ASSUME NEW i \in Slots PROVE SockPhase(i)'
    BY DEF SockPhases
  <2>1. Resting(socks[i]) /\ ctx[i] = "free" /\ connOf[i] = 0 /\ inoff[i] = 0
    BY <1>2 DEF IInv, SockPhases, SockPhase, Slots
  <2>2. CASE i = 1
    BY <1>3, <1>4, <2>1, <2>2 DEF SockPhase, Fresh
  <2>3. CASE i # 1
    BY <1>3, <1>4, <2>1, <2>3 DEF SockPhase, Slots
  <2> QED
    BY <2>2, <2>3
<1>8. Pairing'
  BY <1>4 DEF Pairing
<1>9. InTurn' /\ Unread'
  BY <1>3, TurnRest DEF IInv, Unread
<1>10. NoMessageLost'
  <2>1. connOf'[1] = 0
    BY <1>2, <1>3 DEF IInv, SockPhases, SockPhase
  <2> QED
    BY <1>4, <2>1 DEF NoMessageLost
<1> QED
  BY <1>5, <1>6, <1>7, <1>8, <1>9, <1>10 DEF IInv

\* Its only task makes the worker poll for connections.
LEMMA RunListenerTaskInv ==
  ASSUME IInv, fate = "running", RunListenerTask
  PROVE  IInv'
<1>1. /\ lpc = "idle" /\ lsock.tasks # <<>> /\ Fine(lsock)
  BY DEF RunListenerTask, IInv, Shape
<1>2. /\ upc = "done" /\ Waits /\ made > 0 /\ lsock.fsm = "Active" /\ lsock.s = 1
      /\ lsock.tasks = <<kNetSockSrcTaskAccept>> /\ lsock.epoll = NotAdded
  BY <1>1 DEF IInv, ListenerPhase, Opening, Waits, Hands, Failed, Resting
<1>3. Head(lsock.tasks) = kNetSockSrcTaskAccept
  BY <1>2, ShortLists
<1>4. FeedListener(TakeTask(lsock), kNetSockSrcTaskAccept, kNetWorkerTaskExecute, "")
  BY <1>3 DEF RunListenerTask, TakeTask
<1>5. /\ Fine(lsock') /\ lsock'.state = "Accepting" /\ lsock'.fsm = "Active" /\ lsock'.s = 1
      /\ lsock'.tasks = <<>> /\ lsock'.events = <<>> /\ lsock'.epoll = {kNetWorkerFdIn}
      /\ complained' = complained /\ lpc' = "leaving"
  <2>1. \A out : LET q == Flush(Feed(TakeTask(lsock), kNetSockSrcTaskAccept,
                                     kNetWorkerTaskExecute, out)) IN
          /\ Fine(q) /\ q.state = lsock.state /\ q.fsm = "Active" /\ q.s = 1
          /\ q.tasks = <<>> /\ q.events = <<>> /\ q.epoll = {kNetWorkerFdIn}
          /\ FeedForeseen(TakeTask(lsock), kNetSockSrcTaskAccept, kNetWorkerTaskExecute)
    BY <1>1, <1>2, ArmedFields DEF Waits
  <2> QED
    BY <1>2, <1>4, <2>1 DEF FeedListener, Waits, IInv, Shape
<1>6. /\ UNCHANGED <<lasock, eventsto, handing, upc, fate, made>>
      /\ UNCHANGED <<sockVars, dataVars, netVars>>
  <2>1. ~Cancels(lsock, kNetSockSrcTaskAccept, kNetWorkerTaskExecute)
    BY DEF Cancels, InternalTasks, Tasks, kNetSockSrcTaskAccept, kNetSockSrcTaskStop
  <2>2. UNCHANGED socks /\ Check(TRUE, "check_failed")
    BY <1>3, <2>1 DEF RunListenerTask
  <2>3. fate' = fate
    BY <1>5, <2>2, StillFine, ChecksPassed
  <2> QED
    BY <2>2, <2>3 DEF RunListenerTask, sockVars
<1>7. ListenerPhase'
  BY <1>2, <1>5, <1>6 DEF ListenerPhase, Waits
<1> QED
  BY <1>2, <1>5, <1>6, <1>7, ListenerAlone DEF IInv, Shape, Waits

\* Where the listener is when its worker can accept.
LEMMA AcceptingPhase ==
  ASSUME IInv, fate = "running", Accepting
  PROVE  /\ upc = "done" /\ Waits /\ made > 0 /\ lasock = made
         /\ Fine(lsock) /\ lsock.fsm = "Active" /\ lsock.s = 1
         /\ lsock.state = "Accepting" /\ lsock.tasks = <<>> /\ lsock.events = <<>>
         /\ lsock.epoll = {kNetWorkerFdIn}
         /\ eventsto = <<>> /\ handing = <<>> /\ complained = FALSE
<1>1. lsock.epoll # NotAdded
  BY DEF Accepting, NotAdded, kNetWorkerFdIn
<1> QED
  BY <1>1 DEF IInv, Shape, ListenerPhase, Opening, Waits, Hands, Failed, Resting

\* Taking the first element of a list.
LEMMA TailFacts ==
  ASSUME NEW S, NEW q \in Seq(S), q # <<>>
  PROVE  /\ Tail(q) \in Seq(S) /\ Len(Tail(q)) = Len(q) - 1 /\ Len(q) \in Nat \ {0}
         /\ Head(q) = q[1] /\ q[1] \in S
         /\ \A k \in 1 .. Len(q) - 1 : Tail(q)[k] = q[k + 1] /\ k + 1 \in 1 .. Len(q)
OBVIOUS

\* The first connection in the backlog is new to the sockets, and the rest
\* are later.
LEMMA TailTurn ==
  ASSUME InTurn, backlog \in Seq(Conns), backlog # <<>>
  PROVE  /\ Head(backlog) \in Conns /\ Head(backlog) \in 1 .. arrived
         /\ \A i \in Slots : connOf[i] < Head(backlog)
         /\ \A k \in 1 .. Len(Tail(backlog)) :
              /\ Tail(backlog)[k] \in 1 .. arrived
              /\ Head(backlog) < Tail(backlog)[k]
              /\ \A i \in Slots : connOf[i] < Tail(backlog)[k]
         /\ \A k, l \in 1 .. Len(Tail(backlog)) :
              k < l => Tail(backlog)[k] < Tail(backlog)[l]
<1>1. /\ Len(Tail(backlog)) = Len(backlog) - 1 /\ Len(backlog) \in Nat \ {0}
      /\ Head(backlog) = backlog[1] /\ backlog[1] \in Conns
      /\ \A k \in 1 .. Len(backlog) - 1 : /\ Tail(backlog)[k] = backlog[k + 1]
                                          /\ k + 1 \in 1 .. Len(backlog)
  BY TailFacts
<1>2. /\ 1 \in 1 .. Len(backlog)
      /\ \A k \in 1 .. Len(backlog) - 1 : 1 < k + 1
  BY <1>1
<1>3. \A k, l \in 1 .. Len(backlog) - 1 : k < l => k + 1 < l + 1
  OBVIOUS
<1>4. \A k \in 1 .. Len(backlog) : /\ backlog[k] \in 1 .. arrived
                                   /\ \A i \in Slots : connOf[i] < backlog[k]
  BY DEF InTurn
<1>5. \A k, l \in 1 .. Len(backlog) : k < l => backlog[k] < backlog[l]
  BY DEF InTurn
<1>6. \A k \in 1 .. Len(Tail(backlog)) :
              /\ Tail(backlog)[k] \in 1 .. arrived
              /\ Head(backlog) < Tail(backlog)[k]
              /\ \A i \in Slots : connOf[i] < Tail(backlog)[k]
  <2> TAKE k \in 1 .. Len(Tail(backlog))
  <2>1. k \in 1 .. Len(backlog) - 1
    BY <1>1
  <2>2. Tail(backlog)[k] = backlog[k + 1] /\ k + 1 \in 1 .. Len(backlog) /\ 1 < k + 1
    BY <1>1, <1>2, <2>1
  <2>3. Head(backlog) < backlog[k + 1]
    BY <1>1, <1>2, <1>5, <2>2
  <2> QED
    BY <1>4, <2>2, <2>3
<1>7. \A k, l \in 1 .. Len(Tail(backlog)) : k < l => Tail(backlog)[k] < Tail(backlog)[l]
  BY <1>1, <1>3, <1>5
<1> QED
  BY <1>1, <1>2, <1>4, <1>6, <1>7

\* accept4 fails: the listener stays, or stops accepting.
LEMMA AcceptFailsInv ==
  ASSUME IInv, fate = "running", NEW out \in {"aborted", "nores"}, AcceptFails(out)
  PROVE  IInv'
<1>1. /\ upc = "done" /\ Waits /\ made > 0 /\ lasock = made
      /\ Fine(lsock) /\ lsock.fsm = "Active" /\ lsock.s = 1
      /\ lsock.state = "Accepting" /\ lsock.tasks = <<>> /\ lsock.events = <<>>
      /\ lsock.epoll = {kNetWorkerFdIn}
      /\ eventsto = <<>> /\ handing = <<>> /\ complained = FALSE
  BY AcceptingPhase DEF AcceptFails
<1>2. /\ lsock' = Flush(Feed(lsock, kNetSockSrcFd, kNetWorkerFdIn, out)) /\ lpc' = "leaving"
      /\ complained' = (complained \/ ~FeedForeseen(lsock, kNetSockSrcFd, kNetWorkerFdIn))
  BY DEF AcceptFails, FeedListener
<1>3. /\ Fine(lsock') /\ lsock'.fsm = "Active" /\ lsock'.s = 1 /\ lsock'.tasks = <<>>
      /\ out = "aborted" =>
           lsock'.state = "Accepting" /\ lsock'.events = <<>> /\ lsock'.epoll = {kNetWorkerFdIn}
      /\ out = "nores" =>
           /\ lsock'.state = "AcceptingError" /\ lsock'.epoll = NotAdded
           /\ lsock'.events = <<"error">> /\ lsock'.etype["error"] = "AcceptError"
      /\ FeedForeseen(lsock, kNetSockSrcFd, kNetWorkerFdIn)
  BY <1>1, <1>2, AcceptedFields
<1>4. complained' = complained
  BY <1>1, <1>2, <1>3
<1>5. UNCHANGED <<lasock, eventsto, handing, upc, made, socks, waiting, ctx, connOf, inoff,
                  parsed, got, arrived, conn, sent, fate>>
  <2>1. UNCHANGED socks /\ Check(TRUE, IF out = "other" THEN "accept_failed" ELSE "check_failed")
    BY DEF AcceptFails, sockVars
  <2>2. fate' = fate
    BY <1>3, <2>1, StillFine, ChecksPassed
  <2> QED
    BY <2>2 DEF AcceptFails, sockVars, dataVars
<1>6. ListenerPhase'
  BY <1>1, <1>3, <1>2, <1>5 DEF ListenerPhase, Waits, Failed
<1>7. backlog' = IF out = "aborted" THEN Tail(backlog) ELSE backlog
  BY DEF AcceptFails
<1>8. backlog \in Seq(Conns) /\ backlog # <<>>
  BY DEF IInv, Shape, AcceptFails, Accepting
<1>9. backlog' \in Seq(Conns)
  BY <1>7, <1>8, TailFacts
<1>10. Shape'
  <2>1. Fine(lsock)'
    BY <1>3 DEF Fine
  <2>2. \A i \in Slots : Fine(socks[i])'
    BY <1>5 DEF IInv, Shape, Fine
  <2> QED
    BY <1>2, <1>4, <1>5, <1>9, <2>1, <2>2 DEF IInv, Shape
<1>11. SockPhases'
  <2>1. ~(made > 0 /\ lasock = 0)
    BY <1>1
  <2>2. SockPhases /\ made \in Nat
    BY DEF IInv, Shape
  <2> QED
    BY <1>5, <2>1, <2>2, SocketsRest
<1>12. Unread' /\ NoMessageLost'
  BY <1>5, DataRest DEF IInv
<1>13. InTurn'
  <2>1. CASE out = "nores"
    BY <1>5, <1>7, <2>1, TurnRest DEF IInv
  <2>2. CASE out = "aborted"
    BY <1>5, <1>7, <1>8, <2>2, TailTurn DEF IInv, InTurn
  <2> QED
    BY <2>1, <2>2
<1>14. Pairing'
  BY <1>5 DEF IInv, Pairing
<1> QED
  BY <1>6, <1>10, <1>11, <1>12, <1>13, <1>14 DEF IInv

\* accept4 reports an error that is not expected: nothing but the CHECK.
LEMMA AcceptOtherInv ==
  ASSUME IInv, fate = "running", AcceptFails("other")
  PROVE  IInv'
<1>1. /\ upc = "done" /\ Waits /\ made > 0 /\ lasock = made
      /\ Fine(lsock) /\ lsock.fsm = "Active" /\ lsock.s = 1
      /\ lsock.state = "Accepting" /\ lsock.tasks = <<>> /\ lsock.events = <<>>
      /\ lsock.epoll = {kNetWorkerFdIn}
      /\ eventsto = <<>> /\ handing = <<>> /\ complained = FALSE
  BY AcceptingPhase DEF AcceptFails
<1>2. \A out : /\ Feed(lsock, kNetSockSrcFd, kNetWorkerFdIn, out) = AcceptStep(lsock, out)
               /\ FeedForeseen(lsock, kNetSockSrcFd, kNetWorkerFdIn)
  BY <1>1, Accepts
<1> DEFINE p == [lsock EXCEPT !.failed = TRUE]
           q == Flush(p)
<1>3. AcceptStep(lsock, "other") = p
  BY DEF AcceptStep
<1>5. /\ p \in Sockets /\ p.raised = NotRaised /\ p.failed /\ p.fsm = "Active" /\ p.s = 1
      /\ p.state = "Accepting" /\ p.tasks = <<>> /\ p.events = <<>>
      /\ p.epoll = {kNetWorkerFdIn}
  BY <1>1 DEF Fine, Sockets
<1> HIDE DEF p
<1>4. /\ q \in Sockets /\ q.raised = NotRaised /\ q.failed /\ q.fsm = "Active" /\ q.s = 1
      /\ q.state = "Accepting" /\ q.tasks = <<>> /\ q.events = <<>>
      /\ q.epoll = {kNetWorkerFdIn}
  BY <1>5, FlushNothing DEF Kept
<1>6. /\ lsock' = q /\ lpc' = "leaving" /\ complained' = FALSE /\ backlog' = backlog
      /\ Check(TRUE, "accept_failed")
      /\ UNCHANGED <<lasock, eventsto, handing, upc, made, socks, waiting, ctx, connOf, inoff,
                     parsed, got, arrived, conn, sent>>
  <2>1. /\ lsock' = Flush(Feed(lsock, kNetSockSrcFd, kNetWorkerFdIn, "other")) /\ lpc' = "leaving"
        /\ complained' = (complained \/ ~FeedForeseen(lsock, kNetSockSrcFd, kNetWorkerFdIn))
    BY DEF AcceptFails, FeedListener
  <2> QED
    BY <1>1, <1>2, <1>3, <2>1 DEF AcceptFails, sockVars, dataVars
<1> HIDE DEF q
<1>7. fate' = "accept_failed"
  BY <1>4, <1>6 DEF Check
<1>8. Shape'
  <2>1. \A i \in Slots : Fine(socks[i])'
    BY <1>6 DEF IInv, Shape, Fine
  <2> QED
    BY <1>4, <1>6, <1>7, <2>1 DEF IInv, Shape
<1>9. ListenerPhase'
  BY <1>1, <1>4, <1>6 DEF ListenerPhase, Waits
<1>10. SockPhases'
  <2>1. ~(made > 0 /\ lasock = 0)
    BY <1>1
  <2>2. SockPhases /\ made \in Nat
    BY DEF IInv, Shape
  <2> QED
    BY <1>6, <2>1, <2>2, SocketsRest
<1>11. Unread' /\ NoMessageLost' /\ InTurn' /\ Pairing'
  BY <1>6, DataRest, TurnRest DEF IInv, Pairing
<1> QED
  BY <1>8, <1>9, <1>10, <1>11 DEF IInv

\* The owner is told of an error of the listener, which ends the process.
LEMMA ListenerEventInv ==
  ASSUME IInv, fate = "running", ListenerEvent
  PROVE  IInv'
<1>1. lpc = "leaving" /\ lsock.events # <<>>
  BY DEF ListenerEvent
<1>2. /\ upc = "done" /\ Failed /\ made > 0 /\ Fine(lsock) /\ lsock.fsm = "Active" /\ lsock.s = 1
  BY <1>1 DEF IInv, Shape, ListenerPhase, Opening, Waits, Hands, Resting
<1>3. lsock.events = <<"error">> /\ lsock.etype["error"] = "AcceptError" /\ "error" \in Events
  BY <1>1, <1>2 DEF Failed, Events
<1>4. /\ lsock' = [lsock EXCEPT !.events = Tail(@), !.etype["error"] = "none"]
      /\ fate' = "unexpected_run"
  BY <1>3, ShortLists DEF ListenerEvent
<1>5. /\ Fine(lsock') /\ lsock'.state = "AcceptingError" /\ lsock'.fsm = "Active" /\ lsock'.s = 1
      /\ lsock'.tasks = <<>> /\ lsock'.events = <<>> /\ lsock'.epoll = NotAdded
  BY <1>2, <1>3, <1>4, ToldFields DEF Failed
<1>6. /\ UNCHANGED <<lasock, eventsto, handing, lpc, upc, made, complained>>
      /\ UNCHANGED <<sockVars, dataVars, netVars>>
  BY DEF ListenerEvent, sockVars
<1>7. ListenerPhase'
  BY <1>2, <1>4, <1>5, <1>6 DEF ListenerPhase, Failed
<1> QED
  BY <1>2, <1>4, <1>5, <1>6, <1>7, ListenerAlone DEF IInv, Shape, Failed

\* The worker leaves the context with what is to be handed over.
LEMMA LeaveListenerInv ==
  ASSUME IInv, fate = "running", LeaveListener
  PROVE  IInv'
<1>1. /\ lpc = "leaving" /\ lsock.events = <<>> /\ handing' = eventsto /\ eventsto' = <<>>
      /\ lpc' = IF eventsto = <<>> THEN "idle" ELSE "handing"
      /\ UNCHANGED <<lsock, lasock, upc, made, fate, complained>>
      /\ UNCHANGED <<sockVars, dataVars, netVars>>
  BY DEF LeaveListener, sockVars, endVars
<1>2. upc = "done" /\ made > 0 /\ lsock.fsm = "Active" /\ lsock.s = 1 /\ (Waits \/ Hands)
  BY <1>1 DEF IInv, ListenerPhase, Opening, Failed
<1>3. ASSUME Waits PROVE ListenerPhase'
  <2>1. Waits'
    BY <1>1, <1>3 DEF Waits
  <2> QED
    BY <1>1, <1>2, <2>1 DEF ListenerPhase
<1>4. ASSUME Hands PROVE ListenerPhase'
  <2>1. eventsto = <<made>> /\ <<made>> # <<>>
    BY <1>1, <1>4, ShortLists DEF Hands
  <2>2. Hands'
    BY <1>1, <1>4, <2>1 DEF Hands, Resting
  <2> QED
    BY <1>1, <1>2, <2>2 DEF ListenerPhase
<1>5. ListenerPhase' /\ Fine(lsock')
  BY <1>1, <1>2, <1>3, <1>4 DEF IInv, Shape
<1> QED
  BY <1>1, <1>5, ListenerAlone DEF IInv, Shape

\* Everything was handed over.
LEMMA HandedOverInv ==
  ASSUME IInv, fate = "running", HandedOver
  PROVE  IInv'
<1>1. /\ lpc = "handing" /\ handing = <<>> /\ lpc' = "idle"
      /\ UNCHANGED <<lsock, lasock, eventsto, handing, upc, made, fate, complained>>
      /\ UNCHANGED <<sockVars, dataVars, netVars>>
  BY DEF HandedOver, sockVars, endVars
<1>2. upc = "done" /\ made > 0 /\ lsock.fsm = "Active" /\ lsock.s = 1 /\ Waits
  BY <1>1, ShortLists DEF IInv, ListenerPhase, Opening, Hands, Failed
<1>3. ListenerPhase' /\ Fine(lsock')
  BY <1>1, <1>2 DEF IInv, Shape, ListenerPhase, Waits
<1> QED
  BY <1>1, <1>3, ListenerAlone DEF IInv, Shape

\* A socket that a step leaves alone stays where it was.
LEMMA PhaseKept ==
  ASSUME NEW i \in Slots, fate = "running",
         UNCHANGED <<socks[i], ctx[i], connOf[i], inoff[i]>>
  PROVE  /\ Fresh(i)' <=> Fresh(i)
         /\ Taken(i)' <=> Taken(i)
         /\ Reads(i)' <=> Reads(i)
         /\ Over(i) => Over(i)'
         /\ Resting(socks[i])' <=> Resting(socks[i])
BY DEF Fresh, Taken, Reads, Over, Resting

\* accept4 yields a connection.
LEMMA AcceptOneInv ==
  ASSUME IInv, fate = "running", AcceptOne
  PROVE  IInv'
<1> DEFINE c == Head(backlog)
<1>1. /\ upc = "done" /\ Waits /\ made > 0 /\ lasock = made
      /\ Fine(lsock) /\ lsock.fsm = "Active" /\ lsock.s = 1
      /\ lsock.state = "Accepting" /\ lsock.tasks = <<>> /\ lsock.events = <<>>
      /\ lsock.epoll = {kNetWorkerFdIn}
      /\ eventsto = <<>> /\ handing = <<>> /\ complained = FALSE
  BY AcceptingPhase DEF AcceptOne
<1>2. made \in Slots /\ made \in Nat /\ Slots \subseteq Nat \ {0} /\ arrived \in Nat
      /\ MaxConns \in Nat
  BY <1>1, AcceptAssumption DEF IInv, Shape, Slots
<1>3. Fresh(made) /\ Fine(socks[made]) /\ socks[made].fsm = "Active"
  BY <1>1, <1>2 DEF IInv, Shape, SockPhases, SockPhase
<1>4. /\ lsock' = Flush(Feed(lsock, kNetSockSrcFd, kNetWorkerFdIn, "ok")) /\ lpc' = "leaving"
      /\ complained' = (complained \/ ~FeedForeseen(lsock, kNetSockSrcFd, kNetWorkerFdIn))
  BY DEF AcceptOne, FeedListener
<1>5. /\ Fine(lsock') /\ lsock'.fsm = "Active" /\ lsock'.s = 1 /\ lsock'.tasks = <<>>
      /\ lsock'.state = "Listening" /\ lsock'.events = <<>> /\ lsock'.epoll = NotAdded
      /\ complained' = FALSE
  <2>1. \A out \in {"ok", "aborted", "nores"} :
          LET q == Flush(Feed(lsock, kNetSockSrcFd, kNetWorkerFdIn, out)) IN
          /\ Fine(q) /\ q.fsm = "Active" /\ q.s = lsock.s /\ q.tasks = <<>>
          /\ FeedForeseen(lsock, kNetSockSrcFd, kNetWorkerFdIn)
          /\ out = "ok" => q.state = "Listening" /\ q.events = <<>> /\ q.epoll = NotAdded
    BY <1>1, AcceptedFields
  <2> QED
    BY <1>1, <1>4, <2>1
<1>6. /\ socks' = [socks EXCEPT ![made].s = 1, ![made].state = "Accepted"]
      /\ connOf' = [connOf EXCEPT ![made] = c]
      /\ eventsto' = Push(eventsto, made)
      /\ waiting' = waiting \ {made}
      /\ lasock' = 0 /\ backlog' = Tail(backlog)
      /\ UNCHANGED <<handing, upc, made, ctx, inoff, parsed, got, arrived, conn, sent>>
      /\ Check(TRUE, "check_failed")
  BY <1>1, <1>3 DEF AcceptOne, Fresh, Check
<1>7. InTurn /\ backlog \in Seq(Conns) /\ backlog # <<>>
  BY DEF IInv, Shape, AcceptOne, Accepting
<1>8. /\ c \in Conns /\ c \in 1 .. arrived /\ \A i \in Slots : connOf[i] < c
      /\ \A k \in 1 .. Len(Tail(backlog)) :
           /\ Tail(backlog)[k] \in 1 .. arrived
           /\ c < Tail(backlog)[k]
           /\ \A i \in Slots : connOf[i] < Tail(backlog)[k]
      /\ \A k, l \in 1 .. Len(Tail(backlog)) : k < l => Tail(backlog)[k] < Tail(backlog)[l]
  BY <1>7, TailTurn
<1>9. Tail(backlog) \in Seq(Conns)
  BY <1>7, TailFacts
<1> DEFINE q == [socks[made] EXCEPT !.s = 1, !.state = "Accepted"]
<1>10. /\ Fine(q) /\ Resting(q) /\ q.state = "Accepted" /\ q.s = 1 /\ q.fsm = "Active"
  BY <1>3 DEF Fine, Fresh, Resting, Sockets, SockStates
<1>11. /\ socks \in [Slots -> Sockets] /\ socks' = [socks EXCEPT ![made] = q]
  BY <1>2, <1>3, <1>6 DEF IInv, Shape, Fine, Sockets
<1> HIDE DEF q
<1>12. /\ socks' \in [Slots -> Sockets] /\ socks'[made] = q
       /\ \A j \in Slots : j # made => socks'[j] = socks[j]
  BY <1>2, <1>10, <1>11 DEF Fine
<1>21. fate' = fate
  <2>1. \A j \in Slots : Fine(socks'[j])
    BY <1>10, <1>12, StillFine
  <2> QED
    BY <1>5, <1>6, <2>1, ChecksPassed
<1> HIDE DEF c
<1>13. /\ connOf \in [Slots -> 0 .. arrived] /\ connOf' \in [Slots -> 0 .. arrived]
       /\ connOf'[made] = c /\ connOf[made] = 0
       /\ \A j \in Slots : j # made => connOf'[j] = connOf[j]
  BY <1>2, <1>3, <1>6, <1>8 DEF IInv, Shape, Fresh
<1>14. Shape'
  <2>1. Fine(lsock)'
    BY <1>5 DEF Fine
  <2>2. \A i \in Slots : Fine(socks[i])'
    BY <1>10, <1>12 DEF IInv, Shape, Fine
  <2>3. lasock' \in 0 .. made'
    BY <1>2, <1>6
  <2> QED
    BY <1>4, <1>5, <1>6, <1>9, <1>12, <1>13, <1>21, <2>1, <2>2, <2>3 DEF IInv, Shape
<1>15. ListenerPhase'
  <2>1. eventsto' = <<made>>
    BY <1>1, <1>6, ShortLists
  <2>2. Hands'
    BY <1>1, <1>4, <1>5, <1>6, <2>1 DEF Hands, Resting
  <2> QED
    BY <1>1, <1>5, <1>6, <2>2 DEF ListenerPhase
<1>16. SockPhases'
  <2> SUFFICES ASSUME NEW j \in Slots PROVE SockPhase(j)'
    BY DEF SockPhases
  <2>1. CASE j = made
    <3>1. Taken(j)'
      BY <1>2, <1>3, <1>6, <1>8, <1>10, <1>12, <1>13, <2>1 DEF Taken, Fresh, Resting
    <3>2. ~(j > made') /\ j = made' /\ lasock' = 0 /\ j # 0
      BY <1>1, <1>2, <1>6, <2>1
    <3>3. lsock'.state = "Listening" /\ socks'[j].fsm = "Active"
      BY <1>5, <1>10, <1>12, <2>1
    <3> QED
      BY <3>1, <3>2, <3>3 DEF SockPhase
  <2>2. CASE j # made
    <3>1. UNCHANGED <<socks[j], ctx[j], connOf[j], inoff[j]>>
      BY <1>6, <1>12, <1>13, <2>2
    <3>2. SockPhase(j) /\ lasock # 0
      BY <1>1, <1>2 DEF IInv, SockPhases
    <3> QED
      BY <1>1, <1>2, <1>6, <2>2, <3>1, <3>2, PhaseKept DEF SockPhase
  <2> QED
    BY <2>1, <2>2
<1>17. Pairing'
  BY <1>1, <1>2, <1>6 DEF IInv, Pairing
<1>18. InTurn'
  <2>1. \A j \in Slots : j > made => connOf[j] = 0
    BY DEF IInv, SockPhases, SockPhase
  <2>2. made <= c
    <3>1. CASE made = 1
      BY <1>8, <3>1
    <3>2. CASE made # 1
      <4>1. made - 1 \in Slots
        BY <1>2, <3>2 DEF Slots
      <4>2. SockPhase(made - 1)
        BY <4>1 DEF IInv, SockPhases
      <4>3. connOf[made - 1] # 0
        BY <1>1, <1>2, <4>2 DEF SockPhase, Reads, Over
      <4>4. made - 1 <= connOf[made - 1] /\ connOf[made - 1] < c
        BY <1>7, <1>8, <4>1, <4>3 DEF InTurn
      <4> QED
        BY <1>2, <1>8, <1>13, <4>1, <4>4
    <3> QED
      BY <3>1, <3>2
  <2>3. \A i, j \in Slots : i < j /\ connOf'[j] # 0 => connOf'[i] < connOf'[j]
    <3> SUFFICES ASSUME NEW i \in Slots, NEW j \in Slots, i < j, connOf'[j] # 0
                 PROVE  connOf'[i] < connOf'[j]
      OBVIOUS
    <3>1. CASE j = made
      BY <1>2, <1>8, <1>13, <3>1
    <3>2. CASE j # made
      <4>1. connOf[j] # 0 /\ connOf'[j] = connOf[j] /\ i # made
        BY <1>2, <1>13, <2>1, <3>2
      <4> QED
        BY <1>7, <1>13, <4>1 DEF InTurn
    <3> QED
      BY <3>1, <3>2
  <2>4. \A i \in Slots : connOf'[i] # 0 => i <= connOf'[i]
    BY <1>7, <1>13, <2>2 DEF InTurn
  <2>5. \A k \in 1 .. Len(backlog') : /\ backlog'[k] \in 1 .. arrived'
                                      /\ \A i \in Slots : connOf'[i] < backlog'[k]
    BY <1>6, <1>8, <1>13
  <2> QED
    BY <1>6, <1>8, <2>3, <2>4, <2>5 DEF InTurn
<1>19. Unread'
  <2> SUFFICES ASSUME NEW d \in Conns, \A i \in Slots : connOf'[i] # d
               PROVE  got'[d] = 0 /\ parsed'[d] = 0
    BY DEF Unread
  <2>1. d # 0
    BY AcceptAssumption DEF Conns
  <2>2. \A i \in Slots : connOf[i] # d
    BY <1>13, <2>1
  <2> QED
    BY <1>6, <2>2 DEF IInv, Unread
<1>20. NoMessageLost'
  <2> SUFFICES ASSUME NEW i \in 1 .. made', connOf'[i] # 0
               PROVE  LET raised == IF "received" \in ToSet(socks'[i].events) THEN 1 ELSE 0 IN
                      got'[connOf'[i]] = (parsed'[connOf'[i]] + raised) * Parts + inoff'[i]
    BY DEF NoMessageLost
  <2>1. i \in Slots /\ i \in 1 .. made
    BY <1>2, <1>6 DEF Slots
  <2>2. CASE i = made
    <3>1. \A j \in Slots : connOf[j] # c
      BY <1>8, <1>13, <1>2
    <3>2. got[c] = 0 /\ parsed[c] = 0
      BY <1>8, <3>1 DEF IInv, Unread
    <3>3. "received" \notin ToSet(socks'[i].events)
      BY <1>10, <1>12, <2>2, ShortLists DEF Resting
    <3>4. inoff'[i] = 0 /\ Parts \in Nat
      BY <1>3, <1>6, <2>2, AcceptAssumption DEF Fresh
    <3> QED
      BY <1>6, <1>13, <2>2, <3>2, <3>3, <3>4
  <2>3. CASE i # made
    BY <1>6, <1>12, <1>13, <2>1, <2>3 DEF IInv, NoMessageLost
  <2> QED
    BY <2>2, <2>3
<1> QED
  BY <1>14, <1>15, <1>16, <1>17, <1>18, <1>19, <1>20 DEF IInv

\* The accepted socket is activated, and the listener is paired anew.
LEMMA HandOverInv ==
  ASSUME IInv, fate = "running", HandOver
  PROVE  IInv'
<1>1. /\ upc = "done" /\ Hands /\ lpc = "handing" /\ made > 0 /\ lsock.fsm = "Active" /\ lsock.s = 1
      /\ eventsto = <<>> /\ handing = <<made>>
  BY ShortLists DEF IInv, ListenerPhase, Opening, Waits, Hands, Failed, HandOver
<1>2. /\ lasock = 0 /\ Resting(lsock) /\ lsock.state = "Listening"
  BY <1>1 DEF Hands
<1>3. /\ made \in Slots /\ made \in Nat /\ Slots = 1 .. MaxConns + 1 /\ arrived \in 0 .. MaxConns
      /\ MaxConns \in Nat
  BY <1>1, AcceptAssumption DEF IInv, Shape, Slots
<1>4. Taken(made) /\ Fine(socks[made]) /\ socks[made].fsm = "Active"
  BY <1>1, <1>2, <1>3 DEF IInv, Shape, SockPhases, SockPhase
<1>5. made + 1 \in Slots
  <2>1. made <= connOf[made]
    BY <1>3, <1>4 DEF IInv, InTurn, Taken
  <2>2. connOf[made] \in 0 .. arrived
    BY <1>3 DEF IInv, Shape
  <2> QED
    BY <1>3, <2>1, <2>2
<1> DEFINE q == Execute(Action(socks[made], kNetSockActionActivate), kNetSockSrcTaskRecv)
           strange == ~FeedForeseen(socks[made], kNetFsmAction, kNetSockActionActivate)
           ss == [socks EXCEPT ![made] = q]
<1>6. /\ Fine(q) /\ q.state = "Active" /\ q.fsm = "Active" /\ q.s = 1
      /\ q.tasks = <<kNetSockSrcTaskRecv>> /\ q.events = <<>>
      /\ q.hevents = {} /\ q.epoll = {} /\ ~strange
  BY <1>4, ActivatedFields DEF Taken
<1>7. /\ Pair(ss, strange) /\ ctx' = [ctx EXCEPT ![made] = "leaving"]
      /\ handing' = Tail(handing)
      /\ UNCHANGED <<eventsto, lpc, upc, connOf, inoff, parsed, got,
                     arrived, backlog, conn, sent>>
  BY <1>1, ShortLists DEF HandOver, dataVars, netVars
<1> HIDE DEF q, strange
<1>8. /\ ss \in [Slots -> Sockets] /\ ss[made] = q
      /\ \A j \in Slots : j # made => ss[j] = socks[j]
  BY <1>3, <1>6 DEF IInv, Shape, Fine
<1> HIDE DEF ss
<1>9. /\ made' = made + 1 /\ lasock' = made' /\ waiting' = {made'} /\ fate' = fate
      /\ complained' = FALSE
      /\ Fine(lsock') /\ lsock'.state = "Accepting" /\ lsock'.fsm = "Active" /\ lsock'.s = 1
      /\ lsock'.tasks = <<kNetSockSrcTaskAccept>> /\ lsock'.events = <<>>
      /\ lsock'.epoll = NotAdded
      /\ socks' \in [Slots -> Sockets]
      /\ \A j \in Slots : j # made' => socks'[j] = ss[j]
      /\ Fine(socks'[made']) /\ Resting(socks'[made'])
      /\ socks'[made'].state = "BeingAccepted" /\ socks'[made'].fsm = "Active"
      /\ socks'[made'].s = -1
  <2>1. Shape /\ Pairing
    BY DEF IInv
  <2>2. Pair(ss, FALSE) /\ \A j \in Slots : Fine(ss[j])
    BY <1>6, <1>7, <1>8, StillFine DEF Pair
  <2> QED
    BY <1>1, <1>2, <1>5, <1>8, <2>1, <2>2, PairEffect
<1>10. /\ socks'[made] = q
       /\ \A j \in Slots : j # made /\ j # made' => socks'[j] = socks[j]
       /\ ctx' \in [Slots -> {"free", "leaving"}] /\ ctx'[made] = "leaving"
       /\ \A j \in Slots : j # made => ctx'[j] = ctx[j]
  <2>1. made # made'
    BY <1>3, <1>9
  <2>2. ctx \in [Slots -> {"free", "leaving"}]
    BY DEF IInv, Shape
  <2> QED
    BY <1>3, <1>7, <1>8, <1>9, <2>1, <2>2
<1>11. Shape'
  <2>1. Fine(lsock)'
    BY <1>9 DEF Fine
  <2>2. \A i \in Slots : Fine(socks[i])'
    <3> SUFFICES ASSUME NEW i \in Slots PROVE Fine(socks'[i])
      BY DEF Fine
    <3> QED
      BY <1>6, <1>9, <1>10 DEF IInv, Shape
  <2>3. lasock' \in 0 .. made' /\ made' \in 0 .. MaxConns + 1
    BY <1>3, <1>5, <1>9
  <2> QED
    BY <1>7, <1>9, <1>10, <2>1, <2>2, <2>3 DEF IInv, Shape
<1>12. ListenerPhase'
  <2>1. handing' = <<>> /\ eventsto' = <<>> /\ upc' = "done" /\ made' > 0
    BY <1>1, <1>3, <1>7, <1>9, ShortLists
  <2>2. Waits'
    BY <1>9, <2>1 DEF Waits
  <2> QED
    BY <1>9, <2>1, <2>2 DEF ListenerPhase
<1>13. SockPhases'
  <2> SUFFICES ASSUME NEW j \in Slots PROVE SockPhase(j)'
    BY DEF SockPhases
  <2>1. SockPhase(j) /\ j \in Nat \ {0}
    BY <1>3 DEF IInv, SockPhases
  <2>2. CASE j = made'
    <3>1. j > made /\ j # made /\ ~(j > made')
      BY <1>3, <1>9, <2>2
    <3>2. ctx'[j] = "free" /\ connOf'[j] = 0 /\ inoff'[j] = 0
      BY <1>7, <1>10, <2>1, <3>1 DEF SockPhase
    <3>3. Fresh(j)'
      BY <1>9, <2>2, <3>2 DEF Fresh, Resting
    <3>4. socks'[j].fsm = "Active" /\ j = lasock'
      BY <1>9, <2>2
    <3> QED
      BY <3>1, <3>3, <3>4 DEF SockPhase
  <2>3. CASE j = made
    <3>1. ~(j > made') /\ j # lasock' /\ j # made'
      BY <1>3, <1>9, <2>3
    <3>2. Reads(j)'
      BY <1>4, <1>6, <1>7, <1>10, <2>3 DEF Reads, Taken
    <3>3. socks'[j].fsm = "Active"
      BY <1>6, <1>10, <2>3
    <3> QED
      BY <3>1, <3>2, <3>3 DEF SockPhase
  <2>4. CASE j # made /\ j # made'
    <3>1. UNCHANGED <<socks[j], ctx[j], connOf[j], inoff[j]>>
      BY <1>7, <1>10, <2>4
    <3>2. (j > made' <=> j > made) /\ j # lasock' /\ j # lasock
      BY <1>2, <1>3, <1>9, <2>1, <2>4
    <3>3. CASE j > made
      BY <2>1, <3>1, <3>2, <3>3, PhaseKept DEF SockPhase
    <3>4. CASE ~(j > made)
      <4>1. (Reads(j) \/ Over(j)) /\ socks[j].fsm = "Active"
        BY <2>1, <2>4, <3>2, <3>4 DEF SockPhase
      <4>2. Reads(j)' \/ Over(j)'
        BY <3>1, <4>1, PhaseKept
      <4> QED
        BY <2>4, <3>1, <3>2, <3>4, <4>1, <4>2 DEF SockPhase
    <3> QED
      BY <3>3, <3>4
  <2> QED
    BY <2>2, <2>3, <2>4
<1>14. Pairing'
  BY <1>3, <1>9 DEF Pairing
<1>15. InTurn' /\ Unread'
  BY <1>7, TurnRest DEF IInv, Unread
<1>16. NoMessageLost'
  <2> SUFFICES ASSUME NEW i \in 1 .. made', connOf'[i] # 0
               PROVE  LET raised == IF "received" \in ToSet(socks'[i].events) THEN 1 ELSE 0 IN
                      got'[connOf'[i]] = (parsed'[connOf'[i]] + raised) * Parts + inoff'[i]
    BY DEF NoMessageLost
  <2>1. i \in Slots
    BY <1>3, <1>5, <1>9
  <2>2. i # made'
    <3>1. made' \in Slots /\ made' > made /\ SockPhase(made')
      BY <1>3, <1>5, <1>9 DEF IInv, SockPhases
    <3> QED
      BY <1>7, <3>1 DEF SockPhase
  <2>3. i \in 1 .. made
    BY <1>3, <1>9, <2>2
  <2>4. socks'[i].events = socks[i].events
    BY <1>4, <1>6, <1>10, <2>1, <2>2 DEF Taken, Resting
  <2> QED
    BY <1>7, <2>3, <2>4 DEF IInv, NoMessageLost
<1> QED
  BY <1>11, <1>12, <1>13, <1>14, <1>15, <1>16 DEF IInv
-----------------------------------------------------------------------------
(* The worker of an accepted socket. *)

\* A socket that was made has a slot.
LEMMA MadeSlots ==
  ASSUME IInv
  PROVE  1 .. made \subseteq Slots
BY AcceptAssumption DEF IInv, Shape, Slots

\* A socket at which something is going on reads, or has met an error.
LEMMA AtWork ==
  ASSUME IInv, NEW i \in Slots, ~Resting(socks[i]) \/ ctx[i] = "leaving"
  PROVE  /\ i \in 1 .. made /\ i # lasock /\ (Reads(i) \/ Over(i))
         /\ connOf[i] \in Conns /\ connOf[i] # 0
         /\ Fine(socks[i]) /\ socks[i].fsm = "Active"
         /\ ~(i = made /\ lasock = 0 /\ lsock.state = "Listening")
<1>1. SockPhase(i) /\ Fine(socks[i]) /\ i \in Nat \ {0} /\ made \in Nat /\ connOf[i] \in 0 .. arrived
      /\ arrived \in 0 .. MaxConns /\ MaxConns \in Nat
  BY AcceptAssumption DEF IInv, Shape, SockPhases, Slots
<1>2. /\ ~(i > made) /\ i # lasock /\ (Reads(i) \/ Over(i))
      /\ ~(i = made /\ lasock = 0 /\ lsock.state = "Listening")
      /\ socks[i].fsm = "Active"
  BY <1>1 DEF SockPhase, Fresh, Taken
<1>3. connOf[i] # 0
  BY <1>2 DEF Reads, Over
<1> QED
  BY <1>1, <1>2, <1>3 DEF Conns

\* A step of one such socket, which stays one.
LEMMA OneSocket ==
  ASSUME IInv, fate = "running", NEW i \in Slots, ~Resting(socks[i]) \/ ctx[i] = "leaving",
         UNCHANGED <<lsock, lasock, eventsto, handing, lpc, upc, made, waiting, connOf,
                     arrived, backlog, conn, sent>>,
         NEW q, Fine(q), q.fsm = "Active", socks' = [socks EXCEPT ![i] = q],
         NEW where \in {"free", "leaving"}, ctx' = [ctx EXCEPT ![i] = where],
         NEW off \in 0 .. Parts - 1, inoff' = [inoff EXCEPT ![i] = off],
         got' \in [Conns -> Nat], parsed' \in [Conns -> Nat],
         \A c \in Conns : got'[c] <= sent[c],
         fate' \in {"running", "unexpected_run"}, complained' = FALSE,
         Reads(i)' \/ Over(i)'
  PROVE  Shape' /\ ListenerPhase' /\ SockPhases' /\ Pairing' /\ InTurn'
<1>1. /\ socks' \in [Slots -> Sockets] /\ socks'[i] = q
      /\ \A j \in Slots : j # i => socks'[j] = socks[j]
  BY DEF IInv, Shape, Fine
<1>2. /\ ctx' \in [Slots -> {"free", "leaving"}] /\ ctx'[i] = where
      /\ \A j \in Slots : j # i => ctx'[j] = ctx[j]
  BY DEF IInv, Shape
<1>3. /\ inoff' \in [Slots -> 0 .. Parts - 1] /\ inoff'[i] = off
      /\ \A j \in Slots : j # i => inoff'[j] = inoff[j]
  BY DEF IInv, Shape
<1>4. Shape'
  <2>1. Fine(lsock)'
    BY DEF IInv, Shape, Fine
  <2>2. \A j \in Slots : Fine(socks[j])'
    BY <1>1 DEF IInv, Shape, Fine
  <2> QED
    BY <1>1, <1>2, <1>3, <2>1, <2>2 DEF IInv, Shape
<1>5. ListenerPhase'
  BY DEF IInv, ListenerPhase, Waits, Hands, Failed, Opening, Resting
<1>6. SockPhases'
  <2> SUFFICES ASSUME NEW j \in Slots PROVE SockPhase(j)'
    BY DEF SockPhases
  <2>1. CASE j = i
    <3>1. /\ j \in 1 .. made /\ j # lasock
          /\ ~(j = made /\ lasock = 0 /\ lsock.state = "Listening")
      BY <2>1, AtWork
    <3>2. ~(j > made) /\ socks'[j].fsm = "Active"
      BY <1>1, <2>1, <3>1, made \in Nat DEF IInv, Shape
    <3>3. Reads(j)' \/ Over(j)'
      BY <2>1
    <3> QED
      BY <3>1, <3>2, <3>3 DEF SockPhase
  <2>2. CASE j # i
    <3>1. UNCHANGED <<socks[j], ctx[j], connOf[j], inoff[j]>>
      BY <1>1, <1>2, <1>3, <2>2
    <3>2. SockPhase(j)
      BY DEF IInv, SockPhases
    <3> QED
      BY <3>1, <3>2, PhaseKept DEF SockPhase
  <2> QED
    BY <2>1, <2>2
<1>7. Pairing'
  BY DEF IInv, Pairing
<1>8. InTurn'
  BY TurnRest DEF IInv
<1> QED
  BY <1>4, <1>5, <1>6, <1>7, <1>8

\* What is read and parsed of one connection does not concern the others.
LEMMA OneConnection ==
  ASSUME IInv, NEW i \in 1 .. made, connOf[i] # 0, UNCHANGED <<made, connOf>>,
         \A c \in Conns : c # connOf[i] => got'[c] = got[c] /\ parsed'[c] = parsed[c],
         \A j \in 1 .. made : j # i => socks'[j].events = socks[j].events /\ inoff'[j] = inoff[j],
         NEW raised, raised = IF "received" \in ToSet(socks'[i].events) THEN 1 ELSE 0,
         got'[connOf[i]] = (parsed'[connOf[i]] + raised) * Parts + inoff'[i]
  PROVE  Unread' /\ NoMessageLost'
<1>1. 1 .. made \subseteq Slots /\ Slots \subseteq Nat /\ arrived \in 0 .. MaxConns
      /\ MaxConns \in Nat /\ connOf \in [Slots -> 0 .. arrived]
  BY AcceptAssumption DEF IInv, Shape, Slots
<1>2. Unread'
  <2> SUFFICES ASSUME NEW d \in Conns, \A j \in Slots : connOf[j] # d
               PROVE  got'[d] = 0 /\ parsed'[d] = 0
    BY DEF Unread
  <2>1. d # connOf[i]
    BY <1>1
  <2> QED
    BY <2>1 DEF IInv, Unread
<1>3. NoMessageLost'
  <2> SUFFICES ASSUME NEW j \in 1 .. made, connOf[j] # 0
               PROVE  LET up == IF "received" \in ToSet(socks'[j].events) THEN 1 ELSE 0 IN
                      got'[connOf[j]] = (parsed'[connOf[j]] + up) * Parts + inoff'[j]
    BY DEF NoMessageLost
  <2>1. CASE j = i
    BY <2>1
  <2>2. CASE j # i
    <3>1. connOf[j] \in Conns /\ connOf[i] \in Conns
      BY <1>1 DEF Conns
    <3>2. j < i \/ i < j
      BY <1>1, <2>2
    <3>3. connOf[j] # connOf[i]
      BY <1>1, <3>1, <3>2 DEF IInv, InTurn, Conns
    <3>4. got'[connOf[j]] = got[connOf[j]] /\ parsed'[connOf[j]] = parsed[connOf[j]]
      BY <3>1, <3>3
    <3>5. socks'[j].events = socks[j].events /\ inoff'[j] = inoff[j]
      BY <2>2
    <3> QED
      BY <3>4, <3>5 DEF IInv, NoMessageLost
  <2> QED
    BY <2>1, <2>2
<1> QED
  BY <1>2, <1>3

\* The CHECKs met by the machine of an accepted socket hold.
LEMMA FedFate ==
  ASSUME IInv, fate = "running", NEW i \in Slots, NEW r, NEW src, NEW type, NEW out,
         FeedSock(i, r, src, type, out), Fine(socks'[i])
  PROVE  fate' = "running"
<1>1. \A j \in Slots : Fine(socks'[j])
  <2> TAKE j \in Slots
  <2>1. j # i => socks'[j] = socks[j]
    BY DEF FeedSock, IInv, Shape
  <2> QED
    BY <2>1, StillFine
<1>2. Fine(lsock') /\ Check(TRUE, "check_failed")
  BY StillFine DEF FeedSock, listenerVars
<1> QED
  BY <1>1, <1>2, ChecksPassed

\* task_recv, the only task of an accepted socket.
LEMMA RunSockTaskInv ==
  ASSUME IInv, fate = "running", NEW i \in Slots, RunSockTask(i)
  PROVE  IInv'
<1>1. ~Resting(socks[i]) /\ socks[i].tasks # <<>> /\ ctx[i] = "free"
  BY DEF RunSockTask, FeedSock, Resting
<1>2. Reads(i) /\ Fine(socks[i]) /\ socks[i].fsm = "Active" /\ i \in 1 .. made /\ connOf[i] # 0
  BY <1>1, AtWork DEF Over
<1>3. /\ socks[i].tasks = <<kNetSockSrcTaskRecv>> /\ socks[i].epoll = {} /\ socks[i].hevents = {}
      /\ socks[i].events = <<>>
  BY <1>1, <1>2 DEF Reads
<1>4. Head(socks[i].tasks) = kNetSockSrcTaskRecv
  BY <1>3, ShortLists
<1>5. FeedSock(i, TakeTask(socks[i]), kNetSockSrcTaskRecv, kNetWorkerTaskExecute, "")
  BY <1>4 DEF RunSockTask, TakeTask
<1>6. PICK q : /\ socks' = [socks EXCEPT ![i] = q]
               /\ Fine(q) /\ q.state = socks[i].state /\ q.fsm = "Active" /\ q.s = socks[i].s
               /\ q.tasks = <<>> /\ q.events = <<>> /\ q.epoll = {kNetWorkerFdIn}
               /\ FeedForeseen(TakeTask(socks[i]), kNetSockSrcTaskRecv, kNetWorkerTaskExecute)
  <2>1. \A out : LET q == Flush(Feed(TakeTask(socks[i]), kNetSockSrcTaskRecv,
                                     kNetWorkerTaskExecute, out)) IN
          /\ Fine(q) /\ q.state = socks[i].state /\ q.fsm = "Active" /\ q.s = socks[i].s
          /\ q.tasks = <<>> /\ q.events = <<>> /\ q.epoll = {kNetWorkerFdIn}
          /\ FeedForeseen(TakeTask(socks[i]), kNetSockSrcTaskRecv, kNetWorkerTaskExecute)
    BY <1>2, <1>3, ReadyFields
  <2> QED
    BY <1>5, <2>1 DEF FeedSock
<1>7. socks'[i] = q
  BY <1>6 DEF IInv, Shape
<1>8. /\ complained' = FALSE /\ fate' = "running" /\ ctx' = [ctx EXCEPT ![i] = "leaving"]
      /\ UNCHANGED <<made, waiting>>
  <2>1. fate' = "running"
    BY <1>5, <1>6, <1>7, FedFate
  <2> QED
    BY <1>5, <1>6, <2>1 DEF FeedSock, IInv, Shape
<1>9. UNCHANGED <<lsock, lasock, eventsto, handing, lpc, upc, connOf, inoff, parsed, got,
                  arrived, backlog, conn, sent>>
  BY DEF RunSockTask, FeedSock, listenerVars, dataVars, netVars
<1>10. Reads(i)'
  BY <1>2, <1>6, <1>7, <1>9 DEF Reads
<1>11. Shape' /\ ListenerPhase' /\ SockPhases' /\ Pairing' /\ InTurn'
  <2>1. inoff' = [inoff EXCEPT ![i] = inoff[i]] /\ inoff[i] \in 0 .. Parts - 1
        /\ got' \in [Conns -> Nat] /\ parsed' \in [Conns -> Nat]
        /\ \A c \in Conns : got'[c] <= sent[c]
    BY <1>9 DEF IInv, Shape
  <2> QED
    BY <1>1, <1>6, <1>8, <1>9, <1>10, <2>1, OneSocket
<1>12. Unread' /\ NoMessageLost'
  <2>1. \A j \in 1 .. made : socks'[j].events = socks[j].events
    BY <1>3, <1>6, <1>7, MadeSlots DEF IInv, Shape
  <2> QED
    BY <1>8, <1>9, <2>1, DataRest DEF IInv
<1> QED
  BY <1>11, <1>12 DEF IInv

\* in_offset starts again at the end of a message.
LEMMA FullOffset ==
  ASSUME NEW a \in 1 .. Parts
  PROVE  a % Parts = IF a = Parts THEN 0 ELSE a
<1>1. ASSUME NEW x \in Nat, NEW y \in Nat, x < y PROVE x % y = x
  BY <1>1
<1>2. ASSUME NEW y \in Nat \ {0} PROVE y % y = 0
  BY <1>2
<1>3. Parts \in Nat \ {0} /\ a \in Nat /\ (a < Parts \/ a = Parts)
  BY AcceptAssumption
<1> QED
  BY <1>1, <1>2, <1>3

\* What was read of a connection, when a message may be complete.
LEMMA Counted ==
  ASSUME NEW g \in Nat, NEW p \in Nat, NEW off \in 0 .. Parts - 1, NEW n \in 1 .. Parts,
         n <= Parts - off, g = p * Parts + off
  PROVE  /\ off + n \in 1 .. Parts
         /\ off + n = Parts => g + n = (p + 1) * Parts + 0
         /\ off + n # Parts => g + n = (p + 0) * Parts + (off + n)
<1>1. Parts \in Nat \ {0} /\ p * Parts \in Nat
  BY AcceptAssumption
<1>2. (p + 1) * Parts = p * Parts + Parts /\ (p + 0) * Parts = p * Parts
  BY <1>1
<1> DEFINE w == p * Parts
           v == (p + 1) * Parts
           u == (p + 0) * Parts
<1>3. w \in Nat /\ v = w + Parts /\ u = w /\ g = w + off
  BY <1>1, <1>2
<1> HIDE DEF w, v, u
<1>4. /\ off + n \in 1 .. Parts
      /\ off + n = Parts => g + n = v + 0
      /\ off + n # Parts => g + n = u + (off + n)
  BY <1>1, <1>3
<1> QED
  BY <1>4 DEF w, v, u

\* RecvRaw reads, and completes a message or not.
LEMMA RecvRawInv ==
  ASSUME IInv, fate = "running", NEW i \in Slots, NEW n \in 1 .. Parts, RecvRaw(i, n)
  PROVE  IInv'
<1> DEFINE c == connOf[i]
           off == (inoff[i] + n) % Parts
           out == IF off = 0 THEN "msg" ELSE "again"
<1>1. ~Resting(socks[i]) /\ ctx[i] = "free" /\ kNetWorkerFdIn \in socks[i].epoll
  BY DEF RecvRaw, Readable, FeedSock, Resting, NotAdded, kNetWorkerFdIn
<1>2. /\ Reads(i) /\ Fine(socks[i]) /\ socks[i].fsm = "Active" /\ i \in 1 .. made
      /\ c # 0 /\ c \in Conns
  BY <1>1, AtWork DEF Over
<1>3. /\ socks[i].tasks = <<>> /\ socks[i].epoll = {kNetWorkerFdIn}
      /\ socks[i].events = <<>> /\ socks[i].state = "Active" /\ socks[i].s = 1
  BY <1>1, <1>2 DEF Reads
<1>4. /\ inoff \in [Slots -> 0 .. Parts - 1] /\ got \in [Conns -> Nat] /\ parsed \in [Conns -> Nat]
      /\ sent \in [Conns -> Nat] /\ \A d \in Conns : got[d] <= sent[d]
      /\ Parts \in Nat \ {0}
  BY AcceptAssumption DEF IInv, Shape
<1>5. /\ n <= sent[c] - got[c] /\ n <= Parts - inoff[i]
      /\ got' = [got EXCEPT ![c] = @ + n] /\ inoff' = [inoff EXCEPT ![i] = off]
      /\ UNCHANGED <<lsock, lasock, eventsto, handing, lpc, upc, connOf, parsed,
                     arrived, backlog, conn, sent>>
  BY <1>4 DEF RecvRaw, FeedSock, listenerVars, netVars
<1>6. inoff[i] \in 0 .. Parts - 1 /\ got[c] \in Nat /\ parsed[c] \in Nat /\ sent[c] \in Nat
  BY <1>2, <1>4
<1>7. got[c] = parsed[c] * Parts + inoff[i]
  <2>1. "received" \notin ToSet(socks[i].events)
    BY <1>3, ShortLists
  <2>2. got[c] = (parsed[c] + 0) * Parts + inoff[i]
    BY <1>2, <2>1 DEF IInv, NoMessageLost
  <2>3. parsed[c] + 0 = parsed[c]
    BY <1>6
  <2> QED
    BY <2>2, <2>3
<1>8. /\ inoff[i] + n \in 1 .. Parts
      /\ inoff[i] + n = Parts => got[c] + n = (parsed[c] + 1) * Parts + 0
      /\ inoff[i] + n # Parts => got[c] + n = (parsed[c] + 0) * Parts + (inoff[i] + n)
  BY <1>5, <1>6, <1>7, Counted
<1>9. off = IF inoff[i] + n = Parts THEN 0 ELSE inoff[i] + n
  BY <1>8, FullOffset
<1>10. /\ off \in 0 .. Parts - 1
       /\ got[c] + n = (parsed[c] + (IF out = "msg" THEN 1 ELSE 0)) * Parts + off
  <2>1. CASE inoff[i] + n = Parts
    BY <1>4, <1>8, <1>9, <2>1
  <2>2. CASE inoff[i] + n # Parts
    <3>1. off = inoff[i] + n /\ off # 0 /\ off \in 0 .. Parts - 1
      BY <1>4, <1>8, <1>9, <2>2
    <3> HIDE DEF off
    <3> QED
      BY <1>8, <2>2, <3>1
  <2> QED
    BY <2>1, <2>2
<1>11. inoff'[i] = off
  BY <1>4, <1>5
<1>12. FeedSock(i, socks[i], kNetSockSrcFd, kNetWorkerFdIn, out)
  BY <1>11 DEF RecvRaw
<1> HIDE DEF off, out
<1> DEFINE q == Flush(Feed(socks[i], kNetSockSrcFd, kNetWorkerFdIn, out))
<1>13. /\ Fine(q) /\ q.fsm = "Active" /\ q.s = 1 /\ q.tasks = <<>>
       /\ q.state = "Active" /\ q.epoll = {kNetWorkerFdIn}
       /\ IF out = "msg" THEN q.events = <<"received">> /\ q.etype["received"] = "Received"
          ELSE q.events = <<>>
       /\ FeedForeseen(socks[i], kNetSockSrcFd, kNetWorkerFdIn)
  BY <1>2, <1>3, ReceivedFields
<1>14. socks' = [socks EXCEPT ![i] = q]
  BY <1>12 DEF FeedSock
<1> HIDE DEF q
<1>15. socks'[i] = q /\ \A j \in Slots : j # i => socks'[j] = socks[j]
  BY <1>14 DEF IInv, Shape
<1>16. /\ complained' = FALSE /\ fate' = "running" /\ ctx' = [ctx EXCEPT ![i] = "leaving"]
       /\ UNCHANGED <<made, waiting>>
  <2>1. fate' = "running"
    BY <1>12, <1>13, <1>15, FedFate
  <2> QED
    BY <1>12, <1>13, <2>1 DEF FeedSock, IInv, Shape
<1>17. Reads(i)'
  <2>1. ctx'[i] = "leaving"
    BY <1>16 DEF IInv, Shape
  <2> QED
    BY <1>2, <1>5, <1>13, <1>15, <2>1 DEF Reads
<1> HIDE DEF c
<1>18. /\ got' \in [Conns -> Nat] /\ parsed' \in [Conns -> Nat] /\ got'[c] = got[c] + n
       /\ \A d \in Conns : d # c => got'[d] = got[d] /\ parsed'[d] = parsed[d]
       /\ \A d \in Conns : got'[d] <= sent[d]
  BY <1>2, <1>4, <1>5, <1>6
<1>19. Shape' /\ ListenerPhase' /\ SockPhases' /\ Pairing' /\ InTurn'
  BY <1>1, <1>5, <1>10, <1>13, <1>14, <1>16, <1>17, <1>18, OneSocket
<1>20. Unread' /\ NoMessageLost'
  <2> DEFINE raised == IF out = "msg" THEN 1 ELSE 0
  <2>1. raised = IF "received" \in ToSet(socks'[i].events) THEN 1 ELSE 0
    BY <1>13, <1>15, ShortLists
  <2>2. got'[c] = (parsed'[c] + raised) * Parts + inoff'[i]
    BY <1>5, <1>10, <1>11, <1>18
  <2>3. \A j \in 1 .. made : j # i => socks'[j].events = socks[j].events /\ inoff'[j] = inoff[j]
    BY <1>4, <1>5, <1>15, MadeSlots
  <2> HIDE DEF raised
  <2> QED
    BY <1>2, <1>5, <1>16, <1>18, <2>1, <2>2, <2>3, OneConnection DEF c
<1> QED
  BY <1>19, <1>20 DEF IInv

\* Nothing is counted, and no message comes up or goes.
LEMMA Quiet ==
  ASSUME IInv, fate = "running", NEW i \in Slots, ~Resting(socks[i]) \/ ctx[i] = "leaving",
         UNCHANGED <<lsock, lasock, eventsto, handing, lpc, upc, made, waiting, connOf,
                     arrived, backlog, conn, sent, inoff, got, parsed>>,
         NEW q, Fine(q), q.fsm = "Active", socks' = [socks EXCEPT ![i] = q],
         "received" \in ToSet(q.events) <=> "received" \in ToSet(socks[i].events),
         NEW where \in {"free", "leaving"}, ctx' = [ctx EXCEPT ![i] = where],
         fate' \in {"running", "unexpected_run"}, complained' = FALSE,
         Reads(i)' \/ Over(i)'
  PROVE  IInv'
<1>1. /\ inoff' = [inoff EXCEPT ![i] = inoff[i]] /\ inoff[i] \in 0 .. Parts - 1
      /\ got' \in [Conns -> Nat] /\ parsed' \in [Conns -> Nat]
      /\ \A c \in Conns : got'[c] <= sent[c]
  BY DEF IInv, Shape
<1>2. Shape' /\ ListenerPhase' /\ SockPhases' /\ Pairing' /\ InTurn'
  BY <1>1, OneSocket
<1>3. socks'[i] = q /\ \A j \in Slots : j # i => socks'[j] = socks[j]
  BY DEF IInv, Shape
<1>4. Unread' /\ NoMessageLost'
  <2>1. \A j \in 1 .. made :
          "received" \in ToSet(socks'[j].events) <=> "received" \in ToSet(socks[j].events)
    BY <1>3, MadeSlots
  <2> QED
    BY <2>1 DEF IInv, Unread, NoMessageLost
<1> QED
  BY <1>2, <1>4 DEF IInv

\* The end of the stream, or a reset that read() reports.
LEMMA RecvNothingInv ==
  ASSUME IInv, fate = "running", NEW i \in Slots, RecvNothing(i)
  PROVE  IInv'
<1> DEFINE out == IF conn[connOf[i]] = "reset" THEN "reset" ELSE "again"
<1>1. ~Resting(socks[i]) /\ ctx[i] = "free" /\ kNetWorkerFdIn \in socks[i].epoll
  BY DEF RecvNothing, Readable, FeedSock, Resting, NotAdded, kNetWorkerFdIn
<1>2. /\ Reads(i) /\ Fine(socks[i]) /\ socks[i].fsm = "Active" /\ connOf[i] # 0
  BY <1>1, AtWork DEF Over
<1>3. /\ socks[i].tasks = <<>> /\ socks[i].epoll = {kNetWorkerFdIn}
      /\ socks[i].events = <<>> /\ socks[i].state = "Active" /\ socks[i].s = 1
  BY <1>1, <1>2 DEF Reads
<1>4. FeedSock(i, socks[i], kNetSockSrcFd, kNetWorkerFdIn, out) /\ out # "msg"
  BY DEF RecvNothing
<1>5. UNCHANGED <<lsock, lasock, eventsto, handing, lpc, upc, connOf, inoff, parsed, got,
                  arrived, backlog, conn, sent>>
  BY DEF RecvNothing, FeedSock, listenerVars, dataVars, netVars
<1> HIDE DEF out
<1> DEFINE q == Flush(Feed(socks[i], kNetSockSrcFd, kNetWorkerFdIn, out))
<1>6. /\ Fine(q) /\ q.fsm = "Active" /\ q.s = 1 /\ q.tasks = <<>>
      /\ q.state = "Active" /\ q.epoll = {kNetWorkerFdIn} /\ q.events = <<>>
      /\ FeedForeseen(socks[i], kNetSockSrcFd, kNetWorkerFdIn)
  BY <1>2, <1>3, <1>4, ReceivedFields
<1>7. socks' = [socks EXCEPT ![i] = q]
  BY <1>4 DEF FeedSock
<1> HIDE DEF q
<1>8. socks'[i] = q
  BY <1>7 DEF IInv, Shape
<1>9. /\ complained' = FALSE /\ fate' = "running" /\ ctx' = [ctx EXCEPT ![i] = "leaving"]
      /\ UNCHANGED <<made, waiting>>
  <2>1. fate' = "running"
    BY <1>4, <1>6, <1>8, FedFate
  <2> QED
    BY <1>4, <1>6, <2>1 DEF FeedSock, IInv, Shape
<1>10. Reads(i)'
  BY <1>2, <1>5, <1>6, <1>8 DEF Reads
<1> QED
  BY <1>1, <1>3, <1>5, <1>6, <1>7, <1>9, <1>10, Quiet

\* EPOLLERR or EPOLLHUP.
LEMMA SockErrorInv ==
  ASSUME IInv, fate = "running", NEW i \in Slots, SockError(i)
  PROVE  IInv'
<1>1. ~Resting(socks[i]) /\ ctx[i] = "free"
  BY DEF SockError, FeedSock, Resting
<1>2. /\ Reads(i) /\ Fine(socks[i]) /\ socks[i].fsm = "Active" /\ connOf[i] # 0
  BY <1>1, AtWork DEF Over
<1>3. socks[i].events = <<>> /\ socks[i].state = "Active"
  BY <1>1, <1>2 DEF Reads
<1>4. FeedSock(i, socks[i], kNetSockSrcFd, kNetWorkerFdErr, "")
  BY DEF SockError
<1>5. UNCHANGED <<lsock, lasock, eventsto, handing, lpc, upc, connOf, inoff, parsed, got,
                  arrived, backlog, conn, sent>>
  BY DEF SockError, FeedSock, listenerVars, dataVars, netVars
<1>6. PICK q : /\ socks' = [socks EXCEPT ![i] = q]
               /\ Fine(q) /\ q.fsm = "Active" /\ q.state = "Done" /\ q.epoll = NotAdded
               /\ q.events = <<"error">> /\ q.etype["error"] = "Error"
               /\ FeedForeseen(socks[i], kNetSockSrcFd, kNetWorkerFdErr)
  <2>1. \A out : LET q == Flush(Feed(socks[i], kNetSockSrcFd, kNetWorkerFdErr, out)) IN
          /\ Fine(q) /\ q.fsm = "Active" /\ q.state = "Done" /\ q.epoll = NotAdded
          /\ q.events = <<"error">> /\ q.etype["error"] = "Error"
          /\ FeedForeseen(socks[i], kNetSockSrcFd, kNetWorkerFdErr)
    BY <1>2, <1>3, BrokenFields
  <2> QED
    BY <1>4, <2>1 DEF FeedSock
<1>7. socks'[i] = q
  BY <1>6 DEF IInv, Shape
<1>8. /\ complained' = FALSE /\ fate' = "running" /\ ctx' = [ctx EXCEPT ![i] = "leaving"]
      /\ UNCHANGED <<made, waiting>>
  <2>1. fate' = "running"
    BY <1>4, <1>6, <1>7, FedFate
  <2> QED
    BY <1>4, <1>6, <2>1 DEF FeedSock, IInv, Shape
<1>9. Over(i)'
  <2>1. ctx'[i] = "leaving"
    BY <1>8 DEF IInv, Shape
  <2> QED
    BY <1>2, <1>5, <1>6, <1>7, <2>1 DEF Over
<1>10. "received" \notin ToSet(q.events) /\ "received" \notin ToSet(socks[i].events)
  BY <1>3, <1>6, ShortLists
<1> QED
  BY <1>1, <1>5, <1>6, <1>8, <1>9, <1>10, Quiet

\* The owner hears of a message, or of an error, which ends the process.
LEMMA SockEventInv ==
  ASSUME IInv, fate = "running", NEW i \in Slots, SockEvent(i)
  PROVE  IInv'
<1> DEFINE c == connOf[i]
           told(e) == [socks[i] EXCEPT !.events = Tail(@), !.etype[e] = "none"]
<1>1. ~Resting(socks[i]) /\ ctx[i] = "leaving" /\ socks[i].events # <<>>
  BY DEF SockEvent, Resting
<1>2. /\ Reads(i) \/ Over(i)
      /\ Fine(socks[i]) /\ socks[i].fsm = "Active" /\ i \in 1 .. made /\ c # 0 /\ c \in Conns
  BY <1>1, AtWork
<1>3. PICK e \in {"received", "error"} :
        /\ socks[i].events = <<e>>
        /\ e = "received" => Reads(i) /\ socks[i].etype[e] = "Received"
        /\ e = "error" => Over(i) /\ socks[i].etype[e] = "Error"
  BY <1>1, <1>2 DEF Reads, Over
<1>4. e \in Events
  BY DEF Events
<1> DEFINE type == socks[i].etype[e]
<1>5. /\ socks' = [socks EXCEPT ![i].events = Tail(@), ![i].etype[e] = "none"]
      /\ parsed' = IF type = "Received" THEN [parsed EXCEPT ![c] = @ + 1] ELSE parsed
      /\ fate' = IF type \in {"Error", "AcceptError"} THEN "unexpected_run" ELSE fate
      /\ UNCHANGED <<lsock, lasock, eventsto, handing, lpc, upc, made, waiting, ctx, connOf,
                     inoff, got, arrived, backlog, conn, sent, complained>>
  BY <1>3, ShortLists DEF SockEvent, listenerVars, netVars
<1> DEFINE q == told(e)
<1>6. /\ Fine(q) /\ q.state = socks[i].state /\ q.fsm = socks[i].fsm /\ q.s = socks[i].s
      /\ q.tasks = socks[i].tasks /\ q.events = <<>>
      /\ q.hevents = socks[i].hevents /\ q.epoll = socks[i].epoll
  BY <1>2, <1>3, <1>4, ToldFields
<1>7. socks' = [socks EXCEPT ![i] = q]
  BY <1>5 DEF IInv, Shape
<1> HIDE DEF q
<1>8. socks'[i] = q /\ \A j \in Slots : j # i => socks'[j] = socks[j]
  BY <1>7 DEF IInv, Shape
<1>9. /\ ctx' = [ctx EXCEPT ![i] = "leaving"] /\ ctx'[i] = "leaving" /\ complained' = FALSE
      /\ inoff' = [inoff EXCEPT ![i] = inoff[i]] /\ inoff[i] \in 0 .. Parts - 1
      /\ \A d \in Conns : got'[d] <= sent[d]
      /\ got' \in [Conns -> Nat] /\ parsed \in [Conns -> Nat]
  BY <1>1, <1>5 DEF IInv, Shape
<1>10. "received" \notin ToSet(socks'[i].events)
  BY <1>6, <1>8, ShortLists
<1>11. CASE e = "error"
  <2>1. Over(i) /\ parsed' = parsed /\ fate' = "unexpected_run"
    BY <1>3, <1>5, <1>11
  <2>2. Over(i)'
    BY <1>5, <1>6, <1>8, <1>9, <2>1 DEF Over
  <2>3. "received" \notin ToSet(q.events) /\ "received" \notin ToSet(socks[i].events)
    BY <1>3, <1>8, <1>10, <1>11, ShortLists
  <2> QED
    BY <1>1, <1>2, <1>5, <1>6, <1>7, <1>9, <2>1, <2>2, <2>3, Quiet
<1>12. CASE e = "received"
  <2>1. Reads(i) /\ parsed' = [parsed EXCEPT ![c] = @ + 1] /\ fate' = "running"
    BY <1>3, <1>5, <1>12
  <2>2. Reads(i)'
    BY <1>5, <1>6, <1>8, <2>1 DEF Reads
  <2> HIDE DEF c
  <2>3. /\ parsed' \in [Conns -> Nat] /\ parsed'[c] = parsed[c] + 1 /\ parsed[c] \in Nat
        /\ \A d \in Conns : d # c => parsed'[d] = parsed[d]
    BY <1>2, <1>9, <2>1
  <2>4. Shape' /\ ListenerPhase' /\ SockPhases' /\ Pairing' /\ InTurn'
    BY <1>1, <1>2, <1>5, <1>6, <1>7, <1>9, <2>1, <2>2, <2>3, OneSocket
  <2>5. Unread' /\ NoMessageLost'
    <3>1. "received" \in ToSet(socks[i].events)
      BY <1>3, <1>12, ShortLists
    <3>2. got[c] = (parsed[c] + 1) * Parts + inoff[i]
      BY <1>2, <3>1 DEF IInv, NoMessageLost, c
    <3>3. parsed'[c] + 0 = parsed[c] + 1
      BY <2>3
    <3>4. got'[c] = (parsed'[c] + 0) * Parts + inoff'[i]
      BY <1>5, <3>2, <3>3
    <3>5. \A d \in Conns : d # c => got'[d] = got[d] /\ parsed'[d] = parsed[d]
      BY <1>5, <2>3
    <3>6. \A j \in 1 .. made : j # i => socks'[j].events = socks[j].events /\ inoff'[j] = inoff[j]
      BY <1>5, <1>8, MadeSlots
    <3>7. 0 = IF "received" \in ToSet(socks'[i].events) THEN 1 ELSE 0
      BY <1>10
    <3> QED
      BY <1>2, <1>5, <3>4, <3>5, <3>6, <3>7, OneConnection DEF c
  <2> QED
    BY <2>4, <2>5 DEF IInv
<1> QED
  BY <1>11, <1>12

\* The worker leaves the context of the socket.
LEMMA LeaveSockInv ==
  ASSUME IInv, fate = "running", NEW i \in Slots, LeaveSock(i)
  PROVE  IInv'
<1>1. ctx[i] = "leaving" /\ socks[i].events = <<>>
  BY DEF LeaveSock
<1>2. Reads(i) /\ Fine(socks[i]) /\ socks[i].fsm = "Active"
  BY <1>1, AtWork, ShortLists DEF Over
<1>3. /\ ctx' = [ctx EXCEPT ![i] = "free"]
      /\ UNCHANGED <<lsock, lasock, eventsto, handing, lpc, upc, made, waiting, connOf,
                     arrived, backlog, conn, sent, inoff, got, parsed, socks, fate, complained>>
  BY DEF LeaveSock, listenerVars, dataVars, netVars, endVars
<1>4. socks' = [socks EXCEPT ![i] = socks[i]] /\ complained = FALSE
  BY <1>3 DEF IInv, Shape
<1>5. Reads(i)'
  BY <1>1, <1>2, <1>3 DEF Reads
<1> QED
  BY <1>1, <1>2, <1>3, <1>4, <1>5, Quiet
-----------------------------------------------------------------------------
(* The kernel and the peers. *)

\* The processes see nothing of a step outside of them.
LEMMA Outside ==
  ASSUME IInv, UNCHANGED <<listenerVars, upc, sockVars, dataVars, endVars>>
  PROVE  /\ ListenerPhase' /\ SockPhases' /\ Pairing' /\ Unread' /\ NoMessageLost'
         /\ \A i \in Slots : Fine(socks[i])'
         /\ UNCHANGED <<lsock, lasock, lpc, upc, made, socks, ctx, connOf, inoff,
                        parsed, got, fate, complained>>
<1>1. UNCHANGED <<lsock, lasock, eventsto, handing, lpc, upc, made, socks, waiting, ctx,
                  connOf, inoff, parsed, got, fate, complained>>
  BY DEF listenerVars, sockVars, dataVars, endVars
<1>2. \A i \in Slots : Fine(socks[i])'
  BY <1>1 DEF IInv, Shape, Fine
<1>3. ListenerPhase'
  BY <1>1 DEF IInv, ListenerPhase, Waits, Hands, Failed, Opening, Resting
<1>4. SockPhases'
  BY <1>1 DEF IInv, SockPhases, SockPhase, Fresh, Taken, Reads, Over, Resting
<1>5. Pairing' /\ Unread' /\ NoMessageLost'
  BY <1>1 DEF IInv, Pairing, Unread, NoMessageLost
<1> QED
  BY <1>1, <1>2, <1>3, <1>4, <1>5

\* A connection is made to the listener.
LEMMA ArriveInv ==
  ASSUME IInv, Arrive
  PROVE  IInv'
<1>1. UNCHANGED <<listenerVars, upc, sockVars, dataVars, endVars>>
  BY DEF Arrive
<1>2. /\ ListenerPhase' /\ SockPhases' /\ Pairing' /\ Unread' /\ NoMessageLost'
      /\ \A i \in Slots : Fine(socks[i])'
      /\ UNCHANGED <<lsock, lasock, lpc, upc, made, socks, ctx, connOf, inoff,
                     parsed, got, fate, complained>>
  BY <1>1, Outside
<1>3. arrived \in Nat /\ MaxConns \in Nat /\ arrived < MaxConns
  BY AcceptAssumption DEF IInv, Shape, Arrive
<1>4. /\ arrived' = arrived + 1 /\ arrived' \in 0 .. MaxConns /\ arrived' \in Conns
      /\ backlog' = Append(backlog, arrived')
      /\ conn' = [conn EXCEPT ![arrived'] = "up"] /\ sent' = sent
  BY <1>3 DEF Arrive, Conns
<1>5. backlog \in Seq(Conns) /\ backlog' \in Seq(Conns)
  BY <1>4 DEF IInv, Shape
<1>6. connOf' \in [Slots -> 0 .. arrived'] /\ \A i \in Slots : connOf[i] \in 0 .. arrived
  BY <1>2, <1>3, <1>4 DEF IInv, Shape
<1>7. conn' \in [Conns -> {"none", "up", "closed", "reset"}]
  BY <1>4 DEF IInv, Shape
<1>8. Shape'
  BY <1>2, <1>4, <1>5, <1>6, <1>7 DEF IInv, Shape
<1>9. InTurn'
  <2>1. /\ Len(backlog) \in Nat /\ Len(backlog') = Len(backlog) + 1
        /\ backlog'[Len(backlog) + 1] = arrived'
        /\ \A k \in 1 .. Len(backlog) : backlog'[k] = backlog[k]
    BY <1>4, <1>5
  <2>2. \A k \in 1 .. Len(backlog') : k \in 1 .. Len(backlog) \/ k = Len(backlog) + 1
    BY <2>1
  <2>3. \A k \in 1 .. Len(backlog) :
          /\ backlog'[k] \in 1 .. arrived /\ backlog'[k] \in 1 .. arrived'
          /\ backlog'[k] < arrived'
          /\ \A i \in Slots : connOf'[i] < backlog'[k]
    <3> TAKE k \in 1 .. Len(backlog)
    <3>1. backlog[k] \in 1 .. arrived /\ \A i \in Slots : connOf[i] < backlog[k]
      BY DEF IInv, InTurn
    <3> QED
      BY <1>2, <1>3, <1>4, <2>1, <3>1
  <2>4. \A k \in 1 .. Len(backlog') : /\ backlog'[k] \in 1 .. arrived'
                                      /\ \A i \in Slots : connOf'[i] < backlog'[k]
    BY <1>2, <1>3, <1>4, <1>6, <2>1, <2>2, <2>3
  <2>5. \A k, l \in 1 .. Len(backlog') : k < l => backlog'[k] < backlog'[l]
    <3> SUFFICES ASSUME NEW k \in 1 .. Len(backlog'), NEW l \in 1 .. Len(backlog'), k < l
                 PROVE  backlog'[k] < backlog'[l]
      OBVIOUS
    <3>1. k \in 1 .. Len(backlog)
      BY <2>1
    <3>2. CASE l \in 1 .. Len(backlog)
      BY <2>1, <3>1, <3>2 DEF IInv, InTurn
    <3>3. CASE l = Len(backlog) + 1
      BY <2>1, <2>3, <3>1, <3>3
    <3> QED
      BY <2>2, <3>2, <3>3
  <2> QED
    BY <1>2, <2>4, <2>5 DEF IInv, InTurn
<1> QED
  BY <1>2, <1>8, <1>9 DEF IInv

\* A peer sends, closes, or resets.
LEMMA PeersInv ==
  ASSUME IInv, NEW c \in Conns, PeerSends(c) \/ PeerEnds(c)
  PROVE  IInv'
<1>1. UNCHANGED <<listenerVars, upc, sockVars, dataVars, endVars>> /\ UNCHANGED <<arrived, backlog>>
  BY DEF PeerSends, PeerEnds
<1>2. /\ ListenerPhase' /\ SockPhases' /\ Pairing' /\ Unread' /\ NoMessageLost'
      /\ \A i \in Slots : Fine(socks[i])'
      /\ UNCHANGED <<lsock, lasock, lpc, upc, made, socks, ctx, connOf, inoff,
                     parsed, got, fate, complained>>
  BY <1>1, Outside
<1>3. /\ sent \in [Conns -> Nat] /\ got \in [Conns -> Nat]
      /\ \A d \in Conns : got[d] <= sent[d]
      /\ conn \in [Conns -> {"none", "up", "closed", "reset"}]
  BY DEF IInv, Shape
<1>4. /\ sent' \in [Conns -> Nat] /\ \A d \in Conns : got'[d] <= sent'[d]
      /\ conn' \in [Conns -> {"none", "up", "closed", "reset"}]
  <2>1. CASE PeerSends(c)
    <3>1. sent' = [sent EXCEPT ![c] = sent[c] + 1] /\ conn' = conn
      BY <2>1 DEF PeerSends
    <3>2. sent' \in [Conns -> Nat] /\ \A d \in Conns : sent[d] <= sent'[d]
      BY <1>3, <3>1
    <3> QED
      BY <1>2, <1>3, <3>1, <3>2
  <2>2. CASE PeerEnds(c)
    <3>1. PICK how \in {"closed", "reset"} : conn' = [conn EXCEPT ![c] = how]
      BY <2>2 DEF PeerEnds
    <3> QED
      BY <1>2, <1>3, <2>2, <3>1 DEF PeerEnds
  <2> QED
    BY <2>1, <2>2
<1>5. Shape'
  BY <1>1, <1>2, <1>4 DEF IInv, Shape
<1>6. InTurn'
  BY <1>1, <1>2, TurnRest DEF IInv
<1> QED
  BY <1>2, <1>5, <1>6 DEF IInv
-----------------------------------------------------------------------------
(* The theorems. *)

\* Every step.
LEMMA StepInv ==
  ASSUME IInv, [Next]_vars
  PROVE  IInv'
<1>1. CASE Next
  <2>1. fate = "running"
    BY <1>1 DEF Next
  <2>2. CASE OpenListener \/ FirstPair
    BY <2>1, <2>2, OpenListenerInv, FirstPairInv
  <2>3. CASE ListenerWorker
    BY <2>1, <2>3, RunListenerTaskInv, AcceptOneInv, AcceptFailsInv, AcceptOtherInv, ListenerEventInv,
       LeaveListenerInv, HandOverInv, HandedOverInv DEF ListenerWorker
  <2>4. ASSUME NEW i \in Slots, SockWorker(i) PROVE IInv'
    BY <2>1, <2>4, RunSockTaskInv, RecvNothingInv, RecvRawInv, SockErrorInv, SockEventInv,
       LeaveSockInv DEF SockWorker, FdIn
  <2>5. CASE Arrive
    BY <2>5, ArriveInv
  <2>6. ASSUME NEW c \in Conns, PeerSends(c) \/ PeerEnds(c) PROVE IInv'
    BY <2>6, PeersInv
  <2> QED
    BY <1>1, <2>2, <2>3, <2>4, <2>5, <2>6 DEF Next
<1>2. CASE UNCHANGED vars
  <2>1. UNCHANGED <<listenerVars, upc, sockVars, dataVars, endVars>>
        /\ UNCHANGED <<arrived, backlog, conn, sent>>
    BY <1>2 DEF vars, netVars
  <2>2. /\ ListenerPhase' /\ SockPhases' /\ Pairing' /\ Unread' /\ NoMessageLost'
        /\ \A i \in Slots : Fine(socks[i])'
        /\ UNCHANGED <<lsock, lasock, lpc, upc, made, socks, ctx, connOf, inoff,
                       parsed, got, fate, complained>>
    BY <2>1, Outside
  <2>3. Shape'
    BY <2>1, <2>2 DEF IInv, Shape
  <2>4. InTurn'
    BY <2>1, <2>2, TurnRest DEF IInv
  <2> QED
    BY <2>2, <2>3, <2>4 DEF IInv
<1> QED
  BY <1>1, <1>2

(***************************************************************************)
(* The inductive invariant: where the listener, each socket and each       *)
(* connection are in the life the accept path gives them (NetSocket::      *)
(* Accept, the accept clause of NetSocketHandler, NetDeviceFsmHandler).    *)
(***************************************************************************)
THEOREM Invariance == Spec => []IInv
<1>1. Init => IInv
  BY InitInv
<1>2. IInv /\ [Next]_vars => IInv'
  BY StepInv
<1> QED
  BY <1>1, <1>2, PTL DEF Spec

\* Lists with one element or none, which is all the accept path ever queues.
LEMMA ShortInjective ==
  ASSUME IInv
  PROVE  /\ IsInjective(lsock.tasks) /\ IsInjective(lsock.events)
         /\ eventsto \in Seq(Slots) /\ IsInjective(eventsto)
         /\ handing \in Seq(Slots) /\ IsInjective(handing)
<1>1. <<>> \in Seq(Slots) /\ \A i \in Slots : <<i>> \in Seq(Slots)
  OBVIOUS
<1>2. CASE upc # "done"
  BY <1>1, <1>2, ShortLists DEF IInv, ListenerPhase, Opening, Resting
<1>3. CASE upc = "done"
  <2>1. made \in Slots /\ (Waits \/ Hands \/ Failed)
    BY <1>3, AcceptAssumption DEF IInv, Shape, ListenerPhase, Slots
  <2>2. CASE Waits
    BY <1>1, <2>2, ShortLists DEF Waits
  <2>3. CASE Hands
    BY <1>1, <2>1, <2>3, ShortLists DEF Hands, Resting
  <2>4. CASE Failed
    BY <1>1, <2>4, ShortLists DEF Failed
  <2> QED
    BY <2>1, <2>2, <2>3, <2>4
<1> QED
  BY <1>2, <1>3

\* The variables of the accept path keep their types; nothing is queued twice.
THEOREM TypeCorrect == Spec => []TypeOK
<1>1. IInv => TypeOK
  <2> SUFFICES ASSUME IInv PROVE TypeOK
    OBVIOUS
  <2>1. waiting \subseteq 1 .. made
    BY DEF IInv, Shape, Pairing
  <2>2. \A c \in Conns : got[c] \in 0 .. sent[c]
    BY DEF IInv, Shape
  <2>3. fate \in {"running", "accept_failed", "check_failed", "unexpected_run"} /\ complained \in BOOLEAN
    BY DEF IInv, Shape
  <2> QED
    BY <2>1, <2>2, <2>3, ShortInjective DEF IInv, Shape, Fine, TypeOK
<1> QED
  BY <1>1, Invariance, PTL

(***************************************************************************)
(* Of the CHECKs of the accept path, those of the listener's clauses       *)
(* included, only CHECK_GT(s, 0) can fail: InitFromFd always finds a       *)
(* socket that waits and has no descriptor, NetSocket::Accept a listener   *)
(* without an asock_, Start a machine that is idle.                        *)
(***************************************************************************)
THEOREM PathChecksHold == Spec => []OtherChecksHold
<1>1. IInv => OtherChecksHold
  BY DEF IInv, Shape, OtherChecksHold
<1> QED
  BY <1>1, Invariance, PTL

\* Every input fed on the accept path is one its state foresees: nothing falls
\* through NetSocketHandler's switch into the clause of another state.
THEOREM AllForeseen == Spec => []NothingUnforeseen
<1>1. IInv => NothingUnforeseen
  BY DEF IInv, Shape, NothingUnforeseen
<1> QED
  BY <1>1, Invariance, PTL

(***************************************************************************)
(* The listener and the socket that waits point at each other (asock_)     *)
(* exactly while the listener accepts, and no other socket waits.          *)
(***************************************************************************)
THEOREM PairedAlways == Spec => []Paired
<1>1. IInv => Paired
  <2> SUFFICES ASSUME IInv PROVE Paired
    OBVIOUS
  <2>1. lasock # 0 <=> lsock.state \in {"Accepting", "AcceptingError"}
    BY DEF IInv, ListenerPhase, Waits, Hands, Failed, Opening, Shape
  <2>2. waiting = IF lasock = 0 THEN {} ELSE {lasock}
    BY DEF IInv, Pairing
  <2>3. \A i \in 1 .. made : socks[i].state = "BeingAccepted" <=> i = lasock
    <3> TAKE i \in 1 .. made
    <3>1. SockPhase(i)
      BY MadeSlots DEF IInv, SockPhases
    <3>2. ~(i > made)
      BY AcceptAssumption DEF IInv, Shape
    <3> QED
      BY <3>1, <3>2 DEF SockPhase, Fresh, Taken, Reads, Over
  <2>4. lasock # 0 => lasock \in 1 .. made
    BY DEF IInv, Shape
  <2>5. waiting = {i \in 1 .. made : socks[i].state = "BeingAccepted"}
    BY <2>2, <2>3, <2>4
  <2> QED
    BY <2>1, <2>2, <2>5 DEF Paired
<1> QED
  BY <1>1, Invariance, PTL

\* A listener that accepts is polled, or task_accept is about to see to it; one
\* that does not accept is out of the poller.
THEOREM ArmedAlways == Spec => []AcceptArmed
<1>1. IInv => AcceptArmed
  <2> SUFFICES ASSUME IInv PROVE AcceptArmed
    OBVIOUS
  <2>1. kNetSockSrcTaskAccept \in ToSet(<<kNetSockSrcTaskAccept>>)
    BY ShortLists
  <2>2. CASE upc = "done"
    <3>1. Waits \/ Hands \/ Failed
      BY <2>2 DEF IInv, ListenerPhase
    <3> QED
      BY <2>1, <3>1 DEF Waits, Hands, Failed, Resting, AcceptArmed
  <2>3. CASE upc # "done"
    BY <2>3 DEF IInv, Shape, ListenerPhase, Opening, Resting, AcceptArmed
  <2> QED
    BY <2>2, <2>3
<1> QED
  BY <1>1, Invariance, PTL

(***************************************************************************)
(* What was read of a connection is what was parsed of it, the message     *)
(* whose event is queued and the part of the one that is coming in:        *)
(* event_received never stands for two messages.                           *)
(***************************************************************************)
THEOREM NothingLost == Spec => []NoMessageLost
<1>1. IInv => NoMessageLost
  BY DEF IInv
<1> QED
  BY <1>1, Invariance, PTL
=============================================================================
