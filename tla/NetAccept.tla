------------------------------ MODULE NetAccept ------------------------------
(***************************************************************************)
(* The accept path: the device's listening socket, the sockets that        *)
(* PairListenSocket makes to receive its connections, their workers, and   *)
(* the kernel's end of the connections.                                    *)
(*                                                                         *)
(* The listener's worker accepts a connection into the paired socket, and  *)
(* hands it over with RaiseTo: once it has left the listener's context it  *)
(* enters the accepted socket's, where NetDeviceFsmHandler activates that  *)
(* socket and pairs the listener with a new one.  Every accepted socket    *)
(* then belongs to a worker of its own, which reads it.                    *)
(***************************************************************************)
EXTENDS NetSocketFsm, FiniteSets

CONSTANTS
  MaxConns,    \* bound: connections that are made to the listener
  MaxPieces,   \* bound: pieces of messages the peers send in all
  Parts,       \* pieces a message may be cut into by partial reads
  Garbage,     \* what the handle of a new socket may say before AddFd
  Faults       \* descriptors may run out, connections may be aborted or reset

ASSUME AcceptAssumption ==
  /\ MaxConns \in Nat \ {0} /\ MaxPieces \in Nat /\ Parts \in Nat \ {0}
  /\ Garbage \in (SUBSET Interests) \ {{}}
  /\ Faults \in BOOLEAN

Conns == 1 .. MaxConns
Slots == 1 .. MaxConns + 1     \* the sockets PairListenSocket makes

VARIABLES
  lsock,       \* listen_sock_
  lasock,      \* its asock_: the socket paired with it, or 0
  eventsto,    \* ctx_.eventsto_ of the listener: sockets to hand over
  handing,     \* the worker's copy of it, outside the listener's context
  lpc,         \* the listener's worker: "idle", "leaving", "handing"
  upc,         \* where the thread inside NetDevice::Init is
  made,        \* the sockets made so far
  socks,       \* socks[i]: the i-th of them
  waiting,     \* those whose asock_ is the listener
  ctx,         \* ctx[i]: "free", or "leaving" when events may be left
  connOf,      \* the connection in a socket, or 0
  inoff,       \* in_offset: pieces read of the message that is coming in
  parsed,      \* messages of a connection given to ParseNetMsg
  arrived,     \* connections made so far
  backlog,     \* those not accepted yet
  conn,        \* what became of a connection
  sent,        \* pieces the peer has sent
  got,         \* pieces read
  fate,        \* "running", or how the process ended
  complained   \* an input that is not foreseen was fed to a socket

listenerVars == <<lsock, lasock, eventsto, handing, lpc>>
sockVars == <<made, socks, waiting, ctx>>
dataVars == <<connOf, inoff, parsed, got>>
netVars == <<arrived, backlog, conn, sent>>
endVars == <<fate, complained>>
vars == <<listenerVars, upc, sockVars, dataVars, netVars, endVars>>

TypeOK ==
  /\ lsock \in Sockets /\ IsInjective(lsock.tasks) /\ IsInjective(lsock.events)
  /\ lasock \in 0 .. made
  /\ eventsto \in Seq(Slots) /\ IsInjective(eventsto)
  /\ handing \in Seq(Slots) /\ IsInjective(handing)
  /\ lpc \in {"idle", "leaving", "handing"}
  /\ upc \in {"open", "pair", "done"}
  /\ made \in 0 .. MaxConns + 1
  /\ socks \in [Slots -> Sockets] /\ waiting \subseteq 1 .. made
  /\ ctx \in [Slots -> {"free", "leaving"}]
  /\ connOf \in [Slots -> 0 .. arrived]
  /\ inoff \in [Slots -> 0 .. Parts - 1]
  /\ parsed \in [Conns -> Nat]
  /\ arrived \in 0 .. MaxConns /\ backlog \in Seq(Conns)
  /\ conn \in [Conns -> {"none", "up", "closed", "reset"}]
  /\ sent \in [Conns -> Nat]
  /\ \A c \in Conns : got[c] \in 0 .. sent[c]
  /\ fate \in {"running", "accept_failed", "check_failed", "unexpected_run"}
  /\ complained \in BOOLEAN

Init ==
  /\ \E garbage \in Garbage : lsock = InitialSocket(garbage)
  /\ lasock = 0 /\ eventsto = <<>> /\ handing = <<>> /\ lpc = "idle"
  /\ upc = "open"
  /\ made = 0 /\ waiting = {}
  /\ socks = [i \in Slots |-> InitialSocket({})]
  /\ ctx = [i \in Slots |-> "free"]
  /\ connOf = [i \in Slots |-> 0] /\ inoff = [i \in Slots |-> 0]
  /\ parsed = [c \in Conns |-> 0] /\ got = [c \in Conns |-> 0]
  /\ arrived = 0 /\ backlog = <<>>
  /\ conn = [c \in Conns |-> "none"] /\ sent = [c \in Conns |-> 0]
  /\ fate = "running" /\ complained = FALSE
-----------------------------------------------------------------------------
(* NetDevice::Init and PairListenSocket. *)

Action(r, type) == Feed(r, kNetFsmAction, type, "")

\* The process goes on only if the CHECKs of the step hold: those on how the
\* sockets are paired, and those met by the machines that were fed.
Check(holds, end) ==
  fate' = IF holds /\ ~lsock'.failed /\ \A i \in Slots : ~socks'[i].failed
          THEN fate ELSE end

\* listen_sock_.Start, Bind and Listen.
OpenListener ==
  /\ upc = "open"
  /\ lsock' = Action(Start([lsock EXCEPT !.s = 1]), kNetSockActionListen)
  /\ upc' = "pair"
  /\ UNCHANGED <<lasock, eventsto, handing, lpc, sockVars, dataVars, netVars, complained>>
  /\ Check(TRUE, "check_failed")

\* A new socket waits for a connection; its handle is not initialised.
BeingAccepted(garbage) ==
  Action(Start(InitialSocket(garbage)), kNetSockActionBeingAccepted)

\* Mutant: the listener's worker is not asked to wait for a connection.
PairUnasked(ss, strange) ==
  /\ made' = made + 1
  /\ \E garbage \in Garbage : socks' = [ss EXCEPT ![made'] = BeingAccepted(garbage)]
  /\ lsock' = Action(lsock, kNetSockActionAccept)
  /\ lasock' = made'
  /\ waiting' = waiting \cup {made'}
  /\ Check(lasock = 0, "check_failed")
  /\ complained' = (complained \/ strange
                     \/ ~FeedForeseen(lsock, kNetFsmAction, kNetSockActionAccept))

\* PairListenSocket and NetSocket::Accept: the listener accepts again, the
\* two sockets point at each other, the worker is to wait for a connection.
\* ss are the sockets there are already; strange if one of them has just met
\* an input that is not foreseen.
Pair(ss, strange) ==
  /\ made' = made + 1
  /\ \E garbage \in Garbage : socks' = [ss EXCEPT ![made'] = BeingAccepted(garbage)]
  /\ lsock' = Execute(Action(lsock, kNetSockActionAccept), kNetSockSrcTaskAccept)
  /\ lasock' = made'
  /\ waiting' = waiting \cup {made'}
  /\ Check(lasock = 0, "check_failed")
  /\ complained' = (complained \/ strange
                     \/ ~FeedForeseen(lsock, kNetFsmAction, kNetSockActionAccept))

FirstPair ==
  /\ upc = "pair"
  /\ Pair(socks, FALSE)
  /\ upc' = "done"
  /\ UNCHANGED <<eventsto, handing, lpc, ctx, dataVars, netVars>>
-----------------------------------------------------------------------------
(* The listener's worker. *)

\* The listener r is fed an input in its context.
FeedListener(r, src, type, out) ==
  /\ lsock' = Flush(Feed(r, src, type, out))
  /\ complained' = (complained \/ ~FeedForeseen(r, src, type))
  /\ lpc' = "leaving"

\* A task of the listener.  The one that ends a cancelled wait, which nobody
\* starts here, would tell the paired socket that it is done.
RunListenerTask ==
  /\ lpc = "idle"
  /\ lsock.tasks # <<>>
  /\ FeedListener([lsock EXCEPT !.tasks = Tail(@)], Head(lsock.tasks),
                  kNetWorkerTaskExecute, "")
  /\ socks' = IF Cancels(lsock, Head(lsock.tasks), kNetWorkerTaskExecute)
              THEN [socks EXCEPT ![lasock] = Flush(Action(@, kNetSockActionDone))]
              ELSE socks
  /\ UNCHANGED <<lasock, eventsto, handing, upc, made, waiting, ctx, dataVars, netVars>>
  /\ Check(TRUE, "check_failed")

\* epoll reports a connection to be accepted, and the machine accepts one
\* wherever the dispatch of the input ends in its accept clause.
Accepting ==
  /\ lpc = "idle"
  /\ kNetWorkerFdIn \in lsock.epoll
  /\ backlog # <<>>

\* Mutant: the listener goes on pointing at the socket that was accepted.
AcceptOneStillPaired ==
  /\ Accepting
  /\ lasock # 0
  /\ FeedListener(lsock, kNetSockSrcFd, kNetWorkerFdIn, "ok")
  /\ socks' = [socks EXCEPT ![lasock].s = 1, ![lasock].state = "Accepted"]
  /\ connOf' = [connOf EXCEPT ![lasock] = Head(backlog)]
  /\ backlog' = Tail(backlog)
  /\ eventsto' = Push(eventsto, lasock)
  /\ waiting' = waiting \ {lasock}
  /\ UNCHANGED <<lasock, fate>>
  /\ UNCHANGED <<handing, upc, made, ctx, inoff, parsed, got, arrived, conn, sent>>

\* Mutant: the accepted socket is not moved to Accepted.
AcceptOneUnmoved ==
  /\ Accepting
  /\ lasock # 0
  /\ FeedListener(lsock, kNetSockSrcFd, kNetWorkerFdIn, "ok")
  /\ backlog' = Tail(backlog)
  /\ lasock' = 0
  /\ socks' = [socks EXCEPT ![lasock].s = 1]
  /\ connOf' = [connOf EXCEPT ![lasock] = Head(backlog)]
  /\ eventsto' = Push(eventsto, lasock)
  /\ waiting' = waiting \ {lasock}
  /\ UNCHANGED <<handing, upc, made, ctx, inoff, parsed, got, arrived, conn, sent, fate>>

\* accept4 yields a descriptor: InitFromFd of the paired socket, the event
\* for its owner, and the two sockets part.
AcceptOne ==
  LET holds == /\ lasock # 0
               /\ socks[lasock].state \in {"Idle", "BeingAccepted"}
               /\ socks[lasock].s = -1
  IN
  /\ Accepting
  /\ FeedListener(lsock, kNetSockSrcFd, kNetWorkerFdIn, "ok")
  /\ backlog' = Tail(backlog)
  /\ lasock' = 0
  /\ IF holds
     THEN /\ socks' = [socks EXCEPT ![lasock].s = 1, ![lasock].state = "Accepted"]
          /\ connOf' = [connOf EXCEPT ![lasock] = Head(backlog)]
          /\ eventsto' = Push(eventsto, lasock)
          /\ waiting' = waiting \ {lasock}
     ELSE UNCHANGED <<socks, connOf, eventsto, waiting>>
  /\ UNCHANGED <<handing, upc, made, ctx, inoff, parsed, got, arrived, conn, sent>>
  /\ Check(holds, "check_failed")

\* accept4 fails: the connection was aborted, resources have run out, or it
\* reports any other error, which CHECK_GT takes for the end of the process.
AcceptFails(out) ==
  /\ Accepting
  /\ Faults
  /\ FeedListener(lsock, kNetSockSrcFd, kNetWorkerFdIn, out)
  /\ backlog' = IF out = "aborted" THEN Tail(backlog) ELSE backlog
  /\ UNCHANGED <<lasock, eventsto, handing, upc, sockVars, dataVars,
                 arrived, conn, sent>>
  /\ Check(TRUE, IF out = "other" THEN "accept_failed" ELSE "check_failed")

\* The owner is told, in the listener's context, what it raised there.
ListenerEvent ==
  /\ lpc = "leaving"
  /\ lsock.events # <<>>
  /\ LET e == Head(lsock.events) IN
       /\ lsock' = [lsock EXCEPT !.events = Tail(@), !.etype[e] = "none"]
       /\ fate' = IF lsock.etype[e] \in {"Error", "AcceptError"}
                  THEN "unexpected_run" ELSE fate
  /\ UNCHANGED <<lasock, eventsto, handing, lpc, upc, sockVars, dataVars,
                 netVars, complained>>

\* The context is left with a copy of eventsto_.
LeaveListener ==
  /\ lpc = "leaving"
  /\ lsock.events = <<>>
  /\ handing' = eventsto
  /\ eventsto' = <<>>
  /\ lpc' = IF eventsto = <<>> THEN "idle" ELSE "handing"
  /\ UNCHANGED <<lsock, lasock, upc, sockVars, dataVars, netVars, endVars>>

\* Mutant: the owner does not ask the accepted socket's worker to read.
HandOverUnread ==
  /\ handing # <<>>
  /\ LET i == Head(handing) IN
       /\ ctx[i] = "free"
       /\ ctx' = [ctx EXCEPT ![i] = "leaving"]
       /\ Pair([socks EXCEPT ![i] = Action(@, kNetSockActionActivate)], FALSE)
  /\ handing' = Tail(handing)
  /\ UNCHANGED <<eventsto, lpc, upc, dataVars, netVars>>

\* Mutant: the owner does not activate the accepted socket.
HandOverInactive ==
  /\ handing # <<>>
  /\ LET i == Head(handing) IN
       /\ ctx[i] = "free"
       /\ ctx' = [ctx EXCEPT ![i] = "leaving"]
       /\ Pair([socks EXCEPT ![i] = Execute(@, kNetSockSrcTaskRecv)], FALSE)
  /\ handing' = Tail(handing)
  /\ UNCHANGED <<eventsto, lpc, upc, dataVars, netVars>>

\* In the accepted socket's context the owner hears "Accepted": Activate,
\* task_recv, PairListenSocket.
HandOver ==
  /\ handing # <<>>
  /\ LET i == Head(handing) IN
       /\ ctx[i] = "free"
       /\ ctx' = [ctx EXCEPT ![i] = "leaving"]
       /\ Pair([socks EXCEPT ![i] =
                  Execute(Action(@, kNetSockActionActivate), kNetSockSrcTaskRecv)],
               ~FeedForeseen(socks[i], kNetFsmAction, kNetSockActionActivate))
  /\ handing' = Tail(handing)
  /\ UNCHANGED <<eventsto, lpc, upc, dataVars, netVars>>

HandedOver ==
  /\ lpc = "handing"
  /\ handing = <<>>
  /\ lpc' = "idle"
  /\ UNCHANGED <<lsock, lasock, eventsto, handing, upc, sockVars, dataVars,
                 netVars, endVars>>
-----------------------------------------------------------------------------
(* The worker of an accepted socket. *)

FeedSock(i, r, src, type, out) ==
  /\ ctx[i] = "free"
  /\ socks' = [socks EXCEPT ![i] = Flush(Feed(r, src, type, out))]
  /\ complained' = (complained \/ ~FeedForeseen(r, src, type))
  /\ ctx' = [ctx EXCEPT ![i] = "leaving"]
  /\ UNCHANGED <<listenerVars, made, waiting>>
  /\ Check(TRUE, "check_failed")

RunSockTask(i) ==
  /\ socks[i].tasks # <<>>
  /\ FeedSock(i, [socks[i] EXCEPT !.tasks = Tail(@)], Head(socks[i].tasks),
              kNetWorkerTaskExecute, "")
  /\ UNCHANGED <<upc, dataVars, netVars>>

\* epoll reports the descriptor readable: there is data, or the end.
Readable(i) ==
  /\ kNetWorkerFdIn \in socks[i].epoll
  /\ conn[connOf[i]] \in {"closed", "reset"} \/ got[connOf[i]] < sent[connOf[i]]

\* Mutant: in_offset is not reset when a message is complete.
RecvRawNoReset(i, n) ==
  LET c == connOf[i] IN
  /\ Readable(i)
  /\ conn[c] # "reset"
  /\ n <= sent[c] - got[c] /\ n <= Parts - inoff[i]
  /\ got' = [got EXCEPT ![c] = @ + n]
  /\ inoff' = [inoff EXCEPT ![i] = @ + n]
  /\ FeedSock(i, socks[i], kNetSockSrcFd, kNetWorkerFdIn,
              IF inoff[i] + n = Parts THEN "msg" ELSE "again")
  /\ UNCHANGED <<upc, connOf, parsed, netVars>>

\* RecvRaw reads n more pieces, no further than the message's end.
RecvRaw(i, n) ==
  LET c == connOf[i] IN
  /\ Readable(i)
  /\ conn[c] # "reset"
  /\ n <= sent[c] - got[c] /\ n <= Parts - inoff[i]
  /\ got' = [got EXCEPT ![c] = @ + n]
  /\ inoff' = [inoff EXCEPT ![i] = (@ + n) % Parts]
  /\ FeedSock(i, socks[i], kNetSockSrcFd, kNetWorkerFdIn,
              IF inoff'[i] = 0 THEN "msg" ELSE "again")
  /\ UNCHANGED <<upc, connOf, parsed, netVars>>

\* read() yields 0 at the end of the stream, which passes for "nothing yet",
\* or fails on a connection that was reset; neither is acted upon.
RecvNothing(i) ==
  /\ Readable(i)
  /\ conn[connOf[i]] = "reset" \/ got[connOf[i]] = sent[connOf[i]]
  /\ FeedSock(i, socks[i], kNetSockSrcFd, kNetWorkerFdIn,
              IF conn[connOf[i]] = "reset" THEN "reset" ELSE "again")
  /\ UNCHANGED <<upc, dataVars, netVars>>

\* EPOLLERR and EPOLLHUP come whatever is polled for.
SockError(i) ==
  /\ socks[i].epoll # NotAdded
  /\ conn[connOf[i]] = "reset"
  /\ FeedSock(i, socks[i], kNetSockSrcFd, kNetWorkerFdErr, "")
  /\ UNCHANGED <<upc, dataVars, netVars>>

FdIn(i) == RecvNothing(i) \/ \E n \in 1 .. Parts : RecvRaw(i, n)

\* The owner is told what the socket raised.
SockEvent(i) ==
  /\ ctx[i] = "leaving"
  /\ socks[i].events # <<>>
  /\ LET e == Head(socks[i].events)
         type == socks[i].etype[e]
     IN
       /\ socks' = [socks EXCEPT ![i].events = Tail(@), ![i].etype[e] = "none"]
       /\ parsed' = IF type = "Received" THEN [parsed EXCEPT ![connOf[i]] = @ + 1]
                    ELSE parsed
       /\ fate' = IF type \in {"Error", "AcceptError"} THEN "unexpected_run" ELSE fate
  /\ UNCHANGED <<listenerVars, upc, made, waiting, ctx, connOf, inoff, got,
                 netVars, complained>>

\* Mutant: the context is left after one event at most.
LeaveSockEarly(i) ==
  /\ ctx[i] = "leaving"
  /\ ctx' = [ctx EXCEPT ![i] = "free"]
  /\ UNCHANGED <<listenerVars, upc, made, socks, waiting, dataVars, netVars, endVars>>

LeaveSock(i) ==
  /\ ctx[i] = "leaving"
  /\ socks[i].events = <<>>
  /\ ctx' = [ctx EXCEPT ![i] = "free"]
  /\ UNCHANGED <<listenerVars, upc, made, socks, waiting, dataVars, netVars, endVars>>
-----------------------------------------------------------------------------
(* The kernel and the peers. *)

Arrive ==
  /\ upc # "open"
  /\ arrived < MaxConns
  /\ arrived' = arrived + 1
  /\ backlog' = Append(backlog, arrived')
  /\ conn' = [conn EXCEPT ![arrived'] = "up"]
  /\ UNCHANGED <<listenerVars, upc, sockVars, dataVars, sent, endVars>>

PeerSends(c) ==
  /\ conn[c] = "up"
  /\ FoldFunction(+, 0, sent) < MaxPieces
  /\ sent' = [sent EXCEPT ![c] = @ + 1]
  /\ UNCHANGED <<listenerVars, upc, sockVars, dataVars, arrived, backlog, conn, endVars>>

PeerEnds(c) ==
  /\ conn[c] = "up"
  /\ \E how \in {"closed"} \cup (IF Faults THEN {"reset"} ELSE {}) :
       conn' = [conn EXCEPT ![c] = how]
  /\ UNCHANGED <<listenerVars, upc, sockVars, dataVars, arrived, backlog, sent, endVars>>

ListenerWorker ==
  \/ RunListenerTask
  \/ AcceptOne
  \/ \E out \in {"aborted", "nores", "other"} : AcceptFails(out)
  \/ ListenerEvent \/ LeaveListener
  \/ HandOver \/ HandedOver

SockWorker(i) ==
  RunSockTask(i) \/ FdIn(i) \/ SockError(i) \/ SockEvent(i) \/ LeaveSock(i)

Next ==
  /\ fate = "running"
  /\ \/ OpenListener \/ FirstPair
     \/ ListenerWorker
     \/ \E i \in Slots : SockWorker(i)
     \/ Arrive
     \/ \E c \in Conns : PeerSends(c) \/ PeerEnds(c)

(***************************************************************************)
(* The thread inside NetDevice::Init goes on, and so does every worker,    *)
(* which blocks in epoll_wait only.  A round of the poller serves every    *)
(* event of every ready descriptor, so that an error is reported even if   *)
(* the descriptor stays readable: strong fairness.  Nobody has to connect, *)
(* send or close.                                                          *)
(***************************************************************************)
Running == fate = "running"

Fairness ==
  /\ WF_vars(Running /\ (OpenListener \/ FirstPair))
  /\ WF_vars(Running /\ ListenerWorker)
  /\ \A i \in Slots : WF_vars(Running /\ SockWorker(i))
                     /\ SF_vars(Running /\ SockError(i))

Spec == Init /\ [][Next]_vars /\ Fairness
-----------------------------------------------------------------------------
(* Properties. *)

(***************************************************************************)
(* Of the CHECKs of the accept path only CHECK_GT(s, 0) (socket.cpp:570)   *)
(* can fail, and only because accept4 reports an error the code does not   *)
(* expect.  InitFromFd always finds a fresh socket that waits,             *)
(* NetSocket::Accept a listener that is paired with nobody, NetFsm::Start  *)
(* a socket that is idle.                                                  *)
(***************************************************************************)
OtherChecksHold == fate # "check_failed"

(***************************************************************************)
(* No input falls through the dispatch into the clause of another state:   *)
(* the listener hears of connections only while it accepts, the accepted   *)
(* socket of data only once it is active.                                  *)
(***************************************************************************)
NothingUnforeseen == ~complained

(***************************************************************************)
(* Pairing: the listener points at a socket exactly while it accepts; that *)
(* socket is the only one that waits to be accepted and it points back.    *)
(***************************************************************************)
Paired ==
  /\ lasock # 0 <=> lsock.state \in {"Accepting", "AcceptingError"}
  /\ waiting = {i \in 1 .. made : socks[i].state = "BeingAccepted"}
  /\ waiting = IF lasock = 0 THEN {} ELSE {lasock}

(***************************************************************************)
(* A listener that accepts is watched: its worker polls for connections,   *)
(* or task_accept waits to make it do so.  A listener that does not accept *)
(* is not polled at all.                                                   *)
(***************************************************************************)
AcceptArmed ==
  IF lsock.state = "Accepting"
  THEN kNetWorkerFdIn \in lsock.epoll \/ kNetSockSrcTaskAccept \in ToSet(lsock.tasks)
  ELSE lsock.epoll = NotAdded

(***************************************************************************)
(* Every piece that was read belongs to a message that was parsed, to one  *)
(* whose event is queued, or to the one coming in: no message is lost      *)
(* because event_received is raised again before it was processed.         *)
(***************************************************************************)
NoMessageLost ==
  \A i \in 1 .. made : connOf[i] # 0 =>
    LET raised == IF "received" \in ToSet(socks[i].events) THEN 1 ELSE 0 IN
    got[connOf[i]] = (parsed[connOf[i]] + raised) * Parts + inoff[i]

\* accept4 reported the connection as aborted.
Aborted(c) == c \notin ToSet(backlog) /\ \A i \in Slots : connOf[i] # c

(***************************************************************************)
(* Every message that a peer sends completely is parsed, unless its        *)
(* connection is aborted or reset, or the process ends: again and again    *)
(* nothing complete is outstanding.  The listener has to be armed anew     *)
(* after each connection, and the accepted socket set to read.             *)
(***************************************************************************)
AllParsed ==
  []<>(\/ ~Running
       \/ \A c \in Conns : \/ sent[c] < (parsed[c] + 1) * Parts
                           \/ conn[c] = "reset"
                           \/ conn[c] # "none" /\ Aborted(c))

(***************************************************************************)
(* A reset reaches the owner, whenever it comes - in the backlog, between  *)
(* accept4 and Activate, or later -, unless the connection is aborted.     *)
(***************************************************************************)
ResetNoticed ==
  []<>(~Running \/ \A c \in Conns : conn[c] = "reset" => Aborted(c))
=============================================================================
