----------------------------- MODULE NetOutbound -----------------------------
(***************************************************************************)
(* The life of one outbound socket: the threads that call                  *)
(* NetDevice::SendMsg for its peer, the worker the socket is assigned to,  *)
(* NetDeviceFsmHandler as the socket's owner, and the kernel's end of the  *)
(* connection.                                                             *)
(*                                                                         *)
(* The callers hold no lock of the socket while they start it, connect it  *)
(* and raise its events; the worker feeds it under its NetCtx.  A caller's *)
(* handler call is one step, but the event it raises joins the queue in a  *)
(* step of its own: the tasks it has handed out may run before.            *)
(***************************************************************************)
EXTENDS NetSocketFsm, FiniteSets

CONSTANTS
  Callers,     \* the threads inside NetDevice::SendMsg for this socket's peer
  MaxCalls,    \* bound: how often SendMsg is called in all
  Parts,       \* pieces a message may be cut into by partial writes
  Room,        \* pieces the kernel's send buffer holds
  Serialised,  \* nobody calls SendMsg while another call opens the socket
  Faults,      \* connections may fail and sockets run out
  Stopping     \* the states in which AsyncStop may find the socket, if ever

ASSUME OutboundAssumption ==
  /\ MaxCalls \in Nat /\ Parts \in Nat \ {0} /\ Room \in Nat \ {0}
  /\ Serialised \in BOOLEAN /\ Faults \in BOOLEAN /\ Stopping \subseteq SockStates

VARIABLES
  sock,        \* the NetSocket, a record of Sockets
  cpc,         \* where each caller is in SendMsg
  pending,     \* the event a thread is about to put into the event queue
  spc,         \* where the thread that calls AsyncStop is
  calls,       \* SendMsg calls made
  pushed,      \* messages pushed: they are numbered in the order of Push
  msgq,        \* msg_buffer_queue_
  obuf,        \* the message in out_buf, 0 if is_out_buf_busy_ is false
  left,        \* pieces of it still to be written
  wire,        \* pieces the kernel took: <<message, piece>>
  conn,        \* the connection, as the kernel sees it
  room,        \* pieces the send buffer can take
  wpc,         \* the worker: "idle", or "leaving" the socket's context
  fate,        \* "running", or how the process or the socket ended
  complained   \* an input that is not foreseen was fed to the socket

netVars == <<conn, room, wire>>
dataVars == <<pushed, msgq, obuf, left>>
callVars == <<cpc, calls, spc>>
endVars == <<fate, complained>>
vars == <<sock, pending, wpc, netVars, dataVars, callVars, endVars>>

Owner == "owner"      \* the thread that calls AsyncStop
Messages == 1 .. MaxCalls

TypeOK ==
  /\ sock \in Sockets
  /\ sock.raised = NotRaised /\ IsInjective(sock.tasks) /\ IsInjective(sock.events)
  /\ cpc \in [Callers -> {"out", "check", "test", "start", "fsm", "connect",
                          "dial", "raise", "ask", "push", "execute"}]
  /\ pending \in [Callers \cup {Owner} -> (Events \X EventTypes) \cup {NotRaised}]
  /\ spc \in {"out", "raise", "done"}
  /\ calls \in 0 .. MaxCalls /\ pushed \in 0 .. calls
  /\ msgq \in Seq(Messages)
  /\ obuf \in 0 .. MaxCalls /\ left \in 0 .. Parts
  /\ wire \in Seq(Messages \X (1 .. Parts))
  /\ conn \in {"none", "pending", "up", "failed", "reset"}
  /\ room \in 0 .. Room
  /\ wpc \in {"idle", "leaving"}
  /\ fate \in {"running", "check_failed", "unexpected_run", "deleted"}
  /\ complained \in BOOLEAN

Init ==
  /\ \E garbage \in Interests : sock = InitialSocket(garbage)
  /\ cpc = [c \in Callers |-> "out"]
  /\ pending = [c \in Callers \cup {Owner} |-> NotRaised]
  /\ spc = "out"
  /\ calls = 0 /\ pushed = 0 /\ msgq = <<>> /\ obuf = 0 /\ left = 0
  /\ wire = <<>> /\ conn = "none" /\ room = Room
  /\ wpc = "idle" /\ fate = "running" /\ complained = FALSE

-----------------------------------------------------------------------------
(* Feeding the socket. *)

\* Thread c feeds an action of the owner from outside the socket's context;
\* what it raises stays pending.
Become(r, c) ==
  /\ sock' = [r EXCEPT !.raised = NotRaised]
  /\ pending' = [pending EXCEPT ![c] = r.raised]
  /\ fate' = IF r.failed THEN "check_failed" ELSE fate

ActionBy(c, type) ==
  /\ Become(Feed(sock, kNetFsmAction, type, ""), c)
  /\ complained' = (complained \/ ~FeedForeseen(sock, kNetFsmAction, type))

\* The worker feeds the socket in its context, and will leave the context.
FeedByWorker(r, src, type, out) ==
  /\ sock' = Flush(Feed(r, src, type, out))
  /\ fate' = IF sock'.failed THEN "check_failed" ELSE fate
  /\ complained' = (complained \/ ~FeedForeseen(r, src, type))
  /\ wpc' = "leaving"
  /\ UNCHANGED pending
-----------------------------------------------------------------------------
(* NetDevice::SendMsg, once the peer's socket is made or found. *)

Goto(c, place) == cpc' = [cpc EXCEPT ![c] = place]

\* Opening the socket, from its first mention in token2sock_ up to the return
\* of connect().
Opening == {"check", "test", "start", "fsm", "connect", "dial"}

\* The first call makes the socket; token2sock_.emplace shows it to the others.
NewSocket(c) ==
  /\ cpc[c] = "out"
  /\ calls = 0 /\ MaxCalls > 0
  /\ calls' = 1
  /\ Goto(c, "check")
  /\ UNCHANGED <<sock, pending, wpc, netVars, dataVars, spc, endVars>>

\* CHECK(out_sock->IsIdle())
CheckNew(c) ==
  /\ cpc[c] = "check"
  /\ IF IsIdle(sock) THEN Goto(c, "test") /\ UNCHANGED fate
     ELSE fate' = "check_failed" /\ UNCHANGED cpc
  /\ UNCHANGED <<sock, pending, wpc, netVars, dataVars, calls, spc, complained>>

\* if (out_sock->IsIdle()), by the call that made the socket,
TestIdle(c) ==
  /\ cpc[c] = "test"
  /\ Goto(c, IF IsIdle(sock) THEN "start" ELSE "push")
  /\ UNCHANGED <<sock, pending, wpc, netVars, dataVars, calls, spc, endVars>>

\* and by one that finds it.
CheckIdle(c) ==
  /\ cpc[c] = "out"
  /\ 0 < calls /\ calls < MaxCalls
  /\ Serialised => \A d \in Callers : cpc[d] \notin Opening
  /\ calls' = calls + 1
  /\ Goto(c, IF IsIdle(sock) THEN "start" ELSE "push")
  /\ UNCHANGED <<sock, pending, wpc, netVars, dataVars, spc, endVars>>

\* socket(), InitFromFd and its CHECKs.
StartSocket(c) ==
  /\ cpc[c] = "start"
  /\ IF sock.state \in {"Idle", "BeingAccepted"} /\ sock.s = -1
     THEN /\ sock' = [sock EXCEPT !.s = 1]
          /\ Goto(c, "fsm")
          /\ UNCHANGED fate
     ELSE /\ fate' = "check_failed"
          /\ UNCHANGED <<sock, cpc>>
  /\ UNCHANGED <<pending, wpc, netVars, dataVars, calls, spc, complained>>

\* socket() fails: Start says so, SendMsg does not listen.
NoSocket(c) ==
  /\ cpc[c] = "start"
  /\ Faults
  /\ Goto(c, "connect")
  /\ UNCHANGED <<sock, pending, wpc, netVars, dataVars, calls, spc, endVars>>

\* fsm().Start()
StartFsm(c) ==
  /\ cpc[c] = "fsm"
  /\ Become(Start(sock), c)
  /\ Goto(c, "connect")
  /\ UNCHANGED <<wpc, netVars, dataVars, calls, spc, complained>>

\* Connect: the Connect action ...
BeginConnect(c) ==
  /\ cpc[c] = "connect"
  /\ ActionBy(c, kNetSockActionConnect)
  /\ Goto(c, "dial")
  /\ UNCHANGED <<wpc, netVars, dataVars, calls, spc>>

\* ... then connect(), which succeeds at once,
DialAtOnce(c) ==
  /\ cpc[c] = "dial"
  /\ sock.s # -1
  /\ conn' = "up"
  /\ ActionBy(c, kNetSockActionDone)
  /\ Goto(c, "raise")
  /\ UNCHANGED <<wpc, room, wire, dataVars, calls, spc>>

\* or is under way (EINPROGRESS),
DialLater(c) ==
  /\ cpc[c] = "dial"
  /\ sock.s # -1
  /\ conn' = "pending"
  /\ Goto(c, "ask")
  /\ UNCHANGED <<sock, pending, wpc, room, wire, dataVars, calls, spc, endVars>>

\* or fails.
DialFails(c) ==
  /\ cpc[c] = "dial"
  /\ Faults \/ sock.s = -1
  /\ ActionBy(c, kNetSockActionError)
  /\ Goto(c, "raise")
  /\ UNCHANGED <<wpc, netVars, dataVars, calls, spc>>

\* The event the handler raised in the caller's thread is queued.
RaiseByCaller(c) ==
  /\ cpc[c] = "raise"
  /\ sock' = Raised(sock, pending[c])
  /\ pending' = [pending EXCEPT ![c] = NotRaised]
  /\ Goto(c, "push")
  /\ UNCHANGED <<wpc, netVars, dataVars, calls, spc, endVars>>

\* worker()->Execute(&task_connecting())
AskConnecting(c) ==
  /\ cpc[c] = "ask"
  /\ sock' = Execute(sock, kNetSockSrcTaskConnecting)
  /\ Goto(c, "push")
  /\ UNCHANGED <<pending, wpc, netVars, dataVars, calls, spc, endVars>>

\* AsyncSendMsg: push the message under msq_sync_ ...
PushMsg(c) ==
  /\ cpc[c] = "push"
  /\ pushed' = pushed + 1
  /\ msgq' = Append(msgq, pushed')
  /\ Goto(c, "execute")
  /\ UNCHANGED <<sock, pending, wpc, netVars, obuf, left, calls, spc, endVars>>

\* Mutant: the task is asked for only if the queue was empty before.
AskSendIfFirst(c) ==
  /\ cpc[c] = "execute"
  /\ sock' = IF Len(msgq) = 1 THEN Execute(sock, kNetSockSrcTaskSend) ELSE sock
  /\ Goto(c, "out")
  /\ UNCHANGED <<pending, wpc, netVars, dataVars, calls, spc, endVars>>

\* ... and ask the worker to send.
AskSend(c) ==
  /\ cpc[c] = "execute"
  /\ sock' = Execute(sock, kNetSockSrcTaskSend)
  /\ Goto(c, "out")
  /\ UNCHANGED <<pending, wpc, netVars, dataVars, calls, spc, endVars>>

SendMsg(c) ==
  \/ CheckNew(c) \/ TestIdle(c)
  \/ StartSocket(c) \/ NoSocket(c) \/ StartFsm(c) \/ BeginConnect(c)
  \/ DialAtOnce(c) \/ DialLater(c) \/ DialFails(c)
  \/ RaiseByCaller(c) \/ AskConnecting(c) \/ PushMsg(c) \/ AskSend(c)
-----------------------------------------------------------------------------
(* AsyncStop, called by ~NetDevice. *)

\* worker_->Execute(&task_stop_)
AskStop ==
  /\ spc = "out"
  /\ calls > 0 /\ sock.state \in Stopping
  /\ LET r == AsyncStop(sock) IN
       /\ sock' = [r EXCEPT !.raised = NotRaised]
       /\ pending' = [pending EXCEPT ![Owner] = r.raised]
  /\ spc' = "raise"
  /\ UNCHANGED <<wpc, netVars, dataVars, cpc, calls, endVars>>

\* fsm_.Raise(&event_error_, kNetSockEventTypeShutdown)
RaiseStop ==
  /\ spc = "raise"
  /\ sock' = Raised(sock, pending[Owner])
  /\ pending' = [pending EXCEPT ![Owner] = NotRaised]
  /\ spc' = "done"
  /\ UNCHANGED <<wpc, netVars, dataVars, cpc, calls, endVars>>
-----------------------------------------------------------------------------
(* The worker. *)

\* The oldest task is fed to the socket.
RunTask ==
  /\ wpc = "idle"
  /\ sock.tasks # <<>>
  /\ FeedByWorker([sock EXCEPT !.tasks = Tail(@)], Head(sock.tasks),
                  kNetWorkerTaskExecute, "")
  /\ UNCHANGED <<netVars, dataVars, callVars>>

\* epoll reports the descriptor writable, as a broken one also is.
Writable ==
  /\ wpc = "idle"
  /\ kNetWorkerFdOut \in sock.epoll
  /\ (conn = "up" /\ room > 0) \/ conn \in {"failed", "reset"}

Sending == sock.state = "Active" /\ sock.fsm # "Stopping"

\* A socket that is not active looks at SO_ERROR, or ignores the input.
WritableOther ==
  /\ Writable
  /\ ~Sending
  /\ FeedByWorker(sock, kNetSockSrcFd, kNetWorkerFdOut,
                  IF conn = "up" THEN "ok" ELSE "err")
  /\ UNCHANGED <<netVars, dataVars, callVars>>

\* DequeueNetMsgToBuf finds nothing.
WritableIdle ==
  /\ Writable
  /\ Sending
  /\ obuf = 0 /\ msgq = <<>>
  /\ FeedByWorker(sock, kNetSockSrcFd, kNetWorkerFdOut, "empty")
  /\ UNCHANGED <<netVars, dataVars, callVars>>

\* DequeueNetMsgToBuf, unless out_buf is busy.
Loaded == IF obuf # 0 THEN obuf ELSE Head(msgq)
LoadedLeft == IF obuf # 0 THEN left ELSE Parts
Unloaded == IF obuf # 0 THEN msgq ELSE Tail(msgq)

\* Mutant: out_buf is loaded anew though a part of it is still to be sent.
WritableSendReload(n) ==
  /\ Writable
  /\ Sending
  /\ msgq # <<>>
  /\ conn = "up"
  /\ n <= room /\ n <= Parts
  /\ wire' = wire \o [i \in 1 .. n |-> <<Head(msgq), i>>]
  /\ room' = room - n
  /\ left' = Parts - n
  /\ obuf' = IF n = Parts THEN 0 ELSE Head(msgq)
  /\ msgq' = Tail(msgq)
  /\ FeedByWorker(sock, kNetSockSrcFd, kNetWorkerFdOut,
                  IF n = Parts THEN "sent" ELSE "again")
  /\ UNCHANGED <<pushed, conn, callVars>>

\* SendRaw writes n more pieces of the message in out_buf.
WritableSend(n) ==
  /\ Writable
  /\ Sending
  /\ obuf # 0 \/ msgq # <<>>
  /\ conn = "up"
  /\ n <= room /\ n <= LoadedLeft
  /\ wire' = wire \o [i \in 1 .. n |-> <<Loaded, Parts - LoadedLeft + i>>]
  /\ room' = room - n
  /\ left' = LoadedLeft - n
  /\ obuf' = IF left' = 0 THEN 0 ELSE Loaded
  /\ msgq' = Unloaded
  /\ FeedByWorker(sock, kNetSockSrcFd, kNetWorkerFdOut,
                  IF left' = 0 THEN "sent" ELSE "again")
  /\ UNCHANGED <<pushed, conn, callVars>>

\* SendRaw meets a broken connection; its result is not acted upon.
WritableBroken ==
  /\ Writable
  /\ Sending
  /\ obuf # 0 \/ msgq # <<>>
  /\ conn # "up"
  /\ obuf' = Loaded /\ left' = LoadedLeft /\ msgq' = Unloaded
  /\ FeedByWorker(sock, kNetSockSrcFd, kNetWorkerFdOut, "reset")
  /\ UNCHANGED <<pushed, netVars, callVars>>

\* EPOLLERR and EPOLLHUP come whatever is polled for.
FdError ==
  /\ wpc = "idle"
  /\ sock.epoll # NotAdded
  /\ conn \in {"failed", "reset"}
  /\ FeedByWorker(sock, kNetSockSrcFd, kNetWorkerFdErr, "")
  /\ UNCHANGED <<netVars, dataVars, callVars>>

FdOut ==
  \/ WritableOther \/ WritableIdle \/ WritableBroken
  \/ \E n \in 1 .. Parts : WritableSend(n)

\* Leaving the context: the oldest event is processed by the owner,
\* NetDeviceFsmHandler.
ProcessEvent ==
  /\ wpc = "leaving"
  /\ sock.events # <<>>
  /\ LET e == Head(sock.events)
         type == sock.etype[e]
         popped == [sock EXCEPT !.events = Tail(@), !.etype[e] = "none"]
     IN
       /\ sock' = IF type = "Connected" THEN Execute(popped, kNetSockSrcTaskSend)
                  ELSE popped
       /\ fate' = CASE type \in {"Error", "AcceptError"} -> "unexpected_run"
                    [] type = "Shutdown" -> "deleted"
                    [] OTHER -> fate
  /\ UNCHANGED <<pending, wpc, netVars, dataVars, callVars, complained>>

LeaveContext ==
  /\ wpc = "leaving"
  /\ sock.events = <<>>
  /\ wpc' = "idle"
  /\ UNCHANGED <<sock, pending, netVars, dataVars, callVars, endVars>>

Worker == RunTask \/ FdOut \/ FdError \/ ProcessEvent \/ LeaveContext
-----------------------------------------------------------------------------
(* The kernel and the peer. *)

Establish ==
  /\ conn = "pending"
  /\ conn' = "up"
  /\ UNCHANGED <<sock, pending, wpc, room, wire, dataVars, callVars, endVars>>

PeerReads ==
  /\ conn = "up"
  /\ room < Room
  /\ room' = room + 1
  /\ UNCHANGED <<sock, pending, wpc, conn, wire, dataVars, callVars, endVars>>

Break ==
  /\ Faults
  /\ \/ conn = "pending" /\ conn' = "failed"
     \/ conn = "up" /\ conn' = "reset"
  /\ UNCHANGED <<sock, pending, wpc, room, wire, dataVars, callVars, endVars>>

Next ==
  /\ fate = "running"
  /\ \/ \E c \in Callers : NewSocket(c) \/ CheckIdle(c) \/ SendMsg(c)
     \/ AskStop \/ RaiseStop
     \/ Worker
     \/ Establish \/ PeerReads \/ Break
(***************************************************************************)
(* A caller inside SendMsg goes on, and so does the worker, which only     *)
(* blocks in epoll_wait.  Every round of the poller serves all the tasks   *)
(* waiting and every descriptor that is ready, once: strong fairness of    *)
(* RunTask, FdOut and FdError, since the worker is not idle all the time.  *)
(* The peer answers a connection request and reads what it is sent; that   *)
(* is assumed of the environment.  Nobody has to call SendMsg or AsyncStop,*)
(* and nothing has to break.                                               *)
(***************************************************************************)
Running == fate = "running"

Fairness ==
  /\ \A c \in Callers : WF_vars(Running /\ SendMsg(c))
  /\ WF_vars(Running /\ RaiseStop)
  /\ SF_vars(Running /\ RunTask)
  /\ SF_vars(Running /\ FdOut)
  /\ SF_vars(Running /\ FdError)
  /\ WF_vars(Running /\ (ProcessEvent \/ LeaveContext))
  /\ WF_vars(Running /\ Establish)
  /\ WF_vars(Running /\ PeerReads)

Spec == Init /\ [][Next]_vars /\ Fairness
-----------------------------------------------------------------------------
(* Properties. *)

(***************************************************************************)
(* No CHECK of SendMsg, of the socket or of its NetFsm fails: the call     *)
(* that makes the socket still finds it idle, InitFromFd always finds it   *)
(* fresh, NetFsm::Start an idle machine, whatever the other callers do.    *)
(***************************************************************************)
NoCheckFails == fate # "check_failed"

(***************************************************************************)
(* While nobody else opens the socket, a CHECK fails in one situation      *)
(* only: socket() had failed, SendMsg went on to Connect all the same, and *)
(* a later call opens the socket again: it is Done, but its NetFsm was     *)
(* never started and counts as idle.                                       *)
(***************************************************************************)
OnlyReopenedFails == fate = "check_failed" => sock.state = "Done" /\ sock.fsm = "Idle"

(***************************************************************************)
(* The owner is never handed an event it answers with UNEXPECTED_RUN.      *)
(***************************************************************************)
NoUnexpectedRun == fate # "unexpected_run"

(***************************************************************************)
(* A connection the kernel has not given up, and nobody asked to stop, is  *)
(* not given up here: whatever else fails, its descriptor stays open, the  *)
(* socket keeps waiting for it or is active, and the process runs on.      *)
(***************************************************************************)
ConnectionKept ==
  conn \in {"pending", "up"} /\ spc = "out" =>
    /\ sock.s # -1 /\ sock.state \in {"Connecting", "Active"}
    /\ fate = "running"

(***************************************************************************)
(* An input falls through the dispatch to the clause of another state only *)
(* if AsyncStop was called, or the socket has no descriptor, because       *)
(* socket() failed and SendMsg went on to Connect.  Whatever else breaks,  *)
(* every task, descriptor event and action meets the socket in a state     *)
(* that foresees it.                                                       *)
(***************************************************************************)
NothingUnforeseen == complained => spc # "out" \/ sock.s = -1

(***************************************************************************)
(* The stream is the messages in the order they were pushed, whole, each   *)
(* once: what the kernel took, what is left of out_buf and what waits in   *)
(* msg_buffer_queue_ follow each other without gap or overlap.             *)
(***************************************************************************)
InOrder ==
  LET whole == Len(wire) \div Parts
      begun == Len(wire) % Parts
  IN
  /\ \A i \in DOMAIN wire :
       wire[i] = <<((i - 1) \div Parts) + 1, ((i - 1) % Parts) + 1>>
  /\ IF obuf = 0 THEN begun = 0 ELSE obuf = whole + 1 /\ left = Parts - begun
  /\ \A i \in DOMAIN msgq : msgq[i] = pushed - Len(msgq) + i
  /\ pushed = whole + Len(msgq) + (IF obuf = 0 THEN 0 ELSE 1)

(***************************************************************************)
(* A message waiting in an active socket is not forgotten: the worker      *)
(* polls for OUT, or somebody is going to make it do so - task_send waits, *)
(* a caller is still inside SendMsg, or the owner will hear "Connected".   *)
(* ResetOut on an empty queue races with AsyncSendMsg's push here.         *)
(***************************************************************************)
ConnectedOnItsWay ==
  \/ "established" \in ToSet(sock.events) /\ sock.etype["established"] = "Connected"
  \/ \E c \in Callers : pending[c] = <<"established", "Connected">>

SendNotForgotten ==
  sock.state = "Active" /\ (obuf # 0 \/ msgq # <<>>) =>
    \/ kNetWorkerFdOut \in sock.epoll
    \/ kNetSockSrcTaskSend \in ToSet(sock.tasks)
    \/ \E c \in Callers : cpc[c] # "out"
    \/ ConnectedOnItsWay

(***************************************************************************)
(* A connection is watched from connect() on: its descriptor is registered *)
(* with the poller, or a task that registers it waits, until it is closed. *)
(***************************************************************************)
Watched ==
  /\ sock.s # -1 /\ conn # "none"
  /\ \A c \in Callers : cpc[c] # "ask"
  => \/ sock.epoll # NotAdded
     \/ \E t \in {kNetSockSrcTaskConnecting, kNetSockSrcTaskConnected} :
          t \in ToSet(sock.tasks)

(***************************************************************************)
(* Every message handed to SendMsg is written completely.                  *)
(***************************************************************************)
AllSent ==
  \A m \in Messages : pushed >= m ~> <<m, Parts>> \in ToSet(wire)

(***************************************************************************)
(* The worker does not spin on a connection with nothing to send: polling  *)
(* for OUT stops in the end.                                               *)
(***************************************************************************)
GoesQuiet == <>[](kNetWorkerFdOut \notin sock.epoll)

(***************************************************************************)
(* A connection that breaks does not go unnoticed, nor does a socket that  *)
(* gives up for another reason - socket() or connect() failed, it was      *)
(* stopped: the owner hears of it.                                         *)
(***************************************************************************)
BreakNoticed ==
  conn \in {"failed", "reset"} \/ sock.state = "Done" ~> fate # "running"
=============================================================================
