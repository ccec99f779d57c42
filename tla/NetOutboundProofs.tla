-------------------------- MODULE NetOutboundProofs --------------------------
(***************************************************************************)
(* Theorems about NetOutbound: what is sent is in order whoever calls and  *)
(* whatever fails; no connection goes unwatched and no send is forgotten   *)
(* if nobody calls SendMsg while another call opens the socket; and then,  *)
(* whatever fails, a connection that did not break and was not stopped is  *)
(* kept, and its socket is always fed what its state foresees.             *)
(***************************************************************************)
EXTENDS NetOutbound, NetSocketLemmas, FiniteSetTheorems

(* Types, and the order of what is sent. *)

\* SendMsg calls that have not pushed their message.
Unpushed == {c \in Callers : cpc[c] \notin {"out", "execute"}}

\* Every message that was pushed was in a call.
Counted == IsFiniteSet(Unpushed) /\ Cardinality(Unpushed) + pushed <= calls

TypeInv == TypeOK /\ Counted

-----------------------------------------------------------------------------
(* Numbers. *)

\* The quotient and the rest of a number.
LEMMA Divide ==
  ASSUME NEW P \in Nat \ {0}, NEW L \in Nat
  PROVE  /\ L \div P \in Nat /\ L % P \in 0 .. P - 1
         /\ L = (L \div P) * P + (L % P)
OBVIOUS

\* ... and of a number of that form.
LEMMA Divided ==
  ASSUME NEW P \in Nat \ {0}, NEW w \in Nat, NEW b \in 0 .. P - 1
  PROVE  /\ (w * P + b) \div P = w
         /\ (w * P + b) % P = b
<1> DEFINE L == w * P + b
           v == L \div P
           c == L % P
<1>1. L \in Nat
  OBVIOUS
<1>2. v \in Nat /\ c \in 0 .. P - 1 /\ L = v * P + c
  BY <1>1, Divide
<1>3. w * P + b = v * P + c
  BY <1>2
<1> HIDE DEF v, c, L
<1>4. v = w
  <2>1. (v - w) * P = b - c
    BY <1>2, <1>3
  <2>2. b - c < P /\ b - c > -P
    BY <1>2
  <2>3. CASE v > w
    <3>1. v - w \in Nat /\ v - w >= 1
      BY <2>3, <1>2
    <3>2. (v - w) * P >= P
      BY <3>1
    <3> QED
      BY <3>2, <2>1, <2>2, <1>2
  <2>4. CASE v < w
    <3>1. w - v \in Nat /\ w - v >= 1
      BY <2>4, <1>2
    <3>2. (w - v) * P >= P
      BY <3>1
    <3>3. (w - v) * P = c - b
      BY <2>1, <1>2
    <3> QED
      BY <3>2, <3>3, <2>2, <1>2
  <2> QED
    BY <2>3, <2>4, <1>2
<1> QED
  BY <1>2, <1>3, <1>4 DEF v, c, L
-----------------------------------------------------------------------------
(* The types. *)

LEMMA Names ==
  /\ {kNetFsmAction, kNetSockSrcFd} \cup Tasks \subseteq Sources
  /\ {kNetFsmStart, kNetSockActionConnect, kNetSockActionDone, kNetSockActionError,
      kNetWorkerFdOut, kNetWorkerFdErr, kNetWorkerTaskExecute} \subseteq AnyType
BY DEF Sources, AnyType, Tasks, kNetFsmAction, kNetSockSrcFd,
       kNetSockSrcTaskConnecting, kNetSockSrcTaskConnected, kNetSockSrcTaskAccept,
       kNetSockSrcTaskSend, kNetSockSrcTaskRecv, kNetSockSrcTaskStop,
       kNetFsmStart, kNetSockActionConnect, kNetSockActionDone, kNetSockActionError,
       kNetWorkerFdOut, kNetWorkerFdErr, kNetWorkerTaskExecute

Places == {"out", "check", "test", "start", "fsm", "connect", "dial", "raise", "ask",
           "push", "execute"}

\* Where a caller goes, and what that does to the number of messages to come.
LEMMA Going ==
  ASSUME TypeOK, NEW c \in Callers, NEW place \in Places, Goto(c, place)
  PROVE  /\ cpc' \in [Callers -> Places]
         /\ cpc'[c] = place /\ \A d \in Callers \ {c} : cpc'[d] = cpc[d]
         /\ Unpushed' = IF place \in {"out", "execute"} THEN Unpushed \ {c}
                        ELSE Unpushed \cup {c}
BY DEF TypeOK, Goto, Places, Unpushed

\* A call that goes on, before or after its message is pushed.
LEMMA CountedKept ==
  ASSUME Counted, Unpushed' = Unpushed, calls' = calls, pushed' = pushed
  PROVE  Counted'
BY DEF Counted

\* What a handler called by a thread leaves behind.
LEMMA BecomeTyped ==
  ASSUME TypeOK, NEW c \in Callers \cup {Owner}, NEW r, Tidy(r), Become(r, c)
  PROVE  /\ sock' \in Sockets /\ sock'.raised = NotRaised
         /\ IsInjective(sock'.tasks) /\ IsInjective(sock'.events)
         /\ pending' \in [Callers \cup {Owner} -> (Events \X EventTypes) \cup {NotRaised}]
         /\ fate' \in {"running", "check_failed", "unexpected_run", "deleted"}
<1>1. r.raised \in (Events \X EventTypes) \cup {NotRaised}
  BY DEF Tidy, Sockets
<1>2. sock' \in Sockets /\ sock'.raised = NotRaised
      /\ sock'.tasks = r.tasks /\ sock'.events = r.events
  BY DEF Tidy, Sockets, Become
<1> QED
  BY <1>1, <1>2 DEF Tidy, Become, TypeOK

\* What a feed of the worker leaves behind.
LEMMA WorkerFeeds ==
  ASSUME TypeOK, NEW r, Tidy(r), NEW src \in Sources, NEW type \in AnyType, NEW out,
         FeedByWorker(r, src, type, out)
  PROVE  /\ sock' \in Sockets /\ sock'.raised = NotRaised
         /\ IsInjective(sock'.tasks) /\ IsInjective(sock'.events)
         /\ pending' = pending /\ wpc' = "leaving"
         /\ fate' \in {"running", "check_failed", "unexpected_run", "deleted"}
         /\ complained' \in BOOLEAN
<1>1. Tidy(Flush(Feed(r, src, type, out))) /\ Flush(Feed(r, src, type, out)).raised = NotRaised
  BY TidyFeed, TidyFlush
<1> QED
  BY <1>1 DEF Tidy, FeedByWorker, TypeOK

\* A message that is to come leaves room for its number.
LEMMA RoomForOne ==
  ASSUME TypeOK, Counted, NEW c \in Unpushed
  PROVE  /\ pushed + 1 <= calls
         /\ IsFiniteSet(Unpushed \ {c})
         /\ Cardinality(Unpushed \ {c}) = Cardinality(Unpushed) - 1
         /\ Cardinality(Unpushed) \in Nat
<1>1. IsFiniteSet(Unpushed) /\ Cardinality(Unpushed) \in Nat
  BY FS_CardinalityType DEF Counted
<1>2. IsFiniteSet(Unpushed \ {c})
      /\ Cardinality(Unpushed \ {c}) = Cardinality(Unpushed) - 1
  BY <1>1, FS_RemoveElement
<1>3. Cardinality(Unpushed \ {c}) \in Nat
  BY <1>2, FS_CardinalityType
<1> QED
  BY <1>1, <1>2, <1>3, OutboundAssumption DEF TypeOK, Counted

\* The steps of a call of SendMsg.
LEMMA CheckTyped ==
  ASSUME TypeInv, NEW c \in Callers, NewSocket(c) \/ CheckIdle(c)
  PROVE  TypeInv'
<1>1. TypeOK'
  <2>1. calls' \in 0 .. MaxCalls /\ pushed' \in 0 .. calls'
    BY OutboundAssumption DEF TypeInv, TypeOK, NewSocket, CheckIdle, dataVars
  <2>2. cpc' \in [Callers -> Places]
    BY Going DEF TypeInv, NewSocket, CheckIdle, Places
  <2> QED
    BY <2>1, <2>2 DEF TypeInv, TypeOK, NewSocket, CheckIdle, Places, netVars, dataVars, endVars
<1>2. Counted'
  <2>1. Unpushed' = Unpushed \cup {c} /\ c \notin Unpushed
    <3>1. Unpushed' = Unpushed \cup {c}
      <4>1. PICK place \in {"check", "start", "push"} : Goto(c, place)
        BY DEF NewSocket, CheckIdle
      <4>2. place \in Places /\ place \notin {"out", "execute"}
        BY DEF Places
      <4> QED
        BY <4>1, <4>2, Going DEF TypeInv
    <3> QED
      BY <3>1 DEF Unpushed, NewSocket, CheckIdle
  <2>2. /\ Cardinality(Unpushed) \in Nat /\ IsFiniteSet(Unpushed')
        /\ Cardinality(Unpushed') = Cardinality(Unpushed) + 1
    BY <2>1, FS_CardinalityType, FS_AddElement DEF TypeInv, Counted
  <2> QED
    BY <2>2 DEF TypeInv, TypeOK, Counted, NewSocket, CheckIdle, dataVars
<1> QED
  BY <1>1, <1>2 DEF TypeInv

LEMMA PushTyped ==
  ASSUME TypeInv, NEW c \in Callers, PushMsg(c)
  PROVE  TypeInv'
<1>1. c \in Unpushed
  BY DEF PushMsg, Unpushed
<1>2. Goto(c, "execute") /\ "execute" \in Places
  BY DEF PushMsg, Places
<1>3. cpc' \in [Callers -> Places] /\ Unpushed' = Unpushed \ {c}
  BY <1>2, Going DEF TypeInv
<1>4. /\ pushed + 1 <= calls /\ IsFiniteSet(Unpushed \ {c})
      /\ Cardinality(Unpushed \ {c}) = Cardinality(Unpushed) - 1
      /\ Cardinality(Unpushed) \in Nat
  BY <1>1, RoomForOne DEF TypeInv
<1>5. pushed' = pushed + 1 /\ calls' = calls /\ pushed \in Nat /\ calls \in 0 .. MaxCalls
  BY DEF TypeInv, TypeOK, PushMsg
<1>6. pushed' \in 0 .. calls' /\ pushed' \in Messages
  BY <1>4, <1>5, OutboundAssumption DEF Messages
<1>7. msgq' \in Seq(Messages)
  BY <1>6 DEF TypeInv, TypeOK, PushMsg
<1>8. TypeOK'
  BY <1>3, <1>6, <1>7 DEF TypeInv, TypeOK, PushMsg, Places, netVars, endVars
<1>9. Counted'
  BY <1>3, <1>4, <1>5 DEF TypeInv, Counted
<1> QED
  BY <1>8, <1>9 DEF TypeInv

\* A step of a call that neither begins it nor pushes the message.
LEMMA StepTyped ==
  ASSUME TypeInv, NEW c \in Callers, NEW from \in Places, NEW place \in Places,
         cpc[c] = from, Goto(c, place),
         from \in {"out", "execute"} <=> place \in {"out", "execute"},
         UNCHANGED <<wpc, netVars, dataVars, calls, spc>> \/
           \E now \in {"up", "pending"} :
             conn' = now /\ UNCHANGED <<wpc, room, wire, dataVars, calls, spc>>,
         sock' \in Sockets /\ sock'.raised = NotRaised,
         IsInjective(sock'.tasks) /\ IsInjective(sock'.events),
         pending' \in [Callers \cup {Owner} -> (Events \X EventTypes) \cup {NotRaised}],
         fate' \in {"running", "check_failed", "unexpected_run", "deleted"},
         complained' \in BOOLEAN
  PROVE  TypeInv'
<1>1. cpc' \in [Callers -> Places] /\ Unpushed' = Unpushed
  <2>1. Unpushed' = IF place \in {"out", "execute"} THEN Unpushed \ {c}
                    ELSE Unpushed \cup {c}
    BY Going DEF TypeInv
  <2>2. c \in Unpushed <=> place \notin {"out", "execute"}
    BY DEF Unpushed
  <2>3. Unpushed' = Unpushed
    BY <2>1, <2>2
  <2> QED
    BY <2>3, Going DEF TypeInv
<1>2. /\ conn' \in {"none", "pending", "up", "failed", "reset"}
      /\ UNCHANGED <<wpc, room, wire, pushed, msgq, obuf, left, calls, spc>>
  BY DEF TypeInv, TypeOK, netVars, dataVars
<1>3. TypeOK'
  BY <1>1, <1>2 DEF TypeInv, TypeOK, Places
<1>4. Counted'
  BY <1>1, <1>2, CountedKept DEF TypeInv
<1> QED
  BY <1>3, <1>4 DEF TypeInv

\* What the handler leaves when the owner tells the socket something.
LEMMA ActionTyped ==
  ASSUME TypeOK, NEW c \in Callers, NEW type \in AnyType, ActionBy(c, type)
  PROVE  /\ sock' \in Sockets /\ sock'.raised = NotRaised
         /\ IsInjective(sock'.tasks) /\ IsInjective(sock'.events)
         /\ pending' \in [Callers \cup {Owner} -> (Events \X EventTypes) \cup {NotRaised}]
         /\ fate' \in {"running", "check_failed", "unexpected_run", "deleted"}
         /\ complained' \in BOOLEAN
<1>1. Tidy(sock)
  BY DEF TypeOK, Tidy
<1>2. \A out : Tidy(Feed(sock, kNetFsmAction, type, out))
  BY <1>1, TidyFeed, Names
<1>3. Tidy(Feed(sock, kNetFsmAction, type, ""))
  BY <1>2
<1> QED
  BY <1>3, BecomeTyped DEF ActionBy

LEMMA CallTyped ==
  ASSUME TypeInv, NEW c \in Callers, SendMsg(c)
  PROVE  TypeInv'
<1> Tidy(sock)
  BY DEF TypeInv, TypeOK, Tidy
<1>0. {"out", "check", "test", "execute", "start", "fsm", "connect", "dial", "raise",
       "ask", "push"} \subseteq Places
  BY DEF Places
<1> USE DEF TypeInv
<1>1. CASE StartSocket(c)
  <2>1. CASE sock.state \in {"Idle", "BeingAccepted"} /\ sock.s = -1
    <3>1. sock' \in Sockets /\ sock'.raised = NotRaised
          /\ sock'.tasks = sock.tasks /\ sock'.events = sock.events
      <4>1. sock' = [sock EXCEPT !.s = 1] /\ sock \in Sockets /\ sock.raised = NotRaised
        BY <1>1, <2>1 DEF StartSocket, TypeOK
      <4> QED
        BY <4>1 DEF Sockets
    <3>2. UNCHANGED <<pending, wpc, netVars, dataVars, calls, spc, endVars>>
          /\ cpc[c] = "start" /\ Goto(c, "fsm")
      BY <1>1, <2>1 DEF StartSocket, endVars
    <3> QED
      BY <1>0, <3>1, <3>2, StepTyped DEF TypeOK, endVars
  <2>2. CASE ~(sock.state \in {"Idle", "BeingAccepted"} /\ sock.s = -1)
    <3>1. UNCHANGED <<sock, cpc, pending, wpc, netVars, dataVars, calls, spc, complained>>
          /\ fate' = "check_failed"
      BY <1>1, <2>2 DEF StartSocket
    <3> QED
      BY <3>1 DEF TypeOK, Counted, Unpushed, netVars, dataVars
  <2> QED
    BY <2>1, <2>2
<1>2. CASE NoSocket(c)
  BY <1>0, <1>2, StepTyped DEF NoSocket, TypeOK, endVars
<1>3. CASE StartFsm(c)
  <2>1. Tidy(Start(sock))
    BY TidyStart
  <2> QED
    BY <1>0, <1>3, <2>1, BecomeTyped, StepTyped DEF StartFsm, TypeOK
<1>4. CASE BeginConnect(c)
  BY <1>0, <1>4, Names, ActionTyped, StepTyped DEF BeginConnect
<1>5. CASE DialAtOnce(c)
  BY <1>0, <1>5, Names, ActionTyped, StepTyped DEF DialAtOnce
<1>6. CASE DialLater(c)
  BY <1>0, <1>6, StepTyped DEF DialLater, TypeOK, endVars
<1>7. CASE DialFails(c)
  BY <1>0, <1>7, Names, ActionTyped, StepTyped DEF DialFails
<1>8. CASE RaiseByCaller(c)
  <2>1. pending[c] \in Raisable
    BY DEF TypeOK, Raisable
  <2>2. sock' \in Sockets /\ sock'.raised = NotRaised
        /\ IsInjective(sock'.tasks) /\ IsInjective(sock'.events)
    BY <1>8, <2>1, TidyRaised DEF RaiseByCaller, Tidy, TypeOK
  <2>3. pending' \in [Callers \cup {Owner} -> (Events \X EventTypes) \cup {NotRaised}]
    BY <1>8 DEF RaiseByCaller, TypeOK
  <2> QED
    BY <1>0, <1>8, <2>2, <2>3, StepTyped DEF RaiseByCaller, TypeOK, endVars
<1>9. CASE AskConnecting(c) \/ AskSend(c)
  <2>1. \A task \in Tasks : Tidy(Execute(sock, task)) /\ Execute(sock, task).raised = NotRaised
    BY TidyExecute DEF Execute, TypeOK, Sockets
  <2>2. sock' \in Sockets /\ sock'.raised = NotRaised
        /\ IsInjective(sock'.tasks) /\ IsInjective(sock'.events)
    BY <1>9, <2>1 DEF AskConnecting, AskSend, Tidy, Tasks
  <2> QED
    BY <1>0, <1>9, <2>2, StepTyped DEF AskConnecting, AskSend, TypeOK, endVars
<1>10. CASE PushMsg(c)
  BY <1>10, PushTyped
<1>11. CASE CheckNew(c)
  <2>1. CASE IsIdle(sock)
    BY <1>0, <1>11, <2>1, StepTyped DEF CheckNew, TypeOK
  <2>2. CASE ~IsIdle(sock)
    <3>1. UNCHANGED <<sock, cpc, pending, wpc, netVars, dataVars, calls, spc, complained>>
          /\ fate' = "check_failed"
      BY <1>11, <2>2 DEF CheckNew
    <3> QED
      BY <3>1 DEF TypeOK, Counted, Unpushed, netVars, dataVars
  <2> QED
    BY <2>1, <2>2
<1>12. CASE TestIdle(c)
  <2>1. PICK place \in {"start", "push"} : Goto(c, place)
    BY <1>12 DEF TestIdle
  <2> QED
    BY <1>0, <1>12, <2>1, StepTyped DEF TestIdle, TypeOK, endVars
<1> QED
  BY <1>1, <1>2, <1>3, <1>4, <1>5, <1>6, <1>7, <1>8, <1>9, <1>10, <1>11, <1>12 DEF SendMsg

\* The owner asks the socket to stop.
LEMMA StopTyped ==
  ASSUME TypeInv, AskStop \/ RaiseStop
  PROVE  TypeInv'
<1> USE DEF TypeInv
<1>0. Tidy(sock) /\ Owner \in Callers \cup {Owner}
  BY DEF TypeOK, Tidy
<1>1. UNCHANGED <<wpc, conn, room, wire, pushed, msgq, obuf, left, cpc, calls, fate, complained>>
  BY DEF AskStop, RaiseStop, netVars, dataVars, endVars
<1>2. spc' \in {"out", "raise", "done"}
  BY DEF AskStop, RaiseStop
<1>3. /\ sock' \in Sockets /\ sock'.raised = NotRaised
      /\ IsInjective(sock'.tasks) /\ IsInjective(sock'.events)
      /\ pending' \in [Callers \cup {Owner} -> (Events \X EventTypes) \cup {NotRaised}]
  <2>1. CASE AskStop
    <3> DEFINE r == AsyncStop(sock)
    <3>1. Tidy(r)
      BY <1>0, TidyEnds
    <3>2. sock' = [r EXCEPT !.raised = NotRaised] /\ pending' = [pending EXCEPT ![Owner] = r.raised]
      BY <2>1 DEF AskStop
    <3> HIDE DEF r
    <3>3. r.raised \in (Events \X EventTypes) \cup {NotRaised}
      BY <3>1 DEF Tidy, Sockets
    <3>4. sock' \in Sockets /\ sock'.raised = NotRaised
          /\ sock'.tasks = r.tasks /\ sock'.events = r.events
      BY <3>1, <3>2 DEF Tidy, Sockets
    <3> QED
      BY <1>0, <3>1, <3>2, <3>3, <3>4 DEF Tidy, TypeOK
  <2>2. CASE RaiseStop
    <3>1. pending[Owner] \in Raisable
      BY <1>0 DEF TypeOK, Raisable
    <3>2. sock' \in Sockets /\ sock'.raised = NotRaised
          /\ IsInjective(sock'.tasks) /\ IsInjective(sock'.events)
      BY <1>0, <2>2, <3>1, TidyRaised DEF RaiseStop, Tidy, TypeOK
    <3> QED
      BY <2>2, <3>2 DEF RaiseStop, TypeOK
  <2> QED
    BY <2>1, <2>2
<1>4. TypeOK'
  BY <1>1, <1>2, <1>3 DEF TypeOK
<1>5. Counted'
  BY <1>1, CountedKept DEF Unpushed
<1> QED
  BY <1>4, <1>5

\* A step of the worker that feeds the socket.
LEMMA FeedTyped ==
  ASSUME TypeInv, NEW r, Tidy(r), NEW src \in Sources, NEW type \in AnyType, NEW out,
         FeedByWorker(r, src, type, out),
         UNCHANGED <<conn, pushed, callVars>>,
         room' \in 0 .. Room, wire' \in Seq(Messages \X (1 .. Parts)),
         msgq' \in Seq(Messages), obuf' \in 0 .. MaxCalls, left' \in 0 .. Parts
  PROVE  TypeInv'
<1> USE DEF TypeInv
<1>1. /\ sock' \in Sockets /\ sock'.raised = NotRaised
      /\ IsInjective(sock'.tasks) /\ IsInjective(sock'.events)
      /\ pending' = pending /\ wpc' = "leaving"
      /\ fate' \in {"running", "check_failed", "unexpected_run", "deleted"}
      /\ complained' \in BOOLEAN
  BY WorkerFeeds
<1>2. TypeOK'
  BY <1>1 DEF TypeOK, callVars
<1>3. Counted'
  BY CountedKept DEF Unpushed, callVars
<1> QED
  BY <1>2, <1>3

\* The worker takes the oldest task, or the oldest event.
LEMMA TidyPopped ==
  ASSUME NEW r, Tidy(r)
  PROVE  /\ r.tasks # <<>> => Head(r.tasks) \in Tasks /\ Tidy(TakeTask(r))
         /\ r.events # <<>> =>
              LET q == [r EXCEPT !.events = Tail(@), !.etype[Head(r.events)] = "none"]
              IN  Tidy(q) /\ q.raised = r.raised
<1>1. ASSUME r.tasks # <<>>
      PROVE  Head(r.tasks) \in Tasks /\ Tidy(TakeTask(r))
  <2>1. /\ Head(r.tasks) \in Tasks /\ Tail(r.tasks) \in Seq(Tasks)
        /\ IsInjective(Tail(r.tasks))
    BY <1>1, TailElements DEF Tidy, Sockets
  <2> QED
    BY <2>1 DEF Tidy, Sockets, TakeTask
<1>2. ASSUME r.events # <<>>
      PROVE  LET q == [r EXCEPT !.events = Tail(@), !.etype[Head(r.events)] = "none"]
             IN  Tidy(q) /\ q.raised = r.raised
  <2> DEFINE es == Tail(r.events)
             et == [r.etype EXCEPT ![Head(r.events)] = "none"]
  <2>1. Head(r.events) \in Events /\ es \in Seq(Events) /\ IsInjective(es)
    BY <1>2, TailElements DEF Tidy, Sockets
  <2>2. et \in [Events -> EventTypes]
    BY <2>1 DEF Tidy, Sockets, EventTypes
  <2>3. [r EXCEPT !.events = Tail(@), !.etype[Head(r.events)] = "none"]
          = [r EXCEPT !.events = es, !.etype = et]
    BY DEF Tidy, Sockets
  <2> HIDE DEF es, et
  <2>4. Tidy([r EXCEPT !.events = es, !.etype = et])
        /\ [r EXCEPT !.events = es, !.etype = et].raised = r.raised
    BY <2>1, <2>2 DEF Tidy, Sockets
  <2> QED
    BY <2>3, <2>4
<1> QED
  BY <1>1, <1>2

\* What is in out_buf, or will be.
LEMMA LoadedTyped ==
  ASSUME TypeOK, obuf # 0 \/ msgq # <<>>
  PROVE  Loaded \in Messages /\ LoadedLeft \in 0 .. Parts /\ Unloaded \in Seq(Messages)
<1>1. msgq # <<>> => Head(msgq) \in Messages /\ Tail(msgq) \in Seq(Messages)
  BY HeadTailProperties DEF TypeOK
<1>2. CASE obuf # 0
  <2>1. obuf \in Messages
    BY <1>2, OutboundAssumption DEF TypeOK, Messages
  <2> QED
    BY <1>2, <2>1 DEF TypeOK, Loaded, LoadedLeft, Unloaded
<1>3. CASE obuf = 0
  BY <1>1, <1>3, OutboundAssumption DEF TypeOK, Loaded, LoadedLeft, Unloaded
<1> QED
  BY <1>2, <1>3

LEMMA SendTyped ==
  ASSUME TypeInv, NEW n \in 1 .. Parts, WritableSend(n)
  PROVE  TypeInv'
<1> USE DEF TypeInv
<1>0. Tidy(sock)
  BY DEF TypeOK, Tidy
<1>1. Loaded \in Messages /\ LoadedLeft \in 0 .. Parts /\ Unloaded \in Seq(Messages)
  BY LoadedTyped DEF WritableSend
<1>2. Parts \in Nat /\ Room \in Nat /\ MaxCalls \in Nat
  BY OutboundAssumption
<1>3. n <= LoadedLeft /\ n <= room /\ room \in 0 .. Room
  BY DEF WritableSend, TypeOK
<1>4. room' \in 0 .. Room /\ left' \in 0 .. Parts
  BY <1>1, <1>2, <1>3 DEF WritableSend
<1>5. obuf' \in 0 .. MaxCalls /\ msgq' \in Seq(Messages)
  BY <1>1, <1>2 DEF WritableSend, Messages
<1>6. wire' \in Seq(Messages \X (1 .. Parts))
  <2> DEFINE out == [i \in 1 .. n |-> <<Loaded, Parts - LoadedLeft + i>>]
  <2>1. \A i \in 1 .. n : Parts - LoadedLeft + i \in 1 .. Parts
    BY <1>1, <1>2, <1>3
  <2>2. out \in Seq(Messages \X (1 .. Parts))
    <3>1. out \in [1 .. n -> Messages \X (1 .. Parts)]
      BY <1>1, <2>1
    <3> QED
      BY <3>1, <1>2, SeqDef
  <2>3. wire' = wire \o out
    BY DEF WritableSend
  <2> HIDE DEF out
  <2> QED
    BY <2>2, <2>3, ConcatProperties DEF TypeOK
<1>7. PICK out : FeedByWorker(sock, kNetSockSrcFd, kNetWorkerFdOut, out)
  BY DEF WritableSend
<1>8. UNCHANGED <<conn, pushed, callVars>>
  BY DEF WritableSend
<1> QED
  BY <1>0, <1>4, <1>5, <1>6, <1>7, <1>8, Names, FeedTyped

LEMMA WorkTyped ==
  ASSUME TypeInv, Worker
  PROVE  TypeInv'
<1> USE DEF TypeInv
<1>0. /\ Tidy(sock) /\ kNetSockSrcFd \in Sources
      /\ {kNetWorkerFdOut, kNetWorkerFdErr, kNetWorkerTaskExecute} \subseteq AnyType
  BY Names DEF TypeOK, Tidy
<1>1. CASE RunTask
  <2>1. Head(sock.tasks) \in Tasks /\ Tidy(TakeTask(sock))
    BY <1>0, <1>1, TidyPopped DEF RunTask
  <2>2. PICK out : FeedByWorker(TakeTask(sock), Head(sock.tasks), kNetWorkerTaskExecute, out)
    BY <1>1 DEF RunTask, TakeTask
  <2>3. UNCHANGED <<conn, room, wire, pushed, msgq, obuf, left, callVars>>
    BY <1>1 DEF RunTask, netVars, dataVars
  <2> QED
    BY <1>0, <2>1, <2>2, <2>3, Names, FeedTyped DEF TypeOK
<1>2. CASE WritableOther \/ WritableIdle \/ FdError
  <2>1. PICK type \in {kNetWorkerFdOut, kNetWorkerFdErr} :
          \E out : FeedByWorker(sock, kNetSockSrcFd, type, out)
    BY <1>2 DEF WritableOther, WritableIdle, FdError
  <2>2. UNCHANGED <<conn, room, wire, pushed, msgq, obuf, left, callVars>>
    BY <1>2 DEF WritableOther, WritableIdle, FdError, netVars, dataVars
  <2> QED
    BY <1>0, <2>1, <2>2, FeedTyped DEF TypeOK
<1>3. CASE WritableBroken
  <2>1. PICK out : FeedByWorker(sock, kNetSockSrcFd, kNetWorkerFdOut, out)
    BY <1>3 DEF WritableBroken
  <2>2. UNCHANGED <<conn, room, wire, pushed, callVars>>
    BY <1>3 DEF WritableBroken, netVars
  <2>3. /\ msgq' \in Seq(Messages) /\ obuf' \in 0 .. MaxCalls /\ left' \in 0 .. Parts
    BY <1>3, LoadedTyped DEF WritableBroken, Messages
  <2> QED
    BY <1>0, <2>1, <2>2, <2>3, FeedTyped DEF TypeOK
<1>4. CASE \E n \in 1 .. Parts : WritableSend(n)
  BY <1>4, SendTyped
<1>5. CASE ProcessEvent
  <2> DEFINE e == Head(sock.events)
             popped == [sock EXCEPT !.events = Tail(@), !.etype[e] = "none"]
  <2>1. Tidy(popped) /\ popped.raised = NotRaised
    BY <1>0, <1>5, TidyPopped DEF ProcessEvent, TypeOK
  <2>2. \/ sock' = Execute(popped, kNetSockSrcTaskSend)
        \/ sock' = popped
    BY <1>5 DEF ProcessEvent
  <2>3. UNCHANGED <<pending, wpc, conn, room, wire, pushed, msgq, obuf, left,
                    cpc, calls, spc, complained>>
    BY <1>5 DEF ProcessEvent, netVars, dataVars, callVars
  <2>4. fate' \in {"running", "check_failed", "unexpected_run", "deleted"}
    BY <1>5 DEF ProcessEvent, TypeOK
  <2> HIDE DEF popped
  <2>5. /\ sock' \in Sockets /\ sock'.raised = NotRaised
        /\ IsInjective(sock'.tasks) /\ IsInjective(sock'.events)
    <3>1. Tidy(Execute(popped, kNetSockSrcTaskSend))
      BY <2>1, TidyExecute DEF Tasks
    <3>2. Execute(popped, kNetSockSrcTaskSend).raised = popped.raised
      BY <2>1 DEF Execute, Tidy, Sockets
    <3> QED
      BY <2>1, <2>2, <3>1, <3>2 DEF Tidy
  <2>6. TypeOK'
    BY <2>3, <2>4, <2>5 DEF TypeOK
  <2>7. Counted'
    BY <2>3, CountedKept DEF Unpushed
  <2> QED
    BY <2>6, <2>7
<1>6. CASE LeaveContext
  <2>1. TypeOK'
    BY <1>6 DEF LeaveContext, TypeOK, netVars, dataVars, callVars, endVars
  <2>2. Counted'
    BY <1>6, CountedKept DEF LeaveContext, dataVars, callVars, Unpushed
  <2> QED
    BY <2>1, <2>2
<1> QED
  BY <1>1, <1>2, <1>3, <1>4, <1>5, <1>6 DEF Worker, FdOut

LEMMA KernelTyped ==
  ASSUME TypeInv, Establish \/ PeerReads \/ Break
  PROVE  TypeInv'
<1> USE DEF TypeInv
<1>1. /\ conn' \in {"none", "pending", "up", "failed", "reset"} /\ room' \in 0 .. Room
      /\ UNCHANGED <<sock, pending, wpc, wire, pushed, msgq, obuf, left,
                     cpc, calls, spc, fate, complained>>
  BY OutboundAssumption
     DEF Establish, PeerReads, Break, dataVars, callVars, endVars, TypeOK
<1>2. TypeOK'
  BY <1>1 DEF TypeOK
<1>3. Counted'
  BY <1>1, CountedKept DEF Unpushed
<1> QED
  BY <1>2, <1>3

LEMMA InitTyped ==
  ASSUME Init
  PROVE  TypeInv
<1>1. TypeOK
  <2>1. /\ sock \in Sockets /\ sock.raised = NotRaised
        /\ sock.tasks = <<>> /\ sock.events = <<>>
    <3>1. PICK garbage \in Interests : sock = InitialSocket(garbage)
      BY DEF Init
    <3>2. [e \in Events |-> "none"] \in [Events -> EventTypes]
      BY DEF EventTypes
    <3> QED
      BY <3>1, <3>2 DEF InitialSocket, Sockets, SockStates, FsmStates
  <2>2. IsInjective(<<>>)
    BY DEF IsInjective
  <2>3. /\ cpc = [c \in Callers |-> "out"] /\ pending = [c \in Callers \cup {Owner} |-> NotRaised]
        /\ spc = "out" /\ calls = 0 /\ pushed = 0 /\ msgq = <<>> /\ obuf = 0 /\ left = 0
        /\ wire = <<>> /\ conn = "none" /\ room = Room
        /\ wpc = "idle" /\ fate = "running" /\ complained = FALSE
    BY DEF Init
  <2>4. IsInjective(sock.tasks) /\ IsInjective(sock.events)
    BY <2>1, <2>2
  <2>5. /\ cpc \in [Callers -> Places]
        /\ pending \in [Callers \cup {Owner} -> (Events \X EventTypes) \cup {NotRaised}]
    BY <2>3 DEF Places
  <2>6. msgq \in Seq(Messages) /\ wire \in Seq(Messages \X (1 .. Parts))
    BY <2>3
  <2>7. /\ calls \in 0 .. MaxCalls /\ pushed \in 0 .. calls
        /\ obuf \in 0 .. MaxCalls /\ left \in 0 .. Parts /\ room \in 0 .. Room
    BY <2>3, OutboundAssumption
  <2> QED
    BY <2>1, <2>3, <2>4, <2>5, <2>6, <2>7 DEF TypeOK, Places
<1>2. Counted
  <2>1. Unpushed = {}
    BY DEF Init, Unpushed
  <2> QED
    BY <2>1, FS_EmptySet DEF Init, Counted
<1> QED
  BY <1>1, <1>2 DEF TypeInv

LEMMA NextTyped ==
  ASSUME TypeInv, [Next]_vars
  PROVE  TypeInv'
<1>1. CASE UNCHANGED vars
  BY <1>1 DEF vars, netVars, dataVars, callVars, endVars,
              TypeInv, TypeOK, Counted, Unpushed
<1>2. CASE Next
  BY <1>2, CheckTyped, CallTyped, StopTyped, WorkTyped, KernelTyped DEF Next
<1> QED
  BY <1>1, <1>2

LEMMA TypeInvariance == Spec => []TypeInv
<1>1. Init => TypeInv
  BY InitTyped
<1>2. TypeInv /\ [Next]_vars => TypeInv'
  BY NextTyped
<1> QED
  BY <1>1, <1>2, PTL DEF Spec

(***************************************************************************)
(* The variables keep their types whoever calls, whatever fails and        *)
(* whenever the socket is stopped.  In particular a task or an event of    *)
(* the socket is never in its list twice, and every number a message is    *)
(* given at the Push of AsyncSendMsg belongs to a call of SendMsg.         *)
(***************************************************************************)
THEOREM TypeCorrect == Spec => []TypeOK
<1>1. TypeInv => TypeOK
  BY DEF TypeInv
<1> QED
  BY <1>1, TypeInvariance, PTL
-----------------------------------------------------------------------------
(* The order of what is sent. *)

\* The order depends on these variables only.
LEMMA OrderKept ==
  ASSUME InOrder, UNCHANGED <<wire, dataVars>>
  PROVE  InOrder'
BY DEF InOrder, dataVars

\* A new message is behind the others.
LEMMA PushOrder ==
  ASSUME TypeOK, InOrder, NEW c \in Callers, PushMsg(c)
  PROVE  InOrder'
<1> DEFINE n == Len(msgq)
<1>1. /\ pushed \in Nat /\ n \in Nat /\ msgq \in Seq(Messages)
      /\ pushed' = pushed + 1 /\ msgq' = Append(msgq, pushed + 1)
      /\ UNCHANGED <<wire, obuf, left>>
  BY DEF TypeOK, PushMsg, netVars
<1>2. /\ Len(msgq') = n + 1 /\ DOMAIN msgq' = 1 .. n + 1 /\ DOMAIN msgq = 1 .. n
      /\ \A i \in 1 .. n : msgq'[i] = msgq[i]
      /\ msgq'[n + 1] = pushed + 1
  BY <1>1
<1> HIDE DEF n
<1>3. \A i \in DOMAIN msgq : msgq[i] = pushed - n + i
  BY DEF InOrder, n
<1>4. \A i \in DOMAIN msgq' : msgq'[i] = pushed' - Len(msgq') + i
  BY <1>1, <1>2, <1>3
<1>5. pushed' = (Len(wire) \div Parts) + Len(msgq') + (IF obuf = 0 THEN 0 ELSE 1)
  <2>1. pushed = (Len(wire) \div Parts) + n + (IF obuf = 0 THEN 0 ELSE 1)
    BY DEF InOrder, n
  <2>2. Len(wire) \div Parts \in Nat
    BY Divide, OutboundAssumption, LenProperties DEF TypeOK
  <2> QED
    BY <1>1, <1>2, <2>1, <2>2
<1> QED
  BY <1>1, <1>4, <1>5 DEF InOrder

\* The message SendRaw goes on with is the one that comes next.
LEMMA LoadedNext ==
  ASSUME TypeOK, InOrder, obuf # 0 \/ msgq # <<>>
  PROVE  LET whole == Len(wire) \div Parts
             begun == Len(wire) % Parts
         IN
         /\ Loaded = whole + 1 /\ LoadedLeft = Parts - begun
         /\ \A i \in DOMAIN Unloaded : Unloaded[i] = pushed - Len(Unloaded) + i
         /\ pushed = whole + Len(Unloaded) + 1
<1> DEFINE whole == Len(wire) \div Parts
           begun == Len(wire) % Parts
<1>1. whole \in Nat /\ begun \in 0 .. Parts - 1 /\ Parts \in Nat \ {0}
  BY Divide, OutboundAssumption, LenProperties DEF TypeOK
<1>2. /\ IF obuf = 0 THEN begun = 0 ELSE obuf = whole + 1 /\ left = Parts - begun
      /\ \A i \in DOMAIN msgq : msgq[i] = pushed - Len(msgq) + i
      /\ pushed = whole + Len(msgq) + (IF obuf = 0 THEN 0 ELSE 1)
  BY DEF InOrder
<1> HIDE DEF whole, begun
<1>3. CASE obuf # 0
  <2>1. Len(msgq) \in Nat
    BY DEF TypeOK
  <2>2. Loaded = whole + 1 /\ LoadedLeft = Parts - begun /\ Unloaded = msgq
    BY <1>2, <1>3 DEF Loaded, LoadedLeft, Unloaded
  <2>3. pushed = whole + Len(msgq) + 1
    BY <1>2, <1>3
  <2> QED
    BY <1>2, <2>2, <2>3 DEF whole, begun
<1>4. CASE obuf = 0
  <2> DEFINE n == Len(msgq)
             t == Tail(msgq)
  <2>1. /\ n \in Nat \ {0} /\ Head(msgq) = msgq[1] /\ DOMAIN msgq = 1 .. n
        /\ Len(t) = n - 1 /\ DOMAIN t = 1 .. n - 1
        /\ \A i \in 1 .. n - 1 : t[i] = msgq[i + 1]
    BY <1>4, HeadTailProperties, EmptySeq, LenProperties DEF TypeOK
  <2>2. Loaded = Head(msgq) /\ LoadedLeft = Parts /\ Unloaded = t
    BY <1>4 DEF Loaded, LoadedLeft, Unloaded
  <2>3. /\ \A i \in 1 .. n : msgq[i] = pushed - n + i
        /\ pushed = whole + n /\ begun = 0
    BY <1>1, <1>2, <1>4, <2>1
  <2> HIDE DEF n, t
  <2>4. Loaded = whole + 1
    BY <1>1, <2>1, <2>2, <2>3
  <2>5. LoadedLeft = Parts - begun
    BY <1>1, <2>2, <2>3
  <2>6. \A i \in DOMAIN t : t[i] = pushed - Len(t) + i
    <3> SUFFICES ASSUME NEW i \in 1 .. n - 1
                 PROVE  t[i] = pushed - Len(t) + i
      BY <2>1
    <3>1. i + 1 \in 1 .. n /\ t[i] = msgq[i + 1]
      BY <2>1
    <3>2. msgq[i + 1] = pushed - n + (i + 1)
      BY <2>3, <3>1
    <3> QED
      BY <1>1, <2>1, <2>3, <3>1, <3>2
  <2>7. pushed = whole + Len(t) + 1
    BY <1>1, <2>1, <2>3
  <2> QED
    BY <2>2, <2>4, <2>5, <2>6, <2>7 DEF whole, begun
<1> QED
  BY <1>3, <1>4

\* Writing n more pieces goes on where the stream stands.
LEMMA SendOrder ==
  ASSUME TypeOK, InOrder, NEW n \in 1 .. Parts, WritableSend(n)
  PROVE  InOrder'
<1> DEFINE P == Parts
           L == Len(wire)
           w == L \div P
           b == L % P
           u == Unloaded
           out == [i \in 1 .. n |-> <<Loaded, P - LoadedLeft + i>>]
<1>1. /\ P \in Nat \ {0} /\ L \in Nat /\ w \in Nat /\ b \in 0 .. P - 1 /\ L = w * P + b
  BY Divide, OutboundAssumption, LenProperties DEF TypeOK
<1>2. /\ Loaded = w + 1 /\ LoadedLeft = P - b
      /\ \A i \in DOMAIN u : u[i] = pushed - Len(u) + i
      /\ pushed = w + Len(u) + 1
  BY LoadedNext DEF WritableSend
<1>3. n <= P - b /\ n \in Nat \ {0}
  BY <1>1, <1>2 DEF WritableSend
<1>4. /\ wire' = wire \o out /\ msgq' = u /\ pushed' = pushed
      /\ left' = P - b - n /\ obuf' = IF left' = 0 THEN 0 ELSE w + 1
  BY <1>1, <1>2, <1>3 DEF WritableSend
<1>5. Len(u) \in Nat
  BY LoadedTyped, LenProperties DEF WritableSend
<1>6. /\ Len(wire') = L + n /\ DOMAIN wire' = 1 .. L + n /\ DOMAIN wire = 1 .. L
      /\ \A i \in 1 .. L : wire'[i] = wire[i]
      /\ \A i \in L + 1 .. L + n : wire'[i] = <<w + 1, b + (i - L)>>
  <2>1. out \in Seq((1 .. w + 1) \X (1 .. P)) /\ Len(out) = n
    <3>1. \A i \in 1 .. n : P - LoadedLeft + i \in 1 .. P /\ Loaded \in 1 .. w + 1
      BY <1>1, <1>2, <1>3
    <3>2. out \in [1 .. n -> (1 .. w + 1) \X (1 .. P)]
      BY <3>1
    <3> QED
      BY <1>3, <3>2, SeqDef
  <2>2. \A i \in 1 .. n : out[i] = <<w + 1, b + i>>
    BY <1>1, <1>2
  <2>3. wire \in Seq(Messages \X (1 .. P))
    BY DEF TypeOK
  <2> HIDE DEF out, w, b, P
  <2> DEFINE T == (Messages \X (1 .. P)) \cup ((1 .. w + 1) \X (1 .. P))
  <2>4. wire \in Seq(T) /\ out \in Seq(T)
    BY <2>1, <2>3
  <2> HIDE DEF T
  <2>5. /\ Len(wire \o out) = L + n /\ wire \o out \in Seq(T)
        /\ \A i \in 1 .. L + n : (wire \o out)[i] = IF i <= L THEN wire[i] ELSE out[i - L]
    BY <2>1, <2>4, ConcatProperties
  <2>6. DOMAIN wire = 1 .. L /\ DOMAIN (wire \o out) = 1 .. L + n
    BY <2>4, <2>5, LenProperties
  <2>7. \A i \in 1 .. L : (wire \o out)[i] = wire[i]
    BY <1>1, <1>3, <2>5
  <2>8. \A i \in L + 1 .. L + n : (wire \o out)[i] = <<w + 1, b + (i - L)>>
    <3> SUFFICES ASSUME NEW i \in L + 1 .. L + n
                 PROVE  (wire \o out)[i] = <<w + 1, b + (i - L)>>
      OBVIOUS
    <3>1. i \in 1 .. L + n /\ ~(i <= L) /\ i - L \in 1 .. n
      BY <1>1, <1>3
    <3> QED
      BY <2>2, <2>5, <3>1
  <2> QED
    BY <1>4, <2>5, <2>6, <2>7, <2>8
<1>7. \A i \in 1 .. L : wire[i] = <<((i - 1) \div P) + 1, ((i - 1) % P) + 1>>
  BY <1>6 DEF InOrder
<1> HIDE DEF w, b, u, P, L, out
<1>8. \A i \in 1 .. L + n : wire'[i] = <<((i - 1) \div P) + 1, ((i - 1) % P) + 1>>
  <2> SUFFICES ASSUME NEW i \in 1 .. L + n
               PROVE  wire'[i] = <<((i - 1) \div P) + 1, ((i - 1) % P) + 1>>
    OBVIOUS
  <2>1. CASE i <= L
    BY <1>1, <1>6, <1>7, <2>1
  <2>2. CASE ~(i <= L)
    <3>1. i \in L + 1 .. L + n
      BY <1>1, <1>3, <2>2
    <3>2. b + (i - L) - 1 \in 0 .. P - 1 /\ i - 1 = w * P + (b + (i - L) - 1)
      BY <1>1, <1>3, <3>1
    <3>3. (i - 1) \div P = w /\ (i - 1) % P = b + (i - L) - 1
      <4> DEFINE c == b + (i - L) - 1
      <4>1. w \in Nat /\ P \in Nat \ {0} /\ c \in 0 .. P - 1 /\ i - 1 = w * P + c
        BY <1>1, <3>2
      <4> HIDE DEF c
      <4>2. (w * P + c) \div P = w /\ (w * P + c) % P = c
        BY ONLY <4>1, Divided
      <4>3. (i - 1) \div P = w /\ (i - 1) % P = c
        BY <4>1, <4>2
      <4> QED
        BY <4>3 DEF c
    <3>4. ((i - 1) % P) + 1 = b + (i - L)
      BY <1>1, <3>1, <3>3
    <3>5. wire'[i] = <<w + 1, b + (i - L)>>
      BY <1>6, <3>1
    <3> QED
      BY <3>3, <3>4, <3>5
  <2> QED
    BY <2>1, <2>2
<1>9. CASE left' = 0
  <2>1. n = P - b
    BY <1>1, <1>3, <1>4, <1>9
  <2>2. L + n = (w + 1) * P + 0
    <3>1. (w + 1) * P = w * P + P /\ w * P \in Nat
      BY <1>1
    <3> QED
      BY <1>1, <2>1, <3>1
  <2>3. (L + n) \div P = w + 1 /\ (L + n) % P = 0
    <3>1. w + 1 \in Nat /\ 0 \in 0 .. P - 1
      BY <1>1
    <3> QED
      BY <1>1, <2>2, <3>1, Divided
  <2>4. pushed' = w + 1 + Len(msgq') + 0
    BY <1>1, <1>2, <1>4, <1>5
  <2> QED
    BY <1>2, <1>4, <1>6, <1>8, <1>9, <2>3, <2>4 DEF InOrder, P
<1>10. CASE left' # 0
  <2>1. b + n \in 0 .. P - 1 /\ left' = P - (b + n)
    BY <1>1, <1>3, <1>4, <1>10
  <2>2. L + n = w * P + (b + n)
    <3>1. w * P \in Nat
      BY <1>1
    <3> QED
      BY <1>1, <1>3, <3>1
  <2>3. (L + n) \div P = w /\ (L + n) % P = b + n
    BY <1>1, <2>1, <2>2, Divided
  <2>4. obuf' = w + 1 /\ obuf' # 0 /\ pushed' = w + Len(msgq') + 1
    BY <1>1, <1>2, <1>4, <1>10
  <2> QED
    BY <1>2, <1>4, <1>6, <1>8, <2>1, <2>3, <2>4 DEF InOrder, P
<1> QED
  BY <1>9, <1>10

\* A connection that breaks leaves the message in out_buf.
LEMMA BrokenOrder ==
  ASSUME TypeOK, InOrder, WritableBroken
  PROVE  InOrder'
<1> DEFINE w == Len(wire) \div Parts
           b == Len(wire) % Parts
<1>1. /\ Loaded = w + 1 /\ LoadedLeft = Parts - b
      /\ \A i \in DOMAIN Unloaded : Unloaded[i] = pushed - Len(Unloaded) + i
      /\ pushed = w + Len(Unloaded) + 1
  BY LoadedNext DEF WritableBroken
<1>2. /\ obuf' = w + 1 /\ left' = Parts - b /\ msgq' = Unloaded
      /\ UNCHANGED <<pushed, wire>>
  BY <1>1 DEF WritableBroken, netVars
<1>3. w \in Nat
  BY Divide, OutboundAssumption, LenProperties DEF TypeOK
<1>4. w + 1 # 0
  BY <1>3
<1>5. \A i \in DOMAIN wire : wire[i] = <<((i - 1) \div Parts) + 1, ((i - 1) % Parts) + 1>>
  BY DEF InOrder
<1> QED
  BY <1>1, <1>2, <1>4, <1>5 DEF InOrder

LEMMA NextOrder ==
  ASSUME TypeOK, InOrder, [Next]_vars
  PROVE  InOrder'
<1>1. CASE UNCHANGED vars
  BY <1>1, OrderKept DEF vars, netVars, dataVars
<1>2. CASE \E c \in Callers : NewSocket(c) \/ CheckIdle(c) \/ SendMsg(c)
  <2> PICK c \in Callers : NewSocket(c) \/ CheckIdle(c) \/ SendMsg(c)
    BY <1>2
  <2>1. CASE PushMsg(c)
    BY <2>1, PushOrder
  <2>2. CASE ~PushMsg(c)
    <3>1. UNCHANGED <<wire, dataVars>>
      BY <2>2 DEF NewSocket, CheckIdle, SendMsg, CheckNew, TestIdle, StartSocket, NoSocket, StartFsm, BeginConnect,
           DialAtOnce, DialLater, DialFails, RaiseByCaller, AskConnecting, AskSend,
           netVars
    <3> QED
      BY <3>1, OrderKept
  <2> QED
    BY <2>1, <2>2
<1>3. CASE AskStop \/ RaiseStop \/ Establish \/ PeerReads \/ Break
  BY <1>3, OrderKept DEF AskStop, RaiseStop, Establish, PeerReads, Break, netVars
<1>4. CASE RunTask \/ WritableOther \/ WritableIdle \/ FdError \/ ProcessEvent \/ LeaveContext
  BY <1>4, OrderKept DEF RunTask, WritableOther, WritableIdle, FdError,
       ProcessEvent, LeaveContext, netVars
<1>5. CASE WritableBroken \/ \E n \in 1 .. Parts : WritableSend(n)
  BY <1>5, BrokenOrder, SendOrder
<1> QED
  BY <1>1, <1>2, <1>3, <1>4, <1>5 DEF Next, Worker, FdOut

(***************************************************************************)
(* What the kernel took is the messages in the order of their Push in      *)
(* AsyncSendMsg, each whole before the next: partial writes, broken        *)
(* connections, a stop, and callers who open the socket at the same time   *)
(* change nothing about that.                                              *)
(***************************************************************************)
THEOREM SentInOrder == Spec => []InOrder
<1>1. Init => InOrder
  <2> SUFFICES ASSUME Init PROVE InOrder
    OBVIOUS
  <2>1. wire = <<>> /\ obuf = 0 /\ msgq = <<>> /\ pushed = 0
    BY DEF Init
  <2>2. 0 \div Parts = 0 /\ 0 % Parts = 0
    BY OutboundAssumption
  <2> QED
    BY <2>1, <2>2 DEF InOrder
<1>2. TypeInv /\ InOrder /\ [Next]_vars => InOrder'
  BY NextOrder DEF TypeInv
<1> QED
  BY <1>1, <1>2, TypeInvariance, PTL DEF Spec
-----------------------------------------------------------------------------
(* The life of a socket that one caller at a time opens. *)

\* A caller is the only one inside SendMsg; no caller is at these places.
Alone(place) ==
  \E c \in Callers : cpc[c] = place /\ \A d \in Callers : d # c => cpc[d] = "out"
Nobody(places) == \A c \in Callers : cpc[c] \notin places

Opens == Opening \cup {"ask"}

OneOpener ==
  \A c, d \in Callers : cpc[c] \in Opens /\ cpc[d] \in Opens => c = d

\* Nothing was asked for that has to do with the connection.
Unasked == ToSet(sock.tasks) \subseteq {kNetSockSrcTaskStop}
Waiting(t) == t \in ToSet(sock.tasks)
Untouched == conn = "none" /\ sock.epoll = NotAdded /\ Unasked

\* The socket has no descriptor: it was not opened, or it was closed.
Closed ==
  /\ sock.epoll = NotAdded
  /\ sock.state \in {"Idle", "Connecting", "Done"}
  /\ sock.state = "Idle" =>
       /\ sock.fsm = "Idle" /\ Untouched
       /\ Nobody({"fsm", "dial", "ask", "raise", "push", "execute"})
  /\ sock.state = "Connecting" => Alone("dial")
  /\ \A c \in Callers : /\ cpc[c] \in {"check", "test", "start", "connect"} =>
                             sock.state \in {"Idle", "Done"}
                        /\ cpc[c] = "fsm" => sock.state = "Done"

\* It has one, and a caller is opening the connection.
Opened ==
  /\ Untouched
  /\ \/ sock.state = "Idle" /\ sock.fsm = "Idle" /\ Alone("fsm")
     \/ sock.state = "Starting" /\ sock.fsm = "Active" /\ Alone("connect")
     \/ sock.state = "Connecting" /\ sock.fsm = "Active" /\ Alone("dial")

\* connect() is under way.
Dialled ==
  /\ sock.state = "Connecting" /\ sock.fsm = "Active" /\ conn # "none"
  /\ Nobody(Opening) /\ ~Waiting(kNetSockSrcTaskConnected)
  /\ \/ sock.epoll = NotAdded /\ ~Nobody({"ask"}) /\ ~Waiting(kNetSockSrcTaskConnecting)
     \/ sock.epoll = NotAdded /\ Nobody({"ask"}) /\ Waiting(kNetSockSrcTaskConnecting)
     \/ /\ sock.epoll # NotAdded /\ sock.epoll = sock.hevents /\ Nobody({"ask"})
        /\ ~Waiting(kNetSockSrcTaskConnecting)

\* It came up.  If it did so at once, task_connected is ahead of task_send.
ConnectedFirst ==
  /\ Waiting(kNetSockSrcTaskConnected)
  /\ \A i, j \in DOMAIN sock.tasks :
       sock.tasks[i] = kNetSockSrcTaskConnected /\ sock.tasks[j] = kNetSockSrcTaskSend => i < j

Established ==
  /\ sock.state = "Active" /\ sock.fsm = "Active" /\ conn # "none"
  /\ Nobody(Opens) /\ ~Waiting(kNetSockSrcTaskConnecting)
  /\ \/ sock.epoll = NotAdded /\ ConnectedFirst
     \/ /\ sock.epoll # NotAdded /\ sock.epoll = sock.hevents
        /\ ~Waiting(kNetSockSrcTaskConnected)

LifeInv ==
  /\ OneOpener
  /\ IF sock.s = -1 THEN Closed ELSE Opened \/ Dialled \/ Established
  /\ conn # "none" => sock.fsm = "Active"
  /\ sock.fsm # "Stopping"
  /\ ToSet(sock.tasks) \subseteq {kNetSockSrcTaskConnecting, kNetSockSrcTaskConnected,
                                  kNetSockSrcTaskSend, kNetSockSrcTaskStop}
  /\ \A c \in Callers : cpc[c] \in {"check", "test", "start", "fsm"} => sock.fsm = "Idle"
  /\ \A c \in Callers : cpc[c] = "ask" => conn # "none"

\* The events of the socket that are queued, and those about to be.
Queued ==
  /\ ToSet(sock.events) \subseteq {"established", "sent", "error"}
  /\ "established" \in ToSet(sock.events) => sock.etype["established"] = "Connected"
  /\ \A e \in Events \ {"established"} : sock.etype[e] # "Connected"
  /\ conn = "none" => "established" \notin ToSet(sock.events)

Connected == <<"established", "Connected">>

ToQueue ==
  /\ \A x \in Callers \cup {Owner} :
       /\ pending[x] \in {NotRaised, Connected, <<"error", "Error">>, <<"error", "Shutdown">>}
       /\ pending[x] = Connected => conn # "none"
  /\ \A c \in Callers : pending[c] = Connected => cpc[c] = "raise"

EventsInv == Queued /\ ToQueue

\* Before the first call nothing happens.
Unborn ==
  calls = 0 =>
    /\ sock.state = "Idle" /\ sock.fsm = "Idle" /\ sock.s = -1 /\ sock.epoll = NotAdded
    /\ sock.tasks = <<>> /\ sock.events = <<>>
    /\ conn = "none" /\ spc = "out" /\ \A c \in Callers : cpc[c] = "out"

SerialInv == LifeInv /\ EventsInv /\ Unborn /\ SendNotForgotten
-----------------------------------------------------------------------------
(* Steps that keep the life of the socket in order. *)

\* Nothing about the connection changes.
LEMMA LifeKept ==
  ASSUME LifeInv, SameConn(sock', sock), cpc' = cpc, (conn' = "none") <=> (conn = "none")
  PROVE  LifeInv'
<1> SUFFICES ASSUME UNCHANGED cpc,
                    sock'.state = sock.state, sock'.fsm = sock.fsm, sock'.s = sock.s,
                    sock'.hevents = sock.hevents, sock'.epoll = sock.epoll,
                    sock'.tasks = sock.tasks
             PROVE  LifeInv'
  BY DEF SameConn
<1>1. /\ (OneOpener' <=> OneOpener) /\ (Unasked' <=> Unasked)
      /\ \A t : Waiting(t)' <=> Waiting(t)
      /\ ConnectedFirst' <=> ConnectedFirst
  BY DEF OneOpener, Unasked, Waiting, ConnectedFirst
<1>2. /\ \A places : Nobody(places)' <=> Nobody(places)
      /\ \A place : Alone(place)' <=> Alone(place)
  BY DEF Nobody, Alone
<1>3. Closed' <=> Closed
  BY <1>1, <1>2 DEF Closed, Untouched
<1>4. (Opened' <=> Opened) /\ (Dialled' <=> Dialled) /\ (Established' <=> Established)
  BY <1>1, <1>2 DEF Opened, Untouched, Dialled, Established
<1> QED
  BY <1>1, <1>3, <1>4 DEF LifeInv

\* The socket is closed.
LEMMA LifeEnds ==
  ASSUME LifeInv, cpc' = cpc, conn' = conn,
         sock'.state = "Done", sock'.s = -1, sock'.epoll = NotAdded,
         sock'.fsm = sock.fsm, ToSet(sock'.tasks) \subseteq ToSet(sock.tasks)
  PROVE  LifeInv'
<1>1. Closed'
  BY DEF Closed
<1>2. OneOpener'
  BY DEF LifeInv, OneOpener
<1> QED
  BY <1>1, <1>2 DEF LifeInv

\* The tasks of a connection that came up at once stay in order.
LEMMA FirstAsked ==
  ASSUME ConnectedFirst, Tidy(sock), NEW t \in Tasks \ {kNetSockSrcTaskConnected},
         sock'.tasks = Push(sock.tasks, t)
  PROVE  ConnectedFirst'
<1> DEFINE q == sock.tasks
           n == Len(q)
<1>1. q \in Seq(Tasks) /\ n \in Nat /\ DOMAIN q = 1 .. n
  BY DEF Tidy, Sockets
<1>2. CASE t \in ToSet(q)
  BY <1>2 DEF Push, ConnectedFirst, Waiting
<1>3. CASE t \notin ToSet(q)
  <2>1. sock'.tasks = Append(q, t)
    BY <1>3 DEF Push
  <2>2. /\ DOMAIN Append(q, t) = 1 .. n + 1 /\ Append(q, t)[n + 1] = t
        /\ \A i \in 1 .. n : Append(q, t)[i] = q[i]
    BY <1>1
  <2>3. ToSet(sock'.tasks) = ToSet(q) \cup {t}
    BY <1>1, <2>1, AppendElements
  <2>4. ASSUME NEW i \in 1 .. n + 1, NEW j \in 1 .. n + 1,
               Append(q, t)[i] = kNetSockSrcTaskConnected, Append(q, t)[j] = kNetSockSrcTaskSend
        PROVE  i < j
    <3>1. i \in 1 .. n
      BY <1>1, <2>2, <2>4
    <3>2. CASE j = n + 1
      BY <1>1, <3>1, <3>2
    <3>3. CASE j \in 1 .. n
      BY <1>1, <2>2, <2>4, <3>1, <3>3 DEF ConnectedFirst
    <3> QED
      BY <1>1, <3>2, <3>3
  <2> HIDE DEF q, n
  <2> QED
    BY <2>1, <2>2, <2>3, <2>4 DEF ConnectedFirst, Waiting, q
<1> QED
  BY <1>2, <1>3

LEMMA FirstTaken ==
  ASSUME ConnectedFirst, Tidy(sock), sock.tasks # <<>>
  PROVE  /\ Head(sock.tasks) # kNetSockSrcTaskSend
         /\ Head(sock.tasks) # kNetSockSrcTaskConnected /\ sock'.tasks = Tail(sock.tasks)
              => ConnectedFirst'
<1> DEFINE q == sock.tasks
           n == Len(q)
           t == Tail(q)
<1>1. /\ q \in Seq(Tasks) /\ n \in Nat \ {0} /\ DOMAIN q = 1 .. n /\ Head(q) = q[1]
      /\ DOMAIN t = 1 .. n - 1 /\ \A i \in 1 .. n - 1 : t[i] = q[i + 1]
  BY HeadTailProperties, EmptySeq, LenProperties DEF Tidy, Sockets
<1>2. Head(q) # kNetSockSrcTaskSend
  <2>1. PICK i \in 1 .. n : q[i] = kNetSockSrcTaskConnected
    BY <1>1 DEF ConnectedFirst, Waiting, ToSet
  <2>2. ASSUME q[1] = kNetSockSrcTaskSend PROVE FALSE
    <3>1. 1 \in 1 .. n /\ ~(i < 1)
      BY <1>1
    <3> QED
      BY <1>1, <2>1, <2>2, <3>1 DEF ConnectedFirst
  <2> QED
    BY <1>1, <2>2
<1>3. ASSUME Head(q) # kNetSockSrcTaskConnected, sock'.tasks = t
      PROVE  ConnectedFirst'
  <2>1. kNetSockSrcTaskConnected \in ToSet(t)
    <3>1. ToSet(t) = ToSet(q) \ {Head(q)}
      BY <1>1, TailElements DEF Tidy
    <3> QED
      BY <1>3, <3>1 DEF ConnectedFirst, Waiting
  <2>2. ASSUME NEW i \in 1 .. n - 1, NEW j \in 1 .. n - 1,
               t[i] = kNetSockSrcTaskConnected, t[j] = kNetSockSrcTaskSend
        PROVE  i < j
    <3>1. i + 1 \in 1 .. n /\ j + 1 \in 1 .. n /\ q[i + 1] = t[i] /\ q[j + 1] = t[j]
      BY <1>1
    <3>2. i + 1 < j + 1
      BY <1>1, <2>2, <3>1 DEF ConnectedFirst
    <3> QED
      BY <1>1, <3>2
  <2> HIDE DEF t, n, q
  <2> QED
    BY <1>1, <1>3, <2>1, <2>2 DEF ConnectedFirst, Waiting
<1> QED
  BY <1>2, <1>3

\* The life of a socket for which SendMsg is asked at most once at a time.
Serial == Serialised /\ TypeOK /\ LifeInv /\ EventsInv /\ Unborn

\* Where the callers are when one has gone on.
LEMMA Went ==
  ASSUME TypeOK, NEW c \in Callers, NEW place \in Places, Goto(c, place)
  PROVE  cpc'[c] = place /\ \A d \in Callers : d # c => cpc'[d] = cpc[d]
BY Going

\* What OneOpener, and what is said of callers anywhere, say after a move.
LEMMA WentOn ==
  ASSUME Serial, NEW c \in Callers, NEW place \in Places, Goto(c, place),
         place \in Opens => Nobody(Opens) \/ cpc[c] \in Opens,
         place \in {"check", "test", "start", "fsm"} => sock'.fsm = "Idle",
         place = "ask" => conn' # "none",
         conn # "none" => conn' # "none",
         sock'.fsm = sock.fsm \/ (cpc[c] \in Opens /\ sock'.fsm # "Stopping")
  PROVE  /\ OneOpener'
         /\ \A d \in Callers : cpc'[d] \in {"check", "test", "start", "fsm"} => sock'.fsm = "Idle"
         /\ \A d \in Callers : cpc'[d] = "ask" => conn' # "none"
<1> USE DEF Serial
<1>1. cpc'[c] = place /\ \A d \in Callers : d # c => cpc'[d] = cpc[d]
  BY Went
<1>2. OneOpener'
  BY <1>1 DEF LifeInv, OneOpener, Nobody
<1>3. \A d \in Callers : cpc'[d] \in {"check", "test", "start", "fsm"} => sock'.fsm = "Idle"
  <2> SUFFICES ASSUME NEW d \in Callers, d # c, cpc[d] \in {"check", "test", "start", "fsm"}
               PROVE  sock'.fsm = "Idle"
    BY <1>1
  <2> QED
    BY DEF LifeInv, OneOpener, Opens, Opening
<1>4. \A d \in Callers : cpc'[d] = "ask" => conn' # "none"
  BY <1>1 DEF LifeInv
<1> QED
  BY <1>2, <1>3, <1>4

\* The first call makes the socket.
LEMMA LifeNew ==
  ASSUME Serial, NEW c \in Callers, NewSocket(c)
  PROVE  LifeInv'
<1> USE DEF Serial
<1>1. /\ \A d \in Callers : cpc[d] = "out"
      /\ sock.state = "Idle" /\ sock.fsm = "Idle" /\ sock.s = -1
      /\ UNCHANGED <<sock, conn>> /\ Goto(c, "check")
  BY DEF NewSocket, Unborn, netVars
<1>2. cpc'[c] = "check" /\ \A d \in Callers : d # c => cpc'[d] = "out"
  BY <1>1, Went DEF Places
<1>3. Closed
  BY <1>1 DEF LifeInv
<1>4. Closed'
  <2>1. Untouched' <=> Untouched
    BY <1>1 DEF Untouched, Unasked
  <2> QED
    BY <1>1, <1>2, <1>3, <2>1 DEF Closed, Nobody
<1>5. OneOpener'
  BY <1>2 DEF OneOpener, Opens, Opening
<1> QED
  BY <1>1, <1>2, <1>4, <1>5 DEF LifeInv

\* It finds the socket idle.
LEMMA LifeTest ==
  ASSUME Serial, NEW c \in Callers, CheckNew(c) \/ TestIdle(c)
  PROVE  /\ LifeInv'
         /\ cpc[c] \in {"check", "test"} /\ sock.fsm = "Idle" /\ IsIdle(sock)
         /\ Goto(c, IF CheckNew(c) THEN "test" ELSE "start")
         /\ UNCHANGED <<sock, conn, pending, wpc, netVars, dataVars, calls, spc, fate, complained>>
<1> USE DEF Serial
<1>1. /\ cpc[c] \in {"check", "test"} /\ sock.fsm = "Idle"
      /\ UNCHANGED <<sock, conn, pending, wpc, netVars, dataVars, calls, spc, complained>>
  BY DEF CheckNew, TestIdle, LifeInv, netVars, endVars
<1>2. IsIdle(sock)
  BY <1>1 DEF EventsInv, Queued, IsIdle
<1>3. Goto(c, IF CheckNew(c) THEN "test" ELSE "start") /\ fate' = fate
  BY <1>2 DEF CheckNew, TestIdle, endVars
<1>4. PICK place \in {"test", "start"} : Goto(c, place)
  BY <1>3
<1>5. sock.s = -1 /\ Closed /\ sock.state \in {"Idle", "Done"}
  BY <1>1 DEF LifeInv, Opened, Dialled, Established, Alone, Nobody, Opening, Closed
<1>6. cpc'[c] = place /\ \A d \in Callers : d # c => cpc'[d] = cpc[d]
  BY <1>4, Went DEF Places
<1>7. Closed'
  <2>1. sock.state = "Idle" => Nobody({"fsm", "dial", "ask", "raise", "push", "execute"})'
    BY <1>5, <1>6 DEF Closed, Nobody
  <2>2. Untouched' <=> Untouched
    BY <1>1 DEF Untouched, Unasked
  <2>3. \A d \in Callers : /\ cpc'[d] \in {"check", "test", "start", "connect"} =>
                                sock.state \in {"Idle", "Done"}
                           /\ cpc'[d] = "fsm" => sock.state = "Done"
    BY <1>5, <1>6 DEF Closed
  <2> QED
    BY <1>1, <1>5, <2>1, <2>2, <2>3 DEF Closed
<1>8. /\ OneOpener'
      /\ \A d \in Callers : cpc'[d] \in {"check", "test", "start", "fsm"} => sock'.fsm = "Idle"
      /\ \A d \in Callers : cpc'[d] = "ask" => conn' # "none"
  BY <1>1, <1>4, WentOn DEF Places, Opens, Opening
<1>9. LifeInv'
  BY <1>1, <1>5, <1>7, <1>8 DEF LifeInv
<1> QED
  BY <1>1, <1>2, <1>3, <1>9

\* A later call begins.  Nobody is opening the socket.
LEMMA LifeCheck ==
  ASSUME Serial, NEW c \in Callers, CheckIdle(c)
  PROVE  LifeInv'
<1> USE DEF Serial
<1> DEFINE place == IF IsIdle(sock) THEN "start" ELSE "push"
<1>1. /\ cpc[c] = "out" /\ \A d \in Callers : cpc[d] \notin Opening
      /\ UNCHANGED <<sock, conn>> /\ Goto(c, place) /\ place \in Places
  BY DEF CheckIdle, netVars, Places
<1>2. IsIdle(sock) <=> sock.fsm = "Idle"
  BY DEF EventsInv, Queued, IsIdle
<1>3. place = (IF sock.fsm = "Idle" THEN "start" ELSE "push")
  BY <1>2
<1> HIDE DEF place
<1>4. cpc'[c] = place /\ \A d \in Callers : d # c => cpc'[d] = cpc[d]
  BY <1>1, Went
<1>5. sock.fsm = "Idle" => Nobody(Opens)
  BY <1>1 DEF LifeInv, Nobody, Opens
<1>6. /\ OneOpener'
      /\ \A d \in Callers : cpc'[d] \in {"check", "test", "start", "fsm"} => sock'.fsm = "Idle"
      /\ \A d \in Callers : cpc'[d] = "ask" => conn' # "none"
  BY <1>1, <1>3, <1>5, WentOn DEF Opens, Opening
<1>7. CASE sock.s = -1
  <2>1. Closed
    BY <1>7 DEF LifeInv
  <2>2. sock.state \in {"Idle", "Done"}
    BY <1>1, <2>1 DEF Closed, Alone, Opening
  <2>3. \A d \in Callers : cpc'[d] \in {"start", "push"} \/ cpc'[d] = cpc[d]
    BY <1>3, <1>4
  <2>4. Closed'
    <3>1. sock.state = "Idle" => place = "start"
      BY <1>3, <2>1 DEF Closed
    <3>2. sock.state = "Idle" => Nobody({"fsm", "dial", "ask", "raise", "push", "execute"})'
      BY <1>4, <2>1, <3>1 DEF Closed, Nobody
    <3>3. Untouched' <=> Untouched
      BY <1>1 DEF Untouched, Unasked
    <3>4. \A d \in Callers : /\ cpc'[d] \in {"check", "test", "start", "connect"} =>
                                  sock.state \in {"Idle", "Done"}
                             /\ cpc'[d] = "fsm" => sock.state = "Done"
      BY <2>1, <2>2, <2>3 DEF Closed
    <3> QED
      BY <1>1, <2>1, <2>2, <3>2, <3>3, <3>4 DEF Closed
  <2> QED
    BY <1>1, <1>6, <1>7, <2>4 DEF LifeInv
<1>8. CASE sock.s # -1
  <2>1. ~Opened
    BY <1>1 DEF Opened, Alone, Opening
  <2>2. place = "push"
    BY <1>3, <1>8, <2>1 DEF LifeInv, Dialled, Established
  <2>3. \A places : "push" \notin places /\ cpc[c] \notin places =>
          (Nobody(places)' <=> Nobody(places))
    BY <1>4, <2>2 DEF Nobody
  <2>4. /\ Nobody(Opening)' <=> Nobody(Opening)
        /\ Nobody(Opens)' <=> Nobody(Opens)
        /\ Nobody({"ask"})' <=> Nobody({"ask"})
    BY <1>1, <1>4, <2>2 DEF Nobody, Opens, Opening
  <2>5. /\ \A t : Waiting(t)' <=> Waiting(t)
        /\ ConnectedFirst' <=> ConnectedFirst
    BY <1>1 DEF Waiting, ConnectedFirst
  <2>6. (Dialled => Dialled') /\ (Established => Established')
    BY <1>1, <2>4, <2>5 DEF Dialled, Established
  <2> QED
    BY <1>1, <1>6, <1>8, <2>1, <2>6 DEF LifeInv
<1> QED
  BY <1>7, <1>8

\* socket() succeeds: the socket is opened, or it is done and a CHECK fails.
LEMMA LifeStart ==
  ASSUME Serial, NEW c \in Callers, StartSocket(c)
  PROVE  LifeInv'
<1> USE DEF Serial
<1>0. cpc[c] = "start" /\ sock.fsm = "Idle"
  BY DEF StartSocket, LifeInv
<1>1. sock.s = -1 /\ Closed
  BY <1>0 DEF LifeInv, Opened, Dialled, Established, Alone, Nobody, Opening
<1>2. CASE sock.state = "Idle"
  <2>1. sock' = [sock EXCEPT !.s = 1] /\ Goto(c, "fsm") /\ conn' = conn
    BY <1>1, <1>2 DEF StartSocket, netVars
  <2>2. cpc'[c] = "fsm" /\ \A d \in Callers : d # c => cpc'[d] = cpc[d]
    BY <2>1, Went DEF Places
  <2>3. \A d \in Callers : d # c => cpc[d] = "out"
    BY <1>0, <1>1, <1>2 DEF Closed, Nobody, LifeInv, OneOpener, Opens, Opening, TypeOK, Places
  <2>4. sock'.s # -1 /\ sock'.state = "Idle" /\ sock'.fsm = "Idle"
        /\ sock'.epoll = sock.epoll /\ sock'.tasks = sock.tasks
    BY <1>0, <1>2, <2>1 DEF TypeOK, Sockets
  <2>5. Alone("fsm")'
    BY <2>2, <2>3 DEF Alone
  <2>6. Opened'
    BY <1>1, <1>2, <2>1, <2>4, <2>5 DEF Opened, Untouched, Unasked, Closed
  <2>7. /\ OneOpener'
        /\ \A d \in Callers : cpc'[d] \in {"check", "test", "start", "fsm"} => sock'.fsm = "Idle"
        /\ \A d \in Callers : cpc'[d] = "ask" => conn' # "none"
    BY <2>2, <2>3, <2>4 DEF OneOpener, Opens, Opening
  <2> QED
    BY <1>0, <2>1, <2>4, <2>6, <2>7 DEF LifeInv
<1>3. CASE sock.state # "Idle"
  <2>1. UNCHANGED <<sock, cpc, conn>>
    BY <1>1, <1>3 DEF StartSocket, Closed, netVars
  <2> QED
    BY <2>1, LifeKept DEF SameConn
<1> QED
  BY <1>2, <1>3

LEMMA LifeNoSocket ==
  ASSUME Serial, NEW c \in Callers, NoSocket(c)
  PROVE  LifeInv'
<1> USE DEF Serial
<1>1. cpc[c] = "start" /\ Goto(c, "connect") /\ UNCHANGED <<sock, conn>>
  BY DEF NoSocket, netVars
<1>2. sock.s = -1 /\ Closed /\ sock.state \in {"Idle", "Done"}
  BY <1>1 DEF LifeInv, Opened, Dialled, Established, Alone, Nobody, Opening, Closed
<1>3. cpc'[c] = "connect" /\ \A d \in Callers : d # c => cpc'[d] = cpc[d]
  BY <1>1, Went DEF Places
<1>4. Closed'
  <2>1. sock.state = "Idle" => Nobody({"fsm", "dial", "ask", "raise", "push", "execute"})'
    BY <1>2, <1>3 DEF Closed, Nobody
  <2>2. Untouched' <=> Untouched
    BY <1>1 DEF Untouched, Unasked
  <2>3. \A d \in Callers : /\ cpc'[d] \in {"check", "test", "start", "connect"} =>
                                sock.state \in {"Idle", "Done"}
                           /\ cpc'[d] = "fsm" => sock.state = "Done"
    BY <1>2, <1>3 DEF Closed
  <2> QED
    BY <1>1, <1>2, <2>1, <2>2, <2>3 DEF Closed
<1>5. /\ OneOpener'
      /\ \A d \in Callers : cpc'[d] \in {"check", "test", "start", "fsm"} => sock'.fsm = "Idle"
      /\ \A d \in Callers : cpc'[d] = "ask" => conn' # "none"
  BY <1>1, WentOn DEF Places, Opens, Opening
<1> QED
  BY <1>1, <1>2, <1>4, <1>5 DEF LifeInv

\* NetFsm::Start.
LEMMA LifeStartFsm ==
  ASSUME Serial, NEW c \in Callers, StartFsm(c)
  PROVE  LifeInv'
<1> USE DEF Serial
<1>1. /\ cpc[c] = "fsm" /\ Goto(c, "connect") /\ conn' = conn
      /\ sock' = [Start(sock) EXCEPT !.raised = NotRaised]
  BY DEF StartFsm, Become, netVars
<1>2. cpc'[c] = "connect" /\ \A d \in Callers : d # c => cpc'[d] = cpc[d]
  BY <1>1, Went DEF Places
<1>3. CASE sock.s = -1
  <2>1. Closed /\ sock.state = "Done"
    BY <1>1, <1>3 DEF LifeInv, Closed
  <2>2. /\ sock'.s = -1 /\ sock'.state = "Done" /\ sock'.epoll = NotAdded
        /\ sock'.tasks = sock.tasks /\ sock'.fsm \in {sock.fsm, "Active"}
    <3>1. CASE IsIdle(sock)
      <4>1. sock' = [AsActive(sock) EXCEPT !.raised = NotRaised]
        BY <1>1, <2>1, <3>1, StartFed
      <4> QED
        BY <1>3, <2>1, <4>1 DEF AsActive, TypeOK, Sockets, Closed
    <3>2. CASE ~IsIdle(sock)
      BY <1>1, <1>3, <2>1, <3>2 DEF Start, TypeOK, Sockets, Closed
    <3> QED
      BY <3>1, <3>2
  <2>3. Closed'
    BY <1>2, <2>1, <2>2 DEF Closed
  <2>4. /\ OneOpener'
        /\ \A d \in Callers : cpc'[d] \in {"check", "test", "start", "fsm"} => sock'.fsm = "Idle"
        /\ \A d \in Callers : cpc'[d] = "ask" => conn' # "none"
    <3>1. sock'.fsm # "Stopping"
      BY <2>2 DEF LifeInv
    <3> QED
      BY <1>1, <3>1, WentOn DEF Places, Opens, Opening
  <2> QED
    BY <1>1, <2>2, <2>3, <2>4 DEF LifeInv
<1>4. CASE sock.s # -1
  <2>1. Opened /\ sock.state = "Idle" /\ sock.fsm = "Idle"
        /\ \A d \in Callers : d # c => cpc[d] = "out"
    BY <1>1, <1>4 DEF LifeInv, Opened, Dialled, Established, Alone, Nobody, Opens, Opening
  <2>2. IsIdle(sock)
    BY <2>1 DEF EventsInv, Queued, IsIdle
  <2>3. sock' = [AsActive(InState(sock, "Starting")) EXCEPT !.raised = NotRaised]
    BY <1>1, <2>1, <2>2, StartFed
  <2>4. /\ sock'.s = sock.s /\ sock'.state = "Starting" /\ sock'.fsm = "Active"
        /\ sock'.epoll = sock.epoll /\ sock'.tasks = sock.tasks
    BY <2>3 DEF AsActive, InState, TypeOK, Sockets
  <2>5. Alone("connect")'
    BY <1>2, <2>1 DEF Alone
  <2>6. Opened'
    BY <1>1, <2>1, <2>4, <2>5 DEF Opened, Untouched, Unasked
  <2>7. /\ OneOpener'
        /\ \A d \in Callers : cpc'[d] \in {"check", "test", "start", "fsm"} => sock'.fsm = "Idle"
        /\ \A d \in Callers : cpc'[d] = "ask" => conn' # "none"
    BY <1>2, <2>1 DEF OneOpener, Opens, Opening
  <2> QED
    BY <1>1, <1>4, <2>4, <2>6, <2>7 DEF LifeInv
<1> QED
  BY <1>3, <1>4

\* The Connect action.
LEMMA LifeConnect ==
  ASSUME Serial, NEW c \in Callers, BeginConnect(c)
  PROVE  LifeInv'
<1> USE DEF Serial
<1> DEFINE r == Feed(sock, kNetFsmAction, kNetSockActionConnect, "")
<1>1. /\ cpc[c] = "connect" /\ Goto(c, "dial") /\ conn' = conn
      /\ sock' = [r EXCEPT !.raised = NotRaised]
  BY DEF BeginConnect, ActionBy, Become, netVars
<1>2. cpc'[c] = "dial" /\ \A d \in Callers : d # c => cpc'[d] = cpc[d]
  BY <1>1, Went DEF Places
<1>3. /\ sock.state \in {"Idle", "Starting"} => r = InState(sock, "Connecting")
      /\ sock.state = "Done" => r = sock
  <2>1. \A out :
          /\ sock.state \in {"Idle", "Starting"} =>
               Feed(sock, kNetFsmAction, kNetSockActionConnect, out) = InState(sock, "Connecting")
          /\ sock.state = "Done" =>
               Feed(sock, kNetFsmAction, kNetSockActionConnect, out) = sock
    BY ConnectFed, Names DEF LifeInv
  <2> QED
    BY <2>1
<1> HIDE DEF r
<1>4. CASE sock.s = -1
  <2>1. Closed /\ sock.state \in {"Idle", "Done"}
    BY <1>1, <1>4 DEF LifeInv, Closed
  <2>2. /\ sock'.s = -1 /\ sock'.epoll = NotAdded /\ sock'.fsm = sock.fsm
        /\ sock'.tasks = sock.tasks
        /\ sock'.state = IF sock.state = "Idle" THEN "Connecting" ELSE "Done"
    BY <1>1, <1>3, <1>4, <2>1 DEF InState, TypeOK, Sockets, Closed
  <2>3. sock.state = "Idle" => \A d \in Callers : d # c => cpc[d] = "out"
    BY <1>1, <2>1 DEF Closed, Nobody, LifeInv, OneOpener, Opens, Opening, TypeOK, Places
  <2>4. sock.state = "Idle" => Alone("dial")'
    BY <1>2, <2>3 DEF Alone
  <2>5. \A d \in Callers : cpc'[d] \notin {"check", "test", "start", "connect", "fsm"}
    BY <1>1, <1>2 DEF LifeInv, OneOpener, Opens, Opening
  <2>6. Closed'
    BY <2>1, <2>2, <2>4, <2>5 DEF Closed
  <2>7. /\ OneOpener'
        /\ \A d \in Callers : cpc'[d] \in {"check", "test", "start", "fsm"} => sock'.fsm = "Idle"
        /\ \A d \in Callers : cpc'[d] = "ask" => conn' # "none"
    BY <1>1, <2>2, WentOn DEF Places, Opens, Opening
  <2> QED
    BY <1>1, <2>2, <2>6, <2>7 DEF LifeInv
<1>5. CASE sock.s # -1
  <2>1. Opened /\ sock.state = "Starting" /\ sock.fsm = "Active"
        /\ \A d \in Callers : d # c => cpc[d] = "out"
    BY <1>1, <1>5 DEF LifeInv, Opened, Dialled, Established, Alone, Nobody, Opens, Opening
  <2>2. /\ sock'.s = sock.s /\ sock'.epoll = sock.epoll /\ sock'.fsm = "Active"
        /\ sock'.tasks = sock.tasks /\ sock'.state = "Connecting"
    BY <1>1, <1>3, <2>1 DEF InState, TypeOK, Sockets
  <2>3. Alone("dial")'
    BY <1>2, <2>1 DEF Alone
  <2>4. Opened'
    BY <1>1, <2>1, <2>2, <2>3 DEF Opened, Untouched, Unasked
  <2>5. /\ OneOpener'
        /\ \A d \in Callers : cpc'[d] \in {"check", "test", "start", "fsm"} => sock'.fsm = "Idle"
        /\ \A d \in Callers : cpc'[d] = "ask" => conn' # "none"
    BY <1>2, <2>1 DEF OneOpener, Opens, Opening
  <2> QED
    BY <1>1, <1>5, <2>2, <2>4, <2>5 DEF LifeInv
<1> QED
  BY <1>4, <1>5

\* A caller who is about to call connect() on a descriptor is alone.
LEMMA DialAlone ==
  ASSUME Serial, NEW c \in Callers, cpc[c] = "dial", sock.s # -1
  PROVE  /\ Untouched /\ sock.state = "Connecting" /\ sock.fsm = "Active"
         /\ \A d \in Callers : d # c => cpc[d] = "out"
BY DEF Serial, LifeInv, Opened, Dialled, Established, Alone, Nobody, Opens, Opening

\* connect() succeeds at once.
LEMMA LifeAtOnce ==
  ASSUME Serial, NEW c \in Callers, DialAtOnce(c)
  PROVE  /\ LifeInv' /\ sock'.state = "Active" /\ SameEvents(sock', sock)
         /\ pending' = [pending EXCEPT ![c] = <<"established", "Connected">>]
         /\ cpc'[c] = "raise" /\ conn' # "none"
<1> USE DEF Serial
<1>1. /\ cpc[c] = "dial" /\ sock.s # -1 /\ Goto(c, "raise") /\ conn' = "up"
  BY DEF DialAtOnce
<1>2. cpc'[c] = "raise" /\ \A d \in Callers : d # c => cpc'[d] = cpc[d]
  BY <1>1, Went DEF Places
<1>3. /\ Untouched /\ sock.state = "Connecting" /\ sock.fsm = "Active"
      /\ \A d \in Callers : d # c => cpc[d] = "out"
  BY <1>1, DialAlone
<1>4. Tidy(sock)
  BY DEF TypeOK, Tidy
<1> DEFINE r == ConnectedAtOnce(sock)
<1>5. /\ sock' = [r EXCEPT !.raised = NotRaised]
      /\ pending' = [pending EXCEPT ![c] = r.raised]
  <2>1. \A out : Feed(sock, kNetFsmAction, kNetSockActionDone, out) = r
    BY <1>3, DialFed
  <2>2. Feed(sock, kNetFsmAction, kNetSockActionDone, "") = r
    BY <2>1
  <2> QED
    BY <2>2 DEF DialAtOnce, ActionBy, Become
<1>6. /\ r.state = "Active" /\ r.s = sock.s /\ r.fsm = sock.fsm
      /\ r.hevents = sock.hevents /\ r.epoll = sock.epoll
      /\ r.tasks = Push(sock.tasks, kNetSockSrcTaskConnected) /\ SameEvents(r, sock)
      /\ r.raised = <<"established", "Connected">> /\ r \in Sockets
  BY <1>4, AtOnceFields, TidySteps DEF Tidy
<1> HIDE DEF r
<1>7. /\ sock'.state = "Active" /\ sock'.s # -1 /\ sock'.fsm = "Active"
      /\ sock'.epoll = NotAdded /\ SameEvents(sock', sock)
      /\ sock'.tasks = Push(sock.tasks, kNetSockSrcTaskConnected)
  BY <1>1, <1>3, <1>5, <1>6 DEF Sockets, SameEvents, Untouched
<1>8. /\ ToSet(sock'.tasks) = ToSet(sock.tasks) \cup {kNetSockSrcTaskConnected}
      /\ ToSet(sock.tasks) \subseteq {kNetSockSrcTaskStop}
      /\ sock'.tasks \in Seq(Tasks)
  <2>1. sock.tasks \in Seq(Tasks) /\ kNetSockSrcTaskConnected \in Tasks
    BY <1>4 DEF Tidy, Sockets, Tasks
  <2>2. LET q == Push(sock.tasks, kNetSockSrcTaskConnected) IN
        q \in Seq(Tasks) /\ ToSet(q) = ToSet(sock.tasks) \cup {kNetSockSrcTaskConnected}
    BY <2>1, PushElements
  <2>3. ToSet(sock.tasks) \subseteq {kNetSockSrcTaskStop}
    BY <1>3 DEF Untouched, Unasked
  <2> QED
    BY <1>7, <2>2, <2>3
<1>9. ConnectedFirst'
  <2>1. Waiting(kNetSockSrcTaskConnected)'
    BY <1>8 DEF Waiting
  <2>2. \A j \in DOMAIN sock'.tasks : sock'.tasks[j] # kNetSockSrcTaskSend
    <3>1. \A j \in DOMAIN sock'.tasks : sock'.tasks[j] \in ToSet(sock'.tasks)
      BY <1>8 DEF ToSet
    <3> QED
      BY <1>8, <3>1 DEF kNetSockSrcTaskSend, kNetSockSrcTaskStop, kNetSockSrcTaskConnected
  <2> QED
    BY <2>1, <2>2 DEF ConnectedFirst
<1>10. Established'
  <2>1. ~Waiting(kNetSockSrcTaskConnecting)'
    BY <1>8 DEF Waiting, kNetSockSrcTaskStop, kNetSockSrcTaskConnected, kNetSockSrcTaskConnecting
  <2>2. Nobody(Opens)'
    BY <1>2, <1>3 DEF Nobody, Opens, Opening
  <2> QED
    BY <1>1, <1>7, <1>9, <2>1, <2>2 DEF Established
<1>11. /\ OneOpener'
       /\ \A d \in Callers : cpc'[d] \in {"check", "test", "start", "fsm"} => sock'.fsm = "Idle"
       /\ \A d \in Callers : cpc'[d] = "ask" => conn' # "none"
  BY <1>2, <1>3 DEF OneOpener, Opens, Opening
<1>12. LifeInv'
  BY <1>7, <1>8, <1>10, <1>11 DEF LifeInv
<1> QED
  BY <1>1, <1>2, <1>5, <1>6, <1>7, <1>12

\* connect() is under way.
LEMMA LifeLater ==
  ASSUME Serial, NEW c \in Callers, DialLater(c)
  PROVE  LifeInv'
<1> USE DEF Serial
<1>1. /\ cpc[c] = "dial" /\ sock.s # -1 /\ Goto(c, "ask") /\ conn' = "pending"
      /\ sock' = sock
  BY DEF DialLater
<1>2. cpc'[c] = "ask" /\ \A d \in Callers : d # c => cpc'[d] = cpc[d]
  BY <1>1, Went DEF Places
<1>3. /\ Untouched /\ sock.state = "Connecting" /\ sock.fsm = "Active"
      /\ \A d \in Callers : d # c => cpc[d] = "out"
  BY <1>1, DialAlone
<1>4. ~Waiting(kNetSockSrcTaskConnected)' /\ ~Waiting(kNetSockSrcTaskConnecting)'
  BY <1>1, <1>3 DEF Untouched, Unasked, Waiting,
     kNetSockSrcTaskStop, kNetSockSrcTaskConnected, kNetSockSrcTaskConnecting
<1>5. Nobody(Opening)' /\ ~Nobody({"ask"})'
  BY <1>2, <1>3 DEF Nobody, Opening
<1>6. Dialled'
  BY <1>1, <1>3, <1>4, <1>5 DEF Dialled, Untouched
<1>7. /\ OneOpener'
      /\ \A d \in Callers : cpc'[d] \in {"check", "test", "start", "fsm"} => sock'.fsm = "Idle"
      /\ \A d \in Callers : cpc'[d] = "ask" => conn' # "none"
  BY <1>1, <1>2, <1>3 DEF OneOpener, Opens, Opening
<1> QED
  BY <1>1, <1>3, <1>6, <1>7 DEF LifeInv

\* connect() fails, or there is no descriptor.
LEMMA LifeFails ==
  ASSUME Serial, NEW c \in Callers, DialFails(c)
  PROVE  /\ LifeInv' /\ sock'.state # "Active" /\ SameEvents(sock', sock)
         /\ \E ev \in {NotRaised, <<"error", "Error">>} :
              pending' = [pending EXCEPT ![c] = ev]
<1> USE DEF Serial
<1> DEFINE r == Feed(sock, kNetFsmAction, kNetSockActionError, "")
<1>1. /\ cpc[c] = "dial" /\ Goto(c, "raise") /\ conn' = conn
      /\ sock' = [r EXCEPT !.raised = NotRaised]
      /\ pending' = [pending EXCEPT ![c] = r.raised]
  BY DEF DialFails, ActionBy, Become, netVars
<1>2. cpc'[c] = "raise" /\ \A d \in Callers : d # c => cpc'[d] = cpc[d]
  BY <1>1, Went DEF Places
<1>3. /\ sock.state \in {"Connecting", "Done"}
      /\ sock.state = "Done" => sock.s = -1 /\ sock.epoll = NotAdded
  BY <1>1, DialAlone DEF LifeInv, Closed, Nobody
<1>4. Tidy(sock)
  BY DEF TypeOK, Tidy
<1>5. /\ sock.state = "Connecting" => r = Fail(sock)
      /\ sock.state = "Done" => r = sock
  <2>1. \A out :
          /\ sock.state = "Connecting" =>
               Feed(sock, kNetFsmAction, kNetSockActionError, out) = Fail(sock)
          /\ sock.state = "Done" =>
               Feed(sock, kNetFsmAction, kNetSockActionError, out) = sock
    BY DialFed, ConnectFed, Names DEF LifeInv
  <2> QED
    BY <2>1
<1>6. /\ r.state = "Done" /\ r.s = -1 /\ r.epoll = NotAdded
      /\ r.fsm = sock.fsm /\ r.tasks = sock.tasks /\ SameEvents(r, sock)
      /\ r.raised \in {NotRaised, <<"error", "Error">>} /\ r \in Sockets
  <2> HIDE DEF r
  <2>1. CASE sock.state = "Connecting"
    BY <2>1, <1>4, <1>5, FailFields, TidyEnds DEF Tidy
  <2>2. CASE sock.state = "Done"
    BY <2>2, <1>3, <1>4, <1>5 DEF Tidy, TypeOK, SameEvents
  <2> QED
    BY <1>3, <2>1, <2>2
<1> HIDE DEF r
<1>7. /\ sock'.state = "Done" /\ sock'.s = -1 /\ sock'.epoll = NotAdded
      /\ sock'.fsm = sock.fsm /\ sock'.tasks = sock.tasks /\ SameEvents(sock', sock)
  BY <1>1, <1>6 DEF Sockets, SameEvents
<1>8. Closed'
  BY <1>7 DEF Closed
<1>9. /\ OneOpener'
      /\ \A d \in Callers : cpc'[d] \in {"check", "test", "start", "fsm"} => sock'.fsm = "Idle"
      /\ \A d \in Callers : cpc'[d] = "ask" => conn' # "none"
  BY <1>1, <1>7, WentOn DEF Places, Opens, Opening
<1>10. LifeInv'
  BY <1>1, <1>7, <1>8, <1>9 DEF LifeInv
<1> QED
  BY <1>1, <1>6, <1>7, <1>10

\* A caller goes on behind the opening of the socket, and may ask to send.
LEMMA LifeOnward ==
  ASSUME Serial, NEW c \in Callers, cpc[c] \in {"raise", "push", "execute"},
         NEW place \in {"push", "execute", "out"}, Goto(c, place), conn' = conn,
         sock'.state = sock.state, sock'.fsm = sock.fsm, sock'.s = sock.s,
         sock'.hevents = sock.hevents, sock'.epoll = sock.epoll,
         \/ sock'.tasks = sock.tasks
         \/ sock'.tasks = Push(sock.tasks, kNetSockSrcTaskSend)
  PROVE  LifeInv'
<1> USE DEF Serial
<1>0. place \in Places /\ Tidy(sock)
  BY DEF Places, TypeOK, Tidy
<1>1. cpc'[c] = place /\ \A d \in Callers : d # c => cpc'[d] = cpc[d]
  BY <1>0, Went
<1>2. /\ Nobody(Opening) => Nobody(Opening)'
      /\ Nobody(Opens) => Nobody(Opens)'
      /\ Nobody({"ask"})' <=> Nobody({"ask"})
  BY <1>1 DEF Nobody, Opens, Opening
<1>3. /\ kNetSockSrcTaskSend \in Tasks \ {kNetSockSrcTaskConnected}
      /\ kNetSockSrcTaskSend \notin {kNetSockSrcTaskConnecting, kNetSockSrcTaskConnected}
  BY DEF Tasks, kNetSockSrcTaskConnecting, kNetSockSrcTaskConnected, kNetSockSrcTaskSend
<1>4. ToSet(sock'.tasks) \in {ToSet(sock.tasks), ToSet(sock.tasks) \cup {kNetSockSrcTaskSend}}
  <2>1. sock.tasks \in Seq(Tasks) /\ kNetSockSrcTaskSend \in Tasks
    BY <1>0 DEF Tidy, Sockets, Tasks
  <2>2. ToSet(Push(sock.tasks, kNetSockSrcTaskSend)) = ToSet(sock.tasks) \cup {kNetSockSrcTaskSend}
    BY <2>1, PushElements
  <2> QED
    BY <2>2
<1>5. /\ Waiting(kNetSockSrcTaskConnecting)' <=> Waiting(kNetSockSrcTaskConnecting)
      /\ Waiting(kNetSockSrcTaskConnected)' <=> Waiting(kNetSockSrcTaskConnected)
  BY <1>3, <1>4 DEF Waiting
<1>6. ConnectedFirst => ConnectedFirst'
  <2>1. CASE sock'.tasks = sock.tasks
    BY <2>1 DEF ConnectedFirst, Waiting
  <2>2. CASE sock'.tasks = Push(sock.tasks, kNetSockSrcTaskSend)
    BY <1>0, <1>3, <2>2, FirstAsked
  <2> QED
    BY <2>1, <2>2
<1>7. /\ OneOpener'
      /\ \A d \in Callers : cpc'[d] \in {"check", "test", "start", "fsm"} => sock'.fsm = "Idle"
      /\ \A d \in Callers : cpc'[d] = "ask" => conn' # "none"
  BY <1>0, WentOn DEF Opens, Opening
<1>8. CASE sock.s = -1
  <2>1. Closed /\ sock.state = "Done"
    BY <1>8 DEF LifeInv, Closed, Alone, Nobody
  <2>2. Closed'
    BY <1>1, <2>1 DEF Closed
  <2> QED
    BY <1>4, <1>7, <1>8, <2>2 DEF LifeInv
<1>9. CASE sock.s # -1
  <2>1. ~Opened
    BY DEF Opened, Alone
  <2>2. Dialled => Dialled'
    BY <1>2, <1>5 DEF Dialled
  <2>3. Established => Established'
    BY <1>2, <1>5, <1>6 DEF Established
  <2> QED
    BY <1>4, <1>7, <1>9, <2>1, <2>2, <2>3 DEF LifeInv
<1> QED
  BY <1>8, <1>9

\* task_connecting is asked for.
LEMMA LifeAsk ==
  ASSUME Serial, NEW c \in Callers, AskConnecting(c)
  PROVE  LifeInv'
<1> USE DEF Serial
<1>0. Tidy(sock) /\ kNetSockSrcTaskConnecting \in Tasks
  BY DEF TypeOK, Tidy, Tasks
<1>1. /\ cpc[c] = "ask" /\ Goto(c, "push") /\ conn' = conn
      /\ sock' = Execute(sock, kNetSockSrcTaskConnecting)
  BY DEF AskConnecting, netVars
<1>2. cpc'[c] = "push" /\ \A d \in Callers : d # c => cpc'[d] = cpc[d]
  BY <1>1, Went DEF Places
<1>3. /\ sock'.state = sock.state /\ sock'.fsm = sock.fsm /\ sock'.s = sock.s
      /\ sock'.hevents = sock.hevents /\ sock'.epoll = sock.epoll
      /\ ToSet(sock'.tasks) = ToSet(sock.tasks) \cup {kNetSockSrcTaskConnecting}
  BY <1>0, <1>1, ExecutedFields
<1>4. /\ OneOpener'
      /\ \A d \in Callers : cpc'[d] \in {"check", "test", "start", "fsm"} => sock'.fsm = "Idle"
      /\ \A d \in Callers : cpc'[d] = "ask" => conn' # "none"
  BY <1>1, <1>3, WentOn DEF Places, Opens, Opening
<1>5. CASE sock.s = -1
  <2>1. Closed /\ sock.state = "Done"
    BY <1>1, <1>5 DEF LifeInv, Closed, Alone, Nobody
  <2>2. Closed'
    BY <1>2, <1>3, <2>1 DEF Closed
  <2> QED
    BY <1>1, <1>3, <1>4, <1>5, <2>2 DEF LifeInv
<1>6. CASE sock.s # -1
  <2>1. Dialled /\ ~Nobody({"ask"})
    BY <1>1, <1>6 DEF LifeInv, Opened, Established, Alone, Nobody, Opens
  <2>2. Nobody({"ask"})' /\ Nobody(Opening)'
    BY <1>1, <1>2, <2>1 DEF LifeInv, OneOpener, Opens, Nobody, Opening, Dialled
  <2>3. Waiting(kNetSockSrcTaskConnecting)' /\ ~Waiting(kNetSockSrcTaskConnected)'
    BY <1>3, <2>1 DEF Dialled, Waiting, kNetSockSrcTaskConnecting, kNetSockSrcTaskConnected
  <2>4. Dialled'
    BY <1>1, <1>3, <2>1, <2>2, <2>3 DEF Dialled
  <2> QED
    BY <1>1, <1>3, <1>4, <1>6, <2>4 DEF LifeInv
<1> QED
  BY <1>5, <1>6

\* A task joins that neither opens the connection nor takes note of it; none
\* that sends before there is a connection.
LEMMA LifeJoins ==
  ASSUME Serial, cpc' = cpc, conn' = conn,
         NEW t \in {kNetSockSrcTaskSend, kNetSockSrcTaskStop},
         t = kNetSockSrcTaskStop \/ conn # "none",
         sock'.state = sock.state, sock'.fsm = sock.fsm, sock'.s = sock.s,
         sock'.hevents = sock.hevents, sock'.epoll = sock.epoll,
         sock'.tasks = Push(sock.tasks, t)
  PROVE  LifeInv'
<1> USE DEF Serial
<1>0. Tidy(sock)
  BY DEF TypeOK, Tidy
<1>1. t \in Tasks \ {kNetSockSrcTaskConnecting, kNetSockSrcTaskConnected}
  BY DEF Tasks, kNetSockSrcTaskConnecting, kNetSockSrcTaskConnected,
         kNetSockSrcTaskSend, kNetSockSrcTaskStop
<1>2. ToSet(sock'.tasks) = ToSet(sock.tasks) \cup {t}
  BY <1>0, <1>1, PushElements DEF Tidy, Sockets
<1>3. /\ Waiting(kNetSockSrcTaskConnecting)' <=> Waiting(kNetSockSrcTaskConnecting)
      /\ Waiting(kNetSockSrcTaskConnected)' <=> Waiting(kNetSockSrcTaskConnected)
      /\ Untouched => Untouched'
  BY <1>1, <1>2 DEF Waiting, Untouched, Unasked
<1>4. ConnectedFirst => ConnectedFirst'
  BY <1>0, <1>1, FirstAsked
<1>5. /\ \A places : Nobody(places)' <=> Nobody(places)
      /\ \A place : Alone(place)' <=> Alone(place)
      /\ OneOpener' <=> OneOpener
  BY DEF Nobody, Alone, OneOpener
<1>6. (Closed => Closed') /\ (Opened => Opened')
  BY <1>3, <1>5 DEF Closed, Opened
<1>7. (Dialled => Dialled') /\ (Established => Established')
  BY <1>3, <1>4, <1>5 DEF Dialled, Established
<1> QED
  BY <1>2, <1>5, <1>6, <1>7 DEF LifeInv

\* What happens to the events when a handler raises ev, or nothing.
Hears(q, r, ev) ==
  /\ ev = NotRaised => q.events = r.events /\ q.etype = r.etype
  /\ ev # NotRaised =>
       /\ ToSet(q.events) = ToSet(r.events) \cup {ev[1]}
       /\ q.etype[ev[1]] = ev[2]
       /\ \A e \in Events \ {ev[1]} : q.etype[e] = r.etype[e]

\* The worker feeds the socket, which becomes f.
LEMMA FedFields ==
  ASSUME NEW f, Tidy(f), sock' = Flush(f), SameEvents(f, sock)
  PROVE  /\ SameConn(sock', f) /\ Hears(sock', sock, f.raised)
         /\ sock'.failed = sock.failed
BY FlushFields DEF SameEvents, Hears

\* What the oldest task leaves of the socket.
Polled(t) ==
  /\ sock'.state = sock.state /\ sock'.s = sock.s
  /\ Hears(sock', sock, NotRaised)
  /\ t = kNetSockSrcTaskSend =>
       /\ sock.epoll = NotAdded => sock'.epoll = NotAdded
       /\ sock.epoll # NotAdded /\ sock.epoll = sock.hevents =>
            /\ sock'.epoll = sock'.hevents /\ sock'.epoll # NotAdded
            /\ kNetWorkerFdOut \in sock'.epoll
  /\ t # kNetSockSrcTaskSend =>
       /\ sock.s = -1 => sock'.epoll = NotAdded
       /\ sock.s # -1 /\ sock.epoll = NotAdded =>
            sock'.epoll = sock'.hevents /\ sock'.epoll # NotAdded

ClosedDown ==
  /\ sock'.state = "Done" /\ sock'.s = -1 /\ sock'.epoll = NotAdded
  /\ \E ev \in {NotRaised, <<"error", "Error">>} : Hears(sock', sock, ev)

LEMMA RunFields ==
  ASSUME Serial, RunTask
  PROVE  LET t == Head(sock.tasks) IN
         /\ t \in ToSet(sock.tasks) /\ sock'.tasks = Tail(sock.tasks)
         /\ ToSet(sock'.tasks) = ToSet(sock.tasks) \ {t}
         /\ sock'.fsm = sock.fsm /\ sock'.failed = sock.failed
         /\ UNCHANGED <<cpc, conn, pending, obuf, msgq>>
         /\ t = kNetSockSrcTaskStop => ClosedDown
         /\ t # kNetSockSrcTaskStop => Polled(t)
<1> USE DEF Serial
<1> DEFINE t == Head(sock.tasks)
           r == TakeTask(sock)
           f == Feed(r, t, kNetWorkerTaskExecute, "")
<1>1. /\ sock.tasks # <<>> /\ sock' = Flush(f)
      /\ UNCHANGED <<cpc, conn, pending, obuf, msgq>>
  BY DEF RunTask, FeedByWorker, TakeTask, netVars, dataVars, callVars
<1>2. Tidy(sock) /\ sock.raised = NotRaised
  BY DEF TypeOK, Tidy
<1>3. /\ t \in ToSet(sock.tasks) /\ t \in Tasks /\ Tidy(r)
      /\ r.tasks = Tail(sock.tasks) /\ ToSet(r.tasks) = ToSet(sock.tasks) \ {t}
      /\ r.state = sock.state /\ r.fsm = sock.fsm /\ r.s = sock.s
      /\ r.hevents = sock.hevents /\ r.epoll = sock.epoll
      /\ SameEvents(r, sock) /\ r.raised = NotRaised
  BY <1>1, <1>2, PoppedFields, TidyPopped
<1>4. /\ t \in {kNetSockSrcTaskConnecting, kNetSockSrcTaskConnected,
                kNetSockSrcTaskSend, kNetSockSrcTaskStop}
      /\ sock.fsm # "Stopping"
  BY <1>3 DEF LifeInv
<1> HIDE DEF t, r
<1>5. Tidy(f)
  <2>1. \A out : Tidy(Feed(r, t, kNetWorkerTaskExecute, out))
    BY <1>3, TidyFeed, Names
  <2> QED
    BY <2>1
<1>6. /\ t = kNetSockSrcTaskSend => f = SetOut(r)
      /\ t = kNetSockSrcTaskConnected => f = AddFd(r)
      /\ t = kNetSockSrcTaskConnecting => f = SetOut(AddFd(r))
      /\ t = kNetSockSrcTaskStop /\ sock.state # "Done" => f = Fail(r)
      /\ t = kNetSockSrcTaskStop /\ sock.state = "Done" => f = r
  <2>1. \A out :
          /\ Feed(r, kNetSockSrcTaskSend, kNetWorkerTaskExecute, out) = SetOut(r)
          /\ Feed(r, kNetSockSrcTaskConnected, kNetWorkerTaskExecute, out) = AddFd(r)
          /\ Feed(r, kNetSockSrcTaskConnecting, kNetWorkerTaskExecute, out) = SetOut(AddFd(r))
    BY TasksFed
  <2>2. sock.state \in {"Idle", "Starting", "Connecting", "Active", "Done"}
    BY DEF LifeInv, Closed, Opened, Dialled, Established
  <2>3. \A out :
          /\ sock.state # "Done" =>
               Feed(r, kNetSockSrcTaskStop, kNetWorkerTaskExecute, out) = Fail(r)
          /\ sock.state = "Done" =>
               Feed(r, kNetSockSrcTaskStop, kNetWorkerTaskExecute, out) = r
    BY <1>3, <1>4, <2>2, StopFed
  <2> QED
    BY <2>1, <2>3
<1> HIDE DEF f
<1>7. CASE t = kNetSockSrcTaskStop
  <2>1. sock.state = "Done" => sock.s = -1 /\ sock.epoll = NotAdded
    BY DEF LifeInv, Closed, Opened, Dialled, Established
  <2>2. /\ f.state = "Done" /\ f.s = -1 /\ f.epoll = NotAdded
        /\ f.fsm = r.fsm /\ f.tasks = r.tasks /\ SameEvents(f, r)
        /\ f.raised \in {NotRaised, <<"error", "Error">>}
    BY <1>3, <1>6, <1>7, <2>1, FailFields DEF SameEvents
  <2>3. SameConn(sock', f) /\ Hears(sock', sock, f.raised) /\ sock'.failed = sock.failed
    BY <1>1, <1>3, <1>5, <2>2, FedFields DEF SameEvents
  <2>4. ClosedDown
    BY <2>2, <2>3 DEF ClosedDown, SameConn
  <2> QED
    BY <1>1, <1>3, <1>7, <2>2, <2>3, <2>4 DEF SameConn, t
<1>8. CASE t = kNetSockSrcTaskSend
  <2>1. /\ f.state = r.state /\ f.s = r.s /\ f.fsm = r.fsm /\ f.tasks = r.tasks
        /\ SameEvents(f, r) /\ f.raised = NotRaised
        /\ r.epoll = NotAdded => f.epoll = NotAdded
        /\ r.epoll # NotAdded /\ r.epoll = r.hevents =>
             f.epoll = f.hevents /\ f.epoll # NotAdded /\ kNetWorkerFdOut \in f.epoll
    BY <1>3, <1>6, <1>8, OutFields
  <2>2. SameConn(sock', f) /\ Hears(sock', sock, f.raised) /\ sock'.failed = sock.failed
    BY <1>1, <1>3, <1>5, <2>1, FedFields DEF SameEvents
  <2>3. Polled(t)
    BY <1>3, <1>8, <2>1, <2>2 DEF Polled, SameConn
  <2> QED
    BY <1>1, <1>3, <1>8, <2>1, <2>2, <2>3
       DEF SameConn, t, kNetSockSrcTaskSend, kNetSockSrcTaskStop
<1>9. CASE t \in {kNetSockSrcTaskConnecting, kNetSockSrcTaskConnected}
  <2> DEFINE a == AddFd(r)
  <2>1. /\ a.state = r.state /\ a.s = r.s /\ a.fsm = r.fsm /\ a.tasks = r.tasks
        /\ SameEvents(a, r) /\ a.raised = NotRaised /\ Tidy(a)
        /\ r.s = -1 => a.epoll = NotAdded
        /\ r.s # -1 /\ r.epoll = NotAdded => a.epoll = a.hevents /\ a.epoll # NotAdded
    BY <1>3, AddFields, TidyPolled
  <2>2. f = a \/ f = SetOut(a)
    BY <1>6, <1>9
  <2> HIDE DEF a
  <2>3. /\ f.state = r.state /\ f.s = r.s /\ f.fsm = r.fsm /\ f.tasks = r.tasks
        /\ SameEvents(f, r) /\ f.raised = NotRaised
        /\ r.s = -1 => f.epoll = NotAdded
        /\ r.s # -1 /\ r.epoll = NotAdded => f.epoll = f.hevents /\ f.epoll # NotAdded
    BY <2>1, <2>2, OutFields DEF SameEvents
  <2>4. SameConn(sock', f) /\ Hears(sock', sock, f.raised) /\ sock'.failed = sock.failed
    BY <1>1, <1>3, <1>5, <2>3, FedFields DEF SameEvents
  <2>5. t \notin {kNetSockSrcTaskSend, kNetSockSrcTaskStop}
    BY <1>9 DEF kNetSockSrcTaskConnecting, kNetSockSrcTaskConnected,
                kNetSockSrcTaskSend, kNetSockSrcTaskStop
  <2>6. Polled(t)
    BY <1>3, <2>3, <2>4, <2>5 DEF Polled, SameConn
  <2> QED
    BY <1>1, <1>3, <2>3, <2>4, <2>5, <2>6 DEF SameConn, t
<1> QED
  BY <1>4, <1>7, <1>8, <1>9 DEF t

LEMMA LifeRun ==
  ASSUME Serial, RunTask
  PROVE  LifeInv'
<1> USE DEF Serial
<1> DEFINE t == Head(sock.tasks)
<1>1. /\ t \in ToSet(sock.tasks) /\ sock'.tasks = Tail(sock.tasks)
      /\ ToSet(sock'.tasks) = ToSet(sock.tasks) \ {t}
      /\ sock'.fsm = sock.fsm /\ UNCHANGED <<cpc, conn>>
      /\ t = kNetSockSrcTaskStop => ClosedDown
      /\ t # kNetSockSrcTaskStop => Polled(t)
  BY RunFields
<1>2. sock.tasks # <<>> /\ Tidy(sock)
  BY DEF RunTask, TypeOK, Tidy
<1>3. ConnectedFirst => t # kNetSockSrcTaskSend
      /\ (t # kNetSockSrcTaskConnected => ConnectedFirst')
  BY <1>1, <1>2, FirstTaken
<1> HIDE DEF t
<1>4. CASE t = kNetSockSrcTaskStop
  BY <1>1, <1>4, LifeEnds DEF ClosedDown
<1>5. CASE t # kNetSockSrcTaskStop
  <2>0. Polled(t) /\ ~Unasked
    BY <1>1, <1>5 DEF Unasked
  <2>1. /\ sock'.state = sock.state /\ sock'.s = sock.s
        /\ t \in {kNetSockSrcTaskConnecting, kNetSockSrcTaskConnected, kNetSockSrcTaskSend}
    BY <1>1, <1>5, <2>0 DEF Polled, LifeInv
  <2>2. /\ Nobody(Opening)' <=> Nobody(Opening)
        /\ Nobody(Opens)' <=> Nobody(Opens)
        /\ Nobody({"ask"})' <=> Nobody({"ask"})
        /\ \A place : Alone(place)' <=> Alone(place)
        /\ OneOpener' <=> OneOpener
    BY <1>1 DEF Nobody, Alone, OneOpener
  <2>3. /\ Waiting(kNetSockSrcTaskConnecting)' <=>
             Waiting(kNetSockSrcTaskConnecting) /\ t # kNetSockSrcTaskConnecting
        /\ Waiting(kNetSockSrcTaskConnected)' <=>
             Waiting(kNetSockSrcTaskConnected) /\ t # kNetSockSrcTaskConnected
        /\ Waiting(t)
    BY <1>1 DEF Waiting
  <2>4. CASE sock.s = -1
    <3>1. Closed /\ sock.state # "Idle"
      BY <2>0, <2>4 DEF LifeInv, Closed, Untouched
    <3>2. sock'.epoll = NotAdded
      BY <2>0, <2>1, <2>4, <3>1 DEF Polled, Closed
    <3>3. Closed'
      BY <1>1, <2>1, <2>2, <3>1, <3>2 DEF Closed
    <3> QED
      BY <1>1, <2>1, <2>2, <2>4, <3>3 DEF LifeInv
  <2>5. CASE sock.s # -1
    <3>1. ~Opened
      BY <2>0 DEF Opened, Untouched
    <3>2. CASE Dialled
      <4>1. t # kNetSockSrcTaskConnected
        BY <2>3, <3>2 DEF Dialled
      <4>2. Dialled' => LifeInv'
        BY <1>1, <2>1, <2>2, <2>5 DEF LifeInv
      <4>3. Dialled'
        <5>1. CASE t = kNetSockSrcTaskSend
          <6>1. /\ sock.epoll = NotAdded => sock'.epoll = NotAdded
                /\ sock.epoll # NotAdded /\ sock.epoll = sock.hevents =>
                     sock'.epoll = sock'.hevents /\ sock'.epoll # NotAdded
            BY <2>0, <5>1 DEF Polled
          <6>2. t # kNetSockSrcTaskConnecting
            BY <5>1 DEF kNetSockSrcTaskSend, kNetSockSrcTaskConnecting
          <6> QED
            BY <1>1, <2>1, <2>2, <2>3, <3>2, <6>1, <6>2 DEF Dialled
        <5>2. CASE t = kNetSockSrcTaskConnecting
          <6>1. sock.epoll = NotAdded /\ Nobody({"ask"})
            BY <2>3, <3>2, <5>2 DEF Dialled
          <6>2. sock'.epoll = sock'.hevents /\ sock'.epoll # NotAdded
            BY <2>0, <2>5, <5>2, <6>1
               DEF Polled, kNetSockSrcTaskSend, kNetSockSrcTaskConnecting
          <6> QED
            BY <1>1, <2>1, <2>2, <2>3, <3>2, <5>2, <6>1, <6>2 DEF Dialled
        <5> QED
          BY <2>1, <4>1, <5>1, <5>2
      <4> QED
        BY <4>2, <4>3
    <3>3. CASE Established
      <4>1. Established'
        <5>1. t # kNetSockSrcTaskConnecting
          BY <2>3, <3>3 DEF Established
        <5>2. CASE t = kNetSockSrcTaskSend
          <6>1. /\ sock.epoll # NotAdded /\ sock.epoll = sock.hevents
                /\ ~Waiting(kNetSockSrcTaskConnected)
            BY <1>3, <3>3, <5>2 DEF Established
          <6>2. sock'.epoll = sock'.hevents /\ sock'.epoll # NotAdded
            BY <2>0, <5>2, <6>1 DEF Polled
          <6> QED
            BY <1>1, <2>1, <2>2, <2>3, <3>3, <6>1, <6>2 DEF Established
        <5>3. CASE t = kNetSockSrcTaskConnected
          <6>1. sock.epoll = NotAdded
            BY <2>3, <3>3, <5>3 DEF Established
          <6>2. sock'.epoll = sock'.hevents /\ sock'.epoll # NotAdded
            BY <2>0, <2>5, <5>3, <6>1
               DEF Polled, kNetSockSrcTaskSend, kNetSockSrcTaskConnected
          <6> QED
            BY <1>1, <2>1, <2>2, <2>3, <3>3, <5>3, <6>2 DEF Established
        <5> QED
          BY <2>1, <5>1, <5>2, <5>3
      <4> QED
        BY <1>1, <2>1, <2>2, <2>5, <4>1 DEF LifeInv
    <3> QED
      BY <2>5, <3>1, <3>2, <3>3 DEF LifeInv
  <2> QED
    BY <2>4, <2>5
<1> QED
  BY <1>4, <1>5

\* A descriptor in the poller belongs to a connection that is under way or up,
\* and nothing is going to register it again.
LEMMA InThePoller ==
  ASSUME LifeInv, sock.epoll # NotAdded
  PROVE  /\ sock.s # -1 /\ sock.fsm = "Active" /\ conn # "none"
         /\ sock.state \in {"Connecting", "Active"} /\ sock.epoll = sock.hevents
         /\ Nobody(Opens)
         /\ ~Waiting(kNetSockSrcTaskConnecting) /\ ~Waiting(kNetSockSrcTaskConnected)
<1>1. sock.s # -1 /\ (Dialled \/ Established)
  BY DEF LifeInv, Closed, Opened, Untouched
<1>2. ASSUME Nobody(Opening), Nobody({"ask"}) PROVE Nobody(Opens)
  BY <1>2 DEF Nobody, Opens
<1> QED
  BY <1>1, <1>2 DEF Dialled, Established

\* What the descriptor has to say may end the connection, bring it up, ...
StillPolled ==
  /\ sock'.state = "Active" /\ sock'.s = sock.s
  /\ sock'.epoll = sock'.hevents /\ sock'.epoll # NotAdded

CameUp == StillPolled /\ Hears(sock', sock, <<"established", "Connected">>)

\* ... send a part of what there is, and go on polling, or find nothing to send.
WroteOn ==
  /\ SameConn(sock', sock) /\ kNetWorkerFdOut \in sock.epoll
  /\ \E ev \in {NotRaised, <<"sent", "Sent">>} : Hears(sock', sock, ev)

WentQuiet ==
  StillPolled /\ Hears(sock', sock, NotRaised) /\ obuf' = 0 /\ msgq' = <<>>

LEMMA FdFields ==
  ASSUME Serial, FdOut \/ FdError
  PROVE  /\ sock.epoll # NotAdded /\ sock'.fsm = sock.fsm /\ sock'.tasks = sock.tasks
         /\ sock'.failed = sock.failed /\ UNCHANGED <<cpc, conn, pending>>
         /\ (ClosedDown /\ conn \in {"failed", "reset"}) \/ CameUp \/ WroteOn \/ WentQuiet
         /\ FdError => ClosedDown
<1> USE DEF Serial
<1>1. Tidy(sock) /\ sock.raised = NotRaised
  BY DEF TypeOK, Tidy
<1>2. /\ sock.epoll # NotAdded
      /\ FdError \/ kNetWorkerFdOut \in sock.epoll
      /\ UNCHANGED <<cpc, conn, pending>>
  <2>1. kNetWorkerFdOut \notin NotAdded
    BY DEF NotAdded, kNetWorkerFdOut
  <2> QED
    BY <2>1 DEF FdOut, FdError, WritableOther, WritableIdle, WritableBroken, WritableSend,
                Writable, FeedByWorker, netVars, callVars
<1>3. /\ sock.s # -1 /\ sock.fsm = "Active" /\ sock.epoll = sock.hevents
      /\ sock.state \in {"Connecting", "Active"}
  BY <1>2, InThePoller
<1>4. \A type \in {kNetWorkerFdOut, kNetWorkerFdErr} : \A out :
        Tidy(Feed(sock, kNetSockSrcFd, type, out))
  BY <1>1, TidyFeed, Names
<1>5. ASSUME sock' = Flush(Fail(sock))
      PROVE  /\ ClosedDown /\ sock'.fsm = sock.fsm /\ sock'.tasks = sock.tasks
             /\ sock'.failed = sock.failed
  <2>1. Tidy(Fail(sock))
    BY <1>1, TidyEnds
  <2>2. LET f == Fail(sock) IN
        /\ f.state = "Done" /\ f.s = -1 /\ f.epoll = NotAdded
        /\ f.fsm = sock.fsm /\ f.tasks = sock.tasks /\ SameEvents(f, sock)
        /\ f.raised = <<"error", "Error">>
    BY <1>1, FailFields
  <2>3. sock'.failed = sock.failed /\ SameConn(sock', Fail(sock)) /\ Hears(sock', sock, Fail(sock).raised)
    BY <1>5, <2>1, <2>2, FedFields
  <2> QED
    BY <2>2, <2>3 DEF ClosedDown, SameConn
<1>6. ASSUME FdError
      PROVE  /\ ClosedDown /\ sock'.fsm = sock.fsm /\ sock'.tasks = sock.tasks
             /\ sock'.failed = sock.failed /\ conn \in {"failed", "reset"}
  <2>1. sock' = Flush(Fail(sock))
    <3>1. \A out : Feed(sock, kNetSockSrcFd, kNetWorkerFdErr, out) = Fail(sock)
      BY <1>3, OutFed, ActiveFd
    <3> QED
      BY <1>6, <3>1 DEF FdError, FeedByWorker
  <2> QED
    BY <1>2, <1>5, <1>6, <2>1 DEF FdError
<1>7. CASE WritableOther
  <2>1. sock.state = "Connecting"
    BY <1>3, <1>7 DEF WritableOther, Sending
  <2>2. PICK out : /\ sock' = Flush(ConnectedLater(sock, out))
                   /\ out # "ok" => conn \in {"failed", "reset"}
    <3>1. \A out : Feed(sock, kNetSockSrcFd, kNetWorkerFdOut, out) = ConnectedLater(sock, out)
      BY <1>3, <2>1, OutFed
    <3> QED
      BY <1>7, <3>1 DEF WritableOther, Writable, FeedByWorker
  <2> DEFINE f == ConnectedLater(sock, out)
  <2>3. Tidy(f)
    BY <1>1, TidySteps
  <2>4. \/ /\ f.state = "Active" /\ f.s = sock.s /\ f.epoll = f.hevents /\ f.epoll # NotAdded
           /\ f.raised = <<"established", "Connected">>
        \/ /\ out # "ok" /\ f.state = "Done" /\ f.s = -1 /\ f.epoll = NotAdded
           /\ f.raised = <<"error", "Error">>
    BY <1>1, <1>2, <1>3, LaterFields
  <2>5. f.fsm = sock.fsm /\ f.tasks = sock.tasks /\ SameEvents(f, sock)
    BY <1>1, LaterFields
  <2> HIDE DEF f
  <2>6. sock'.failed = sock.failed /\ SameConn(sock', f) /\ Hears(sock', sock, f.raised)
    BY <2>2, <2>3, <2>5, FedFields DEF f
  <2> QED
    BY <1>2, <1>6, <2>2, <2>4, <2>5, <2>6 DEF CameUp, StillPolled, ClosedDown, SameConn
<1>8. CASE WritableIdle
  <2>1. sock.state = "Active"
    BY <1>8 DEF WritableIdle, Sending
  <2>2. sock' = Flush(ResetOut(sock))
    <3>1. \A out : Feed(sock, kNetSockSrcFd, kNetWorkerFdOut, out) = SendStep(sock, out)
      BY <1>3, <2>1, OutFed
    <3>2. SendStep(sock, "empty") = ResetOut(sock)
      BY DEF SendStep
    <3> QED
      BY <1>8, <3>1, <3>2 DEF WritableIdle, FeedByWorker
  <2> DEFINE f == ResetOut(sock)
  <2>3. Tidy(f)
    BY <1>1, TidyPolled
  <2>4. /\ f.state = "Active" /\ f.s = sock.s /\ f.epoll = f.hevents /\ f.epoll # NotAdded
        /\ f.fsm = sock.fsm /\ f.tasks = sock.tasks /\ SameEvents(f, sock)
        /\ f.raised = NotRaised
    BY <1>1, <1>2, <1>3, <2>1, OutFields
  <2> HIDE DEF f
  <2>5. sock'.failed = sock.failed /\ SameConn(sock', f) /\ Hears(sock', sock, f.raised)
    BY <2>2, <2>3, <2>4, FedFields DEF f
  <2>6. obuf' = 0 /\ msgq' = <<>>
    BY <1>8 DEF WritableIdle, dataVars
  <2> QED
    BY <1>2, <1>6, <2>4, <2>5, <2>6 DEF WentQuiet, StillPolled, SameConn
<1>9. CASE WritableBroken \/ \E n \in 1 .. Parts : WritableSend(n)
  <2>1. /\ sock.state = "Active" /\ kNetWorkerFdOut \in sock.epoll
        /\ \E out \in {"sent", "again", "reset"} :
             sock' = Flush(Feed(sock, kNetSockSrcFd, kNetWorkerFdOut, out))
    BY <1>9 DEF WritableBroken, WritableSend, Writable, Sending, FeedByWorker
  <2>2. PICK out \in {"sent", "again", "reset"} : sock' = Flush(SendStep(sock, out))
    <3>1. \A out : Feed(sock, kNetSockSrcFd, kNetWorkerFdOut, out) = SendStep(sock, out)
      BY <1>3, <2>1, OutFed
    <3> QED
      BY <2>1, <3>1
  <2> DEFINE f == SendStep(sock, out)
  <2>3. Tidy(f)
    BY <1>1, TidySteps
  <2>4. /\ SameConn(f, sock) /\ SameEvents(f, sock)
        /\ f.raised \in {NotRaised, <<"sent", "Sent">>}
    BY <1>1, <2>2, SendFields DEF SameConn, SameEvents
  <2> HIDE DEF f
  <2>5. sock'.failed = sock.failed /\ SameConn(sock', f) /\ Hears(sock', sock, f.raised)
    BY <2>2, <2>3, <2>4, FedFields DEF f
  <2> QED
    BY <1>2, <1>6, <2>1, <2>4, <2>5 DEF WroteOn, SameConn
<1> QED
  BY <1>2, <1>6, <1>7, <1>8, <1>9 DEF FdOut

LEMMA LifeFd ==
  ASSUME Serial, FdOut \/ FdError
  PROVE  LifeInv'
<1> USE DEF Serial
<1>1. /\ sock.epoll # NotAdded /\ sock'.fsm = sock.fsm /\ sock'.tasks = sock.tasks
      /\ cpc' = cpc /\ conn' = conn
      /\ ClosedDown \/ CameUp \/ WroteOn \/ WentQuiet
  BY FdFields
<1>2. CASE ClosedDown
  BY <1>1, <1>2, LifeEnds DEF ClosedDown
<1>3. CASE WroteOn
  BY <1>1, <1>3, LifeKept DEF WroteOn
<1>4. CASE CameUp \/ WentQuiet
  <2>1. /\ sock'.s # -1 /\ sock'.state = "Active" /\ sock'.fsm = "Active" /\ conn' # "none"
        /\ sock'.epoll = sock'.hevents /\ sock'.epoll # NotAdded
    BY <1>1, <1>4, InThePoller DEF CameUp, WentQuiet, StillPolled
  <2>2. /\ Nobody(Opens)'
        /\ ~Waiting(kNetSockSrcTaskConnecting)' /\ ~Waiting(kNetSockSrcTaskConnected)'
    BY <1>1, InThePoller DEF Nobody, Waiting
  <2>3. Established'
    BY <2>1, <2>2 DEF Established
  <2>4. OneOpener' /\ \A c \in Callers : cpc'[c] # "start" /\ cpc'[c] # "ask"
    BY <2>2 DEF OneOpener, Nobody, Opens, Opening
  <2> QED
    BY <1>1, <2>1, <2>3, <2>4 DEF LifeInv
<1> QED
  BY <1>1, <1>2, <1>3, <1>4

\* The owner processes an event.
LEMMA EventFields ==
  ASSUME Serial, ProcessEvent
  PROVE  LET e == Head(sock.events) IN
         /\ e \in ToSet(sock.events) /\ e \in Events
         /\ UNCHANGED <<cpc, conn, pending, obuf, msgq>>
         /\ sock'.state = sock.state /\ sock'.fsm = sock.fsm /\ sock'.s = sock.s
         /\ sock'.hevents = sock.hevents /\ sock'.epoll = sock.epoll
         /\ sock'.failed = sock.failed
         /\ ToSet(sock'.events) = ToSet(sock.events) \ {e}
         /\ \A d \in Events \ {e} : sock'.etype[d] = sock.etype[d]
         /\ sock'.etype[e] = "none"
         /\ sock'.tasks = IF sock.etype[e] = "Connected"
                          THEN Push(sock.tasks, kNetSockSrcTaskSend) ELSE sock.tasks
<1> USE DEF Serial
<1> DEFINE e == Head(sock.events)
           es == Tail(sock.events)
           et == [sock.etype EXCEPT ![e] = "none"]
           popped == [sock EXCEPT !.events = es, !.etype = et]
<1>1. /\ Tidy(sock) /\ sock.events # <<>> /\ sock.events \in Seq(Events)
      /\ IsInjective(sock.events)
  BY DEF TypeOK, Tidy, Sockets, ProcessEvent
<1>2. e \in ToSet(sock.events) /\ e \in Events /\ ToSet(es) = ToSet(sock.events) \ {e}
  BY <1>1, TailElements
<1>3. et[e] = "none" /\ \A d \in Events \ {e} : et[d] = sock.etype[d]
  BY <1>1, <1>2 DEF Tidy, Sockets
<1>4. sock' = IF sock.etype[e] = "Connected" THEN Execute(popped, kNetSockSrcTaskSend)
              ELSE popped
  BY <1>1 DEF ProcessEvent, Tidy, Sockets
<1>5. UNCHANGED <<cpc, conn, pending, obuf, msgq>>
  BY DEF ProcessEvent, netVars, dataVars, callVars
<1> HIDE DEF e, es, et
<1>6. /\ popped.state = sock.state /\ popped.fsm = sock.fsm /\ popped.s = sock.s
      /\ popped.hevents = sock.hevents /\ popped.epoll = sock.epoll
      /\ popped.tasks = sock.tasks /\ popped.events = es /\ popped.etype = et
      /\ popped.failed = sock.failed
  BY <1>1 DEF Tidy, Sockets
<1>7. LET q == Execute(popped, kNetSockSrcTaskSend) IN
      /\ q.state = popped.state /\ q.fsm = popped.fsm /\ q.s = popped.s
      /\ q.hevents = popped.hevents /\ q.epoll = popped.epoll
      /\ q.tasks = Push(popped.tasks, kNetSockSrcTaskSend)
      /\ q.events = popped.events /\ q.etype = popped.etype /\ q.failed = popped.failed
  BY <1>1 DEF Tidy, Sockets, Execute
<1> HIDE DEF popped
<1> QED
  BY <1>2, <1>3, <1>4, <1>5, <1>6, <1>7 DEF e

LEMMA LifeEvent ==
  ASSUME Serial, ProcessEvent
  PROVE  LifeInv'
<1> USE DEF Serial
<1> DEFINE e == Head(sock.events)
<1>1. /\ e \in ToSet(sock.events) /\ e \in Events
      /\ cpc' = cpc /\ conn' = conn
      /\ sock'.state = sock.state /\ sock'.fsm = sock.fsm /\ sock'.s = sock.s
      /\ sock'.hevents = sock.hevents /\ sock'.epoll = sock.epoll
      /\ sock'.tasks = IF sock.etype[e] = "Connected"
                       THEN Push(sock.tasks, kNetSockSrcTaskSend) ELSE sock.tasks
  BY EventFields
<1> HIDE DEF e
<1>2. CASE sock.etype[e] = "Connected"
  <2>1. conn # "none"
    BY <1>1, <1>2 DEF EventsInv, Queued
  <2> QED
    BY <1>1, <1>2, <2>1, LifeJoins
<1>3. CASE sock.etype[e] # "Connected"
  BY <1>1, <1>3, LifeKept DEF SameConn
<1> QED
  BY <1>2, <1>3

\* What the owner's AsyncStop does to the socket.
LEMMA StopFields ==
  ASSUME Serial, AskStop
  PROVE  /\ sock'.state = sock.state /\ sock'.fsm = sock.fsm /\ sock'.s = sock.s
         /\ sock'.hevents = sock.hevents /\ sock'.epoll = sock.epoll
         /\ sock'.tasks = Push(sock.tasks, kNetSockSrcTaskStop)
         /\ ToSet(sock.tasks) \subseteq ToSet(sock'.tasks)
         /\ Hears(sock', sock, NotRaised)
         /\ pending' = [pending EXCEPT ![Owner] = <<"error", "Shutdown">>]
         /\ sock'.failed = sock.failed /\ UNCHANGED <<cpc, conn, obuf, msgq>>
<1> USE DEF Serial
<1> DEFINE t == Push(sock.tasks, kNetSockSrcTaskStop)
           r == AsyncStop(sock)
<1>1. /\ sock' = [r EXCEPT !.raised = NotRaised]
      /\ pending' = [pending EXCEPT ![Owner] = r.raised]
      /\ UNCHANGED <<cpc, conn, obuf, msgq>>
  BY DEF AskStop, netVars, dataVars
<1>2. sock \in Sockets /\ sock.tasks \in Seq(Tasks) /\ kNetSockSrcTaskStop \in Tasks
  BY DEF TypeOK, Sockets, Tasks
<1>3. ToSet(sock.tasks) \subseteq ToSet(t)
  BY <1>2, PushElements
<1>4. r = [sock EXCEPT !.tasks = t, !.raised = <<"error", "Shutdown">>]
  BY <1>2 DEF AsyncStop, Execute, Raise, Sockets
<1> HIDE DEF r, t
<1>5. /\ r.raised = <<"error", "Shutdown">>
      /\ sock' = [sock EXCEPT !.tasks = t, !.raised = NotRaised]
  BY <1>1, <1>2, <1>4 DEF Sockets
<1> QED
  BY <1>1, <1>2, <1>3, <1>5 DEF Sockets, Hears, t

\* An event joins the queue.
LEMMA QueueFields ==
  ASSUME Serial, NEW ev \in Raisable, sock' = Raised(sock, ev)
  PROVE  SameConn(sock', sock) /\ Hears(sock', sock, ev)
<1>1. Tidy(sock)
  BY DEF Serial, TypeOK, Tidy
<1> QED
  BY <1>1, RaisedFields DEF Hears, SameEvents

LEMMA RaisablePending ==
  ASSUME Serial, NEW x \in Callers \cup {Owner}
  PROVE  pending[x] \in Raisable
BY DEF Serial, TypeOK, Raisable

\* The steps of the callers.
LEMMA LifeCall ==
  ASSUME Serial, NEW c \in Callers, NewSocket(c) \/ CheckIdle(c) \/ SendMsg(c)
  PROVE  LifeInv'
<1> USE DEF Serial
<1>1. CASE RaiseByCaller(c)
  <2>1. SameConn(sock', sock)
    BY <1>1, RaisablePending, QueueFields DEF RaiseByCaller
  <2>2. /\ cpc[c] = "raise" /\ Goto(c, "push") /\ conn' = conn
    BY <1>1 DEF RaiseByCaller, netVars
  <2> QED
    BY <2>1, <2>2, LifeOnward DEF SameConn
<1>2. CASE PushMsg(c)
  <2>1. cpc[c] = "push" /\ Goto(c, "execute") /\ UNCHANGED <<sock, conn>>
    BY <1>2 DEF PushMsg, netVars
  <2> QED
    BY <2>1, LifeOnward
<1>3. CASE AskSend(c)
  <2>1. /\ cpc[c] = "execute" /\ Goto(c, "out") /\ conn' = conn
        /\ sock' = Execute(sock, kNetSockSrcTaskSend)
    BY <1>3 DEF AskSend, netVars
  <2>2. Tidy(sock) /\ kNetSockSrcTaskSend \in Tasks
    BY DEF TypeOK, Tidy, Tasks
  <2>3. /\ sock'.tasks = Push(sock.tasks, kNetSockSrcTaskSend)
        /\ sock'.state = sock.state /\ sock'.fsm = sock.fsm /\ sock'.s = sock.s
        /\ sock'.hevents = sock.hevents /\ sock'.epoll = sock.epoll
    BY <2>1, <2>2, ExecutedFields
  <2> QED
    BY <2>1, <2>3, LifeOnward
<1> QED
  BY <1>1, <1>2, <1>3, LifeNew, LifeTest, LifeCheck, LifeStart, LifeNoSocket, LifeStartFsm, LifeConnect,
     LifeAtOnce, LifeLater, LifeFails, LifeAsk DEF SendMsg

\* Before the first call only it can happen.
LEMMA UnbornNext ==
  ASSUME TypeOK, Unborn, [Next]_vars
  PROVE  Unborn'
<1> SUFFICES ASSUME calls' = 0
             PROVE  /\ UNCHANGED <<sock, conn, spc, cpc>> /\ calls = 0
  BY DEF Unborn
<1>1. calls \in Nat
  BY OutboundAssumption DEF TypeOK
<1>2. CASE UNCHANGED vars
  BY <1>2 DEF vars, netVars, callVars
<1>3. CASE Next
  <2>1. calls = 0
    <3>1. ASSUME NEW c \in Callers, NewSocket(c) \/ CheckIdle(c) PROVE calls = 0
      BY <1>1, <3>1 DEF NewSocket, CheckIdle
    <3>2. ASSUME NEW c \in Callers, SendMsg(c) PROVE calls = 0
      BY <3>2 DEF SendMsg, CheckNew, TestIdle, StartSocket, NoSocket, StartFsm, BeginConnect,
           DialAtOnce, DialLater, DialFails, RaiseByCaller, AskConnecting, PushMsg, AskSend
    <3>3. CASE AskStop \/ RaiseStop \/ Establish \/ PeerReads \/ Break
      BY <3>3 DEF AskStop, RaiseStop, Establish, PeerReads, Break, callVars
    <3>4. CASE Worker
      BY <3>4 DEF Worker, RunTask, FdOut, WritableOther, WritableIdle, WritableBroken,
           WritableSend, FdError, ProcessEvent, LeaveContext, callVars
    <3> QED
      BY <1>3, <3>1, <3>2, <3>3, <3>4 DEF Next
  <2>2. /\ sock.epoll = NotAdded /\ sock.tasks = <<>> /\ sock.events = <<>>
        /\ conn = "none" /\ spc = "out" /\ \A c \in Callers : cpc[c] = "out"
    BY <2>1 DEF Unborn
  <2>3. kNetWorkerFdOut \notin sock.epoll
    BY <2>2 DEF NotAdded, kNetWorkerFdOut
  <2>4. \A c \in Callers : ~NewSocket(c) /\ ~CheckIdle(c) /\ ~SendMsg(c)
    BY <2>1, <2>2 DEF NewSocket, CheckIdle, SendMsg, CheckNew, TestIdle, StartSocket,
         NoSocket, StartFsm, BeginConnect, DialAtOnce, DialLater, DialFails, RaiseByCaller,
         AskConnecting, PushMsg, AskSend
  <2>5. /\ ~AskStop /\ ~RaiseStop /\ ~RunTask /\ ~FdOut /\ ~FdError /\ ~ProcessEvent
        /\ ~Establish /\ ~PeerReads /\ ~Break
    BY <2>1, <2>2, <2>3 DEF AskStop, RaiseStop, RunTask, FdOut, WritableOther, WritableIdle,
         WritableBroken, WritableSend, Writable, FdError, ProcessEvent, Establish, PeerReads, Break
  <2>6. LeaveContext
    BY <1>3, <2>4, <2>5 DEF Next, Worker
  <2> QED
    BY <2>1, <2>6 DEF LeaveContext, netVars, callVars
<1> QED
  BY <1>2, <1>3

LEMMA LifeNext ==
  ASSUME Serial, [Next]_vars
  PROVE  LifeInv'
<1> USE DEF Serial
<1>1. ASSUME NEW c \in Callers, NewSocket(c) \/ CheckIdle(c) \/ SendMsg(c) PROVE LifeInv'
  BY <1>1, LifeCall
<1>2. CASE AskStop
  BY <1>2, StopFields, LifeJoins
<1>3. CASE RaiseStop
  <2>1. SameConn(sock', sock)
    BY <1>3, RaisablePending, QueueFields DEF RaiseStop
  <2> QED
    BY <1>3, <2>1, LifeKept DEF RaiseStop, netVars
<1>4. CASE Worker
  <2>1. CASE LeaveContext
    BY <2>1, LifeKept DEF LeaveContext, SameConn, netVars, callVars
  <2> QED
    BY <1>4, <2>1, LifeRun, LifeFd, LifeEvent DEF Worker
<1>5. CASE Establish \/ PeerReads \/ Break
  <2>1. sock' = sock /\ cpc' = cpc /\ ((conn' = "none") <=> (conn = "none"))
    BY <1>5 DEF Establish, PeerReads, Break, callVars
  <2> QED
    BY <2>1, LifeKept DEF SameConn
<1>6. CASE UNCHANGED vars
  BY <1>6, LifeKept DEF vars, netVars, callVars, SameConn
<1> QED
  BY <1>1, <1>2, <1>3, <1>4, <1>5, <1>6 DEF Next
-----------------------------------------------------------------------------
(* ... and its events. *)

Heard == {NotRaised, Connected, <<"sent", "Sent">>, <<"error", "Error">>, <<"error", "Shutdown">>}

\* An event is queued, or none.
LEMMA QueuedHears ==
  ASSUME Queued, NEW ev \in Heard, Hears(sock', sock, ev),
         conn' = "none" => conn = "none" /\ ev # Connected
  PROVE  Queued'
<1>1. CASE ev = NotRaised
  BY <1>1 DEF Queued, Hears
<1>2. CASE ev # NotRaised
  <2>1. /\ ToSet(sock'.events) = ToSet(sock.events) \cup {ev[1]}
        /\ sock'.etype[ev[1]] = ev[2]
        /\ \A e \in Events \ {ev[1]} : sock'.etype[e] = sock.etype[e]
    BY <1>2 DEF Hears
  <2>2. {"established", "sent", "error"} \subseteq Events
    BY DEF Events
  <2>3. CASE ev = Connected
    BY <2>1, <2>2, <2>3 DEF Queued, Connected
  <2>4. CASE ev \in {<<"sent", "Sent">>, <<"error", "Error">>, <<"error", "Shutdown">>}
    <3>1. ev[1] \in {"sent", "error"} /\ ev[2] # "Connected"
      BY <2>4
    <3> HIDE <2>4
    <3> QED
      BY <2>1, <2>2, <3>1 DEF Queued
  <2> QED
    BY <1>2, <2>3, <2>4 DEF Heard
<1> QED
  BY <1>1, <1>2

\* Nothing changes about what callers are going to raise, ...
LEMMA ToQueueKept ==
  ASSUME ToQueue, pending' = pending, conn' = "none" => conn = "none",
         \A c \in Callers : cpc[c] = "raise" => cpc'[c] = "raise"
  PROVE  ToQueue'
BY DEF ToQueue

\* ... or one of them, or the owner, is going to raise ev.
LEMMA ToQueueSet ==
  ASSUME ToQueue, TypeOK, NEW x \in Callers \cup {Owner}, NEW ev,
         ev \in {NotRaised, Connected, <<"error", "Error">>, <<"error", "Shutdown">>},
         pending' = [pending EXCEPT ![x] = ev],
         conn' = "none" => conn = "none" /\ ev # Connected,
         \A c \in Callers \ {x} : cpc[c] = "raise" => cpc'[c] = "raise",
         ev = Connected /\ x \in Callers => cpc'[x] = "raise"
  PROVE  ToQueue'
<1>1. pending'[x] = ev /\ \A y \in (Callers \cup {Owner}) \ {x} : pending'[y] = pending[y]
  BY DEF TypeOK
<1>2. ASSUME NEW y \in Callers \cup {Owner}
      PROVE  /\ pending'[y] \in {NotRaised, Connected, <<"error", "Error">>, <<"error", "Shutdown">>}
             /\ pending'[y] = Connected => conn' # "none"
  BY <1>1 DEF ToQueue
<1>3. ASSUME NEW c \in Callers, pending'[c] = Connected PROVE cpc'[c] = "raise"
  <2>1. CASE c = x
    BY <1>1, <1>3, <2>1
  <2>2. CASE c # x
    BY <1>1, <1>3, <2>2 DEF ToQueue
  <2> QED
    BY <2>1, <2>2
<1> QED
  BY <1>2, <1>3 DEF ToQueue

\* Opening the socket raises nothing.
LEMMA OpeningFields ==
  ASSUME Serial, NEW c \in Callers,
         StartSocket(c) \/ NoSocket(c) \/ StartFsm(c) \/ BeginConnect(c)
  PROVE  /\ Hears(sock', sock, NotRaised) /\ conn' = conn
         /\ pending' = pending \/ pending' = [pending EXCEPT ![c] = NotRaised]
         /\ cpc[c] # "raise" /\ \A d \in Callers : d # c => cpc'[d] = cpc[d]
         /\ cpc'[c] # "out"
<1> USE DEF Serial
<1>0. sock \in Sockets /\ sock.raised = NotRaised
  BY DEF TypeOK
<1>1. CASE StartSocket(c)
  <2>1. /\ cpc[c] = "start" /\ (Goto(c, "fsm") \/ cpc' = cpc)
        /\ UNCHANGED <<conn, pending>>
        /\ sock' \in {sock, [sock EXCEPT !.s = 1]}
    BY <1>1 DEF StartSocket, netVars
  <2>2. cpc'[c] # "out" /\ \A d \in Callers : d # c => cpc'[d] = cpc[d]
    BY <2>1, <1>1, Went DEF Places, StartSocket
  <2>3. sock'.events = sock.events /\ sock'.etype = sock.etype
    BY <1>0, <2>1 DEF Sockets
  <2> QED
    BY <1>1, <2>1, <2>2, <2>3 DEF StartSocket, Hears
<1>2. CASE NoSocket(c)
  <2>1. cpc[c] = "start" /\ Goto(c, "connect") /\ UNCHANGED <<sock, conn, pending>>
    BY <1>2 DEF NoSocket, netVars
  <2>2. cpc'[c] # "out" /\ \A d \in Callers : d # c => cpc'[d] = cpc[d]
    BY <2>1, Went DEF Places
  <2> QED
    BY <2>1, <2>2 DEF Hears
<1>3. ASSUME NEW r, r \in Sockets, r.raised = NotRaised, Become(r, c),
             r.events = sock.events, r.etype = sock.etype
      PROVE  /\ Hears(sock', sock, NotRaised)
             /\ pending' = [pending EXCEPT ![c] = NotRaised]
  <2>1. sock' = [r EXCEPT !.raised = NotRaised] /\ pending' = [pending EXCEPT ![c] = NotRaised]
    BY <1>3 DEF Become
  <2>2. sock'.events = r.events /\ sock'.etype = r.etype
    BY <1>3, <2>1 DEF Sockets
  <2> QED
    BY <1>3, <2>1, <2>2 DEF Hears
<1>4. CASE StartFsm(c)
  <2>1. cpc[c] = "fsm" /\ Goto(c, "connect") /\ conn' = conn /\ Become(Start(sock), c)
    BY <1>4 DEF StartFsm, netVars
  <2>2. cpc'[c] # "out" /\ \A d \in Callers : d # c => cpc'[d] = cpc[d]
    BY <2>1, Went DEF Places
  <2>3. sock.state \in {"Idle", "Done"}
    BY <2>1 DEF LifeInv, Closed, Opened, Dialled, Established, Alone, Nobody, Opens, Opening
  <2>4. \/ IsIdle(sock) /\ Start(sock) \in {AsActive(InState(sock, "Starting")), AsActive(sock)}
        \/ Start(sock) = [sock EXCEPT !.failed = TRUE]
    <3>1. IsIdle(sock) => Start(sock) \in {AsActive(InState(sock, "Starting")), AsActive(sock)}
      BY <2>3, StartFed
    <3>2. ~IsIdle(sock) => Start(sock) = [sock EXCEPT !.failed = TRUE]
      BY DEF Start
    <3> QED
      BY <3>1, <3>2
  <2>5. /\ Start(sock) \in Sockets /\ Start(sock).raised = NotRaised
        /\ Start(sock).events = sock.events /\ Start(sock).etype = sock.etype
    <3>1. CASE Start(sock) \in {AsActive(InState(sock, "Starting")), AsActive(sock)}
      BY <1>0, <3>1 DEF AsActive, InState, Sockets, FsmStates, SockStates
    <3>2. CASE Start(sock) = [sock EXCEPT !.failed = TRUE]
      BY <1>0, <3>2 DEF Sockets
    <3> QED
      BY <2>4, <3>1, <3>2
  <2> QED
    BY <1>3, <2>1, <2>2, <2>5
<1>5. CASE BeginConnect(c)
  <2> DEFINE r == Feed(sock, kNetFsmAction, kNetSockActionConnect, "")
  <2>1. cpc[c] = "connect" /\ Goto(c, "dial") /\ conn' = conn /\ Become(r, c)
    BY <1>5 DEF BeginConnect, ActionBy, netVars
  <2>2. cpc'[c] # "out" /\ \A d \in Callers : d # c => cpc'[d] = cpc[d]
    BY <2>1, Went DEF Places
  <2>3. sock.state \in {"Idle", "Starting", "Done"} /\ sock.fsm # "Stopping"
    BY <2>1 DEF LifeInv, Closed, Opened, Dialled, Established, Alone, Nobody, Opens, Opening
  <2>4. r \in {InState(sock, "Connecting"), sock}
    <3>1. \A out : Feed(sock, kNetFsmAction, kNetSockActionConnect, out)
                     \in {InState(sock, "Connecting"), sock}
      BY <2>3, ConnectFed, Names
    <3> QED
      BY <3>1
  <2> HIDE DEF r
  <2>5. /\ r \in Sockets /\ r.raised = NotRaised
        /\ r.events = sock.events /\ r.etype = sock.etype
    BY <1>0, <2>4 DEF InState, Sockets, SockStates
  <2> QED
    BY <1>3, <2>1, <2>2, <2>5
<1> QED
  BY <1>1, <1>2, <1>4, <1>5

LEMMA EventsCall ==
  ASSUME Serial, NEW c \in Callers, NewSocket(c) \/ CheckIdle(c) \/ SendMsg(c)
  PROVE  EventsInv'
<1> USE DEF Serial, EventsInv
<1>1. ASSUME Hears(sock', sock, NotRaised), conn' = "none" => conn = "none"
      PROVE  Queued'
  BY <1>1, QueuedHears DEF Heard, Connected, NotRaised
<1>2. CASE StartSocket(c) \/ NoSocket(c) \/ StartFsm(c) \/ BeginConnect(c)
  <2>1. /\ Hears(sock', sock, NotRaised) /\ conn' = conn
        /\ pending' = pending \/ pending' = [pending EXCEPT ![c] = NotRaised]
        /\ cpc[c] # "raise" /\ \A d \in Callers : d # c => cpc'[d] = cpc[d]
    BY <1>2, OpeningFields
  <2>2. ToQueue'
    <3>1. NotRaised # Connected
      BY DEF NotRaised, Connected
    <3> QED
      BY <2>1, <3>1, ToQueueKept, ToQueueSet
  <2> QED
    BY <1>1, <2>1, <2>2
<1>3. CASE \/ NewSocket(c) \/ CheckIdle(c) \/ CheckNew(c) \/ TestIdle(c)
           \/ DialLater(c) \/ AskConnecting(c) \/ PushMsg(c) \/ AskSend(c)
  <2>1. /\ pending' = pending /\ cpc[c] # "raise"
        /\ conn' = conn \/ conn' = "pending"
        /\ \E place \in Places : Goto(c, place)
    BY <1>3, LifeTest DEF NewSocket, CheckIdle, CheckNew, TestIdle, DialLater, AskConnecting, PushMsg, AskSend, netVars, Places
  <2>2. \A d \in Callers : d # c => cpc'[d] = cpc[d]
    BY <2>1, Went
  <2>3. Hears(sock', sock, NotRaised)
    <3>1. Tidy(sock) /\ {kNetSockSrcTaskConnecting, kNetSockSrcTaskSend} \subseteq Tasks
      BY DEF TypeOK, Tidy, Tasks
    <3>2. sock' \in {sock, Execute(sock, kNetSockSrcTaskConnecting),
                     Execute(sock, kNetSockSrcTaskSend)}
      BY <1>3 DEF NewSocket, CheckIdle, CheckNew, TestIdle, DialLater, AskConnecting,
                  PushMsg, AskSend
    <3>3. sock'.events = sock.events /\ sock'.etype = sock.etype
      BY <3>1, <3>2, ExecutedFields DEF SameEvents
    <3> QED
      BY <3>3 DEF Hears
  <2> QED
    BY <1>1, <2>1, <2>2, <2>3, ToQueueKept
<1>4. CASE DialAtOnce(c) \/ DialFails(c)
  <2>1. PICK ev \in {NotRaised, Connected, <<"error", "Error">>} :
          /\ pending' = [pending EXCEPT ![c] = ev]
          /\ ev = Connected => DialAtOnce(c)
    BY <1>4, LifeAtOnce, LifeFails DEF Connected, NotRaised
  <2>2. SameEvents(sock', sock)
    BY <1>4, LifeAtOnce, LifeFails
  <2>3. cpc[c] = "dial" /\ Goto(c, "raise") /\ (conn' = "up" \/ (conn' = conn /\ ~DialAtOnce(c)))
    BY <1>4 DEF DialAtOnce, DialFails, netVars
  <2>4. cpc'[c] = "raise" /\ \A d \in Callers : d # c => cpc'[d] = cpc[d]
    BY <2>3, Went DEF Places
  <2>5. ToQueue'
    BY <2>1, <2>3, <2>4, ToQueueSet
  <2> QED
    BY <1>1, <2>2, <2>3, <2>5 DEF SameEvents, Hears
<1>5. CASE RaiseByCaller(c)
  <2>1. /\ cpc[c] = "raise" /\ Goto(c, "push") /\ conn' = conn
        /\ sock' = Raised(sock, pending[c]) /\ pending' = [pending EXCEPT ![c] = NotRaised]
    BY <1>5 DEF RaiseByCaller, netVars
  <2>2. \A d \in Callers : d # c => cpc'[d] = cpc[d]
    BY <2>1, Went DEF Places
  <2>3. Hears(sock', sock, pending[c])
    BY <2>1, RaisablePending, QueueFields
  <2>4. pending[c] \in Heard /\ (pending[c] = Connected => conn # "none")
    BY DEF ToQueue, Heard
  <2>5. Queued'
    BY <2>1, <2>3, <2>4, QueuedHears
  <2>6. NotRaised # Connected
    BY DEF NotRaised, Connected
  <2> QED
    BY <2>1, <2>2, <2>5, <2>6, ToQueueSet
<1> QED
  BY <1>2, <1>3, <1>4, <1>5 DEF SendMsg

LEMMA EventsNext ==
  ASSUME Serial, [Next]_vars
  PROVE  EventsInv'
<1> USE DEF Serial, EventsInv
<1>0. /\ NotRaised \in Heard /\ NotRaised # Connected /\ <<"error", "Shutdown">> # Connected
      /\ <<"sent", "Sent">> \in Heard /\ <<"sent", "Sent">> # Connected
      /\ <<"error", "Error">> \in Heard /\ <<"error", "Error">> # Connected
      /\ Connected \in Heard
  BY DEF Heard, NotRaised, Connected
<1>1. ASSUME NEW c \in Callers, NewSocket(c) \/ CheckIdle(c) \/ SendMsg(c) PROVE EventsInv'
  BY <1>1, EventsCall
<1>2. CASE AskStop
  <2>1. /\ Hears(sock', sock, NotRaised) /\ cpc' = cpc /\ conn' = conn
        /\ pending' = [pending EXCEPT ![Owner] = <<"error", "Shutdown">>]
    BY <1>2, StopFields
  <2> QED
    BY <1>0, <2>1, QueuedHears, ToQueueSet
<1>3. CASE RaiseStop
  <2>1. /\ sock' = Raised(sock, pending[Owner]) /\ cpc' = cpc /\ conn' = conn
        /\ pending' = [pending EXCEPT ![Owner] = NotRaised]
    BY <1>3 DEF RaiseStop, netVars
  <2>2. Hears(sock', sock, pending[Owner])
    BY <2>1, RaisablePending, QueueFields
  <2>3. pending[Owner] \in Heard /\ (pending[Owner] = Connected => conn # "none")
    BY DEF ToQueue, Heard
  <2> QED
    BY <1>0, <2>1, <2>2, <2>3, QueuedHears, ToQueueSet
<1>4. CASE RunTask \/ FdOut \/ FdError
  <2>1. /\ UNCHANGED <<cpc, conn, pending>>
        /\ \E ev \in Heard : Hears(sock', sock, ev) /\ (ev = Connected => conn # "none")
    <3>1. CASE RunTask
      BY <1>0, <3>1, RunFields DEF Polled, ClosedDown
    <3>2. CASE FdOut \/ FdError
      <4>1. CASE ClosedDown
        BY <1>0, <3>2, <4>1, FdFields DEF ClosedDown
      <4>2. CASE CameUp
        BY <1>0, <3>2, <4>2, FdFields, InThePoller DEF CameUp, Connected
      <4>3. CASE WroteOn
        BY <1>0, <3>2, <4>3, FdFields DEF WroteOn
      <4>4. CASE WentQuiet
        BY <1>0, <3>2, <4>4, FdFields DEF WentQuiet
      <4> QED
        BY <3>2, <4>1, <4>2, <4>3, <4>4, FdFields
    <3> QED
      BY <1>4, <3>1, <3>2
  <2> QED
    BY <2>1, QueuedHears, ToQueueKept
<1>5. CASE ProcessEvent
  <2> DEFINE e == Head(sock.events)
  <2>1. /\ e \in Events /\ UNCHANGED <<cpc, conn, pending>>
        /\ ToSet(sock'.events) = ToSet(sock.events) \ {e}
        /\ \A d \in Events \ {e} : sock'.etype[d] = sock.etype[d]
        /\ sock'.etype[e] = "none"
    BY <1>5, EventFields
  <2> HIDE DEF e
  <2>2. Queued'
    <3>1. "established" \in Events
      BY DEF Events
    <3>2. "established" \in ToSet(sock'.events) => sock'.etype["established"] = "Connected"
      BY <2>1, <3>1 DEF Queued
    <3>3. \A d \in Events \ {"established"} : sock'.etype[d] # "Connected"
      BY <2>1 DEF Queued
    <3> QED
      BY <2>1, <3>2, <3>3 DEF Queued
  <2> QED
    BY <2>1, <2>2, ToQueueKept
<1>6. CASE LeaveContext \/ Establish \/ PeerReads \/ Break \/ UNCHANGED vars
  <2>1. /\ UNCHANGED <<sock, cpc, pending>> /\ (conn' = "none" => conn = "none")
    BY <1>6 DEF LeaveContext, Establish, PeerReads, Break, vars, netVars, callVars
  <2>2. Hears(sock', sock, NotRaised)
    BY <2>1 DEF Hears
  <2> QED
    BY <1>0, <2>1, <2>2, QueuedHears, ToQueueKept
<1> QED
  BY <1>1, <1>2, <1>3, <1>4, <1>5, <1>6 DEF Next, Worker
-----------------------------------------------------------------------------
(* A message of an active socket is not forgotten. *)

\* What is asked for stays, or the worker polls for OUT, when the socket goes on.
LEMMA StillRemembered ==
  ASSUME SendNotForgotten, EventsInv,
         sock'.state = "Active" => sock.state = "Active",
         obuf' = obuf, msgq' = msgq, cpc' = cpc,
         kNetWorkerFdOut \in sock.epoll => kNetWorkerFdOut \in sock'.epoll,
         Waiting(kNetSockSrcTaskSend) =>
           Waiting(kNetSockSrcTaskSend)' \/ kNetWorkerFdOut \in sock'.epoll,
         "established" \in ToSet(sock.events) => "established" \in ToSet(sock'.events),
         Queued'
  PROVE  SendNotForgotten'
<1> SUFFICES ASSUME sock.state = "Active", obuf # 0 \/ msgq # <<>>
             PROVE  \/ kNetWorkerFdOut \in sock'.epoll
                    \/ Waiting(kNetSockSrcTaskSend)'
                    \/ \E c \in Callers : cpc'[c] # "out"
                    \/ /\ "established" \in ToSet(sock'.events)
                       /\ sock'.etype["established"] = "Connected"
  BY DEF SendNotForgotten, ConnectedOnItsWay, Waiting
<1>1. CASE kNetWorkerFdOut \in sock.epoll
  BY <1>1
<1>2. CASE kNetSockSrcTaskSend \in ToSet(sock.tasks)
  BY <1>2 DEF Waiting
<1>3. CASE \E c \in Callers : cpc[c] # "out"
  BY <1>3
<1>4. CASE ConnectedOnItsWay
  <2>1. CASE "established" \in ToSet(sock.events)
    BY <2>1 DEF Queued
  <2>2. CASE \E c \in Callers : pending[c] = Connected
    BY <2>2 DEF EventsInv, ToQueue
  <2> QED
    BY <1>4, <2>1, <2>2 DEF ConnectedOnItsWay, Connected
<1> QED
  BY <1>1, <1>2, <1>3, <1>4 DEF SendNotForgotten

\* The steps of the callers: they are inside SendMsg until they asked to send.
LEMMA RememberedCall ==
  ASSUME Serial, NEW c \in Callers, NewSocket(c) \/ CheckIdle(c) \/ SendMsg(c)
  PROVE  SendNotForgotten'
<1> USE DEF Serial
<1>1. CASE AskSend(c)
  <2>1. Tidy(sock) /\ kNetSockSrcTaskSend \in Tasks /\ sock' = Execute(sock, kNetSockSrcTaskSend)
    BY <1>1 DEF TypeOK, Tidy, Tasks, AskSend
  <2>2. kNetSockSrcTaskSend \in ToSet(sock'.tasks)
    BY <2>1, ExecutedFields
  <2> QED
    BY <2>2 DEF SendNotForgotten
<1>2. CASE ~AskSend(c)
  <2>1. CASE StartSocket(c) \/ NoSocket(c) \/ StartFsm(c) \/ BeginConnect(c)
    BY <2>1, OpeningFields DEF SendNotForgotten
  <2>2. CASE ~(StartSocket(c) \/ NoSocket(c) \/ StartFsm(c) \/ BeginConnect(c))
    <3>1. \E place \in Places \ {"out"} : Goto(c, place)
      BY <1>2, <2>2, LifeTest DEF SendMsg, NewSocket, CheckIdle, DialAtOnce, DialLater, DialFails, RaiseByCaller,
                        AskConnecting, PushMsg, Places
    <3>2. cpc'[c] # "out"
      BY <3>1, Went
    <3> QED
      BY <3>2 DEF SendNotForgotten
  <2> QED
    BY <2>1, <2>2
<1> QED
  BY <1>1, <1>2

\* The steps of the worker.
LEMMA RememberedWorker ==
  ASSUME Serial, SendNotForgotten, Worker, Queued'
  PROVE  SendNotForgotten'
<1> USE DEF Serial
<1>1. CASE RunTask
  <2> DEFINE t == Head(sock.tasks)
  <2>1. /\ sock.tasks # <<>> /\ Tidy(sock)
    BY <1>1 DEF RunTask, TypeOK, Tidy
  <2>2. /\ t \in ToSet(sock.tasks) /\ ToSet(sock'.tasks) = ToSet(sock.tasks) \ {t}
        /\ UNCHANGED <<cpc, conn, pending, obuf, msgq>>
        /\ t = kNetSockSrcTaskStop => ClosedDown
        /\ t # kNetSockSrcTaskStop => Polled(t)
    BY <1>1, RunFields
  <2>3. ConnectedFirst => t # kNetSockSrcTaskSend
    BY <2>1, FirstTaken
  <2> HIDE DEF t
  <2>4. CASE t = kNetSockSrcTaskStop
    BY <2>2, <2>4 DEF ClosedDown, SendNotForgotten
  <2>5. CASE t # kNetSockSrcTaskStop /\ sock.state # "Active"
    BY <2>2, <2>5 DEF Polled, SendNotForgotten
  <2>6. CASE t # kNetSockSrcTaskStop /\ sock.state = "Active"
    <3>1. Established /\ sock.s # -1
      BY <2>6 DEF LifeInv, Closed, Opened, Dialled
    <3>2. Polled(t) /\ Waiting(t)
      BY <2>2, <2>6 DEF Waiting
    <3>3. t \in {kNetSockSrcTaskConnected, kNetSockSrcTaskSend}
      BY <2>6, <3>1, <3>2 DEF LifeInv, Established, Waiting
    <3>4. CASE t = kNetSockSrcTaskSend
      <4>1. sock.epoll # NotAdded /\ sock.epoll = sock.hevents
        BY <2>3, <3>1, <3>4 DEF Established
      <4>2. kNetWorkerFdOut \in sock'.epoll
        BY <3>2, <3>4, <4>1 DEF Polled
      <4> QED
        BY <4>2 DEF SendNotForgotten
    <3>5. CASE t = kNetSockSrcTaskConnected
      <4>1. kNetWorkerFdOut \notin sock.epoll
        BY <3>1, <3>2, <3>5 DEF Established, NotAdded, kNetWorkerFdOut
      <4>2. Waiting(kNetSockSrcTaskSend) => Waiting(kNetSockSrcTaskSend)'
        BY <2>2, <3>5 DEF Waiting, kNetSockSrcTaskSend, kNetSockSrcTaskConnected
      <4>3. sock'.state = sock.state /\ sock'.events = sock.events
        BY <3>2 DEF Polled, Hears
      <4> QED
        BY <2>2, <4>1, <4>2, <4>3, StillRemembered
    <3> QED
      BY <3>3, <3>4, <3>5
  <2> QED
    BY <2>4, <2>5, <2>6
<1>2. CASE FdOut \/ FdError
  <2>1. CASE ClosedDown
    BY <2>1 DEF ClosedDown, SendNotForgotten
  <2>2. CASE CameUp
    <3>1. NotRaised # <<"established", "Connected">>
      BY DEF NotRaised
    <3> QED
      BY <2>2, <3>1 DEF CameUp, Hears, SendNotForgotten, ConnectedOnItsWay
  <2>3. CASE WroteOn
    BY <2>3 DEF WroteOn, SameConn, SendNotForgotten
  <2>4. CASE WentQuiet
    BY <2>4 DEF WentQuiet, SendNotForgotten
  <2> QED
    BY <1>2, <2>1, <2>2, <2>3, <2>4, FdFields
<1>3. CASE ProcessEvent
  <2> DEFINE e == Head(sock.events)
  <2>1. /\ e \in ToSet(sock.events) /\ UNCHANGED <<cpc, obuf, msgq>>
        /\ sock'.state = sock.state /\ sock'.epoll = sock.epoll
        /\ ToSet(sock'.events) = ToSet(sock.events) \ {e}
        /\ sock'.tasks = IF sock.etype[e] = "Connected"
                         THEN Push(sock.tasks, kNetSockSrcTaskSend) ELSE sock.tasks
    BY <1>3, EventFields
  <2> HIDE DEF e
  <2>2. CASE sock.etype[e] = "Connected"
    <3>1. sock.tasks \in Seq(Tasks) /\ kNetSockSrcTaskSend \in Tasks
      BY DEF TypeOK, Sockets, Tasks
    <3>2. kNetSockSrcTaskSend \in ToSet(sock'.tasks)
      BY <2>1, <2>2, <3>1, PushElements
    <3> QED
      BY <3>2 DEF SendNotForgotten
  <2>3. CASE sock.etype[e] # "Connected"
    <3>1. e # "established"
      BY <2>1, <2>3 DEF EventsInv, Queued
    <3> QED
      BY <2>1, <2>3, <3>1, StillRemembered DEF Waiting
  <2> QED
    BY <2>2, <2>3
<1>4. CASE LeaveContext
  BY <1>4, StillRemembered DEF LeaveContext, dataVars, callVars, Waiting
<1> QED
  BY <1>1, <1>2, <1>3, <1>4 DEF Worker

LEMMA RememberedNext ==
  ASSUME Serial, SendNotForgotten, [Next]_vars
  PROVE  SendNotForgotten'
<1> USE DEF Serial
<1>0. Queued'
  BY EventsNext DEF EventsInv
<1>1. ASSUME NEW c \in Callers, NewSocket(c) \/ CheckIdle(c) \/ SendMsg(c) PROVE SendNotForgotten'
  BY <1>1, RememberedCall
<1>2. CASE AskStop
  BY <1>0, <1>2, StopFields, StillRemembered DEF Hears, Waiting
<1>3. CASE RaiseStop
  <2>1. /\ sock' = Raised(sock, pending[Owner]) /\ UNCHANGED <<cpc, obuf, msgq>>
    BY <1>3 DEF RaiseStop, dataVars
  <2>2. SameConn(sock', sock) /\ Hears(sock', sock, pending[Owner])
    BY <2>1, RaisablePending, QueueFields
  <2> QED
    BY <1>0, <2>1, <2>2, StillRemembered DEF SameConn, Hears, Waiting
<1>4. CASE Worker
  BY <1>0, <1>4, RememberedWorker
<1>5. CASE Establish \/ PeerReads \/ Break \/ UNCHANGED vars
  <2>1. UNCHANGED <<sock, cpc, obuf, msgq>>
    BY <1>5 DEF Establish, PeerReads, Break, vars, dataVars, callVars
  <2> QED
    BY <1>0, <2>1, StillRemembered DEF Waiting
<1> QED
  BY <1>1, <1>2, <1>3, <1>4, <1>5 DEF Next
-----------------------------------------------------------------------------
(* The theorems about such a socket. *)

LEMMA SerialInit ==
  ASSUME Init
  PROVE  SerialInv
<1>1. PICK garbage \in Interests : sock = InitialSocket(garbage)
  BY DEF Init
<1>2. /\ sock.state = "Idle" /\ sock.fsm = "Idle" /\ sock.s = -1 /\ sock.epoll = NotAdded
      /\ sock.tasks = <<>> /\ sock.events = <<>>
      /\ sock.etype = [e \in Events |-> "none"]
  BY <1>1 DEF InitialSocket
<1>3. /\ \A c \in Callers : cpc[c] = "out"
      /\ \A x \in Callers \cup {Owner} : pending[x] = NotRaised
      /\ conn = "none"
  BY DEF Init
<1>4. ToSet(sock.tasks) = {} /\ ToSet(sock.events) = {}
  BY <1>2 DEF ToSet
<1>8. Unborn
  BY <1>2, <1>3 DEF Unborn, Init
<1>5. LifeInv
  <2>1. Closed
    BY <1>2, <1>3, <1>4 DEF Closed, Untouched, Unasked, Nobody
  <2> QED
    BY <1>2, <1>3, <1>4, <2>1 DEF LifeInv, OneOpener, Opens, Opening
<1>6. EventsInv
  <2>1. Queued
    BY <1>2, <1>4 DEF Queued
  <2>2. NotRaised # Connected
    BY DEF NotRaised, Connected
  <2> QED
    BY <1>3, <2>1, <2>2 DEF EventsInv, ToQueue
<1>7. SendNotForgotten
  BY <1>2 DEF SendNotForgotten
<1> QED
  BY <1>5, <1>6, <1>7, <1>8 DEF SerialInv

LEMMA SerialInvariance ==
  ASSUME Serialised
  PROVE  Spec => []SerialInv
<1>1. Init => SerialInv
  BY SerialInit
<1>2. TypeOK /\ SerialInv /\ [Next]_vars => SerialInv'
  BY LifeNext, EventsNext, UnbornNext, RememberedNext DEF Serial, SerialInv
<1> QED
  BY <1>1, <1>2, TypeCorrect, PTL DEF Spec

(***************************************************************************)
(* When no two callers open the socket at the same time, the descriptor of *)
(* a connection is registered with the poller from connect() on, or        *)
(* task_connecting or task_connected, which register it, waits at the      *)
(* worker - however the connection fares, whoever else calls SendMsg, and  *)
(* even if AsyncStop is called.                                            *)
(***************************************************************************)
THEOREM ConnectionWatched ==
  ASSUME Serialised
  PROVE  Spec => []Watched
<1>1. LifeInv => Watched
  BY DEF LifeInv, Watched, Opened, Untouched, Dialled, Established, ConnectedFirst,
         Waiting, Nobody
<1>2. SerialInv => Watched
  BY <1>1 DEF SerialInv
<1> QED
  BY <1>2, SerialInvariance, PTL

(***************************************************************************)
(* ... and a message in the queue or in out_buf of a socket that is active *)
(* is always going to be looked at: the worker polls for OUT, task_send    *)
(* waits, a caller is still inside SendMsg, or the owner is going to hear  *)
(* that the connection is up and asks for task_send.                       *)
(***************************************************************************)
THEOREM SendRemembered ==
  ASSUME Serialised
  PROVE  Spec => []SendNotForgotten
<1>1. SerialInv => SendNotForgotten
  BY DEF SerialInv
<1> QED
  BY <1>1, SerialInvariance, PTL
-----------------------------------------------------------------------------
(* What can go wrong, when it does. *)

\* Nobody stopped the socket, its connection did not break, and socket() did
\* not fail.
Good ==
  spc = "out" /\ conn \notin {"failed", "reset"} /\ (sock.s # -1 \/ sock.state = "Idle")

\* Then nothing the owner is told, or is about to be told, surprises it.
Sound ==
  /\ fate = "running"
  /\ "error" \notin ToSet(sock.events)
  /\ "sent" \in ToSet(sock.events) => sock.etype["sent"] = "Sent"
  /\ \A c \in Callers : pending[c] \in {NotRaised, Connected}

HealthInv ==
  /\ ~sock.failed
  /\ OnlyReopenedFails
  /\ spc = "out" =>
       /\ ~Waiting(kNetSockSrcTaskStop)
       /\ complained => sock.s = -1 /\ sock.state # "Idle"
       /\ conn \in {"pending", "up"} => sock.s # -1
  /\ Good => Sound

\* Nothing about that changes.
LEMMA HealthKept ==
  ASSUME HealthInv, UNCHANGED <<sock, conn, pending, spc, fate, complained>>
  PROVE  HealthInv'
BY DEF HealthInv, OnlyReopenedFails, Waiting, Good, Sound

SoundEvents == {NotRaised, Connected, <<"sent", "Sent">>}

LEMMA SoundKept ==
  ASSUME Sound, fate' = "running", NEW ev \in SoundEvents, Hears(sock', sock, ev),
         \A c \in Callers : pending'[c] \in {NotRaised, Connected}
  PROVE  Sound'
<1>0. {"sent", "error"} \subseteq Events /\ Connected # NotRaised /\ <<"sent", "Sent">> # NotRaised
  BY DEF Events, Connected, NotRaised
<1>1. CASE ev = NotRaised
  BY <1>1 DEF Sound, Hears
<1>2. CASE ev = Connected
  BY <1>0, <1>2 DEF Sound, Hears, Connected
<1>3. CASE ev = <<"sent", "Sent">>
  BY <1>0, <1>3 DEF Sound, Hears
<1> QED
  BY <1>1, <1>2, <1>3 DEF SoundEvents

\* What there is to show of a step that hears an event of a good socket.
LEMMA HealthStep ==
  ASSUME HealthInv, ~sock'.failed, fate' = fate, fate = "running", spc' = spc,
         kNetSockSrcTaskStop \in ToSet(sock'.tasks) =>
           kNetSockSrcTaskStop \in ToSet(sock.tasks),
         sock.s = -1 /\ sock.state # "Idle" => sock'.s = -1 /\ sock'.state # "Idle",
         spc = "out" => (complained' => complained \/ (sock'.s = -1 /\ sock'.state # "Idle")),
         spc = "out" => (conn' \in {"pending", "up"} => sock'.s # -1),
         Good' => Good /\ \E ev \in SoundEvents : Hears(sock', sock, ev),
         Good' => \A c \in Callers : pending'[c] \in {NotRaised, Connected}
  PROVE  HealthInv'
<1>1. spc' = "out" => ~Waiting(kNetSockSrcTaskStop)'
  BY DEF HealthInv, Waiting
<1>2. Good' => Sound'
  BY SoundKept DEF HealthInv
<1>3. OnlyReopenedFails'
  BY DEF OnlyReopenedFails
<1> QED
  BY <1>1, <1>2, <1>3 DEF HealthInv

\* What SendMsg does until connect() is called.
LEMMA HealthOpening ==
  ASSUME Serial, HealthInv, fate = "running", NEW c \in Callers,
         StartSocket(c) \/ NoSocket(c) \/ StartFsm(c) \/ BeginConnect(c)
  PROVE  HealthInv'
<1> USE DEF Serial
<1>1. /\ Hears(sock', sock, NotRaised) /\ conn' = conn /\ NotRaised \in SoundEvents
      /\ pending' = pending \/ pending' = [pending EXCEPT ![c] = NotRaised]
  BY OpeningFields DEF SoundEvents
<1>2. Good => \A d \in Callers : pending'[d] \in {NotRaised, Connected}
  BY <1>1 DEF HealthInv, Sound, TypeOK
<1>3. sock \in Sockets /\ ~sock.failed
  BY DEF TypeOK, HealthInv
<1>4. CASE StartSocket(c)
  <2>1. /\ sock.s = -1 /\ sock.fsm = "Idle" /\ Closed /\ sock.state \in {"Idle", "Done"}
        /\ spc' = spc /\ complained' = complained
    <3>1. sock.fsm = "Idle" /\ cpc[c] = "start"
      BY <1>4 DEF StartSocket, LifeInv
    <3> QED
      BY <1>4, <3>1 DEF LifeInv, Opened, Dialled, Established, Alone, Nobody, Opening, Closed,
                        StartSocket
  <2>2. CASE sock.state = "Idle"
    <3>1. sock' = [sock EXCEPT !.s = 1] /\ fate' = fate
      BY <1>4, <2>1, <2>2 DEF StartSocket
    <3>2. /\ ~sock'.failed /\ sock'.s # -1 /\ sock'.state = "Idle" /\ sock'.tasks = sock.tasks
      BY <1>3, <2>2, <3>1 DEF Sockets
    <3>3. Good' => Good
      BY <1>1, <2>1, <2>2 DEF Good
    <3> QED
      BY <1>1, <1>2, <2>1, <2>2, <3>1, <3>2, <3>3, HealthStep
  <2>3. CASE sock.state = "Done"
    <3>1. UNCHANGED <<sock, conn, spc, complained>>
      BY <1>1, <1>4, <2>1, <2>3 DEF StartSocket
    <3>2. ~Good'
      BY <2>1, <2>3, <3>1 DEF Good
    <3> QED
      BY <2>1, <2>3, <3>1, <3>2 DEF HealthInv, OnlyReopenedFails, Waiting
  <2> QED
    BY <2>1, <2>2, <2>3
<1>5. CASE NoSocket(c)
  BY <1>5, HealthKept DEF NoSocket, netVars, endVars
<1>6. CASE StartFsm(c)
  <2>1. cpc[c] = "fsm" /\ sock.fsm = "Idle"
    BY <1>6 DEF StartFsm, LifeInv
  <2>2. /\ sock.state \in {"Idle", "Done"} /\ (sock.s = -1 <=> sock.state = "Done")
    BY <2>1 DEF LifeInv, Closed, Opened, Dialled, Established, Alone, Nobody, Opens, Opening
  <2>3. IsIdle(sock)
    BY <2>1 DEF EventsInv, Queued, IsIdle
  <2>4. /\ sock.state = "Idle" => Start(sock) = AsActive(InState(sock, "Starting"))
        /\ sock.state = "Done" => Start(sock) = AsActive(sock)
    BY <2>3, StartFed
  <2>5. /\ ~Start(sock).failed /\ Start(sock).s = sock.s /\ Start(sock).tasks = sock.tasks
        /\ Start(sock).state # "Idle" /\ Start(sock) \in Sockets
    <3>1. CASE sock.state = "Idle"
      BY <1>3, <2>4, <3>1 DEF AsActive, InState, Sockets, FsmStates, SockStates
    <3>2. CASE sock.state = "Done"
      BY <1>3, <2>4, <3>2 DEF AsActive, InState, Sockets, FsmStates, SockStates
    <3> QED
      BY <2>2, <3>1, <3>2
  <2>6. /\ sock' = [Start(sock) EXCEPT !.raised = NotRaised]
        /\ fate' = (IF Start(sock).failed THEN "check_failed" ELSE fate)
        /\ UNCHANGED <<complained, spc>>
    BY <1>6 DEF StartFsm, Become
  <2>7. /\ ~sock'.failed /\ sock'.s = sock.s /\ sock'.tasks = sock.tasks
        /\ sock'.state # "Idle" /\ fate' = fate
    BY <2>5, <2>6 DEF Sockets
  <2>8. Good' => Good
    BY <1>1, <2>6, <2>7 DEF Good
  <2>9. spc = "out" => (conn' \in {"pending", "up"} => sock'.s # -1)
    BY <1>1, <2>7 DEF HealthInv
  <2> QED
    BY <1>1, <1>2, <2>6, <2>7, <2>8, <2>9, HealthStep
<1>7. CASE BeginConnect(c)
  <2> DEFINE r == Feed(sock, kNetFsmAction, kNetSockActionConnect, "")
  <2>1. cpc[c] = "connect"
    BY <1>7 DEF BeginConnect
  <2>2. /\ sock.state \in {"Idle", "Starting", "Done"} /\ sock.fsm # "Stopping"
        /\ sock.s # -1 => sock.state = "Starting"
    BY <2>1 DEF LifeInv, Closed, Opened, Dialled, Established, Alone, Nobody, Opens, Opening
  <2>3. /\ sock.state # "Done" => r = InState(sock, "Connecting")
        /\ sock.state = "Done" => r = sock
        /\ sock.s # -1 => FeedForeseen(sock, kNetFsmAction, kNetSockActionConnect)
    <3>1. \A out : /\ sock.state # "Done" => Feed(sock, kNetFsmAction, kNetSockActionConnect, out)
                                               = InState(sock, "Connecting")
                   /\ sock.state = "Done" =>
                        Feed(sock, kNetFsmAction, kNetSockActionConnect, out) = sock
                   /\ sock.state = "Starting" =>
                        FeedForeseen(sock, kNetFsmAction, kNetSockActionConnect)
      BY <2>2, ConnectFed, Names
    <3> QED
      BY <2>2, <3>1
  <2>4. /\ sock' = [r EXCEPT !.raised = NotRaised]
        /\ fate' = (IF r.failed THEN "check_failed" ELSE fate)
        /\ complained' = (complained \/ ~FeedForeseen(sock, kNetFsmAction, kNetSockActionConnect))
        /\ spc' = spc
    BY <1>7 DEF BeginConnect, ActionBy, Become
  <2> HIDE DEF r
  <2>5. ~r.failed /\ r.s = sock.s /\ r.tasks = sock.tasks /\ r.state # "Idle" /\ r \in Sockets
    <3>1. CASE sock.state # "Done"
      BY <1>3, <2>3, <3>1 DEF InState, Sockets, SockStates
    <3>2. CASE sock.state = "Done"
      BY <1>3, <2>3, <3>2
    <3> QED
      BY <3>1, <3>2
  <2>6. /\ ~sock'.failed /\ sock'.s = sock.s /\ sock'.tasks = sock.tasks
        /\ sock'.state # "Idle" /\ fate' = fate
    BY <2>4, <2>5 DEF Sockets
  <2>7. complained' => complained \/ (sock'.s = -1 /\ sock'.state # "Idle")
    BY <2>3, <2>4, <2>6
  <2>8. Good' => Good
    BY <1>1, <2>4, <2>6 DEF Good
  <2>9. spc = "out" => (conn' \in {"pending", "up"} => sock'.s # -1)
    BY <1>1, <2>6 DEF HealthInv
  <2> QED
    BY <1>1, <1>2, <2>4, <2>6, <2>7, <2>8, <2>9, HealthStep
<1> QED
  BY <1>4, <1>5, <1>6, <1>7

\* ... and from then on.
LEMMA HealthDial ==
  ASSUME Serial, HealthInv, fate = "running", NEW c \in Callers,
         DialAtOnce(c) \/ DialLater(c) \/ DialFails(c)
  PROVE  HealthInv'
<1> USE DEF Serial
<1>1. /\ cpc[c] = "dial" /\ spc' = spc /\ Tidy(sock) /\ ~sock.failed
      /\ sock.s # -1 => conn = "none" /\ sock.state = "Connecting" /\ sock.fsm = "Active"
  <2>1. cpc[c] = "dial" /\ spc' = spc
    BY DEF DialAtOnce, DialLater, DialFails
  <2>2. sock.s # -1 => Untouched /\ sock.state = "Connecting" /\ sock.fsm = "Active"
    BY <2>1, DialAlone
  <2> QED
    BY <2>1, <2>2 DEF Untouched, TypeOK, Tidy, HealthInv
<1>2. CASE DialAtOnce(c)
  <2>1. sock.s # -1 /\ conn' = "up"
    BY <1>2 DEF DialAtOnce
  <2> DEFINE r == Feed(sock, kNetFsmAction, kNetSockActionDone, "")
  <2>2. r = ConnectedAtOnce(sock) /\ FeedForeseen(sock, kNetFsmAction, kNetSockActionDone)
    <3>1. \A out : /\ Feed(sock, kNetFsmAction, kNetSockActionDone, out) = ConnectedAtOnce(sock)
                   /\ FeedForeseen(sock, kNetFsmAction, kNetSockActionDone)
      BY <1>1, <2>1, DialFed
    <3> QED
      BY <3>1
  <2>3. /\ sock' = [r EXCEPT !.raised = NotRaised] /\ pending' = [pending EXCEPT ![c] = r.raised]
        /\ fate' = (IF r.failed THEN "check_failed" ELSE fate)
        /\ complained' => complained
    BY <1>2, <2>2 DEF DialAtOnce, ActionBy, Become, TypeOK
  <2> HIDE DEF r
  <2>4. /\ r.s = sock.s /\ r.tasks = Push(sock.tasks, kNetSockSrcTaskConnected)
        /\ SameEvents(r, sock) /\ r.raised = Connected /\ r \in Sockets
    BY <1>1, <2>2, AtOnceFields, TidySteps DEF Tidy, Connected
  <2>5. /\ sock'.s # -1 /\ ~sock'.failed /\ Hears(sock', sock, NotRaised) /\ fate' = fate
        /\ sock'.tasks = Push(sock.tasks, kNetSockSrcTaskConnected)
    BY <1>1, <2>1, <2>3, <2>4 DEF Sockets, SameEvents, Hears
  <2>6. kNetSockSrcTaskStop \in ToSet(sock'.tasks) => kNetSockSrcTaskStop \in ToSet(sock.tasks)
    <3>1. kNetSockSrcTaskConnected \in Tasks \ {kNetSockSrcTaskStop}
      BY DEF Tasks, kNetSockSrcTaskConnected, kNetSockSrcTaskStop
    <3> QED
      BY <1>1, <2>5, <3>1, PushElements DEF Tidy, Sockets
  <2>7. Good' => Good
    BY <1>1, <2>1 DEF Good
  <2>8. Good' => \A d \in Callers : pending'[d] \in {NotRaised, Connected}
    BY <2>3, <2>4, <2>7 DEF HealthInv, Sound, TypeOK
  <2> QED
    BY <1>1, <2>1, <2>3, <2>5, <2>6, <2>7, <2>8, HealthStep DEF SoundEvents
<1>3. CASE DialLater(c)
  <2>1. UNCHANGED <<sock, pending, fate, complained>> /\ sock.s # -1 /\ conn' = "pending"
    BY <1>3 DEF DialLater, endVars
  <2> QED
    BY <1>1, <2>1 DEF HealthInv, OnlyReopenedFails, Waiting, Good, Sound
<1>4. CASE DialFails(c)
  <2> DEFINE r == Feed(sock, kNetFsmAction, kNetSockActionError, "")
  <2>1. /\ sock.state \in {"Connecting", "Done"} /\ sock.fsm # "Stopping"
        /\ sock.state = "Done" => sock.s = -1
    BY <1>1, DialAlone DEF LifeInv, Closed, Nobody
  <2>2. /\ sock.state = "Connecting" => r = Fail(sock)
        /\ sock.state = "Done" => r = sock
    <3>1. \A out :
            /\ sock.state = "Connecting" =>
                 Feed(sock, kNetFsmAction, kNetSockActionError, out) = Fail(sock)
            /\ sock.state = "Done" => Feed(sock, kNetFsmAction, kNetSockActionError, out) = sock
      BY <2>1, DialFed, ConnectFed, Names
    <3> QED
      BY <3>1
  <2>3. /\ sock' = [r EXCEPT !.raised = NotRaised]
        /\ fate' = (IF r.failed THEN "check_failed" ELSE fate) /\ conn' = conn
    BY <1>4 DEF DialFails, ActionBy, Become, netVars
  <2> HIDE DEF r
  <2>4. r.state = "Done" /\ r.s = -1 /\ ~r.failed /\ r.tasks = sock.tasks /\ r \in Sockets
    <3>1. CASE sock.state = "Connecting"
      BY <1>1, <2>2, <3>1, FailFields, TidyEnds DEF SameEvents, Tidy
    <3>2. CASE sock.state = "Done"
      BY <1>1, <2>1, <2>2, <3>2 DEF Tidy
    <3> QED
      BY <2>1, <3>1, <3>2
  <2>5. /\ sock'.state = "Done" /\ sock'.s = -1 /\ ~sock'.failed /\ sock'.tasks = sock.tasks
        /\ fate' = fate
    BY <2>3, <2>4 DEF Sockets
  <2>6. ~Good'
    BY <2>5 DEF Good
  <2>7. spc = "out" => conn' \notin {"pending", "up"}
    BY <1>1, <2>3 DEF HealthInv
  <2> QED
    BY <1>1, <2>5, <2>6, <2>7, HealthStep
<1> QED
  BY <1>2, <1>3, <1>4

LEMMA HealthCall ==
  ASSUME Serial, HealthInv, fate = "running", NEW c \in Callers,
         NewSocket(c) \/ CheckIdle(c) \/ SendMsg(c)
  PROVE  HealthInv'
<1> USE DEF Serial
<1>1. CASE NewSocket(c) \/ CheckIdle(c) \/ PushMsg(c)
  BY <1>1, HealthKept DEF NewSocket, CheckIdle, PushMsg, netVars, endVars
<1>2. CASE CheckNew(c) \/ TestIdle(c)
  BY <1>2, LifeTest, HealthKept
<1>3. CASE AskConnecting(c) \/ AskSend(c)
  <2>1. UNCHANGED <<conn, pending, spc, fate, complained>>
    BY <1>3 DEF AskConnecting, AskSend, netVars, endVars
  <2>2. PICK t \in {kNetSockSrcTaskConnecting, kNetSockSrcTaskSend} : sock' = Execute(sock, t)
    BY <1>3 DEF AskConnecting, AskSend
  <2>3. t \in Tasks \ {kNetSockSrcTaskStop} /\ Tidy(sock) /\ ~sock.failed
    BY DEF Tasks, kNetSockSrcTaskConnecting, kNetSockSrcTaskSend, kNetSockSrcTaskStop,
           TypeOK, Tidy, HealthInv
  <2>4. /\ sock'.state = sock.state /\ sock'.s = sock.s /\ SameEvents(sock', sock)
        /\ kNetSockSrcTaskStop \in ToSet(sock'.tasks) =>
             kNetSockSrcTaskStop \in ToSet(sock.tasks)
    <3>1. ToSet(sock'.tasks) \subseteq ToSet(sock.tasks) \cup {t}
      BY <2>2, <2>3, ExecutedFields
    <3> QED
      BY <2>2, <2>3, <3>1, ExecutedFields
  <2>5. Hears(sock', sock, NotRaised) /\ NotRaised \in SoundEvents /\ (Good' => Good)
    BY <2>1, <2>4 DEF SameEvents, Hears, SoundEvents, Good
  <2>6. /\ Good => \A d \in Callers : pending[d] \in {NotRaised, Connected}
        /\ spc = "out" => (conn' \in {"pending", "up"} => sock'.s # -1)
    BY <2>1, <2>4 DEF HealthInv, Sound
  <2> QED
    BY <2>1, <2>3, <2>4, <2>5, <2>6, HealthStep DEF SameEvents
<1>4. CASE RaiseByCaller(c)
  <2>1. /\ sock' = Raised(sock, pending[c]) /\ pending' = [pending EXCEPT ![c] = NotRaised]
        /\ UNCHANGED <<conn, spc, fate, complained>>
    BY <1>4 DEF RaiseByCaller, netVars, endVars
  <2>2. Tidy(sock) /\ ~sock.failed
    BY DEF TypeOK, Tidy, HealthInv
  <2>3. SameConn(sock', sock) /\ Hears(sock', sock, pending[c]) /\ ~sock'.failed
    BY <2>1, <2>2, RaisablePending, QueueFields, RaisedFields
  <2>4. Good' => Good
    BY <2>1, <2>3 DEF SameConn, Good
  <2>5. Good => /\ pending[c] \in SoundEvents
                /\ \A d \in Callers : pending'[d] \in {NotRaised, Connected}
    BY <2>1 DEF HealthInv, Sound, TypeOK, SoundEvents
  <2>6. spc = "out" => (conn' \in {"pending", "up"} => sock'.s # -1)
    BY <2>1, <2>3 DEF HealthInv, SameConn
  <2> QED
    BY <2>1, <2>3, <2>4, <2>5, <2>6, HealthStep DEF SameConn
<1> QED
  BY <1>1, <1>2, <1>3, <1>4, HealthOpening, HealthDial DEF SendMsg

LEMMA HealthWorker ==
  ASSUME Serial, HealthInv, fate = "running", Worker
  PROVE  HealthInv'
<1> USE DEF Serial
<1>0. /\ ~sock.failed /\ sock.fsm # "Stopping"
      /\ Good => \A c \in Callers : pending[c] \in {NotRaised, Connected}
      /\ NotRaised \in SoundEvents /\ Connected \in SoundEvents /\ <<"sent", "Sent">> \in SoundEvents
  BY DEF HealthInv, Sound, SoundEvents, LifeInv
<1>1. CASE RunTask
  <2> DEFINE t == Head(sock.tasks)
             r == [sock EXCEPT !.tasks = Tail(@)]
  <2>1. /\ t \in ToSet(sock.tasks) /\ ToSet(sock'.tasks) \subseteq ToSet(sock.tasks)
        /\ sock'.failed = sock.failed /\ UNCHANGED <<conn, pending>>
        /\ t = kNetSockSrcTaskStop => ClosedDown
        /\ t # kNetSockSrcTaskStop => Polled(t)
    BY <1>1, RunFields
  <2>2. t # kNetSockSrcTaskStop => t \in InternalTasks
    <3>1. sock.tasks \in Seq(Tasks)
      BY DEF TypeOK, Sockets
    <3>2. t \in Tasks
      BY <1>1, <3>1, HeadTailProperties DEF RunTask
    <3> QED
      BY <3>2 DEF InternalTasks
  <2>3. /\ fate' = (IF sock'.failed THEN "check_failed" ELSE fate) /\ spc' = spc
        /\ complained' = (complained \/ ~FeedForeseen(r, t, kNetWorkerTaskExecute))
    BY <1>1 DEF RunTask, FeedByWorker, callVars
  <2>4. t # kNetSockSrcTaskStop => FeedForeseen(r, t, kNetWorkerTaskExecute)
    BY <2>2 DEF FeedForeseen
  <2> HIDE DEF t, r
  <2>5. /\ fate' = fate /\ ~sock'.failed /\ spc' = spc
        /\ kNetSockSrcTaskStop \in ToSet(sock'.tasks) =>
             kNetSockSrcTaskStop \in ToSet(sock.tasks)
    BY <1>0, <2>1, <2>3
  <2>6. CASE t = kNetSockSrcTaskStop
    <3>1. spc # "out"
      BY <2>1, <2>6 DEF HealthInv, Waiting
    <3>2. ~Good'
      BY <2>3, <3>1 DEF Good
    <3>3. sock'.s = -1 /\ sock'.state # "Idle"
      BY <2>1, <2>6 DEF ClosedDown
    <3> QED
      BY <2>5, <3>1, <3>2, <3>3, HealthStep
  <2>7. CASE t # kNetSockSrcTaskStop
    <3>1. sock'.state = sock.state /\ sock'.s = sock.s /\ Hears(sock', sock, NotRaised)
      BY <2>1, <2>7 DEF Polled
    <3>2. Good' => Good
      BY <2>1, <2>3, <3>1 DEF Good
    <3>3. spc = "out" => (conn' \in {"pending", "up"} => sock'.s # -1)
      BY <2>1, <3>1 DEF HealthInv
    <3>4. complained' => complained
      BY <2>3, <2>4, <2>7 DEF TypeOK
    <3>5. Good' => \A c \in Callers : pending'[c] \in {NotRaised, Connected}
      BY <1>0, <2>1, <3>2
    <3> QED
      BY <1>0, <2>5, <3>1, <3>2, <3>3, <3>4, <3>5, HealthStep
  <2> QED
    BY <2>6, <2>7
<1>2. CASE FdOut \/ FdError
  <2>1. /\ sock.epoll # NotAdded /\ sock'.tasks = sock.tasks
        /\ sock'.failed = sock.failed /\ UNCHANGED <<conn, pending>>
        /\ (ClosedDown /\ conn \in {"failed", "reset"}) \/ CameUp \/ WroteOn \/ WentQuiet
        /\ FdError => ClosedDown
    BY <1>2, FdFields
  <2>2. sock.s # -1 /\ sock.state \in {"Connecting", "Active"}
    BY <2>1, InThePoller
  <2>3. fate' = (IF sock'.failed THEN "check_failed" ELSE fate) /\ spc' = spc
    BY <1>2 DEF FdOut, FdError, WritableOther, WritableIdle, WritableBroken, WritableSend,
                FeedByWorker, callVars
  <2>4. fate' = fate /\ ~sock'.failed
    BY <1>0, <2>1, <2>3
  <2>5. CASE ClosedDown
    <3>1. ~CameUp /\ ~WentQuiet /\ ~WroteOn
      BY <2>2, <2>5 DEF ClosedDown, CameUp, WentQuiet, WroteOn, StillPolled, SameConn
    <3>2. conn \in {"failed", "reset"}
      BY <2>1, <3>1
    <3>3. ~Good' /\ sock'.s = -1 /\ sock'.state = "Done"
      BY <2>1, <2>5, <3>2 DEF Good, ClosedDown
    <3> QED
      BY <2>1, <2>3, <2>4, <3>2, <3>3, HealthStep
  <2>6. CASE ~ClosedDown
    <3>1. FdOut
      BY <1>2, <2>1, <2>6
    <3>2. complained' = (complained \/ ~FeedForeseen(sock, kNetSockSrcFd, kNetWorkerFdOut))
      BY <3>1 DEF FdOut, WritableOther, WritableIdle, WritableBroken, WritableSend, FeedByWorker
    <3>3. FeedForeseen(sock, kNetSockSrcFd, kNetWorkerFdOut)
      BY <1>0, <2>2, OutFed
    <3>4. complained' => complained
      BY <3>2, <3>3 DEF TypeOK
    <3>5. /\ sock'.s # -1
          /\ \E ev \in SoundEvents : Hears(sock', sock, ev)
      BY <1>0, <2>1, <2>2, <2>6 DEF CameUp, WroteOn, WentQuiet, StillPolled, SameConn, Connected
    <3>6. Good' => Good
      BY <2>1, <2>2, <2>3 DEF Good
    <3> QED
      BY <1>0, <2>1, <2>2, <2>3, <2>4, <3>4, <3>5, <3>6, HealthStep
  <2> QED
    BY <2>5, <2>6
<1>3. CASE ProcessEvent
  <2> DEFINE e == Head(sock.events)
  <2>1. /\ e \in ToSet(sock.events) /\ e \in Events /\ UNCHANGED <<conn, pending>>
        /\ sock'.state = sock.state /\ sock'.fsm = sock.fsm /\ sock'.s = sock.s
        /\ sock'.failed = sock.failed
        /\ ToSet(sock'.events) = ToSet(sock.events) \ {e}
        /\ \A d \in Events \ {e} : sock'.etype[d] = sock.etype[d]
        /\ sock'.tasks = IF sock.etype[e] = "Connected"
                         THEN Push(sock.tasks, kNetSockSrcTaskSend) ELSE sock.tasks
    BY <1>3, EventFields
  <2>2. /\ fate' = (CASE sock.etype[e] \in {"Error", "AcceptError"} -> "unexpected_run"
                      [] sock.etype[e] = "Shutdown" -> "deleted"
                      [] OTHER -> fate)
        /\ complained' = complained /\ spc' = spc
    BY <1>3 DEF ProcessEvent, callVars
  <2> HIDE DEF e
  <2>3. OnlyReopenedFails'
    BY <2>2 DEF OnlyReopenedFails
  <2>4. spc' = "out" => ~Waiting(kNetSockSrcTaskStop)'
    <3>1. sock.tasks \in Seq(Tasks) /\ kNetSockSrcTaskSend \in Tasks
      BY DEF TypeOK, Sockets, Tasks
    <3>2. ToSet(Push(sock.tasks, kNetSockSrcTaskSend)) = ToSet(sock.tasks) \cup {kNetSockSrcTaskSend}
      BY <3>1, PushElements
    <3> QED
      BY <2>1, <2>2, <3>2 DEF Waiting, HealthInv, kNetSockSrcTaskSend, kNetSockSrcTaskStop
  <2>5. Good' => Sound'
    <3> SUFFICES ASSUME Good' PROVE Sound'
      OBVIOUS
    <3>1. Good /\ Sound
      BY <2>1, <2>2 DEF Good, HealthInv
    <3>2. sock.etype[e] \in {"Connected", "Sent"}
      BY <2>1, <3>1 DEF Sound, EventsInv, Queued
    <3>3. fate' = "running"
      BY <2>2, <3>2
    <3>4. "sent" \in ToSet(sock'.events) => sock'.etype["sent"] = "Sent"
      BY <2>1, <3>1 DEF Sound, Events
    <3> QED
      BY <2>1, <3>1, <3>3, <3>4 DEF Sound
  <2>6. spc' = "out" => /\ complained' => sock'.s = -1 /\ sock'.state # "Idle"
                        /\ conn' \in {"pending", "up"} => sock'.s # -1
    BY <2>1, <2>2 DEF HealthInv
  <2> QED
    BY <1>0, <2>1, <2>3, <2>4, <2>5, <2>6 DEF HealthInv
<1>4. CASE LeaveContext
  BY <1>4, HealthKept DEF LeaveContext, netVars, callVars, endVars
<1> QED
  BY <1>1, <1>2, <1>3, <1>4 DEF Worker

LEMMA HealthNext ==
  ASSUME Serial, HealthInv, [Next]_vars
  PROVE  HealthInv'
<1> USE DEF Serial
<1>1. CASE UNCHANGED vars
  BY <1>1, HealthKept DEF vars, netVars, callVars, endVars
<1>2. CASE Next
  <2>1. fate = "running"
    BY <1>2 DEF Next
  <2>2. CASE AskStop \/ RaiseStop
    <3>1. ~sock'.failed
      <4>1. CASE AskStop
        BY <4>1, StopFields DEF HealthInv
      <4>2. CASE RaiseStop
        BY <4>2, RaisablePending, RaisedFields DEF RaiseStop, HealthInv, TypeOK, Tidy
      <4> QED
        BY <2>2, <4>1, <4>2
    <3>2. spc' # "out" /\ fate' = fate
      BY <2>2 DEF AskStop, RaiseStop, endVars
    <3> QED
      BY <2>1, <3>1, <3>2 DEF HealthInv, OnlyReopenedFails, Good
  <2>3. CASE Establish \/ PeerReads \/ Break
    <3>1. /\ UNCHANGED <<sock, pending, spc, fate, complained>>
          /\ \/ conn' = conn \/ conn' \in {"failed", "reset"}
             \/ conn' = "up" /\ conn = "pending"
      BY <2>3 DEF Establish, PeerReads, Break, callVars, endVars
    <3> QED
      BY <3>1 DEF HealthInv, OnlyReopenedFails, Waiting, Good, Sound
  <2> QED
    BY <1>2, <2>1, <2>2, <2>3, HealthCall, HealthWorker DEF Next
<1> QED
  BY <1>1, <1>2

LEMMA HealthInit ==
  ASSUME Init
  PROVE  HealthInv
<1>1. PICK garbage \in Interests : sock = InitialSocket(garbage)
  BY DEF Init
<1>2. ~sock.failed /\ sock.tasks = <<>> /\ sock.events = <<>>
  BY <1>1 DEF InitialSocket
<1>3. ToSet(sock.tasks) = {} /\ ToSet(sock.events) = {}
  BY <1>2 DEF ToSet
<1>4. /\ fate = "running" /\ ~complained /\ conn = "none"
      /\ \A c \in Callers : pending[c] = NotRaised
  BY DEF Init
<1> QED
  BY <1>2, <1>3, <1>4 DEF HealthInv, OnlyReopenedFails, Waiting, Good, Sound

LEMMA HealthInvariance ==
  ASSUME Serialised
  PROVE  Spec => []HealthInv
<1>1. Init => HealthInv
  BY HealthInit
<1>2. TypeOK /\ SerialInv /\ HealthInv /\ [Next]_vars => HealthInv'
  BY HealthNext DEF Serial, SerialInv
<1> QED
  BY <1>1, <1>2, SerialInvariance, TypeCorrect, PTL DEF Spec

(***************************************************************************)
(* When no two callers open the socket at the same time, a CHECK of        *)
(* SendMsg, of InitFromFd or of NetFsm::Start fails only for a socket that *)
(* had no descriptor when it was connected: whatever breaks, and whenever  *)
(* AsyncStop is called.                                                    *)
(***************************************************************************)
THEOREM ChecksHoldUnlessReopened ==
  ASSUME Serialised
  PROVE  Spec => []OnlyReopenedFails
<1>1. HealthInv => OnlyReopenedFails
  BY DEF HealthInv
<1> QED
  BY <1>1, HealthInvariance, PTL

(***************************************************************************)
(* ... a connection that is under way or up is given up neither by the     *)
(* socket nor by the owner, until somebody calls AsyncStop: errors of      *)
(* other attempts do not reach it, and nothing but news of its progress    *)
(* reaches the owner, ...                                                  *)
(***************************************************************************)
THEOREM ConnectionsKept ==
  ASSUME Serialised
  PROVE  Spec => []ConnectionKept
<1>1. LifeInv /\ HealthInv => ConnectionKept
  BY DEF LifeInv, HealthInv, Good, Sound, ConnectionKept, Opened, Untouched, Dialled,
         Established
<1>2. SerialInv => LifeInv
  BY DEF SerialInv
<1> QED
  BY <1>1, <1>2, SerialInvariance, HealthInvariance, PTL

(***************************************************************************)
(* ... and an input falls through the socket's switch to the clause of     *)
(* another state only after AsyncStop, or when the socket has no           *)
(* descriptor.                                                             *)
(***************************************************************************)
THEOREM AllForeseen ==
  ASSUME Serialised
  PROVE  Spec => []NothingUnforeseen
<1>1. HealthInv => NothingUnforeseen
  BY DEF HealthInv, NothingUnforeseen
<1> QED
  BY <1>1, HealthInvariance, PTL
=============================================================================
