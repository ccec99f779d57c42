------------------------------ MODULE NetDevice ------------------------------
(***************************************************************************)
(* NetDevice's traffic of messages between hosts: ReadData and SendData in *)
(* users' threads, SendMsg with its map from tokens to sockets, ParseNetMsg*)
(* in the workers, the map of callbacks, and the completion queue with the *)
(* threads that poll it.                                                   *)
(*                                                                         *)
(* A socket with its connection is a queue of messages here, in order and  *)
(* without loss: what NetStream, NetOutbound and NetAccept are about.  The *)
(* device's maps have no lock; each find, loop, emplace and erase is a     *)
(* step, and users and workers come between them.  (Accesses that overlap  *)
(* in time are a data race, and are not modelled.)                         *)
(***************************************************************************)
EXTENDS Channel, Functions, FiniteSets

CONSTANTS
  Hosts, Tokens,
  Home,        \* Home[t]: the host whose Token2Dptr knows t
  Token2Ip,    \* Token2Ip[h][t]: what Token2Ip says of t on host h
  Users,       \* threads that call the device
  Reads,       \* the calls ReadData(src, dst) users make, ...
  Puts,        \* and the calls SendData(src, dst): pairs of tokens; they
               \* make them on any host
  MaxReads,    \* bound: ReadData calls in all
  MaxPuts,     \* bound: SendData calls in all
  MaxWrites,   \* bound: how often users change what Reads read
  MaxSocks     \* bound: sockets in all

ASSUME DeviceAssumption ==
  /\ Home \in [Tokens -> Hosts] /\ Token2Ip \in [Hosts -> [Tokens -> Hosts]]
  /\ Reads \subseteq Tokens \X Tokens /\ Puts \subseteq Tokens \X Tokens
  /\ {MaxReads, MaxPuts, MaxWrites, MaxSocks} \subseteq Nat
  /\ Users \cap Nat = {}

VARIABLES
  mem,           \* mem[t]: the version of what is stored at Token2Dptr(t)
  reads,         \* the ReadData calls so far
  puts,          \* the number of SendData calls
  token2callback,\* token2callback[t]: the read whose callback waits, or 0
  token2sock,    \* token2sock[h][t]: the socket, or 0
  socks,         \* all sockets, in the order they were made
  call,          \* where each thread is in SendMsg, or in ParseNetMsg
  poll,          \* where each thread in PollCompletionQueue is
  ran,           \* ran[r]: how often the callback of read r ran
  fate           \* "running", or how the process ended

memVars == <<mem, reads, puts>>
sockVars == <<token2sock, socks>>
pollVars == <<poll, ran>>
vars == <<channelVars, memVars, token2callback, sockVars, call, pollVars, fate>>

Calls == 1 .. MaxReads          \* the ReadData calls, by their number
Sockets == 1 .. MaxSocks
Threads == Users \cup Sockets   \* a socket stands for the worker that reads it
Versions == 0 .. MaxWrites
Messages == [kind : {"read", "data"}, src : Tokens, dst : Tokens, val : Versions]

\* Where a thread can be inside SendMsg.
Places == {"find", "search", "emplace", "open", "push"}

Out == [at |-> "out"]
Awaiting == [at |-> "receive", read |-> 0]

TypeOK ==
  /\ val \in Seq(Calls) /\ blocked \subseteq Pollers
  /\ is_send_closed \in BOOLEAN /\ is_receive_closed \in BOOLEAN
  /\ mem \in [Tokens -> Versions]
  /\ reads \in Seq([token : Tokens, since : Versions, kept : BOOLEAN])
  /\ Len(reads) <= MaxReads /\ puts \in 0 .. MaxPuts
  /\ token2callback \in [Tokens -> 0 .. Len(reads)]
  /\ token2sock \in [Hosts -> [Tokens -> 0 .. Len(socks)]]
  /\ Len(socks) <= MaxSocks
  /\ \A i \in 1 .. Len(socks) :
       /\ socks[i].host \in Hosts /\ socks[i].to \in Hosts
       /\ {socks[i].queue, socks[i].wire, socks[i].got} \subseteq Seq(Messages)
       /\ Len(socks[i].got) <= 1
  /\ \A c \in Threads :
       \/ call[c] = Out
       \/ call[c].at = "erase" /\ call[c].token \in Tokens
       \/ /\ call[c].at \in Places
          /\ call[c].host \in Hosts /\ call[c].msg \in Messages
          /\ call[c].sock \in 0 .. Len(socks)
  /\ poll \in [Pollers -> [at : {"receive", "run", "returned"}, read : 0 .. Len(reads)]]
  /\ ran \in [Calls -> 0 .. 1]
  /\ fate \in {"running", "check_failed", "no_memory"}

Init ==
  /\ ChannelInit
  /\ mem = [t \in Tokens |-> 0] /\ reads = <<>> /\ puts = 0
  /\ token2callback = [t \in Tokens |-> 0]
  /\ token2sock = [h \in Hosts |-> [t \in Tokens |-> 0]] /\ socks = <<>>
  /\ call = [c \in Threads |-> Out]
  /\ poll = [p \in Pollers |-> Awaiting]
  /\ ran = [r \in Calls |-> 0]
  /\ fate = "running"
-----------------------------------------------------------------------------
(* SendMsg. *)

\* Thread c of host h goes into SendMsg with m.
SendMsg(c, h, m) ==
  call' = [call EXCEPT ![c] = [at |-> "find", host |-> h, msg |-> m, sock |-> 0]]

Goto(c, place, s) == call' = [call EXCEPT ![c].at = place, ![c].sock = s]

\* emplace leaves an entry alone that is there.
Emplace(map, key, value) == IF map[key] = 0 THEN [map EXCEPT ![key] = value] ELSE map

\* Mutant: any socket of the device will do.
AnySocket(h, ip) == {i \in Range(token2sock[h]) \ {0} : TRUE}

\* IsIpEqual: the sockets of h that tokens are mapped to, connected with ip.
SocketsTo(h, ip) == {i \in Range(token2sock[h]) \ {0} : socks[i].to = ip}

\* Token2Socket
FindSocket(c) ==
  /\ call[c].at = "find"
  /\ LET s == token2sock[call[c].host][call[c].msg.dst] IN
       Goto(c, IF s # 0 THEN "push" ELSE "search", s)
  /\ UNCHANGED <<channelVars, memVars, token2callback, sockVars, pollVars, fate>>

\* The token has no socket: the loop looks for one with the same address, ...
SearchSockets(c) ==
  /\ call[c].at = "search"
  /\ LET h == call[c].host
         same == SocketsTo(h, Token2Ip[h][call[c].msg.dst])
     IN
       \/ same = {} /\ Goto(c, "open", 0)
       \/ \E s \in same : Goto(c, "emplace", s)
  /\ UNCHANGED <<channelVars, memVars, token2callback, sockVars, pollVars, fate>>

\* ... and maps the token to it.
EmplaceSocket(c) ==
  /\ call[c].at = "emplace"
  /\ LET s == call[c].sock IN
       /\ token2sock' = [token2sock EXCEPT ![call[c].host] = Emplace(@, call[c].msg.dst, s)]
       /\ Goto(c, "push", s)
  /\ UNCHANGED <<channelVars, memVars, token2callback, socks, pollVars, fate>>

\* No socket leads there: a new one, which is mapped unless another thread
\* has mapped one by now.  What follows from the emplace on, CHECK(IsIdle()),
\* Start and Connect, is in NetOutbound: NewSocket, CheckNew and TestIdle.
OpenSocket(c) ==
  /\ call[c].at = "open"
  /\ Len(socks) < MaxSocks
  /\ LET h == call[c].host
         t == call[c].msg.dst
     IN
       /\ socks' = Append(socks, [host |-> h, to |-> Token2Ip[h][t],
                                  queue |-> <<>>, wire |-> <<>>, got |-> <<>>])
       /\ token2sock' = [token2sock EXCEPT ![h] = Emplace(@, t, Len(socks'))]
       /\ Goto(c, "push", Len(socks'))
  /\ UNCHANGED <<channelVars, memVars, token2callback, pollVars, fate>>

\* AsyncSendMsg
PushMsg(c) ==
  /\ call[c].at = "push"
  /\ socks' = [socks EXCEPT ![call[c].sock].queue = Append(@, call[c].msg)]
  /\ call' = [call EXCEPT ![c] = Out]
  /\ UNCHANGED <<channelVars, memVars, token2callback, token2sock, pollVars, fate>>

Sending(c) ==
  FindSocket(c) \/ SearchSockets(c) \/ EmplaceSocket(c) \/ OpenSocket(c) \/ PushMsg(c)
-----------------------------------------------------------------------------
(* The users. *)

InFlight(i) == Range(socks[i].queue) \cup Range(socks[i].wire) \cup Range(socks[i].got)

\* The users keep to one operation at a time with a token as its
\* destination: a read is over when its callback ran, a put when it came.
Free(t) ==
  /\ \A r \in 1 .. Len(reads) : reads[r].token = t => ran[r] > 0
  /\ \A i \in 1 .. Len(socks) : \A m \in InFlight(i) : m.dst # t
  /\ \A c \in Threads : call[c].at \in Places => call[c].msg.dst # t

\* ReadData(src, dst, callback): what dst stands for is to be copied to src.
\* The callback is kept only if the token has none.
ReadData(u, src, dst) ==
  /\ call[u] = Out
  /\ Len(reads) < MaxReads
  /\ Free(src)
  /\ reads' = Append(reads, [token |-> src, since |-> mem[dst],
                             kept |-> token2callback[src] = 0])
  /\ token2callback' = Emplace(token2callback, src, Len(reads'))
  /\ SendMsg(u, Home[src], [kind |-> "read", src |-> dst, dst |-> src, val |-> 0])
  /\ UNCHANGED <<channelVars, mem, puts, sockVars, pollVars, fate>>

\* SendData(src, dst) on host h.  It returns -1 if h has nothing stored for
\* src: Token2Dptr gives no address, or Token2DptrSize gives 0.
SendData(u, h, src, dst) ==
  /\ call[u] = Out
  /\ puts < MaxPuts
  /\ puts' = puts + 1
  /\ \/ Home[src] # h /\ UNCHANGED call
     \/ /\ Home[src] = h /\ Free(dst)
        /\ SendMsg(u, h, [kind |-> "data", src |-> src, dst |-> dst, val |-> 0])
  /\ UNCHANGED <<channelVars, mem, reads, token2callback, sockVars, pollVars, fate>>

\* A user changes what is stored under a token others read.
WriteMemory(t) ==
  /\ mem[t] < MaxWrites
  /\ mem' = [mem EXCEPT ![t] = @ + 1]
  /\ UNCHANGED <<channelVars, reads, puts, token2callback, sockVars, call, pollVars, fate>>

\* CloseCompletionQueue: first the one end, then the other.
CloseCompletionQueue ==
  /\ \/ ~is_send_closed /\ CloseSendEnd
     \/ is_send_closed /\ ~is_receive_closed /\ CloseReceiveEnd
  /\ UNCHANGED <<memVars, token2callback, sockVars, call, pollVars, fate>>
-----------------------------------------------------------------------------
(* The workers. *)

\* SendRaw takes the data from where they are, when it comes to them.
Transmit(i) ==
  /\ socks[i].queue # <<>>
  /\ LET m == Head(socks[i].queue)
         sent == IF m.kind = "data" THEN [m EXCEPT !.val = mem[m.src]] ELSE m
     IN socks' = [socks EXCEPT ![i].queue = Tail(@), ![i].wire = Append(@, sent)]
  /\ UNCHANGED <<channelVars, memVars, token2callback, token2sock, call, pollVars, fate>>

\* RecvRaw stores the data where the token says, and raises Received.
Receive(i) ==
  /\ socks[i].wire # <<>> /\ socks[i].got = <<>>
  /\ call[i] = Out
  /\ LET m == Head(socks[i].wire) IN
       /\ socks' = [socks EXCEPT ![i].wire = Tail(@), ![i].got = <<m>>]
       /\ IF m.kind = "read" THEN UNCHANGED <<mem, fate>>
          ELSE IF Home[m.dst] = socks[i].to
               THEN mem' = [mem EXCEPT ![m.dst] = m.val] /\ UNCHANGED fate
               ELSE fate' = "no_memory" /\ UNCHANGED mem
  /\ UNCHANGED <<channelVars, reads, puts, token2callback, token2sock, call, pollVars>>

\* Mutant: the data are taken from the destination's memory.
ParseReadSwapped(i) ==
  /\ socks[i].got # <<>>
  /\ LET m == Head(socks[i].got)
         h == socks[i].to
     IN
       /\ m.kind = "read"
       /\ IF Home[m.src] = h
          THEN /\ SendMsg(i, h, [kind |-> "data", src |-> m.dst, dst |-> m.dst, val |-> 0])
               /\ UNCHANGED fate
          ELSE fate' = "check_failed" /\ UNCHANGED call
  /\ socks' = [socks EXCEPT ![i].got = <<>>]
  /\ UNCHANGED <<channelVars, memVars, token2callback, token2sock, pollVars>>

\* ParseNetMsg of a read: the data are sent back, if there are such data.
ParseRead(i) ==
  /\ socks[i].got # <<>>
  /\ LET m == Head(socks[i].got)
         h == socks[i].to
     IN
       /\ m.kind = "read"
       /\ IF Home[m.src] = h
          THEN /\ SendMsg(i, h, [kind |-> "data", src |-> m.src, dst |-> m.dst, val |-> 0])
               /\ UNCHANGED fate
          ELSE fate' = "check_failed" /\ UNCHANGED call
  /\ socks' = [socks EXCEPT ![i].got = <<>>]
  /\ UNCHANGED <<channelVars, memVars, token2callback, token2sock, pollVars>>

\* ParseNetMsg of data: the callback that waits is sent to the queue, ...
ParseData(i) ==
  /\ socks[i].got # <<>>
  /\ LET m == Head(socks[i].got) IN
       /\ m.kind = "data"
       /\ IF token2callback[m.dst] # 0
          THEN /\ Send(token2callback[m.dst])
               /\ call' = [call EXCEPT ![i] = [at |-> "erase", token |-> m.dst]]
          ELSE UNCHANGED <<channelVars, call>>
  /\ socks' = [socks EXCEPT ![i].got = <<>>]
  /\ UNCHANGED <<memVars, token2callback, token2sock, pollVars, fate>>

\* Mutant: the callback stays in the map.
EraseNothing(i) ==
  /\ call[i].at = "erase"
  /\ call' = [call EXCEPT ![i] = Out]
  /\ UNCHANGED <<channelVars, memVars, token2callback, sockVars, pollVars, fate>>

\* ... and erased from the map.
EraseCallback(i) ==
  /\ call[i].at = "erase"
  /\ token2callback' = [token2callback EXCEPT ![call[i].token] = 0]
  /\ call' = [call EXCEPT ![i] = Out]
  /\ UNCHANGED <<channelVars, memVars, sockVars, pollVars, fate>>

ParseNetMsg(i) == ParseRead(i) \/ ParseData(i) \/ EraseCallback(i)
-----------------------------------------------------------------------------
(* PollCompletionQueue. *)

PollTake(p) ==
  /\ poll[p].at = "receive"
  /\ Take(p)
  /\ poll' = [poll EXCEPT ![p] = [at |-> "run", read |-> Head(val)]]
  /\ UNCHANGED <<memVars, token2callback, sockVars, call, ran, fate>>

PollBlock(p) ==
  /\ poll[p].at = "receive"
  /\ Block(p)
  /\ UNCHANGED <<memVars, token2callback, sockVars, call, pollVars, fate>>

\* func()
RunCallback(p) ==
  /\ poll[p].at = "run"
  /\ ran' = [ran EXCEPT ![poll[p].read] = @ + 1]
  /\ poll' = [poll EXCEPT ![p] = Awaiting]
  /\ UNCHANGED <<channelVars, memVars, token2callback, sockVars, call, fate>>

PollReturn(p) ==
  /\ poll[p].at = "receive"
  /\ GiveUp(p)
  /\ poll' = [poll EXCEPT ![p].at = "returned"]
  /\ UNCHANGED <<memVars, token2callback, sockVars, call, ran, fate>>

PollCompletionQueue(p) == PollTake(p) \/ PollBlock(p) \/ RunCallback(p) \/ PollReturn(p)
-----------------------------------------------------------------------------
User(u) ==
  \/ \E rd \in Reads : ReadData(u, rd[1], rd[2])
  \/ \E pt \in Puts, h \in Hosts : SendData(u, h, pt[1], pt[2])

\* The worker of socket i's receiving end, and that of its sending end.
Worker(i) ==
  \/ i \in DOMAIN socks /\ (Receive(i) \/ ParseRead(i) \/ ParseData(i))
  \/ EraseCallback(i) \/ Sending(i)

Next ==
  /\ fate = "running"
  /\ \/ \E u \in Users : User(u) \/ Sending(u)
     \/ \E t \in {rd[2] : rd \in Reads} : WriteMemory(t)
     \/ CloseCompletionQueue
     \/ \E i \in DOMAIN socks : Transmit(i)
     \/ \E i \in Sockets : Worker(i)
     \/ \E p \in Pollers : PollCompletionQueue(p)

(***************************************************************************)
(* Threads inside a call go on, workers send and receive (NetOutbound's    *)
(* AllSent and NetAccept's AllParsed), and threads in PollCompletionQueue  *)
(* block only in Channel's wait.  Nobody has to call or to close.          *)
(***************************************************************************)
Running == fate = "running"

Fairness ==
  /\ \A u \in Users : WF_vars(Running /\ Sending(u))
  /\ \A i \in Sockets : /\ WF_vars(Running /\ i \in DOMAIN socks /\ Transmit(i))
                        /\ WF_vars(Running /\ Worker(i))
  /\ \A p \in Pollers : WF_vars(Running /\ PollCompletionQueue(p))

Spec == Init /\ [][Next]_vars /\ Fairness
-----------------------------------------------------------------------------
(* What the owner's tokens have to be like for some of the properties. *)

(***************************************************************************)
(* A token that is read into stands, on its own host, for the host with    *)
(* the data, and there for its own host; a token that is sent to stands    *)
(* for its host.                                                           *)
(***************************************************************************)
Routed ==
  /\ \A rd \in Reads : /\ Token2Ip[Home[rd[1]]][rd[1]] = Home[rd[2]]
                       /\ Token2Ip[Home[rd[2]]][rd[1]] = Home[rd[1]]
  /\ \A pt \in Puts : Token2Ip[Home[pt[1]]][pt[2]] = Home[pt[2]]

\* Data for a token that is read into come from one host.
OneSource ==
  \A rd \in Reads : \A pt \in Puts : pt[2] = rd[1] => Home[pt[1]] = Home[rd[2]]

\* What is read is not written by messages.
SourcesKept ==
  \A rd \in Reads : /\ \A other \in Reads : other[1] # rd[2]
                    /\ \A pt \in Puts : pt[2] # rd[2]
-----------------------------------------------------------------------------
(* Properties. *)

(***************************************************************************)
(* Every message goes to the host it is for: no CHECK of ParseNetMsg fails *)
(* (device.cpp:213, the data a read asks for are there), and RecvRaw has a *)
(* place to store the data.                                                *)
(***************************************************************************)
NoCheckFails == fate = "running"

\* A socket is mapped from those tokens only that Token2Ip sends its way,
\* whichever threads looked and mapped in between.
SocketsMatch ==
  \A h \in Hosts, t \in Tokens :
    token2sock[h][t] # 0 => /\ socks[token2sock[h][t]].host = h
                            /\ socks[token2sock[h][t]].to = Token2Ip[h][t]

InHand(r) == Cardinality({p \in Pollers : poll[p].read = r})
Queued(r) == Cardinality({k \in 1 .. Len(val) : val[k] = r})

\* The callback of r is in the map, and is not about to be erased from it.
Registered(r) ==
  /\ token2callback[reads[r].token] = r
  /\ \A i \in Sockets : call[i].at = "erase" => call[i].token # reads[r].token

(***************************************************************************)
(* A callback is in one place at most - the map, the completion queue, the *)
(* hands of a poller - until it has run, and it runs once at most, though  *)
(* ParseNetMsg copies it and the map and the queue have no common lock.    *)
(***************************************************************************)
CallbackOnce ==
  \A r \in 1 .. Len(reads) :
    (IF Registered(r) THEN 1 ELSE 0) + Queued(r) + InHand(r) + ran[r] <= 1

(***************************************************************************)
(* When a callback is queued or runs, its token's memory holds data no     *)
(* older than what there was to read when ReadData was called: a read is   *)
(* completed by its own reply, stored completely, and by nothing older.    *)
(***************************************************************************)
ReadFresh ==
  \A r \in 1 .. Len(reads) :
    Queued(r) + InHand(r) > 0 => mem[reads[r].token] >= reads[r].since

(***************************************************************************)
(* Every callback that the map took runs, unless the queue is closed.      *)
(***************************************************************************)
ReadsComplete ==
  []<>(\/ ~Running \/ is_send_closed
       \/ \A r \in 1 .. Len(reads) : reads[r].kept => ran[r] = 1)

(***************************************************************************)
(* Once the completion queue is closed every thread that polls it returns, *)
(* also one that waits: none is left in cond_.wait.                        *)
(***************************************************************************)
PollersReturn ==
  []<>(~Running \/ (is_receive_closed => \A p \in Pollers : poll[p].at = "returned"))

(***************************************************************************)
(* What device.cpp:220 says of a data message, "call the callback": every  *)
(* read has its callback kept to be called.                                *)
(***************************************************************************)
EveryCallbackKept == \A r \in 1 .. Len(reads) : reads[r].kept
=============================================================================
