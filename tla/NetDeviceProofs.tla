--------------------------- MODULE NetDeviceProofs ---------------------------
(***************************************************************************)
(* The theorems of NetDevice, for any hosts, users, pollers and bounds.    *)
(*                                                                         *)
(* First the sockets and messages, whatever tokens the owner chooses and   *)
(* whatever Token2Ip says: SendMsg's map leads where Token2Ip leads, and a *)
(* token has one message at a time, which rides on the socket the token is *)
(* mapped to.  Then the callbacks and data, for tokens chosen as the       *)
(* theorems say: every message finds its host (Routed), every callback     *)
(* runs once at most (OneSource), and a read is completed by data no older *)
(* than it (SourcesKept).                                                  *)
(***************************************************************************)
EXTENDS NetDevice, SequenceTheorems, FiniteSetTheorems, TLAPS

(* The shape of the state. *)

\* The places after Token2Socket.
Beyond == {"search", "emplace", "open", "push"}

Sockrecs == [host : Hosts, to : Hosts,
             queue : Seq(Messages), wire : Seq(Messages), got : Seq(Messages)]

\* Where a thread can be when there are n sockets.
CallStates(n) ==
  {Out} \cup [at : {"erase"}, token : Tokens]
        \cup [at : Places, host : Hosts, msg : Messages, sock : 0 .. n]

\* TypeOK, and a little more, but for what it says of ran.
Shape ==
  /\ mem \in [Tokens -> Versions]
  /\ reads \in Seq([token : Tokens, since : Versions, kept : BOOLEAN])
  /\ Len(reads) <= MaxReads /\ puts \in 0 .. MaxPuts
  /\ token2callback \in [Tokens -> 0 .. Len(reads)]
  /\ token2sock \in [Hosts -> [Tokens -> 0 .. Len(socks)]]
  /\ socks \in Seq(Sockrecs) /\ Len(socks) <= MaxSocks
  /\ \A i \in 1 .. Len(socks) :
       /\ Len(socks[i].got) <= 1
       /\ socks[i].got # <<>> => call[i] = Out
  /\ call \in [Threads -> CallStates(Len(socks))]
  /\ fate \in {"running", "check_failed", "no_memory"}
-----------------------------------------------------------------------------
(* One message at a time for a token, and one socket for all of them. *)

Dsts(q) == {m.dst : m \in Range(q)}
Distinct(q) == \A k, l \in DOMAIN q : q[k].dst = q[l].dst => k = l

\* The tokens a socket has messages for, each one message.
At(sk) == Dsts(sk.queue) \cup Dsts(sk.wire) \cup Dsts(sk.got)
Apart(sk) ==
  /\ Distinct(sk.queue) /\ Distinct(sk.wire) /\ Distinct(sk.got)
  /\ Dsts(sk.queue) \cap Dsts(sk.wire) = {}
  /\ Dsts(sk.queue) \cap Dsts(sk.got) = {}
  /\ Dsts(sk.wire) \cap Dsts(sk.got) = {}

Calling(c) == call[c].at \in Places

\* There is one message for a token at most, in one place.
OneMessage ==
  /\ \A i \in 1 .. Len(socks) : Apart(socks[i])
  /\ \A i, j \in 1 .. Len(socks) : i # j => At(socks[i]) \cap At(socks[j]) = {}
  /\ \A c \in Threads : Calling(c) =>
       /\ \A i \in 1 .. Len(socks) : call[c].msg.dst \notin At(socks[i])
       /\ \A d \in Threads : Calling(d) /\ d # c => call[d].msg.dst # call[c].msg.dst

\* A thread has found a socket that goes where its message goes.
Leads(state) ==
  /\ state.sock # 0
  /\ socks[state.sock].host = state.host
  /\ socks[state.sock].to = Token2Ip[state.host][state.msg.dst]

\* A message rides on the socket its token is mapped to; a thread that finds
\* its token without one still finds it so when it maps it.
OneSocket ==
  /\ \A i \in 1 .. Len(socks) : \A m \in InFlight(i) : token2sock[socks[i].host][m.dst] = i
  /\ \A c \in Threads :
       /\ call[c].at \in Beyond \ {"push"} =>
            token2sock[call[c].host][call[c].msg.dst] = 0
       /\ call[c].at = "emplace" => Leads(call[c])
       /\ call[c].at = "push" =>
            call[c].sock # 0 /\ token2sock[call[c].host][call[c].msg.dst] = call[c].sock

BaseInv == Shape /\ SocketsMatch /\ OneMessage /\ OneSocket
-----------------------------------------------------------------------------
(* Queues of messages. *)

\* AsyncSendMsg puts a message behind the others.
LEMMA AppendLine ==
  ASSUME NEW q \in Seq(Messages), NEW m \in Messages
  PROVE  /\ Append(q, m) \in Seq(Messages)
         /\ Range(Append(q, m)) = Range(q) \cup {m}
         /\ Dsts(Append(q, m)) = Dsts(q) \cup {m.dst}
         /\ Distinct(q) /\ m.dst \notin Dsts(q) => Distinct(Append(q, m))
<1>1. /\ Append(q, m) \in Seq(Messages)
      /\ Len(q) \in Nat
      /\ DOMAIN q = 1 .. Len(q) /\ DOMAIN Append(q, m) = 1 .. Len(q) + 1
      /\ \A k \in 1 .. Len(q) : Append(q, m)[k] = q[k]
      /\ Append(q, m)[Len(q) + 1] = m
  BY AppendProperties, LenProperties
<1>2. Range(Append(q, m)) = Range(q) \cup {m}
  <2>1. \A k \in 1 .. Len(q) : q[k] \in Range(Append(q, m))
    BY <1>1 DEF Range
  <2>2. m \in Range(Append(q, m))
    BY <1>1 DEF Range
  <2>3. Range(q) \cup {m} \subseteq Range(Append(q, m))
    BY <1>1, <2>1, <2>2 DEF Range
  <2>4. ASSUME NEW k \in 1 .. Len(q) + 1 PROVE Append(q, m)[k] \in Range(q) \cup {m}
    <3>1. k \in 1 .. Len(q) \/ k = Len(q) + 1
      BY <1>1
    <3> QED
      BY <1>1, <3>1 DEF Range
  <2>5. Range(Append(q, m)) \subseteq Range(q) \cup {m}
    BY <1>1, <2>4 DEF Range
  <2> QED
    BY <2>3, <2>5
<1>3. Dsts(Append(q, m)) = Dsts(q) \cup {m.dst}
  BY <1>2 DEF Dsts
<1>4. ASSUME Distinct(q), m.dst \notin Dsts(q) PROVE Distinct(Append(q, m))
  <2>1. \A k \in 1 .. Len(q) : q[k].dst # m.dst
    BY <1>1, <1>4 DEF Dsts, Range
  <2>2. ASSUME NEW k \in 1 .. Len(q) + 1, NEW l \in 1 .. Len(q) + 1,
               Append(q, m)[k].dst = Append(q, m)[l].dst
        PROVE  k = l
    <3>1. (k \in 1 .. Len(q) \/ k = Len(q) + 1) /\ (l \in 1 .. Len(q) \/ l = Len(q) + 1)
      BY <1>1
    <3> QED
      BY <1>1, <1>4, <2>1, <2>2, <3>1 DEF Distinct
  <2> QED
    BY <1>1, <2>2 DEF Distinct
<1> QED
  BY <1>1, <1>2, <1>3, <1>4

\* A worker takes the first message and leaves the others.
LEMMA TailLine ==
  ASSUME NEW q \in Seq(Messages), q # <<>>
  PROVE  /\ Head(q) \in Messages /\ Head(q) \in Range(q)
         /\ Tail(q) \in Seq(Messages)
         /\ Range(Tail(q)) \subseteq Range(q)
         /\ Distinct(q) => /\ Distinct(Tail(q))
                           /\ Dsts(Tail(q)) = Dsts(q) \ {Head(q).dst}
<1>1. /\ Len(q) \in Nat \ {0} /\ DOMAIN q = 1 .. Len(q)
      /\ Head(q) = q[1] /\ \A k \in 1 .. Len(q) : q[k] \in Messages
      /\ Tail(q) \in Seq(Messages) /\ Len(Tail(q)) = Len(q) - 1
      /\ \A k \in 1 .. Len(q) - 1 : Tail(q)[k] = q[k + 1]
  BY HeadTailProperties, EmptySeq, LenProperties, ElementOfSeq
<1>2. DOMAIN Tail(q) = 1 .. Len(q) - 1
  BY <1>1, LenProperties
<1>3. \A k \in 1 .. Len(q) - 1 : k + 1 \in 1 .. Len(q)
  BY <1>1
<1>4. Head(q) \in Messages /\ Head(q) \in Range(q)
  BY <1>1 DEF Range
<1>5. Range(Tail(q)) \subseteq Range(q)
  BY <1>1, <1>2, <1>3 DEF Range
<1>6. ASSUME Distinct(q)
      PROVE  Distinct(Tail(q)) /\ Dsts(Tail(q)) = Dsts(q) \ {Head(q).dst}
  <2>1. Distinct(Tail(q))
    BY <1>1, <1>2, <1>3, <1>6 DEF Distinct
  <2>2. ASSUME NEW k \in 1 .. Len(q) - 1
        PROVE  Tail(q)[k].dst \in Dsts(q) \ {Head(q).dst}
    <3>1. q[k + 1].dst # q[1].dst
      BY <1>1, <1>3, <1>6 DEF Distinct
    <3> QED
      BY <1>1, <1>3, <3>1 DEF Dsts, Range
  <2>3. ASSUME NEW k \in 1 .. Len(q), q[k].dst # q[1].dst
        PROVE  q[k].dst \in Dsts(Tail(q))
    <3>1. k - 1 \in 1 .. Len(q) - 1 /\ Tail(q)[k - 1] = q[k]
      BY <1>1, <2>3
    <3> QED
      BY <1>2, <3>1 DEF Dsts, Range
  <2>4. Dsts(Tail(q)) \subseteq Dsts(q) \ {Head(q).dst}
    BY <1>2, <2>2 DEF Dsts, Range
  <2>5. Dsts(q) \ {Head(q).dst} \subseteq Dsts(Tail(q))
    BY <1>1, <2>3 DEF Dsts, Range
  <2> QED
    BY <2>1, <2>4, <2>5
<1> QED
  BY <1>1, <1>4, <1>5, <1>6

\* A queue without messages, and got with one.
LEMMA ShortLines ==
  /\ <<>> \in Seq(Messages) /\ Range(<<>>) = {} /\ Dsts(<<>>) = {} /\ Distinct(<<>>)
  /\ Len(<<>>) = 0
  /\ \A m \in Messages :
       /\ <<m>> \in Seq(Messages) /\ Range(<<m>>) = {m} /\ Dsts(<<m>>) = {m.dst}
       /\ Distinct(<<m>>) /\ Len(<<m>>) = 1
BY DEF Range, Dsts, Distinct
-----------------------------------------------------------------------------
(* One socket changes. *)

\* Socket i becomes sk, but stays where it is; the others stay the same.
Becomes(i, sk) ==
  /\ sk \in Sockrecs /\ sk.host = socks[i].host /\ sk.to = socks[i].to
  /\ socks' \in Seq(Sockrecs) /\ Len(socks') = Len(socks)
  /\ socks'[i] = sk
  /\ \A j \in 1 .. Len(socks) : j # i => socks'[j] = socks[j]

LEMMA SocketTypes ==
  ASSUME Shape, NEW i \in 1 .. Len(socks)
  PROVE  /\ Len(socks) \in Nat /\ DOMAIN socks = 1 .. Len(socks)
         /\ i \in Sockets /\ i \in Threads
         /\ socks[i] \in Sockrecs
         /\ socks[i].host \in Hosts /\ socks[i].to \in Hosts
         /\ socks[i].queue \in Seq(Messages) /\ socks[i].wire \in Seq(Messages)
         /\ socks[i].got \in Seq(Messages)
<1>1. /\ socks \in Seq(Sockrecs) /\ Len(socks) \in Nat /\ DOMAIN socks = 1 .. Len(socks)
      /\ Len(socks) <= MaxSocks /\ MaxSocks \in Nat
  BY DeviceAssumption, LenProperties DEF Shape
<1>2. socks[i] \in Sockrecs
  BY <1>1, ElementOfSeq
<1>3. i \in Sockets /\ i \in Threads
  BY <1>1 DEF Sockets, Threads
<1> QED
  BY <1>1, <1>2, <1>3 DEF Sockrecs

LEMMA SocketRecord ==
  ASSUME NEW sk \in Sockrecs
  PROVE  sk = [host |-> sk.host, to |-> sk.to,
               queue |-> sk.queue, wire |-> sk.wire, got |-> sk.got]
BY DEF Sockrecs

LEMMA SocketBecomes ==
  ASSUME Shape, NEW i \in 1 .. Len(socks),
         NEW q \in Seq(Messages), NEW w \in Seq(Messages), NEW g \in Seq(Messages),
         socks' = [socks EXCEPT ![i] = [host |-> socks[i].host, to |-> socks[i].to,
                                        queue |-> q, wire |-> w, got |-> g]]
  PROVE  Becomes(i, [host |-> socks[i].host, to |-> socks[i].to,
                     queue |-> q, wire |-> w, got |-> g])
<1> DEFINE sk == [host |-> socks[i].host, to |-> socks[i].to,
                  queue |-> q, wire |-> w, got |-> g]
<1>1. /\ Len(socks) \in Nat /\ DOMAIN socks = 1 .. Len(socks)
      /\ socks[i].host \in Hosts /\ socks[i].to \in Hosts
  BY SocketTypes
<1>2. sk \in Sockrecs /\ sk.host = socks[i].host /\ sk.to = socks[i].to
  BY <1>1 DEF Sockrecs
<1> HIDE DEF sk
<1>3. socks \in Seq(Sockrecs)
  BY DEF Shape
<1>4. socks' = [socks EXCEPT ![i] = sk]
  BY DEF sk
<1>5. /\ socks' \in Seq(Sockrecs) /\ Len(socks') = Len(socks)
      /\ socks'[i] = sk
      /\ \A j \in 1 .. Len(socks) : j # i => socks'[j] = socks[j]
  BY <1>1, <1>2, <1>3, <1>4, ExceptSeq
<1>6. Becomes(i, sk)
  BY <1>2, <1>5 DEF Becomes
<1> QED
  BY <1>6 DEF sk

\* Transmit: the first message of the queue goes to the connection; m is what
\* it was, v the version of its data that goes with it.
LEMMA TransmitEffect ==
  ASSUME Shape, NEW i \in 1 .. Len(socks), Transmit(i)
  PROVE  \E m \in Messages, v \in Versions :
           /\ m = Head(socks[i].queue) /\ m \in Range(socks[i].queue)
           /\ m.kind = "data" => v = mem[m.src]
           /\ Becomes(i, [host |-> socks[i].host, to |-> socks[i].to,
                          queue |-> Tail(socks[i].queue),
                          wire |-> Append(socks[i].wire,
                                          [kind |-> m.kind, src |-> m.src,
                                           dst |-> m.dst, val |-> v]),
                          got |-> socks[i].got])
<1> DEFINE sk == socks[i]
           m == Head(sk.queue)
           v == IF m.kind = "data" THEN mem[m.src] ELSE m.val
           sent == [kind |-> m.kind, src |-> m.src, dst |-> m.dst, val |-> v]
<1>1. /\ sk \in Sockrecs /\ sk.queue \in Seq(Messages) /\ sk.wire \in Seq(Messages)
      /\ sk.got \in Seq(Messages) /\ DOMAIN socks = 1 .. Len(socks)
  BY SocketTypes
<1>2. /\ m \in Messages /\ m \in Range(sk.queue) /\ Tail(sk.queue) \in Seq(Messages)
  BY <1>1, TailLine DEF Transmit
<1>3. v \in Versions /\ sent \in Messages
  BY <1>2 DEF Shape, Messages
<1>4. Append(sk.wire, sent) \in Seq(Messages)
  BY <1>1, <1>3, AppendLine
<1>5. (IF m.kind = "data" THEN [m EXCEPT !.val = mem[m.src]] ELSE m) = sent
  <2> HIDE DEF m
  <2> QED
    BY <1>2 DEF Messages
<1>6. socks' = [socks EXCEPT ![i].queue = Tail(@), ![i].wire = Append(@, sent)]
  <2>1. socks' = [socks EXCEPT ![i].queue = Tail(@), ![i].wire = Append(@,
                    IF m.kind = "data" THEN [m EXCEPT !.val = mem[m.src]] ELSE m)]
    BY DEF Transmit
  <2> HIDE DEF sent
  <2> QED
    BY <1>5, <2>1
<1> HIDE DEF sent
<1>7. socks' = [socks EXCEPT ![i] = [host |-> sk.host, to |-> sk.to,
                                     queue |-> Tail(sk.queue),
                                     wire |-> Append(sk.wire, sent), got |-> sk.got]]
  BY <1>1, <1>6, SMTT(20) DEF Sockrecs
<1>8. Becomes(i, [host |-> sk.host, to |-> sk.to, queue |-> Tail(sk.queue),
                  wire |-> Append(sk.wire, sent), got |-> sk.got])
  BY <1>1, <1>2, <1>4, <1>7, SocketBecomes
<1> QED
  BY <1>2, <1>3, <1>8 DEF sent

\* Receive: the first message of the connection is kept for ParseNetMsg.
LEMMA ReceiveEffect ==
  ASSUME Shape, NEW i \in 1 .. Len(socks), Receive(i)
  PROVE  LET m == Head(socks[i].wire) IN
           /\ m \in Messages /\ m \in Range(socks[i].wire)
           /\ Becomes(i, [host |-> socks[i].host, to |-> socks[i].to,
                          queue |-> socks[i].queue,
                          wire |-> Tail(socks[i].wire), got |-> <<m>>])
<1> DEFINE sk == socks[i]
           m == Head(sk.wire)
<1>1. /\ sk \in Sockrecs /\ sk.queue \in Seq(Messages) /\ sk.wire \in Seq(Messages)
      /\ DOMAIN socks = 1 .. Len(socks)
  BY SocketTypes
<1>2. m \in Messages /\ m \in Range(sk.wire) /\ Tail(sk.wire) \in Seq(Messages)
  BY <1>1, TailLine DEF Receive
<1>3. <<m>> \in Seq(Messages)
  BY <1>2, ShortLines
<1>4. socks' = [socks EXCEPT ![i].wire = Tail(@), ![i].got = <<m>>]
  BY DEF Receive
<1> HIDE DEF m
<1>5. socks' = [socks EXCEPT ![i] = [host |-> sk.host, to |-> sk.to, queue |-> sk.queue,
                                     wire |-> Tail(sk.wire), got |-> <<m>>]]
  <2>1. socks' = [socks EXCEPT ![i] = [sk EXCEPT !.wire = Tail(sk.wire), !.got = <<m>>]]
    BY <1>1, <1>4
  <2> HIDE DEF sk
  <2> DEFINE new == [sk EXCEPT !.wire = Tail(sk.wire), !.got = <<m>>]
  <2>2. /\ new \in Sockrecs /\ new.host = sk.host /\ new.to = sk.to
        /\ new.queue = sk.queue /\ new.wire = Tail(sk.wire) /\ new.got = <<m>>
    BY <1>1, <1>2, <1>3 DEF Sockrecs
  <2>3. socks' = [socks EXCEPT ![i] = new]
    BY <2>1
  <2> HIDE DEF new
  <2> QED
    BY <2>2, <2>3, SocketRecord
<1>6. Becomes(i, [host |-> sk.host, to |-> sk.to, queue |-> sk.queue,
                  wire |-> Tail(sk.wire), got |-> <<m>>])
  BY <1>1, <1>2, <1>3, <1>5, SocketBecomes
<1> QED
  BY <1>2, <1>6 DEF m

\* ParseNetMsg is done with the message it was given.
LEMMA ParseEffect ==
  ASSUME Shape, NEW i \in 1 .. Len(socks), socks[i].got # <<>>,
         socks' = [socks EXCEPT ![i].got = <<>>]
  PROVE  LET m == Head(socks[i].got) IN
           /\ m \in Messages /\ Range(socks[i].got) = {m} /\ Dsts(socks[i].got) = {m.dst}
           /\ call[i] = Out
           /\ Becomes(i, [host |-> socks[i].host, to |-> socks[i].to,
                          queue |-> socks[i].queue, wire |-> socks[i].wire, got |-> <<>>])
<1> DEFINE sk == socks[i]
           m == Head(sk.got)
<1>1. /\ sk \in Sockrecs /\ sk.queue \in Seq(Messages) /\ sk.wire \in Seq(Messages)
      /\ sk.got \in Seq(Messages) /\ DOMAIN socks = 1 .. Len(socks)
  BY SocketTypes
<1>2. m \in Messages
  BY <1>1, TailLine
<1>3. sk.got = <<m>>
  <2> DEFINE n == Len(sk.got)
  <2>1. n \in Nat \ {0} /\ n <= 1 /\ m = sk.got[1]
    BY <1>1, EmptySeq, LenProperties, HeadTailProperties DEF Shape
  <2> HIDE DEF m, n
  <2>2. n = 1
    BY <2>1
  <2> HIDE DEF sk
  <2> QED
    BY <1>1, <2>1, <2>2 DEF n
<1>4. Range(sk.got) = {m} /\ Dsts(sk.got) = {m.dst}
  BY <1>2, <1>3, ShortLines
<1>5. socks' = [socks EXCEPT ![i] = [host |-> sk.host, to |-> sk.to, queue |-> sk.queue,
                                     wire |-> sk.wire, got |-> <<>>]]
  <2>1. socks' = [socks EXCEPT ![i] = [sk EXCEPT !.got = <<>>]]
    BY <1>1
  <2> HIDE DEF sk
  <2> QED
    BY <1>1, <2>1 DEF Sockrecs
<1>6. Becomes(i, [host |-> sk.host, to |-> sk.to, queue |-> sk.queue,
                  wire |-> sk.wire, got |-> <<>>])
  BY <1>1, <1>5, ShortLines, SocketBecomes
<1> QED
  BY <1>2, <1>4, <1>6 DEF Shape

\* AsyncSendMsg by a thread that has found its socket.
LEMMA PushEffect ==
  ASSUME Shape, NEW c \in Threads, call[c].sock \in 1 .. Len(socks), PushMsg(c)
  PROVE  LET i == call[c].sock IN
           /\ call[c].msg \in Messages
           /\ Becomes(i, [host |-> socks[i].host, to |-> socks[i].to,
                          queue |-> Append(socks[i].queue, call[c].msg),
                          wire |-> socks[i].wire, got |-> socks[i].got])
<1> DEFINE i == call[c].sock
           sk == socks[i]
           m == call[c].msg
<1>1. /\ sk \in Sockrecs /\ sk.queue \in Seq(Messages) /\ sk.wire \in Seq(Messages)
      /\ sk.got \in Seq(Messages) /\ DOMAIN socks = 1 .. Len(socks)
  BY SocketTypes
<1>2. m \in Messages
  BY DEF PushMsg, Shape, CallStates, Out, Places
<1>3. Append(sk.queue, m) \in Seq(Messages)
  BY <1>1, <1>2, AppendLine
<1>4. socks' = [socks EXCEPT ![i].queue = Append(@, m)]
  BY DEF PushMsg
<1>5. socks' = [socks EXCEPT ![i] = [host |-> sk.host, to |-> sk.to,
                                     queue |-> Append(sk.queue, m),
                                     wire |-> sk.wire, got |-> sk.got]]
  <2>1. socks' = [socks EXCEPT ![i] = [sk EXCEPT !.queue = Append(sk.queue, m)]]
    BY <1>1, <1>4
  <2> HIDE DEF sk, m
  <2> DEFINE new == [sk EXCEPT !.queue = Append(sk.queue, m)]
  <2>2. /\ new \in Sockrecs /\ new.host = sk.host /\ new.to = sk.to
        /\ new.queue = Append(sk.queue, m) /\ new.wire = sk.wire /\ new.got = sk.got
    BY <1>1, <1>3 DEF Sockrecs
  <2>3. socks' = [socks EXCEPT ![i] = new]
    BY <2>1
  <2> HIDE DEF new
  <2> QED
    BY <2>2, <2>3, SocketRecord
<1>6. Becomes(i, [host |-> sk.host, to |-> sk.to, queue |-> Append(sk.queue, m),
                  wire |-> sk.wire, got |-> sk.got])
  BY <1>1, <1>3, <1>5, SocketBecomes
<1> QED
  BY <1>2, <1>6
-----------------------------------------------------------------------------
(* Where the threads are. *)

LEMMA CallTypes ==
  ASSUME Shape, NEW c \in Threads
  PROVE  /\ call[c] \in CallStates(Len(socks))
         /\ call[c].at \in Places \cup {"erase", "out"}
         /\ call[c].at = "out" <=> call[c] = Out
         /\ Calling(c) => /\ call[c].host \in Hosts /\ call[c].msg \in Messages
                          /\ call[c].msg.dst \in Tokens /\ call[c].msg.src \in Tokens
                          /\ call[c].sock \in 0 .. Len(socks)
                          /\ call[c] = [at |-> call[c].at, host |-> call[c].host,
                                        msg |-> call[c].msg, sock |-> call[c].sock]
         /\ call[c].at = "erase" => call[c].token \in Tokens
<1>1. call[c] \in CallStates(Len(socks))
  BY DEF Shape
<1>2. CASE call[c] = Out
  BY <1>1, <1>2 DEF Out, Calling, Places
<1>3. CASE call[c] \in [at : {"erase"}, token : Tokens]
  BY <1>1, <1>3 DEF Out, Calling, Places
<1>4. CASE call[c] \in [at : Places, host : Hosts, msg : Messages, sock : 0 .. Len(socks)]
  BY <1>1, <1>4 DEF Out, Calling, Places, Messages
<1> QED
  BY <1>1, <1>2, <1>3, <1>4 DEF CallStates

\* Another thread may be anywhere when there are more sockets.
LEMMA CallStatesGrow ==
  ASSUME NEW n \in Nat, NEW m \in Nat, n <= m
  PROVE  CallStates(n) \subseteq CallStates(m)
BY DEF CallStates

\* A thread goes into SendMsg.
LEMMA SendMsgEffect ==
  ASSUME Shape, NEW c \in Threads, NEW h \in Hosts, NEW m \in Messages, SendMsg(c, h, m)
  PROVE  LET v == [at |-> "find", host |-> h, msg |-> m, sock |-> 0] IN
           /\ call' = [call EXCEPT ![c] = v]
           /\ v \in CallStates(Len(socks))
           /\ call' \in [Threads -> CallStates(Len(socks))]
<1>1. Len(socks) \in Nat
  BY LenProperties DEF Shape
<1>2. [at |-> "find", host |-> h, msg |-> m, sock |-> 0] \in CallStates(Len(socks))
  BY <1>1 DEF CallStates, Places
<1> QED
  BY <1>2 DEF SendMsg, Shape

\* A thread goes on in SendMsg.
LEMMA GotoEffect ==
  ASSUME Shape, NEW c \in Threads, Calling(c), NEW place \in Places, NEW n \in Nat,
         NEW sock \in 0 .. n, Len(socks) <= n, Goto(c, place, sock)
  PROVE  LET v == [at |-> place, host |-> call[c].host, msg |-> call[c].msg,
                   sock |-> sock] IN
           /\ call' = [call EXCEPT ![c] = v]
           /\ call' \in [Threads -> CallStates(n)]
<1> DEFINE v == [at |-> place, host |-> call[c].host, msg |-> call[c].msg, sock |-> sock]
           w == [call[c] EXCEPT !.at = place, !.sock = sock]
<1>1. /\ call[c].host \in Hosts /\ call[c].msg \in Messages /\ Len(socks) \in Nat
      /\ call[c] = [at |-> call[c].at, host |-> call[c].host,
                    msg |-> call[c].msg, sock |-> call[c].sock]
  BY CallTypes, LenProperties DEF Shape
<1>2. v \in CallStates(n)
  BY <1>1 DEF CallStates
<1>3. w = v
  <2> DEFINE Moves == [at : Places, host : Hosts, msg : Messages, sock : Nat]
  <2>1. call[c] \in Moves /\ place \in Places /\ sock \in Nat
    BY <1>1, CallTypes DEF Calling
  <2>2. /\ w \in Moves /\ w.at = place /\ w.sock = sock
        /\ w.host = call[c].host /\ w.msg = call[c].msg
    BY <2>1
  <2> HIDE DEF w
  <2>3. w = [at |-> w.at, host |-> w.host, msg |-> w.msg, sock |-> w.sock]
    BY <2>2
  <2> QED
    BY <2>2, <2>3
<1>4. call \in [Threads -> CallStates(n)]
  BY <1>1, CallStatesGrow DEF Shape
<1>5. call' = [call EXCEPT ![c] = w]
  BY <1>4 DEF Goto
<1> HIDE DEF v, w
<1>6. call' = [call EXCEPT ![c] = v] /\ call' \in [Threads -> CallStates(n)]
  BY <1>2, <1>3, <1>4, <1>5
<1> QED
  BY <1>6 DEF v
-----------------------------------------------------------------------------
(* One socket for the messages of a token, one at a time. *)

LEMMA AtInFlight ==
  ASSUME NEW i \in 1 .. Len(socks)
  PROVE  /\ \A t : t \in At(socks[i]) <=> \E m \in InFlight(i) : m.dst = t
         /\ \A t : t \in At(socks[i])' <=> \E m \in InFlight(i)' : m.dst = t
BY DEF At, Dsts, InFlight

LEMMA FlightTypes ==
  ASSUME Shape, NEW i \in 1 .. Len(socks)
  PROVE  InFlight(i) \subseteq Messages
<1>1. \A q \in Seq(Messages) : Range(q) \subseteq Messages
  <2> SUFFICES ASSUME NEW q \in Seq(Messages), NEW k \in DOMAIN q PROVE q[k] \in Messages
    BY DEF Range
  <2>1. k \in 1 .. Len(q)
    BY LenProperties
  <2> QED
    BY <2>1, ElementOfSeq
<1>2. /\ socks[i].queue \in Seq(Messages) /\ socks[i].wire \in Seq(Messages)
      /\ socks[i].got \in Seq(Messages)
  BY SocketTypes
<1> QED
  BY <1>1, <1>2 DEF InFlight

\* The token a thread has a message for.
Holds(state) == IF state.at \in Places THEN {state.msg.dst} ELSE {}

LEMMA LeadsHere ==
  ASSUME BaseInv, NEW d \in Threads, call[d].at = "emplace"
  PROVE  Leads(call[d]) /\ call[d].sock \in 1 .. Len(socks)
<1>1. Leads(call[d]) /\ Calling(d)
  BY DEF BaseInv, OneSocket, Calling, Places
<1>2. call[d].sock \in 0 .. Len(socks) /\ Len(socks) \in Nat
  BY <1>1, CallTypes, LenProperties DEF BaseInv, Shape
<1> QED
  BY <1>1, <1>2 DEF Leads

(***************************************************************************)
(* A message moves between thread c and socket i, within the socket, or    *)
(* leaves.                                                                 *)
(***************************************************************************)
LEMMA MoveKeeps ==
  ASSUME BaseInv, NEW i \in 1 .. Len(socks), NEW sk, Becomes(i, sk), Apart(sk),
         token2sock' = token2sock,
         NEW c \in Threads, NEW v, call' = [call EXCEPT ![c] = v],
         At(sk) \cup Holds(v) \subseteq At(socks[i]) \cup Holds(call[c]),
         At(sk) \cap Holds(v) = {},
         \A t \in At(sk) : token2sock[socks[i].host][t] = i,
         v.at \in Beyond => v = call[c]
  PROVE  SocketsMatch' /\ OneMessage' /\ OneSocket'
<1>1. /\ Len(socks') = Len(socks) /\ socks'[i] = sk
      /\ \A j \in 1 .. Len(socks) : j # i => socks'[j] = socks[j]
      /\ \A j \in 1 .. Len(socks) : socks'[j].host = socks[j].host /\ socks'[j].to = socks[j].to
  BY DEF Becomes
<1>2. /\ call'[c] = v /\ \A d \in Threads : d # c => call'[d] = call[d]
  BY DEF BaseInv, Shape
<1>3. SocketsMatch'
  BY <1>1 DEF BaseInv, Shape, SocketsMatch
<1>4. OneMessage'
  <2>1. \A j \in 1 .. Len(socks) : Apart(socks'[j])
    BY <1>1 DEF BaseInv, OneMessage
  <2>2. \A t \in At(sk) \cup Holds(v) : \A j \in 1 .. Len(socks) : j # i => t \notin At(socks[j])
    <3>1. \A t \in At(socks[i]) : \A j \in 1 .. Len(socks) : j # i => t \notin At(socks[j])
      BY DEF BaseInv, OneMessage
    <3>2. \A t \in Holds(call[c]) : \A j \in 1 .. Len(socks) : t \notin At(socks[j])
      BY DEF BaseInv, OneMessage, Holds, Calling
    <3> QED
      BY <3>1, <3>2
  <2>3. \A j, k \in 1 .. Len(socks) : j # k => At(socks'[j]) \cap At(socks'[k]) = {}
    BY <1>1, <2>2 DEF BaseInv, OneMessage
  <2>4. ASSUME NEW d \in Threads, d # c, Calling(d)
        PROVE  /\ call[d].msg.dst \notin At(sk) \cup Holds(v)
               /\ \A j \in 1 .. Len(socks) : call[d].msg.dst \notin At(socks'[j])
    <3>1. call[d].msg.dst \notin At(socks[i]) \cup Holds(call[c])
      BY <2>4 DEF BaseInv, OneMessage, Holds, Calling
    <3> QED
      BY <1>1, <2>4, <3>1 DEF BaseInv, OneMessage
  <2>5. ASSUME v.at \in Places
        PROVE  \A j \in 1 .. Len(socks) : v.msg.dst \notin At(socks'[j])
    BY <1>1, <2>2, <2>5 DEF Holds
  <2>6. ASSUME NEW d \in Threads, Calling(d)'
        PROVE  /\ \A j \in 1 .. Len(socks) : call'[d].msg.dst \notin At(socks'[j])
               /\ \A e \in Threads : Calling(e)' /\ e # d => call'[e].msg.dst # call'[d].msg.dst
    <3>1. CASE d = c
      <4>1. v.at \in Places /\ call'[d] = v
        BY <1>2, <2>6, <3>1 DEF Calling
      <4>2. ASSUME NEW e \in Threads, Calling(e)', e # d
            PROVE  call'[e].msg.dst # v.msg.dst
        BY <1>2, <2>4, <3>1, <4>1, <4>2 DEF Calling, Holds
      <4> QED
        BY <2>5, <4>1, <4>2
    <3>2. CASE d # c
      <4>1. call'[d] = call[d] /\ Calling(d)
        BY <1>2, <2>6, <3>2 DEF Calling
      <4>2. ASSUME NEW e \in Threads, Calling(e)', e # d
            PROVE  call'[e].msg.dst # call[d].msg.dst
        <5>1. CASE e = c
          BY <1>2, <2>4, <3>2, <4>1, <4>2, <5>1 DEF Calling, Holds
        <5>2. CASE e # c
          BY <1>2, <4>1, <4>2, <5>2 DEF Calling, BaseInv, OneMessage
        <5> QED
          BY <5>1, <5>2
      <4> QED
        BY <2>4, <3>2, <4>1, <4>2
    <3> QED
      BY <3>1, <3>2
  <2> QED
    BY <1>1, <2>1, <2>3, <2>6 DEF OneMessage
<1>5. OneSocket'
  <2>1. ASSUME NEW j \in 1 .. Len(socks), NEW m \in InFlight(j)'
        PROVE  token2sock[socks'[j].host][m.dst] = j
    <3>1. CASE j = i
      <4>1. m.dst \in At(sk)
        BY <1>1, <2>1, <3>1, AtInFlight
      <4> QED
        BY <1>1, <3>1, <4>1
    <3>2. CASE j # i
      <4>1. m \in InFlight(j)
        BY <1>1, <2>1, <3>2 DEF InFlight
      <4> QED
        BY <1>1, <4>1 DEF BaseInv, OneSocket
    <3> QED
      BY <3>1, <3>2
  <2>2. ASSUME NEW d \in Threads, call'[d].at \in Beyond
        PROVE  call'[d] = call[d]
    BY <1>2, <2>2
  <2>3. /\ \A d \in Threads : call'[d].at \in Beyond \ {"push"} =>
             token2sock[call'[d].host][call'[d].msg.dst] = 0
        /\ \A d \in Threads : call'[d].at = "push" =>
             call'[d].sock # 0 /\ token2sock[call'[d].host][call'[d].msg.dst] = call'[d].sock
    BY <2>2 DEF BaseInv, OneSocket, Beyond
  <2>4. ASSUME NEW d \in Threads, call'[d].at = "emplace" PROVE Leads(call[d])' /\ call'[d] = call[d]
    <3>1. call'[d] = call[d] /\ Leads(call[d]) /\ call[d].sock \in 1 .. Len(socks)
      BY <2>2, <2>4, LeadsHere DEF Beyond
    <3> QED
      BY <1>1, <3>1 DEF Leads
  <2> QED
    BY <1>1, <2>1, <2>3, <2>4 DEF OneSocket
<1> QED
  BY <1>3, <1>4, <1>5

LEMMA Mapped ==
  ASSUME BaseInv, NEW i \in 1 .. Len(socks)
  PROVE  \A t \in At(socks[i]) : token2sock[socks[i].host][t] = i
BY AtInFlight DEF BaseInv, OneSocket

LEMMA TransmitBase ==
  ASSUME BaseInv, NEW i \in 1 .. Len(socks), Transmit(i)
  PROVE  BaseInv'
<1> DEFINE old == socks[i]
<1>1. PICK m \in Messages, v \in Versions :
        /\ m = Head(old.queue) /\ m \in Range(old.queue)
        /\ m.kind = "data" => v = mem[m.src]
        /\ Becomes(i, [host |-> old.host, to |-> old.to, queue |-> Tail(old.queue),
                       wire |-> Append(old.wire, [kind |-> m.kind, src |-> m.src,
                                                  dst |-> m.dst, val |-> v]),
                       got |-> old.got])
  BY TransmitEffect DEF BaseInv
<1> DEFINE sent == [kind |-> m.kind, src |-> m.src, dst |-> m.dst, val |-> v]
           sk == [host |-> old.host, to |-> old.to, queue |-> Tail(old.queue),
                  wire |-> Append(old.wire, sent), got |-> old.got]
<1>2. /\ i \in Threads /\ old \in Sockrecs /\ old.queue # <<>>
      /\ old.queue \in Seq(Messages) /\ old.wire \in Seq(Messages)
  BY SocketTypes DEF BaseInv, Transmit
<1>3. sent \in Messages /\ sent.dst = m.dst
  BY DEF Messages
<1>4. /\ Distinct(old.queue) /\ Distinct(old.wire) /\ Distinct(old.got)
      /\ Dsts(old.queue) \cap Dsts(old.wire) = {}
      /\ Dsts(old.queue) \cap Dsts(old.got) = {} /\ Dsts(old.wire) \cap Dsts(old.got) = {}
      /\ At(old) = Dsts(old.queue) \cup Dsts(old.wire) \cup Dsts(old.got)
  BY DEF BaseInv, OneMessage, Apart, At
<1> HIDE DEF sent, old
<1>5. /\ Distinct(Tail(old.queue)) /\ Dsts(Tail(old.queue)) = Dsts(old.queue) \ {m.dst}
      /\ m.dst \in Dsts(old.queue)
  BY <1>1, <1>2, <1>4, TailLine DEF Dsts
<1>6. /\ Dsts(Append(old.wire, sent)) = Dsts(old.wire) \cup {m.dst}
      /\ Distinct(Append(old.wire, sent))
  BY <1>2, <1>3, <1>4, <1>5, AppendLine
<1>7. At(sk) = At(old) /\ Apart(sk)
  <2>1. /\ sk.queue = Tail(old.queue) /\ sk.wire = Append(old.wire, sent)
        /\ sk.got = old.got
    OBVIOUS
  <2> HIDE DEF sk
  <2> QED
    BY <1>4, <1>5, <1>6, <2>1 DEF At, Apart
<1>8. Becomes(i, sk) /\ sk.got = old.got
  BY <1>1 DEF sent
<1> HIDE DEF sk
<1>9. UNCHANGED <<mem, reads, puts, token2callback, token2sock, call, fate>>
  BY DEF Transmit, memVars
<1>10. call' = [call EXCEPT ![i] = call[i]]
  BY <1>2, <1>9 DEF BaseInv, Shape
<1>11. SocketsMatch' /\ OneMessage' /\ OneSocket'
  <2>1. \A t \in At(old) : token2sock[old.host][t] = i
    BY Mapped DEF old
  <2>2. At(old) \cap Holds(call[i]) = {}
    BY <1>2 DEF BaseInv, OneMessage, Holds, Calling, old
  <2>3. /\ At(sk) \cup Holds(call[i]) \subseteq At(socks[i]) \cup Holds(call[i])
        /\ At(sk) \cap Holds(call[i]) = {}
        /\ \A t \in At(sk) : token2sock[socks[i].host][t] = i
    BY <1>7, <2>1, <2>2 DEF old
  <2> QED
    BY <1>2, <1>7, <1>8, <1>9, <1>10, <2>3, MoveKeeps
<1>12. Shape'
  BY <1>8, <1>9 DEF BaseInv, Shape, Becomes, old
<1> QED
  BY <1>11, <1>12 DEF BaseInv

LEMMA ReceiveBase ==
  ASSUME BaseInv, NEW i \in 1 .. Len(socks), Receive(i)
  PROVE  BaseInv'
<1> DEFINE old == socks[i]
           m == Head(old.wire)
           sk == [host |-> old.host, to |-> old.to, queue |-> old.queue,
                  wire |-> Tail(old.wire), got |-> <<m>>]
<1>1. m \in Messages /\ m \in Range(old.wire) /\ Becomes(i, sk)
  BY ReceiveEffect DEF BaseInv
<1>2. /\ i \in Threads /\ old \in Sockrecs /\ old.wire # <<>> /\ old.got = <<>>
      /\ old.wire \in Seq(Messages)
  BY SocketTypes DEF BaseInv, Receive
<1>3. /\ Distinct(old.queue) /\ Distinct(old.wire)
      /\ Dsts(old.queue) \cap Dsts(old.wire) = {}
      /\ At(old) = Dsts(old.queue) \cup Dsts(old.wire) \cup {}
  BY <1>2, ShortLines DEF BaseInv, OneMessage, Apart, At
<1> HIDE DEF old
<1>4. /\ Distinct(Tail(old.wire)) /\ Dsts(Tail(old.wire)) = Dsts(old.wire) \ {m.dst}
      /\ m.dst \in Dsts(old.wire)
  BY <1>1, <1>2, <1>3, TailLine DEF Dsts
<1>5. Dsts(<<m>>) = {m.dst} /\ Distinct(<<m>>) /\ Len(<<m>>) = 1
  BY <1>1, ShortLines
<1> HIDE DEF m
<1>6. At(sk) = At(old) /\ Apart(sk)
  <2>1. sk.queue = old.queue /\ sk.wire = Tail(old.wire) /\ sk.got = <<m>>
    OBVIOUS
  <2> HIDE DEF sk
  <2> QED
    BY <1>3, <1>4, <1>5, <2>1 DEF At, Apart
<1>7. Len(sk.got) <= 1
  BY <1>5
<1> HIDE DEF sk
<1>8. UNCHANGED <<reads, puts, token2callback, token2sock, call>> /\ call[i] = Out
  BY DEF Receive
<1>9. call' = [call EXCEPT ![i] = call[i]]
  BY <1>2, <1>8 DEF BaseInv, Shape
<1>10. SocketsMatch' /\ OneMessage' /\ OneSocket'
  <2>1. \A t \in At(old) : token2sock[old.host][t] = i
    BY Mapped DEF old
  <2>2. Holds(call[i]) = {}
    BY <1>8 DEF Holds, Out, Places
  <2>3. /\ At(sk) \cup Holds(call[i]) \subseteq At(socks[i]) \cup Holds(call[i])
        /\ At(sk) \cap Holds(call[i]) = {}
        /\ \A t \in At(sk) : token2sock[socks[i].host][t] = i
    BY <1>6, <2>1, <2>2 DEF old
  <2> QED
    BY <1>1, <1>2, <1>6, <1>8, <1>9, <2>3, MoveKeeps
<1>11. mem' \in [Tokens -> Versions] /\ fate' \in {"running", "check_failed", "no_memory"}
  <2>1. m.val \in Versions /\ m.dst \in Tokens
    BY <1>1 DEF Messages
  <2> QED
    BY <2>1 DEF BaseInv, Shape, Receive, m, old
<1>12. Shape'
  BY <1>1, <1>7, <1>8, <1>11 DEF BaseInv, Shape, Becomes
<1> QED
  BY <1>10, <1>12 DEF BaseInv

\* ParseNetMsg, of a read and of data: the thread holds what the socket held,
\* or nothing.
LEMMA ParseBase ==
  ASSUME BaseInv, NEW i \in 1 .. Len(socks), socks[i].got # <<>>,
         socks' = [socks EXCEPT ![i].got = <<>>],
         NEW v \in CallStates(Len(socks)), call' = [call EXCEPT ![i] = v],
         Holds(v) \subseteq {Head(socks[i].got).dst}, v.at \notin Beyond,
         fate' \in {"running", "check_failed", "no_memory"},
         UNCHANGED <<mem, reads, puts, token2callback, token2sock>>
  PROVE  BaseInv'
<1> DEFINE old == socks[i]
           m == Head(old.got)
           sk == [host |-> old.host, to |-> old.to, queue |-> old.queue,
                  wire |-> old.wire, got |-> <<>>]
<1>1. /\ m \in Messages /\ Dsts(old.got) = {m.dst} /\ call[i] = Out
      /\ Becomes(i, sk)
  BY ParseEffect DEF BaseInv
<1>2. i \in Threads /\ old \in Sockrecs
  BY SocketTypes DEF BaseInv
<1>3. /\ Distinct(old.queue) /\ Distinct(old.wire)
      /\ Dsts(old.queue) \cap Dsts(old.wire) = {}
      /\ Dsts(old.queue) \cap {m.dst} = {} /\ Dsts(old.wire) \cap {m.dst} = {}
      /\ At(old) = Dsts(old.queue) \cup Dsts(old.wire) \cup {m.dst}
  BY <1>1 DEF BaseInv, OneMessage, Apart, At
<1> HIDE DEF old, m
<1>4. At(sk) = At(old) \ {m.dst} /\ Apart(sk) /\ m.dst \in At(old)
  <2>1. sk.queue = old.queue /\ sk.wire = old.wire /\ sk.got = <<>>
    OBVIOUS
  <2> HIDE DEF sk
  <2> QED
    BY <1>3, <2>1, ShortLines DEF At, Apart
<1>5. Len(sk.got) <= 1 /\ sk.got = <<>>
  BY ShortLines
<1> HIDE DEF sk
<1>6. SocketsMatch' /\ OneMessage' /\ OneSocket'
  <2>1. \A t \in At(old) : token2sock[old.host][t] = i
    BY Mapped DEF old
  <2>2. Holds(v) \subseteq {m.dst}
    BY DEF m, old
  <2>3. /\ At(sk) \cup Holds(v) \subseteq At(socks[i]) \cup Holds(call[i])
        /\ At(sk) \cap Holds(v) = {}
        /\ \A t \in At(sk) : token2sock[socks[i].host][t] = i
    BY <1>4, <2>1, <2>2 DEF old
  <2> QED
    BY <1>1, <1>2, <1>4, <2>3, MoveKeeps
<1>7. call' \in [Threads -> CallStates(Len(socks))]
      /\ \A d \in Threads : d # i => call'[d] = call[d]
  BY <1>2 DEF BaseInv, Shape
<1>8. Shape'
  <2>1. \A j \in 1 .. Len(socks) : j \in Threads
    BY SocketTypes DEF BaseInv
  <2>2. \A j \in 1 .. Len(socks) : Len(socks'[j].got) <= 1
                                   /\ (socks'[j].got # <<>> => call'[j] = Out)
    BY <1>1, <1>5, <1>7, <2>1 DEF BaseInv, Shape, Becomes
  <2> QED
    BY <1>1, <1>7, <2>2 DEF BaseInv, Shape, Becomes
<1> QED
  BY <1>6, <1>8 DEF BaseInv

\* A user's call, for a token that no message is under way for.
LEMMA NewCallKeeps ==
  ASSUME BaseInv, NEW u \in Users, NEW h \in Hosts, NEW m \in Messages,
         call[u] = Out, Free(m.dst), SendMsg(u, h, m), UNCHANGED sockVars
  PROVE  /\ SocketsMatch' /\ OneMessage' /\ OneSocket'
         /\ call' \in [Threads -> CallStates(Len(socks))]
         /\ \A i \in 1 .. Len(socks) : socks[i].got # <<>> => call'[i] = Out
<1> DEFINE v == [at |-> "find", host |-> h, msg |-> m, sock |-> 0]
<1>1. u \in Threads /\ \A i \in 1 .. Len(socks) : i # u /\ i \in Threads
  <2>1. \A i \in 1 .. Len(socks) : i \in Nat /\ i \in Threads
    BY SocketTypes DEF BaseInv
  <2> QED
    BY <2>1, DeviceAssumption DEF Threads
<1>2. call' = [call EXCEPT ![u] = v] /\ call' \in [Threads -> CallStates(Len(socks))]
  BY <1>1, SendMsgEffect DEF BaseInv
<1>3. v.at = "find" /\ v.msg = m /\ "find" \in Places
  BY DEF Places
<1> HIDE DEF v
<1>4. call'[u] = v /\ \A d \in Threads : d # u => call'[d] = call[d]
  BY <1>1, <1>2 DEF BaseInv, Shape
<1>5. token2sock' = token2sock /\ socks' = socks
  BY DEF sockVars
<1>6. SocketsMatch' /\ OneSocket'
  BY <1>3, <1>4, <1>5 DEF BaseInv, SocketsMatch, OneSocket, InFlight, Leads, Beyond
<1>7. /\ \A i \in 1 .. Len(socks) : m.dst \notin At(socks[i])
      /\ \A d \in Threads : Calling(d) => call[d].msg.dst # m.dst
  <2>1. ASSUME NEW i \in 1 .. Len(socks) PROVE m.dst \notin At(socks[i])
    <3>1. m.dst \in At(socks[i]) => \E x \in InFlight(i) : x.dst = m.dst
      BY ONLY AtInFlight
    <3> QED
      BY <3>1 DEF Free
  <2>2. \A d \in Threads : Calling(d) => call[d].msg.dst # m.dst
    BY DEF Free, Calling, Places
  <2> QED
    BY <2>1, <2>2
<1>8. OneMessage'
  <2>1. ASSUME NEW d \in Threads, Calling(d)'
        PROVE  /\ \A i \in 1 .. Len(socks) : call'[d].msg.dst \notin At(socks[i])
               /\ \A e \in Threads : Calling(e)' /\ e # d => call'[e].msg.dst # call'[d].msg.dst
    <3>1. CASE d = u
      BY <1>3, <1>4, <1>7, <3>1 DEF Calling
    <3>2. CASE d # u
      <4>1. call'[d] = call[d] /\ Calling(d)
        BY <1>4, <2>1, <3>2 DEF Calling
      <4>2. \A i \in 1 .. Len(socks) : call'[d].msg.dst \notin At(socks[i])
        BY <4>1 DEF BaseInv, OneMessage
      <4>3. ASSUME NEW e \in Threads, Calling(e)', e # d
            PROVE  call'[e].msg.dst # call[d].msg.dst
        <5>1. CASE e = u
          BY <1>3, <1>4, <1>7, <4>1, <5>1
        <5>2. CASE e # u
          BY <1>4, <4>1, <4>3, <5>2 DEF Calling, BaseInv, OneMessage
        <5> QED
          BY <5>1, <5>2
      <4> QED
        BY <4>1, <4>2, <4>3
    <3> QED
      BY <3>1, <3>2
  <2> QED
    BY <1>5, <2>1 DEF BaseInv, OneMessage
<1>9. \A i \in 1 .. Len(socks) : socks[i].got # <<>> => call'[i] = Out
  BY <1>1, <1>4 DEF BaseInv, Shape
<1> QED
  BY <1>2, <1>6, <1>8, <1>9

LEMMA ReadDataBase ==
  ASSUME BaseInv, NEW u \in Users, NEW rd \in Reads, ReadData(u, rd[1], rd[2])
  PROVE  BaseInv'
<1> DEFINE m == [kind |-> "read", src |-> rd[2], dst |-> rd[1], val |-> 0]
           r == [token |-> rd[1], since |-> mem[rd[2]], kept |-> token2callback[rd[1]] = 0]
<1>1. /\ rd[1] \in Tokens /\ rd[2] \in Tokens /\ Home[rd[1]] \in Hosts
      /\ MaxWrites \in Nat /\ MaxReads \in Nat
  BY DeviceAssumption
<1>2. m \in Messages /\ m.dst = rd[1]
  BY <1>1 DEF Messages, Versions
<1>3. /\ call[u] = Out /\ Free(rd[1]) /\ SendMsg(u, Home[rd[1]], m)
      /\ Len(reads) < MaxReads /\ reads' = Append(reads, r)
      /\ token2callback' = Emplace(token2callback, rd[1], Len(reads'))
      /\ UNCHANGED <<mem, puts, sockVars, fate>>
  BY DEF ReadData
<1>4. r \in [token : Tokens, since : Versions, kept : BOOLEAN]
  BY <1>1 DEF BaseInv, Shape
<1> HIDE DEF m, r
<1>5. /\ reads' \in Seq([token : Tokens, since : Versions, kept : BOOLEAN])
      /\ Len(reads') = Len(reads) + 1 /\ Len(reads) \in Nat
  BY <1>3, <1>4, AppendProperties, LenProperties DEF BaseInv, Shape
<1>6. token2callback' \in [Tokens -> 0 .. Len(reads')]
  <2>1. token2callback \in [Tokens -> 0 .. Len(reads')]
    BY <1>5 DEF BaseInv, Shape
  <2>2. Len(reads') \in 0 .. Len(reads')
    BY <1>5
  <2> QED
    BY <1>1, <1>3, <2>1, <2>2 DEF Emplace
<1>7. /\ SocketsMatch' /\ OneMessage' /\ OneSocket'
      /\ call' \in [Threads -> CallStates(Len(socks))]
      /\ \A i \in 1 .. Len(socks) : socks[i].got # <<>> => call'[i] = Out
  BY <1>1, <1>2, <1>3, NewCallKeeps
<1>8. Len(reads') <= MaxReads
  BY <1>1, <1>3, <1>5
<1> QED
  BY <1>3, <1>5, <1>6, <1>7, <1>8 DEF BaseInv, Shape, sockVars

\* A put without data to send changes nothing but their number.
LEMMA SendDataBase ==
  ASSUME BaseInv, NEW u \in Users, NEW h \in Hosts, NEW pt \in Puts,
         SendData(u, h, pt[1], pt[2])
  PROVE  BaseInv'
<1> DEFINE m == [kind |-> "data", src |-> pt[1], dst |-> pt[2], val |-> 0]
<1>1. /\ pt[1] \in Tokens /\ pt[2] \in Tokens /\ MaxWrites \in Nat /\ MaxPuts \in Nat
  BY DeviceAssumption
<1>2. m \in Messages /\ m.dst = pt[2]
  BY <1>1 DEF Messages, Versions
<1>3. /\ call[u] = Out /\ puts' \in 0 .. MaxPuts
      /\ UNCHANGED <<mem, reads, token2callback, sockVars, fate>>
      /\ \/ UNCHANGED call
         \/ Free(pt[2]) /\ SendMsg(u, h, m)
  BY <1>1 DEF SendData, BaseInv, Shape
<1> HIDE DEF m
<1>4. /\ SocketsMatch' /\ OneMessage' /\ OneSocket'
      /\ call' \in [Threads -> CallStates(Len(socks))]
      /\ \A i \in 1 .. Len(socks) : socks[i].got # <<>> => call'[i] = Out
  <2>1. CASE UNCHANGED call
    <3>1. UNCHANGED <<token2sock, socks, call>>
      BY <1>3, <2>1 DEF sockVars
    <3>2. SocketsMatch' /\ OneMessage'
      BY <3>1 DEF BaseInv, SocketsMatch, OneMessage, Calling
    <3>3. OneSocket'
      BY <3>1 DEF BaseInv, OneSocket, InFlight, Leads
    <3> QED
      BY <3>1, <3>2, <3>3 DEF BaseInv, Shape
  <2>2. CASE Free(pt[2]) /\ SendMsg(u, h, m)
    BY <1>1, <1>2, <1>3, <2>2, NewCallKeeps
  <2> QED
    BY <1>3, <2>1, <2>2
<1> QED
  BY <1>3, <1>4 DEF BaseInv, Shape, sockVars

LEMMA PushBase ==
  ASSUME BaseInv, NEW c \in Threads, PushMsg(c)
  PROVE  BaseInv'
<1> DEFINE i == call[c].sock
           m == call[c].msg
           old == socks[i]
           sk == [host |-> old.host, to |-> old.to, queue |-> Append(old.queue, m),
                  wire |-> old.wire, got |-> old.got]
<1>1. Calling(c) /\ call[c].at = "push" /\ call'= [call EXCEPT ![c] = Out]
      /\ UNCHANGED <<mem, reads, puts, token2callback, token2sock, fate>>
  BY DEF PushMsg, Calling, Places, memVars
<1>2. /\ i \in 1 .. Len(socks) /\ token2sock[call[c].host][m.dst] = i
      /\ call[c].host \in Hosts /\ m \in Messages /\ m.dst \in Tokens
  <2>1. i # 0 /\ token2sock[call[c].host][m.dst] = i
    BY <1>1 DEF BaseInv, OneSocket
  <2>2. i \in 0 .. Len(socks) /\ Len(socks) \in Nat
    BY <1>1, CallTypes, LenProperties DEF BaseInv, Shape
  <2>3. call[c].host \in Hosts /\ m \in Messages /\ m.dst \in Tokens
    BY <1>1, CallTypes DEF BaseInv
  <2> HIDE DEF i
  <2> QED
    BY <2>1, <2>2, <2>3
<1>3. Becomes(i, sk)
  BY <1>2, PushEffect DEF BaseInv
<1>4. old \in Sockrecs /\ old.queue \in Seq(Messages) /\ old.host = call[c].host
  BY <1>2, SocketTypes DEF BaseInv, SocketsMatch
<1>5. m.dst \notin At(old) /\ Apart(old)
  BY <1>1, <1>2 DEF BaseInv, OneMessage
<1>6. \A t \in At(old) : token2sock[old.host][t] = i
  BY <1>2, Mapped
<1>7. At(sk) = At(old) \cup {m.dst} /\ Apart(sk) /\ sk.got = old.got
  <2>1. /\ sk.queue = Append(old.queue, m) /\ sk.wire = old.wire /\ sk.got = old.got
    OBVIOUS
  <2> HIDE DEF sk, old, m
  <2> QED
    BY <1>2, <1>4, <1>5, <2>1, AppendLine DEF At, Apart
<1> HIDE DEF sk
<1>8. Holds(Out) = {} /\ Holds(call[c]) = {m.dst} /\ Out.at = "out"
  BY <1>1 DEF Holds, Calling, Out, Places
<1>9. SocketsMatch' /\ OneMessage' /\ OneSocket'
  <2>1. /\ At(sk) \cup Holds(Out) \subseteq At(socks[i]) \cup Holds(call[c])
        /\ At(sk) \cap Holds(Out) = {}
        /\ \A t \in At(sk) : token2sock[socks[i].host][t] = i
        /\ Out.at \notin Beyond
    BY <1>2, <1>4, <1>6, <1>7, <1>8 DEF Beyond
  <2> HIDE DEF i
  <2> QED
    BY <1>1, <1>2, <1>3, <1>7, <2>1, MoveKeeps
<1>10. Shape'
  <2>1. Len(socks') = Len(socks) /\ socks' \in Seq(Sockrecs)
        /\ \A j \in 1 .. Len(socks) : socks'[j].got = socks[j].got
    BY <1>2, <1>3, <1>7 DEF Becomes
  <2>2. call' \in [Threads -> CallStates(Len(socks))]
    BY <1>1 DEF BaseInv, Shape, CallStates
  <2>3. \A j \in 1 .. Len(socks) : j \in Threads
    BY SocketTypes DEF BaseInv
  <2>4. \A j \in 1 .. Len(socks) : socks[j].got # <<>> => call'[j] = Out
    BY <1>1, <2>3 DEF BaseInv, Shape
  <2> QED
    BY <1>1, <2>1, <2>2, <2>4 DEF BaseInv, Shape
<1> QED
  BY <1>9, <1>10 DEF BaseInv

(***************************************************************************)
(* Thread c finds or opens a socket for its message, or finds that it has  *)
(* to open one: only what its token is mapped to changes.                  *)
(***************************************************************************)
LEMMA SearchKeeps ==
  ASSUME BaseInv, NEW c \in Threads, Calling(c),
         NEW place \in Beyond, NEW sock \in 0 .. Len(socks'),
         place \in {"emplace", "push"} <=> sock # 0,
         socks' \in Seq(Sockrecs), Len(socks) <= Len(socks'), Len(socks') <= MaxSocks,
         \A i \in 1 .. Len(socks) : socks'[i] = socks[i],
         \A i \in (1 .. Len(socks')) \ (1 .. Len(socks)) :
           InFlight(i)' = {} /\ Apart(socks'[i]) /\ socks'[i].got = <<>>,
         Goto(c, place, sock),
         token2sock' \in [Hosts -> [Tokens -> 0 .. Len(socks')]],
         \A h \in Hosts, t \in Tokens :
           (h # call[c].host \/ t # call[c].msg.dst) => token2sock'[h][t] = token2sock[h][t],
         token2sock'[call[c].host][call[c].msg.dst] = IF place = "push" THEN sock ELSE 0,
         token2sock[call[c].host][call[c].msg.dst]
           \in {0, token2sock'[call[c].host][call[c].msg.dst]},
         sock # 0 => /\ socks'[sock].host = call[c].host
                     /\ socks'[sock].to = Token2Ip[call[c].host][call[c].msg.dst],
         UNCHANGED <<mem, reads, puts, token2callback, fate>>
  PROVE  BaseInv'
<1> DEFINE h == call[c].host
           m == call[c].msg
           v == [at |-> place, host |-> h, msg |-> m, sock |-> sock]
<1>1. /\ h \in Hosts /\ m \in Messages /\ m.dst \in Tokens
      /\ Len(socks) \in Nat /\ Len(socks') \in Nat
  BY CallTypes, LenProperties DEF BaseInv, Shape
<1>2. call' = [call EXCEPT ![c] = v] /\ call' \in [Threads -> CallStates(Len(socks'))]
  BY <1>1, GotoEffect DEF BaseInv, Places, Beyond
<1>3. v.at = place /\ v.host = h /\ v.msg = m /\ v.sock = sock
  OBVIOUS
<1> HIDE DEF v
<1>4. call'[c] = v /\ \A d \in Threads : d # c => call'[d] = call[d]
  BY <1>2 DEF BaseInv, Shape
<1>5. \A g \in Hosts, t \in Tokens : token2sock[g][t] # 0 => token2sock'[g][t] = token2sock[g][t]
  BY <1>1
<1>6. SocketsMatch'
  <2> SUFFICES ASSUME NEW g \in Hosts, NEW t \in Tokens, token2sock'[g][t] # 0
               PROVE  /\ socks'[token2sock'[g][t]].host = g
                      /\ socks'[token2sock'[g][t]].to = Token2Ip[g][t]
    BY DEF SocketsMatch
  <2>1. CASE g = h /\ t = m.dst
    BY <2>1
  <2>2. CASE g # h \/ t # m.dst
    <3>1. token2sock'[g][t] = token2sock[g][t] /\ token2sock[g][t] \in 0 .. Len(socks)
      BY <2>2 DEF BaseInv, Shape
    <3>2. token2sock[g][t] \in 1 .. Len(socks)
      BY <1>1, <3>1
    <3> QED
      BY <3>1, <3>2 DEF BaseInv, SocketsMatch
  <2> QED
    BY <2>1, <2>2
<1>7. \A d \in Threads : /\ Calling(d)' <=> Calling(d)
                         /\ Calling(d) => /\ call'[d].msg = call[d].msg
                                          /\ call'[d].host = call[d].host
  BY <1>3, <1>4 DEF Calling, Places, Beyond
<1>8. ASSUME NEW i \in (1 .. Len(socks')) \ (1 .. Len(socks)) PROVE At(socks'[i]) = {}
  <2>1. InFlight(i)' = {}
    OBVIOUS
  <2> QED
    BY <2>1 DEF InFlight, At, Dsts
<1>9. OneMessage'
  <2>1. \A i \in 1 .. Len(socks') : Apart(socks'[i])
    BY <1>1 DEF BaseInv, OneMessage
  <2>2. \A i, j \in 1 .. Len(socks') : i # j => At(socks'[i]) \cap At(socks'[j]) = {}
    BY <1>8 DEF BaseInv, OneMessage
  <2>3. ASSUME NEW d \in Threads, Calling(d)'
        PROVE  /\ \A i \in 1 .. Len(socks') : call'[d].msg.dst \notin At(socks'[i])
               /\ \A e \in Threads : Calling(e)' /\ e # d =>
                    call'[e].msg.dst # call'[d].msg.dst
    <3>1. Calling(d) /\ call'[d].msg = call[d].msg
      BY <1>7, <2>3
    <3>2. \A i \in 1 .. Len(socks') : call[d].msg.dst \notin At(socks'[i])
      BY <1>8, <3>1 DEF BaseInv, OneMessage
    <3>3. ASSUME NEW e \in Threads, Calling(e)', e # d
          PROVE  call'[e].msg.dst # call[d].msg.dst
      <4>1. Calling(e) /\ call'[e].msg = call[e].msg
        BY <1>7, <3>3
      <4> QED
        BY <3>1, <3>3, <4>1 DEF BaseInv, OneMessage
    <3> QED
      BY <3>1, <3>2, <3>3
  <2> QED
    BY <2>1, <2>2, <2>3 DEF OneMessage
<1>10. OneSocket'
  <2>1. ASSUME NEW i \in 1 .. Len(socks'), NEW n \in InFlight(i)'
        PROVE  token2sock'[socks'[i].host][n.dst] = i
    <3>1. i \in 1 .. Len(socks)
      BY <2>1
    <3>2. socks'[i] = socks[i] /\ n \in InFlight(i)
      BY <2>1, <3>1 DEF InFlight
    <3>3. token2sock[socks[i].host][n.dst] = i
      BY <3>1, <3>2 DEF BaseInv, OneSocket
    <3>4. n.dst \in Tokens /\ i # 0 /\ socks[i].host \in Hosts
      <4>1. n \in Messages
        BY <3>1, <3>2, FlightTypes DEF BaseInv
      <4>2. socks[i].host \in Hosts
        BY <3>1, SocketTypes DEF BaseInv
      <4>3. i # 0
        BY <1>1, <3>1
      <4> QED
        BY <4>1, <4>2, <4>3 DEF Messages
    <3> QED
      BY <1>5, <3>2, <3>3, <3>4
  <2>2. ASSUME NEW d \in Threads
        PROVE  /\ call'[d].at \in Beyond \ {"push"} =>
                    token2sock'[call'[d].host][call'[d].msg.dst] = 0
               /\ call'[d].at = "emplace" => Leads(call[d])'
               /\ call'[d].at = "push" =>
                    /\ call'[d].sock # 0
                    /\ token2sock'[call'[d].host][call'[d].msg.dst] = call'[d].sock
    <3>1. CASE d = c
      <4>1. call'[d] = v
        BY <1>4, <3>1
      <4>2. v.at = "emplace" => Leads(call[d])'
        BY <1>3, <4>1 DEF Leads
      <4> QED
        BY <1>3, <4>1, <4>2
    <3>2. CASE d # c
      <4>1. call'[d] = call[d]
        BY <1>4, <3>2
      <4>2. ASSUME Calling(d)
            PROVE  /\ call[d].host \in Hosts /\ call[d].msg.dst \in Tokens
                   /\ call[d].msg.dst # m.dst
        BY <3>2, <4>2, CallTypes DEF BaseInv, OneMessage
      <4>3. Calling(d) => token2sock'[call[d].host][call[d].msg.dst] =
                            token2sock[call[d].host][call[d].msg.dst]
        BY <4>2
      <4>4. call[d].at \in Beyond \cup {"emplace", "push"} => Calling(d)
        BY DEF Calling, Places, Beyond
      <4>5. ASSUME call[d].at = "emplace" PROVE Leads(call[d])'
        <5>1. Leads(call[d]) /\ call[d].sock \in 1 .. Len(socks)
          BY <4>5, LeadsHere
        <5> QED
          BY <4>1, <5>1 DEF Leads
      <4> QED
        BY <4>1, <4>3, <4>4, <4>5 DEF BaseInv, OneSocket
    <3> QED
      BY <3>1, <3>2
  <2> QED
    BY <2>1, <2>2 DEF OneSocket
<1>11. Shape'
  <2>1. \A j \in 1 .. Len(socks) : j \in Threads
    BY SocketTypes DEF BaseInv
  <2>2. call[c] # Out
    BY DEF Calling, Out, Places
  <2>3. ASSUME NEW j \in 1 .. Len(socks')
        PROVE  Len(socks'[j].got) <= 1 /\ (socks'[j].got # <<>> => call'[j] = Out)
    <3>1. CASE j \in 1 .. Len(socks)
      BY <1>4, <2>1, <2>2, <3>1 DEF BaseInv, Shape
    <3>2. CASE j \notin 1 .. Len(socks)
      <4>1. socks'[j].got = <<>> /\ Len(<<>>) = 0
        BY <1>1, <3>2
      <4> QED
        BY <4>1
    <3> QED
      BY <3>1, <3>2
  <2> QED
    BY <1>2, <2>3 DEF BaseInv, Shape
<1> QED
  BY <1>6, <1>9, <1>10, <1>11 DEF BaseInv

\* emplace writes a free entry only.
LEMMA EmplaceEffect ==
  ASSUME NEW n \in Nat, NEW map \in [Tokens -> 0 .. n], NEW t \in Tokens, NEW x \in 0 .. n
  PROVE  /\ Emplace(map, t, x) \in [Tokens -> 0 .. n]
         /\ \A u \in Tokens : u # t => Emplace(map, t, x)[u] = map[u]
         /\ Emplace(map, t, x)[t] = IF map[t] = 0 THEN x ELSE map[t]
BY DEF Emplace

\* Where a thread in SendMsg stands.
LEMMA Standing ==
  ASSUME BaseInv, NEW c \in Threads, Calling(c)
  PROVE  /\ call[c].host \in Hosts /\ call[c].msg.dst \in Tokens
         /\ Len(socks) \in Nat /\ Len(socks) <= MaxSocks /\ socks \in Seq(Sockrecs)
         /\ token2sock \in [Hosts -> [Tokens -> 0 .. Len(socks)]]
         /\ (1 .. Len(socks)) \ (1 .. Len(socks)) = {}
BY CallTypes, LenProperties DEF BaseInv, Shape

\* The sockets stay as they are.
LEMMA MapKeeps ==
  ASSUME BaseInv, NEW c \in Threads, Calling(c), NEW place \in Beyond, NEW s,
         s \in 0 .. Len(socks), place \in {"emplace", "push"} <=> s # 0, Goto(c, place, s),
         token2sock' \in [Hosts -> [Tokens -> 0 .. Len(socks)]],
         \A h \in Hosts, t \in Tokens :
           (h # call[c].host \/ t # call[c].msg.dst) => token2sock'[h][t] = token2sock[h][t],
         token2sock'[call[c].host][call[c].msg.dst] = IF place = "push" THEN s ELSE 0,
         token2sock[call[c].host][call[c].msg.dst]
           \in {0, token2sock'[call[c].host][call[c].msg.dst]},
         s # 0 => /\ socks[s].host = call[c].host
                  /\ socks[s].to = Token2Ip[call[c].host][call[c].msg.dst],
         UNCHANGED <<mem, reads, puts, token2callback, socks, fate>>
  PROVE  BaseInv'
<1>1. /\ Len(socks) \in Nat /\ Len(socks) <= MaxSocks /\ socks \in Seq(Sockrecs)
      /\ (1 .. Len(socks)) \ (1 .. Len(socks)) = {}
  BY Standing
<1>2. socks' = socks /\ UNCHANGED <<mem, reads, puts, token2callback, fate>>
  OBVIOUS
<1>3. /\ socks' \in Seq(Sockrecs) /\ Len(socks) <= Len(socks') /\ Len(socks') <= MaxSocks
      /\ s \in 0 .. Len(socks') /\ token2sock' \in [Hosts -> [Tokens -> 0 .. Len(socks')]]
      /\ \A i \in 1 .. Len(socks) : socks'[i] = socks[i]
      /\ (1 .. Len(socks')) \ (1 .. Len(socks)) = {}
      /\ s # 0 => /\ socks'[s].host = call[c].host
                  /\ socks'[s].to = Token2Ip[call[c].host][call[c].msg.dst]
  BY <1>1, <1>2
<1>4. \A i \in (1 .. Len(socks')) \ (1 .. Len(socks)) :
        InFlight(i)' = {} /\ Apart(socks'[i]) /\ socks'[i].got = <<>>
  BY ONLY <1>3
<1> QED
  BY <1>2, <1>3, <1>4, SearchKeeps

LEMMA FindBase ==
  ASSUME BaseInv, NEW c \in Threads, FindSocket(c)
  PROVE  BaseInv'
<1> DEFINE h == call[c].host
           t == call[c].msg.dst
           s == token2sock[h][t]
           place == IF s # 0 THEN "push" ELSE "search"
<1>1. /\ Calling(c) /\ Goto(c, place, s)
      /\ UNCHANGED <<mem, reads, puts, token2callback, token2sock, socks, fate>>
  BY DEF FindSocket, Calling, Places, memVars, sockVars
<1>2. /\ h \in Hosts /\ t \in Tokens /\ Len(socks) \in Nat /\ s \in 0 .. Len(socks)
      /\ token2sock \in [Hosts -> [Tokens -> 0 .. Len(socks)]]
  BY <1>1, Standing
<1>3. /\ place \in Beyond /\ (place \in {"emplace", "push"} <=> s # 0)
      /\ s = IF place = "push" THEN s ELSE 0
  BY DEF Beyond
<1>4. s # 0 => socks[s].host = h /\ socks[s].to = Token2Ip[h][t]
  BY <1>2 DEF BaseInv, SocketsMatch
<1>5. /\ token2sock' = token2sock /\ UNCHANGED <<mem, reads, puts, token2callback, socks, fate>>
      /\ token2sock' \in [Hosts -> [Tokens -> 0 .. Len(socks)]]
      /\ token2sock'[h][t] = IF place = "push" THEN s ELSE 0
      /\ token2sock[h][t] \in {0, token2sock'[h][t]}
  BY <1>1, <1>2, <1>3
<1> HIDE DEF place
<1> QED
  BY <1>1, <1>2, <1>3, <1>4, <1>5, MapKeeps

LEMMA SearchBase ==
  ASSUME BaseInv, NEW c \in Threads, SearchSockets(c)
  PROVE  BaseInv'
<1> DEFINE h == call[c].host
           t == call[c].msg.dst
<1>1. /\ Calling(c) /\ call[c].at = "search"
      /\ UNCHANGED <<mem, reads, puts, token2callback, token2sock, socks, fate>>
  BY DEF SearchSockets, Calling, Places, memVars, sockVars
<1>2. /\ h \in Hosts /\ t \in Tokens /\ Len(socks) \in Nat
      /\ token2sock \in [Hosts -> [Tokens -> 0 .. Len(socks)]]
  BY <1>1, Standing
<1>3. token2sock[h][t] = 0
  BY <1>1 DEF BaseInv, OneSocket, Beyond
<1>4. PICK place \in {"open", "emplace"}, s \in 0 .. Len(socks) :
        /\ Goto(c, place, s) /\ (place = "emplace" <=> s # 0)
        /\ s # 0 => socks[s].host = h /\ socks[s].to = Token2Ip[h][t]
  <2>1. CASE Goto(c, "open", 0)
    BY <1>2, <2>1
  <2>2. CASE \E s \in SocketsTo(h, Token2Ip[h][t]) : Goto(c, "emplace", s)
    <3>1. PICK s \in SocketsTo(h, Token2Ip[h][t]) : Goto(c, "emplace", s)
      BY <2>2
    <3>2. PICK u \in Tokens : token2sock[h][u] = s /\ s # 0
      BY <1>2, <3>1 DEF SocketsTo, Range
    <3>3. s \in 0 .. Len(socks) /\ socks[s].host = h /\ socks[s].to = Token2Ip[h][t]
      BY <1>2, <3>1, <3>2 DEF SocketsTo, BaseInv, SocketsMatch
    <3> QED
      BY <3>1, <3>2, <3>3
  <2> QED
    BY <2>1, <2>2 DEF SearchSockets
<1>5. /\ place \in Beyond /\ (place \in {"emplace", "push"} <=> s # 0)
      /\ place # "push"
  BY <1>4 DEF Beyond
<1>6. /\ token2sock' = token2sock /\ UNCHANGED <<mem, reads, puts, token2callback, socks, fate>>
      /\ token2sock' \in [Hosts -> [Tokens -> 0 .. Len(socks)]]
      /\ token2sock'[h][t] = IF place = "push" THEN s ELSE 0
      /\ token2sock[h][t] \in {0, token2sock'[h][t]}
  BY <1>1, <1>2, <1>3, <1>5
<1> QED
  BY <1>1, <1>2, <1>4, <1>5, <1>6, MapKeeps

\* A free entry of token2sock_ is written.
LEMMA MapEffect ==
  ASSUME NEW n \in Nat, NEW m \in [Hosts -> [Tokens -> 0 .. n]],
         NEW h \in Hosts, NEW t \in Tokens, NEW s \in 0 .. n, m[h][t] = 0
  PROVE  LET new == [m EXCEPT ![h] = Emplace(@, t, s)] IN
           /\ new \in [Hosts -> [Tokens -> 0 .. n]]
           /\ new[h][t] = s
           /\ \A g \in Hosts, k \in Tokens : (g # h \/ k # t) => new[g][k] = m[g][k]
<1> DEFINE map == Emplace(m[h], t, s)
<1>1. m[h] \in [Tokens -> 0 .. n]
  OBVIOUS
<1>2. /\ map \in [Tokens -> 0 .. n] /\ map[t] = s
      /\ \A k \in Tokens : k # t => map[k] = m[h][k]
  BY <1>1, EmplaceEffect
<1>3. [m EXCEPT ![h] = Emplace(@, t, s)] = [m EXCEPT ![h] = map]
  OBVIOUS
<1> HIDE DEF map
<1> QED
  BY <1>2, <1>3

LEMMA EmplaceBase ==
  ASSUME BaseInv, NEW c \in Threads, EmplaceSocket(c)
  PROVE  BaseInv'
<1> DEFINE h == call[c].host
           t == call[c].msg.dst
           s == call[c].sock
<1>1. /\ Calling(c) /\ call[c].at = "emplace" /\ Goto(c, "push", s)
      /\ token2sock' = [token2sock EXCEPT ![h] = Emplace(@, t, s)]
      /\ UNCHANGED <<mem, reads, puts, token2callback, socks, fate>>
  BY DEF EmplaceSocket, Calling, Places, memVars
<1>2. /\ h \in Hosts /\ t \in Tokens /\ Len(socks) \in Nat
      /\ token2sock \in [Hosts -> [Tokens -> 0 .. Len(socks)]]
  BY <1>1, Standing
<1>3. /\ token2sock[h][t] = 0 /\ s # 0 /\ s \in 0 .. Len(socks)
      /\ socks[s].host = h /\ socks[s].to = Token2Ip[h][t]
  <2>1. token2sock[h][t] = 0
    BY <1>1 DEF BaseInv, OneSocket, Beyond
  <2> QED
    BY <1>1, <1>2, <2>1, LeadsHere DEF Leads
<1> HIDE DEF h, t, s
<1>4. /\ token2sock' \in [Hosts -> [Tokens -> 0 .. Len(socks)]] /\ token2sock'[h][t] = s
      /\ \A g \in Hosts, k \in Tokens : (g # h \/ k # t) => token2sock'[g][k] = token2sock[g][k]
  <2> DEFINE n == Len(socks)
  <2>1. /\ n \in Nat /\ s \in 0 .. n /\ token2sock[h][t] = 0 /\ h \in Hosts /\ t \in Tokens
        /\ token2sock \in [Hosts -> [Tokens -> 0 .. n]]
        /\ token2sock' = [token2sock EXCEPT ![h] = Emplace(@, t, s)]
    BY <1>1, <1>2, <1>3
  <2> HIDE DEF n
  <2>2. /\ token2sock' \in [Hosts -> [Tokens -> 0 .. n]]
        /\ token2sock'[h][t] = s
        /\ \A g \in Hosts, k \in Tokens : (g # h \/ k # t) => token2sock'[g][k] = token2sock[g][k]
    BY ONLY <2>1, MapEffect
  <2> QED
    BY <2>2 DEF n
<1>5. "push" \in Beyond /\ ("push" \in {"emplace", "push"} <=> s # 0)
  BY <1>3 DEF Beyond
<1> USE DEF h, t
<1> QED
  BY <1>1, <1>2, <1>3, <1>4, <1>5, MapKeeps

LEMMA OpenBase ==
  ASSUME BaseInv, NEW c \in Threads, OpenSocket(c)
  PROVE  BaseInv'
<1> DEFINE h == call[c].host
           t == call[c].msg.dst
           n == Len(socks)
           new == [host |-> h, to |-> Token2Ip[h][t],
                   queue |-> <<>>, wire |-> <<>>, got |-> <<>>]
<1>1. /\ Calling(c) /\ h \in Hosts /\ t \in Tokens /\ n \in Nat /\ n < MaxSocks
      /\ MaxSocks \in Nat
      /\ token2sock \in [Hosts -> [Tokens -> 0 .. n]] /\ token2sock[h][t] = 0
      /\ UNCHANGED <<mem, reads, puts, token2callback, fate>>
  <2>1. Calling(c) /\ UNCHANGED <<mem, reads, puts, token2callback, fate>> /\ n < MaxSocks
        /\ call[c].at = "open"
    BY DEF OpenSocket, Calling, Places, memVars
  <2> QED
    BY <2>1, CallTypes, LenProperties, DeviceAssumption DEF BaseInv, Shape, OneSocket, Beyond
<1>2. /\ new \in Sockrecs /\ new.host = h /\ new.to = Token2Ip[h][t]
      /\ Apart(new) /\ new.got = <<>>
      /\ Range(new.queue) \cup Range(new.wire) \cup Range(new.got) = {}
  <2>1. Token2Ip[h][t] \in Hosts
    BY <1>1, DeviceAssumption
  <2> QED
    BY <1>1, <2>1, ShortLines DEF Sockrecs, Apart
<1>3. /\ socks' = Append(socks, new)
      /\ token2sock' = [token2sock EXCEPT ![h] = Emplace(@, t, Len(socks'))]
      /\ Goto(c, "push", Len(socks'))
  BY DEF OpenSocket
<1> HIDE DEF new
<1>4. /\ socks' \in Seq(Sockrecs) /\ Len(socks') = n + 1
      /\ \A i \in 1 .. n : socks'[i] = socks[i]
      /\ socks'[n + 1] = new
  BY <1>2, <1>3, AppendProperties DEF BaseInv, Shape
<1>8. /\ token2sock' \in [Hosts -> [Tokens -> 0 .. n + 1]]
      /\ token2sock'[h][t] = n + 1
      /\ \A g \in Hosts, k \in Tokens : (g # h \/ k # t) => token2sock'[g][k] = token2sock[g][k]
  <2> DEFINE p == n + 1
  <2>1. /\ p \in Nat /\ p \in 0 .. p /\ token2sock[h][t] = 0 /\ h \in Hosts /\ t \in Tokens
        /\ token2sock \in [Hosts -> [Tokens -> 0 .. p]]
        /\ token2sock' = [token2sock EXCEPT ![h] = Emplace(@, t, p)]
    BY <1>1, <1>3, <1>4
  <2> HIDE DEF n, t, h, p
  <2>2. /\ token2sock' \in [Hosts -> [Tokens -> 0 .. p]]
        /\ token2sock'[h][t] = p
        /\ \A g \in Hosts, k \in Tokens : (g # h \/ k # t) => token2sock'[g][k] = token2sock[g][k]
    BY ONLY <2>1, MapEffect
  <2> QED
    BY <2>2 DEF p
<1>9. \A i \in (1 .. Len(socks')) \ (1 .. n) :
        InFlight(i)' = {} /\ Apart(socks'[i]) /\ socks'[i].got = <<>>
  <2> SUFFICES ASSUME NEW i \in (1 .. Len(socks')) \ (1 .. n)
               PROVE  InFlight(i)' = {} /\ Apart(socks'[i]) /\ socks'[i].got = <<>>
    OBVIOUS
  <2>1. i = n + 1
    <3> HIDE DEF n
    <3> QED
      BY <1>1, <1>4
  <2>2. socks'[i] = new
    BY <1>4, <2>1
  <2>3. InFlight(i)' = Range(socks'[i].queue) \cup Range(socks'[i].wire)
                         \cup Range(socks'[i].got)
    BY DEF InFlight
  <2> QED
    BY <1>2, <2>2, <2>3
<1>10. n + 1 \in 0 .. Len(socks') /\ n + 1 # 0 /\ n <= Len(socks') /\ Len(socks') <= MaxSocks
  BY <1>1, <1>4
<1>11. Goto(c, "push", n + 1)
  BY <1>3, <1>4
<1>12. /\ token2sock' \in [Hosts -> [Tokens -> 0 .. Len(socks')]]
       /\ token2sock[h][t] \in {0, token2sock'[h][t]}
       /\ socks'[n + 1].host = h /\ socks'[n + 1].to = Token2Ip[h][t]
       /\ "push" \in Beyond /\ "push" \in {"emplace", "push"}
  BY <1>1, <1>2, <1>4, <1>8 DEF Beyond
<1> QED
  BY ONLY BaseInv, <1>1, <1>4, <1>8, <1>9, <1>10, <1>11, <1>12, SearchKeeps

LEMMA EraseBase ==
  ASSUME BaseInv, NEW i \in Sockets, EraseCallback(i)
  PROVE  BaseInv'
<1>1. /\ i \in Threads /\ call[i].at = "erase" /\ call[i].token \in Tokens
      /\ UNCHANGED <<mem, reads, puts, token2sock, socks, fate>>
      /\ call' = [call EXCEPT ![i] = Out]
  BY CallTypes DEF BaseInv, EraseCallback, Threads, memVars, sockVars
<1>2. /\ call'[i] = Out /\ \A d \in Threads : d # i => call'[d] = call[d]
      /\ call' \in [Threads -> CallStates(Len(socks))]
  BY <1>1 DEF BaseInv, Shape, CallStates
<1>3. \A d \in Threads : Calling(d)' => Calling(d) /\ call'[d] = call[d]
  BY <1>2 DEF Calling, Out, Places
<1>4. token2callback' \in [Tokens -> 0 .. Len(reads)]
  BY <1>1, LenProperties DEF BaseInv, Shape, EraseCallback
<1>5. \A j \in 1 .. Len(socks) : socks[j].got # <<>> => call'[j] = Out
  BY <1>2, SocketTypes DEF BaseInv, Shape
<1>6. Shape'
  BY <1>1, <1>2, <1>4, <1>5 DEF BaseInv, Shape
<1>7. SocketsMatch' /\ OneMessage'
  <2>1. SocketsMatch'
    BY <1>1 DEF BaseInv, SocketsMatch
  <2>2. ASSUME NEW d \in Threads, Calling(d)'
        PROVE  /\ \A j \in 1 .. Len(socks) : call'[d].msg.dst \notin At(socks[j])
               /\ \A e \in Threads : Calling(e)' /\ e # d =>
                    call'[e].msg.dst # call'[d].msg.dst
    <3>1. Calling(d) /\ call'[d] = call[d]
      BY <1>3, <2>2
    <3>2. \A e \in Threads : Calling(e)' /\ e # d =>
            call[e].msg.dst # call[d].msg.dst /\ call'[e] = call[e]
      BY <1>3, <3>1 DEF BaseInv, OneMessage
    <3> QED
      BY <3>1, <3>2 DEF BaseInv, OneMessage
  <2> QED
    BY <1>1, <2>1, <2>2 DEF BaseInv, OneMessage
<1>8. OneSocket'
  <2>1. \A d \in Threads : call'[d].at \in Beyond => call'[d] = call[d]
    BY <1>2 DEF Out, Beyond
  <2>2. \A j \in 1 .. Len(socks) : InFlight(j)' = InFlight(j)
    BY <1>1 DEF InFlight
  <2> QED
    BY <1>1, <2>1, <2>2 DEF BaseInv, OneSocket, Leads, Beyond
<1> QED
  BY <1>6, <1>7, <1>8 DEF BaseInv

\* ParseNetMsg of a message.
LEMMA ParseReadBase ==
  ASSUME BaseInv, NEW i \in 1 .. Len(socks), ParseRead(i)
  PROVE  BaseInv'
<1> DEFINE m == Head(socks[i].got)
           h == socks[i].to
           reply == [kind |-> "data", src |-> m.src, dst |-> m.dst, val |-> 0]
           v == [at |-> "find", host |-> h, msg |-> reply, sock |-> 0]
<1>1. /\ socks[i].got # <<>> /\ socks' = [socks EXCEPT ![i].got = <<>>]
      /\ UNCHANGED <<mem, reads, puts, token2callback, token2sock>>
      /\ \/ SendMsg(i, h, reply) /\ fate' = fate
         \/ fate' = "check_failed" /\ call' = call
  BY DEF ParseRead, memVars
<1>2. m \in Messages /\ i \in Threads /\ h \in Hosts /\ call[i] = Out
  BY <1>1, ParseEffect, SocketTypes DEF BaseInv
<1>3. reply \in Messages /\ reply.dst = m.dst
  BY <1>2, DeviceAssumption DEF Messages, Versions
<1>4. fate \in {"running", "check_failed", "no_memory"}
  BY DEF BaseInv, Shape
<1> HIDE DEF m, h, reply
<1>5. CASE SendMsg(i, h, reply) /\ fate' = fate
  <2>1. v \in CallStates(Len(socks)) /\ call' = [call EXCEPT ![i] = v]
    BY <1>2, <1>3, <1>5, SendMsgEffect DEF BaseInv
  <2>2. Holds(v) \subseteq {m.dst} /\ v.at \notin Beyond
    BY <1>3 DEF Holds, Beyond
  <2> HIDE DEF v
  <2>3. Holds(v) \subseteq {Head(socks[i].got).dst}
    BY <2>2 DEF m
  <2> QED
    BY <1>1, <1>4, <1>5, <2>1, <2>2, <2>3, ParseBase
<1>6. CASE fate' = "check_failed" /\ call' = call
  <2>1. call' = [call EXCEPT ![i] = Out] /\ Out \in CallStates(Len(socks))
    BY <1>2, <1>6 DEF BaseInv, Shape, CallStates
  <2>2. Holds(Out) = {} /\ Out.at \notin Beyond
    BY DEF Holds, Out, Places, Beyond
  <2>3. Holds(Out) \subseteq {Head(socks[i].got).dst}
    BY <2>2
  <2> QED
    BY <1>1, <1>6, <2>1, <2>2, <2>3, ParseBase
<1> QED
  BY <1>1, <1>5, <1>6

LEMMA ParseDataBase ==
  ASSUME BaseInv, NEW i \in 1 .. Len(socks), ParseData(i)
  PROVE  BaseInv'
<1> DEFINE m == Head(socks[i].got)
           v == IF token2callback[m.dst] # 0 THEN [at |-> "erase", token |-> m.dst] ELSE Out
<1>1. /\ socks[i].got # <<>> /\ socks' = [socks EXCEPT ![i].got = <<>>]
      /\ UNCHANGED <<mem, reads, puts, token2callback, token2sock, fate>>
      /\ IF token2callback[m.dst] # 0
         THEN call' = [call EXCEPT ![i] = [at |-> "erase", token |-> m.dst]]
         ELSE call' = call
  BY DEF ParseData, memVars
<1>2. m \in Messages /\ i \in Threads /\ call[i] = Out
  BY <1>1, ParseEffect, SocketTypes DEF BaseInv
<1>3. m.dst \in Tokens
  BY <1>2 DEF Messages
<1>4. fate \in {"running", "check_failed", "no_memory"}
  BY DEF BaseInv, Shape
<1> HIDE DEF m
<1>5. v \in CallStates(Len(socks)) /\ v.at \notin Places /\ v.at \notin Beyond
  BY <1>3 DEF CallStates, Out, Places, Beyond
<1>6. call' = [call EXCEPT ![i] = v]
  BY <1>1, <1>2 DEF BaseInv, Shape
<1> HIDE DEF v
<1>7. Holds(v) \subseteq {Head(socks[i].got).dst}
  BY <1>5 DEF Holds
<1> QED
  BY <1>1, <1>4, <1>5, <1>6, <1>7, ParseBase
-----------------------------------------------------------------------------
(* Every step. *)

\* PollCompletionQueue and CloseCompletionQueue keep to the queue.
LEMMA QueueStep ==
  ASSUME CloseCompletionQueue \/ \E p \in Pollers : PollCompletionQueue(p)
  PROVE  UNCHANGED <<memVars, token2callback, sockVars, call, fate>>
BY DEF CloseCompletionQueue, PollCompletionQueue, PollTake, PollBlock, RunCallback,
       PollReturn, pollVars

LEMMA UnchangedBase ==
  ASSUME BaseInv, UNCHANGED <<memVars, token2callback, sockVars, call, fate>>
  PROVE  BaseInv'
<1>1. UNCHANGED <<mem, reads, puts, token2callback, token2sock, socks, call, fate>>
  BY DEF memVars, sockVars
<1>2. Shape' /\ SocketsMatch'
  BY <1>1 DEF BaseInv, Shape, SocketsMatch
<1>3. OneMessage'
  BY <1>1 DEF BaseInv, OneMessage, Calling
<1>4. OneSocket'
  BY <1>1 DEF BaseInv, OneSocket, InFlight, Leads
<1> QED
  BY <1>2, <1>3, <1>4 DEF BaseInv

LEMMA WriteBase ==
  ASSUME BaseInv, NEW t \in Tokens, WriteMemory(t)
  PROVE  BaseInv'
<1>1. /\ mem' \in [Tokens -> Versions]
      /\ UNCHANGED <<reads, puts, token2callback, token2sock, socks, call, fate>>
  BY DeviceAssumption DEF BaseInv, Shape, WriteMemory, Versions, sockVars
<1>2. Shape'
  BY <1>1 DEF BaseInv, Shape
<1>3. SocketsMatch' /\ OneMessage'
  BY <1>1 DEF BaseInv, SocketsMatch, OneMessage, Calling
<1>4. OneSocket'
  BY <1>1 DEF BaseInv, OneSocket, InFlight, Leads
<1> QED
  BY <1>2, <1>3, <1>4 DEF BaseInv

LEMMA InitBase ==
  ASSUME Init PROVE BaseInv
<1>1. /\ mem \in [Tokens -> Versions] /\ token2callback \in [Tokens -> 0 .. Len(reads)]
      /\ reads \in Seq([token : Tokens, since : Versions, kept : BOOLEAN])
      /\ Len(reads) = 0 /\ Len(socks) = 0 /\ puts = 0
      /\ token2sock \in [Hosts -> [Tokens -> 0 .. Len(socks)]]
      /\ socks \in Seq(Sockrecs) /\ fate = "running"
      /\ MaxReads \in Nat /\ MaxPuts \in Nat /\ MaxSocks \in Nat
  BY DeviceAssumption DEF Init, Versions
<1>2. call \in [Threads -> CallStates(Len(socks))] /\ \A c \in Threads : call[c].at = "out"
  BY DEF Init, CallStates, Out
<1>3. \A h \in Hosts, t \in Tokens : token2sock[h][t] = 0
  BY DEF Init
<1>4. 1 .. Len(socks) = {}
  BY <1>1
<1>5. Shape
  BY <1>1, <1>2, <1>4 DEF Shape
<1>6. SocketsMatch /\ OneMessage /\ OneSocket
  BY <1>2, <1>3, <1>4 DEF SocketsMatch, OneMessage, OneSocket, Calling, Places, Beyond
<1> QED
  BY <1>5, <1>6 DEF BaseInv

LEMMA SendingBase ==
  ASSUME BaseInv, NEW c \in Threads, Sending(c)
  PROVE  BaseInv'
BY FindBase, SearchBase, EmplaceBase, OpenBase, PushBase DEF Sending

LEMMA NextBase ==
  ASSUME BaseInv, [Next]_vars
  PROVE  BaseInv'
<1>1. DOMAIN socks = 1 .. Len(socks)
  BY LenProperties DEF BaseInv, Shape
<1>2. ASSUME NEW u \in Users, User(u) \/ Sending(u) PROVE BaseInv'
  <2>1. u \in Threads
    BY DEF Threads
  <2> QED
    BY <1>2, <2>1, ReadDataBase, SendDataBase, SendingBase DEF User
<1>3. ASSUME NEW t \in {rd[2] : rd \in Reads}, WriteMemory(t) PROVE BaseInv'
  <2>1. t \in Tokens
    BY DeviceAssumption
  <2> QED
    BY <1>3, <2>1, WriteBase
<1>4. ASSUME NEW i \in DOMAIN socks, Transmit(i) PROVE BaseInv'
  BY <1>1, <1>4, TransmitBase
<1>5. ASSUME NEW i \in Sockets, Worker(i) PROVE BaseInv'
  <2>1. i \in Threads
    BY DEF Threads
  <2>2. CASE i \in DOMAIN socks /\ (Receive(i) \/ ParseRead(i) \/ ParseData(i))
    BY <1>1, <2>2, ReceiveBase, ParseReadBase, ParseDataBase
  <2>3. CASE EraseCallback(i)
    BY <2>3, EraseBase
  <2>4. CASE Sending(i)
    BY <2>1, <2>4, SendingBase
  <2> QED
    BY <1>5, <2>2, <2>3, <2>4 DEF Worker
<1>6. CASE CloseCompletionQueue \/ \E p \in Pollers : PollCompletionQueue(p)
  BY <1>6, QueueStep, UnchangedBase
<1>7. CASE UNCHANGED vars
  <2>1. UNCHANGED <<memVars, token2callback, sockVars, call, fate>>
    BY <1>7 DEF vars
  <2> QED
    BY <2>1, UnchangedBase
<1> QED
  BY <1>2, <1>3, <1>4, <1>5, <1>6, <1>7 DEF Next

(***************************************************************************)
(* Whatever the tokens are and whoever sends, BaseInv holds: a token that  *)
(* is a destination once at a time has one message, which rides on the     *)
(* socket that its host's token2sock_ has for the token.                   *)
(***************************************************************************)
THEOREM BaseInvariance == Spec => []BaseInv
<1>1. Init => BaseInv
  BY InitBase
<1>2. BaseInv /\ [Next]_vars => BaseInv'
  BY NextBase
<1> QED
  BY <1>1, <1>2, PTL DEF Spec

(***************************************************************************)
(* SendMsg's map leads every token to a socket of its host that is         *)
(* connected with the address Token2Ip gives, though threads search and    *)
(* emplace without a lock between each other's accesses.                   *)
(***************************************************************************)
THEOREM TokensMatch == Spec => []SocketsMatch
<1>1. BaseInv => SocketsMatch
  BY DEF BaseInv
<1> QED
  BY <1>1, BaseInvariance, PTL
-----------------------------------------------------------------------------
(* What a step does with the messages. *)

FlightOf(sk) == Range(sk.queue) \cup Range(sk.wire) \cup Range(sk.got)

LEMMA FlightsBecome ==
  ASSUME NEW i \in 1 .. Len(socks), NEW sk, Becomes(i, sk)
  PROVE  /\ Len(socks') = Len(socks)
         /\ InFlight(i)' = FlightOf(sk) /\ socks'[i].host = socks[i].host
         /\ socks'[i].to = socks[i].to
         /\ \A j \in 1 .. Len(socks) : j # i => socks'[j] = socks[j]
                                                /\ InFlight(j)' = InFlight(j)
BY DEF Becomes, InFlight, FlightOf

\* A step of SendMsg before it pushes the message.
Seeking(c) == FindSocket(c) \/ SearchSockets(c) \/ EmplaceSocket(c) \/ OpenSocket(c)

\* Thread c looks for a socket, maps one, or opens one; nothing is sent yet.
LEMMA SearchEffect ==
  ASSUME BaseInv, NEW c \in Threads, Seeking(c)
  PROVE  /\ Calling(c)
         /\ \E v : /\ call' = [call EXCEPT ![c] = v]
                   /\ v.at \in Places /\ v.host = call[c].host /\ v.msg = call[c].msg
         /\ Len(socks) <= Len(socks') /\ Len(socks') \in Nat
         /\ \A i \in 1 .. Len(socks) : socks'[i] = socks[i]
         /\ \A i \in (1 .. Len(socks')) \ (1 .. Len(socks)) : InFlight(i)' = {}
         /\ \A h \in Hosts, t \in Tokens :
              token2sock[h][t] # 0 => token2sock'[h][t] = token2sock[h][t]
         /\ UNCHANGED <<channelVars, memVars, token2callback, pollVars, fate>>
<1> DEFINE h == call[c].host
           t == call[c].msg.dst
<1> USE DEF Seeking
<1>1. /\ Calling(c) /\ h \in Hosts /\ t \in Tokens /\ Len(socks) \in Nat
      /\ token2sock \in [Hosts -> [Tokens -> 0 .. Len(socks)]]
  <2>1. Calling(c)
    BY DEF FindSocket, SearchSockets, EmplaceSocket, OpenSocket, Calling, Places
  <2> QED
    BY <2>1, Standing
<1>2. UNCHANGED <<channelVars, memVars, token2callback, pollVars, fate>>
  BY DEF FindSocket, SearchSockets, EmplaceSocket, OpenSocket
<1>3. \E place \in Places, n \in Nat : \E s \in 0 .. n : Len(socks) <= n /\ Goto(c, place, s)
  <2>1. CASE \E place \in Places : \E s \in 0 .. Len(socks) : Goto(c, place, s)
    BY <1>1, <2>1
  <2>2. CASE FindSocket(c)
    <3> DEFINE place == IF token2sock[h][t] # 0 THEN "push" ELSE "search"
    <3>1. token2sock[h][t] \in 0 .. Len(socks) /\ place \in Places
      BY <1>1 DEF Places
    <3>2. Goto(c, place, token2sock[h][t])
      BY <2>2 DEF FindSocket
    <3> QED
      BY <2>1, <3>1, <3>2
  <2>3. CASE SearchSockets(c)
    <3>1. \A s \in SocketsTo(h, Token2Ip[h][t]) : s \in 0 .. Len(socks)
      BY <1>1 DEF SocketsTo, Range
    <3>2. 0 \in 0 .. Len(socks) /\ "open" \in Places /\ "emplace" \in Places
      BY <1>1 DEF Places
    <3> QED
      BY <2>1, <2>3, <3>1, <3>2 DEF SearchSockets
  <2>4. CASE EmplaceSocket(c)
    <3>1. call[c].sock \in 0 .. Len(socks) /\ "push" \in Places
      BY <1>1, CallTypes DEF BaseInv, Places
    <3> QED
      BY <2>1, <2>4, <3>1 DEF EmplaceSocket
  <2>5. CASE OpenSocket(c)
    <3>1. Goto(c, "push", Len(socks')) /\ Len(socks') = Len(socks) + 1
      BY <2>5, AppendProperties DEF OpenSocket, BaseInv, Shape
    <3>2. Len(socks') \in Nat /\ Len(socks') \in 0 .. Len(socks') /\ Len(socks) <= Len(socks')
          /\ "push" \in Places
      BY <1>1, <3>1 DEF Places
    <3> QED
      BY <3>1, <3>2
  <2> QED
    BY <2>2, <2>3, <2>4, <2>5
<1>4. \E v : /\ call' = [call EXCEPT ![c] = v]
             /\ v.at \in Places /\ v.host = call[c].host /\ v.msg = call[c].msg
  <2>1. PICK place \in Places, n \in Nat : \E s \in 0 .. n : Len(socks) <= n /\ Goto(c, place, s)
    BY <1>3
  <2>2. PICK s \in 0 .. n : Len(socks) <= n /\ Goto(c, place, s)
    BY <2>1
  <2> DEFINE v == [at |-> place, host |-> call[c].host, msg |-> call[c].msg, sock |-> s]
  <2>3. call' = [call EXCEPT ![c] = v]
    BY <1>1, <2>2, GotoEffect DEF BaseInv
  <2>4. v.at \in Places /\ v.host = call[c].host /\ v.msg = call[c].msg
    OBVIOUS
  <2> HIDE DEF v
  <2> QED
    BY <2>3, <2>4
<1>5. /\ Len(socks) <= Len(socks') /\ Len(socks') \in Nat
      /\ \A i \in 1 .. Len(socks) : socks'[i] = socks[i]
      /\ \A i \in (1 .. Len(socks')) \ (1 .. Len(socks)) : InFlight(i)' = {}
  <2>1. CASE FindSocket(c) \/ SearchSockets(c) \/ EmplaceSocket(c)
    <3>1. socks' = socks
      BY <2>1 DEF FindSocket, SearchSockets, EmplaceSocket, sockVars
    <3> QED
      BY <1>1, <3>1
  <2>2. CASE OpenSocket(c)
    <3> DEFINE new == [host |-> h, to |-> Token2Ip[h][t],
                       queue |-> <<>>, wire |-> <<>>, got |-> <<>>]
    <3>1. socks' = Append(socks, new) /\ socks \in Seq(Sockrecs) /\ FlightOf(new) = {}
      BY <2>2, ShortLines DEF OpenSocket, BaseInv, Shape, FlightOf
    <3> HIDE DEF new
    <3>2. /\ Len(socks') = Len(socks) + 1 /\ socks'[Len(socks) + 1] = new
          /\ \A i \in 1 .. Len(socks) : socks'[i] = socks[i]
      BY <1>1, <3>1, AppendProperties
    <3>3. ASSUME NEW i \in (1 .. Len(socks')) \ (1 .. Len(socks)) PROVE InFlight(i)' = {}
      <4>1. i = Len(socks) + 1
        BY <1>1, <3>2
      <4> QED
        BY <3>1, <3>2, <4>1 DEF InFlight, FlightOf
    <3> QED
      BY <1>1, <3>2, <3>3
  <2> QED
    BY <2>1, <2>2
<1>6. ASSUME NEW g \in Hosts, NEW k \in Tokens, token2sock[g][k] # 0
      PROVE  token2sock'[g][k] = token2sock[g][k]
  <2>1. \/ token2sock' = token2sock
        \/ \E s : token2sock' = [token2sock EXCEPT ![h] = Emplace(@, t, s)]
    BY DEF FindSocket, SearchSockets, EmplaceSocket, OpenSocket, sockVars
  <2>2. ASSUME NEW s, token2sock' = [token2sock EXCEPT ![h] = Emplace(@, t, s)]
        PROVE  token2sock'[g][k] = token2sock[g][k]
    <3>1. token2sock'[g] = IF g = h THEN Emplace(token2sock[h], t, s) ELSE token2sock[g]
      BY <1>1, <2>2
    <3>2. token2sock[h] \in [Tokens -> 0 .. Len(socks)]
      BY <1>1
    <3>3. token2sock[h][k] # 0 => Emplace(token2sock[h], t, s)[k] = token2sock[h][k]
      BY <1>1, <3>2 DEF Emplace
    <3> QED
      BY <1>6, <3>1, <3>3
  <2> QED
    BY <2>1, <2>2
<1> QED
  BY <1>1, <1>2, <1>4, <1>5, <1>6
-----------------------------------------------------------------------------
(* Every message finds its host. *)

\* Host h may have sent m.
SentBy(h, m) ==
  \/ m.kind = "read" /\ <<m.dst, m.src>> \in Reads /\ h = Home[m.dst]
  \/ /\ m.kind = "data" /\ h = Home[m.src]
     /\ <<m.dst, m.src>> \in Reads \/ <<m.src, m.dst>> \in Puts

MessagesRouted ==
  /\ \A i \in 1 .. Len(socks) : \A m \in InFlight(i) : SentBy(socks[i].host, m)
  /\ \A c \in Threads : Calling(c) => SentBy(call[c].host, call[c].msg)

RoutedInv == BaseInv /\ MessagesRouted /\ NoCheckFails

\* Messages stay where they are or move on, and thread c goes where it may.
LEMMA RoutedKeeps ==
  ASSUME Shape, MessagesRouted,
         NEW c \in Threads, NEW v, call' = [call EXCEPT ![c] = v],
         v.at \in Places => SentBy(v.host, v.msg),
         \A j \in 1 .. Len(socks') : \A m \in InFlight(j)' : SentBy(socks'[j].host, m)
  PROVE  MessagesRouted'
<1>1. call'[c] = v /\ \A d \in Threads : d # c => call'[d] = call[d]
  BY DEF Shape
<1>2. ASSUME NEW d \in Threads, Calling(d)' PROVE SentBy(call'[d].host, call'[d].msg)
  BY <1>1, <1>2 DEF MessagesRouted, Calling
<1> QED
  BY <1>2 DEF MessagesRouted

LEMMA FlightsRouted ==
  ASSUME MessagesRouted, NEW i \in 1 .. Len(socks), NEW sk, Becomes(i, sk),
         \A m \in FlightOf(sk) : SentBy(socks[i].host, m)
  PROVE  \A j \in 1 .. Len(socks') : \A m \in InFlight(j)' : SentBy(socks'[j].host, m)
<1> SUFFICES ASSUME NEW j \in 1 .. Len(socks'), NEW m \in InFlight(j)'
             PROVE  SentBy(socks'[j].host, m)
  OBVIOUS
<1>1. /\ Len(socks') = Len(socks) /\ socks'[i].host = socks[i].host
      /\ InFlight(i)' = FlightOf(sk)
      /\ j # i => InFlight(j)' = InFlight(j) /\ socks'[j] = socks[j]
  BY FlightsBecome
<1>2. CASE j = i
  BY <1>1, <1>2
<1>3. CASE j # i
  BY <1>1, <1>3 DEF MessagesRouted
<1> QED
  BY <1>2, <1>3

\* Where a message is when it has come to its host: socks[i].to.
LEMMA Arrives ==
  ASSUME Routed, BaseInv, MessagesRouted, NEW i \in 1 .. Len(socks), NEW m \in InFlight(i)
  PROVE  /\ SentBy(socks[i].host, m) /\ m \in Messages
         /\ m.kind = "read" => /\ socks[i].to = Home[m.src]
                               /\ <<m.dst, m.src>> \in Reads
         /\ m.kind = "data" => socks[i].to = Home[m.dst]
<1>1. SentBy(socks[i].host, m)
  BY DEF MessagesRouted
<1>2. m \in Messages /\ socks[i].host \in Hosts /\ i # 0 /\ Len(socks) \in Nat
  BY FlightTypes, SocketTypes DEF BaseInv
<1>3. token2sock[socks[i].host][m.dst] = i
  BY DEF BaseInv, OneSocket
<1>4. socks[i].to = Token2Ip[socks[i].host][m.dst]
  BY <1>2, <1>3 DEF BaseInv, SocketsMatch, Messages
<1> QED
  BY <1>1, <1>2, <1>4 DEF SentBy, Routed, Messages

LEMMA TransmitRouted ==
  ASSUME RoutedInv, NEW i \in 1 .. Len(socks), Transmit(i)
  PROVE  MessagesRouted' /\ fate' = fate
<1> DEFINE old == socks[i]
<1>1. PICK m \in Messages, v \in Versions :
        /\ m = Head(old.queue) /\ m \in Range(old.queue)
        /\ m.kind = "data" => v = mem[m.src]
        /\ Becomes(i, [host |-> old.host, to |-> old.to, queue |-> Tail(old.queue),
                       wire |-> Append(old.wire, [kind |-> m.kind, src |-> m.src,
                                                  dst |-> m.dst, val |-> v]),
                       got |-> old.got])
  BY TransmitEffect DEF RoutedInv, BaseInv
<1> DEFINE sent == [kind |-> m.kind, src |-> m.src, dst |-> m.dst, val |-> v]
           sk == [host |-> old.host, to |-> old.to, queue |-> Tail(old.queue),
                  wire |-> Append(old.wire, sent), got |-> old.got]
<1>2. /\ i \in Threads /\ old.queue # <<>>
      /\ old.queue \in Seq(Messages) /\ old.wire \in Seq(Messages)
  BY SocketTypes DEF RoutedInv, BaseInv, Transmit
<1>3. sent \in Messages /\ SentBy(old.host, sent)
  <2>1. SentBy(old.host, m)
    BY <1>1 DEF RoutedInv, MessagesRouted, InFlight
  <2> QED
    BY <2>1 DEF Messages, SentBy
<1>4. Becomes(i, sk)
  BY <1>1
<1> HIDE DEF sent
<1>5. FlightOf(sk) \subseteq InFlight(i) \cup {sent}
  <2>1. /\ Range(Append(old.wire, sent)) = Range(old.wire) \cup {sent}
        /\ Range(Tail(old.queue)) \subseteq Range(old.queue)
    BY <1>2, <1>3, AppendLine, TailLine
  <2>2. sk.queue = Tail(old.queue) /\ sk.wire = Append(old.wire, sent) /\ sk.got = old.got
    OBVIOUS
  <2> HIDE DEF sk
  <2> QED
    BY <2>1, <2>2 DEF FlightOf, InFlight
<1> HIDE DEF sk
<1>6. \A n \in FlightOf(sk) : SentBy(socks[i].host, n)
  BY <1>3, <1>5 DEF RoutedInv, MessagesRouted
<1>7. call' = [call EXCEPT ![i] = call[i]] /\ fate' = fate
  BY <1>2 DEF RoutedInv, BaseInv, Shape, Transmit
<1>8. call[i].at \in Places => SentBy(call[i].host, call[i].msg)
  BY <1>2 DEF RoutedInv, MessagesRouted, Calling
<1>9. \A j \in 1 .. Len(socks') : \A n \in InFlight(j)' : SentBy(socks'[j].host, n)
  BY <1>4, <1>6, FlightsRouted DEF RoutedInv
<1> QED
  BY <1>2, <1>7, <1>8, <1>9, RoutedKeeps DEF RoutedInv, BaseInv

\* RecvRaw has a place for the data.
LEMMA ReceiveRouted ==
  ASSUME Routed, RoutedInv, NEW i \in 1 .. Len(socks), Receive(i)
  PROVE  MessagesRouted' /\ fate' = fate
<1> DEFINE old == socks[i]
           m == Head(old.wire)
           sk == [host |-> old.host, to |-> old.to, queue |-> old.queue,
                  wire |-> Tail(old.wire), got |-> <<m>>]
<1>1. m \in Messages /\ m \in Range(old.wire) /\ Becomes(i, sk)
  BY ReceiveEffect DEF RoutedInv, BaseInv
<1>2. /\ i \in Threads /\ old.wire # <<>> /\ old.wire \in Seq(Messages)
  BY SocketTypes DEF RoutedInv, BaseInv, Receive
<1>3. m \in InFlight(i)
  BY <1>1 DEF InFlight
<1> HIDE DEF m
<1>4. FlightOf(sk) \subseteq InFlight(i)
  <2>1. Range(Tail(old.wire)) \subseteq Range(old.wire) /\ Range(<<m>>) = {m}
    BY <1>1, <1>2, TailLine, ShortLines
  <2>2. sk.queue = old.queue /\ sk.wire = Tail(old.wire) /\ sk.got = <<m>>
    OBVIOUS
  <2> HIDE DEF sk
  <2> QED
    BY <1>3, <2>1, <2>2 DEF FlightOf, InFlight
<1> HIDE DEF sk
<1>5. \A n \in FlightOf(sk) : SentBy(socks[i].host, n)
  BY <1>4 DEF RoutedInv, MessagesRouted
<1>6. call' = [call EXCEPT ![i] = Out] /\ Out.at \notin Places
  BY <1>2 DEF RoutedInv, BaseInv, Shape, Receive, Out, Places
<1>7. fate' = fate
  <2>1. m.kind = "read" \/ Home[m.dst] = socks[i].to
    BY <1>1, <1>3, Arrives DEF RoutedInv, Messages
  <2> QED
    BY <2>1 DEF Receive, m
<1>8. \A j \in 1 .. Len(socks') : \A n \in InFlight(j)' : SentBy(socks'[j].host, n)
  BY <1>1, <1>5, FlightsRouted DEF RoutedInv
<1> QED
  BY <1>2, <1>6, <1>7, <1>8, RoutedKeeps DEF RoutedInv, BaseInv

\* ParseNetMsg is done with a message.
LEMMA ParsedFlights ==
  ASSUME Shape, NEW i \in 1 .. Len(socks), socks[i].got # <<>>,
         socks' = [socks EXCEPT ![i].got = <<>>]
  PROVE  LET m == Head(socks[i].got) IN
           /\ m \in InFlight(i) /\ call[i] = Out
           /\ Range(socks[i].got) = {m}
           /\ \E sk : Becomes(i, sk) /\ FlightOf(sk) \subseteq InFlight(i)
                      /\ sk.queue = socks[i].queue /\ sk.wire = socks[i].wire
                      /\ sk.got = <<>>
<1> DEFINE old == socks[i]
           m == Head(old.got)
           sk == [host |-> old.host, to |-> old.to, queue |-> old.queue,
                  wire |-> old.wire, got |-> <<>>]
<1>1. m \in Messages /\ Range(old.got) = {m} /\ call[i] = Out /\ Becomes(i, sk)
  BY ParseEffect
<1>2. sk.queue = old.queue /\ sk.wire = old.wire /\ sk.got = <<>>
  OBVIOUS
<1> HIDE DEF sk
<1>3. FlightOf(sk) \subseteq InFlight(i) /\ m \in InFlight(i)
  BY <1>1, <1>2, ShortLines DEF FlightOf, InFlight
<1> QED
  BY <1>1, <1>2, <1>3

\* The data that a read asks for are there: device.cpp:213's CHECK.
LEMMA ParseReadRouted ==
  ASSUME Routed, RoutedInv, NEW i \in 1 .. Len(socks), ParseRead(i)
  PROVE  LET m == Head(socks[i].got)
             reply == [kind |-> "data", src |-> m.src, dst |-> m.dst, val |-> 0]
         IN /\ MessagesRouted' /\ fate' = fate
            /\ m \in Messages /\ m \in Range(socks[i].got) /\ m.kind = "read"
            /\ call[i] = Out /\ SendMsg(i, socks[i].to, reply)
<1> DEFINE m == Head(socks[i].got)
           h == socks[i].to
           reply == [kind |-> "data", src |-> m.src, dst |-> m.dst, val |-> 0]
           v == [at |-> "find", host |-> h, msg |-> reply, sock |-> 0]
<1>1. /\ socks[i].got # <<>> /\ socks' = [socks EXCEPT ![i].got = <<>>] /\ m.kind = "read"
      /\ Home[m.src] = h => SendMsg(i, h, reply) /\ fate' = fate
  BY DEF ParseRead
<1>2. m \in InFlight(i) /\ call[i] = Out /\ m \in Range(socks[i].got)
      /\ \E sk : Becomes(i, sk) /\ FlightOf(sk) \subseteq InFlight(i)
  BY <1>1, ParsedFlights DEF RoutedInv, BaseInv
<1>3. PICK sk : Becomes(i, sk) /\ FlightOf(sk) \subseteq InFlight(i)
  BY <1>2
<1>4. i \in Threads
  BY SocketTypes DEF RoutedInv, BaseInv
<1> HIDE DEF m
<1>5. m \in Messages /\ h = Home[m.src] /\ <<m.dst, m.src>> \in Reads
  BY <1>1, <1>2, Arrives DEF RoutedInv
<1>6. SendMsg(i, h, reply) /\ fate' = fate
  BY <1>1, <1>5
<1>7. call' = [call EXCEPT ![i] = v] /\ SentBy(v.host, v.msg)
  BY <1>5, <1>6 DEF SendMsg, SentBy
<1> HIDE DEF v
<1>8. \A n \in FlightOf(sk) : SentBy(socks[i].host, n)
  BY <1>3 DEF RoutedInv, MessagesRouted
<1>9. \A j \in 1 .. Len(socks') : \A n \in InFlight(j)' : SentBy(socks'[j].host, n)
  BY <1>3, <1>8, FlightsRouted DEF RoutedInv
<1>10. MessagesRouted'
  BY <1>4, <1>7, <1>9, RoutedKeeps DEF RoutedInv, BaseInv
<1> QED
  BY <1>1, <1>2, <1>5, <1>6, <1>10 DEF m

LEMMA ParseDataRouted ==
  ASSUME RoutedInv, NEW i \in 1 .. Len(socks), ParseData(i)
  PROVE  MessagesRouted' /\ fate' = fate
<1> DEFINE m == Head(socks[i].got)
           v == IF token2callback[m.dst] # 0 THEN [at |-> "erase", token |-> m.dst]
                ELSE call[i]
<1>1. /\ socks[i].got # <<>> /\ socks' = [socks EXCEPT ![i].got = <<>>] /\ fate' = fate
      /\ IF token2callback[m.dst] # 0
         THEN call' = [call EXCEPT ![i] = [at |-> "erase", token |-> m.dst]]
         ELSE call' = call
  BY DEF ParseData
<1>2. call[i] = Out /\ \E sk : Becomes(i, sk) /\ FlightOf(sk) \subseteq InFlight(i)
  BY <1>1, ParsedFlights DEF RoutedInv, BaseInv
<1>3. PICK sk : Becomes(i, sk) /\ FlightOf(sk) \subseteq InFlight(i)
  BY <1>2
<1>4. i \in Threads
  BY SocketTypes DEF RoutedInv, BaseInv
<1> HIDE DEF m
<1>5. v.at \notin Places
  BY <1>2 DEF Out, Places
<1>6. call' = [call EXCEPT ![i] = v]
  BY <1>1, <1>4 DEF RoutedInv, BaseInv, Shape
<1> HIDE DEF v
<1>7. \A n \in FlightOf(sk) : SentBy(socks[i].host, n)
  BY <1>3 DEF RoutedInv, MessagesRouted
<1>8. \A j \in 1 .. Len(socks') : \A n \in InFlight(j)' : SentBy(socks'[j].host, n)
  BY <1>3, <1>7, FlightsRouted DEF RoutedInv
<1> QED
  BY <1>1, <1>4, <1>5, <1>6, <1>8, RoutedKeeps DEF RoutedInv, BaseInv

LEMMA PushFlights ==
  ASSUME BaseInv, NEW c \in Threads, PushMsg(c)
  PROVE  /\ call[c].sock \in 1 .. Len(socks) /\ Calling(c)
         /\ socks[call[c].sock].host = call[c].host
         /\ \E sk : /\ Becomes(call[c].sock, sk)
                    /\ FlightOf(sk) \subseteq InFlight(call[c].sock) \cup {call[c].msg}
                    /\ Range(sk.queue) = Range(socks[call[c].sock].queue) \cup {call[c].msg}
                    /\ sk.wire = socks[call[c].sock].wire
                    /\ sk.got = socks[call[c].sock].got
<1> DEFINE i == call[c].sock
           m == call[c].msg
           old == socks[i]
           sk == [host |-> old.host, to |-> old.to, queue |-> Append(old.queue, m),
                  wire |-> old.wire, got |-> old.got]
<1>1. Calling(c) /\ call[c].at = "push"
  BY DEF PushMsg, Calling, Places
<1>2. /\ i \in 1 .. Len(socks) /\ token2sock[call[c].host][m.dst] = i
      /\ call[c].host \in Hosts /\ m \in Messages /\ m.dst \in Tokens
  <2>1. i # 0 /\ token2sock[call[c].host][m.dst] = i
    BY <1>1 DEF BaseInv, OneSocket
  <2>2. i \in 0 .. Len(socks) /\ Len(socks) \in Nat
    BY <1>1, CallTypes, LenProperties DEF BaseInv, Shape
  <2>3. call[c].host \in Hosts /\ m \in Messages /\ m.dst \in Tokens
    BY <1>1, CallTypes DEF BaseInv
  <2> HIDE DEF i
  <2> QED
    BY <2>1, <2>2, <2>3
<1>3. Becomes(i, sk)
  BY <1>2, PushEffect DEF BaseInv
<1>4. old.queue \in Seq(Messages) /\ old.host = call[c].host
  BY <1>2, SocketTypes DEF BaseInv, SocketsMatch
<1>5. Range(Append(old.queue, m)) = Range(old.queue) \cup {m}
  BY <1>2, <1>4, AppendLine
<1>6. sk.queue = Append(old.queue, m) /\ sk.wire = old.wire /\ sk.got = old.got
  OBVIOUS
<1> HIDE DEF sk
<1>7. FlightOf(sk) \subseteq InFlight(i) \cup {m}
  BY <1>5, <1>6 DEF FlightOf, InFlight
<1> QED
  BY <1>1, <1>2, <1>3, <1>4, <1>5, <1>6, <1>7

LEMMA SendingRouted ==
  ASSUME RoutedInv, NEW c \in Threads, Sending(c)
  PROVE  MessagesRouted' /\ fate' = fate
<1>1. CASE Seeking(c)
  <2>1. /\ Calling(c)
        /\ Len(socks) <= Len(socks') /\ Len(socks') \in Nat /\ fate' = fate
        /\ \A i \in 1 .. Len(socks) : socks'[i] = socks[i]
        /\ \A i \in (1 .. Len(socks')) \ (1 .. Len(socks)) : InFlight(i)' = {}
    BY <1>1, SearchEffect DEF RoutedInv
  <2>2. PICK v : /\ call' = [call EXCEPT ![c] = v]
                 /\ v.at \in Places /\ v.host = call[c].host /\ v.msg = call[c].msg
    BY <1>1, SearchEffect DEF RoutedInv
  <2>3. SentBy(v.host, v.msg)
    BY <2>1, <2>2 DEF RoutedInv, MessagesRouted
  <2>4. ASSUME NEW j \in 1 .. Len(socks'), NEW m \in InFlight(j)'
        PROVE  SentBy(socks'[j].host, m)
    <3>1. j \in 1 .. Len(socks)
      BY <2>1, <2>4
    <3>2. socks'[j] = socks[j] /\ m \in InFlight(j)
      BY <2>1, <2>4, <3>1 DEF InFlight
    <3> QED
      BY <3>1, <3>2 DEF RoutedInv, MessagesRouted
  <2> QED
    BY <2>1, <2>2, <2>3, <2>4, RoutedKeeps DEF RoutedInv, BaseInv
<1>2. CASE PushMsg(c)
  <2>1. PICK i \in 1 .. Len(socks) : i = call[c].sock
    BY <1>2, PushFlights DEF RoutedInv
  <2>2. Calling(c) /\ socks[i].host = call[c].host
        /\ \E sk : Becomes(i, sk) /\ FlightOf(sk) \subseteq InFlight(i) \cup {call[c].msg}
    BY <1>2, <2>1, PushFlights DEF RoutedInv
  <2>3. PICK sk : Becomes(i, sk) /\ FlightOf(sk) \subseteq InFlight(i) \cup {call[c].msg}
    BY <2>2
  <2>4. \A n \in FlightOf(sk) : SentBy(socks[i].host, n)
    BY <2>2, <2>3 DEF RoutedInv, MessagesRouted
  <2>5. \A j \in 1 .. Len(socks') : \A n \in InFlight(j)' : SentBy(socks'[j].host, n)
    BY <2>3, <2>4, FlightsRouted DEF RoutedInv
  <2>6. call' = [call EXCEPT ![c] = Out] /\ fate' = fate /\ Out.at \notin Places
    BY <1>2 DEF PushMsg, Out, Places
  <2> QED
    BY <2>5, <2>6, RoutedKeeps DEF RoutedInv, BaseInv
<1> QED
  BY <1>1, <1>2 DEF Sending, Seeking

LEMMA UserRouted ==
  ASSUME RoutedInv, NEW u \in Users, User(u)
  PROVE  MessagesRouted' /\ fate' = fate
<1>1. u \in Threads
  BY DEF Threads
<1>2. ASSUME NEW h, NEW m, SendMsg(u, h, m), SentBy(h, m), UNCHANGED sockVars
      PROVE  MessagesRouted'
  <2> DEFINE v == [at |-> "find", host |-> h, msg |-> m, sock |-> 0]
  <2>1. call' = [call EXCEPT ![u] = v] /\ SentBy(v.host, v.msg)
    BY <1>2 DEF SendMsg
  <2> HIDE DEF v
  <2>2. \A j \in 1 .. Len(socks') : \A n \in InFlight(j)' : SentBy(socks'[j].host, n)
    BY <1>2 DEF sockVars, InFlight, RoutedInv, MessagesRouted
  <2> QED
    BY <1>1, <2>1, <2>2, RoutedKeeps DEF RoutedInv, BaseInv
<1>3. ASSUME NEW rd \in Reads, ReadData(u, rd[1], rd[2])
      PROVE  MessagesRouted' /\ fate' = fate
  <2>1. rd = <<rd[1], rd[2]>>
    BY DeviceAssumption
  <2>2. SentBy(Home[rd[1]], [kind |-> "read", src |-> rd[2], dst |-> rd[1], val |-> 0])
    BY <2>1 DEF SentBy
  <2> QED
    BY <1>2, <1>3, <2>2 DEF ReadData
<1>4. ASSUME NEW pt \in Puts, NEW h \in Hosts, SendData(u, h, pt[1], pt[2])
      PROVE  MessagesRouted' /\ fate' = fate
  <2>1. pt = <<pt[1], pt[2]>>
    BY DeviceAssumption
  <2>2. SentBy(Home[pt[1]], [kind |-> "data", src |-> pt[1], dst |-> pt[2], val |-> 0])
    BY <2>1 DEF SentBy
  <2>3. UNCHANGED <<sockVars, fate>>
    BY <1>4 DEF SendData
  <2>4. CASE UNCHANGED call
    BY <2>3, <2>4 DEF RoutedInv, MessagesRouted, Calling, InFlight, sockVars
  <2>5. CASE ~UNCHANGED call
    BY <1>2, <1>4, <2>2, <2>3, <2>5 DEF SendData
  <2> QED
    BY <2>3, <2>4, <2>5
<1> QED
  BY <1>3, <1>4 DEF User

LEMMA EraseRouted ==
  ASSUME RoutedInv, NEW i \in Sockets, EraseCallback(i)
  PROVE  MessagesRouted' /\ fate' = fate
<1>1. /\ i \in Threads /\ call' = [call EXCEPT ![i] = Out] /\ Out.at \notin Places
      /\ fate' = fate /\ UNCHANGED sockVars
  BY DEF EraseCallback, Threads, Out, Places
<1>2. \A j \in 1 .. Len(socks') : \A n \in InFlight(j)' : SentBy(socks'[j].host, n)
  BY <1>1 DEF sockVars, InFlight, RoutedInv, MessagesRouted
<1> QED
  BY <1>1, <1>2, RoutedKeeps DEF RoutedInv, BaseInv

LEMMA UnchangedRouted ==
  ASSUME RoutedInv, UNCHANGED <<sockVars, call, fate>>
  PROVE  MessagesRouted' /\ fate' = fate
BY DEF RoutedInv, MessagesRouted, InFlight, Calling, sockVars

LEMMA NextRouted ==
  ASSUME Routed, RoutedInv, [Next]_vars
  PROVE  RoutedInv'
<1>1. DOMAIN socks = 1 .. Len(socks)
  BY LenProperties DEF RoutedInv, BaseInv, Shape
<1>2. MessagesRouted' /\ fate' = fate
  <2>1. ASSUME NEW u \in Users, User(u) \/ Sending(u)
        PROVE  MessagesRouted' /\ fate' = fate
    BY <2>1, UserRouted, SendingRouted DEF Threads
  <2>2. ASSUME NEW i \in DOMAIN socks, Transmit(i)
        PROVE  MessagesRouted' /\ fate' = fate
    BY <1>1, <2>2, TransmitRouted
  <2>3. ASSUME NEW i \in Sockets, Worker(i)
        PROVE  MessagesRouted' /\ fate' = fate
    <3>1. CASE i \in DOMAIN socks /\ (Receive(i) \/ ParseRead(i) \/ ParseData(i))
      BY <1>1, <3>1, ReceiveRouted, ParseReadRouted, ParseDataRouted
    <3>2. CASE EraseCallback(i) \/ Sending(i)
      BY <3>2, EraseRouted, SendingRouted DEF Threads
    <3> QED
      BY <2>3, <3>1, <3>2 DEF Worker
  <2>4. CASE \/ \E t \in {rd[2] : rd \in Reads} : WriteMemory(t)
             \/ CloseCompletionQueue
             \/ \E p \in Pollers : PollCompletionQueue(p)
             \/ UNCHANGED vars
    <3>1. UNCHANGED <<sockVars, call, fate>>
      BY <2>4, QueueStep DEF WriteMemory, vars
    <3> QED
      BY <3>1, UnchangedRouted
  <2> QED
    BY <2>1, <2>2, <2>3, <2>4 DEF Next
<1>3. BaseInv'
  BY NextBase DEF RoutedInv
<1> QED
  BY <1>2, <1>3 DEF RoutedInv, NoCheckFails

LEMMA InitRouted ==
  ASSUME Init PROVE RoutedInv
<1>1. BaseInv
  BY InitBase
<1>2. socks = <<>> /\ fate = "running" /\ \A c \in Threads : call[c].at = "out"
  BY DEF Init, Out
<1> QED
  BY <1>1, <1>2 DEF RoutedInv, MessagesRouted, NoCheckFails, Calling, Places

(***************************************************************************)
(* If tokens stand for the hosts they are exchanged with, every message    *)
(* goes to the host it is for: ParseNetMsg's CHECK (device.cpp:213) finds  *)
(* the data a read asks for, and RecvRaw a place for the data that come.   *)
(***************************************************************************)
THEOREM MessagesFindTheirHost ==
  ASSUME Routed PROVE Spec => []NoCheckFails
<1>1. Init => RoutedInv
  BY InitRouted
<1>2. RoutedInv /\ [Next]_vars => RoutedInv'
  BY NextRouted
<1>3. RoutedInv => NoCheckFails
  BY DEF RoutedInv
<1> QED
  BY <1>1, <1>2, <1>3, PTL DEF Spec
-----------------------------------------------------------------------------
(* A callback is in one place. *)

\* The completion queue and its threads hold the numbers of reads.
QueueShape ==
  /\ val \in Seq(1 .. Len(reads)) /\ blocked \subseteq Pollers
  /\ is_send_closed \in BOOLEAN /\ is_receive_closed \in BOOLEAN
  /\ poll \in [Pollers -> [at : {"receive", "run", "returned"}, read : 0 .. Len(reads)]]
  /\ \A p \in Pollers : poll[p].at = "run" <=> poll[p].read # 0
  /\ ran \in [Calls -> Nat]

Erasing(i, t) == call[i].at = "erase" /\ call[i].token = t

\* The data of a token that is read into arrive on one socket, whose worker
\* is the only one to erase the token's callback.
OneEraser ==
  \A i \in Sockets, t \in Tokens : Erasing(i, t) =>
    /\ token2callback[t] # 0
    /\ \A rd \in Reads : rd[1] = t => token2sock[Home[rd[2]]][t] = i

\* The map holds reads of its tokens, which are tokens that are read into.
MapHolds ==
  \A t \in Tokens : token2callback[t] # 0 =>
    /\ reads[token2callback[t]].token = t
    /\ \E rd \in Reads : rd[1] = t

\* A callback that is not in the map has been queued at most once.
OneQueued ==
  /\ \A k, l \in 1 .. Len(val) : val[k] = val[l] => k = l
  /\ \A p, q \in Pollers : poll[p].read # 0 /\ poll[q].read = poll[p].read => q = p
  /\ \A k \in 1 .. Len(val), p \in Pollers : val[k] # poll[p].read

\* ran[r] when the callback is somewhere, and before there is a read r.
OneRun ==
  /\ \A r \in Calls : ran[r] <= 1 /\ (r > Len(reads) => ran[r] = 0)
  /\ \A k \in 1 .. Len(val) : ran[val[k]] = 0
  /\ \A p \in Pollers : poll[p].read # 0 => ran[poll[p].read] = 0
  /\ \A r \in 1 .. Len(reads) : Registered(r) => ran[r] = 0

\* What is in the map without being erased is nowhere else.
OnlyInMap ==
  \A r \in 1 .. Len(reads) : Registered(r) =>
    /\ \A k \in 1 .. Len(val) : val[k] # r
    /\ \A p \in Pollers : poll[p].read # r

CallbackInv == QueueShape /\ OneEraser /\ MapHolds /\ OneQueued /\ OneRun /\ OnlyInMap

ReadTypes == [token : Tokens, since : Versions, kept : BOOLEAN]

LEMMA ReadRecord ==
  ASSUME Shape, NEW r \in 1 .. Len(reads)
  PROVE  reads[r] \in ReadTypes /\ reads[r].token \in Tokens /\ reads[r].since \in Versions
<1>1. reads \in Seq(ReadTypes)
  BY DEF Shape, ReadTypes
<1>2. reads[r] \in ReadTypes
  BY <1>1, ElementOfSeq
<1> QED
  BY <1>2 DEF ReadTypes

\* Data arrive where the worker that erases the token's callback is.
LEMMA SourceSocket ==
  ASSUME Routed, OneSource, RoutedInv, NEW i \in 1 .. Len(socks),
         NEW m \in InFlight(i), m.kind = "data",
         NEW rd \in Reads, rd[1] = m.dst
  PROVE  token2sock[Home[rd[2]]][m.dst] = i
<1>1. SentBy(socks[i].host, m) /\ m \in Messages
  BY Arrives DEF RoutedInv
<1>2. token2sock[socks[i].host][m.dst] = i
  BY DEF RoutedInv, BaseInv, OneSocket
<1>3. Home[m.src] = Home[rd[2]]
  <2>1. CASE <<m.dst, m.src>> \in Reads
    BY <2>1 DEF Routed
  <2>2. CASE <<m.src, m.dst>> \in Puts
    BY <2>2 DEF OneSource
  <2> QED
    BY <1>1, <2>1, <2>2 DEF SentBy, Messages
<1>4. socks[i].host = Home[m.src]
  BY <1>1 DEF SentBy, Messages
<1> QED
  BY <1>2, <1>3, <1>4

\* Thread c goes from where it erases nothing to where it erases nothing.
LEMMA ErasersStay ==
  ASSUME Shape, NEW c \in Threads, NEW v, call' = [call EXCEPT ![c] = v],
         call[c].at # "erase", v.at # "erase"
  PROVE  \A i \in Sockets : \A t : Erasing(i, t)' <=> Erasing(i, t)
BY DEF Shape, Erasing, Threads

LEMMA CallbackIdle ==
  ASSUME BaseInv, CallbackInv,
         \A i \in Sockets, t \in Tokens : Erasing(i, t)' <=> Erasing(i, t),
         \A h \in Hosts, t \in Tokens :
           token2sock[h][t] # 0 => token2sock'[h][t] = token2sock[h][t],
         UNCHANGED <<channelVars, reads, token2callback, pollVars>>
  PROVE  CallbackInv'
<1>1. QueueShape' /\ MapHolds' /\ OneQueued'
  BY DEF CallbackInv, QueueShape, MapHolds, OneQueued, channelVars, pollVars
<1>2. OneEraser'
  <2> SUFFICES ASSUME NEW i \in Sockets, NEW t \in Tokens, Erasing(i, t)'
               PROVE  /\ token2callback[t] # 0
                      /\ \A rd \in Reads : rd[1] = t => token2sock'[Home[rd[2]]][t] = i
    BY DEF OneEraser
  <2>1. /\ token2callback[t] # 0
        /\ \A rd \in Reads : rd[1] = t => token2sock[Home[rd[2]]][t] = i
    BY DEF CallbackInv, OneEraser
  <2>2. \A rd \in Reads : Home[rd[2]] \in Hosts
    BY DeviceAssumption
  <2>3. i # 0
    BY DEF Sockets
  <2> QED
    BY <2>1, <2>2, <2>3
<1>3. \A r \in 1 .. Len(reads) : reads[r].token \in Tokens
  BY ReadRecord DEF BaseInv
<1>4. \A r \in 1 .. Len(reads) : Registered(r)' => Registered(r)
  BY <1>3 DEF Registered, Erasing
<1>5. OneRun' /\ OnlyInMap'
  BY <1>4 DEF CallbackInv, OneRun, OnlyInMap, channelVars, pollVars
<1> QED
  BY <1>1, <1>2, <1>5 DEF CallbackInv

\* ReadData: the callback gets into the map, or nowhere.
LEMMA ReadDataCallback ==
  ASSUME BaseInv, CallbackInv, NEW u \in Users, NEW rd \in Reads, ReadData(u, rd[1], rd[2])
  PROVE  CallbackInv'
<1> DEFINE src == rd[1]
           n == Len(reads)
           r == [token |-> src, since |-> mem[rd[2]], kept |-> token2callback[src] = 0]
<1>1. /\ src \in Tokens /\ n \in Nat /\ n < MaxReads
      /\ reads' = Append(reads, r) /\ reads \in Seq(ReadTypes)
      /\ token2callback' = Emplace(token2callback, src, Len(reads'))
      /\ token2callback \in [Tokens -> 0 .. n]
      /\ UNCHANGED <<channelVars, token2sock, pollVars>>
      /\ MaxReads \in Nat
  BY DeviceAssumption, LenProperties DEF ReadData, sockVars, BaseInv, Shape, ReadTypes
<1>2. r \in ReadTypes /\ r.token = src
  BY <1>1, DeviceAssumption DEF BaseInv, Shape, ReadTypes
<1> HIDE DEF r
<1>3. /\ Len(reads') = n + 1 /\ reads'[n + 1] = r
      /\ \A k \in 1 .. n : reads'[k] = reads[k]
  BY <1>1, <1>2, AppendProperties
<1>4. \A i \in Sockets, t \in Tokens : Erasing(i, t)' <=> Erasing(i, t)
  <2>1. u \notin Sockets
    BY DeviceAssumption DEF Sockets
  <2>2. \A i \in Sockets : call'[i] = call[i]
    BY <2>1 DEF ReadData, SendMsg, BaseInv, Shape, Threads
  <2> QED
    BY <2>2 DEF Erasing
<1>5. /\ \A t \in Tokens : t # src => token2callback'[t] = token2callback[t]
      /\ token2callback'[src] = IF token2callback[src] = 0 THEN n + 1 ELSE token2callback[src]
      /\ \A t \in Tokens : token2callback[t] \in 0 .. n
  BY <1>1, <1>3 DEF Emplace
<1> HIDE DEF src
<1>6. QueueShape'
  <2>1. 1 .. n \subseteq 1 .. n + 1 /\ 0 .. n \subseteq 0 .. n + 1
    BY <1>1
  <2>2. val \in Seq(1 .. n + 1)
    <3>1. \A S, T : S \subseteq T => Seq(S) \subseteq Seq(T)
      OBVIOUS
    <3>2. val \in Seq(1 .. n)
      BY DEF CallbackInv, QueueShape
    <3> HIDE DEF n
    <3> QED
      BY <2>1, <3>1, <3>2
  <2>3. poll \in [Pollers -> [at : {"receive", "run", "returned"}, read : 0 .. n + 1]]
    BY <2>1 DEF CallbackInv, QueueShape
  <2> QED
    BY <1>1, <1>3, <2>2, <2>3 DEF CallbackInv, QueueShape, channelVars, pollVars
<1>7. OneEraser'
  <2>1. \A t \in Tokens : token2callback[t] # 0 => token2callback'[t] # 0
    BY <1>5
  <2> QED
    BY <1>1, <1>4, <2>1 DEF CallbackInv, OneEraser
<1>8. MapHolds'
  <2> SUFFICES ASSUME NEW t \in Tokens, token2callback'[t] # 0
               PROVE  /\ reads'[token2callback'[t]].token = t
                      /\ \E ro \in Reads : ro[1] = t
    BY DEF MapHolds
  <2>1. CASE token2callback[t] # 0
    <3>1. token2callback'[t] = token2callback[t] /\ token2callback[t] \in 1 .. n
      BY <1>1, <1>5, <2>1
    <3> QED
      BY <1>3, <2>1, <3>1 DEF CallbackInv, MapHolds
  <2>2. CASE token2callback[t] = 0
    <3>1. t = src /\ token2callback'[t] = n + 1
      BY <1>5, <2>2
    <3> QED
      BY <1>2, <1>3, <3>1 DEF src
  <2> QED
    BY <2>1, <2>2
<1>9. \A k \in 1 .. n : reads[k].token \in Tokens
  BY ReadRecord DEF BaseInv
<1>10. ASSUME NEW k \in 1 .. n, Registered(k)' PROVE Registered(k)
  <2>1. reads'[k].token = reads[k].token /\ reads[k].token \in Tokens /\ k # n + 1
    BY <1>1, <1>3, <1>9
  <2>2. token2callback'[reads[k].token] = k
    BY <1>10, <2>1 DEF Registered
  <2>3. token2callback[reads[k].token] = k
    BY <1>5, <2>1, <2>2
  <2> QED
    BY <1>4, <1>10, <2>1, <2>3 DEF Registered, Erasing
<1>11. OneQueued'
  BY <1>1 DEF CallbackInv, OneQueued, channelVars, pollVars
<1>12. \A k \in 1 .. Len(val) : val[k] \in 1 .. n
  BY ElementOfSeq DEF CallbackInv, QueueShape
<1>13. \A p \in Pollers : poll[p].read \in 0 .. n
  BY DEF CallbackInv, QueueShape
<1>14. \A k \in 1 .. Len(reads') : k \in 1 .. n \/ (k = n + 1 /\ k \in Calls /\ k > n)
  BY <1>1, <1>3 DEF Calls
<1>15. OneRun'
  <2>1. \A k \in Calls : k > Len(reads') => k > n
    BY <1>1, <1>3 DEF Calls
  <2>2. \A k \in 1 .. Len(reads') : Registered(k)' => ran[k] = 0
    BY <1>10, <1>14 DEF CallbackInv, OneRun
  <2> QED
    BY <1>1, <2>1, <2>2 DEF CallbackInv, OneRun, channelVars, pollVars
<1>16. OnlyInMap'
  <2>1. \A k \in 1 .. Len(val) : val[k] # n + 1
    BY <1>1, <1>12
  <2>2. \A p \in Pollers : poll[p].read # n + 1
    BY <1>1, <1>13
  <2> QED
    BY <1>1, <1>10, <1>14, <2>1, <2>2 DEF CallbackInv, OnlyInMap, channelVars, pollVars
<1> QED
  BY <1>6, <1>7, <1>8, <1>11, <1>15, <1>16 DEF CallbackInv

\* SendMsg, RecvRaw, and ParseNetMsg but for the callback.
LEMMA SendingCallback ==
  ASSUME BaseInv, CallbackInv, NEW c \in Threads, Sending(c)
  PROVE  CallbackInv'
<1>1. CASE Seeking(c)
  <2>1. PICK v : /\ call' = [call EXCEPT ![c] = v]
                 /\ v.at \in Places /\ v.host = call[c].host /\ v.msg = call[c].msg
    BY <1>1, SearchEffect
  <2>2. /\ Calling(c) /\ UNCHANGED <<channelVars, memVars, token2callback, pollVars>>
        /\ \A h \in Hosts, t \in Tokens :
             token2sock[h][t] # 0 => token2sock'[h][t] = token2sock[h][t]
    BY <1>1, SearchEffect
  <2>3. call[c].at # "erase" /\ v.at # "erase" /\ reads' = reads
    BY <2>1, <2>2 DEF Calling, Places, memVars
  <2>4. \A i \in Sockets, t \in Tokens : Erasing(i, t)' <=> Erasing(i, t)
    BY <2>1, <2>3, ErasersStay DEF BaseInv
  <2> QED
    BY <2>2, <2>3, <2>4, CallbackIdle
<1>2. CASE PushMsg(c)
  <2>1. /\ call' = [call EXCEPT ![c] = Out] /\ call[c].at # "erase" /\ Out.at # "erase"
        /\ UNCHANGED <<channelVars, reads, token2callback, token2sock, pollVars>>
    BY <1>2 DEF PushMsg, Out, memVars
  <2>2. \A i \in Sockets, t \in Tokens : Erasing(i, t)' <=> Erasing(i, t)
    BY <2>1, ErasersStay DEF BaseInv
  <2> QED
    BY <2>1, <2>2, CallbackIdle
<1> QED
  BY <1>1, <1>2 DEF Sending, Seeking

LEMMA SendDataCallback ==
  ASSUME BaseInv, CallbackInv, NEW u \in Users, NEW h, NEW src, NEW dst,
         SendData(u, h, src, dst)
  PROVE  CallbackInv'
<1> DEFINE v == [at |-> "find", host |-> h,
                 msg |-> [kind |-> "data", src |-> src, dst |-> dst, val |-> 0], sock |-> 0]
<1>1. /\ UNCHANGED call \/ call' = [call EXCEPT ![u] = v]
      /\ call[u].at # "erase" /\ v.at # "erase"
      /\ UNCHANGED <<channelVars, reads, token2callback, token2sock, pollVars>>
  BY DEF SendData, SendMsg, Out, sockVars
<1> HIDE DEF v
<1>2. \A i \in Sockets, t \in Tokens : Erasing(i, t)' <=> Erasing(i, t)
  <2>1. CASE UNCHANGED call
    BY <2>1 DEF Erasing
  <2>2. CASE call' = [call EXCEPT ![u] = v]
    BY <1>1, <2>2, ErasersStay DEF BaseInv, Threads
  <2> QED
    BY <1>1, <2>1, <2>2
<1> QED
  BY <1>1, <1>2, CallbackIdle

LEMMA ParseReadCallback ==
  ASSUME Routed, RoutedInv, CallbackInv, NEW i \in 1 .. Len(socks), ParseRead(i)
  PROVE  CallbackInv'
<1>1. i \in Threads /\ call[i] = Out
  BY SocketTypes, ParseReadRouted DEF RoutedInv, BaseInv
<1>2. PICK h, m : SendMsg(i, h, m)
  BY ParseReadRouted
<1> DEFINE v == [at |-> "find", host |-> h, msg |-> m, sock |-> 0]
<1>3. /\ call' = [call EXCEPT ![i] = v] /\ call[i].at # "erase" /\ v.at # "erase"
      /\ UNCHANGED <<channelVars, reads, token2callback, token2sock, pollVars>>
  BY <1>1, <1>2 DEF ParseRead, SendMsg, Out, memVars
<1> HIDE DEF v
<1>4. \A j \in Sockets, t \in Tokens : Erasing(j, t)' <=> Erasing(j, t)
  BY <1>1, <1>3, ErasersStay DEF RoutedInv, BaseInv
<1> QED
  BY <1>3, <1>4, CallbackIdle DEF RoutedInv

\* Transmit, RecvRaw, WriteMemory, and a step of nobody.
LEMMA CallsStayCallback ==
  ASSUME BaseInv, CallbackInv,
         UNCHANGED <<channelVars, reads, token2callback, token2sock, call, pollVars>>
  PROVE  CallbackInv'
<1>1. \A j \in Sockets, t \in Tokens : Erasing(j, t)' <=> Erasing(j, t)
  BY DEF Erasing
<1> QED
  BY <1>1, CallbackIdle

(***************************************************************************)
(* ParseNetMsg of data: if a callback waits, it is registered - nobody     *)
(* else erases it - and goes to the queue; from then on the worker does.   *)
(***************************************************************************)
LEMMA ParseDataEffect ==
  ASSUME Routed, OneSource, RoutedInv, CallbackInv, NEW i \in 1 .. Len(socks),
         ParseData(i), NEW t, t = Head(socks[i].got).dst, token2callback[t] # 0
  PROVE  LET r == token2callback[t] IN
           /\ t \in Tokens /\ r \in 1 .. Len(reads) /\ reads[r].token = t /\ Registered(r)
           /\ Send(r)
           /\ \A j \in Sockets, s \in Tokens :
                Erasing(j, s)' <=> (Erasing(j, s) \/ (j = i /\ s = t))
           /\ \A rd \in Reads : rd[1] = t => token2sock[Home[rd[2]]][t] = i
           /\ i \in Sockets
           /\ UNCHANGED <<reads, token2callback, token2sock, pollVars>>
<1> DEFINE r == token2callback[t]
           m == Head(socks[i].got)
<1>1. /\ socks[i].got # <<>> /\ socks' = [socks EXCEPT ![i].got = <<>>] /\ m.kind = "data"
      /\ Send(r) /\ call' = [call EXCEPT ![i] = [at |-> "erase", token |-> t]]
      /\ UNCHANGED <<reads, token2callback, token2sock, pollVars>>
  BY DEF ParseData, memVars
<1>2. m \in InFlight(i) /\ call[i] = Out /\ i \in Sockets /\ i \in Threads
  BY <1>1, ParsedFlights, SocketTypes DEF RoutedInv, BaseInv
<1>3. m \in Messages /\ m.dst = t
  BY <1>2, Arrives DEF RoutedInv
<1>4. t \in Tokens /\ r \in 1 .. Len(reads)
  BY <1>3, LenProperties DEF Messages, RoutedInv, BaseInv, Shape
<1>5. \A rd \in Reads : rd[1] = t => token2sock[Home[rd[2]]][t] = i
  BY <1>1, <1>2, <1>3, SourceSocket
<1>6. reads[r].token = t /\ \E rd \in Reads : rd[1] = t
  BY <1>4 DEF CallbackInv, MapHolds
<1>7. \A j \in Sockets : ~Erasing(j, t)
  <2> SUFFICES ASSUME NEW j \in Sockets, Erasing(j, t) PROVE FALSE
    OBVIOUS
  <2>1. j = i
    <3>1. PICK rd \in Reads : rd[1] = t
      BY <1>6
    <3>2. token2sock[Home[rd[2]]][t] = i /\ token2sock[Home[rd[2]]][t] = j
      BY <1>4, <1>5, <3>1 DEF CallbackInv, OneEraser
    <3> QED
      BY <3>2
  <2> QED
    BY <1>2, <2>1 DEF Erasing, Out
<1>8. Registered(r)
  BY <1>6, <1>7 DEF Registered, Erasing
<1>9. ASSUME NEW j \in Sockets, NEW s \in Tokens
      PROVE  Erasing(j, s)' <=> (Erasing(j, s) \/ (j = i /\ s = t))
  <2>1. CASE j = i
    BY <1>1, <1>2, <2>1 DEF Erasing, Out, RoutedInv, BaseInv, Shape
  <2>2. CASE j # i
    BY <1>1, <1>2, <2>2 DEF Erasing, RoutedInv, BaseInv, Shape
  <2> QED
    BY <2>1, <2>2
<1> QED
  BY <1>1, <1>2, <1>4, <1>5, <1>6, <1>8, <1>9

LEMMA ParseDataCallback ==
  ASSUME Routed, OneSource, RoutedInv, CallbackInv, NEW i \in 1 .. Len(socks), ParseData(i)
  PROVE  CallbackInv'
<1> DEFINE m == Head(socks[i].got)
<1>1. CASE token2callback[m.dst] = 0
  <2>1. UNCHANGED <<channelVars, reads, token2callback, token2sock, call, pollVars>>
    BY <1>1 DEF ParseData, memVars
  <2> QED
    BY <2>1, CallsStayCallback DEF RoutedInv
<1>2. CASE token2callback[m.dst] # 0
  <2>1. PICK t : t = m.dst
    OBVIOUS
  <2>2. PICK r \in 1 .. Len(reads) : r = token2callback[t]
    BY <1>2, <2>1, ParseDataEffect
  <2>3. /\ t \in Tokens /\ reads[r].token = t /\ Registered(r)
        /\ Send(r)
        /\ \A j \in Sockets, s \in Tokens :
             Erasing(j, s)' <=> (Erasing(j, s) \/ (j = i /\ s = t))
        /\ \A rd \in Reads : rd[1] = t => token2sock[Home[rd[2]]][t] = i
        /\ i \in Sockets
        /\ UNCHANGED <<reads, token2callback, token2sock, pollVars>>
    BY <1>2, <2>1, <2>2, ParseDataEffect
  <2>4. /\ val' \in Seq(1 .. Len(reads)) /\ blocked' \subseteq Pollers
        /\ UNCHANGED <<is_send_closed, is_receive_closed>>
        /\ Len(val) \in Nat
        /\ \A k \in 1 .. Len(val') : \/ k \in 1 .. Len(val) /\ val'[k] = val[k]
                                     \/ k = Len(val) + 1 /\ val'[k] = r
    <3>1. val \in Seq(1 .. Len(reads)) /\ blocked \subseteq Pollers
      BY DEF CallbackInv, QueueShape
    <3>2. Len(val) \in Nat
      BY <3>1, LenProperties
    <3>3. CASE is_send_closed
      BY <2>3, <3>1, <3>2, <3>3 DEF Send
    <3>4. CASE ~is_send_closed
      <4>1. val' = Append(val, r) /\ NotifyOne /\ UNCHANGED <<is_send_closed, is_receive_closed>>
        BY <2>3, <3>4 DEF Send
      <4>2. /\ val' \in Seq(1 .. Len(reads)) /\ Len(val') = Len(val) + 1
            /\ \A k \in 1 .. Len(val) : val'[k] = val[k]
            /\ val'[Len(val) + 1] = r
        BY <3>1, <4>1, AppendProperties
      <4>3. blocked' \subseteq Pollers
        BY <3>1, <4>1 DEF NotifyOne
      <4> QED
        BY <3>2, <4>1, <4>2, <4>3
    <3> QED
      BY <3>3, <3>4
  <2>5. QueueShape'
    BY <2>3, <2>4 DEF CallbackInv, QueueShape, pollVars
  <2>6. OneEraser' /\ MapHolds'
    BY <2>2, <2>3 DEF CallbackInv, OneEraser, MapHolds
  <2>7. ASSUME NEW k \in 1 .. Len(reads), Registered(k)'
        PROVE  Registered(k) /\ k # r
    <3>1. reads[k].token \in Tokens
      BY ReadRecord DEF RoutedInv, BaseInv
    <3>2. \A j \in Sockets : ~Erasing(j, reads[k].token)'
      BY <2>3, <2>7 DEF Registered, Erasing
    <3>3. \A j \in Sockets : ~Erasing(j, reads[k].token)
      BY <2>3, <3>1, <3>2
    <3>4. k # r
      BY <2>3, <3>2
    <3> QED
      BY <2>3, <2>7, <3>3, <3>4 DEF Registered, Erasing
  <2>8. /\ r # 0 /\ ran[r] = 0
        /\ \A k \in 1 .. Len(val) : val[k] # r
        /\ \A p \in Pollers : poll[p].read # r
    BY <2>3 DEF CallbackInv, OneRun, OnlyInMap
  <2>9. OneQueued'
    <3>1. ASSUME NEW k \in 1 .. Len(val'), NEW l \in 1 .. Len(val'), val'[k] = val'[l]
          PROVE  k = l
      <4>1. \A g, h \in 1 .. Len(val) : val[g] = val[h] => g = h
        BY DEF CallbackInv, OneQueued
      <4>2. \/ k \in 1 .. Len(val) /\ val'[k] = val[k]
            \/ k = Len(val) + 1 /\ val'[k] = r
        BY <2>4
      <4>3. \/ l \in 1 .. Len(val) /\ val'[l] = val[l]
            \/ l = Len(val) + 1 /\ val'[l] = r
        BY <2>4
      <4> QED
        BY ONLY <2>8, <3>1, <4>1, <4>2, <4>3
    <3>2. \A k \in 1 .. Len(val'), p \in Pollers : val'[k] # poll[p].read
      BY <2>4, <2>8 DEF CallbackInv, OneQueued
    <3>3. \A p, q \in Pollers : poll[p].read # 0 /\ poll[q].read = poll[p].read => q = p
      BY DEF CallbackInv, OneQueued
    <3> QED
      BY <2>3, <3>1, <3>2, <3>3 DEF OneQueued, pollVars
  <2>10. OneRun'
    BY <2>3, <2>4, <2>7, <2>8 DEF CallbackInv, OneRun, pollVars
  <2>11. OnlyInMap'
    BY <2>3, <2>4, <2>7 DEF CallbackInv, OnlyInMap, pollVars
  <2> QED
    BY <2>5, <2>6, <2>9, <2>10, <2>11 DEF CallbackInv
<1> QED
  BY <1>1, <1>2

\* The worker erases what it has queued, and no callback that came later.
LEMMA EraseCallbackKeeps ==
  ASSUME BaseInv, CallbackInv, NEW i \in Sockets, EraseCallback(i)
  PROVE  CallbackInv'
<1> DEFINE t == call[i].token
<1>1. /\ i \in Threads /\ call[i].at = "erase" /\ t \in Tokens
      /\ call' = [call EXCEPT ![i] = Out]
      /\ token2callback' = [token2callback EXCEPT ![t] = 0]
      /\ UNCHANGED <<channelVars, reads, token2sock, pollVars>>
  BY CallTypes DEF BaseInv, EraseCallback, Threads, memVars, sockVars
<1>2. \A j \in Sockets, s \in Tokens : Erasing(j, s)' <=> (Erasing(j, s) /\ j # i)
  BY <1>1 DEF Erasing, Out, BaseInv, Shape, Threads
<1>3. token2callback'[t] = 0 /\ \A s \in Tokens : s # t => token2callback'[s] = token2callback[s]
  BY <1>1 DEF BaseInv, Shape
<1>4. Erasing(i, t)
  BY <1>1 DEF Erasing
<1> HIDE DEF t
<1>5. ASSUME NEW j \in Sockets, Erasing(j, t) PROVE j = i
  <2>1. token2callback[t] # 0
    BY <1>1, <1>4 DEF CallbackInv, OneEraser
  <2>2. PICK rd \in Reads : rd[1] = t
    BY <1>1, <2>1 DEF CallbackInv, MapHolds
  <2> QED
    BY <1>1, <1>4, <1>5, <2>2 DEF CallbackInv, OneEraser
<1>6. OneEraser'
  <2> SUFFICES ASSUME NEW j \in Sockets, NEW s \in Tokens, Erasing(j, s)'
               PROVE  /\ token2callback'[s] # 0
                      /\ \A rd \in Reads : rd[1] = s => token2sock'[Home[rd[2]]][s] = j
    BY DEF OneEraser
  <2>1. Erasing(j, s) /\ s # t
    BY <1>2, <1>5
  <2> QED
    BY <1>1, <1>3, <2>1 DEF CallbackInv, OneEraser
<1>7. MapHolds'
  BY <1>1, <1>3 DEF CallbackInv, MapHolds
<1>8. ASSUME NEW k \in 1 .. Len(reads), Registered(k)' PROVE Registered(k)
  <2>1. reads[k].token \in Tokens /\ reads'[k].token = reads[k].token /\ k # 0
    BY <1>1, ReadRecord DEF BaseInv
  <2>2. token2callback'[reads[k].token] = k
    BY <1>8, <2>1 DEF Registered
  <2>3. reads[k].token # t /\ token2callback[reads[k].token] = k
    BY <1>3, <2>1, <2>2
  <2>4. \A j \in Sockets : ~Erasing(j, reads[k].token)'
    BY <1>8, <2>1 DEF Registered, Erasing
  <2>5. \A j \in Sockets : ~Erasing(j, reads[k].token)
    <3>1. \A j \in Sockets : j # i => ~Erasing(j, reads[k].token)
      BY <1>2, <2>1, <2>4
    <3>2. ~Erasing(i, reads[k].token)
      BY <1>4, <2>3 DEF Erasing
    <3> QED
      BY <3>1, <3>2
  <2> QED
    BY <2>3, <2>5 DEF Registered, Erasing
<1>9. QueueShape' /\ OneQueued'
  BY <1>1 DEF CallbackInv, QueueShape, OneQueued, channelVars, pollVars
<1>10. OneRun' /\ OnlyInMap'
  BY <1>1, <1>8 DEF CallbackInv, OneRun, OnlyInMap, channelVars, pollVars
<1> QED
  BY <1>6, <1>7, <1>9, <1>10 DEF CallbackInv

\* What the queue's threads and the owner's CloseCompletionQueue do.
LEMMA RegisteredStays ==
  ASSUME UNCHANGED <<memVars, token2callback, sockVars, call, fate>>
  PROVE  /\ \A r : Registered(r)' <=> Registered(r)
         /\ OneEraser' <=> OneEraser
         /\ MapHolds' <=> MapHolds
         /\ reads' = reads
BY DEF Registered, OneEraser, MapHolds, Erasing, memVars, sockVars

LEMMA PollTakeCallback ==
  ASSUME CallbackInv, NEW p \in Pollers, PollTake(p)
  PROVE  CallbackInv'
<1> DEFINE r == Head(val)
<1>1. /\ poll[p].at = "receive" /\ val # <<>> /\ val' = Tail(val)
      /\ poll' = [poll EXCEPT ![p] = [at |-> "run", read |-> r]]
      /\ UNCHANGED <<is_send_closed, is_receive_closed, blocked, ran>>
      /\ UNCHANGED <<memVars, token2callback, sockVars, call, fate>>
  BY DEF PollTake, Take
<1>2. val \in Seq(1 .. Len(reads))
  BY DEF CallbackInv, QueueShape
<1>3. /\ Len(val) \in Nat \ {0} /\ r = val[1] /\ Tail(val) \in Seq(1 .. Len(reads))
      /\ Len(Tail(val)) = Len(val) - 1
      /\ \A k \in 1 .. Len(val) - 1 : Tail(val)[k] = val[k + 1]
  BY <1>1, <1>2, HeadTailProperties, EmptySeq, LenProperties
<1>4. r \in 1 .. Len(reads) /\ 1 \in 1 .. Len(val)
  BY <1>2, <1>3, ElementOfSeq
<1>5. \A k \in 1 .. Len(val') : k + 1 \in 1 .. Len(val) /\ val'[k] = val[k + 1] /\ k + 1 # 1
  BY <1>1, <1>3
<1>6. /\ \A k \in 1 .. Len(val') : val'[k] # r
      /\ \A q \in Pollers : poll[q].read # r
      /\ ran[r] = 0 /\ ~Registered(r)
  BY <1>3, <1>4, <1>5 DEF CallbackInv, OneQueued, OneRun, OnlyInMap
<1> HIDE DEF r
<1>7. poll'[p] = [at |-> "run", read |-> r] /\ \A q \in Pollers : q # p => poll'[q] = poll[q]
  BY <1>1 DEF CallbackInv, QueueShape
<1>8. /\ \A k : Registered(k)' <=> Registered(k)
      /\ OneEraser' /\ MapHolds' /\ reads' = reads
  BY <1>1, RegisteredStays DEF CallbackInv
<1>9. QueueShape'
  <2>1. poll' \in [Pollers -> [at : {"receive", "run", "returned"}, read : 0 .. Len(reads)]]
    BY <1>1, <1>4 DEF CallbackInv, QueueShape
  <2>2. \A q \in Pollers : poll'[q].at = "run" <=> poll'[q].read # 0
    BY <1>4, <1>7 DEF CallbackInv, QueueShape
  <2> QED
    BY <1>1, <1>3, <1>8, <2>1, <2>2 DEF CallbackInv, QueueShape
<1>10. OneQueued'
  <2>1. \A k, l \in 1 .. Len(val') : val'[k] = val'[l] => k = l
    BY <1>3, <1>5 DEF CallbackInv, OneQueued
  <2>2. \A q, s \in Pollers : poll'[q].read # 0 /\ poll'[s].read = poll'[q].read => s = q
    BY <1>6, <1>7 DEF CallbackInv, OneQueued
  <2>3. \A k \in 1 .. Len(val'), q \in Pollers : val'[k] # poll'[q].read
    BY <1>5, <1>6, <1>7 DEF CallbackInv, OneQueued
  <2> QED
    BY <2>1, <2>2, <2>3 DEF OneQueued
<1>11. OneRun' /\ OnlyInMap'
  BY <1>1, <1>5, <1>6, <1>7, <1>8 DEF CallbackInv, OneRun, OnlyInMap
<1> QED
  BY <1>8, <1>9, <1>10, <1>11 DEF CallbackInv

LEMMA RunCallbackKeeps ==
  ASSUME CallbackInv, NEW p \in Pollers, RunCallback(p), Shape
  PROVE  CallbackInv'
<1> DEFINE r == poll[p].read
<1>1. /\ poll[p].at = "run" /\ ran' = [ran EXCEPT ![r] = @ + 1]
      /\ poll' = [poll EXCEPT ![p] = Awaiting]
      /\ UNCHANGED channelVars
      /\ UNCHANGED <<memVars, token2callback, sockVars, call, fate>>
  BY DEF RunCallback
<1>2. r \in 1 .. Len(reads) /\ r \in Calls
  <2>1. r \in 0 .. Len(reads) /\ r # 0 /\ Len(reads) \in Nat /\ Len(reads) <= MaxReads
        /\ MaxReads \in Nat
    BY <1>1, LenProperties, DeviceAssumption DEF CallbackInv, QueueShape, Shape
  <2> HIDE DEF r
  <2> QED
    BY <2>1 DEF Calls
<1>3. /\ ran[r] = 0 /\ ~Registered(r)
      /\ \A k \in 1 .. Len(val) : val[k] # r
      /\ \A q \in Pollers : q # p => poll[q].read # r
  BY <1>1, <1>2 DEF CallbackInv, QueueShape, OneQueued, OneRun, OnlyInMap
<1> HIDE DEF r
<1>4. /\ poll'[p].at = "receive" /\ poll'[p].read = 0
      /\ \A q \in Pollers : q # p => poll'[q] = poll[q]
      /\ ran'[r] = 1 /\ \A k \in Calls : k # r => ran'[k] = ran[k]
      /\ ran' \in [Calls -> Nat]
  BY <1>1, <1>2, <1>3 DEF CallbackInv, QueueShape, Awaiting
<1>5. /\ \A k : Registered(k)' <=> Registered(k)
      /\ OneEraser' /\ MapHolds' /\ reads' = reads
  BY <1>1, RegisteredStays DEF CallbackInv
<1>6. QueueShape'
  <2>1. poll' \in [Pollers -> [at : {"receive", "run", "returned"}, read : 0 .. Len(reads)]]
    BY <1>1, LenProperties DEF CallbackInv, QueueShape, Awaiting, Shape
  <2>2. \A q \in Pollers : poll'[q].at = "run" <=> poll'[q].read # 0
    BY <1>4 DEF CallbackInv, QueueShape
  <2> QED
    BY <1>1, <1>4, <1>5, <2>1, <2>2 DEF CallbackInv, QueueShape, channelVars
<1>7. \A k \in 1 .. Len(val) : val[k] \in 1 .. Len(reads)
  BY ElementOfSeq DEF CallbackInv, QueueShape
<1>8. \A k \in 1 .. Len(reads) : k \in Calls
  BY LenProperties, DeviceAssumption DEF Shape, Calls
<1>9. \A q \in Pollers : poll[q].read # 0 => poll[q].read \in 1 .. Len(reads)
  BY LenProperties DEF CallbackInv, QueueShape, Shape
<1>10. OneQueued'
  <2>1. \A k \in 1 .. Len(val) : val[k] # 0
    BY <1>7
  <2> QED
    BY <1>1, <1>4, <2>1 DEF CallbackInv, OneQueued, channelVars
<1>11. OneRun'
  <2>1. \A k \in Calls : ran'[k] <= 1 /\ (k > Len(reads) => ran'[k] = 0)
    <3>1. ~(r > Len(reads))
      BY <1>2, LenProperties DEF Shape
    <3> QED
      BY <1>4, <3>1 DEF CallbackInv, OneRun
  <2>2. \A k \in 1 .. Len(val) : ran'[val[k]] = 0
    BY <1>3, <1>4, <1>7, <1>8 DEF CallbackInv, OneRun
  <2>3. \A q \in Pollers : poll'[q].read # 0 => ran'[poll'[q].read] = 0
    BY <1>3, <1>4, <1>8, <1>9 DEF CallbackInv, OneRun
  <2>4. \A k \in 1 .. Len(reads) : Registered(k)' => ran'[k] = 0
    BY <1>3, <1>4, <1>5, <1>8 DEF CallbackInv, OneRun
  <2> QED
    BY <1>1, <1>5, <2>1, <2>2, <2>3, <2>4 DEF OneRun, channelVars
<1>12. OnlyInMap'
  <2>1. \A k \in 1 .. Len(reads) : k # 0
    OBVIOUS
  <2> QED
    BY <1>1, <1>4, <1>5, <2>1 DEF CallbackInv, OnlyInMap, channelVars
<1> QED
  BY <1>5, <1>6, <1>10, <1>11, <1>12 DEF CallbackInv

\* PollBlock, PollReturn and CloseCompletionQueue.
LEMMA QueueStaysCallback ==
  ASSUME CallbackInv, UNCHANGED <<memVars, token2callback, sockVars, call, fate>>,
         UNCHANGED <<val, ran>>, blocked' \subseteq Pollers,
         is_send_closed' \in BOOLEAN, is_receive_closed' \in BOOLEAN,
         poll' \in [Pollers -> [at : {"receive", "run", "returned"}, read : 0 .. Len(reads)]],
         \A p \in Pollers : /\ poll'[p].read = poll[p].read
                            /\ poll'[p].at = "run" <=> poll[p].at = "run"
  PROVE  CallbackInv'
<1>1. /\ \A k : Registered(k)' <=> Registered(k)
      /\ OneEraser' /\ MapHolds' /\ reads' = reads
  BY RegisteredStays DEF CallbackInv
<1>2. QueueShape'
  BY <1>1 DEF CallbackInv, QueueShape
<1>3. OneQueued' /\ OneRun' /\ OnlyInMap'
  BY <1>1 DEF CallbackInv, OneQueued, OneRun, OnlyInMap
<1> QED
  BY <1>1, <1>2, <1>3 DEF CallbackInv

LEMMA QueueCallback ==
  ASSUME Shape, CallbackInv,
         CloseCompletionQueue \/ \E p \in Pollers : PollCompletionQueue(p)
  PROVE  CallbackInv'
<1>1. CASE CloseCompletionQueue
  <2>1. /\ UNCHANGED <<memVars, token2callback, sockVars, call, fate>>
        /\ UNCHANGED <<val, ran, poll>> /\ blocked' \subseteq Pollers
        /\ is_send_closed' \in BOOLEAN /\ is_receive_closed' \in BOOLEAN
    BY <1>1 DEF CloseCompletionQueue, CloseSendEnd, CloseReceiveEnd, NotifyAll, pollVars,
                CallbackInv, QueueShape
  <2> QED
    BY <2>1, QueueStaysCallback DEF CallbackInv, QueueShape
<1>2. ASSUME NEW p \in Pollers, PollBlock(p) PROVE CallbackInv'
  <2>1. /\ UNCHANGED <<memVars, token2callback, sockVars, call, fate>>
        /\ UNCHANGED <<val, ran, poll>> /\ blocked' \subseteq Pollers
        /\ UNCHANGED <<is_send_closed, is_receive_closed>>
    BY <1>2 DEF PollBlock, Block, pollVars, CallbackInv, QueueShape
  <2> QED
    BY <2>1, QueueStaysCallback DEF CallbackInv, QueueShape
<1>3. ASSUME NEW p \in Pollers, PollReturn(p) PROVE CallbackInv'
  <2>1. /\ UNCHANGED <<memVars, token2callback, sockVars, call, fate>>
        /\ UNCHANGED <<val, ran, blocked, is_send_closed, is_receive_closed>>
        /\ poll[p].at = "receive" /\ poll' = [poll EXCEPT ![p].at = "returned"]
    BY <1>3 DEF PollReturn, GiveUp, channelVars
  <2>2. /\ poll' \in [Pollers -> [at : {"receive", "run", "returned"}, read : 0 .. Len(reads)]]
        /\ poll'[p].read = poll[p].read /\ poll'[p].at = "returned"
        /\ \A q \in Pollers : q # p => poll'[q] = poll[q]
    BY <2>1 DEF CallbackInv, QueueShape
  <2> QED
    BY <2>1, <2>2, QueueStaysCallback DEF CallbackInv, QueueShape
<1> QED
  BY <1>1, <1>2, <1>3, PollTakeCallback, RunCallbackKeeps DEF PollCompletionQueue

LEMMA InitCallback ==
  ASSUME Init PROVE CallbackInv
<1>1. /\ val = <<>> /\ blocked = {} /\ is_send_closed = FALSE /\ is_receive_closed = FALSE
      /\ poll = [p \in Pollers |-> Awaiting] /\ ran = [r \in Calls |-> 0]
      /\ reads = <<>> /\ token2callback = [t \in Tokens |-> 0]
      /\ \A c \in Threads : call[c].at = "out"
  BY DEF Init, ChannelInit, Out
<1>2. /\ Len(val) = 0 /\ Len(reads) = 0 /\ val \in Seq(1 .. Len(reads))
  BY <1>1
<1>3. QueueShape
  <2>1. \A p \in Pollers : poll[p].at = "receive" /\ poll[p].read = 0
    BY <1>1 DEF Awaiting
  <2>2. poll \in [Pollers -> [at : {"receive", "run", "returned"}, read : 0 .. Len(reads)]]
    BY <1>1, <1>2 DEF Awaiting
  <2> QED
    BY <1>1, <1>2, <2>1, <2>2 DEF QueueShape
<1>4. OneEraser /\ MapHolds
  BY <1>1 DEF OneEraser, MapHolds, Erasing, Threads
<1>5. OneQueued /\ OneRun /\ OnlyInMap
  BY <1>1, <1>2 DEF OneQueued, OneRun, OnlyInMap, Awaiting
<1> QED
  BY <1>3, <1>4, <1>5 DEF CallbackInv

LEMMA NextCallback ==
  ASSUME Routed, OneSource, RoutedInv, CallbackInv, [Next]_vars
  PROVE  CallbackInv'
<1>1. DOMAIN socks = 1 .. Len(socks) /\ Shape /\ BaseInv
  BY LenProperties DEF RoutedInv, BaseInv, Shape
<1>2. ASSUME NEW u \in Users, User(u) \/ Sending(u) PROVE CallbackInv'
  BY <1>1, <1>2, ReadDataCallback, SendDataCallback, SendingCallback DEF User, Threads
<1>3. ASSUME NEW i \in Sockets, Worker(i) PROVE CallbackInv'
  <2>1. CASE i \in DOMAIN socks /\ Receive(i)
    <3>1. UNCHANGED <<channelVars, reads, token2callback, token2sock, call, pollVars>>
      BY <2>1 DEF Receive
    <3> QED
      BY <1>1, <3>1, CallsStayCallback
  <2>2. CASE i \in DOMAIN socks /\ (ParseRead(i) \/ ParseData(i))
    BY <1>1, <2>2, ParseReadCallback, ParseDataCallback
  <2>3. CASE EraseCallback(i) \/ Sending(i)
    BY <1>1, <2>3, EraseCallbackKeeps, SendingCallback DEF Threads
  <2> QED
    BY <1>3, <2>1, <2>2, <2>3 DEF Worker
<1>4. CASE \/ \E i \in DOMAIN socks : Transmit(i)
           \/ \E t \in {rd[2] : rd \in Reads} : WriteMemory(t)
           \/ UNCHANGED vars
  <2>1. UNCHANGED <<channelVars, reads, token2callback, token2sock, call, pollVars>>
    BY <1>4 DEF Transmit, WriteMemory, vars, memVars, sockVars
  <2> QED
    BY <1>1, <2>1, CallsStayCallback
<1>5. CASE CloseCompletionQueue \/ \E p \in Pollers : PollCompletionQueue(p)
  BY <1>1, <1>5, QueueCallback
<1> QED
  BY <1>2, <1>3, <1>4, <1>5 DEF Next

LEMMA SetOfOne ==
  ASSUME NEW S, \A x, y \in S : x = y
  PROVE  Cardinality(S) \in {0, 1} /\ (S = {} => Cardinality(S) = 0)
<1>1. CASE S = {}
  BY <1>1, FS_EmptySet
<1>2. CASE S # {}
  <2>1. PICK x : x \in S
    BY <1>2
  <2>2. S = {x}
    BY <2>1
  <2> QED
    BY <1>2, <2>2, FS_Singleton
<1> QED
  BY <1>1, <1>2

\* What the invariant says of one callback, counted.
LEMMA CallbackCounted ==
  ASSUME Shape, CallbackInv
  PROVE  CallbackOnce
<1> SUFFICES ASSUME NEW r \in 1 .. Len(reads)
             PROVE  (IF Registered(r) THEN 1 ELSE 0) + Queued(r) + InHand(r) + ran[r] <= 1
  BY DEF CallbackOnce
<1> DEFINE K == {k \in 1 .. Len(val) : val[k] = r}
           P == {p \in Pollers : poll[p].read = r}
<1>1. r \in Calls /\ r # 0
  <2>1. Len(reads) \in Nat /\ Len(reads) <= MaxReads /\ MaxReads \in Nat
    BY LenProperties, DeviceAssumption DEF Shape
  <2> HIDE DEF K, P
  <2> QED
    BY <2>1 DEF Calls
<1>2. Queued(r) \in {0, 1} /\ (K = {} => Queued(r) = 0)
  <2>1. \A k, l \in K : k = l
    BY DEF CallbackInv, OneQueued
  <2> QED
    BY <2>1, SetOfOne DEF Queued
<1>3. InHand(r) \in {0, 1} /\ (P = {} => InHand(r) = 0)
  <2>1. \A p, q \in P : p = q
    BY <1>1 DEF CallbackInv, OneQueued
  <2> QED
    BY <2>1, SetOfOne DEF InHand
<1>4. ran[r] \in Nat /\ ran[r] <= 1
  BY <1>1 DEF CallbackInv, QueueShape, OneRun
<1>5. /\ K = {} \/ P = {}
      /\ K # {} \/ P # {} => ran[r] = 0
      /\ Registered(r) => K = {} /\ P = {} /\ ran[r] = 0
  BY <1>1 DEF CallbackInv, OneQueued, OneRun, OnlyInMap
<1> HIDE DEF K, P
<1> QED
  BY <1>2, <1>3, <1>4, <1>5

LEMMA ReadInvariance ==
  ASSUME Routed, OneSource PROVE Spec => [](RoutedInv /\ CallbackInv)
<1>1. Init => RoutedInv /\ CallbackInv
  BY InitRouted, InitCallback
<1>2. RoutedInv /\ CallbackInv /\ [Next]_vars => (RoutedInv /\ CallbackInv)'
  BY NextRouted, NextCallback
<1> QED
  BY <1>1, <1>2, PTL DEF Spec

(***************************************************************************)
(* If, besides, the data for a token that is read into come from one host, *)
(* a callback is in one place at most, and runs once at most: ParseNetMsg  *)
(* queues and erases it in two steps, but one worker only does so.  With   *)
(* data from two hosts, two workers could queue the same callback.         *)
(***************************************************************************)
THEOREM CallbacksRunOnce ==
  ASSUME Routed, OneSource PROVE Spec => []CallbackOnce
<1>1. RoutedInv /\ CallbackInv => CallbackOnce
  BY CallbackCounted DEF RoutedInv, BaseInv
<1> QED
  BY <1>1, ReadInvariance, PTL

(***************************************************************************)
(* The types of everything, with callbacks that run once at most.          *)
(***************************************************************************)
THEOREM TypeCorrect ==
  ASSUME Routed, OneSource PROVE Spec => []TypeOK
<1>1. RoutedInv /\ CallbackInv => TypeOK
  <2> SUFFICES ASSUME Shape, CallbackInv PROVE TypeOK
    BY DEF RoutedInv, BaseInv
  <2>1. \A i \in 1 .. Len(socks) :
          /\ socks[i].host \in Hosts /\ socks[i].to \in Hosts
          /\ {socks[i].queue, socks[i].wire, socks[i].got} \subseteq Seq(Messages)
          /\ Len(socks[i].got) <= 1
    BY SocketTypes DEF Shape
  <2>2. ASSUME NEW c \in Threads
        PROVE  \/ call[c] = Out
               \/ call[c].at = "erase" /\ call[c].token \in Tokens
               \/ /\ call[c].at \in Places
                  /\ call[c].host \in Hosts /\ call[c].msg \in Messages
                  /\ call[c].sock \in 0 .. Len(socks)
    BY CallTypes DEF Calling
  <2>3. val \in Seq(Calls)
    <3>1. \A S, T : S \subseteq T => Seq(S) \subseteq Seq(T)
      OBVIOUS
    <3>2. 1 .. Len(reads) \subseteq Calls
      BY LenProperties, DeviceAssumption DEF Shape, Calls
    <3>3. val \in Seq(1 .. Len(reads))
      BY DEF CallbackInv, QueueShape
    <3> QED
      BY <3>1, <3>2, <3>3
  <2>4. ran \in [Calls -> 0 .. 1]
    <3>1. \A r \in Calls : ran[r] \in 0 .. 1
      BY DEF CallbackInv, QueueShape, OneRun
    <3> QED
      BY <3>1 DEF CallbackInv, QueueShape
  <2>5. /\ blocked \subseteq Pollers /\ is_send_closed \in BOOLEAN
        /\ is_receive_closed \in BOOLEAN
        /\ poll \in [Pollers -> [at : {"receive", "run", "returned"},
                                 read : 0 .. Len(reads)]]
    BY DEF CallbackInv, QueueShape
  <2>6. /\ mem \in [Tokens -> Versions]
        /\ reads \in Seq([token : Tokens, since : Versions, kept : BOOLEAN])
        /\ Len(reads) <= MaxReads /\ puts \in 0 .. MaxPuts
        /\ token2callback \in [Tokens -> 0 .. Len(reads)]
        /\ token2sock \in [Hosts -> [Tokens -> 0 .. Len(socks)]]
        /\ Len(socks) <= MaxSocks
        /\ fate \in {"running", "check_failed", "no_memory"}
    BY DEF Shape
  <2> QED
    BY <2>1, <2>2, <2>3, <2>4, <2>5, <2>6 DEF TypeOK
<1> QED
  BY <1>1, ReadInvariance, PTL
-----------------------------------------------------------------------------
(* What is read is fresh. *)

\* Whatever m asks for or brings is there, in a state the pending reads of
\* its token may see.
FreshSource(m) ==
  \A r \in 1 .. Len(reads) : ran[r] = 0 /\ reads[r].token = m.dst =>
    <<m.dst, m.src>> \in Reads /\ mem[m.src] >= reads[r].since

\* Version v will do for the pending reads of t.
FreshData(t, v) ==
  \A r \in 1 .. Len(reads) : ran[r] = 0 /\ reads[r].token = t => v >= reads[r].since

\* The messages of a socket: data are taken from their source when they are
\* sent, and are in their token's memory when they have come.
FreshSock(sk) ==
  /\ \A m \in Range(sk.queue) : FreshSource(m)
  /\ \A m \in Range(sk.wire) : /\ m.kind = "read" => FreshSource(m)
                               /\ m.kind = "data" => FreshData(m.dst, m.val)
  /\ \A m \in Range(sk.got) : /\ m.kind = "read" => FreshSource(m)
                              /\ m.kind = "data" => FreshData(m.dst, mem[m.dst])

FreshCalls == \A c \in Threads : Calling(c) => FreshSource(call[c].msg)
FreshSocks == \A i \in 1 .. Len(socks) : FreshSock(socks[i])

\* A read that is completed: its token's memory will do.
Done(r) == mem[reads[r].token] >= reads[r].since

FreshQueue ==
  /\ \A k \in 1 .. Len(val) : Done(val[k])
  /\ \A p \in Pollers : poll[p].read # 0 => Done(poll[p].read)

Fresh == FreshCalls /\ FreshSocks /\ FreshQueue

FreshInv == RoutedInv /\ CallbackInv /\ Fresh

LEMMA SameData ==
  ASSUME UNCHANGED <<mem, reads, ran>>
  PROVE  /\ \A m : FreshSource(m)' <=> FreshSource(m)
         /\ \A t, v : FreshData(t, v)' <=> FreshData(t, v)
         /\ \A sk : FreshSock(sk)' <=> FreshSock(sk)
         /\ \A r : Done(r)' <=> Done(r)
BY DEF FreshSource, FreshData, FreshSock, Done

\* Thread c goes somewhere, perhaps with a message.
LEMMA FreshCallsKeep ==
  ASSUME Shape, FreshCalls, UNCHANGED <<mem, reads, ran>>,
         NEW c \in Threads, NEW v, call' = [call EXCEPT ![c] = v],
         v.at \in Places => FreshSource(v.msg)
  PROVE  FreshCalls'
<1>1. call'[c] = v /\ \A d \in Threads : d # c => call'[d] = call[d]
  BY DEF Shape
<1> SUFFICES ASSUME NEW d \in Threads, Calling(d)' PROVE FreshSource(call[d].msg)'
  BY DEF FreshCalls
<1>2. PICK m : m = call'[d].msg
  OBVIOUS
<1>3. FreshSource(m)
  <2>1. CASE d = c
    BY <1>1, <1>2, <2>1 DEF Calling
  <2>2. CASE d # c
    BY <1>1, <1>2, <2>2 DEF Calling, FreshCalls
  <2> QED
    BY <2>1, <2>2
<1> QED
  BY <1>2, <1>3 DEF FreshSource

\* Socket i becomes sk.
LEMMA FreshSocksKeep ==
  ASSUME FreshSocks, UNCHANGED <<mem, reads, ran>>,
         NEW i \in 1 .. Len(socks), NEW sk, Becomes(i, sk), FreshSock(sk)
  PROVE  FreshSocks'
<1> SUFFICES ASSUME NEW j \in 1 .. Len(socks') PROVE FreshSock(socks[j])'
  BY DEF FreshSocks
<1>1. PICK s : s = socks'[j]
  OBVIOUS
<1>2. FreshSock(s)
  BY <1>1 DEF Becomes, FreshSocks
<1>3. FreshSock(s)'
  BY <1>2, SameData
<1> QED
  BY <1>1, <1>3 DEF FreshSock

\* The completion queue and the data stay the same.
LEMMA FreshQueueKeeps ==
  ASSUME FreshQueue, UNCHANGED <<mem, reads, val, poll>>
  PROVE  FreshQueue'
BY DEF FreshQueue, Done

LEMMA TransmitFresh ==
  ASSUME FreshInv, NEW i \in 1 .. Len(socks), Transmit(i)
  PROVE  Fresh'
<1> DEFINE old == socks[i]
<1>1. PICK m \in Messages, v \in Versions :
        /\ m = Head(old.queue) /\ m \in Range(old.queue)
        /\ m.kind = "data" => v = mem[m.src]
        /\ Becomes(i, [host |-> old.host, to |-> old.to, queue |-> Tail(old.queue),
                       wire |-> Append(old.wire, [kind |-> m.kind, src |-> m.src,
                                                  dst |-> m.dst, val |-> v]),
                       got |-> old.got])
  BY TransmitEffect DEF FreshInv, RoutedInv, BaseInv
<1> DEFINE sent == [kind |-> m.kind, src |-> m.src, dst |-> m.dst, val |-> v]
           sk == [host |-> old.host, to |-> old.to, queue |-> Tail(old.queue),
                  wire |-> Append(old.wire, sent), got |-> old.got]
<1>2. /\ i \in Threads /\ old.queue # <<>>
      /\ old.queue \in Seq(Messages) /\ old.wire \in Seq(Messages)
  BY SocketTypes DEF FreshInv, RoutedInv, BaseInv, Transmit
<1>3. /\ sent \in Messages /\ sent.kind = m.kind /\ sent.src = m.src /\ sent.dst = m.dst
      /\ sent.val = v
  BY DEF Messages
<1>4. Becomes(i, sk)
  BY <1>1
<1> HIDE DEF sent
<1>5. sk.queue = Tail(old.queue) /\ sk.wire = Append(old.wire, sent) /\ sk.got = old.got
  OBVIOUS
<1> HIDE DEF sk
<1>6. /\ Range(Append(old.wire, sent)) = Range(old.wire) \cup {sent}
      /\ Range(Tail(old.queue)) \subseteq Range(old.queue)
  BY <1>2, <1>3, AppendLine, TailLine
<1>7. FreshSock(old) /\ FreshSource(m)
  BY <1>1 DEF FreshInv, Fresh, FreshSocks, FreshSock
<1>8. /\ sent.kind = "read" => FreshSource(sent)
      /\ sent.kind = "data" => FreshData(sent.dst, sent.val)
  BY <1>1, <1>3, <1>7 DEF FreshSource, FreshData
<1>9. FreshSock(sk)
  BY <1>5, <1>6, <1>7, <1>8 DEF FreshSock
<1>10. UNCHANGED <<mem, reads, ran, val, poll, call>>
  BY DEF Transmit, memVars, pollVars, channelVars
<1>11. FreshSocks'
  BY <1>4, <1>9, <1>10, FreshSocksKeep DEF FreshInv, Fresh
<1>12. FreshCalls'
  <2>1. call' = [call EXCEPT ![i] = call[i]]
    BY <1>2, <1>10 DEF FreshInv, RoutedInv, BaseInv, Shape
  <2>2. call[i].at \in Places => FreshSource(call[i].msg)
    BY <1>2 DEF FreshInv, Fresh, FreshCalls, Calling
  <2> QED
    BY <1>2, <1>10, <2>1, <2>2, FreshCallsKeep DEF FreshInv, Fresh, RoutedInv, BaseInv
<1> QED
  BY <1>10, <1>11, <1>12, FreshQueueKeeps DEF Fresh, FreshInv

(***************************************************************************)
(* RecvRaw stores data: nobody reads from where they are stored, no other  *)
(* message for their token has come, and they will do for its pending      *)
(* reads, the completed ones included.                                     *)
(***************************************************************************)
LEMMA ReceiveFresh ==
  ASSUME Routed, SourcesKept, FreshInv, NEW i \in 1 .. Len(socks), Receive(i)
  PROVE  Fresh'
<1>a. PICK old : old = socks[i]
  OBVIOUS
<1>b. PICK m : m = Head(old.wire)
  OBVIOUS
<1>c. PICK sk : sk = [host |-> old.host, to |-> old.to, queue |-> old.queue,
                      wire |-> Tail(old.wire), got |-> <<m>>]
  OBVIOUS
<1>1. m \in Messages /\ m \in Range(old.wire) /\ Becomes(i, sk)
  BY <1>a, <1>b, <1>c, ReceiveEffect DEF FreshInv, RoutedInv, BaseInv
<1>2. /\ i \in Threads /\ old.wire # <<>> /\ old.wire \in Seq(Messages)
      /\ UNCHANGED <<reads, call, val, ran, poll>>
  BY <1>a, SocketTypes DEF FreshInv, RoutedInv, BaseInv, Receive, channelVars, pollVars
<1>3. m \in InFlight(i)
  BY <1>1, <1>a DEF InFlight
<1>4. \/ m.kind = "read" /\ mem' = mem
      \/ m.kind = "data" /\ mem' = [mem EXCEPT ![m.dst] = m.val]
  <2>1. m.kind \in {"read", "data"} /\ (m.kind = "data" => Home[m.dst] = socks[i].to)
    BY <1>1, <1>3, Arrives DEF FreshInv, RoutedInv, Messages
  <2> QED
    BY <1>a, <1>b, <2>1 DEF Receive
<1>5. sk.queue = old.queue /\ sk.wire = Tail(old.wire) /\ sk.got = <<m>>
  BY <1>c
<1>6. Range(Tail(old.wire)) \subseteq Range(old.wire) /\ Range(<<m>>) = {m}
  BY <1>1, <1>2, TailLine, ShortLines
<1>7. \A rd \in Reads : mem'[rd[2]] = mem[rd[2]]
  <2>1. \A rd \in Reads : rd[2] # m.dst
    <3>1. <<m.dst, m.src>> \in Reads \/ <<m.src, m.dst>> \in Puts
      BY <1>1, <1>3, Arrives DEF FreshInv, RoutedInv, SentBy
    <3> QED
      BY <3>1 DEF SourcesKept
  <2>2. \A rd \in Reads : rd[2] \in Tokens
    BY DeviceAssumption
  <2> QED
    BY <1>4, <2>1, <2>2 DEF FreshInv, RoutedInv, BaseInv, Shape
<1>8. /\ \A n : FreshSource(n) => FreshSource(n)'
      /\ \A t, v : FreshData(t, v) => FreshData(t, v)'
  BY <1>2, <1>7 DEF FreshSource, FreshData
<1>9. \A t \in Tokens : t # m.dst => mem'[t] = mem[t]
  BY <1>4 DEF FreshInv, RoutedInv, BaseInv, Shape
<1>10. m.dst \in Tokens /\ m.kind \in {"read", "data"}
       /\ (m.kind = "data" => mem'[m.dst] = m.val)
  BY <1>1, <1>4 DEF Messages, FreshInv, RoutedInv, BaseInv, Shape
<1>11. FreshSock(old)
  BY <1>a DEF FreshInv, Fresh, FreshSocks
<1>12. FreshSock(sk)'
  <2>1. \A n \in Range(sk.queue) : FreshSource(n)'
    BY <1>5, <1>8, <1>11 DEF FreshSock
  <2>2. \A n \in Range(sk.wire) : /\ n.kind = "read" => FreshSource(n)'
                                  /\ n.kind = "data" => FreshData(n.dst, n.val)'
    BY <1>5, <1>6, <1>8, <1>11 DEF FreshSock
  <2>3. /\ m.kind = "read" => FreshSource(m)'
        /\ m.kind = "data" => FreshData(m.dst, m.val)'
    BY <1>1, <1>8, <1>11 DEF FreshSock
  <2>4. m.kind = "data" => FreshData(m.dst, mem[m.dst])'
    BY <1>10, <2>3 DEF FreshData
  <2> QED
    BY <1>5, <1>6, <2>1, <2>2, <2>3, <2>4 DEF FreshSock
<1>13. ASSUME NEW j \in 1 .. Len(socks), j # i
       PROVE  \A s : s = socks[j] => FreshSock(s)'
  <2> SUFFICES ASSUME NEW s, s = socks[j] PROVE FreshSock(s)'
    OBVIOUS
  <2>1. FreshSock(s)
    BY DEF FreshInv, Fresh, FreshSocks
  <2>2. \A n \in Range(s.got) : n.dst \in Tokens /\ n.dst # m.dst
    <3> SUFFICES ASSUME NEW n \in Range(s.got) PROVE n.dst \in Tokens /\ n.dst # m.dst
      OBVIOUS
    <3>1. n \in InFlight(j)
      BY DEF InFlight
    <3>2. n.dst \in At(socks[j]) /\ m.dst \in At(socks[i])
      BY <1>3, <3>1, AtInFlight
    <3>3. n.dst # m.dst
      BY <1>13, <3>2 DEF FreshInv, RoutedInv, BaseInv, OneMessage
    <3> QED
      BY <3>1, <3>3, FlightTypes DEF FreshInv, RoutedInv, BaseInv, Messages
  <2>3. \A n \in Range(s.got) : n.kind = "data" => FreshData(n.dst, mem[n.dst])'
    <3> SUFFICES ASSUME NEW n \in Range(s.got), n.kind = "data"
                 PROVE  FreshData(n.dst, mem[n.dst])'
      OBVIOUS
    <3>1. FreshData(n.dst, mem[n.dst]) /\ mem'[n.dst] = mem[n.dst]
      BY <1>9, <2>1, <2>2 DEF FreshSock
    <3> QED
      BY <1>2, <3>1 DEF FreshData
  <2> QED
    BY <1>8, <2>1, <2>3 DEF FreshSock
<1>14. FreshSocks'
  <2> SUFFICES ASSUME NEW j \in 1 .. Len(socks') PROVE FreshSock(socks[j])'
    BY DEF FreshSocks
  <2>1. PICK s : s = socks'[j]
    OBVIOUS
  <2>2. FreshSock(s)'
    BY <1>1, <1>12, <1>13, <2>1 DEF Becomes
  <2> QED
    BY <2>1, <2>2 DEF FreshSock
<1>15. FreshCalls'
  <2> SUFFICES ASSUME NEW d \in Threads, Calling(d)' PROVE FreshSource(call[d].msg)'
    BY DEF FreshCalls
  <2>1. PICK n : n = call[d].msg
    OBVIOUS
  <2>2. FreshSource(n)
    BY <1>2, <2>1 DEF FreshInv, Fresh, FreshCalls, Calling
  <2> QED
    BY <1>2, <1>8, <2>1, <2>2 DEF FreshSource
<1>16. ASSUME NEW r \in 1 .. Len(reads), ran[r] = 0, Done(r)
       PROVE  Done(r)'
  <2>1. reads[r].token \in Tokens
    BY ReadRecord DEF FreshInv, RoutedInv, BaseInv
  <2>2. CASE mem' = mem
    BY <1>2, <1>16, <2>2 DEF Done
  <2>3. CASE m.kind = "data" /\ reads[r].token = m.dst
    <3>1. FreshData(m.dst, m.val)
      BY <1>1, <1>11, <2>3 DEF FreshSock
    <3> QED
      BY <1>2, <1>10, <1>16, <2>3, <3>1 DEF FreshData, Done
  <2>4. CASE m.kind = "data" /\ reads[r].token # m.dst
    BY <1>2, <1>9, <1>16, <2>1, <2>4 DEF Done
  <2> QED
    BY <1>4, <2>2, <2>3, <2>4
<1>17. FreshQueue'
  <2>1. \A k \in 1 .. Len(val) : val[k] \in 1 .. Len(reads) /\ ran[val[k]] = 0
    BY ElementOfSeq DEF FreshInv, CallbackInv, QueueShape, OneRun
  <2>2. \A p \in Pollers : poll[p].read # 0 =>
          poll[p].read \in 1 .. Len(reads) /\ ran[poll[p].read] = 0
    BY LenProperties DEF FreshInv, CallbackInv, QueueShape, OneRun, RoutedInv, BaseInv, Shape
  <2>3. \A k \in 1 .. Len(val) : Done(val[k])
    BY DEF FreshInv, Fresh, FreshQueue
  <2>4. \A p \in Pollers : poll[p].read # 0 => Done(poll[p].read)
    BY DEF FreshInv, Fresh, FreshQueue
  <2>5. ASSUME NEW k \in 1 .. Len(val) PROVE \A r : r = val[k] => Done(r)'
    BY <1>16, <2>1, <2>3
  <2>6. ASSUME NEW p \in Pollers, poll[p].read # 0
        PROVE  \A r : r = poll[p].read => Done(r)'
    BY <1>16, <2>2, <2>4, <2>6
  <2> QED
    BY <1>2, <2>5, <2>6 DEF FreshQueue, Done
<1> QED
  BY <1>14, <1>15, <1>17 DEF Fresh

\* ParseNetMsg has its message, and leaves the rest to the socket.
LEMMA ParseFresh ==
  ASSUME FreshInv, NEW i \in 1 .. Len(socks), socks[i].got # <<>>,
         socks' = [socks EXCEPT ![i].got = <<>>], UNCHANGED <<mem, reads, ran>>
  PROVE  FreshSocks'
<1>1. PICK sk : /\ Becomes(i, sk) /\ sk.queue = socks[i].queue /\ sk.wire = socks[i].wire
                /\ sk.got = <<>>
  BY ParsedFlights DEF FreshInv, RoutedInv, BaseInv
<1>2. FreshSock(socks[i])
  BY DEF FreshInv, Fresh, FreshSocks
<1>3. FreshSock(sk)
  BY <1>1, <1>2, ShortLines DEF FreshSock
<1> QED
  BY <1>1, <1>3, FreshSocksKeep DEF FreshInv, Fresh

LEMMA ParseReadFresh ==
  ASSUME Routed, FreshInv, NEW i \in 1 .. Len(socks), ParseRead(i)
  PROVE  Fresh'
<1> DEFINE m == Head(socks[i].got)
           reply == [kind |-> "data", src |-> m.src, dst |-> m.dst, val |-> 0]
           v == [at |-> "find", host |-> socks[i].to, msg |-> reply, sock |-> 0]
<1>1. /\ socks[i].got # <<>> /\ socks' = [socks EXCEPT ![i].got = <<>>]
      /\ UNCHANGED <<mem, reads, ran, val, poll>>
  BY DEF ParseRead, memVars, pollVars, channelVars
<1>2. m \in Range(socks[i].got) /\ m.kind = "read" /\ call' = [call EXCEPT ![i] = v]
  BY ParseReadRouted DEF FreshInv, SendMsg
<1>3. i \in Threads
  BY SocketTypes DEF FreshInv, RoutedInv, BaseInv
<1>4. FreshSource(m)
  BY <1>2 DEF FreshInv, Fresh, FreshSocks, FreshSock
<1> HIDE DEF m
<1>5. FreshSource(v.msg)
  BY <1>4 DEF FreshSource
<1> HIDE DEF v
<1>6. FreshCalls'
  BY <1>1, <1>2, <1>3, <1>5, FreshCallsKeep DEF FreshInv, Fresh, RoutedInv, BaseInv
<1> QED
  BY <1>1, <1>6, ParseFresh, FreshQueueKeeps DEF FreshInv, Fresh

\* The reply that completes a read has come with data that will do.
LEMMA ParseDataFresh ==
  ASSUME Routed, OneSource, FreshInv, NEW i \in 1 .. Len(socks), ParseData(i)
  PROVE  Fresh'
<1> DEFINE m == Head(socks[i].got)
<1>1. /\ socks[i].got # <<>> /\ socks' = [socks EXCEPT ![i].got = <<>>]
      /\ UNCHANGED <<mem, reads, ran, poll>> /\ m.kind = "data"
      /\ IF token2callback[m.dst] # 0
         THEN call' = [call EXCEPT ![i] = [at |-> "erase", token |-> m.dst]]
         ELSE UNCHANGED <<call, val>>
  BY DEF ParseData, memVars, pollVars, channelVars
<1>2. m \in Range(socks[i].got) /\ call[i] = Out /\ i \in Threads
  BY <1>1, ParsedFlights, SocketTypes DEF FreshInv, RoutedInv, BaseInv
<1>3. FreshSocks'
  BY <1>1, ParseFresh
<1>4. FreshCalls'
  <2> DEFINE v == IF token2callback[m.dst] # 0 THEN [at |-> "erase", token |-> m.dst] ELSE Out
  <2> HIDE DEF m
  <2>1. v.at \notin Places
    BY DEF Out, Places
  <2>2. call' = [call EXCEPT ![i] = v]
    BY <1>1, <1>2 DEF FreshInv, RoutedInv, BaseInv, Shape
  <2> HIDE DEF v
  <2> QED
    BY <1>1, <1>2, <2>1, <2>2, FreshCallsKeep DEF FreshInv, Fresh, RoutedInv, BaseInv
<1>5. CASE token2callback[m.dst] = 0
  BY <1>1, <1>3, <1>4, <1>5, FreshQueueKeeps DEF FreshInv, Fresh
<1>6. CASE token2callback[m.dst] # 0
  <2>1. PICK t : t = m.dst
    OBVIOUS
  <2>2. PICK r \in 1 .. Len(reads) : r = token2callback[t]
    BY <1>6, <2>1, ParseDataEffect DEF FreshInv
  <2>3. t \in Tokens /\ reads[r].token = t /\ Registered(r) /\ Send(r)
    BY <1>6, <2>1, <2>2, ParseDataEffect DEF FreshInv
  <2>4. Done(r)
    <3>1. FreshData(t, mem[t])
      BY <1>1, <1>2, <2>1 DEF FreshInv, Fresh, FreshSocks, FreshSock
    <3>2. ran[r] = 0
      BY <2>3 DEF FreshInv, CallbackInv, OneRun
    <3> QED
      BY <2>3, <3>1, <3>2 DEF FreshData, Done
  <2>5. \A k \in 1 .. Len(val') : (k \in 1 .. Len(val) /\ val'[k] = val[k]) \/ val'[k] = r
    <3>1. val \in Seq(1 .. Len(reads)) /\ Len(val) \in Nat
      BY LenProperties DEF FreshInv, CallbackInv, QueueShape
    <3>2. CASE val' = Append(val, r)
      BY <3>1, <3>2, AppendProperties
    <3>3. CASE val' = val
      BY <3>1, <3>3
    <3> QED
      BY <2>3, <3>2, <3>3 DEF Send
  <2>6. \A k \in 1 .. Len(val') : Done(val'[k])
    BY <2>4, <2>5 DEF FreshInv, Fresh, FreshQueue
  <2>7. FreshQueue'
    BY <1>1, <2>6 DEF FreshInv, Fresh, FreshQueue, Done
  <2> QED
    BY <1>3, <1>4, <2>7 DEF Fresh
<1> QED
  BY <1>5, <1>6

LEMMA SendingFresh ==
  ASSUME FreshInv, NEW c \in Threads, Sending(c)
  PROVE  Fresh'
<1>1. CASE Seeking(c)
  <2>1. PICK v : /\ call' = [call EXCEPT ![c] = v]
                 /\ v.at \in Places /\ v.host = call[c].host /\ v.msg = call[c].msg
    BY <1>1, SearchEffect DEF FreshInv, RoutedInv
  <2>2. /\ Calling(c) /\ UNCHANGED <<mem, reads, ran, val, poll>>
        /\ Len(socks) <= Len(socks') /\ Len(socks') \in Nat
        /\ \A i \in 1 .. Len(socks) : socks'[i] = socks[i]
        /\ \A i \in (1 .. Len(socks')) \ (1 .. Len(socks)) : InFlight(i)' = {}
    BY <1>1, SearchEffect DEF FreshInv, RoutedInv, memVars, pollVars, channelVars
  <2>3. FreshSource(v.msg)
    BY <2>1, <2>2 DEF FreshInv, Fresh, FreshCalls
  <2>4. FreshCalls'
    BY <2>1, <2>2, <2>3, FreshCallsKeep DEF FreshInv, Fresh, RoutedInv, BaseInv
  <2>5. FreshSocks'
    <3> SUFFICES ASSUME NEW j \in 1 .. Len(socks') PROVE FreshSock(socks[j])'
      BY DEF FreshSocks
    <3>1. PICK s : s = socks'[j]
      OBVIOUS
    <3>2. FreshSock(s)
      <4>1. CASE j \in 1 .. Len(socks)
        BY <2>2, <3>1, <4>1 DEF FreshInv, Fresh, FreshSocks
      <4>2. CASE j \notin 1 .. Len(socks)
        <5>1. Range(s.queue) \cup Range(s.wire) \cup Range(s.got) = {}
          BY <2>2, <3>1, <4>2 DEF InFlight
        <5> QED
          BY <5>1 DEF FreshSock
      <4> QED
        BY <4>1, <4>2
    <3>3. FreshSock(s)'
      BY <2>2, <3>2, SameData
    <3> QED
      BY <3>1, <3>3 DEF FreshSock
  <2> QED
    BY <2>2, <2>4, <2>5, FreshQueueKeeps DEF FreshInv, Fresh
<1>2. CASE PushMsg(c)
  <2>1. PICK i \in 1 .. Len(socks) : i = call[c].sock
    BY <1>2, PushFlights DEF FreshInv, RoutedInv
  <2>2. /\ Calling(c)
        /\ \E sk : /\ Becomes(i, sk)
                   /\ Range(sk.queue) = Range(socks[i].queue) \cup {call[c].msg}
                   /\ sk.wire = socks[i].wire /\ sk.got = socks[i].got
    BY <1>2, <2>1, PushFlights DEF FreshInv, RoutedInv
  <2>3. PICK sk : /\ Becomes(i, sk)
                  /\ Range(sk.queue) = Range(socks[i].queue) \cup {call[c].msg}
                  /\ sk.wire = socks[i].wire /\ sk.got = socks[i].got
    BY <2>2
  <2>4. /\ call' = [call EXCEPT ![c] = Out] /\ Out.at \notin Places
        /\ UNCHANGED <<mem, reads, ran, val, poll>>
    BY <1>2 DEF PushMsg, Out, Places, memVars, pollVars, channelVars
  <2>5. FreshSource(call[c].msg) /\ FreshSock(socks[i])
    BY <2>2 DEF FreshInv, Fresh, FreshCalls, FreshSocks
  <2>6. FreshSock(sk)
    BY <2>3, <2>5 DEF FreshSock
  <2>7. FreshSocks' /\ FreshCalls'
    BY <2>3, <2>4, <2>6, FreshSocksKeep, FreshCallsKeep
       DEF FreshInv, Fresh, RoutedInv, BaseInv
  <2> QED
    BY <2>4, <2>7, FreshQueueKeeps DEF FreshInv, Fresh
<1> QED
  BY <1>1, <1>2 DEF Sending, Seeking

\* A put goes to a token that no read is pending for.
LEMMA SendDataFresh ==
  ASSUME FreshInv, NEW u \in Users, NEW h, NEW src, NEW dst, SendData(u, h, src, dst)
  PROVE  Fresh'
<1> DEFINE m == [kind |-> "data", src |-> src, dst |-> dst, val |-> 0]
           v == [at |-> "find", host |-> h, msg |-> m, sock |-> 0]
<1>1. /\ u \in Threads /\ UNCHANGED <<mem, reads, ran, val, poll, socks>>
      /\ \/ UNCHANGED call
         \/ call' = [call EXCEPT ![u] = v] /\ Free(dst)
  BY DEF SendData, SendMsg, Threads, sockVars, pollVars, channelVars
<1>2. Free(dst) => FreshSource(v.msg)
  BY DEF Free, FreshSource
<1> HIDE DEF v
<1>3. FreshCalls'
  <2>1. CASE UNCHANGED call
    BY <1>1, <2>1 DEF FreshInv, Fresh, FreshCalls, Calling, FreshSource
  <2>2. CASE call' = [call EXCEPT ![u] = v] /\ Free(dst)
    BY <1>1, <1>2, <2>2, FreshCallsKeep DEF FreshInv, Fresh, RoutedInv, BaseInv
  <2> QED
    BY <1>1, <2>1, <2>2
<1>4. FreshSocks'
  BY <1>1 DEF FreshInv, Fresh, FreshSocks, FreshSock, FreshSource, FreshData
<1> QED
  BY <1>1, <1>3, <1>4, FreshQueueKeeps DEF FreshInv, Fresh

\* A new read asks for what there is now, and no message for its token is
\* under way.
LEMMA ReadDataFresh ==
  ASSUME FreshInv, NEW u \in Users, NEW rd \in Reads, ReadData(u, rd[1], rd[2])
  PROVE  Fresh'
<1>a. PICK src, dst : src = rd[1] /\ dst = rd[2] /\ <<src, dst>> \in Reads
                      /\ src \in Tokens /\ dst \in Tokens
  <2>1. rd = <<rd[1], rd[2]>> /\ rd[1] \in Tokens /\ rd[2] \in Tokens
    BY DeviceAssumption
  <2> QED
    BY <2>1
<1>b. PICK n \in Nat : n = Len(reads)
  BY LenProperties DEF FreshInv, RoutedInv, BaseInv, Shape
<1>c. PICK r : r = [token |-> src, since |-> mem[dst], kept |-> token2callback[src] = 0]
  OBVIOUS
<1> DEFINE m == [kind |-> "read", src |-> dst, dst |-> src, val |-> 0]
           v == [at |-> "find", host |-> Home[src], msg |-> m, sock |-> 0]
<1>1. /\ call' = [call EXCEPT ![u] = v] /\ u \in Threads /\ Free(src)
      /\ reads' = Append(reads, r)
      /\ UNCHANGED <<mem, ran, val, poll, socks>>
  BY <1>a, <1>c DEF ReadData, SendMsg, Threads, sockVars, pollVars, channelVars
<1>2. /\ reads \in Seq(ReadTypes) /\ r \in ReadTypes /\ mem[dst] \in Nat
  BY <1>a, <1>c, DeviceAssumption DEF FreshInv, RoutedInv, BaseInv, Shape, ReadTypes, Versions
<1>3. /\ Len(reads') = n + 1 /\ reads'[n + 1] = r
      /\ \A k \in 1 .. n : reads'[k] = reads[k]
      /\ \A k \in 1 .. Len(reads') : k \in 1 .. n \/ k = n + 1
  BY <1>1, <1>2, <1>b, AppendProperties
<1>4. r.token = src /\ r.since = mem[dst]
  BY <1>c
<1>5. ASSUME NEW x, FreshSource(x), x.dst # src PROVE FreshSource(x)'
  <2>1. \A k \in 1 .. Len(reads') : reads'[k].token = x.dst => k \in 1 .. n
    BY <1>3, <1>4, <1>5
  <2> QED
    BY <1>1, <1>3, <1>5, <1>b, <2>1 DEF FreshSource
<1>6. ASSUME NEW t, NEW w, FreshData(t, w), t # src PROVE FreshData(t, w)'
  <2>1. \A k \in 1 .. Len(reads') : reads'[k].token = t => k \in 1 .. n
    BY <1>3, <1>4, <1>6
  <2> QED
    BY <1>1, <1>3, <1>6, <1>b, <2>1 DEF FreshData
<1>7. /\ \A i \in 1 .. Len(socks) : \A x \in InFlight(i) : x.dst # src
      /\ \A c \in Threads : Calling(c) => call[c].msg.dst # src
      /\ \A k \in 1 .. n : reads[k].token = src => ran[k] > 0
  BY <1>1, <1>b DEF Free, Calling, Places
<1>8. FreshCalls'
  <2> SUFFICES ASSUME NEW d \in Threads, Calling(d)' PROVE FreshSource(call[d].msg)'
    BY DEF FreshCalls
  <2>1. PICK x : x = call'[d].msg
    OBVIOUS
  <2>2. CASE d = u
    <3>1. x = m
      BY <1>1, <2>1, <2>2 DEF FreshInv, RoutedInv, BaseInv, Shape
    <3>2. FreshSource(x)'
      <4> SUFFICES ASSUME NEW k \in 1 .. Len(reads'), ran'[k] = 0, reads'[k].token = x.dst
                   PROVE  <<x.dst, x.src>> \in Reads /\ mem'[x.src] >= reads'[k].since
        BY DEF FreshSource
      <4>1. x.dst = src /\ x.src = dst
        BY <3>1
      <4>2. k = n + 1
        BY <1>1, <1>3, <1>7, <4>1
      <4> QED
        BY <1>1, <1>2, <1>3, <1>4, <1>a, <4>1, <4>2
    <3> QED
      BY <2>1, <3>2 DEF FreshSource
  <2>3. CASE d # u
    <3>1. call'[d] = call[d]
      BY <1>1, <2>3 DEF FreshInv, RoutedInv, BaseInv, Shape
    <3>2. FreshSource(x) /\ x.dst # src
      BY <1>7, <2>1, <3>1 DEF FreshInv, Fresh, FreshCalls, Calling
    <3>3. FreshSource(x)'
      BY <1>5, <3>2
    <3> QED
      BY <2>1, <3>3 DEF FreshSource
  <2> QED
    BY <2>2, <2>3
<1>9. FreshSocks'
  <2> SUFFICES ASSUME NEW j \in 1 .. Len(socks) PROVE FreshSock(socks[j])'
    BY <1>1 DEF FreshSocks
  <2>1. PICK s : s = socks[j]
    OBVIOUS
  <2>2. \A x \in Range(s.queue) \cup Range(s.wire) \cup Range(s.got) : x.dst # src
    BY <1>7, <2>1 DEF InFlight
  <2>3. FreshSock(s)
    BY <2>1 DEF FreshInv, Fresh, FreshSocks
  <2>4. \A x \in Range(s.queue) : FreshSource(x)'
    BY <1>5, <2>2, <2>3 DEF FreshSock
  <2>5. \A x \in Range(s.wire) : /\ x.kind = "read" => FreshSource(x)'
                                 /\ x.kind = "data" => FreshData(x.dst, x.val)'
    BY <1>5, <1>6, <2>2, <2>3 DEF FreshSock
  <2>6. \A x \in Range(s.got) : x.kind = "read" => FreshSource(x)'
    BY <1>5, <2>2, <2>3 DEF FreshSock
  <2>7. ASSUME NEW x \in Range(s.got), x.kind = "data"
        PROVE  FreshData(x.dst, mem[x.dst])'
    <3>1. PICK w : w = mem[x.dst]
      OBVIOUS
    <3>2. FreshData(x.dst, w)
      BY <2>3, <2>7, <3>1 DEF FreshSock
    <3>3. FreshData(x.dst, w)'
      BY <1>6, <2>2, <3>2
    <3> QED
      BY <1>1, <3>1, <3>3 DEF FreshData
  <2>8. FreshSock(s)'
    BY <2>4, <2>5, <2>6, <2>7 DEF FreshSock
  <2> QED
    BY <1>1, <2>1, <2>8 DEF FreshSock
<1>10. FreshQueue'
  <2>1. \A k \in 1 .. Len(val) : val[k] \in 1 .. n /\ Done(val[k])
    BY <1>b, ElementOfSeq DEF FreshInv, CallbackInv, QueueShape, Fresh, FreshQueue
  <2>2. \A p \in Pollers : poll[p].read # 0 => poll[p].read \in 1 .. n /\ Done(poll[p].read)
    BY <1>b DEF FreshInv, CallbackInv, QueueShape, Fresh, FreshQueue
  <2> QED
    BY <1>1, <1>3, <2>1, <2>2 DEF FreshQueue, Done
<1> QED
  BY <1>8, <1>9, <1>10 DEF Fresh

\* Nothing moves, the data only get newer, and no read becomes pending.
LEMMA FreshStays ==
  ASSUME FreshInv, UNCHANGED <<reads, sockVars, call>>,
         mem' \in [Tokens -> Versions], \A t \in Tokens : mem'[t] >= mem[t],
         \A r \in 1 .. Len(reads) : ran'[r] = 0 => ran[r] = 0
  PROVE  FreshCalls' /\ FreshSocks' /\ \A r \in 1 .. Len(reads) : Done(r) => Done(r)'
<1>1. /\ \A t \in Tokens : mem[t] \in Nat /\ mem'[t] \in Nat
      /\ \A r \in 1 .. Len(reads) : reads[r].since \in Nat /\ reads[r].token \in Tokens
      /\ \A rd \in Reads : rd[2] \in Tokens
  <2>1. \A w \in Versions : w \in Nat
    BY DeviceAssumption DEF Versions
  <2>2. mem \in [Tokens -> Versions] /\ \A r \in 1 .. Len(reads) : reads[r].since \in Versions
                                          /\ reads[r].token \in Tokens
    BY ReadRecord DEF FreshInv, RoutedInv, BaseInv, Shape
  <2> QED
    BY <2>1, <2>2, DeviceAssumption
<1>2. ASSUME NEW x, FreshSource(x) PROVE FreshSource(x)'
  <2> SUFFICES ASSUME NEW r \in 1 .. Len(reads), ran'[r] = 0, reads[r].token = x.dst
               PROVE  <<x.dst, x.src>> \in Reads /\ mem'[x.src] >= reads[r].since
    BY DEF FreshSource
  <2>1. <<x.dst, x.src>> \in Reads /\ mem[x.src] >= reads[r].since
    BY <1>2 DEF FreshSource
  <2>2. x.src \in Tokens
    BY <1>1, <2>1
  <2>3. /\ mem[x.src] \in Nat /\ mem'[x.src] \in Nat /\ reads[r].since \in Nat
        /\ mem'[x.src] >= mem[x.src]
    BY <1>1, <2>2
  <2> QED
    BY <2>1, <2>3
<1>3. ASSUME NEW t, NEW w, FreshData(t, w) PROVE FreshData(t, w)'
  BY <1>3 DEF FreshData
<1>4. ASSUME NEW t \in Tokens, FreshData(t, mem[t]) PROVE FreshData(t, mem[t])'
  <2> SUFFICES ASSUME NEW r \in 1 .. Len(reads), ran'[r] = 0, reads[r].token = t
               PROVE  mem'[t] >= reads[r].since
    BY DEF FreshData
  <2>1. mem[t] >= reads[r].since
    BY <1>4 DEF FreshData
  <2>2. /\ mem[t] \in Nat /\ mem'[t] \in Nat /\ reads[r].since \in Nat /\ mem'[t] >= mem[t]
    BY <1>1
  <2> QED
    BY <2>1, <2>2
<1>5. FreshCalls'
  <2> SUFFICES ASSUME NEW d \in Threads, Calling(d)' PROVE FreshSource(call[d].msg)'
    BY DEF FreshCalls
  <2>1. PICK x : x = call'[d].msg
    OBVIOUS
  <2>2. FreshSource(x)
    BY <2>1 DEF FreshInv, Fresh, FreshCalls, Calling
  <2>3. FreshSource(x)'
    BY <1>2, <2>2
  <2> QED
    BY <2>1, <2>3 DEF FreshSource
<1>6. FreshSocks'
  <2> SUFFICES ASSUME NEW j \in 1 .. Len(socks) PROVE FreshSock(socks[j])'
    BY DEF FreshSocks, sockVars
  <2>1. PICK s : s = socks[j] /\ s = socks'[j]
    BY DEF sockVars
  <2>2. FreshSock(s)
    BY <2>1 DEF FreshInv, Fresh, FreshSocks
  <2>3. \A x \in Range(s.got) : x.dst \in Tokens
    <3>1. \A x \in Range(s.got) : x \in Messages
      BY <2>1, FlightTypes DEF InFlight, FreshInv, RoutedInv, BaseInv
    <3> QED
      BY <3>1 DEF Messages
  <2>4. FreshSock(s)'
    BY <1>2, <1>3, <1>4, <2>2, <2>3 DEF FreshSock
  <2> QED
    BY <2>1, <2>4 DEF FreshSock
<1>7. ASSUME NEW r \in 1 .. Len(reads), Done(r) PROVE Done(r)'
  <2>1. reads[r].token \in Tokens
    BY <1>1
  <2>2. /\ mem[reads[r].token] \in Nat /\ mem'[reads[r].token] \in Nat
        /\ reads[r].since \in Nat /\ mem'[reads[r].token] >= mem[reads[r].token]
    BY <1>1, <2>1
  <2>3. mem[reads[r].token] >= reads[r].since
    BY <1>7 DEF Done
  <2> QED
    BY <2>2, <2>3 DEF Done
<1> QED
  BY <1>5, <1>6, <1>7

\* What is in the queue and in hands are reads.
LEMMA Queueds ==
  ASSUME FreshInv
  PROVE  /\ \A k \in 1 .. Len(val) : val[k] \in 1 .. Len(reads) /\ Done(val[k])
         /\ \A p \in Pollers : poll[p].read # 0 =>
              poll[p].read \in 1 .. Len(reads) /\ Done(poll[p].read)
<1>1. \A k \in 1 .. Len(val) : val[k] \in 1 .. Len(reads)
  BY ElementOfSeq DEF FreshInv, CallbackInv, QueueShape
<1>2. \A p \in Pollers : poll[p].read # 0 => poll[p].read \in 1 .. Len(reads)
  BY LenProperties DEF FreshInv, CallbackInv, QueueShape, RoutedInv, BaseInv, Shape
<1> QED
  BY <1>1, <1>2 DEF FreshInv, Fresh, FreshQueue

LEMMA WriteFresh ==
  ASSUME FreshInv, NEW t \in Tokens, WriteMemory(t)
  PROVE  Fresh'
<1>1. /\ mem \in [Tokens -> Versions] /\ MaxWrites \in Nat /\ mem[t] < MaxWrites
      /\ mem' = [mem EXCEPT ![t] = @ + 1]
      /\ UNCHANGED <<reads, sockVars, call, val, poll, ran>>
  BY DeviceAssumption DEF WriteMemory, FreshInv, RoutedInv, BaseInv, Shape, sockVars,
                          pollVars, channelVars
<1>2. mem' \in [Tokens -> Versions] /\ \A s \in Tokens : mem'[s] >= mem[s]
  BY <1>1 DEF Versions
<1>3. FreshCalls' /\ FreshSocks' /\ \A r \in 1 .. Len(reads) : Done(r) => Done(r)'
  BY <1>1, <1>2, FreshStays
<1>4. FreshQueue'
  <2>1. \A k \in 1 .. Len(val) : \A r : r = val[k] => Done(r)'
    BY <1>3, Queueds
  <2>2. \A p \in Pollers : poll[p].read # 0 => \A r : r = poll[p].read => Done(r)'
    BY <1>3, Queueds
  <2> QED
    BY <1>1, <2>1, <2>2 DEF FreshQueue, Done
<1> QED
  BY <1>3, <1>4 DEF Fresh

LEMMA QueueFresh ==
  ASSUME FreshInv, CloseCompletionQueue \/ \E p \in Pollers : PollCompletionQueue(p)
  PROVE  Fresh'
<1>1. UNCHANGED <<memVars, token2callback, sockVars, call, fate>>
  BY QueueStep
<1>2. /\ UNCHANGED <<mem, reads, sockVars, call>>
      /\ mem' \in [Tokens -> Versions] /\ \A t \in Tokens : mem'[t] >= mem[t]
  <2>1. \A w \in Versions : w >= w
    BY DeviceAssumption DEF Versions
  <2> QED
    BY <1>1, <2>1 DEF memVars, FreshInv, RoutedInv, BaseInv, Shape
<1>3. ASSUME \A r \in 1 .. Len(reads) : ran'[r] = 0 => ran[r] = 0,
             \A k \in 1 .. Len(val') : \E l \in 1 .. Len(val) : val'[k] = val[l],
             \A p \in Pollers : poll'[p].read # 0 =>
               \/ poll'[p].read = poll[p].read
               \/ \E l \in 1 .. Len(val) : poll'[p].read = val[l]
      PROVE  Fresh'
  <2>1. FreshCalls' /\ FreshSocks' /\ \A r \in 1 .. Len(reads) : Done(r) => Done(r)'
    BY <1>2, <1>3, FreshStays
  <2>2. \A k \in 1 .. Len(val') : \A r : r = val'[k] => Done(r)'
    BY <1>3, <2>1, Queueds
  <2>3. \A p \in Pollers : poll'[p].read # 0 => \A r : r = poll'[p].read => Done(r)'
    BY <1>3, <2>1, Queueds
  <2>4. FreshQueue'
    BY <2>2, <2>3 DEF FreshQueue, Done
  <2> QED
    BY <2>1, <2>4 DEF Fresh
<1>4. CASE CloseCompletionQueue
  BY <1>3, <1>4 DEF CloseCompletionQueue, CloseSendEnd, CloseReceiveEnd, pollVars
<1>5. ASSUME NEW p \in Pollers, PollBlock(p) PROVE Fresh'
  BY <1>3, <1>5 DEF PollBlock, Block, pollVars
<1>6. ASSUME NEW p \in Pollers, PollReturn(p) PROVE Fresh'
  <2>1. /\ val' = val /\ ran' = ran /\ poll' = [poll EXCEPT ![p].at = "returned"]
        /\ poll \in [Pollers -> [at : {"receive", "run", "returned"}, read : 0 .. Len(reads)]]
    BY <1>6 DEF PollReturn, GiveUp, channelVars, FreshInv, CallbackInv, QueueShape
  <2>2. \A q \in Pollers : poll'[q].read = poll[q].read
    BY <2>1
  <2> QED
    BY <1>3, <2>1, <2>2
<1>7. ASSUME NEW p \in Pollers, PollTake(p) PROVE Fresh'
  <2>1. /\ val # <<>> /\ val \in Seq(1 .. Len(reads)) /\ val' = Tail(val) /\ ran' = ran
        /\ poll' = [poll EXCEPT ![p] = [at |-> "run", read |-> Head(val)]]
    BY <1>7 DEF PollTake, Take, FreshInv, CallbackInv, QueueShape
  <2>2. /\ Len(val) \in Nat \ {0} /\ Head(val) = val[1] /\ Len(val') = Len(val) - 1
        /\ \A k \in 1 .. Len(val) - 1 : val'[k] = val[k + 1]
    BY <2>1, HeadTailProperties, EmptySeq, LenProperties
  <2>3. \A k \in 1 .. Len(val') : k + 1 \in 1 .. Len(val) /\ val'[k] = val[k + 1]
    BY <2>2
  <2>4. 1 \in 1 .. Len(val)
    BY <2>2
  <2>5. \A q \in Pollers : poll'[q].read = IF q = p THEN val[1] ELSE poll[q].read
    BY <2>1, <2>2 DEF FreshInv, CallbackInv, QueueShape
  <2> QED
    BY <1>3, <2>1, <2>3, <2>4, <2>5
<1>8. ASSUME NEW p \in Pollers, RunCallback(p) PROVE Fresh'
  <2>1. /\ val' = val /\ ran' = [ran EXCEPT ![poll[p].read] = @ + 1]
        /\ poll' = [poll EXCEPT ![p] = Awaiting] /\ ran \in [Calls -> Nat]
        /\ poll \in [Pollers -> [at : {"receive", "run", "returned"}, read : 0 .. Len(reads)]]
    BY <1>8 DEF RunCallback, channelVars, FreshInv, CallbackInv, QueueShape
  <2>2. \A q \in Pollers : poll'[q].read # 0 => poll'[q].read = poll[q].read
    BY <2>1 DEF Awaiting
  <2>3. \A r \in 1 .. Len(reads) : r \in Calls
    BY LenProperties, DeviceAssumption DEF Calls, FreshInv, RoutedInv, BaseInv, Shape
  <2>4. \A r \in 1 .. Len(reads) : ran'[r] = 0 => ran[r] = 0
    <3>1. PICK x : x = poll[p].read
      OBVIOUS
    <3>2. \A r \in Calls : ran'[r] = IF r = x THEN ran[r] + 1 ELSE ran[r]
      BY <2>1, <3>1
    <3>3. \A r \in Calls : ran[r] \in Nat
      BY <2>1
    <3> QED
      BY <2>3, <3>2, <3>3
  <2> QED
    BY <1>3, <2>1, <2>2, <2>4
<1> QED
  BY <1>4, <1>5, <1>6, <1>7, <1>8 DEF PollCompletionQueue

LEMMA EraseFresh ==
  ASSUME FreshInv, NEW i \in Sockets, EraseCallback(i)
  PROVE  Fresh'
<1>1. /\ call' = [call EXCEPT ![i] = Out] /\ Out.at \notin Places /\ i \in Threads
      /\ UNCHANGED <<mem, reads, ran, val, poll, socks>>
  BY DEF EraseCallback, Out, Places, Threads, memVars, sockVars, pollVars, channelVars
<1>2. FreshCalls'
  BY <1>1, FreshCallsKeep DEF FreshInv, Fresh, RoutedInv, BaseInv
<1>3. FreshSocks'
  BY <1>1 DEF FreshInv, Fresh, FreshSocks, FreshSock, FreshSource, FreshData
<1> QED
  BY <1>1, <1>2, <1>3, FreshQueueKeeps DEF FreshInv, Fresh

LEMMA NextFresh ==
  ASSUME Routed, OneSource, SourcesKept, FreshInv, [Next]_vars
  PROVE  FreshInv'
<1>1. RoutedInv' /\ CallbackInv'
  BY NextRouted, NextCallback DEF FreshInv
<1>2. DOMAIN socks = 1 .. Len(socks)
  BY LenProperties DEF FreshInv, RoutedInv, BaseInv, Shape
<1>3. ASSUME NEW u \in Users, User(u) \/ Sending(u) PROVE Fresh'
  BY <1>3, ReadDataFresh, SendDataFresh, SendingFresh DEF User, Threads
<1>4. ASSUME NEW i \in Sockets, Worker(i) PROVE Fresh'
  <2>1. CASE i \in DOMAIN socks /\ (Receive(i) \/ ParseRead(i) \/ ParseData(i))
    BY <1>2, <2>1, ReceiveFresh, ParseReadFresh, ParseDataFresh
  <2>2. CASE EraseCallback(i) \/ Sending(i)
    BY <2>2, EraseFresh, SendingFresh DEF Threads
  <2> QED
    BY <1>4, <2>1, <2>2 DEF Worker
<1>5. ASSUME NEW i \in DOMAIN socks, Transmit(i) PROVE Fresh'
  BY <1>2, <1>5, TransmitFresh
<1>6. ASSUME NEW t \in {rd[2] : rd \in Reads}, WriteMemory(t) PROVE Fresh'
  <2>1. t \in Tokens
    BY DeviceAssumption
  <2> QED
    BY <1>6, <2>1, WriteFresh
<1>7. CASE CloseCompletionQueue \/ \E p \in Pollers : PollCompletionQueue(p)
  BY <1>1, <1>7, QueueFresh DEF FreshInv
<1>8. CASE UNCHANGED vars
  <2>1. UNCHANGED <<mem, reads, ran, val, poll, socks, call>>
    BY <1>8 DEF vars, memVars, sockVars, pollVars, channelVars
  <2>2. FreshCalls'
    BY <2>1 DEF FreshInv, Fresh, FreshCalls, FreshSource, Calling
  <2>3. FreshSocks'
    BY <2>1 DEF FreshInv, Fresh, FreshSocks, FreshSock, FreshSource, FreshData
  <2> QED
    BY <1>1, <2>1, <2>2, <2>3, FreshQueueKeeps DEF FreshInv, Fresh
<1> QED
  BY <1>1, <1>3, <1>4, <1>5, <1>6, <1>7, <1>8 DEF Next, FreshInv

(***************************************************************************)
(* If, besides, no message writes what is read, a callback is queued and   *)
(* runs only when its token's memory holds data no older than the read:    *)
(* of replies that cross the wire in any order, none is taken for another, *)
(* and nothing older is stored over them before the callback ran.          *)
(***************************************************************************)
THEOREM ReadsAreFresh ==
  ASSUME Routed, OneSource, SourcesKept PROVE Spec => []ReadFresh
<1>1. Init => FreshInv
  <2> SUFFICES ASSUME Init PROVE FreshInv
    OBVIOUS
  <2>1. /\ socks = <<>> /\ val = <<>> /\ \A p \in Pollers : poll[p].read = 0
        /\ \A c \in Threads : call[c].at = "out"
    BY DEF Init, ChannelInit, Out, Awaiting
  <2>2. Fresh
    BY <2>1 DEF Fresh, FreshCalls, FreshSocks, FreshQueue, Calling, Places
  <2> QED
    BY <2>2, InitRouted, InitCallback DEF FreshInv
<1>2. FreshInv /\ [Next]_vars => FreshInv'
  BY NextFresh
<1>3. FreshInv => ReadFresh
  <2> SUFFICES ASSUME FreshInv, NEW r \in 1 .. Len(reads), Queued(r) + InHand(r) > 0
               PROVE  Done(r)
    BY DEF ReadFresh, Done
  <2>1. CASE \E k \in 1 .. Len(val) : val[k] = r
    BY <2>1, Queueds
  <2>2. CASE \E p \in Pollers : poll[p].read = r
    BY <2>2, Queueds
  <2>3. CASE /\ \A k \in 1 .. Len(val) : val[k] # r
             /\ \A p \in Pollers : poll[p].read # r
    <3>1. /\ {k \in 1 .. Len(val) : val[k] = r} = {}
          /\ {p \in Pollers : poll[p].read = r} = {}
      BY <2>3
    <3>2. Queued(r) = 0 /\ InHand(r) = 0
      BY <3>1, FS_EmptySet DEF Queued, InHand
    <3> QED
      BY <3>2
  <2> QED
    BY <2>1, <2>2, <2>3
<1> QED
  BY <1>1, <1>2, <1>3, PTL DEF Spec
=============================================================================
