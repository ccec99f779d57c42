----------------------------- MODULE NetStream ------------------------------
(***************************************************************************)
(* Two connected NetSockets and the stream of bytes between them, seen     *)
(* from the messages: AsyncSendMsg and DequeueNetMsgToBuf, SendRaw, which  *)
(* writes a message's header from out_buf and its data from where they are *)
(* stored, and RecvRaw, which reads the header into in_buf and the data    *)
(* where the destination's token says.  write() and read() may cut the     *)
(* stream anywhere.                                                        *)
(*                                                                         *)
(* Bytes are counted in units, H to a header.  A unit is named by its      *)
(* message and its place in the message: <<i, k>> is the k-th unit, from   *)
(* 0, of the i-th message, at out_buf + k or, past the header, at          *)
(* src.address + k - H.                                                    *)
(***************************************************************************)
EXTENDS Integers, Sequences, FiniteSets, FiniteSetsExt

CONSTANTS
  H,           \* sizeof(NetMsg)
  Lens,        \* the sizes of the data of data messages
  Cmd,         \* what "extra" holds in a command
  MaxMsgs,     \* bound: messages in all
  Room,        \* units the kernel keeps between write() and read()
  IntMax,      \* INT_MAX
  MemSize      \* units the owner provides at Token2Dptr(dst.token)

\* A message is no longer than an int counts, or its offset wraps around.
ASSUME StreamAssumption ==
  /\ H \in Nat \ {0} /\ Room \in Nat \ {0} /\ MaxMsgs \in Nat /\ Cmd \in Nat
  /\ Lens \subseteq 0 .. MemSize /\ {IntMax, MemSize} \subseteq Nat
  /\ H <= IntMax /\ \A l \in Lens : H + l <= IntMax

VARIABLES
  sent,        \* the messages given to AsyncSendMsg
  loaded,      \* how many of them went from the queue to out_buf
  busy,        \* is_out_buf_busy_
  out_offset,
  wire,        \* the units between the two sockets
  in_buf,
  in_offset,
  mem,         \* the memory at Token2Dptr(dst.token)
  got          \* the messages received, with what their data were then

sendVars == <<sent, loaded, busy, out_offset>>
recvVars == <<in_buf, in_offset, mem, got>>
vars == <<sendVars, wire, recvVars>>

NetMsgs == [msg_type : {0}, extra : {Cmd}] \cup [msg_type : {1}, extra : Lens]
Nothing == <<0, 0>>
Units == (0 .. MaxMsgs) \X Int

TypeOK ==
  /\ sent \in Seq(NetMsgs) /\ Len(sent) <= MaxMsgs
  /\ loaded \in 0 .. Len(sent)
  /\ busy \in BOOLEAN /\ (busy => loaded > 0)
  /\ {out_offset, in_offset} \subseteq Int
  /\ wire \in Seq(Units) /\ Len(wire) <= Room
  /\ in_buf \in [1 .. H -> Units] /\ mem \in [1 .. MemSize -> Units]
  /\ got \in Seq([header : Seq(Units), data : Seq(Units)])
  /\ Len(got) <= loaded

Init ==
  /\ sent = <<>> /\ loaded = 0 /\ busy = FALSE /\ out_offset = 0
  /\ wire = <<>>
  /\ in_buf = [k \in 1 .. H |-> Nothing] /\ in_offset = 0
  /\ mem = [k \in 1 .. MemSize |-> Nothing]
  /\ got = <<>>
-----------------------------------------------------------------------------
(* Offsets and sizes. *)

\* What an int keeps of n.
Narrow(n) == ((n + IntMax + 1) % (2 * (IntMax + 1))) - (IntMax + 1)

\* Mutant: the size of the data is taken from commands as well.
TotalAlways(m) == H + m.extra

TotalSz(m) == H + (IF m.msg_type = 1 THEN m.extra ELSE 0)

\* off < sizeof(NetMsg), compared without sign.
InHeader(off) == 0 <= off /\ off < H

\* What a call that asks for n units may get of `there' units.
Cut(n, there) == IF there = 0 THEN {0} ELSE 1 .. Min({n, there})

HeaderCut(off, there) == IF InHeader(off) THEN Cut(H - off, there) ELSE {0}

\* Mutant: one unit too many is asked for.
DataCutMore(off, total, there) ==
  IF ~InHeader(off) /\ off < total THEN Cut(total - off + 1, there) ELSE {0}

DataCut(off, total, there) ==
  IF ~InHeader(off) /\ off < total THEN Cut(total - off, there) ELSE {0}
-----------------------------------------------------------------------------
(* The sender. *)

AsyncSendMsg(m) ==
  /\ Len(sent) < MaxMsgs
  /\ sent' = Append(sent, m)
  /\ UNCHANGED <<loaded, busy, out_offset, wire, recvVars>>

\* Units off .. off + n - 1 of message i.
Piece(i, off, n) == [k \in 1 .. n |-> <<i, off + k - 1>>]

\* SendRaw of message i from offset off on: what of its header the kernel
\* takes, then of its data.
SendRaw(i, off) ==
  LET total == TotalSz(sent[i])
      space == Room - Len(wire)
  IN
  \E h \in HeaderCut(off, space) : \E d \in DataCut(Narrow(off + h), total, space - h) :
    /\ wire' = wire \o Piece(i, off, h + d)
    /\ out_offset' = Narrow(Narrow(off + h) + d)
    /\ busy' = (out_offset' < total)

\* Mutant: DequeueNetMsgToBuf leaves out_offset alone.
FdOutKeepOffset ==
  /\ Len(wire) < Room
  /\ IF busy THEN SendRaw(loaded, out_offset) /\ UNCHANGED loaded
     ELSE /\ loaded < Len(sent)
          /\ loaded' = loaded + 1
          /\ SendRaw(loaded', out_offset)
  /\ UNCHANGED <<sent, recvVars>>

\* The descriptor is writable; DequeueNetMsgToBuf unless out_buf is busy.
FdOut ==
  /\ Len(wire) < Room
  /\ IF busy THEN SendRaw(loaded, out_offset) /\ UNCHANGED loaded
     ELSE /\ loaded < Len(sent)
          /\ loaded' = loaded + 1
          /\ SendRaw(loaded', 0)
  /\ UNCHANGED <<sent, recvVars>>
-----------------------------------------------------------------------------
(* The receiver. *)

\* The units in ps are stored from offset off on.
Store(buf, off, ps) ==
  [k \in DOMAIN buf |-> IF k - off \in DOMAIN ps THEN ps[k - off] ELSE buf[k]]

\* The message whose header buf is.  Parts of several headers mean something
\* else; here a command.
Parse(buf) ==
  LET whole == {i \in DOMAIN sent : \A k \in 1 .. H : buf[k] = <<i, k - 1>>} IN
  IF whole = {} THEN [msg_type |-> 0, extra |-> Cmd] ELSE sent[Max(whole)]

\* Mutant: in_offset is not reset when a message is complete.
FinishKeepOffset(off, total) ==
  /\ in_offset' = off
  /\ IF off < total THEN UNCHANGED got
     ELSE got' = Append(got, [header |-> in_buf', data |-> SubSeq(mem', 1, total - H)])

\* The end of RecvRaw, and of the handler: a complete message is raised.
Finish(off, total) ==
  IF off < total THEN in_offset' = off /\ UNCHANGED got
  ELSE /\ in_offset' = 0
       /\ got' = Append(got, [header |-> in_buf', data |-> SubSeq(mem', 1, total - H)])

\* RecvRaw once the header is complete; there are n more units read.
RecvData(off, n) ==
  LET total == TotalSz(Parse(in_buf')) IN
  \E d \in DataCut(off, total, Len(wire) - n) :
    /\ mem' = Store(mem, off - H, SubSeq(wire, n + 1, n + d))
    /\ wire' = SubSeq(wire, n + d + 1, Len(wire))
    /\ Finish(Narrow(off + d), total)

\* The descriptor is readable.
FdIn ==
  /\ wire # <<>>
  /\ \E n \in HeaderCut(in_offset, Len(wire)) :
       LET off == Narrow(in_offset + n) IN
       /\ in_buf' = Store(in_buf, in_offset, SubSeq(wire, 1, n))
       /\ IF InHeader(off)
          THEN /\ wire' = SubSeq(wire, n + 1, Len(wire))
               /\ in_offset' = off
               /\ UNCHANGED <<mem, got>>
          ELSE RecvData(off, n)
  /\ UNCHANGED sendVars
-----------------------------------------------------------------------------
Next == (\E m \in NetMsgs : AsyncSendMsg(m)) \/ FdOut \/ FdIn

\* The workers poll for OUT as long as there is something to send
\* (NetOutbound's AllSent), and always for IN (NetAccept's AllParsed).
Spec == Init /\ [][Next]_vars /\ WF_vars(FdOut) /\ WF_vars(FdIn)
-----------------------------------------------------------------------------
(* Properties. *)

(***************************************************************************)
(* The offsets stay inside the message they are about, so that write() and *)
(* read() stay inside out_buf, in_buf and the data: also in the longest    *)
(* message an int can count, and when header and data go in one call.      *)
(***************************************************************************)
OffsetsInMessage ==
  /\ out_offset \in 0 .. (IF loaded = 0 THEN 0 ELSE TotalSz(sent[loaded]))
  /\ busy => out_offset < TotalSz(sent[loaded])
  /\ in_offset >= 0
  /\ in_offset >= H => /\ Len(got) < loaded
                       /\ in_offset < TotalSz(sent[Len(got) + 1])

\* The place of the receiver, and that of the sender, as a unit to come.
ReadNext == <<Len(got) + 1, in_offset>>
WriteNext == IF busy THEN <<loaded, out_offset>> ELSE <<loaded + 1, 0>>
After(u) == IF u[2] + 1 < TotalSz(sent[u[1]]) THEN <<u[1], u[2] + 1>>
            ELSE <<u[1] + 1, 0>>

(***************************************************************************)
(* Sender and receiver are in step: what is between them starts where the  *)
(* receiver stands, ends where the sender stands, and leaves nothing out;  *)
(* a boundary between messages is one for both, however they were cut.     *)
(***************************************************************************)
InStep ==
  /\ IF wire = <<>> THEN ReadNext = WriteNext
     ELSE wire[1] = ReadNext /\ After(wire[Len(wire)]) = WriteNext
  /\ \A k \in 1 .. Len(wire) - 1 : wire[k + 1] = After(wire[k])

\* Message i as it should be received.
Whole(i) ==
  [header |-> Piece(i, 0, H),
   data |-> IF sent[i].msg_type = 1 THEN Piece(i, H, sent[i].extra) ELSE <<>>]

(***************************************************************************)
(* Every message arrives, once, in order, with its header whole and with   *)
(* its data in their places in the destination's memory when the owner is  *)
(* told of it.                                                             *)
(***************************************************************************)
Fifo == INSTANCE MessageFifo WITH
  pushed <- [i \in DOMAIN sent |-> Whole(i)],
  delivered <- got

ImplementsFifo == Fifo!Spec
=============================================================================
