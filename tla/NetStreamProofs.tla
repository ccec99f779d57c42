--------------------------- MODULE NetStreamProofs ---------------------------
(***************************************************************************)
(* The invariants of NetStream, and that it is a FIFO of messages, for     *)
(* headers, data and buffers of any size, any number of messages and any   *)
(* cuts.                                                                   *)
(***************************************************************************)
EXTENDS NetStream, SequenceTheorems, TLAPS

\* The units between the sockets are of messages that were loaded.
UnitsFit ==
  \A k \in 1 .. Len(wire) : /\ wire[k] \in (1 .. loaded) \X Nat
                            /\ wire[k][2] < TotalSz(sent[wire[k][1]])

\* From a unit to the end of its message the units follow each other.
RunsOn ==
  \A k, j \in 1 .. Len(wire) :
    k <= j /\ wire[k][2] + (j - k) < TotalSz(sent[wire[k][1]]) =>
      wire[j] = <<wire[k][1], wire[k][2] + (j - k)>>

\* What was received of the message under way is in its place.
Filled ==
  /\ \A k \in 1 .. H : k <= in_offset => in_buf[k] = <<Len(got) + 1, k - 1>>
  /\ \A k \in 1 .. MemSize :
       H + k <= in_offset => mem[k] = <<Len(got) + 1, H + k - 1>>

IInv == TypeOK /\ OffsetsInMessage /\ InStep /\ UnitsFit /\ RunsOn /\ Filled
-----------------------------------------------------------------------------
(* Lemmas about the helpers. *)

\* An int holds every offset in a message.
LEMMA NarrowFits ==
  ASSUME NEW n \in 0 .. IntMax
  PROVE  Narrow(n) = n
<1> DEFINE b == 2 * (IntMax + 1)
           a == n + IntMax + 1
<1>1. IntMax \in Nat /\ a \in Nat /\ b \in Nat /\ a < b
  BY StreamAssumption
<1>2. ASSUME NEW x \in Nat, NEW y \in Nat, x < y PROVE x % y = x
  BY <1>2
<1>3. a % b = a
  <2> HIDE DEF a, b
  <2> QED
    BY <1>1, <1>2
<1> QED
  BY <1>1, <1>3 DEF Narrow

\* A message has its header and no more than an int counts.
LEMMA SizeFits ==
  ASSUME NEW m \in NetMsgs
  PROVE  TotalSz(m) \in H .. IntMax /\ (m.msg_type = 1 => m.extra \in 0 .. MemSize)
<1>1. H \in Nat /\ IntMax \in Nat /\ MemSize \in Nat /\ H <= IntMax
  BY StreamAssumption
<1>2. CASE m.msg_type = 0
  BY <1>1, <1>2 DEF TotalSz
<1>3. CASE m.msg_type = 1 /\ m.extra \in Lens
  <2>1. m.extra \in 0 .. MemSize /\ H + m.extra <= IntMax
    BY <1>3, StreamAssumption
  <2> QED
    BY <1>1, <1>3, <2>1 DEF TotalSz
<1> QED
  BY <1>2, <1>3 DEF NetMsgs

\* A call moves one unit at least if it can, and no more than it is asked for.
LEMMA CutBounds ==
  ASSUME NEW n \in Nat \ {0}, NEW there \in Nat, NEW c \in Cut(n, there)
  PROVE  c \in Nat /\ c <= n /\ c <= there /\ (there > 0 => c > 0)
<1>1. Min({n, there}) = IF n <= there THEN n ELSE there
  BY DEF Min
<1> QED
  BY <1>1 DEF Cut

\* The header's part of a transfer that starts at off.
LEMMA HeaderPart ==
  ASSUME NEW off \in Nat, NEW total \in H .. IntMax, off < total,
         NEW there \in Nat, NEW h \in HeaderCut(off, there)
  PROVE  /\ h \in Nat /\ h <= there /\ off + h <= total
         /\ Narrow(off + h) = off + h
         /\ off < H => off + h <= H /\ (there > 0 => h > 0)
         /\ off >= H => h = 0
<1>1. H \in Nat \ {0} /\ IntMax \in Nat /\ H <= IntMax
  BY StreamAssumption
<1>2. /\ h \in Nat /\ h <= there
      /\ off < H => off + h <= H /\ (there > 0 => h > 0)
      /\ off >= H => h = 0
  <2>1. CASE off < H
    BY <1>1, <2>1, CutBounds DEF HeaderCut, InHeader
  <2>2. CASE off >= H
    BY <1>1, <2>2 DEF HeaderCut, InHeader
  <2> QED
    BY <1>1, <2>1, <2>2
<1>3. off + h \in 0 .. IntMax /\ off + h <= total
  BY <1>1, <1>2
<1> QED
  BY <1>2, <1>3, NarrowFits

\* The part of the data.
LEMMA DataPart ==
  ASSUME NEW off \in Nat, NEW total \in H .. IntMax, off <= total,
         NEW there \in Nat, NEW d \in DataCut(off, total, there)
  PROVE  /\ d \in Nat /\ d <= there /\ off + d <= total
         /\ Narrow(off + d) = off + d
         /\ off < H => d = 0
         /\ off >= H /\ off < total /\ there > 0 => d > 0
<1>1. H \in Nat \ {0} /\ IntMax \in Nat
  BY StreamAssumption
<1>2. /\ d \in Nat /\ d <= there /\ off + d <= total
      /\ off < H => d = 0
      /\ off >= H /\ off < total /\ there > 0 => d > 0
  <2>1. CASE off >= H /\ off < total
    BY <1>1, <2>1, CutBounds DEF DataCut, InHeader
  <2>2. CASE off < H \/ off = total
    BY <1>1, <2>2 DEF DataCut, InHeader
  <2> QED
    BY <1>1, <2>1, <2>2
<1>3. off + d \in 0 .. IntMax
  BY <1>1, <1>2
<1> QED
  BY <1>2, <1>3, NarrowFits
-----------------------------------------------------------------------------
(* The sender's steps. *)

\* Numbers the proofs below use without unfolding the invariant.
LEMMA Sizes ==
  ASSUME IInv
  PROVE  /\ H \in Nat \ {0} /\ IntMax \in Nat /\ MaxMsgs \in Nat /\ Room \in Nat
         /\ Len(sent) \in 0 .. MaxMsgs /\ loaded \in 0 .. Len(sent)
         /\ Len(wire) \in 0 .. Room /\ Len(got) \in 0 .. loaded
         /\ \A i \in 1 .. Len(sent) :
              TotalSz(sent[i]) \in H .. IntMax /\ sent[i] \in NetMsgs
BY StreamAssumption, SizeFits DEF IInv, TypeOK

LEMMA AsyncSendInv ==
  ASSUME IInv, NEW m \in NetMsgs, AsyncSendMsg(m)
  PROVE  IInv'
<1>1. /\ sent' \in Seq(NetMsgs) /\ Len(sent') = Len(sent) + 1 /\ Len(sent') <= MaxMsgs
      /\ \A i \in 1 .. Len(sent) : sent'[i] = sent[i]
  <2>1. sent \in Seq(NetMsgs) /\ sent' = Append(sent, m) /\ Len(sent) < MaxMsgs
    BY DEF IInv, TypeOK, AsyncSendMsg
  <2>2. Len(sent) \in Nat /\ MaxMsgs \in Nat
    BY Sizes
  <2> QED
    BY <2>1, <2>2, AppendProperties
<1>2. UNCHANGED <<loaded, busy, out_offset, wire, in_buf, in_offset, mem, got>>
  BY DEF AsyncSendMsg, recvVars
<1>3. /\ loaded \in Nat /\ loaded <= Len(sent) /\ Len(sent) \in Nat
      /\ Len(got) \in Nat /\ Len(wire) \in Nat
  BY Sizes
<1>4. \A i \in 1 .. loaded : TotalSz(sent[i])' = TotalSz(sent[i])
  BY <1>1, <1>2, <1>3
<1>5. TypeOK'
  BY <1>1, <1>2, <1>3 DEF IInv, TypeOK
<1>6. OffsetsInMessage'
  BY <1>2, <1>3, <1>4 DEF IInv, TypeOK, OffsetsInMessage
<1>7. \A k \in 1 .. Len(wire) : wire[k][1] \in 1 .. loaded
  BY DEF IInv, UnitsFit
<1>8. \A k \in 1 .. Len(wire) : TotalSz(sent[wire[k][1]])' = TotalSz(sent[wire[k][1]])
  BY <1>2, <1>4, <1>7
<1>9. UnitsFit' /\ RunsOn' /\ Filled'
  BY <1>2, <1>8 DEF IInv, UnitsFit, RunsOn, Filled
<1>10. \A k \in 1 .. Len(wire) : After(wire[k])' = After(wire[k])
  BY <1>2, <1>8 DEF After
<1>11. InStep'
  BY <1>2, <1>3, <1>10 DEF IInv, TypeOK, InStep, ReadNext, WriteNext
<1> QED
  BY <1>5, <1>6, <1>9, <1>11 DEF IInv

\* SendRaw goes on where the sender stands, and moves one unit at least.
LEMMA SendRawEffect ==
  ASSUME IInv, NEW i \in 1 .. Len(sent), NEW off \in Nat, off < TotalSz(sent[i]),
         Len(wire) < Room, SendRaw(i, off)
  PROVE  \E n \in Nat \ {0} :
           /\ off + n <= TotalSz(sent[i]) /\ Len(wire) + n <= Room
           /\ wire' = wire \o Piece(i, off, n)
           /\ out_offset' = off + n
           /\ busy' = (off + n < TotalSz(sent[i]))
<1> DEFINE total == TotalSz(sent[i])
           space == Room - Len(wire)
<1>1. /\ total \in H .. IntMax /\ space \in Nat \ {0} /\ H \in Nat \ {0} /\ off < total
      /\ total \in Nat /\ Len(wire) \in Nat /\ Room \in Nat
  BY Sizes
<1>a. PICK h \in HeaderCut(off, space) :
        \E d \in DataCut(Narrow(off + h), total, space - h) :
          /\ wire' = wire \o Piece(i, off, h + d)
          /\ out_offset' = Narrow(Narrow(off + h) + d)
          /\ busy' = (out_offset' < total)
  BY DEF SendRaw
<1>2. PICK d \in DataCut(Narrow(off + h), total, space - h) :
        /\ wire' = wire \o Piece(i, off, h + d)
        /\ out_offset' = Narrow(Narrow(off + h) + d)
        /\ busy' = (out_offset' < total)
  BY <1>a
<1> HIDE DEF total
<1>3. /\ h \in Nat /\ h <= space /\ off + h <= total
      /\ Narrow(off + h) = off + h
      /\ off < H => off + h <= H /\ (space > 0 => h > 0)
      /\ off >= H => h = 0
  BY <1>1, HeaderPart
<1>4. /\ d \in Nat /\ d <= space - h /\ off + h + d <= total
      /\ Narrow(off + h + d) = off + h + d
      /\ off + h >= H /\ off + h < total /\ space - h > 0 => d > 0
  <2>1. off + h \in Nat /\ space - h \in Nat /\ d \in DataCut(off + h, total, space - h)
    BY <1>1, <1>2, <1>3
  <2> QED
    BY <1>1, <1>3, <2>1, DataPart
<1>5. /\ h + d \in Nat \ {0} /\ off + (h + d) <= total /\ Len(wire) + (h + d) <= Room
      /\ off + (h + d) = off + h + d
  BY <1>1, <1>3, <1>4
<1> QED
  BY <1>2, <1>3, <1>4, <1>5 DEF total

\* The stream is extended by what comes next.
LEMMA SendRawInv ==
  ASSUME IInv, NEW i \in 1 .. Len(sent), NEW off \in Nat, off < TotalSz(sent[i]),
         WriteNext = <<i, off>>, loaded <= i, loaded' = i,
         Len(wire) < Room, SendRaw(i, off), UNCHANGED <<sent, recvVars>>
  PROVE  IInv'
<1> DEFINE total == TotalSz(sent[i])
           l == Len(wire)
<1>1. UNCHANGED <<sent, in_buf, in_offset, mem, got>>
  BY DEF recvVars
<1>2. PICK n \in Nat \ {0} :
        /\ off + n <= total /\ l + n <= Room
        /\ wire' = wire \o Piece(i, off, n)
        /\ out_offset' = off + n
        /\ busy' = (off + n < total)
  BY SendRawEffect
<1>3. /\ total \in Nat /\ total \in H .. IntMax /\ i \in Nat /\ i > 0 /\ i <= MaxMsgs
      /\ H \in Nat /\ H > 0 /\ MaxMsgs \in Nat /\ IntMax \in Nat /\ loaded \in Nat
      /\ \A g \in 1 .. loaded : TotalSz(sent[g]) \in Nat
  BY Sizes
<1>4. /\ l \in Nat /\ DOMAIN wire = 1 .. l /\ wire \in Seq(Units)
      /\ \A k \in 1 .. l : /\ wire[k][1] \in 1 .. loaded /\ wire[k][2] \in Nat
                           /\ wire[k][2] < TotalSz(sent[wire[k][1]])
  BY DEF IInv, TypeOK, UnitsFit
<1> HIDE DEF total, l
<1>5. /\ Piece(i, off, n) \in Seq(Units) /\ Len(Piece(i, off, n)) = n
      /\ \A k \in 1 .. n : Piece(i, off, n)[k] = <<i, off + k - 1>>
  BY <1>3 DEF Piece, Units
<1>6. /\ wire' \in Seq(Units) /\ Len(wire') = l + n
      /\ \A k \in 1 .. l : wire'[k] = wire[k]
      /\ \A k \in l + 1 .. l + n : wire'[k] = <<i, off + (k - l) - 1>>
  <2>1. /\ wire \o Piece(i, off, n) \in Seq(Units)
        /\ Len(wire \o Piece(i, off, n)) = l + n
        /\ \A k \in 1 .. l + n : (wire \o Piece(i, off, n))[k] =
              IF k <= l THEN wire[k] ELSE Piece(i, off, n)[k - l]
    BY <1>4, <1>5, ConcatProperties DEF l
  <2>2. \A k \in l + 1 .. l + n : k - l \in 1 .. n /\ ~(k <= l) /\ k \in 1 .. l + n
    BY <1>4
  <2>3. \A k \in 1 .. l : k \in 1 .. l + n /\ k <= l
    BY <1>4
  <2> QED
    BY <1>2, <1>5, <2>1, <2>2, <2>3
<1>7. \A u : After(u)' = After(u)
  BY <1>1 DEF After
<1>8. l > 0 => After(wire[l]) = <<i, off>>
  BY <1>4 DEF IInv, InStep, l
<1>9. TypeOK'
  <2>1. loaded' \in 0 .. Len(sent) /\ loaded' > 0 /\ busy' \in BOOLEAN /\ Len(got) <= loaded'
    BY <1>2, <1>3, Sizes
  <2>2. out_offset' \in Int /\ Len(wire') <= Room
    BY <1>2, <1>6
  <2> QED
    BY <1>1, <1>6, <2>1, <2>2 DEF IInv, TypeOK
<1>10. OffsetsInMessage'
  <2>1. out_offset' \in 0 .. total /\ loaded' # 0
    BY <1>2, <1>3
  <2>3. busy' => out_offset' < total
    BY <1>2, Zenon
  <2>2. in_offset >= H => Len(got) < loaded'
    BY <1>3, Sizes DEF IInv, OffsetsInMessage
  <2> QED
    BY <1>1, <2>1, <2>2, <2>3 DEF IInv, OffsetsInMessage, total
<1>11. UnitsFit'
  <2> SUFFICES ASSUME NEW k \in 1 .. l + n
               PROVE  /\ wire'[k] \in (1 .. i) \X Nat
                      /\ wire'[k][2] < TotalSz(sent[wire'[k][1]])
    BY <1>1, <1>6 DEF UnitsFit
  <2>1. CASE k <= l
    <3>1. wire[k] \in (1 .. i) \X Nat
      BY <1>3, <1>4, <2>1 DEF IInv, UnitsFit, l
    <3> QED
      BY <1>4, <1>6, <2>1, <3>1
  <2>2. CASE k > l
    <3>1. wire'[k] = <<i, off + (k - l) - 1>> /\ off + (k - l) - 1 \in Nat
      BY <1>4, <1>6, <2>2
    <3>2. off + (k - l) - 1 < total
      BY <1>2, <1>3, <1>4, <2>2
    <3> QED
      BY <1>3, <3>1, <3>2 DEF total
  <2> QED
    BY <1>4, <2>1, <2>2
<1>12. RunsOn'
  <2> SUFFICES ASSUME NEW k \in 1 .. l + n, NEW j \in 1 .. l + n, k <= j,
                      wire'[k][2] + (j - k) < TotalSz(sent[wire'[k][1]])
               PROVE  wire'[j] = <<wire'[k][1], wire'[k][2] + (j - k)>>
    BY <1>1, <1>6 DEF RunsOn
  <2>1. CASE j <= l
    <3>1. k \in 1 .. l /\ j \in 1 .. l
      BY <1>4, <2>1
    <3> QED
      BY <1>6, <3>1 DEF IInv, RunsOn, l
  <2>2. CASE k <= l /\ l < j
    <3>1. k \in 1 .. l /\ l \in 1 .. l /\ j \in l + 1 .. l + n
      BY <1>4, <2>2
    <3> DEFINE g == wire[k][1]
               a == wire[k][2]
    <3>2. g \in 1 .. loaded /\ a \in Nat /\ wire'[k] = wire[k]
      BY <1>4, <1>6, <3>1
    <3>3. TotalSz(sent[g]) \in Nat
      BY <1>3, <3>2
    <3>4. a + (j - k) < TotalSz(sent[g])
      BY <3>2
    <3> HIDE DEF g, a
    <3>5. /\ a + (l - k) < TotalSz(sent[g]) /\ a + (l - k) + 1 < TotalSz(sent[g])
          /\ l - k \in Nat
      BY <1>4, <2>2, <3>1, <3>2, <3>3, <3>4
    <3>6. wire[l] = <<g, a + (l - k)>>
      BY <1>4, <2>2, <3>1, <3>5 DEF IInv, RunsOn, l, g, a
    <3>7. After(wire[l]) = <<g, a + (l - k) + 1>>
      BY <3>5, <3>6 DEF After
    <3>8. i = g /\ off = a + (l - k) + 1
      BY <1>4, <1>8, <3>1, <3>7
    <3>9. wire'[j] = <<i, off + (j - l) - 1>> /\ off + (j - l) - 1 = a + (j - k)
      BY <1>4, <1>6, <3>1, <3>2, <3>8
    <3> QED
      BY <3>2, <3>8, <3>9 DEF g, a
  <2>3. CASE l < k
    <3>1. /\ k \in l + 1 .. l + n /\ j \in l + 1 .. l + n
          /\ off + (j - l) - 1 = (off + (k - l) - 1) + (j - k)
      BY <1>4, <2>3
    <3> QED
      BY <1>6, <3>1
  <2> QED
    BY <1>4, <2>1, <2>2, <2>3
<1>13. Filled'
  BY <1>1 DEF IInv, Filled
<1>14. InStep'
  <2>1. wire' # <<>> /\ wire'[1] = ReadNext'
    <3>1. wire' # <<>> /\ ReadNext' = ReadNext
      BY <1>1, <1>4, <1>6 DEF ReadNext
    <3>2. CASE l = 0
      <4>1. ReadNext = <<i, off>>
        BY <1>4, <3>2 DEF IInv, InStep, l
      <4>2. wire'[1] = <<i, off + (1 - 0) - 1>> /\ off + (1 - 0) - 1 = off
        BY <1>6, <3>2
      <4> QED
        BY <3>1, <4>1, <4>2
    <3>3. CASE l > 0
      <4>1. wire # <<>> /\ wire'[1] = wire[1]
        BY <1>4, <1>6, <3>3 DEF l
      <4> QED
        BY <3>1, <4>1 DEF IInv, InStep
    <3> QED
      BY <1>4, <3>2, <3>3
  <2>2. After(wire'[l + n]) = WriteNext'
    <3>1. wire'[l + n] = <<i, off + n - 1>>
      BY <1>4, <1>6
    <3>2. off + n - 1 + 1 = off + n
      OBVIOUS
    <3>3. WriteNext' = IF off + n < total THEN <<i, off + n>> ELSE <<i + 1, 0>>
      BY <1>2 DEF WriteNext
    <3> QED
      BY <3>1, <3>2, <3>3 DEF After, total
  <2>3. ASSUME NEW k \in 1 .. l + n - 1
        PROVE  wire'[k + 1] = After(wire'[k])
    <3>1. CASE k < l
      <4>1. k \in 1 .. l - 1 /\ k \in 1 .. l /\ k + 1 \in 1 .. l
        BY <1>4, <3>1
      <4> QED
        BY <1>6, <4>1 DEF IInv, InStep, l
    <3>2. CASE k = l
      <4>1. l \in 1 .. l /\ l + 1 \in l + 1 .. l + n /\ off + (l + 1 - l) - 1 = off
        BY <1>4, <3>2
      <4>2. wire'[l] = wire[l] /\ wire'[l + 1] = <<i, off + (l + 1 - l) - 1>>
        <5>1. /\ \A m \in 1 .. l : wire'[m] = wire[m]
              /\ \A m \in l + 1 .. l + n : wire'[m] = <<i, off + (m - l) - 1>>
          BY <1>6
        <5> QED
          BY ONLY <1>4, <4>1, <5>1
      <4> QED
        BY <1>8, <3>2, <4>1, <4>2
    <3>3. CASE k > l
      <4>1. wire'[k] = <<i, off + (k - l) - 1>> /\ wire'[k + 1] = <<i, off + (k + 1 - l) - 1>>
        <5>1. k \in l + 1 .. l + n /\ k + 1 \in l + 1 .. l + n
          BY <1>4, <3>3
        <5>2. \A m \in l + 1 .. l + n : wire'[m] = <<i, off + (m - l) - 1>>
          BY <1>6
        <5> QED
          BY ONLY <1>4, <5>1, <5>2
      <4>2. /\ off + (k - l) - 1 + 1 < total
            /\ off + (k - l) - 1 + 1 = off + (k + 1 - l) - 1
        BY <1>2, <1>3, <1>4, <3>3
      <4> QED
        BY <4>1, <4>2 DEF After, total
    <3> QED
      BY <1>4, <3>1, <3>2, <3>3
  <2>4. wire'[1] = ReadNext' /\ After(wire[Len(wire)])' = WriteNext'
    BY <1>6, <1>7, <2>1, <2>2
  <2>5. \A k \in 1 .. l + n - 1 : wire'[k + 1] = After(wire[k])'
    <3> SUFFICES ASSUME NEW k \in 1 .. l + n - 1
                 PROVE  wire'[k + 1] = After(wire[k])'
      OBVIOUS
    <3>1. wire'[k + 1] = After(wire'[k])
      BY ONLY <2>3
    <3> QED
      BY <1>1, <3>1 DEF After
  <2>6. Len(wire') = l + n /\ l \in Nat
    BY <1>4, <1>6
  <2> QED
    BY ONLY <2>1, <2>4, <2>5, <2>6 DEF InStep
<1> QED
  BY <1>9, <1>10, <1>11, <1>12, <1>13, <1>14 DEF IInv

LEMMA FdOutInv ==
  ASSUME IInv, FdOut
  PROVE  IInv'
<1>1. Len(wire) < Room /\ UNCHANGED <<sent, recvVars>>
  BY DEF FdOut
<1>2. CASE busy
  <2>1. SendRaw(loaded, out_offset) /\ loaded' = loaded
    BY <1>2 DEF FdOut
  <2>2. /\ loaded \in 1 .. Len(sent) /\ out_offset \in Nat
        /\ out_offset < TotalSz(sent[loaded])
    BY <1>2, Sizes DEF IInv, TypeOK, OffsetsInMessage
  <2> QED
    BY <1>1, <1>2, <2>1, <2>2, SendRawInv DEF WriteNext
<1>3. CASE ~busy
  <2>1. loaded < Len(sent) /\ loaded' = loaded + 1 /\ SendRaw(loaded + 1, 0)
    BY <1>3 DEF FdOut
  <2>2. loaded + 1 \in 1 .. Len(sent) /\ 0 < TotalSz(sent[loaded + 1]) /\ loaded <= loaded + 1
    BY <2>1, Sizes
  <2> QED
    BY <1>1, <1>3, <2>1, <2>2, SendRawInv DEF WriteNext
<1> QED
  BY <1>2, <1>3
-----------------------------------------------------------------------------
(* The receiver's step. *)

\* The units ps are stored from off on, and nothing else changes.
LEMMA StoreEffect ==
  ASSUME NEW m \in Nat, NEW buf \in [1 .. m -> Units], NEW off \in Int,
         NEW ps \in Seq(Units)
  PROVE  /\ Store(buf, off, ps) \in [1 .. m -> Units]
         /\ \A k \in 1 .. m : Store(buf, off, ps)[k] =
              IF k - off \in 1 .. Len(ps) THEN ps[k - off] ELSE buf[k]
<1>1. DOMAIN buf = 1 .. m /\ DOMAIN ps = 1 .. Len(ps) /\ \A k \in 1 .. Len(ps) : ps[k] \in Units
  BY ElementOfSeq
<1> QED
  BY <1>1 DEF Store

\* Units p + 1 .. q of the stream.
LEMMA WireSlice ==
  ASSUME IInv, NEW p \in Nat, NEW q \in Nat, p <= q, q <= Len(wire)
  PROVE  /\ SubSeq(wire, p + 1, q) \in Seq(Units)
         /\ Len(SubSeq(wire, p + 1, q)) = q - p
         /\ \A k \in 1 .. q - p : SubSeq(wire, p + 1, q)[k] = wire[p + k]
<1>1. wire \in Seq(Units) /\ Len(wire) \in Nat
  BY DEF IInv, TypeOK
<1>2. \A i \in p + 1 .. q : wire[i] \in Units
  BY <1>1, ElementOfSeq
<1>3. /\ SubSeq(wire, p + 1, q) \in Seq(Units)
      /\ Len(SubSeq(wire, p + 1, q)) = IF p + 1 <= q THEN q - (p + 1) + 1 ELSE 0
      /\ \A i \in 1 .. q - (p + 1) + 1 : SubSeq(wire, p + 1, q)[i] = wire[p + 1 + i - 1]
  BY <1>2, SubSeqProperties
<1>4. /\ q - (p + 1) + 1 = q - p
      /\ (IF p + 1 <= q THEN q - p ELSE 0) = q - p
      /\ \A i \in Int : p + 1 + i - 1 = p + i
  OBVIOUS
<1> QED
  BY <1>3, <1>4

\* The stream starts where the receiver stands, and runs on to the end of
\* the message.
LEMMA Front ==
  ASSUME IInv, wire # <<>>
  PROVE  /\ Len(wire) \in Nat \ {0}
         /\ Len(got) + 1 \in 1 .. loaded /\ in_offset \in Nat
         /\ in_offset < TotalSz(sent[Len(got) + 1])
         /\ \A j \in 1 .. Len(wire) :
              in_offset + (j - 1) < TotalSz(sent[Len(got) + 1]) =>
                wire[j] = <<Len(got) + 1, in_offset + (j - 1)>>
<1>1. Len(wire) \in Nat \ {0} /\ 1 \in 1 .. Len(wire)
  BY DEF IInv, TypeOK
<1>2. wire[1] = <<Len(got) + 1, in_offset>>
  BY DEF IInv, InStep, ReadNext
<1>3. /\ wire[1] \in (1 .. loaded) \X Nat
      /\ wire[1][2] < TotalSz(sent[wire[1][1]])
  BY <1>1 DEF IInv, UnitsFit
<1>4. \A j \in 1 .. Len(wire) :
        1 <= j /\ wire[1][2] + (j - 1) < TotalSz(sent[wire[1][1]]) =>
          wire[j] = <<wire[1][1], wire[1][2] + (j - 1)>>
  BY <1>1 DEF IInv, RunsOn
<1> QED
  BY <1>1, <1>2, <1>3, <1>4

\* What the receiver takes from the stream leaves sender and receiver in step.
LEMMA ConsumeKeeps ==
  ASSUME IInv, NEW r \in 1 .. Len(wire), UNCHANGED sendVars,
         wire' = SubSeq(wire, r + 1, Len(wire)),
         in_offset + r <= TotalSz(sent[Len(got) + 1]),
         ReadNext' = IF in_offset + r < TotalSz(sent[Len(got) + 1])
                     THEN <<Len(got) + 1, in_offset + r>> ELSE <<Len(got) + 2, 0>>
  PROVE  /\ wire' \in Seq(Units) /\ Len(wire') <= Room
         /\ UnitsFit' /\ RunsOn' /\ InStep'
<1> DEFINE l == Len(wire)
           g == Len(got) + 1
           total == TotalSz(sent[g])
<1>1. l \in Nat /\ r \in Nat /\ r > 0 /\ r <= l /\ wire # <<>> /\ Len(got) \in Nat /\ l <= Room /\ Room \in Nat
  BY Sizes
<1>2. UNCHANGED <<sent, loaded, busy, out_offset>>
  BY DEF sendVars
<1>3. /\ wire' \in Seq(Units) /\ Len(wire') = l - r
      /\ \A k \in 1 .. l - r : wire'[k] = wire[r + k]
  <2>1. /\ SubSeq(wire, r + 1, l) \in Seq(Units) /\ Len(SubSeq(wire, r + 1, l)) = l - r
        /\ \A k \in 1 .. l - r : SubSeq(wire, r + 1, l)[k] = wire[r + k]
    <3>1. l <= Len(wire)
      BY <1>1
    <3> HIDE DEF l
    <3> QED
      BY <1>1, <3>1, WireSlice
  <2> QED
    BY <2>1
<1>4. \A k \in 1 .. l - r : r + k \in 1 .. l
  BY <1>1
<1>5. UnitsFit'
  <2>1. \A k \in 1 .. l - r : /\ wire[r + k] \in (1 .. loaded) \X Nat
                              /\ wire[r + k][2] < TotalSz(sent[wire[r + k][1]])
    BY <1>4 DEF IInv, UnitsFit
  <2> QED
    BY <1>2, <1>3, <2>1 DEF UnitsFit
<1>6. RunsOn'
  <2> SUFFICES ASSUME NEW k \in 1 .. l - r, NEW j \in 1 .. l - r, k <= j,
                      wire[r + k][2] + (j - k) < TotalSz(sent[wire[r + k][1]])
               PROVE  wire[r + j] = <<wire[r + k][1], wire[r + k][2] + (j - k)>>
    BY <1>2, <1>3 DEF RunsOn
  <2>1. r + k \in 1 .. l /\ r + j \in 1 .. l /\ r + k <= r + j /\ (r + j) - (r + k) = j - k
    BY <1>1
  <2> QED
    BY <2>1 DEF IInv, RunsOn
<1>7. After(wire[r]) = ReadNext'
  <2>1. in_offset + (r - 1) < total /\ r \in 1 .. l /\ in_offset + (r - 1) + 1 = in_offset + r
    <3>1. in_offset \in Nat /\ g \in 1 .. loaded /\ loaded <= Len(sent) /\ Len(sent) \in Nat
      BY <1>1, Front, Sizes
    <3>2. total \in Nat
      BY <3>1, Sizes
    <3> HIDE DEF total, g
    <3> QED
      BY <1>1, <3>1, <3>2 DEF total, g
  <2>2. wire[r] = <<g, in_offset + (r - 1)>>
    BY <1>1, <2>1, Front
  <2>3. g + 1 = Len(got) + 2
    BY <1>1
  <2>4. After(wire[r]) = IF in_offset + r < total THEN <<g, in_offset + r>> ELSE <<g + 1, 0>>
    <3> DEFINE x == in_offset + (r - 1)
    <3>1. After(<<g, x>>) = IF x + 1 < total THEN <<g, x + 1>> ELSE <<g + 1, 0>>
      BY DEF After
    <3> HIDE DEF g, total
    <3> QED
      BY <2>1, <2>2, <3>1
  <2> QED
    BY <2>3, <2>4
<1>8. After(wire[l]) = WriteNext /\ \A k \in 1 .. l - 1 : wire[k + 1] = After(wire[k])
  BY <1>1 DEF IInv, InStep
<1>9. WriteNext' = WriteNext /\ \A u : After(u)' = After(u)
  BY <1>2 DEF WriteNext, After
<1>10. InStep'
  <2>1. CASE r = l
    <3>1. wire' = <<>> /\ Len(wire') = 0
      BY <1>1, <1>3, <2>1
    <3>2. ReadNext' = WriteNext'
      BY <1>7, <1>8, <1>9, <2>1
    <3> QED
      BY ONLY <3>1, <3>2 DEF InStep
  <2>2. CASE r < l
    <3>1. wire' # <<>> /\ l - r \in 1 .. l - r /\ 1 \in 1 .. l - r /\ r + (l - r) = l
      <4>1. Len(wire') > 0
        BY <1>1, <1>3, <2>2
      <4>2. wire' # <<>>
        BY ONLY <4>1, EmptySeq
      <4> QED
        BY <1>1, <2>2, <4>2
    <3>2. wire'[1] = ReadNext'
      <4>1. r \in 1 .. l - 1
        BY <1>1, <2>2
      <4> QED
        BY <1>3, <1>7, <1>8, <3>1, <4>1
    <3>3. After(wire[Len(wire)])' = WriteNext'
      <4>1. wire'[Len(wire')] = wire[l]
        BY <1>3, <3>1
      <4> QED
        BY <1>8, <1>9, <4>1
    <3>4. ASSUME NEW k \in 1 .. l - r - 1
          PROVE  wire'[k + 1] = After(wire[k])'
      <4>1. /\ k \in 1 .. l - r /\ k + 1 \in 1 .. l - r
            /\ r + k \in 1 .. l - 1 /\ r + (k + 1) = (r + k) + 1
        BY <1>1
      <4>2. wire'[k] = wire[r + k] /\ wire'[k + 1] = wire[(r + k) + 1]
        BY <1>3, <4>1
      <4>3. wire'[k + 1] = After(wire'[k])
        BY <1>8, <4>1, <4>2
      <4> QED
        BY <1>2, <4>3 DEF After
    <3>5. Len(wire') = l - r /\ l \in Nat /\ r \in Nat
      BY <1>1, <1>3
    <3> HIDE DEF l
    <3> QED
      BY ONLY <3>1, <3>2, <3>3, <3>4, <3>5 DEF InStep
  <2> QED
    BY <1>1, <2>1, <2>2
<1>11. Len(wire') <= Room
  BY <1>1, <1>3
<1> QED
  BY <1>3, <1>5, <1>6, <1>10, <1>11

\* Message g and the number of its units that are received after r more.
Received(r) ==
  LET g == Len(got) + 1
      total == TotalSz(sent[g])
  IN
  /\ in_buf' \in [1 .. H -> Units] /\ mem' \in [1 .. MemSize -> Units]
  /\ \A k \in 1 .. H : k <= in_offset + r => in_buf'[k] = <<g, k - 1>>
  /\ \A k \in 1 .. MemSize : H + k <= in_offset + r => mem'[k] = <<g, H + k - 1>>
  /\ IF in_offset + r < total
     THEN in_offset' = in_offset + r /\ got' = got
     ELSE /\ in_offset' = 0
          /\ got' = Append(got, [header |-> in_buf', data |-> SubSeq(mem', 1, total - H)])

\* A header that is complete is read as that of its message.
LEMMA ParseWhole ==
  ASSUME NEW g \in 1 .. Len(sent), Len(sent) \in Nat, DOMAIN sent = 1 .. Len(sent),
         NEW buf, \A k \in 1 .. H : buf[k] = <<g, k - 1>>
  PROVE  Parse(buf) = sent[g]
<1> DEFINE whole == {i \in DOMAIN sent : \A k \in 1 .. H : buf[k] = <<i, k - 1>>}
<1>1. 1 \in 1 .. H
  BY StreamAssumption
<1>2. whole = {g}
  BY <1>1
<1>3. Max({g}) = g
  BY DEF Max
<1> QED
  BY <1>2, <1>3 DEF Parse

\* RecvRaw takes one unit at least, and puts every unit in its place.
LEMMA FdInEffect ==
  ASSUME IInv, FdIn
  PROVE  \E r \in 1 .. Len(wire) :
           /\ in_offset + r <= TotalSz(sent[Len(got) + 1])
           /\ wire' = SubSeq(wire, r + 1, Len(wire))
           /\ Received(r)
<1> DEFINE l == Len(wire)
           g == Len(got) + 1
           total == TotalSz(sent[g])
<1>1. wire # <<>>
  BY DEF FdIn
<1>2. /\ l \in Nat /\ l > 0 /\ g \in 1 .. Len(sent) /\ in_offset \in Nat /\ in_offset < total
      /\ H \in Nat /\ H > 0 /\ total \in H .. IntMax /\ total \in Nat /\ IntMax \in Nat
      /\ Len(sent) \in Nat /\ MemSize \in Nat
  <2>1. g \in 1 .. loaded /\ loaded <= Len(sent) /\ Len(sent) \in Nat /\ loaded \in Nat
    BY <1>1, Front, Sizes
  <2>2. g \in 1 .. Len(sent)
    BY <2>1
  <2> HIDE DEF g
  <2>3. total \in H .. IntMax
    BY <2>2, Sizes
  <2> QED
    BY <1>1, <2>1, <2>2, <2>3, Front, Sizes, StreamAssumption DEF g
<1>3. /\ in_buf \in [1 .. H -> Units] /\ mem \in [1 .. MemSize -> Units]
      /\ \A k \in 1 .. H : k <= in_offset => in_buf[k] = <<g, k - 1>>
      /\ \A k \in 1 .. MemSize : H + k <= in_offset => mem[k] = <<g, H + k - 1>>
  BY DEF IInv, TypeOK, Filled
<1>4. \A j \in 1 .. l : in_offset + (j - 1) < total => wire[j] = <<g, in_offset + (j - 1)>>
  BY <1>1, Front
<1>5. PICK n \in HeaderCut(in_offset, l) :
        LET off == Narrow(in_offset + n) IN
        /\ in_buf' = Store(in_buf, in_offset, SubSeq(wire, 1, n))
        /\ IF InHeader(off)
           THEN /\ wire' = SubSeq(wire, n + 1, l)
                /\ in_offset' = off
                /\ UNCHANGED <<mem, got>>
           ELSE RecvData(off, n)
  BY DEF FdIn
<1> HIDE DEF l, g, total
<1>6. /\ n \in Nat /\ n <= l /\ in_offset + n <= total
      /\ Narrow(in_offset + n) = in_offset + n
      /\ in_offset < H => in_offset + n <= H /\ n > 0
      /\ in_offset >= H => n = 0
  BY <1>2, <1>5, HeaderPart
<1>7. /\ in_buf' \in [1 .. H -> Units]
      /\ \A k \in 1 .. H : k <= in_offset + n => in_buf'[k] = <<g, k - 1>>
  <2>1. /\ SubSeq(wire, 1, n) \in Seq(Units) /\ Len(SubSeq(wire, 1, n)) = n
        /\ \A k \in 1 .. n : SubSeq(wire, 1, n)[k] = wire[k]
    <3>1. ASSUME NEW p \in Nat, p <= n
          PROVE  /\ SubSeq(wire, p + 1, n) \in Seq(Units)
                 /\ Len(SubSeq(wire, p + 1, n)) = n - p
                 /\ \A k \in 1 .. n - p : SubSeq(wire, p + 1, n)[k] = wire[p + k]
      BY <1>2, <1>6, <3>1, WireSlice DEF l
    <3> QED
      BY <1>6, <3>1
  <2>2. /\ in_buf' \in [1 .. H -> Units]
        /\ \A k \in 1 .. H : in_buf'[k] =
             IF k - in_offset \in 1 .. n THEN SubSeq(wire, 1, n)[k - in_offset] ELSE in_buf[k]
    <3> DEFINE ps == SubSeq(wire, 1, n)
    <3>1. in_buf' = Store(in_buf, in_offset, ps)
      BY <1>5
    <3>2. /\ ps \in Seq(Units) /\ Len(ps) = n
          /\ in_offset \in Int /\ H \in Nat /\ in_buf \in [1 .. H -> Units]
      BY <1>2, <1>3, <2>1
    <3> HIDE DEF ps
    <3>3. /\ Store(in_buf, in_offset, ps) \in [1 .. H -> Units]
          /\ \A k \in 1 .. H : Store(in_buf, in_offset, ps)[k] =
               IF k - in_offset \in 1 .. Len(ps) THEN ps[k - in_offset] ELSE in_buf[k]
      BY ONLY <3>2, StoreEffect
    <3> QED
      BY ONLY <3>1, <3>2, <3>3 DEF ps
  <2>3. ASSUME NEW k \in 1 .. H, k <= in_offset + n
        PROVE  in_buf'[k] = <<g, k - 1>>
    <3>1. CASE k <= in_offset
      <4>1. k - in_offset \notin 1 .. n
        BY <1>2, <3>1
      <4> QED
        BY <1>3, <2>2, <3>1, <4>1
    <3>2. CASE k > in_offset
      <4>1. /\ k - in_offset \in 1 .. n /\ k - in_offset \in 1 .. l
            /\ in_offset + (k - in_offset - 1) = k - 1
            /\ k - 1 < total
        BY <1>2, <1>6, <2>3, <3>2
      <4>2. in_buf'[k] = wire[k - in_offset]
        BY <2>1, <2>2, <4>1
      <4> QED
        BY <1>4, <4>1, <4>2
    <3> QED
      BY <1>2, <3>1, <3>2
  <2> QED
    BY <2>2, <2>3
<1>8. CASE in_offset + n < H
  <2>1. /\ wire' = SubSeq(wire, n + 1, l) /\ in_offset' = in_offset + n
        /\ mem' = mem /\ got' = got /\ n \in 1 .. l
    BY <1>2, <1>5, <1>6, <1>8 DEF InHeader
  <2>2. \A k \in 1 .. MemSize : ~(H + k <= in_offset + n)
    BY <1>2, <1>6, <1>8
  <2>3. Received(n)
    <3>1. in_offset + n < total
      BY <1>2, <1>6, <1>8
    <3> QED
      BY <1>3, <1>7, <2>1, <2>2, <3>1 DEF Received, g, total
  <2> QED
    BY <1>6, <2>1, <2>3 DEF l, g, total
<1>9. CASE in_offset + n >= H
  <2> DEFINE off == in_offset + n
  <2>1. RecvData(off, n)
    BY <1>2, <1>5, <1>6, <1>9 DEF InHeader
  <2>2. \A k \in 1 .. H : in_buf'[k] = <<g, k - 1>>
    BY <1>2, <1>6, <1>7, <1>9
  <2>3. TotalSz(Parse(in_buf')) = total
    <3>1. DOMAIN sent = 1 .. Len(sent)
      BY DEF IInv, TypeOK
    <3> QED
      BY <1>2, <2>2, <3>1, ParseWhole DEF total
  <2>4. PICK d \in DataCut(off, total, l - n) :
          /\ mem' = Store(mem, off - H, SubSeq(wire, n + 1, n + d))
          /\ wire' = SubSeq(wire, n + d + 1, l)
          /\ Finish(Narrow(off + d), total)
    BY <2>1, <2>3 DEF RecvData, l
  <2>5. /\ d \in Nat /\ d <= l - n /\ off + d <= total
        /\ Narrow(off + d) = off + d
        /\ off < total /\ l - n > 0 => d > 0
        /\ off \in Nat /\ off >= H
    <3>1. off \in Nat /\ off <= total /\ l - n \in Nat /\ off >= H
      BY <1>2, <1>6, <1>9
    <3> HIDE DEF off
    <3> QED
      BY <1>2, <2>4, <3>1, DataPart
  <2> DEFINE r == n + d
  <2>6. r \in 1 .. l /\ in_offset + r = off + d /\ r \in Nat
    BY <1>2, <1>6, <2>5
  <2>7. /\ mem' \in [1 .. MemSize -> Units]
        /\ \A k \in 1 .. MemSize : H + k <= off + d => mem'[k] = <<g, H + k - 1>>
    <3>1. /\ SubSeq(wire, n + 1, n + d) \in Seq(Units) /\ Len(SubSeq(wire, n + 1, n + d)) = d
          /\ \A k \in 1 .. d : SubSeq(wire, n + 1, n + d)[k] = wire[n + k]
      <4>1. r - n = d /\ n <= r /\ r <= l
        BY <1>6, <2>5, <2>6
      <4>2. /\ SubSeq(wire, n + 1, r) \in Seq(Units) /\ Len(SubSeq(wire, n + 1, r)) = r - n
            /\ \A k \in 1 .. r - n : SubSeq(wire, n + 1, r)[k] = wire[n + k]
        <5> HIDE DEF r
        <5> QED
          BY <1>6, <2>6, <4>1, WireSlice DEF l
      <4> QED
        BY <4>1, <4>2
    <3> DEFINE s == off - H
    <3>2. s \in Nat /\ s = off - H /\ off = in_offset + n
      BY <1>2, <2>5
    <3>3. /\ mem' \in [1 .. MemSize -> Units]
          /\ \A k \in 1 .. MemSize : mem'[k] =
               IF k - s \in 1 .. d THEN SubSeq(wire, n + 1, n + d)[k - s] ELSE mem[k]
      <4> DEFINE ps == SubSeq(wire, n + 1, n + d)
      <4>1. mem' = Store(mem, s, ps)
        BY <2>4
      <4>2. /\ ps \in Seq(Units) /\ Len(ps) = d
            /\ s \in Int /\ MemSize \in Nat /\ mem \in [1 .. MemSize -> Units]
        BY <1>2, <1>3, <3>1, <3>2
      <4> HIDE DEF ps, s
      <4>3. /\ Store(mem, s, ps) \in [1 .. MemSize -> Units]
            /\ \A k \in 1 .. MemSize : Store(mem, s, ps)[k] =
                 IF k - s \in 1 .. Len(ps) THEN ps[k - s] ELSE mem[k]
        BY ONLY <4>2, StoreEffect
      <4> QED
        BY ONLY <4>1, <4>2, <4>3 DEF ps
    <3> HIDE DEF s, off
    <3>4. ASSUME NEW k \in 1 .. MemSize, H + k <= off + d
          PROVE  mem'[k] = <<g, H + k - 1>>
      <4>1. CASE k <= s
        <5>1. k - s \notin 1 .. d /\ H + k <= in_offset
          BY <1>2, <1>6, <2>5, <3>2, <4>1
        <5> QED
          BY <1>3, <3>3, <5>1
      <4>2. CASE k > s
        <5>1. /\ k - s \in 1 .. d /\ n + (k - s) \in 1 .. l
              /\ in_offset + (n + (k - s) - 1) = H + k - 1
              /\ H + k - 1 < total
          BY <1>2, <1>6, <2>5, <3>2, <3>4, <4>2
        <5>2. mem'[k] = wire[n + (k - s)]
          BY <3>1, <3>3, <5>1
        <5> DEFINE j == n + (k - s)
        <5>3. j \in 1 .. l /\ in_offset + (j - 1) = H + k - 1 /\ mem'[k] = wire[j]
          BY <1>2, <1>6, <3>2, <5>1, <5>2
        <5> HIDE DEF j
        <5> QED
          BY <1>4, <5>1, <5>3
      <4> QED
        BY <3>2, <4>1, <4>2
    <3> QED
      BY <3>3, <3>4
  <2>8. wire' = SubSeq(wire, r + 1, l) /\ in_offset + r <= total
    BY <2>4, <2>5, <2>6
  <2>9. IF in_offset + r < total
        THEN in_offset' = in_offset + r /\ got' = got
        ELSE /\ in_offset' = 0
             /\ got' = Append(got, [header |-> in_buf', data |-> SubSeq(mem', 1, total - H)])
    BY <2>4, <2>5, <2>6 DEF Finish
  <2>10. Received(r)
    <3>1. \A k \in 1 .. H : k <= in_offset + r => in_buf'[k] = <<g, k - 1>>
      BY <2>2
    <3>2. \A k \in 1 .. MemSize : H + k <= in_offset + r => mem'[k] = <<g, H + k - 1>>
      BY <2>6, <2>7
    <3> HIDE DEF r
    <3> QED
      BY <1>7, <2>7, <2>9, <3>1, <3>2 DEF Received, g, total
  <2> QED
    BY <2>6, <2>8, <2>10 DEF l, g, total
<1> QED
  BY <1>2, <1>6, <1>8, <1>9

\* What is given to the owner when a message is complete.
LEMMA CompleteIsWhole ==
  ASSUME IInv, FdIn, NEW r \in 1 .. Len(wire), Received(r),
         in_offset + r = TotalSz(sent[Len(got) + 1])
  PROVE  /\ got' = Append(got, Whole(Len(got) + 1))
         /\ Whole(Len(got) + 1) \in [header : Seq(Units), data : Seq(Units)]
<1> DEFINE g == Len(got) + 1
           m == sent[g]
           total == TotalSz(m)
           size == IF m.msg_type = 1 THEN m.extra ELSE 0
<1>1. /\ g \in 1 .. Len(sent) /\ g \in 0 .. MaxMsgs /\ H \in Nat /\ MemSize \in Nat
      /\ in_offset \in Nat /\ r \in Nat
  <2>1. wire # <<>>
    BY DEF FdIn
  <2>2. g \in 1 .. loaded /\ loaded <= Len(sent) /\ Len(sent) <= MaxMsgs
        /\ loaded \in Nat /\ Len(sent) \in Nat /\ MaxMsgs \in Nat /\ in_offset \in Nat
    BY <2>1, Front, Sizes
  <2> QED
    BY <2>2, Sizes, StreamAssumption
<1>2. m \in NetMsgs
  BY <1>1, Sizes
<1>3. size \in 0 .. MemSize /\ total = H + size
  BY <1>2, SizeFits, StreamAssumption DEF TotalSz
<1> HIDE DEF g, m
<1>4. in_offset + r = H + size /\ size \in Nat /\ size <= MemSize
  BY <1>1, <1>3 DEF g, m
<1>5. /\ in_buf' \in [1 .. H -> Units] /\ mem' \in [1 .. MemSize -> Units]
      /\ \A k \in 1 .. H : k <= in_offset + r => in_buf'[k] = <<g, k - 1>>
      /\ \A k \in 1 .. MemSize : H + k <= in_offset + r => mem'[k] = <<g, H + k - 1>>
      /\ got' = Append(got, [header |-> in_buf', data |-> SubSeq(mem', 1, total - H)])
  <2>1. ~(in_offset + r < total) /\ total = TotalSz(sent[Len(got) + 1])
    BY <1>1, <1>3, <1>4 DEF g, m
  <2> HIDE DEF total
  <2> QED
    BY ONLY <2>1, Received(r) DEF Received, g
<1> HIDE DEF size, total
<1>6. in_buf' = Piece(g, 0, H)
  <2>1. \A k \in 1 .. H : in_buf'[k] = <<g, 0 + k - 1>>
    BY <1>1, <1>4, <1>5
  <2> QED
    BY <1>5, <2>1 DEF Piece
<1>7. SubSeq(mem', 1, size) = Piece(g, H, size)
  <2>1. \A k \in 1 .. size : mem'[k] = <<g, H + k - 1>> /\ mem'[k] \in Units
    BY <1>1, <1>4, <1>5
  <2>2. Len(SubSeq(mem', 1, size)) = size /\ SubSeq(mem', 1, size) \in Seq(Units)
        /\ \A k \in 1 .. size : SubSeq(mem', 1, size)[k] = mem'[k]
    <3> DEFINE f == mem'
    <3>1. \A k \in 1 .. size : f[k] \in Units
      BY <2>1
    <3> HIDE DEF f
    <3>2. /\ SubSeq(f, 1, size) \in Seq(Units)
          /\ Len(SubSeq(f, 1, size)) = IF 1 <= size THEN size - 1 + 1 ELSE 0
          /\ \A k \in 1 .. size - 1 + 1 : SubSeq(f, 1, size)[k] = f[1 + k - 1]
      BY ONLY <1>4, <3>1, SubSeqProperties
    <3>3. (IF 1 <= size THEN size - 1 + 1 ELSE 0) = size /\ size - 1 + 1 = size
          /\ \A k \in 1 .. size : 1 + k - 1 = k
      BY ONLY <1>4
    <3>4. Len(SubSeq(f, 1, size)) = size /\ SubSeq(f, 1, size) \in Seq(Units)
          /\ \A k \in 1 .. size : SubSeq(f, 1, size)[k] = f[k]
      BY ONLY <3>2, <3>3
    <3> QED
      BY ONLY <3>4 DEF f
  <2>3. Piece(g, H, size) \in Seq(Units) /\ Len(Piece(g, H, size)) = size
        /\ \A k \in 1 .. size : Piece(g, H, size)[k] = <<g, H + k - 1>>
    BY <1>1, <1>4 DEF Piece, Units
  <2> DEFINE a == SubSeq(mem', 1, size)
             b == Piece(g, H, size)
  <2>4. a \in Seq(Units) /\ b \in Seq(Units) /\ Len(a) = Len(b) /\ Len(a) = size
        /\ \A k \in 1 .. size : a[k] = b[k]
    BY <2>1, <2>2, <2>3
  <2> HIDE DEF a, b
  <2>5. a = b
    BY ONLY <2>4, SeqEqual
  <2> QED
    BY <2>5 DEF a, b
<1>8. size = 0 => Piece(g, H, size) = <<>>
  BY DEF Piece
<1>9. [header |-> in_buf', data |-> SubSeq(mem', 1, total - H)] = Whole(g)
  <2>1. total - H = size
    BY <1>1, <1>3, <1>4
  <2>2. Whole(g).data = Piece(g, H, size)
    BY <1>8 DEF Whole, size, m
  <2> QED
    BY <1>6, <1>7, <2>1, <2>2 DEF Whole
<1>10. Whole(g) \in [header : Seq(Units), data : Seq(Units)]
  <2>1. Piece(g, 0, H) \in Seq(Units) /\ Piece(g, H, size) \in Seq(Units)
    BY <1>1, <1>4 DEF Piece, Units
  <2> QED
    BY <1>8, <2>1 DEF Whole, size, m
<1> QED
  BY <1>5, <1>9, <1>10 DEF g

LEMMA FdInInv ==
  ASSUME IInv, FdIn
  PROVE  IInv'
<1>1. PICK r \in 1 .. Len(wire) :
        /\ in_offset + r <= TotalSz(sent[Len(got) + 1])
        /\ wire' = SubSeq(wire, r + 1, Len(wire))
        /\ Received(r)
  BY FdInEffect
<1> DEFINE g == Len(got) + 1
           total == TotalSz(sent[g])
<1>2. UNCHANGED sendVars /\ UNCHANGED <<sent, loaded, busy, out_offset>> /\ wire # <<>>
  BY DEF FdIn, sendVars
<1>3. /\ g \in 1 .. loaded /\ loaded \in Nat /\ in_offset \in Nat /\ total \in Nat
      /\ total >= H /\ H \in Nat /\ H > 0 /\ r \in Nat /\ r > 0 /\ Len(got) \in Nat
      /\ in_offset + r <= total
  <2>1. g \in 1 .. loaded /\ in_offset \in Nat
    BY <1>2, Front
  <2>2. g \in 1 .. Len(sent)
    BY <2>1, Sizes
  <2> HIDE DEF g
  <2>3. total \in H .. IntMax
    BY <2>2, Sizes
  <2> QED
    BY <1>1, <2>1, <2>3, Sizes DEF g
<1> HIDE DEF total
<1>4. /\ in_buf' \in [1 .. H -> Units] /\ mem' \in [1 .. MemSize -> Units]
      /\ \A k \in 1 .. H : k <= in_offset + r => in_buf'[k] = <<g, k - 1>>
      /\ \A k \in 1 .. MemSize : H + k <= in_offset + r => mem'[k] = <<g, H + k - 1>>
  BY <1>1 DEF Received
<1>5. CASE in_offset + r < total
  <2>1. in_offset' = in_offset + r /\ got' = got
    BY <1>1, <1>5 DEF Received, total
  <2>2. ReadNext' = <<g, in_offset + r>>
    BY <2>1 DEF ReadNext
  <2>3. wire' \in Seq(Units) /\ Len(wire') <= Room /\ UnitsFit' /\ RunsOn' /\ InStep'
    BY <1>1, <1>2, <1>5, <2>2, ConsumeKeeps DEF total
  <2>4. TypeOK'
    BY <1>2, <1>3, <1>4, <2>1, <2>3 DEF IInv, TypeOK
  <2>5. OffsetsInMessage'
    BY <1>2, <1>3, <1>5, <2>1 DEF IInv, OffsetsInMessage, total
  <2>6. Filled'
    BY <1>4, <2>1 DEF Filled
  <2> QED
    BY <2>3, <2>4, <2>5, <2>6 DEF IInv
<1>6. CASE ~(in_offset + r < total)
  <2>1. in_offset + r = total
    BY <1>3, <1>6
  <2>2. in_offset' = 0
    BY <1>1, <1>6 DEF Received, total
  <2>3. /\ got' \in Seq([header : Seq(Units), data : Seq(Units)])
        /\ Len(got') = g /\ g \in Nat
    <3>1. /\ got' = Append(got, Whole(g))
          /\ Whole(g) \in [header : Seq(Units), data : Seq(Units)]
      BY <1>1, <2>1, CompleteIsWhole DEF total
    <3>2. got \in Seq([header : Seq(Units), data : Seq(Units)])
      BY DEF IInv, TypeOK
    <3> QED
      BY <1>3, <3>1, <3>2, AppendProperties
  <2>4. ReadNext' = <<Len(got) + 2, 0>>
    BY <1>3, <2>2, <2>3 DEF ReadNext
  <2>5. wire' \in Seq(Units) /\ Len(wire') <= Room /\ UnitsFit' /\ RunsOn' /\ InStep'
    BY <1>1, <1>2, <1>6, <2>4, ConsumeKeeps DEF total
  <2>6. TypeOK'
    BY <1>2, <1>3, <1>4, <2>2, <2>3, <2>5 DEF IInv, TypeOK
  <2>7. OffsetsInMessage'
    BY <1>2, <1>3, <2>2 DEF IInv, OffsetsInMessage
  <2>8. Filled'
    <3>1. (\A k \in 1 .. H : ~(k <= 0)) /\ (\A k \in 1 .. MemSize : ~(H + k <= 0))
      BY <1>3
    <3> QED
      BY <2>2, <3>1 DEF Filled
  <2> QED
    BY <2>5, <2>6, <2>7, <2>8 DEF IInv
<1> QED
  BY <1>5, <1>6
-----------------------------------------------------------------------------
(* The invariant as a whole, and the theorems. *)

LEMMA InitInv == Init => IInv
<1> SUFFICES ASSUME Init PROVE IInv
  OBVIOUS
<1>1. Nothing \in Units
  BY StreamAssumption DEF Nothing, Units
<1>2. /\ sent = <<>> /\ wire = <<>> /\ got = <<>> /\ Len(<<>>) = 0
      /\ \A S : <<>> \in Seq(S)
  BY EmptySeq DEF Init
<1>3. TypeOK
  <2>1. 0 <= MaxMsgs /\ 0 <= Room /\ 0 \in 0 .. 0 /\ 0 \in Int
    BY StreamAssumption
  <2>2. /\ sent \in Seq(NetMsgs) /\ wire \in Seq(Units)
        /\ got \in Seq([header : Seq(Units), data : Seq(Units)])
    BY <1>2
  <2>3. in_buf \in [1 .. H -> Units] /\ mem \in [1 .. MemSize -> Units]
    BY <1>1 DEF Init
  <2>4. busy = FALSE /\ loaded = 0 /\ out_offset = 0 /\ in_offset = 0
    BY DEF Init
  <2>5. /\ loaded \in 0 .. Len(sent) /\ Len(got) <= loaded
        /\ Len(sent) <= MaxMsgs /\ Len(wire) <= Room
    <3> HIDE DEF Units, NetMsgs
    <3>1. Len(sent) = 0 /\ Len(got) = 0 /\ Len(wire) = 0 /\ loaded = 0
      BY <1>2, <2>4
    <3> QED
      BY ONLY <2>1, <3>1
  <2>6. busy => loaded > 0
    BY <2>4
  <2>7. {out_offset, in_offset} \subseteq Int /\ busy \in BOOLEAN
    BY <2>1, <2>4
  <2> QED
    BY ONLY <2>2, <2>3, <2>5, <2>6, <2>7 DEF TypeOK
<1>4. OffsetsInMessage /\ InStep
  BY <1>2, StreamAssumption DEF Init, OffsetsInMessage, InStep, ReadNext, WriteNext
<1>5. UnitsFit /\ RunsOn /\ Filled
  BY <1>2, StreamAssumption DEF Init, UnitsFit, RunsOn, Filled
<1> QED
  BY <1>3, <1>4, <1>5 DEF IInv

LEMMA NextInv == IInv /\ [Next]_vars => IInv'
<1> SUFFICES ASSUME IInv, [Next]_vars PROVE IInv'
  OBVIOUS
<1>1. CASE UNCHANGED vars
  BY <1>1 DEF vars, sendVars, recvVars, IInv, TypeOK, OffsetsInMessage, InStep,
              ReadNext, WriteNext, After, UnitsFit, RunsOn, Filled
<1> QED
  BY <1>1, AsyncSendInv, FdOutInv, FdInInv DEF Next

(***************************************************************************)
(* The strengthened invariant holds however write() and read() cut the     *)
(* stream.                                                                 *)
(***************************************************************************)
THEOREM Invariance == Spec => []IInv
BY InitInv, NextInv, PTL DEF Spec

\* No more units are between the sockets than the kernel keeps, and no message
\* is received that was not loaded.
THEOREM TypeCorrect == Spec => []TypeOK
BY Invariance, PTL DEF IInv

(***************************************************************************)
(* write() and read() stay inside the header and the data of the message   *)
(* they are about, for messages as long as an int can count.               *)
(***************************************************************************)
THEOREM OffsetsStayInside == Spec => []OffsetsInMessage
BY Invariance, PTL DEF IInv

(***************************************************************************)
(* SendRaw and RecvRaw agree about what is between them and about every    *)
(* boundary between messages.                                              *)
(***************************************************************************)
THEOREM SidesInStep == Spec => []InStep
BY Invariance, PTL DEF IInv
-----------------------------------------------------------------------------
(* The two sockets implement MessageFifo. *)

\* AsyncSendMsg pushes the message, whole.
LEMMA SendIsPush ==
  ASSUME IInv, NEW m \in NetMsgs, AsyncSendMsg(m)
  PROVE  Fifo!Push
<1> DEFINE pushed == [i \in DOMAIN sent |-> Whole(i)]
<1>1. /\ sent \in Seq(NetMsgs) /\ sent' = Append(sent, m) /\ got' = got
      /\ Len(sent) \in Nat
  BY DEF IInv, TypeOK, AsyncSendMsg, recvVars
<1>2. /\ sent' \in Seq(NetMsgs) /\ Len(sent') = Len(sent) + 1
      /\ \A i \in 1 .. Len(sent) : sent'[i] = sent[i]
  BY <1>1, AppendProperties
<1>3. DOMAIN sent = 1 .. Len(sent) /\ DOMAIN sent' = 1 .. Len(sent) + 1
  BY <1>1, <1>2
<1>4. \A i \in 1 .. Len(sent) : Whole(i)' = Whole(i)
  BY <1>2 DEF Whole
<1> DEFINE W == {Whole(i) : i \in 1 .. Len(sent) + 1} \cup
                {Whole(i)' : i \in 1 .. Len(sent) + 1}
<1>5. \A i \in 1 .. Len(sent) + 1 : Whole(i) \in W /\ Whole(i)' \in W
  OBVIOUS
<1> HIDE DEF W
<1>6. /\ pushed \in Seq(W) /\ Len(pushed) = Len(sent)
      /\ \A i \in 1 .. Len(sent) : pushed[i] = Whole(i)
  BY <1>1, <1>3, <1>5
<1>7. /\ pushed' \in Seq(W) /\ Len(pushed') = Len(sent) + 1
      /\ \A i \in 1 .. Len(sent) + 1 : pushed'[i] = Whole(i)'
  BY <1>1, <1>3, <1>5
<1> HIDE DEF pushed
<1>8. SubSeq(pushed', 1, Len(pushed)) = pushed
  <2> DEFINE q == pushed'
             n == Len(sent)
             front == SubSeq(q, 1, n)
  <2>1. \A i \in 1 .. n : q[i] = pushed[i] /\ q[i] \in W
    BY <1>1, <1>4, <1>5, <1>6, <1>7
  <2>2. n \in Nat
    BY <1>1
  <2> HIDE DEF q, n
  <2>3. /\ front \in Seq(W)
        /\ Len(front) = IF 1 <= n THEN n - 1 + 1 ELSE 0
        /\ \A k \in 1 .. n - 1 + 1 : front[k] = q[1 + k - 1]
    BY ONLY <2>1, <2>2, SubSeqProperties
  <2> HIDE DEF front
  <2>4. Len(front) = n /\ \A k \in 1 .. n : front[k] = q[k]
    BY ONLY <2>2, <2>3
  <2>5. pushed \in Seq(W) /\ Len(pushed) = n
    BY <1>6 DEF n
  <2>6. front = pushed
    BY ONLY <2>1, <2>3, <2>4, <2>5, SeqEqual
  <2> QED
    BY <2>6, <1>6 DEF front, n, q
<1> QED
  BY <1>1, <1>6, <1>7, <1>8 DEF Fifo!Push, pushed

\* write() is not seen, and read() only when it completes a message.
LEMMA ReceiveIsDeliver ==
  ASSUME IInv, FdIn
  PROVE  Fifo!Deliver \/ UNCHANGED Fifo!vars
<1>1. PICK r \in 1 .. Len(wire) :
        /\ in_offset + r <= TotalSz(sent[Len(got) + 1])
        /\ wire' = SubSeq(wire, r + 1, Len(wire))
        /\ Received(r)
  BY FdInEffect
<1>2. sent' = sent /\ wire # <<>> /\ \A i : Whole(i)' = Whole(i)
  BY DEF FdIn, sendVars, Whole
<1>3. CASE in_offset + r < TotalSz(sent[Len(got) + 1])
  BY <1>1, <1>2, <1>3 DEF Received, Fifo!vars
<1>4. CASE in_offset + r = TotalSz(sent[Len(got) + 1])
  <2>1. got' = Append(got, Whole(Len(got) + 1))
    BY <1>1, <1>4, CompleteIsWhole
  <2>2. Len(got) + 1 \in 1 .. Len(sent) /\ Len(got) \in Nat /\ Len(sent) \in Nat
    BY <1>2, Front, Sizes
  <2>3. DOMAIN sent = 1 .. Len(sent)
    BY DEF IInv, TypeOK
  <2> DEFINE pushed == [i \in DOMAIN sent |-> Whole(i)]
  <2>4. pushed[Len(got) + 1] = Whole(Len(got) + 1) /\ pushed' = pushed
    BY <1>2, <2>2, <2>3
  <2>5. Len(pushed) = Len(sent)
    BY <2>2, <2>3
  <2>6. Len(got) < Len(pushed)
    BY <2>2, <2>5
  <2> QED
    BY <2>1, <2>4, <2>6 DEF Fifo!Deliver
<1>5. in_offset + r \in Int /\ TotalSz(sent[Len(got) + 1]) \in Int
  <2>1. in_offset \in Nat /\ Len(got) + 1 \in 1 .. loaded /\ Len(wire) \in Nat
    BY <1>2, Front
  <2>2. TotalSz(sent[Len(got) + 1]) \in Int
    BY <2>1, Sizes
  <2> QED
    BY <2>1, <2>2
<1> QED
  BY <1>1, <1>3, <1>4, <1>5

(***************************************************************************)
(* However write() and read() cut the stream, every message is delivered   *)
(* at most once, in the order of AsyncSendMsg, with its header whole and   *)
(* its data in place.                                                      *)
(***************************************************************************)
THEOREM Refinement == Spec => Fifo!Init /\ [][Fifo!Next]_(Fifo!vars)
<1>1. Init => Fifo!Init
  BY EmptySeq DEF Init, Fifo!Init
<1>2. IInv /\ [Next]_vars => [Fifo!Next]_(Fifo!vars)
  <2> SUFFICES ASSUME IInv, [Next]_vars
               PROVE  Fifo!Next \/ UNCHANGED Fifo!vars
    OBVIOUS
  <2>1. CASE FdOut
    BY <2>1 DEF FdOut, recvVars, Whole, Fifo!vars
  <2>2. CASE UNCHANGED vars
    BY <2>2 DEF vars, sendVars, recvVars, Whole, Fifo!vars
  <2> QED
    BY <2>1, <2>2, SendIsPush, ReceiveIsDeliver DEF Next, Fifo!Next
<1> QED
  BY <1>1, <1>2, Invariance, PTL DEF Spec
=============================================================================
