--------------------------- MODULE NetPollerProofs ---------------------------
(***************************************************************************)
(* The invariants of NetPoller, for any number of handles and descriptors  *)
(* and batches of any size, if an uninitialised handle names no descriptor *)
(* of the poller.                                                          *)
(***************************************************************************)
EXTENDS NetPoller, TLAPS

\* No two sockets have one descriptor open.
OneOwner == \A g, h \in Handles : s[g] = s[h] /\ s[g] # Nobody => g = h

\* The handle of an open socket names its descriptor, or none before Add.
FreshOrOwn ==
  \A h \in Handles : s[h] # Nobody => hfd[h] = s[h] \/ (hfd[h] = Nobody /\ ~Added(h))

(***************************************************************************)
(* Handles and kernel, and what makes their agreement inductive.  The      *)
(* batch has no part in it.                                                *)
(***************************************************************************)
HandlesInv == TypeOK /\ OneOwner /\ FreshOrOwn /\ KernelAgrees

IInv == HandlesInv /\ BatchCurrent

Kinds == {"in", "out", "err"}
-----------------------------------------------------------------------------
(* Lemmas about the helpers. *)

\* A function on 1 .. n is a sequence of length n.
LEMMA Tabulated ==
  ASSUME NEW S, NEW n \in Nat, NEW f \in [1 .. n -> S]
  PROVE  f \in Seq(S) /\ Len(f) = n
OBVIOUS

\* What Rm, ResetIn and ResetOut do to the batch: no entry goes or moves, and
\* those of h still to be reported lose ev.
LEMMA DropEffect ==
  ASSUME TypeOK, NEW h \in Handles, NEW ev
  PROVE  /\ Drop(h, ev) \in Seq(Entries)
         /\ Len(Drop(h, ev)) = Len(events)
         /\ \A i \in 1 .. Len(events) :
              /\ Drop(h, ev)[i].ptr = events[i].ptr
              /\ Drop(h, ev)[i].events \subseteq events[i].events
              /\ i >= index /\ events[i].ptr = h =>
                   Drop(h, ev)[i].events = events[i].events \ ev
              /\ events[i].ptr # h => Drop(h, ev)[i] = events[i]
<1> DEFINE n == Len(events)
<1>1. n \in Nat /\ DOMAIN events = 1 .. n /\ \A i \in 1 .. n : events[i] \in Entries
  BY DEF TypeOK
<1>2. \A i \in 1 .. n : [events[i] EXCEPT !.events = @ \ ev] \in Entries
  BY <1>1 DEF Entries
<1>3. Drop(h, ev) \in [1 .. n -> Entries]
  BY <1>1, <1>2 DEF Drop
<1>4. Drop(h, ev) \in Seq(Entries) /\ Len(Drop(h, ev)) = n
  BY <1>1, <1>3, Tabulated
<1>5. ASSUME NEW i \in 1 .. n
      PROVE  /\ Drop(h, ev)[i].ptr = events[i].ptr
             /\ Drop(h, ev)[i].events \subseteq events[i].events
             /\ i >= index /\ events[i].ptr = h =>
                  Drop(h, ev)[i].events = events[i].events \ ev
             /\ events[i].ptr # h => Drop(h, ev)[i] = events[i]
  <2>1. events[i] \in Entries
    BY <1>1
  <2> QED
    BY <1>1, <2>1 DEF Drop, Entries
<1> QED
  BY <1>4, <1>5

\* epoll_ctl(MOD) by the handle of a descriptor's owner.
LEMMA ModOwn ==
  ASSUME HandlesInv, NEW h \in Handles, Added(h), NEW ev \in Interests,
         hevents' = [hevents EXCEPT ![h] = ev],
         epoll' = CtlMod(hfd[h], h, ev),
         s' = s, hfd' = hfd
  PROVE  /\ hevents' \in [Handles -> Interests]
         /\ epoll' \in [Fds -> [ptr : Handles, events : Interests] \cup {Nobody}]
         /\ OneOwner' /\ FreshOrOwn' /\ KernelAgrees'
         /\ \A g \in Handles : Added(g)' <=> Added(g)
<1>1. PICK f \in Fds : epoll[f] # Nobody /\ epoll[f].ptr = h
  BY DEF Added
<1>2. s[h] = f /\ hfd[h] = f
  BY <1>1 DEF HandlesInv, KernelAgrees
<1> DEFINE e == [ptr |-> h, events |-> ev]
<1>3. e \in [ptr : Handles, events : Interests] /\ e # Nobody /\ e.ptr = h /\ e.events = ev
  BY PollerAssumption DEF Interests
<1> HIDE DEF e
<1>4. epoll' = [epoll EXCEPT ![f] = e]
  BY <1>1, <1>2 DEF CtlMod, e
<1>5. /\ hevents' \in [Handles -> Interests]
      /\ epoll' \in [Fds -> [ptr : Handles, events : Interests] \cup {Nobody}]
  BY <1>3, <1>4 DEF HandlesInv, TypeOK
<1>6. \A g \in Handles : Added(g)' <=> Added(g)
  BY <1>1, <1>3, <1>4 DEF Added, HandlesInv, TypeOK
<1>7. KernelAgrees'
  <2> SUFFICES ASSUME NEW k \in Fds, epoll'[k] # Nobody
               PROVE  LET g == epoll'[k].ptr IN
                      s[g] = k /\ hfd[g] = k /\ epoll'[k].events = hevents'[g]
    BY DEF KernelAgrees
  <2>1. CASE k = f
    BY <1>2, <1>3, <1>4, <2>1 DEF HandlesInv, TypeOK
  <2>2. CASE k # f
    <3> DEFINE g == epoll[k].ptr
    <3>1. epoll'[k] = epoll[k]
      BY <1>4, <2>2 DEF HandlesInv, TypeOK
    <3>2. g \in Handles /\ s[g] = k /\ hfd[g] = k /\ epoll[k].events = hevents[g]
      BY <3>1 DEF HandlesInv, TypeOK, KernelAgrees
    <3>3. g # h
      BY <1>2, <2>2, <3>2
    <3> QED
      BY <3>1, <3>2, <3>3 DEF HandlesInv, TypeOK
  <2> QED
    BY <2>1, <2>2
<1> QED
  BY <1>5, <1>6, <1>7 DEF HandlesInv, OneOwner, FreshOrOwn

\* epoll_ctl by the handle of a descriptor that was not added, or removed.
LEMMA CtlEarly ==
  ASSUME HandlesInv, NEW h \in Handles, s[h] # Nobody, ~Added(h), NEW ev
  PROVE  CtlMod(hfd[h], h, ev) = epoll /\ CtlDel(hfd[h]) = epoll
<1>1. hfd[h] \notin Fds \/ epoll[hfd[h]] = Nobody
  BY PollerAssumption DEF HandlesInv, FreshOrOwn, KernelAgrees, OneOwner, Added, TypeOK
<1>2. CtlMod(hfd[h], h, ev) = epoll
  BY <1>1 DEF CtlMod
<1>3. CtlDel(hfd[h]) = epoll
  BY <1>1 DEF CtlDel, HandlesInv, TypeOK
<1> QED
  BY <1>2, <1>3
-----------------------------------------------------------------------------
(* HandlesInv: one lemma per action that touches handles or kernel. *)

LEMMA InitHandles == Init => HandlesInv
<1> SUFFICES ASSUME Init PROVE HandlesInv
  OBVIOUS
<1>1. TypeOK
  BY PollerAssumption DEF Init, TypeOK, Interests
<1>2. OneOwner /\ FreshOrOwn /\ KernelAgrees
  BY DEF Init, OneOwner, FreshOrOwn, KernelAgrees
<1> QED
  BY <1>1, <1>2 DEF HandlesInv

\* A new socket's descriptor is nobody else's, and its handle names none.
LEMMA OpenHandles ==
  ASSUME HandlesInv, Garbage \subseteq {Nobody}, NEW h \in Handles, Open(h)
  PROVE  HandlesInv'
<1> USE DEF HandlesInv
<1>1. PICK f \in Fds \ Range(s) : s' = [s EXCEPT ![h] = f]
  BY DEF Open
<1>2. s[h] = Nobody /\ hfd' = [hfd EXCEPT ![h] = Nobody]
  BY DEF Open
<1>3. \A g \in Handles : s[g] # f
  BY <1>1 DEF Range, TypeOK
<1>4. TypeOK'
  BY <1>1, <1>2 DEF Open, TypeOK, batchVars
<1>5. \A k \in Fds : epoll[k] # Nobody => epoll[k].ptr # h
  BY <1>2, PollerAssumption DEF KernelAgrees
<1>6. ~Added(h)'
  BY <1>5 DEF Open, Added
<1>7. OneOwner'
  BY <1>1, <1>3 DEF OneOwner, TypeOK
<1>8. FreshOrOwn'
  BY <1>1, <1>2, <1>6 DEF FreshOrOwn, TypeOK, Open, Added
<1>9. KernelAgrees'
  BY <1>1, <1>2, <1>5 DEF KernelAgrees, TypeOK, Open
<1> QED
  BY <1>4, <1>7, <1>8, <1>9

LEMMA CloseHandles ==
  ASSUME HandlesInv, NEW h \in Handles, Close(h)
  PROVE  HandlesInv'
<1> USE DEF HandlesInv
<1>1. TypeOK' /\ OneOwner'
  BY DEF Close, TypeOK, OneOwner, batchVars
<1>2. FreshOrOwn'
  BY DEF Close, FreshOrOwn, Added, TypeOK
<1>3. KernelAgrees'
  BY DEF Close, KernelAgrees, Added, TypeOK
<1> QED
  BY <1>1, <1>2, <1>3

\* The descriptor of an open socket that is not added has no entry.
LEMMA AddHandles ==
  ASSUME HandlesInv, NEW h \in Handles, Add(h)
  PROVE  HandlesInv'
<1> USE DEF HandlesInv
<1> DEFINE f == s[h]
           e == [ptr |-> h, events |-> {}]
<1>1. f \in Fds /\ ~Added(h)
  BY DEF Add, TypeOK
<1>2. epoll[f] = Nobody
  BY <1>1, PollerAssumption DEF KernelAgrees, OneOwner, Added, TypeOK
<1>3. e \in [ptr : Handles, events : Interests] /\ e # Nobody /\ e.ptr = h /\ e.events = {}
  BY PollerAssumption DEF Interests
<1> HIDE DEF e
<1>4. epoll' = [epoll EXCEPT ![f] = e]
  BY <1>2 DEF Add, CtlAdd, e
<1>5. TypeOK'
  BY <1>1, <1>3, <1>4 DEF Add, TypeOK, Interests, batchVars
<1>6. OneOwner' /\ FreshOrOwn'
  <2>1. Added(h)'
    BY <1>1, <1>3, <1>4 DEF Added, TypeOK
  <2>2. \A g \in Handles \ {h} : Added(g)' <=> Added(g)
    BY <1>1, <1>2, <1>3, <1>4 DEF Added, TypeOK
  <2> QED
    BY <2>1, <2>2 DEF Add, OneOwner, FreshOrOwn, TypeOK
<1>7. KernelAgrees'
  <2>1. \A k \in Fds : epoll[k] # Nobody => epoll[k].ptr \in Handles \ {h}
    BY <1>1 DEF Added, TypeOK
  <2>2. s' = s /\ hfd' = [hfd EXCEPT ![h] = f] /\ hevents' = [hevents EXCEPT ![h] = {}]
    BY DEF Add
  <2> HIDE DEF f
  <2>3. ASSUME NEW k \in Fds, epoll'[k] # Nobody
        PROVE  LET g == epoll'[k].ptr IN
               s'[g] = k /\ hfd'[g] = k /\ epoll'[k].events = hevents'[g]
    <3>1. CASE k = f
      <4>1. s[h] = f
        BY DEF f
      <4> QED
        BY <1>1, <1>3, <1>4, <2>2, <3>1, <4>1 DEF TypeOK
    <3>2. CASE k # f
      <4>1. epoll'[k] = epoll[k]
        BY <1>4, <3>2 DEF TypeOK
      <4>2. epoll[k].ptr \in Handles \ {h}
        BY <2>1, <2>3, <4>1
      <4> QED
        BY <2>2, <2>3, <4>1, <4>2 DEF KernelAgrees, TypeOK
    <3> QED
      BY <3>1, <3>2
  <2> QED
    BY <2>3 DEF KernelAgrees
<1> QED
  BY <1>5, <1>6, <1>7

LEMMA RmHandles ==
  ASSUME HandlesInv, NEW h \in Handles, Rm(h)
  PROVE  HandlesInv' /\ \A g \in Handles \ {h} : Added(g)' <=> Added(g)
<1> USE DEF HandlesInv
<1>1. /\ Drop(h, {"in", "out", "err"}) \in Seq(Entries)
      /\ Len(Drop(h, {"in", "out", "err"})) = Len(events)
  BY DropEffect
<1>2. CASE Added(h)
  <2>1. PICK f \in Fds : epoll[f] # Nobody /\ epoll[f].ptr = h
    BY <1>2 DEF Added
  <2>2. hfd[h] = f /\ epoll' = [epoll EXCEPT ![f] = Nobody]
    BY <2>1 DEF KernelAgrees, Rm, CtlDel
  <2>3. TypeOK'
    BY <1>1, <2>2 DEF Rm, TypeOK, handleVars
  <2>4. \A g \in Handles \ {h} : Added(g)' <=> Added(g)
    BY <2>1, <2>2 DEF Added, TypeOK
  <2>5. ~Added(h)'
    BY <2>1, <2>2 DEF Added, KernelAgrees, TypeOK
  <2>6. OneOwner' /\ FreshOrOwn'
    BY <2>4, <2>5 DEF Rm, handleVars, OneOwner, FreshOrOwn, TypeOK
  <2>7. KernelAgrees'
    BY <2>2 DEF Rm, handleVars, KernelAgrees, TypeOK
  <2> QED
    BY <2>3, <2>4, <2>6, <2>7
<1>3. CASE ~Added(h)
  <2>1. epoll' = epoll
    BY <1>3, CtlEarly DEF Rm, Called
  <2>2. TypeOK'
    BY <1>1, <2>1 DEF Rm, TypeOK, handleVars
  <2> QED
    BY <2>1, <2>2 DEF Rm, handleVars, OneOwner, FreshOrOwn, KernelAgrees, Added
<1> QED
  BY <1>2, <1>3

\* An early SetIn or SetOut changes the handle alone: the kernel knows no
\* descriptor of that name, or one without an entry.
LEMMA SetHandles ==
  ASSUME HandlesInv, NEW h \in Handles, NEW e \in {"in", "out"}, Set(h, e),
         s[h] # Nobody
  PROVE  HandlesInv' /\ \A g \in Handles : Added(g)' <=> Added(g)
<1> USE DEF HandlesInv
<1> DEFINE ev == hevents[h] \cup {e}
<1>1. ev \in Interests /\ hevents' = [hevents EXCEPT ![h] = ev] /\ hevents'[h] = ev
  BY DEF Set, TypeOK, Interests
<1>2. epoll' = CtlMod(hfd[h], h, ev)
  BY <1>1 DEF Set
<1>3. /\ s' = s /\ hfd' = hfd /\ events' = events /\ index' = index
      /\ report' = report
  BY DEF Set, batchVars
<1> HIDE DEF ev
<1>4. CASE Added(h)
  BY <1>1, <1>2, <1>3, <1>4, ModOwn DEF TypeOK
<1>5. CASE ~Added(h)
  <2>2. epoll' = epoll
    BY <1>2, <1>5, CtlEarly
  <2>3. TypeOK'
    BY <1>1, <1>3, <2>2 DEF TypeOK
  <2>4. \A g \in Handles : Added(g)' <=> Added(g)
    BY <2>2 DEF Added
  <2>5. KernelAgrees'
    BY <1>1, <1>3, <1>5, <2>2 DEF KernelAgrees, Added, TypeOK
  <2> QED
    BY <1>3, <2>2, <2>3, <2>4, <2>5 DEF OneOwner, FreshOrOwn
<1> QED
  BY <1>4, <1>5

LEMMA ResetHandles ==
  ASSUME HandlesInv, NEW h \in Handles, NEW e \in {"in", "out"}, Reset(h, e),
         s[h] # Nobody
  PROVE  HandlesInv' /\ \A g \in Handles : Added(g)' <=> Added(g)
<1> USE DEF HandlesInv
<1> DEFINE ev == hevents[h] \ {e}
<1>1. ev \in Interests /\ hevents' = [hevents EXCEPT ![h] = ev] /\ hevents'[h] = ev
  BY DEF Reset, TypeOK, Interests
<1>2. epoll' = CtlMod(hfd[h], h, ev)
  BY <1>1 DEF Reset
<1>3. /\ s' = s /\ hfd' = hfd /\ events' = Drop(h, {e}) /\ index' = index
      /\ report' = report
  BY DEF Reset
<1>4. Drop(h, {e}) \in Seq(Entries) /\ Len(Drop(h, {e})) = Len(events)
  BY DropEffect
<1> HIDE DEF ev
<1>5. CASE Added(h)
  BY <1>1, <1>2, <1>3, <1>4, <1>5, ModOwn DEF TypeOK
<1>6. CASE ~Added(h)
  <2>1. epoll' = epoll
    BY <1>2, <1>6, CtlEarly
  <2>2. TypeOK'
    BY <1>1, <1>3, <1>4, <2>1 DEF TypeOK
  <2>3. \A g \in Handles : Added(g)' <=> Added(g)
    BY <2>1 DEF Added
  <2>4. KernelAgrees'
    BY <1>1, <1>3, <1>6, <2>1 DEF KernelAgrees, Added, TypeOK
  <2> QED
    BY <1>3, <2>1, <2>2, <2>3, <2>4 DEF OneOwner, FreshOrOwn
<1> QED
  BY <1>5, <1>6

\* epoll_wait reports entries of the kernel.
LEMMA FoundEntries ==
  ASSUME HandlesInv, NEW b \in Found
  PROVE  /\ b \in Entries
         /\ Added(b.ptr)
         /\ b.events \subseteq hevents[b.ptr] \cup {"err"}
<1>0. PICK f \in Fds : /\ epoll[f] # Nobody
                       /\ \E ev \in SUBSET (epoll[f].events \cup {"err"}) :
                            b = [ptr |-> epoll[f].ptr, events |-> ev]
  BY DEF Found
<1>1. PICK ev \in SUBSET (epoll[f].events \cup {"err"}) :
        b = [ptr |-> epoll[f].ptr, events |-> ev]
  BY <1>0
<1>2. epoll[f].ptr \in Handles /\ epoll[f].events \in Interests
  BY <1>0 DEF HandlesInv, TypeOK
<1>3. epoll[f].events = hevents[epoll[f].ptr]
  BY <1>0 DEF HandlesInv, KernelAgrees
<1>4. b.ptr = epoll[f].ptr /\ b.events = ev
  BY <1>1
<1>5. b \in Entries
  BY <1>1, <1>2 DEF Entries, Interests
<1> QED
  BY <1>0, <1>2, <1>3, <1>4, <1>5 DEF Added

LEMMA WaitHandles ==
  ASSUME HandlesInv, Wait
  PROVE  HandlesInv' /\ BatchCurrent'
<1>0. PICK n \in 1 .. MaxEvents :
        \E batch \in [1 .. n -> Found] :
          /\ \A i, j \in 1 .. n : batch[i].ptr = batch[j].ptr => i = j
          /\ events' = batch
  BY DEF Wait
<1>1. PICK batch \in [1 .. n -> Found] :
        /\ \A i, j \in 1 .. n : batch[i].ptr = batch[j].ptr => i = j
        /\ events' = batch
  BY <1>0
<1>2. index' = 1 /\ UNCHANGED <<s, hfd, hevents, epoll, report>>
  BY DEF Wait, handleVars
<1>3. n \in Nat /\ n <= MaxEvents /\ MaxEvents \in Nat
  BY PollerAssumption
<1>4. batch \in [1 .. n -> Entries]
  BY <1>1, FoundEntries
<1>5. events' \in Seq(Entries) /\ Len(events') = n
  BY <1>1, <1>3, <1>4, Tabulated
<1>6. TypeOK'
  BY <1>2, <1>3, <1>5 DEF HandlesInv, TypeOK
<1>7. HandlesInv'
  BY <1>2, <1>6 DEF HandlesInv, OneOwner, FreshOrOwn, KernelAgrees, Added
<1>8. BatchCurrent'
  <2>1. \A i \in 1 .. n : /\ Added(events'[i].ptr)
                          /\ events'[i].events \subseteq hevents[events'[i].ptr] \cup {"err"}
    BY <1>1, FoundEntries
  <2>2. hevents' = hevents /\ \A h : Added(h)' <=> Added(h)
    BY <1>2 DEF Added
  <2> QED
    BY <1>1, <1>2, <1>5, <2>1, <2>2 DEF BatchCurrent
<1> QED
  BY <1>7, <1>8

\* Event takes something from one entry at most, and passes over others.
LEMMA EventHandles ==
  ASSUME IInv, Event
  PROVE  HandlesInv' /\ BatchCurrent'
<1> USE DEF IInv, HandlesInv
<1>1. UNCHANGED <<s, hfd, hevents, epoll>>
  BY DEF Event, EventFound, EventNone, handleVars
<1>2. OneOwner' /\ FreshOrOwn' /\ KernelAgrees'
  BY <1>1 DEF OneOwner, FreshOrOwn, KernelAgrees, Added
<1>3. CASE EventNone
  <2>1. index' = Len(events) + 1 /\ events' = events /\ report' = report
    BY <1>3 DEF EventNone
  <2> QED
    BY <1>1, <1>2, <2>1 DEF TypeOK, BatchCurrent
<1>4. CASE EventFound
  <2>1. PICK i \in DOMAIN events :
          /\ Skips(i) /\ ~Empty(i)
          /\ LET e == First(events[i].events) IN
               /\ report' = <<events[i].ptr, e>>
               /\ IF e = "err"
                  THEN index' = i + 1 /\ UNCHANGED events
                  ELSE index' = i /\ events' = [events EXCEPT ![i].events = @ \ {e}]
    BY <1>4 DEF EventFound
  <2> DEFINE e == First(events[i].events)
             rest == events[i].events \ {e}
  <2>2. i \in 1 .. Len(events) /\ i >= index /\ events[i] \in Entries /\ Len(events) \in Nat
    BY <2>1 DEF Skips, TypeOK
  <2>3. e \in Kinds /\ report' \in Handles \X Kinds
    BY <2>1, <2>2 DEF First, Entries, Kinds
  <2>4. CASE e = "err"
    <3>1. index' = i + 1 /\ events' = events
      BY <2>1, <2>4
    <3>2. TypeOK'
      BY <1>1, <2>2, <2>3, <3>1 DEF TypeOK, Kinds
    <3>3. BatchCurrent'
      BY <1>1, <2>2, <3>1 DEF BatchCurrent, Empty, Added, TypeOK
    <3> QED
      BY <1>2, <3>2, <3>3
  <2>5. CASE e # "err"
    <3>1. index' = i /\ events' = [events EXCEPT ![i].events = @ \ {e}]
      BY <2>1, <2>5
    <3>2. /\ events' \in Seq(Entries) /\ Len(events') = Len(events)
          /\ \A j \in 1 .. Len(events) :
               /\ events'[j].ptr = events[j].ptr
               /\ events'[j].events \subseteq events[j].events
      <4> DEFINE b == [ptr |-> events[i].ptr, events |-> rest]
      <4>1. [events[i] EXCEPT !.events = @ \ {e}] = b
        <5>1. events[i] \in [ptr : Handles, events : SUBSET {"in", "out", "err"}]
          BY <2>2 DEF Entries
        <5> HIDE DEF e
        <5> QED
          BY <5>1
      <4>2. b \in Entries /\ b.ptr = events[i].ptr /\ b.events \subseteq events[i].events
        BY <2>2 DEF Entries
      <4>3. events' = [events EXCEPT ![i] = b]
        BY <3>1, <4>1
      <4>4. DOMAIN events = 1 .. Len(events) /\ events \in [1 .. Len(events) -> Entries]
        BY DEF TypeOK
      <4>5. \A j \in 1 .. Len(events) : events'[j] = IF j = i THEN b ELSE events[j]
        BY <4>3, <4>4, Zenon
      <4>6. events' \in [1 .. Len(events) -> Entries]
        BY <4>2, <4>3, <4>4, Zenon
      <4>7. events' \in Seq(Entries) /\ Len(events') = Len(events)
        BY <2>2, <4>6, Tabulated
      <4>8. \A j \in 1 .. Len(events) : events'[j].ptr = events[j].ptr
                                        /\ events'[j].events \subseteq events[j].events
        <5> HIDE DEF b
        <5> QED
          BY <4>2, <4>5
      <4> QED
        BY <4>7, <4>8
    <3>3. TypeOK'
      BY <1>1, <2>2, <2>3, <3>1, <3>2 DEF TypeOK, Kinds
    <3>4. \A j \in 1 .. Len(events) : Empty(j) => Empty(j)'
      BY <3>2 DEF Empty
    <3>5. BatchCurrent'
      BY <1>1, <2>2, <3>1, <3>2, <3>4 DEF BatchCurrent, Added, TypeOK
    <3> QED
      BY <1>2, <3>3, <3>5
  <2> QED
    BY <2>4, <2>5
<1> QED
  BY <1>3, <1>4 DEF Event
-----------------------------------------------------------------------------
(* BatchCurrent, and the invariant as a whole. *)

\* The batch stays current if it only loses events, and handles lose neither
\* their place in the poller nor their interest while it has events of theirs.
LEMMA BatchKept ==
  ASSUME IInv,
         Len(events') = Len(events), index' = index,
         \A i \in index .. Len(events) :
           /\ events'[i].ptr = events[i].ptr
           /\ events'[i].events \subseteq events[i].events
           /\ events'[i].events # {} =>
                /\ Added(events[i].ptr)'
                /\ events'[i].events \subseteq hevents'[events[i].ptr] \cup {"err"}
  PROVE  BatchCurrent'
BY DEF IInv, BatchCurrent, Empty

LEMMA OperationInv ==
  ASSUME IInv, Garbage \subseteq {Nobody}, NEW h \in Handles, Operation(h)
  PROVE  IInv'
<1> USE DEF IInv
<1>1. /\ DOMAIN events = 1 .. Len(events) /\ index \in Nat \ {0} /\ Len(events) \in Nat
      /\ \A i \in 1 .. Len(events) : events[i] \in Entries
  BY DEF HandlesInv, TypeOK
<1>2. \A i \in index .. Len(events) : i \in 1 .. Len(events) /\ events[i].ptr \in Handles
  BY <1>1 DEF Entries
<1>3. \A i \in index .. Len(events) : events[i].events # {} =>
        /\ Added(events[i].ptr)
        /\ events[i].events \subseteq hevents[events[i].ptr] \cup {"err"}
  BY DEF BatchCurrent, Empty
<1>4. ASSUME Open(h) \/ Close(h) \/ Add(h) PROVE IInv'
  <2>1. HandlesInv'
    BY <1>4, OpenHandles, CloseHandles, AddHandles
  <2>2. ASSUME NEW g \in Handles, Added(g)
        PROVE  Added(g)' /\ hevents'[g] = hevents[g]
    <3>1. CASE Open(h) \/ Close(h)
      <4>1. epoll' = epoll
        BY <3>1 DEF Open, Close
      <4>2. g = h => ~Open(h)
        BY <2>2, PollerAssumption DEF Open, Added, HandlesInv, KernelAgrees
      <4>3. hevents'[g] = hevents[g]
        BY <3>1, <4>2 DEF Open, Close, HandlesInv, TypeOK
      <4> QED
        BY <2>2, <4>1, <4>3 DEF Added
    <3>2. CASE Add(h)
      <4>1. g # h /\ hevents' = [hevents EXCEPT ![h] = {}]
        BY <2>2, <3>2 DEF Add
      <4>2. PICK f \in Fds : epoll[f] # Nobody /\ epoll[f].ptr = g
        BY <2>2 DEF Added
      <4>3. epoll'[f] = epoll[f]
        BY <3>2, <4>2 DEF Add, CtlAdd, HandlesInv, TypeOK
      <4> QED
        BY <4>1, <4>2, <4>3 DEF Added, HandlesInv, TypeOK
    <3> QED
      BY <1>4, <3>1, <3>2
  <2>3. events' = events /\ index' = index
    BY <1>4 DEF Open, Close, Add, batchVars
  <2> QED
    BY <1>2, <1>3, <2>1, <2>2, <2>3, BatchKept
<1>5. ASSUME SetIn(h) \/ SetOut(h) PROVE IInv'
  <2>1. PICK e \in {"in", "out"} : Set(h, e) /\ s[h] # Nobody
    BY <1>5 DEF SetIn, SetOut, Called
  <2>2. HandlesInv' /\ \A g \in Handles : Added(g)' <=> Added(g)
    BY <2>1, SetHandles
  <2>3. \A g \in Handles : hevents[g] \subseteq hevents'[g]
    BY <2>1 DEF Set, HandlesInv, TypeOK
  <2>4. events' = events /\ index' = index
    BY <2>1 DEF Set, batchVars
  <2> QED
    BY <1>2, <1>3, <2>2, <2>3, <2>4, BatchKept
<1>6. ASSUME ResetIn(h) \/ ResetOut(h) PROVE IInv'
  <2>1. PICK e \in {"in", "out"} : Reset(h, e) /\ s[h] # Nobody
    BY <1>6 DEF ResetIn, ResetOut, Called
  <2>2. HandlesInv' /\ \A g \in Handles : Added(g)' <=> Added(g)
    BY <2>1, ResetHandles
  <2>3. /\ hevents' = [hevents EXCEPT ![h] = hevents[h] \ {e}]
        /\ events' = Drop(h, {e}) /\ index' = index
    BY <2>1 DEF Reset
  <2>4. /\ Len(events') = Len(events)
        /\ \A i \in 1 .. Len(events) :
             /\ events'[i].ptr = events[i].ptr
             /\ events'[i].events \subseteq events[i].events
             /\ i >= index /\ events[i].ptr = h =>
                  events'[i].events = events[i].events \ {e}
    BY <2>3, DropEffect DEF HandlesInv
  <2>5. ASSUME NEW i \in index .. Len(events), events'[i].events # {}
        PROVE  /\ Added(events[i].ptr)'
               /\ events'[i].events \subseteq hevents'[events[i].ptr] \cup {"err"}
    <3>1. i \in 1 .. Len(events) /\ i >= index
      BY <1>1, <1>2
    <3>2. events[i].events # {}
      BY <2>4, <2>5, <3>1
    <3>3. /\ Added(events[i].ptr)
          /\ events[i].events \subseteq hevents[events[i].ptr] \cup {"err"}
      BY <1>3, <3>2
    <3>4. hevents'[events[i].ptr] = IF events[i].ptr = h THEN hevents[h] \ {e}
                                    ELSE hevents[events[i].ptr]
      BY <1>2, <2>3 DEF HandlesInv, TypeOK
    <3> QED
      BY <1>2, <2>2, <2>4, <3>1, <3>3, <3>4
  <2> QED
    BY <1>2, <2>2, <2>3, <2>4, <2>5, BatchKept
<1>7. ASSUME Rm(h) PROVE IInv'
  <2>1. HandlesInv' /\ \A g \in Handles \ {h} : Added(g)' <=> Added(g)
    BY <1>7, RmHandles
  <2>2. hevents' = hevents /\ events' = Drop(h, Kinds) /\ index' = index
    BY <1>7 DEF Rm, handleVars, Kinds
  <2>3. /\ Len(events') = Len(events)
        /\ \A i \in 1 .. Len(events) :
             /\ events'[i].ptr = events[i].ptr
             /\ events'[i].events \subseteq events[i].events
             /\ i >= index /\ events[i].ptr = h =>
                  events'[i].events = events[i].events \ Kinds
    BY <2>2, DropEffect DEF HandlesInv
  <2>4. ASSUME NEW i \in index .. Len(events), events'[i].events # {}
        PROVE  /\ Added(events[i].ptr)'
               /\ events'[i].events \subseteq hevents'[events[i].ptr] \cup {"err"}
    <3>1. i \in 1 .. Len(events) /\ i >= index /\ events[i].events \subseteq Kinds
      BY <1>1, <1>2 DEF Entries, Kinds
    <3>2. events[i].ptr # h /\ events[i].events # {}
      BY <2>3, <2>4, <3>1
    <3> QED
      BY <1>2, <1>3, <2>1, <2>2, <2>3, <3>1, <3>2
  <2> QED
    BY <1>2, <2>1, <2>2, <2>3, <2>4, BatchKept
<1> QED
  BY <1>4, <1>5, <1>6, <1>7 DEF Operation

LEMMA NextInv ==
  ASSUME IInv, Garbage \subseteq {Nobody}, [Next]_vars
  PROVE  IInv'
<1>1. CASE Wait
  BY <1>1, WaitHandles DEF IInv
<1>2. CASE Event
  BY <1>2, EventHandles DEF IInv
<1>3. ASSUME NEW h \in Handles, Operation(h) PROVE IInv'
  BY <1>3, OperationInv
<1>4. CASE UNCHANGED vars
  BY <1>4 DEF vars, handleVars, batchVars, IInv, HandlesInv, TypeOK, OneOwner,
              FreshOrOwn, KernelAgrees, BatchCurrent, Added, Empty
<1> QED
  BY <1>1, <1>2, <1>3, <1>4 DEF Next
-----------------------------------------------------------------------------
(***************************************************************************)
(* The invariant holds whatever handlers and tasks do between two calls of *)
(* Event, if an uninitialised handle names no descriptor of this poller.   *)
(***************************************************************************)
THEOREM Invariance ==
  ASSUME Garbage \subseteq {Nobody}
  PROVE  Spec => []IInv
<1>1. Init => IInv
  BY InitHandles DEF Init, IInv, BatchCurrent
<1>2. IInv /\ [Next]_vars => IInv'
  BY NextInv
<1> QED
  BY <1>1, <1>2, PTL DEF Spec

\* The batch holds no more than kNetPollerMaxEvents entries, and index_ stays
\* in it or at its end.
THEOREM TypeCorrect ==
  ASSUME Garbage \subseteq {Nobody}
  PROVE  Spec => []TypeOK
BY Invariance, PTL DEF IInv, HandlesInv

\* NetPollerHandle and the kernel agree about every descriptor in the poller.
THEOREM HandlesAgree ==
  ASSUME Garbage \subseteq {Nobody}
  PROVE  Spec => []KernelAgrees
BY Invariance, PTL DEF IInv, HandlesInv

\* Rm, ResetIn and ResetOut leave nothing unwanted in the batch: Event never
\* reports what is not polled for.
THEOREM BatchIsCurrent ==
  ASSUME Garbage \subseteq {Nobody}
  PROVE  Spec => []BatchCurrent
BY Invariance, PTL DEF IInv
-----------------------------------------------------------------------------
(* NetPoller implements PollerPromise. *)

\* What PollerPromise sees of the handles and of the batch.
Interest == [h \in Handles |-> IF Added(h) THEN hevents[h] \cup {"err"} ELSE {}]
Left == UNION {{events[i].ptr} \X events[i].events : i \in index .. Len(events)}

LEMMA Mapping ==
  /\ Promise!Kinds = Kinds
  /\ Promise!Init <=> (Interest = [h \in Handles |-> {}] /\ Left = {} /\ report = <<>>)
  /\ Promise!Change <=>
       /\ \E h \in Handles, i \in SUBSET Kinds : Interest' = [Interest EXCEPT ![h] = i]
       /\ Left' = Left \cap Promise!Wanted(Interest')
       /\ report' = report
  /\ Promise!Collect <=>
       /\ Left = {} /\ Left' \in SUBSET Promise!Wanted(Interest)
       /\ Interest' = Interest /\ report' = report
  /\ \A h, e : Promise!Report(h, e) <=>
       /\ <<h, e>> \in Left
       /\ e = "out" => <<h, "in">> \notin Left
       /\ e = "err" => \A k \in {"in", "out"} : <<h, k>> \notin Left
       /\ report' = <<h, e>>
       /\ Left' = Left \ {<<h, e>>}
       /\ Interest' = Interest
  /\ UNCHANGED Promise!vars <=> (Interest' = Interest /\ Left' = Left /\ report' = report)
BY DEF Promise!Kinds, Kinds, Promise!Init, Promise!Change, Promise!Collect,
       Promise!Report, Promise!vars, Interest, Left, Added

\* What is left of the batch, entry by entry.
LEMMA LeftEntries ==
  ASSUME IInv
  PROVE  /\ index .. Len(events) \subseteq 1 .. Len(events)
         /\ \A i \in index .. Len(events) :
              /\ events[i] \in Entries /\ events[i].ptr \in Handles
              /\ events[i].events \subseteq Interest[events[i].ptr]
         /\ \A h, k : <<h, k>> \in Left <=>
              \E i \in index .. Len(events) : events[i].ptr = h /\ k \in events[i].events
         /\ \A p \in Left : p = <<p[1], p[2]>>
<1>1. /\ index \in Nat \ {0} /\ Len(events) \in Nat
      /\ \A i \in 1 .. Len(events) : events[i] \in Entries
  BY DEF IInv, HandlesInv, TypeOK
<1>2. \A i \in index .. Len(events) : events[i] \in Entries /\ events[i].ptr \in Handles
  BY <1>1 DEF Entries
<1>3. \A i \in index .. Len(events) : events[i].events \subseteq Interest[events[i].ptr]
  BY <1>2 DEF IInv, BatchCurrent, Empty, Interest
<1> QED
  BY <1>1, <1>2, <1>3 DEF Left

\* An operation that changes one handle's interest, and takes from the batch
\* what is not wanted any more, is a Change.
LEMMA ChangeStep ==
  ASSUME IInv, NEW h \in Handles,
         \A g \in Handles \ {h} : Interest'[g] = Interest[g],
         Interest'[h] \subseteq Kinds,
         Len(events') = Len(events), index' = index, report' = report,
         \A i \in index .. Len(events) :
           /\ events'[i].ptr = events[i].ptr
           /\ events'[i].events = events[i].events \cap Interest'[events[i].ptr]
  PROVE  Promise!Change
<1>1. Interest' = [Interest EXCEPT ![h] = Interest'[h]]
  BY DEF Interest
<1>2. Left' = Left \cap Promise!Wanted(Interest')
  <2>1. \A p \in Left' : p = <<p[1], p[2]>> /\ p \in Left \cap Promise!Wanted(Interest')
    <3> SUFFICES ASSUME NEW i \in index .. Len(events), NEW k \in events'[i].events
                 PROVE  <<events'[i].ptr, k>> \in Left \cap Promise!Wanted(Interest')
      BY DEF Left
    <3> QED
      BY LeftEntries DEF Promise!Wanted
  <2>2. ASSUME NEW p \in Left, p \in Promise!Wanted(Interest')
        PROVE  p \in Left'
    <3>1. p = <<p[1], p[2]>> /\ <<p[1], p[2]>> \in Left
      BY LeftEntries
    <3>2. PICK i \in index .. Len(events) : events[i].ptr = p[1] /\ p[2] \in events[i].events
      BY <3>1, LeftEntries
    <3>3. p[2] \in Interest'[p[1]]
      BY <2>2 DEF Promise!Wanted
    <3>4. events'[i].ptr = p[1] /\ p[2] \in events'[i].events
      BY <3>2, <3>3
    <3> QED
      BY <3>1, <3>4 DEF Left
  <2> QED
    BY <2>1, <2>2
<1> QED
  BY <1>1, <1>2, Mapping

\* Whatever handlers and tasks do to a handle is a Change.
LEMMA OperationIsChange ==
  ASSUME IInv, NEW h \in Handles, Operation(h)
  PROVE  Promise!Change
<1>1. /\ DOMAIN events = 1 .. Len(events) /\ index \in Nat \ {0} /\ Len(events) \in Nat
      /\ \A i \in index .. Len(events) : i \in 1 .. Len(events) /\ i >= index
      /\ hevents \in [Handles -> Interests] /\ epoll \in [Fds -> UNION {
           [ptr : Handles, events : Interests], {Nobody}}]
  BY DEF IInv, HandlesInv, TypeOK
<1>2. \A i \in index .. Len(events) :
        /\ events[i] \in Entries /\ events[i].ptr \in Handles
        /\ events[i].events \subseteq Interest[events[i].ptr]
  BY LeftEntries
<1>3. report' = report /\ index' = index
  BY DEF Operation, Open, Close, Add, SetIn, SetOut, Set, ResetIn, ResetOut, Reset, Rm,
         batchVars
<1>4. \A g \in Handles : hevents[g] \subseteq {"in", "out"}
  BY <1>1 DEF Interests
<1>5. ASSUME Open(h) \/ Close(h) \/ Add(h) PROVE Promise!Change
  <2>1. events' = events
    BY <1>5 DEF Open, Close, Add, batchVars
  <2>2. Interest[h] = {}
    <3>1. ~Added(h)
      BY <1>5, PollerAssumption DEF Open, Close, Add, Added, IInv, HandlesInv, KernelAgrees
    <3> QED
      BY <3>1 DEF Interest
  <2>3. \A g \in Handles \ {h} : hevents'[g] = hevents[g] /\ (Added(g)' <=> Added(g))
    <3>1. CASE Open(h) \/ Close(h)
      BY <1>1, <3>1 DEF Open, Close, Added
    <3>2. CASE Add(h)
      <4>1. epoll' = CtlAdd(s[h], h) /\ hevents' = [hevents EXCEPT ![h] = {}]
        BY <3>2 DEF Add
      <4>2. \A f \in Fds : epoll'[f] = epoll[f] \/ (epoll[f] = Nobody /\ epoll'[f].ptr = h)
        BY <1>1, <4>1 DEF CtlAdd
      <4>3. \A g \in Handles \ {h} : hevents'[g] = hevents[g]
        BY <1>1, <4>1
      <4>4. \A f \in Fds : epoll[f] # Nobody => epoll'[f] = epoll[f]
        BY <4>2
      <4>5. \A g \in Handles \ {h} : Added(g)' <=> Added(g)
        BY <4>2, <4>4 DEF Added
      <4> QED
        BY <4>3, <4>5
    <3> QED
      BY <1>5, <3>1, <3>2
  <2>4. Interest'[h] \subseteq Kinds
    <3>1. hevents'[h] \subseteq {"in", "out"}
      BY <1>1, <1>4, <1>5 DEF Open, Close, Add, Interests
    <3> QED
      BY <3>1 DEF Interest, Kinds
  <2>5. \A g \in Handles \ {h} : Interest'[g] = Interest[g]
    BY <2>3 DEF Interest
  <2> QED
    BY <1>2, <1>3, <2>1, <2>2, <2>4, <2>5, ChangeStep
<1>6. ASSUME SetIn(h) \/ SetOut(h) PROVE Promise!Change
  <2>1. PICK e \in {"in", "out"} : Set(h, e) /\ s[h] # Nobody
    BY <1>6 DEF SetIn, SetOut, Called
  <2>2. \A g \in Handles : Added(g)' <=> Added(g)
    BY <2>1, SetHandles DEF IInv
  <2>3. hevents' = [hevents EXCEPT ![h] = hevents[h] \cup {e}] /\ events' = events
    BY <2>1 DEF Set, batchVars
  <2>4. /\ \A g \in Handles \ {h} : Interest'[g] = Interest[g]
        /\ Interest[h] \subseteq Interest'[h] /\ Interest'[h] \subseteq Kinds
    BY <1>1, <1>4, <2>2, <2>3 DEF Interest, Kinds
  <2> QED
    BY <1>2, <1>3, <2>3, <2>4, ChangeStep
<1>7. ASSUME ResetIn(h) \/ ResetOut(h) PROVE Promise!Change
  <2>1. PICK e \in {"in", "out"} : Reset(h, e) /\ s[h] # Nobody
    BY <1>7 DEF ResetIn, ResetOut, Called
  <2>2. \A g \in Handles : Added(g)' <=> Added(g)
    BY <2>1, ResetHandles DEF IInv
  <2>3. hevents' = [hevents EXCEPT ![h] = hevents[h] \ {e}] /\ events' = Drop(h, {e})
    BY <2>1 DEF Reset
  <2>4. /\ \A g \in Handles \ {h} : Interest'[g] = Interest[g]
        /\ Interest'[h] = Interest[h] \ {e} /\ Interest'[h] \subseteq Kinds
    BY <1>1, <1>4, <2>2, <2>3 DEF Interest, Kinds
  <2>5. /\ Len(events') = Len(events)
        /\ \A i \in index .. Len(events) :
             /\ events'[i].ptr = events[i].ptr
             /\ events'[i].events = events[i].events \cap Interest'[events[i].ptr]
    <3>1. TypeOK
      BY DEF IInv, HandlesInv
    <3>2. ASSUME NEW i \in index .. Len(events)
          PROVE  /\ events'[i].ptr = events[i].ptr
                 /\ events'[i].events = events[i].events \cap Interest'[events[i].ptr]
      <4>1. /\ events'[i].ptr = events[i].ptr
            /\ events[i].ptr = h => events'[i].events = events[i].events \ {e}
            /\ events[i].ptr # h => events'[i] = events[i]
        BY <1>1, <2>3, <3>1, DropEffect
      <4>2. events[i].ptr \in Handles /\ events[i].events \subseteq Interest[events[i].ptr]
        BY <1>2
      <4> QED
        BY <2>4, <4>1, <4>2
    <3> QED
      BY <2>3, <3>1, <3>2, DropEffect
  <2> QED
    BY <1>3, <2>4, <2>5, ChangeStep
<1>8. ASSUME Rm(h) PROVE Promise!Change
  <2>1. \A g \in Handles \ {h} : Added(g)' <=> Added(g)
    BY <1>8, RmHandles DEF IInv
  <2>2. hevents' = hevents /\ events' = Drop(h, Kinds) /\ epoll' = CtlDel(hfd[h])
    BY <1>8 DEF Rm, handleVars, Kinds
  <2>3. ~Added(h)'
    BY <1>1, <2>2 DEF Added, CtlDel, IInv, HandlesInv, KernelAgrees
  <2>4. /\ \A g \in Handles \ {h} : Interest'[g] = Interest[g]
        /\ Interest'[h] = {}
    BY <2>1, <2>2, <2>3 DEF Interest
  <2>5. \A i \in index .. Len(events) : events[i].events \subseteq Kinds
    BY <1>2 DEF Entries, Kinds
  <2>6. /\ Len(events') = Len(events)
        /\ \A i \in index .. Len(events) :
             /\ events'[i].ptr = events[i].ptr
             /\ events'[i].events = events[i].events \cap Interest'[events[i].ptr]
    <3>1. TypeOK
      BY DEF IInv, HandlesInv
    <3>2. ASSUME NEW i \in index .. Len(events)
          PROVE  /\ events'[i].ptr = events[i].ptr
                 /\ events'[i].events = events[i].events \cap Interest'[events[i].ptr]
      <4>1. /\ events'[i].ptr = events[i].ptr
            /\ events[i].ptr = h => events'[i].events = events[i].events \ Kinds
            /\ events[i].ptr # h => events'[i] = events[i]
        BY <1>1, <2>2, <3>1, DropEffect
      <4>2. events[i].ptr \in Handles /\ events[i].events \subseteq Interest[events[i].ptr]
        BY <1>2
      <4> QED
        BY <2>4, <2>5, <4>1, <4>2
    <3> QED
      BY <2>2, <3>1, <3>2, DropEffect
  <2>7. Interest'[h] \subseteq Kinds
    BY <2>4
  <2> QED
    BY <1>3, <2>4, <2>6, <2>7, ChangeStep
<1> QED
  BY <1>5, <1>6, <1>7, <1>8 DEF Operation

\* Wait comes when nothing is left, and finds what is wanted.
LEMMA WaitIsCollect ==
  ASSUME IInv, Wait
  PROVE  Promise!Collect
<1>1. index = Len(events) + 1 /\ UNCHANGED <<s, hfd, hevents, epoll, report>>
  BY DEF Wait, handleVars
<1>2. Left = {}
  BY <1>1 DEF Left, IInv, HandlesInv, TypeOK
<1>3. Interest' = Interest
  BY <1>1 DEF Interest, Added
<1>4. Left' \subseteq Promise!Wanted(Interest')
  <2>1. HandlesInv' /\ BatchCurrent'
    BY WaitHandles DEF IInv
  <2>2. ASSUME NEW i \in (index .. Len(events))', NEW k \in events'[i].events
        PROVE  <<events'[i].ptr, k>> \in Promise!Wanted(Interest')
    <3>1. i \in 1 .. Len(events')
      BY <2>1 DEF HandlesInv, TypeOK
    <3>2. events'[i].ptr \in Handles
      <4>1. events' \in Seq(Entries)
        BY <2>1 DEF HandlesInv, TypeOK
      <4>2. events'[i] \in Entries
        BY <3>1, <4>1
      <4> QED
        BY <4>2 DEF Entries
    <3>3. k \in Interest'[events'[i].ptr]
      BY <2>1, <3>2 DEF BatchCurrent, Empty, Interest
    <3> QED
      BY <3>2, <3>3 DEF Promise!Wanted
  <2> QED
    BY <2>2 DEF Left
<1> QED
  BY <1>1, <1>2, <1>3, <1>4, Mapping

\* Event reports one thing that is left, and nothing else goes.
LEMMA EventIsReport ==
  ASSUME IInv, EventFound
  PROVE  \E h \in Handles, e \in Kinds : Promise!Report(h, e)
<1>1. PICK i \in DOMAIN events :
        /\ Skips(i) /\ ~Empty(i)
        /\ LET e == First(events[i].events) IN
             /\ report' = <<events[i].ptr, e>>
             /\ IF e = "err"
                THEN index' = i + 1 /\ UNCHANGED events
                ELSE index' = i /\ events' = [events EXCEPT ![i].events = @ \ {e}]
  BY DEF EventFound
<1> DEFINE e == First(events[i].events)
           h == events[i].ptr
           n == Len(events)
<1>2. /\ n \in Nat /\ index \in Nat \ {0} /\ i \in index .. n
      /\ DOMAIN events = 1 .. n /\ \A j \in 1 .. n : events[j] \in Entries
      /\ \A j \in index .. i - 1 : events[j].events = {}
      /\ events[i].events # {}
  BY <1>1 DEF Skips, Empty, IInv, HandlesInv, TypeOK
<1>3. /\ h \in Handles /\ e \in Kinds /\ e \in events[i].events
      /\ e = "out" => "in" \notin events[i].events
      /\ e = "err" => events[i].events = {"err"}
  BY <1>2 DEF First, Entries, Kinds
<1>4. \A j \in index .. n : events[j].ptr = h => j = i
  BY <1>2 DEF IInv, BatchCurrent
<1>5. \A k : <<h, k>> \in Left <=> k \in events[i].events
  BY <1>2, <1>4, LeftEntries
<1>6. Interest' = Interest
  BY DEF EventFound, handleVars, Interest, Added
<1>7. /\ Len(events') = n /\ index' \in i .. i + 1
      /\ index' = i + 1 => events[i].events \ {e} = {}
      /\ index' = i => events'[i].ptr = h /\ events'[i].events = events[i].events \ {e}
      /\ \A j \in 1 .. n : j # i => events'[j] = events[j]
  <2>1. CASE e = "err"
    BY <1>1, <1>2, <1>3, <2>1
  <2>2. CASE e # "err"
    <3>1. index' = i /\ events' = [events EXCEPT ![i].events = @ \ {e}]
      BY <1>1, <2>2
    <3>2. events[i] \in [ptr : Handles, events : SUBSET {"in", "out", "err"}]
      BY <1>2 DEF Entries
    <3> HIDE DEF e
    <3>3. /\ [events[i] EXCEPT !.events = @ \ {e}].ptr = h
          /\ [events[i] EXCEPT !.events = @ \ {e}].events = events[i].events \ {e}
      BY <3>2
    <3> QED
      BY <1>2, <3>1, <3>3 DEF IInv, HandlesInv, TypeOK
  <2> QED
    BY <2>1, <2>2
<1> HIDE DEF e
<1>8. Left' = Left \ {<<h, e>>}
  <2>1. ASSUME NEW j \in index' .. n, NEW k \in events'[j].events
        PROVE  <<events'[j].ptr, k>> \in Left \ {<<h, e>>}
    <3>1. j \in index .. n /\ j \in 1 .. n
      BY <1>2, <1>7
    <3>2. CASE j = i
      BY <1>2, <1>5, <1>7, <3>2
    <3>3. CASE j # i
      BY <1>4, <1>7, <3>1, <3>3, LeftEntries
    <3> QED
      BY <3>2, <3>3
  <2>2. ASSUME NEW p \in Left, p # <<h, e>>
        PROVE  p \in Left'
    <3>1. p = <<p[1], p[2]>> /\ <<p[1], p[2]>> \in Left
      BY LeftEntries
    <3>2. PICK j \in index .. n : events[j].ptr = p[1] /\ p[2] \in events[j].events
      BY <3>1, LeftEntries
    <3>3. j >= i
      BY <1>2, <3>2
    <3>4. CASE j = i
      <4>1. p[2] \in events[i].events \ {e}
        BY <2>2, <3>1, <3>2, <3>4
      <4>2. index' = i
        BY <1>2, <1>7, <4>1
      <4>3. events'[j].ptr = p[1] /\ p[2] \in events'[j].events /\ j \in index' .. Len(events')
        BY <1>2, <1>7, <3>2, <3>4, <4>1, <4>2
      <4> QED
        BY <3>1, <4>3 DEF Left
    <3>5. CASE j # i
      <4>1. j \in index' .. Len(events') /\ j \in 1 .. n
        BY <1>2, <1>7, <3>3, <3>5
      <4>2. events'[j].ptr = p[1] /\ p[2] \in events'[j].events
        BY <1>7, <3>2, <3>5, <4>1
      <4> QED
        BY <3>1, <4>1, <4>2 DEF Left
    <3> QED
      BY <3>4, <3>5
  <2>3. Left' \subseteq Left \ {<<h, e>>}
    BY <1>7, <2>1 DEF Left
  <2> QED
    BY <2>2, <2>3
<1>9. report' = <<h, e>>
  BY <1>1 DEF e
<1>10. PICK g \in Handles, k \in Kinds : g = h /\ k = e
  BY <1>3
<1>11. Promise!Report(g, k)
  <2>1. Promise!Report(g, k) <=>
          /\ <<g, k>> \in Left
          /\ k = "out" => <<g, "in">> \notin Left
          /\ k = "err" => \A j \in {"in", "out"} : <<g, j>> \notin Left
          /\ report' = <<g, k>>
          /\ Left' = Left \ {<<g, k>>}
          /\ Interest' = Interest
    BY Mapping
  <2> QED
    BY <1>3, <1>5, <1>6, <1>8, <1>9, <1>10, <2>1
<1> QED
  BY <1>11

\* Event finds nothing only if nothing is left.
LEMMA EventNoneIsHidden ==
  ASSUME IInv, EventNone
  PROVE  UNCHANGED Promise!vars
<1>1. /\ index' = Len(events) + 1 /\ UNCHANGED <<s, hfd, hevents, epoll, events, report>>
      /\ \A j \in index .. Len(events) + 1 - 1 : events[j].events = {}
  BY DEF EventNone, Skips, Empty, handleVars
<1>2. Len(events) \in Nat /\ index \in Nat
  BY DEF IInv, HandlesInv, TypeOK
<1>3. Left = {}
  BY <1>1, <1>2 DEF Left
<1>4. Left' = {}
  BY <1>1, <1>2 DEF Left
<1>5. Interest' = Interest
  BY <1>1 DEF Interest, Added
<1> QED
  BY <1>1, <1>3, <1>4, <1>5, Mapping

(***************************************************************************)
(* Event reports only what is in the poller and polled for at that moment, *)
(* once for each wait, IN before OUT before errors; Rm and the resets take *)
(* the rest from the batch, whatever is closed and opened in between.      *)
(***************************************************************************)
THEOREM Refinement ==
  ASSUME Garbage \subseteq {Nobody}
  PROVE  Spec => Promise!Init /\ [][Promise!Next]_(Promise!vars)
<1>1. Init => Promise!Init
  <2> SUFFICES ASSUME Init PROVE Promise!Init
    OBVIOUS
  <2>1. Interest = [h \in Handles |-> {}]
    BY DEF Init, Interest, Added
  <2>2. Left = {}
    BY DEF Init, Left
  <2> QED
    BY <2>1, <2>2, Mapping DEF Init
<1>2. IInv /\ [Next]_vars => [Promise!Next]_(Promise!vars)
  <2> SUFFICES ASSUME IInv, [Next]_vars
               PROVE  Promise!Next \/ UNCHANGED Promise!vars
    OBVIOUS
  <2>1. CASE Wait
    BY <2>1, WaitIsCollect DEF Promise!Next
  <2>2. CASE EventFound
    BY <2>2, EventIsReport, Mapping DEF Promise!Next, Promise!Reporting
  <2>3. CASE EventNone
    BY <2>3, EventNoneIsHidden
  <2>4. ASSUME NEW h \in Handles, Operation(h) PROVE Promise!Next
    BY <2>4, OperationIsChange DEF Promise!Next
  <2>5. CASE UNCHANGED vars
    BY <2>5, Mapping DEF vars, handleVars, batchVars, Interest, Left, Added
  <2> QED
    BY <2>1, <2>2, <2>3, <2>4, <2>5 DEF Next, Event
<1> QED
  BY <1>1, <1>2, Invariance, PTL DEF Spec
=============================================================================
