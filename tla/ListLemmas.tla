----------------------------- MODULE ListLemmas -----------------------------
(***************************************************************************)
(* Facts about sequences without duplicates: what a list threaded through  *)
(* its own items looks like from outside.  The proofs about NetQueue's     *)
(* users rest on them.                                                     *)
(***************************************************************************)
EXTENDS Integers, Sequences, SequencesExt, SequenceTheorems, TLAPS

\* The elements of a sequence over S are in S (NetQueue holds items only).
LEMMA ElementsInSet ==
  ASSUME NEW S, NEW s \in Seq(S)
  PROVE  /\ ToSet(s) \subseteq S
         /\ \A i \in 1 .. Len(s) : s[i] \in ToSet(s)
         /\ \A x \in ToSet(s) : \E i \in 1 .. Len(s) : s[i] = x
BY DEF ToSet

\* NetQueue::Push puts the item behind the others.
LEMMA AppendElements ==
  ASSUME NEW S, NEW s \in Seq(S), NEW x \in S
  PROVE  /\ Append(s, x) \in Seq(S)
         /\ Append(s, x) # <<>>
         /\ ToSet(Append(s, x)) = ToSet(s) \cup {x}
         /\ IsInjective(s) /\ x \notin ToSet(s) => IsInjective(Append(s, x))
<1>1. /\ Append(s, x) \in Seq(S)
      /\ Len(Append(s, x)) = Len(s) + 1
      /\ \A i \in 1 .. Len(s) : Append(s, x)[i] = s[i]
      /\ Append(s, x)[Len(s) + 1] = x
  OBVIOUS
<1>2. DOMAIN Append(s, x) = 1 .. Len(s) + 1 /\ DOMAIN s = 1 .. Len(s)
  BY <1>1
<1>3. ToSet(Append(s, x)) = ToSet(s) \cup {x}
  <2>1. ToSet(Append(s, x)) \subseteq ToSet(s) \cup {x}
    BY <1>1, <1>2 DEF ToSet
  <2>2. \A i \in 1 .. Len(s) : s[i] \in ToSet(Append(s, x))
    BY <1>1, <1>2 DEF ToSet
  <2>3. x \in ToSet(Append(s, x))
    BY <1>1, <1>2 DEF ToSet
  <2> QED
    BY <2>1, <2>2, <2>3, <1>2 DEF ToSet
<1>4. ASSUME IsInjective(s), x \notin ToSet(s)
      PROVE  IsInjective(Append(s, x))
  BY <1>1, <1>2, <1>4 DEF IsInjective, ToSet
<1> QED
  BY <1>1, <1>3, <1>4

\* NetQueue::Pop takes the head, and the rest does not hold it any more.
LEMMA TailElements ==
  ASSUME NEW S, NEW s \in Seq(S), s # <<>>, IsInjective(s)
  PROVE  /\ Head(s) \in S
         /\ Tail(s) \in Seq(S)
         /\ IsInjective(Tail(s))
         /\ Head(s) \in ToSet(s)
         /\ ToSet(Tail(s)) = ToSet(s) \ {Head(s)}
<1>1. /\ Len(s) \in Nat \ {0}
      /\ DOMAIN s = 1 .. Len(s)
      /\ Head(s) = s[1]
      /\ Tail(s) \in Seq(S)
      /\ Len(Tail(s)) = Len(s) - 1
      /\ \A i \in 1 .. Len(s) - 1 : Tail(s)[i] = s[i + 1]
  BY HeadTailProperties, EmptySeq, LenProperties
<1>2. DOMAIN Tail(s) = 1 .. Len(s) - 1
  BY <1>1, LenProperties
<1>3. IsInjective(Tail(s))
  BY <1>1, <1>2 DEF IsInjective
<1>4. Head(s) \in S /\ Head(s) \in ToSet(s)
  BY <1>1, ElementOfSeq DEF ToSet
<1>5. ToSet(Tail(s)) = ToSet(s) \ {Head(s)}
  <2>1. ASSUME NEW y \in ToSet(Tail(s)) PROVE y \in ToSet(s) \ {Head(s)}
    <3>1. PICK i \in 1 .. Len(s) - 1 : y = s[i + 1]
      BY <1>1, <1>2 DEF ToSet
    <3>2. y # s[1]
      BY <3>1, <1>1 DEF IsInjective
    <3> QED
      BY <3>1, <3>2, <1>1 DEF ToSet
  <2>2. ASSUME NEW y \in ToSet(s), y # Head(s) PROVE y \in ToSet(Tail(s))
    <3>1. PICK i \in 1 .. Len(s) : y = s[i]
      BY <1>1 DEF ToSet
    <3>2. i - 1 \in 1 .. Len(s) - 1 /\ Tail(s)[i - 1] = y
      BY <3>1, <2>2, <1>1
    <3> QED
      BY <3>2, <1>2 DEF ToSet
  <2> QED
    BY <2>1, <2>2
<1> QED
  BY <1>1, <1>3, <1>4, <1>5

\* What removing the k-th item makes of a list: its length and its items.
RemoveAtShape(S, s, k) ==
  /\ RemoveAt(s, k) \in Seq(S)
  /\ Len(RemoveAt(s, k)) = Len(s) - 1
  /\ \A i \in 1 .. Len(s) - 1 :
       RemoveAt(s, k)[i] = IF i < k THEN s[i] ELSE s[i + 1]

\* NetQueue::Remove moves the later items up by one.
LEMMA RemoveAtValue ==
  ASSUME NEW S, NEW s \in Seq(S), NEW k \in 1 .. Len(s)
  PROVE  RemoveAtShape(S, s, k)
<1> DEFINE n == Len(s)
           a == SubSeq(s, 1, k - 1)
           b == SubSeq(s, k + 1, n)
<1>1. n \in Nat /\ k \in 1 .. n
  BY LenProperties
<1>2. RemoveAt(s, k) = a \o b
  BY DEF RemoveAt
<1>3. /\ a \in Seq(S)
      /\ Len(a) = k - 1
      /\ \A i \in 1 .. k - 1 : a[i] = s[i]
  <2>1. \A i \in 1 .. k - 1 : s[i] \in S
    BY ElementOfSeq
  <2> QED
    BY <2>1, SubSeqProperties
<1>4. /\ b \in Seq(S)
      /\ Len(b) = IF k + 1 <= n THEN n - (k + 1) + 1 ELSE 0
      /\ \A i \in 1 .. n - (k + 1) + 1 : b[i] = s[(k + 1) + i - 1]
  <2>1. \A i \in k + 1 .. n : s[i] \in S
    BY <1>1, ElementOfSeq
  <2>2. k + 1 \in Int /\ n \in Int
    BY <1>1
  <2> HIDE DEF n
  <2> QED
    BY <2>1, <2>2, SubSeqProperties
<1> HIDE DEF n, a, b
<1>5. Len(b) = n - k /\ \A i \in 1 .. n - k : b[i] = s[k + i]
  <2>1. ASSUME NEW i \in 1 .. n - k PROVE b[i] = s[k + i]
    <3>1. i \in 1 .. n - (k + 1) + 1 /\ (k + 1) + i - 1 = k + i
      BY <1>1
    <3> QED
      BY <3>1, <1>4
  <2> QED
    BY <2>1, <1>1, <1>4
<1>6. /\ a \o b \in Seq(S)
      /\ Len(a \o b) = Len(a) + Len(b)
      /\ \A i \in 1 .. Len(a) + Len(b) :
           (a \o b)[i] = IF i <= Len(a) THEN a[i] ELSE b[i - Len(a)]
  BY <1>3, <1>4, ConcatProperties
<1>7. ASSUME NEW i \in 1 .. n - 1
      PROVE  (a \o b)[i] = IF i < k THEN s[i] ELSE s[i + 1]
  <2>1. i \in 1 .. Len(a) + Len(b)
    BY <1>1, <1>3, <1>5
  <2>2. CASE i < k
    BY <2>1, <2>2, <1>1, <1>3, <1>6
  <2>3. CASE ~(i < k)
    <3>1. i - (k - 1) \in 1 .. n - k /\ k + (i - (k - 1)) = i + 1
      BY <2>3, <1>1
    <3>2. (a \o b)[i] = b[i - (k - 1)]
      BY <2>1, <2>3, <1>1, <1>3, <1>6
    <3> QED
      BY <3>1, <3>2, <2>3, <1>5
  <2> QED
    BY <2>2, <2>3
<1>8. Len(a \o b) = n - 1
  BY <1>1, <1>3, <1>5, <1>6
<1> QED
  BY <1>2, <1>6, <1>7, <1>8 DEF RemoveAtShape, n

\* NetQueue::Remove unlinks one item and keeps the others in their order.
LEMMA RemoveAtElements ==
  ASSUME NEW S, NEW s \in Seq(S), NEW k \in 1 .. Len(s), IsInjective(s)
  PROVE  /\ RemoveAt(s, k) \in Seq(S)
         /\ IsInjective(RemoveAt(s, k))
         /\ ToSet(RemoveAt(s, k)) = ToSet(s) \ {s[k]}
<1> DEFINE r == RemoveAt(s, k)
<1>0. Len(s) \in Nat /\ k \in Int /\ DOMAIN s = 1 .. Len(s)
  BY LenProperties
<1>3. /\ r \in Seq(S)
      /\ Len(r) = Len(s) - 1
      /\ \A i \in 1 .. Len(s) - 1 : r[i] = IF i < k THEN s[i] ELSE s[i + 1]
  BY RemoveAtValue DEF RemoveAtShape
<1>4. DOMAIN r = 1 .. Len(s) - 1
  BY <1>3, LenProperties
<1> HIDE DEF r
<1>5. IsInjective(r)
  <2>1. SUFFICES ASSUME NEW i \in 1 .. Len(s) - 1, NEW j \in 1 .. Len(s) - 1,
                        r[i] = r[j]
                 PROVE  i = j
    BY <1>4 DEF IsInjective
  <2> DEFINE Up(n) == IF n < k THEN n ELSE n + 1
  <2>2. /\ Up(i) \in 1 .. Len(s) /\ r[i] = s[Up(i)]
        /\ Up(j) \in 1 .. Len(s) /\ r[j] = s[Up(j)]
    BY <1>0, <1>3
  <2>3. Up(i) = Up(j)
    BY <2>1, <2>2, <1>0 DEF IsInjective
  <2> QED
    BY <2>3, <1>0
<1>6. ToSet(r) = ToSet(s) \ {s[k]}
  <2>1. ASSUME NEW y \in ToSet(r) PROVE y \in ToSet(s) \ {s[k]}
    <3>1. PICK i \in 1 .. Len(s) - 1 : y = r[i]
      BY <1>4 DEF ToSet
    <3>2. PICK j \in 1 .. Len(s) : j # k /\ y = s[j]
      BY <3>1, <1>3, <1>0
    <3> QED
      BY <3>2, <1>0 DEF ToSet, IsInjective
  <2>2. ASSUME NEW y \in ToSet(s), y # s[k] PROVE y \in ToSet(r)
    <3>1. PICK j \in 1 .. Len(s) : y = s[j]
      BY <1>0 DEF ToSet
    <3>2. CASE j < k
      <4>1. j \in 1 .. Len(s) - 1 /\ r[j] = y
        BY <3>1, <3>2, <1>3, <1>0
      <4> QED
        BY <4>1, <1>4 DEF ToSet
    <3>3. CASE j > k
      <4>1. j - 1 \in 1 .. Len(s) - 1 /\ r[j - 1] = y
        BY <3>1, <3>3, <1>3, <1>0
      <4> QED
        BY <4>1, <1>4 DEF ToSet
    <3> QED
      BY <3>1, <3>2, <3>3, <2>2, <1>0
  <2> QED
    BY <2>1, <2>2
<1> QED
  BY <1>3, <1>5, <1>6 DEF r
-----------------------------------------------------------------------------
(* Two lists seen as one, the first in front of the second. *)

\* An item is in the one list exactly if it is in one of the two.
LEMMA ConcatElements ==
  ASSUME NEW S, NEW s \in Seq(S), NEW t \in Seq(S)
  PROVE  ToSet(s \o t) = ToSet(s) \cup ToSet(t)
<1>1. /\ Len(s) \in Nat /\ Len(t) \in Nat
      /\ DOMAIN s = 1 .. Len(s) /\ DOMAIN t = 1 .. Len(t)
      /\ DOMAIN (s \o t) = 1 .. Len(s) + Len(t)
      /\ \A i \in 1 .. Len(s) + Len(t) :
           (s \o t)[i] = IF i <= Len(s) THEN s[i] ELSE t[i - Len(s)]
  BY LenProperties, ConcatProperties
<1>2. ToSet(s \o t) \subseteq ToSet(s) \cup ToSet(t)
  <2>1. SUFFICES ASSUME NEW i \in 1 .. Len(s) + Len(t)
                 PROVE  (s \o t)[i] \in ToSet(s) \cup ToSet(t)
    BY <1>1 DEF ToSet
  <2>2. CASE i <= Len(s)
    BY <2>2, <1>1 DEF ToSet
  <2>3. CASE ~(i <= Len(s))
    <3>1. i - Len(s) \in 1 .. Len(t)
      BY <2>3, <1>1
    <3> QED
      BY <3>1, <2>3, <1>1 DEF ToSet
  <2> QED
    BY <2>2, <2>3
<1>3. \A i \in 1 .. Len(s) : s[i] \in ToSet(s \o t)
  BY <1>1 DEF ToSet
<1>4. ASSUME NEW i \in 1 .. Len(t) PROVE t[i] \in ToSet(s \o t)
  <2>1. Len(s) + i \in 1 .. Len(s) + Len(t) /\ (s \o t)[Len(s) + i] = t[i]
    BY <1>1
  <2> QED
    BY <2>1, <1>1 DEF ToSet
<1> QED
  BY <1>1, <1>2, <1>3, <1>4 DEF ToSet

\* Behind both lists is behind the second one.
LEMMA ConcatAppend ==
  ASSUME NEW S, NEW s \in Seq(S), NEW t \in Seq(S), NEW x \in S
  PROVE  s \o Append(t, x) = Append(s \o t, x)
OBVIOUS

\* The head of both lists is the head of the first one, if it has one.
LEMMA ConcatHeadTail ==
  ASSUME NEW S, NEW s \in Seq(S), NEW t \in Seq(S), s # <<>>
  PROVE  /\ s \o t # <<>>
         /\ Head(s \o t) = Head(s)
         /\ Tail(s \o t) = Tail(s) \o t
<1>1. Len(s) \in Nat \ {0}
  BY EmptySeq
<1>2. s \o t # <<>> /\ Head(s \o t) = Head(s)
  BY <1>1
<1>3. /\ Tail(s) \in Seq(S) /\ Len(Tail(s)) = Len(s) - 1
      /\ \A i \in 1 .. Len(s) - 1 : Tail(s)[i] = s[i + 1]
  BY HeadTailProperties
<1>4. /\ s \o t \in Seq(S) /\ Len(s \o t) = Len(s) + Len(t)
      /\ Len(t) \in Nat
      /\ \A i \in 1 .. Len(s) + Len(t) :
           (s \o t)[i] = IF i <= Len(s) THEN s[i] ELSE t[i - Len(s)]
  BY ConcatProperties, LenProperties
<1>5. /\ Tail(s \o t) \in Seq(S) /\ Len(Tail(s \o t)) = Len(s) + Len(t) - 1
      /\ \A i \in 1 .. Len(s) + Len(t) - 1 : Tail(s \o t)[i] = (s \o t)[i + 1]
  BY <1>2, <1>4, HeadTailProperties
<1>6. /\ Tail(s) \o t \in Seq(S) /\ Len(Tail(s) \o t) = Len(s) - 1 + Len(t)
      /\ \A i \in 1 .. Len(s) - 1 + Len(t) :
           (Tail(s) \o t)[i] = IF i <= Len(s) - 1 THEN Tail(s)[i]
                               ELSE t[i - (Len(s) - 1)]
  BY <1>3, ConcatProperties
<1>7. ASSUME NEW i \in 1 .. Len(s) + Len(t) - 1
      PROVE  Tail(s \o t)[i] = (Tail(s) \o t)[i]
  <2>1. i \in 1 .. Len(s) - 1 + Len(t) /\ i + 1 \in 1 .. Len(s) + Len(t)
    BY <1>1, <1>4
  <2>2. CASE i <= Len(s) - 1
    BY <2>1, <2>2, <1>1, <1>3, <1>4, <1>5, <1>6
  <2>3. CASE ~(i <= Len(s) - 1)
    <3>1. (s \o t)[i + 1] = t[i + 1 - Len(s)]
      BY <2>1, <2>3, <1>1, <1>4
    <3>2. i + 1 - Len(s) = i - (Len(s) - 1)
      BY <1>1
    <3> QED
      BY <3>1, <3>2, <2>1, <2>3, <1>5, <1>6
  <2> QED
    BY <2>2, <2>3
<1>8. Tail(s \o t) = Tail(s) \o t
  BY <1>1, <1>4, <1>5, <1>6, <1>7, SeqEqual
<1> QED
  BY <1>2, <1>8

\* To unlink an item of the second list is to unlink it from both.
LEMMA ConcatRemoveAt ==
  ASSUME NEW S, NEW s \in Seq(S), NEW t \in Seq(S), NEW k \in 1 .. Len(t)
  PROVE  /\ Len(s) + k \in DOMAIN (s \o t)
         /\ (s \o t)[Len(s) + k] = t[k]
         /\ s \o RemoveAt(t, k) = RemoveAt(s \o t, Len(s) + k)
<1>1. /\ Len(s) \in Nat /\ Len(t) \in Nat /\ k \in Int
      /\ s \o t \in Seq(S) /\ Len(s \o t) = Len(s) + Len(t)
      /\ DOMAIN (s \o t) = 1 .. Len(s) + Len(t)
      /\ \A i \in 1 .. Len(s) + Len(t) :
           (s \o t)[i] = IF i <= Len(s) THEN s[i] ELSE t[i - Len(s)]
  BY LenProperties, ConcatProperties
<1>2. Len(s) + k \in DOMAIN (s \o t) /\ (s \o t)[Len(s) + k] = t[k]
  BY <1>1
<1>3. RemoveAtShape(S, t, k)
  BY RemoveAtValue
<1>4. RemoveAtShape(S, s \o t, Len(s) + k)
  BY <1>1, <1>2, RemoveAtValue
<1>5. /\ s \o RemoveAt(t, k) \in Seq(S)
      /\ Len(s \o RemoveAt(t, k)) = Len(s) + (Len(t) - 1)
      /\ \A i \in 1 .. Len(s) + (Len(t) - 1) :
           (s \o RemoveAt(t, k))[i] = IF i <= Len(s) THEN s[i]
                                      ELSE RemoveAt(t, k)[i - Len(s)]
  <2> DEFINE u == RemoveAt(t, k)
  <2>1. u \in Seq(S) /\ Len(u) = Len(t) - 1
    BY <1>3 DEF RemoveAtShape
  <2> HIDE DEF u
  <2>2. /\ s \o u \in Seq(S)
        /\ Len(s \o u) = Len(s) + Len(u)
        /\ \A i \in 1 .. Len(s) + Len(u) :
             (s \o u)[i] = IF i <= Len(s) THEN s[i] ELSE u[i - Len(s)]
    BY <2>1, ConcatProperties
  <2>3. /\ s \o u \in Seq(S)
        /\ Len(s \o u) = Len(s) + (Len(t) - 1)
        /\ \A i \in 1 .. Len(s) + (Len(t) - 1) :
             (s \o u)[i] = IF i <= Len(s) THEN s[i] ELSE u[i - Len(s)]
    BY <2>1, <2>2
  <2> QED
    BY <2>3 DEF u
<1>6. ASSUME NEW i \in 1 .. Len(s) + Len(t) - 1
      PROVE  (s \o RemoveAt(t, k))[i] = RemoveAt(s \o t, Len(s) + k)[i]
  <2>1. i \in 1 .. Len(s) + (Len(t) - 1) /\ i + 1 \in 1 .. Len(s) + Len(t)
    BY <1>1
  <2>2. RemoveAt(s \o t, Len(s) + k)[i]
          = IF i < Len(s) + k THEN (s \o t)[i] ELSE (s \o t)[i + 1]
    BY <1>4, <1>1 DEF RemoveAtShape
  <2>3. CASE i <= Len(s)
    BY <2>1, <2>2, <2>3, <1>1, <1>5
  <2>4. CASE ~(i <= Len(s))
    <3> DEFINE j == i - Len(s)
    <3>1. j \in 1 .. Len(t) - 1 /\ i + 1 - Len(s) = j + 1
      BY <2>1, <2>4, <1>1
    <3>2. (s \o RemoveAt(t, k))[i] = IF j < k THEN t[j] ELSE t[j + 1]
      BY <3>1, <2>1, <2>4, <1>3, <1>5 DEF RemoveAtShape
    <3>3. (s \o t)[i] = t[j] /\ (s \o t)[i + 1] = t[j + 1]
      BY <3>1, <2>1, <2>4, <1>1
    <3>4. i < Len(s) + k <=> j < k
      BY <1>1
    <3> QED
      BY <3>2, <3>3, <3>4, <2>2
  <2> QED
    BY <2>3, <2>4
<1>7. s \o RemoveAt(t, k) = RemoveAt(s \o t, Len(s) + k)
  <2> DEFINE u == s \o RemoveAt(t, k)
             v == RemoveAt(s \o t, Len(s) + k)
  <2>1. /\ u \in Seq(S) /\ Len(u) = Len(s) + Len(t) - 1
        /\ v \in Seq(S) /\ Len(v) = Len(s) + Len(t) - 1
        /\ \A i \in 1 .. Len(s) + Len(t) - 1 : u[i] = v[i]
    BY <1>1, <1>4, <1>5, <1>6 DEF RemoveAtShape
  <2> HIDE DEF u, v
  <2>2. u = v
    BY <2>1, SeqEqual
  <2> QED
    BY <2>2 DEF u, v
<1> QED
  BY <1>2, <1>7
=============================================================================
