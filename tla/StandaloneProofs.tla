-------------------------- MODULE StandaloneProofs --------------------------
(***************************************************************************)
(* What stands alone: the erasing loop, on a list of any length, and the   *)
(* programs crypto-test and tagdh, on a curve of any order, with what the  *)
(* symbolic operations say of it for a group of any size.                  *)
(***************************************************************************)
EXTENDS CryptoTest, Tagdh, EraseLoop, SweepProofs

-----------------------------------------------------------------------------
(* The erasing loop.                                                       *)

\* The list before the loop examined the element with this position in it.
Position == i + 1 + length - Len(list)

\* The element before it is kept, and so is everything from it on, where it
\* was; of what comes before, what is kept is as ErasedAt says.
EraseInv ==
    /\ length \in Nat /\ old \in SUBSET (1..length)
    /\ list \in Seq(1..length) /\ i \in Nat
    /\ Position - 1 \notin ErasedAt(old)
    /\ \A j \in 1..length :
         (\E k \in 1..Len(list) : list[k] = j) <=> ~(j \in ErasedAt(old) /\ j < Position)
    /\ \A k, m \in 1..Len(list) : k < m => list[k] < list[m]
    /\ \A k \in i+1..Len(list) : list[k] = k + length - Len(list)

\* A piece of a list.
LEMMA PieceOf ==
    ASSUME NEW S, NEW l \in Seq(S), NEW from \in Nat \ {0}, NEW to \in Nat,
           from <= to + 1, to <= Len(l)
    PROVE  /\ SubSeq(l, from, to) \in Seq(S)
           /\ Len(SubSeq(l, from, to)) = to - from + 1
           /\ \A m \in 1..to - from + 1 : SubSeq(l, from, to)[m] = l[from + m - 1]
<1> DEFINE piece == SubSeq(l, from, to)
<1>1. from \in Int /\ to \in Int /\ Len(l) \in Nat
  BY LenProperties
<1>2. \A m \in from..to : l[m] \in S
  <2>1. \A m \in from..to : m \in 1..Len(l)
    BY <1>1
  <2> QED
    BY <2>1, ElementOfSeq
<1>3. /\ piece \in Seq(S)
      /\ Len(piece) = IF from <= to THEN to - from + 1 ELSE 0
      /\ \A m \in 1..to - from + 1 : piece[m] = l[from + m - 1]
  BY <1>1, <1>2, SubSeqProperties
<1> HIDE DEF piece
<1>4. Len(piece) = to - from + 1
  BY <1>1, <1>3
<1> QED
  BY <1>3, <1>4 DEF piece

\* The list without its k-th element.
LEMMA WithoutElement ==
    ASSUME NEW S, NEW l \in Seq(S), NEW k \in 1..Len(l)
    PROVE  /\ Without(l, k) \in Seq(S)
           /\ Len(Without(l, k)) = Len(l) - 1
           /\ \A m \in 1..Len(l)-1 : Without(l, k)[m] = IF m < k THEN l[m] ELSE l[m+1]
<1>1. Len(l) \in Nat /\ k \in Nat /\ k >= 1 /\ k <= Len(l)
  BY LenProperties
<1> DEFINE head == SubSeq(l, 1, k-1)
           tail == SubSeq(l, k+1, Len(l))
<1>2. head \in Seq(S) /\ Len(head) = k-1 /\ \A m \in 1..k-1 : head[m] = l[m]
  <2> DEFINE to == k-1
  <2>1. to \in Nat /\ 1 \in Nat \ {0} /\ 1 <= to + 1 /\ to <= Len(l)
    BY <1>1
  <2>2. to - 1 + 1 = to /\ \A m \in 1..to : 1 + m - 1 = m
    BY <1>1
  <2> HIDE DEF to
  <2>3. /\ SubSeq(l, 1, to) \in Seq(S)
        /\ Len(SubSeq(l, 1, to)) = to - 1 + 1
        /\ \A m \in 1..to - 1 + 1 : SubSeq(l, 1, to)[m] = l[1 + m - 1]
    BY <2>1, PieceOf
  <2>4. /\ SubSeq(l, 1, to) \in Seq(S) /\ Len(SubSeq(l, 1, to)) = to
        /\ \A m \in 1..to : SubSeq(l, 1, to)[m] = l[m]
    BY <2>1, <2>2, <2>3
  <2> QED
    BY <2>4 DEF to
<1>3. /\ tail \in Seq(S) /\ Len(tail) = Len(l) - k
      /\ \A m \in 1..Len(l)-k : tail[m] = l[k+m]
  <2> DEFINE from == k+1
             to == Len(l)
  <2>1. from \in Nat \ {0} /\ to \in Nat /\ from <= to + 1 /\ to <= Len(l)
    BY <1>1
  <2>2. to - from + 1 = to - k /\ \A m \in 1..to-k : from + m - 1 = k+m
    BY <1>1
  <2> HIDE DEF from, to
  <2>3. /\ SubSeq(l, from, to) \in Seq(S)
        /\ Len(SubSeq(l, from, to)) = to - from + 1
        /\ \A m \in 1..to - from + 1 : SubSeq(l, from, to)[m] = l[from + m - 1]
    BY <2>1, PieceOf
  <2>4. /\ SubSeq(l, from, to) \in Seq(S) /\ Len(SubSeq(l, from, to)) = to - k
        /\ \A m \in 1..to-k : SubSeq(l, from, to)[m] = l[k+m]
    BY <2>2, <2>3
  <2> QED
    BY <2>4 DEF from, to
<1>4. Without(l, k) = head \o tail
  BY Zenon DEF Without
<1> HIDE DEF head, tail
<1>5. /\ head \o tail \in Seq(S) /\ Len(head \o tail) = Len(head) + Len(tail)
      /\ \A m \in 1..Len(head) + Len(tail) :
           (head \o tail)[m] = IF m <= Len(head) THEN head[m] ELSE tail[m - Len(head)]
  BY <1>2, <1>3, ConcatProperties
<1>6. Len(head) = k-1 /\ Len(tail) = Len(l) - k /\ Len(head) + Len(tail) = Len(l) - 1
  BY <1>1, <1>2, <1>3
<1>7. ASSUME NEW m \in 1..Len(l)-1
      PROVE  (head \o tail)[m] = IF m < k THEN l[m] ELSE l[m+1]
  <2>1. CASE m < k
    <3>1. head[m] = l[m]
      BY <1>1, <1>2, <2>1
    <3> QED
      BY <1>1, <1>5, <1>6, <2>1, <3>1
  <2>2. CASE ~(m < k)
    <3>1. m - (k-1) \in 1..Len(l)-k /\ k + (m - (k-1)) = m + 1
      BY <1>1, <2>2
    <3>2. tail[m - (k-1)] = l[m+1]
      BY <1>3, <3>1
    <3> QED
      BY <1>1, <1>5, <1>6, <2>2, <3>2
  <2> QED
    BY <2>1, <2>2
<1> QED
  BY <1>4, <1>5, <1>6, <1>7

LEMMA EraseInitially == Init => EraseInv
<1> SUFFICES ASSUME Init PROVE EraseInv
  OBVIOUS
<1>1. length \in Nat /\ old \in SUBSET (1..length) /\ i = 0
  BY LengthAssumption DEF Init
<1>2. list = [k \in 1..length |-> k]
  BY DEF Init
<1>3. list \in Seq(1..length) /\ Len(list) = length
  BY <1>1, <1>2
<1>4. Position = 1
  BY <1>1, <1>3 DEF Position
<1>5. 0 \notin ErasedAt(old)
  BY <1>1 DEF ErasedAt
<1>6. \A k \in 1..length : list[k] = k
  BY <1>2
<1> QED
  BY <1>1, <1>3, <1>4, <1>5, <1>6 DEF EraseInv

\* An iteration goes on to the next element when it keeps one, and past the
\* next, which it keeps as well, when it erases one.
LEMMA EraseStep == EraseInv /\ Iterate => EraseInv'
<1> SUFFICES ASSUME EraseInv, Iterate PROVE EraseInv'
  OBVIOUS
<1> DEFINE n == Len(list)
           p == Position
           E == ErasedAt(old)
<1>1. /\ length \in Nat /\ old \in SUBSET (1..length)
      /\ list \in Seq(1..length) /\ i \in Nat /\ n \in Nat
      /\ p = i + 1 + length - n
      /\ p - 1 \notin E
      /\ i < n
  BY LenProperties DEF EraseInv, Iterate, Position
<1>2. \A k, m \in 1..n : k < m => list[k] < list[m]
  BY DEF EraseInv
<1>3. \A k \in i+1..n : list[k] = k + length - n
  BY DEF EraseInv
<1>4. \A j \in 1..length : (\E k \in 1..n : list[k] = j) <=> ~(j \in E /\ j < p)
  BY DEF EraseInv
<1>5. i+1 \in 1..n /\ list[i+1] = p /\ p \in Int
  BY <1>1, <1>3
<1>6. length' = length /\ old' = old /\ i' = i + 1 /\ ErasedAt(old)' = E
  BY DEF Iterate
<1>7. \A k \in 1..n : list[k] \in 1..length
  BY <1>1
<1>8. p \in 1..length
  BY <1>5, <1>7
<1> HIDE DEF n, p
<1>9. CASE p \in old
  <2>1. list' = Without(list, i+1)
    BY <1>1, <1>5, <1>9 DEF Iterate, n
  <2>2. /\ list' \in Seq(1..length) /\ Len(list') = n - 1
        /\ \A m \in 1..n-1 : list'[m] = IF m < i+1 THEN list[m] ELSE list[m+1]
    BY <1>1, <1>5, <2>1, WithoutElement DEF n
  <2>3. Position' = p + 2
    BY <1>1, <1>6, <2>2 DEF Position, n
  <2>4. p \in E
    BY <1>1, <1>5, <1>9, ErasedAfterKept
  <2>5. p + 1 \notin E
    <3> DEFINE q == p + 1
    <3>1. q \in Int /\ q - 1 = p
      BY <1>5
    <3> HIDE DEF q
    <3>2. q \in ErasedAt(old) => q - 1 \notin ErasedAt(old)
      BY <1>1, <3>1, ErasedAfterKept
    <3>3. q \notin E
      BY <2>4, <3>1, <3>2
    <3> QED
      BY <3>3 DEF q
  <2> HIDE DEF E
  <2>6. ASSUME NEW k \in 1..n-1, NEW m \in 1..n-1, k < m
        PROVE  list'[k] < list'[m]
    <3>1. k \in 1..n /\ k+1 \in 1..n /\ m \in 1..n /\ m+1 \in 1..n
      BY <1>1
    <3>2. list[k] < list[m] /\ list[k+1] < list[m+1] /\ list[k] < list[m+1]
      BY <1>1, <1>2, <2>6, <3>1
    <3>3. /\ list'[k] = IF k < i+1 THEN list[k] ELSE list[k+1]
          /\ list'[m] = IF m < i+1 THEN list[m] ELSE list[m+1]
          /\ m < i+1 => k < i+1
      BY <1>1, <2>2, <2>6
    <3> QED
      BY <3>2, <3>3
  <2>7. ASSUME NEW k \in i+2..n-1
        PROVE  list'[k] = k + length - (n - 1)
    <3>1. k+1 \in i+1..n /\ k \in 1..n-1 /\ ~(k < i+1)
      BY <1>1
    <3>2. list'[k] = list[k+1]
      BY <2>2, <3>1
    <3>3. list[k+1] = k + 1 + length - n
      BY <1>3, <3>1
    <3> QED
      BY <1>1, <3>2, <3>3
  <2>8. ASSUME NEW j \in 1..length
        PROVE  (\E k \in 1..n-1 : list'[k] = j) <=> ~(j \in E /\ j < p + 2)
    <3>1. (\E k \in 1..n-1 : list'[k] = j) <=> j # p /\ \E k \in 1..n : list[k] = j
      <4>1. ASSUME NEW k \in 1..n-1, list'[k] = j
            PROVE  j # p /\ \E m \in 1..n : list[m] = j
        <5>1. k \in 1..n /\ k+1 \in 1..n /\ i+1 \in 1..n
          BY <1>1
        <5>2. CASE k < i+1
          <6>1. j = list[k] /\ list[k] < list[i+1]
            BY <1>2, <2>2, <4>1, <5>1, <5>2
          <6> QED
            BY <1>5, <5>1, <6>1
        <5>3. CASE ~(k < i+1)
          <6>1. i+1 < k+1
            BY <1>1, <5>3
          <6>2. j = list[k+1] /\ list[i+1] < list[k+1]
            BY <1>2, <2>2, <4>1, <5>1, <5>3, <6>1
          <6> QED
            BY <1>5, <5>1, <6>2
        <5> QED
          BY <5>2, <5>3
      <4>2. ASSUME j # p, NEW k \in 1..n, list[k] = j
            PROVE  \E m \in 1..n-1 : list'[m] = j
        <5>1. k # i+1
          BY <1>5, <4>2
        <5>2. CASE k < i+1
          <6>1. k \in 1..n-1
            BY <1>1, <5>2
          <6> QED
            BY <2>2, <4>2, <5>2, <6>1
        <5>3. CASE k > i+1
          <6>1. k-1 \in 1..n-1 /\ ~(k-1 < i+1) /\ k-1+1 = k
            BY <1>1, <5>3
          <6> QED
            BY <2>2, <4>2, <6>1
        <5> QED
          BY <1>1, <5>1, <5>2, <5>3
      <4> QED
        BY <4>1, <4>2
    <3>2. (\E k \in 1..n : list[k] = j) <=> ~(j \in E /\ j < p)
      BY <1>4
    <3>3. j \in E /\ j < p + 2 <=> j = p \/ (j \in E /\ j < p)
      <4>1. j < p + 2 <=> j < p \/ j = p \/ j = p + 1
        BY <1>5
      <4> QED
        BY <2>4, <2>5, <4>1
    <3> QED
      BY <3>1, <3>2, <3>3
  <2> QED
    BY <1>1, <1>6, <2>2, <2>3, <2>5, <2>6, <2>7, <2>8 DEF EraseInv, n, p, E
<1>10. CASE p \notin old
  <2>1. list' = list
    BY <1>1, <1>5, <1>10 DEF Iterate, n
  <2>2. Position' = p + 1
    BY <1>1, <1>6, <2>1 DEF Position, n
  <2>3. p \notin E
    BY <1>10 DEF ErasedAt
  <2> HIDE DEF E
  <2>4. ASSUME NEW j \in 1..length
        PROVE  j \in E /\ j < p + 1 <=> j \in E /\ j < p
    <3>1. j < p + 1 <=> j < p \/ j = p
      BY <1>5
    <3> QED
      BY <2>3, <3>1
  <2>5. p + 1 - 1 = p /\ \A k \in i+2..n : k \in i+1..n
    BY <1>1, <1>5
  <2> QED
    BY <1>1, <1>2, <1>3, <1>4, <1>6, <2>1, <2>2, <2>3, <2>4, <2>5
       DEF EraseInv, n, p, E
<1> QED
  BY <1>9, <1>10

LEMMA EraseAlways == Spec => []EraseInv
<1>1. EraseInv /\ UNCHANGED vars => EraseInv'
  BY DEF EraseInv, Position, vars
<1>2. EraseInv /\ [Next]_vars => EraseInv'
  BY <1>1, EraseStep DEF Next
<1> QED
  BY <1>2, EraseInitially, PTL DEF Spec

\* When the loop is over, every element has been examined or skipped.
LEMMA WhatIsLeft ==
    ASSUME EraseInv, Done
    PROVE  /\ list \in Seq((1..length) \ ErasedAt(old))
           /\ list \in Bijection(1..Len(list), (1..length) \ ErasedAt(old))
           /\ \A k, m \in 1..Len(list) : k < m => list[k] < list[m]
<1> DEFINE n == Len(list)
           kept == (1..length) \ ErasedAt(old)
<1>1. /\ length \in Nat /\ list \in Seq(1..length) /\ n \in Nat /\ i \in Nat
      /\ i >= n /\ Position > length
  BY LenProperties DEF EraseInv, Done, Position
<1>2. \A k, m \in 1..n : k < m => list[k] < list[m]
  BY DEF EraseInv
<1>3. ASSUME NEW j \in 1..length
      PROVE  (\E k \in 1..n : list[k] = j) <=> j \in kept
  <2>1. j < Position
    BY <1>1 DEF Position
  <2> QED
    BY <2>1 DEF EraseInv
<1>4. list \in [1..n -> 1..length]
  BY <1>1, LenProperties
<1> HIDE DEF n, kept
<1>5. list \in [1..n -> kept] /\ \A j \in kept : \E k \in 1..n : list[k] = j
  <2>1. kept \subseteq 1..length
    BY DEF kept
  <2> QED
    BY <1>3, <1>4, <2>1
<1>6. list \in Seq(kept)
  BY <1>1, <1>5, SeqDef
<1>7. ASSUME NEW k \in 1..n, NEW m \in 1..n, list[k] = list[m]
      PROVE  k = m
  <2>1. list[k] \in Int /\ list[m] \in Int
    BY <1>4
  <2> QED
    BY <1>1, <1>2, <1>7, <2>1
<1>8. list \in Bijection(1..n, kept)
  BY <1>5, <1>7, OneToOneOnto
<1> QED
  BY <1>2, <1>6, <1>8 DEF n, kept

\* A set of numbers is put in order in one way.
LEMMA OrderedIsUnique ==
    ASSUME NEW S \in SUBSET Int, NEW n \in Nat, NEW f \in Bijection(1..n, S),
           \A k, m \in 1..n : k < m => f[k] < f[m]
    PROVE  Cardinality(S) = n /\ Ordered(S) = f /\ Increasing(f, S)
<1>1. /\ f \in [1..n -> S]
      /\ \A k, m \in 1..n : f[k] = f[m] => k = m
      /\ \A s \in S : \E k \in 1..n : f[k] = s
  BY OneToOneOnto
<1>2. Cardinality(S) = n
  BY CountedOneToOne
<1>3. ASSUME NEW k \in 1..n
      PROVE  Cardinality({s \in S : s < f[k]}) = k - 1
  <2> DEFINE before == {s \in S : s < f[k]}
             h == [m \in 1..k-1 |-> f[m]]
  <2>1. \A m \in 1..n : f[m] < f[k] <=> m < k
    <3> SUFFICES ASSUME NEW m \in 1..n PROVE f[m] < f[k] <=> m < k
      OBVIOUS
    <3>1. f[m] \in Int /\ f[k] \in Int
      BY <1>1
    <3>2. CASE m < k
      BY <3>2
    <3>3. CASE m = k
      BY <3>1, <3>3
    <3>4. CASE k < m
      BY <3>1, <3>4
    <3> QED
      BY <3>2, <3>3, <3>4
  <2>2. \A m \in 1..k-1 : m \in 1..n /\ m < k
    OBVIOUS
  <2>3. h \in [1..k-1 -> before]
    BY <1>1, <2>1, <2>2
  <2>4. \A m, q \in 1..k-1 : h[m] = h[q] => m = q
    BY <1>1, <2>2
  <2>5. \A s \in before : \E m \in 1..k-1 : h[m] = s
    <3> SUFFICES ASSUME NEW s \in before PROVE \E m \in 1..k-1 : h[m] = s
      OBVIOUS
    <3>1. PICK m \in 1..n : f[m] = s
      BY <1>1
    <3>2. m < k
      BY <2>1, <3>1
    <3> QED
      BY <3>1, <3>2
  <2> HIDE DEF h, before
  <2>6. h \in Bijection(1..k-1, before)
    BY <2>3, <2>4, <2>5, OneToOneOnto
  <2>7. k - 1 \in Nat
    OBVIOUS
  <2>8. Cardinality(before) = k - 1
    BY <2>6, <2>7, CountedOneToOne
  <2> QED
    BY <2>8 DEF before
<1> DEFINE Nth(k) == CHOOSE j \in S : Cardinality({s \in S : s < j}) = k-1
<1>4. ASSUME NEW k \in 1..n
      PROVE  Nth(k) = f[k]
  <2>1. ASSUME NEW j \in S, Cardinality({s \in S : s < j}) = k-1
        PROVE  j = f[k]
    <3>1. PICK m \in 1..n : f[m] = j
      BY <1>1
    <3>2. m - 1 = k - 1
      BY <1>3, <2>1, <3>1
    <3> QED
      BY <3>1, <3>2
  <2>2. f[k] \in S /\ Cardinality({s \in S : s < f[k]}) = k - 1
    BY <1>1, <1>3
  <2> QED
    BY <2>1, <2>2
<1>5. Ordered(S) = [k \in 1..n |-> Nth(k)]
  BY <1>2 DEF Ordered
<1> HIDE DEF Nth
<1>6. Ordered(S) = f
  BY <1>1, <1>4, <1>5
<1> QED
  BY <1>1, <1>2, <1>6 DEF Increasing

\* For a list of any length, of which any elements are too old, the erasing
\* loop of updateState, processIGROUP and the floods leaves exactly what Sweep
\* says it leaves.
THEOREM LeavesSweptHolds == Spec => []LeavesSwept
<1>1. EraseInv => LeavesSwept
  <2> SUFFICES ASSUME EraseInv, Done
               PROVE  Swept([k \in 1..length |-> k], old) = {list}
    BY DEF LeavesSwept
  <2> DEFINE before == [k \in 1..length |-> k]
             n == Len(list)
             kept == (1..length) \ ErasedAt(old)
             Kept(f) == [k \in 1..Cardinality(kept) |-> before[f[k]]]
  <2>1. length \in Nat /\ n \in Nat /\ list \in Seq(1..length)
    BY LenProperties DEF EraseInv
  <2>2. Len(before) = length
    BY <2>1
  <2>3. /\ list \in Seq(kept)
        /\ list \in Bijection(1..n, kept)
        /\ \A k, m \in 1..n : k < m => list[k] < list[m]
    BY WhatIsLeft
  <2>4. Cardinality(kept) = n /\ Ordered(kept) = list /\ Increasing(list, kept)
    <3>1. kept \in SUBSET Int
      BY <2>1
    <3> HIDE DEF n, kept
    <3> QED
      BY <2>1, <2>3, <3>1, OrderedIsUnique
  <2>5. Kept(list) = list
    <3>1. list \in [1..n -> kept]
      BY <2>3, OneToOneOnto
    <3>2. \A k \in 1..n : list[k] \in 1..length
      BY <3>1
    <3>3. Kept(list) = [k \in 1..n |-> list[k]]
      BY <2>4, <3>2
    <3> QED
      BY <3>1, <3>3
  <2>6. Swept(before, old)
          = {Kept(f) : f \in {h \in {Ordered(kept)} : Increasing(h, kept)}}
    BY <2>2, Zenon DEF Swept
  <2> HIDE DEF kept, before, Kept
  <2>7. {h \in {Ordered(kept)} : Increasing(h, kept)} = {list}
    BY <2>4
  <2> QED
    BY <2>5, <2>6, <2>7 DEF before
<1> QED
  BY <1>1, EraseAlways, PTL

\* However long the list, the loop erases at least half of what is too old:
\* before every element it leaves there is one that it erases.
THEOREM ErasesHalfHolds == Spec => []ErasesHalf
<1>1. EraseInv => ErasesHalf
  <2> DEFINE E == ErasedAt(old)
             left == {k \in 1..Len(list) : list[k] \in old}
             spared == old \ E
  <2> SUFFICES ASSUME EraseInv, Done
               PROVE  2 * Cardinality(left) <= Cardinality(old)
    BY DEF ErasesHalf
  <2>1. length \in Nat /\ old \in SUBSET (1..length) /\ Len(list) \in Nat
    BY LenProperties DEF EraseInv
  <2>2. /\ list \in [1..Len(list) -> (1..length) \ E]
        /\ \A k, m \in 1..Len(list) : list[k] = list[m] => k = m
    BY WhatIsLeft, OneToOneOnto
  <2>3. IsFiniteSet(old) /\ E \subseteq old /\ IsFiniteSet(E) /\ IsFiniteSet(spared)
    <3>1. IsFiniteSet(1..length)
      BY <2>1, CountingFromOne
    <3>2. E \subseteq old /\ spared \subseteq old
      BY DEF ErasedAt
    <3> HIDE DEF E, spared
    <3> QED
      BY <2>1, <3>1, <3>2, FS_Subset
  <2>4. ASSUME NEW j \in spared
        PROVE  j \in Int /\ j - 1 \in E
    <3>1. j \in Int /\ j \in old /\ j \notin ErasedAt(old)
      BY <2>1
    <3> QED
      BY <2>1, <3>1, ErasedAfterKept
  <2>5. IsFiniteSet(left) /\ Cardinality(left) <= Cardinality(spared)
    <3> DEFINE f == [k \in left |-> list[k]]
    <3>1. f \in [left -> spared] /\ \A k, m \in left : f[k] = f[m] => k = m
      BY <2>2
    <3> HIDE DEF f, left, spared
    <3>2. f \in Injection(left, spared)
      BY <3>1, OneToOne
    <3> QED
      BY <2>3, <3>2, FS_Injection, Zenon
  <2>6. Cardinality(spared) <= Cardinality(E)
    <3> DEFINE f == [j \in spared |-> j - 1]
    <3> HIDE DEF spared, E
    <3>1. f \in [spared -> E] /\ \A k, m \in spared : f[k] = f[m] => k = m
      BY <2>4
    <3> HIDE DEF f
    <3>2. f \in Injection(spared, E)
      BY <3>1, OneToOne
    <3> QED
      BY <2>3, <3>2, FS_Injection, Zenon
  <2>7. Cardinality(old) = Cardinality(E) + Cardinality(spared)
    <3>1. E \cap spared = {} /\ E \cup spared = old
      BY <2>3
    <3> HIDE DEF E, spared
    <3>2. Cardinality(E \cup spared) = Cardinality(E) + Cardinality(spared)
      BY <2>3, <3>1, CountingApart
    <3> QED
      BY <3>1, <3>2, Zenon
  <2> HIDE DEF E, left, spared
  <2>8. /\ Cardinality(left) \in Nat /\ Cardinality(E) \in Nat
        /\ Cardinality(spared) \in Nat
    BY <2>3, <2>5, FS_CardinalityType
  <2> QED
    BY <2>5, <2>6, <2>7, <2>8
<1> QED
  BY <1>1, EraseAlways, PTL

-----------------------------------------------------------------------------
(* The group operations.                                                   *)

LEMMA ScalarOperations ==
    ASSUME NEW x \in Scalar, NEW y \in Scalar
    PROVE  /\ Add(x, y) \in Scalar /\ Add(x, y) = Add(y, x)
           /\ Mul(x, y) \in Scalar /\ Mul(x, y) = Mul(y, x)
           /\ Mul(x, One) = x /\ Mul(One, x) = x
           /\ Mul(x, Zero) = Zero /\ Mul(Zero, x) = Zero
           /\ Zero \in Scalar /\ One \in Scalar
  BY FieldAssumption

LEMMA BlindingCommutes ==
    ASSUME NEW x \in Scalar, NEW y \in Scalar
    PROVE  EC_POINT_mul(EC_POINT_mul(g, x), y) = EC_POINT_mul(EC_POINT_mul(g, y), x)
<1>1. Mul(One, x) = x /\ Mul(One, y) = y /\ Mul(x, y) = Mul(y, x)
  BY ScalarOperations
<1> QED
  BY <1>1 DEF EC_POINT_mul, g

LEMMA InverseUndoes ==
    ASSUME NEW s \in Scalar
    PROVE  /\ BN_mod_inverse(s) \in Scalar
           /\ s # Zero => Mul(s, BN_mod_inverse(s)) = One
           /\ s = Zero => BN_mod_inverse(s) = Zero
<1>1. CASE s = Zero
  BY <1>1, FieldAssumption DEF BN_mod_inverse
<1>2. CASE s # Zero
  <2>1. \E x \in Scalar : Mul(s, x) = One
    BY <1>2, FieldAssumption
  <2>2. BN_mod_inverse(s) = CHOOSE x \in Scalar : Mul(s, x) = One
    BY <1>2 DEF BN_mod_inverse
  <2> QED
    BY <1>2, <2>1, <2>2
<1> QED
  BY <1>1, <1>2

\* A member that undoes its own secret gets the leader's blinded secret, but
\* when its secret is 0: then it gets 0.
LEMMA ShareOfResponse ==
    ASSUME NEW s \in Scalar, NEW t \in Scalar,
           NEW response,
           response = computeBlindedResponse(computeBlindedSecret(s), t)
    PROVE  EC_POINT_mul(response, BN_mod_inverse(s))
             = IF s = Zero THEN Zero ELSE EC_POINT_mul(g, t)
<1> DEFINE inv == BN_mod_inverse(s)
<1>1. inv \in Scalar /\ (s # Zero => Mul(s, inv) = One) /\ (s = Zero => inv = Zero)
  BY InverseUndoes
<1>2. response = Mul(s, t) /\ EC_POINT_mul(g, t) = t
  BY ScalarOperations
     DEF computeBlindedResponse, computeBlindedSecret, EC_POINT_mul, g
<1>3. Mul(Mul(s, t), inv) = Mul(t, Mul(s, inv))
  <2>1. Mul(Mul(s, t), inv) = Mul(Mul(t, s), inv)
    BY ScalarOperations
  <2> QED
    BY <1>1, <2>1, FieldAssumption
<1>4. CASE s = Zero
  BY <1>1, <1>2, <1>3, <1>4, ScalarOperations DEF EC_POINT_mul
<1>5. CASE s # Zero
  BY <1>1, <1>2, <1>3, <1>5, ScalarOperations DEF EC_POINT_mul
<1> QED
  BY <1>4, <1>5

\* A group of any size: whatever responses the leader sends to the others,
\* and in whatever order they are added, the member whose response is to its
\* present secret, which is not 0, computes the leader's key.
THEOREM MemberKeyIsLeaderKey ==
    ASSUME NEW s \in Scalar \ {Zero}, NEW t \in Scalar, NEW replies
    PROVE  memberComputeKey(
             s, computeBlindedResponse(computeBlindedSecret(s), t), replies)
               = leaderComputeKey(t, replies)
<1> DEFINE response == computeBlindedResponse(computeBlindedSecret(s), t)
<1>1. EC_POINT_mul(response, BN_mod_inverse(s)) = EC_POINT_mul(g, t)
  BY ShareOfResponse
<1> HIDE DEF response
<1>2. memberComputeKey(s, response, replies) = leaderComputeKey(t, replies)
  BY <1>1, Zenon DEF memberComputeKey, leaderComputeKey
<1> QED
  BY <1>2 DEF response

\* The sum of two responses.
LEMMA AddTwo ==
    ASSUME NEW x, NEW replies, Len(replies) = 2
    PROVE  AddAll(x, replies) = Add(Add(x, replies[1]), replies[2])
<1> DEFINE Sum(f, k) == IF k = 0 THEN x ELSE Add(f[k-1], replies[k])
           f0 == [k \in 0..2 |-> IF k = 0 THEN x
                                 ELSE IF k = 1 THEN Add(x, replies[1])
                                 ELSE Add(Add(x, replies[1]), replies[2])]
           F == CHOOSE f : f = [k \in 0..2 |-> Sum(f, k)]
<1>1. f0 = [k \in 0..2 |-> Sum(f0, k)]
  <2>1. \A k \in 0..2 : f0[k] = Sum(f0, k)
    <3>1. f0[0] = Sum(f0, 0)
      OBVIOUS
    <3>2. f0[1] = Sum(f0, 1)
      OBVIOUS
    <3>3. f0[2] = Sum(f0, 2)
      OBVIOUS
    <3>4. \A k \in 0..2 : k = 0 \/ k = 1 \/ k = 2
      OBVIOUS
    <3> HIDE DEF Sum, f0
    <3> QED
      BY <3>1, <3>2, <3>3, <3>4, Zenon
  <2> QED
    BY <2>1, Zenon
<1>2. F = [k \in 0..2 |-> Sum(F, k)]
  <2>1. \E f : f = [k \in 0..2 |-> Sum(f, k)]
    BY <1>1, Zenon
  <2> QED
    BY <2>1, Zenon
<1>3. AddAll(x, replies) = F[2]
  BY Zenon DEF AddAll
<1> HIDE DEF F
<1>4. F[0] = x /\ F[1] = Add(F[0], replies[1]) /\ F[2] = Add(F[1], replies[2])
  BY <1>2
<1> QED
  BY <1>3, <1>4, Zenon

-----------------------------------------------------------------------------
(* The key agreement of crypto-test.                                       *)

Steps == {"secrets", "contributions", "replies", "keys", "signature keys",
          "sign", "verify", "done"}

\* What main has computed when it has come to a paragraph.
AgreementInv ==
    /\ step \in Steps
    /\ memberSecret \in [Two -> Scalar]
    /\ leaderSecret \in Scalar
    /\ step \notin {"secrets", "contributions"} =>
         memberContrib = [m \in Two |-> computeBlindedSecret(memberSecret[m])]
    /\ step \notin {"secrets", "contributions", "replies"} =>
         leaderReply = [m \in Two |->
           computeBlindedResponse(memberContrib[m], leaderSecret)]
    /\ KeysComputed =>
         /\ memberKey = [m \in Two |->
              memberComputeKey(memberSecret[m], leaderReply[m], leaderReply)]
         /\ leaderKey = leaderComputeKey(leaderSecret, leaderReply)

LEMMA AgreementAlways == TestSpec => []AgreementInv
<1>1. TestInit => AgreementInv
  BY FieldAssumption DEF TestInit, AgreementInv, Steps, KeysComputed
<1>2. AgreementInv /\ [TestNext]_testVars => AgreementInv'
  <2> SUFFICES ASSUME AgreementInv, [TestNext]_testVars PROVE AgreementInv'
    OBVIOUS
  <2> USE DEF AgreementInv, Steps, KeysComputed
  <2>1. CASE DrawSecrets
    BY <2>1 DEF DrawSecrets
  <2>2. CASE Contribute
    BY <2>2 DEF Contribute
  <2>3. CASE Respond
    BY <2>3 DEF Respond
  <2>4. CASE ComputeKeys
    BY <2>4 DEF ComputeKeys
  <2>5. CASE GenerateKeys
    BY <2>5 DEF GenerateKeys, agreementVars
  <2>6. CASE Sign
    BY <2>6 DEF Sign, agreementVars
  <2>7. CASE Verify
    BY <2>7 DEF Verify, agreementVars
  <2>8. CASE UNCHANGED testVars
    BY <2>8 DEF testVars, agreementVars
  <2> QED
    BY <2>1, <2>2, <2>3, <2>4, <2>5, <2>6, <2>7, <2>8 DEF TestNext
<1> QED
  BY <1>1, <1>2, PTL DEF TestSpec

\* In the group of crypto-test a member computes the leader's key exactly when
\* its secret is not 0 (gka-crypto.h does not look at what BN_mod_inverse
\* returns), or the leader's is.
THEOREM KeysAgreeHolds == TestSpec => []KeysAgree
<1>1. AgreementInv => KeysAgree
  <2> SUFFICES ASSUME AgreementInv, KeysComputed, NEW m \in Two
               PROVE  memberKey[m] = leaderKey
                        <=> memberSecret[m] # Zero \/ leaderSecret = Zero
    BY DEF KeysAgree
  <2> DEFINE s == memberSecret[m]
             t == leaderSecret
             share == EC_POINT_mul(leaderReply[m], BN_mod_inverse(s))
  <2>1. /\ s \in Scalar /\ t \in Scalar
        /\ leaderReply = [k \in Two |->
             computeBlindedResponse(computeBlindedSecret(memberSecret[k]), t)]
        /\ memberKey[m] = memberComputeKey(s, leaderReply[m], leaderReply)
        /\ leaderKey = leaderComputeKey(t, leaderReply)
    BY DEF AgreementInv, KeysComputed
  <2>2. share = IF s = Zero THEN Zero ELSE t
    <3>1. leaderReply[m] = computeBlindedResponse(computeBlindedSecret(s), t)
      BY <2>1
    <3>2. EC_POINT_mul(g, t) = t
      BY <2>1, ScalarOperations DEF EC_POINT_mul, g
    <3> QED
      BY <2>1, <3>1, <3>2, ShareOfResponse
  <2>3. /\ memberKey[m] = AddAll(share, leaderReply)
        /\ leaderKey = AddAll(t, leaderReply)
    BY <2>1, ScalarOperations DEF memberComputeKey, leaderComputeKey, EC_POINT_mul, g
  <2>4. leaderReply[1] \in Scalar /\ leaderReply[2] \in Scalar /\ Len(leaderReply) = 2
    <3>1. \A k \in Two : memberSecret[k] \in Scalar
      BY DEF AgreementInv
    <3>2. \A k \in Two :
            computeBlindedResponse(computeBlindedSecret(memberSecret[k]), t) \in Scalar
      BY <2>1, <3>1, ScalarOperations
         DEF computeBlindedResponse, computeBlindedSecret, EC_POINT_mul, g
    <3> QED
      BY <2>1, <3>2 DEF Two
  <2> HIDE DEF s, t, share
  <2>5. memberKey[m] = leaderKey <=> share = t
    <3>1. share \in Scalar /\ t \in Scalar
      BY <2>1, <2>2, FieldAssumption
    <3>2. ASSUME NEW x \in Scalar
          PROVE  /\ Add(x, leaderReply[1]) \in Scalar
                 /\ AddAll(x, leaderReply)
                      = Add(Add(x, leaderReply[1]), leaderReply[2])
      BY <2>4, AddTwo, ScalarOperations
    <3>3. \A x, y, z \in Scalar : Add(x, z) = Add(y, z) => x = y
      BY FieldAssumption
    <3> QED
      BY <2>3, <2>4, <3>1, <3>2, <3>3
  <2> QED
    BY <2>2, <2>5 DEF s, t
<1> QED
  BY <1>1, AgreementAlways, PTL

-----------------------------------------------------------------------------
(* The symbolic operations.                                                *)

\* The secrets an element names, and what it says of one that has a value.
Names(elem) == elem.mul \cup elem.div

Factor(elem, value, s) == IF s \in elem.mul THEN value[s] ELSE BN_mod_inverse(value[s])

Valued(elem, value) ==
    /\ IsFiniteSet(Names(elem))
    /\ \A s \in Names(elem) : value[s] \in Scalar

Multiply(elem, value) ==
    [s \in Names(elem) |-> [t \in Scalar |-> Mul(Factor(elem, value, s), t)]]

\* The factors may be multiplied in any order.
LEMMA FactorsCommute ==
    ASSUME NEW elem, NEW value, Valued(elem, value)
    PROVE  /\ \A s \in Names(elem) : Factor(elem, value, s) \in Scalar
           /\ Commute(Multiply(elem, value), Names(elem), Scalar)
<1> DEFINE F(s) == Factor(elem, value, s)
           M == Multiply(elem, value)
<1>1. \A s \in Names(elem) : F(s) \in Scalar
  BY InverseUndoes DEF Valued, Factor
<1> HIDE DEF F
<1>2. \A s \in Names(elem) : \A t \in Scalar : Mul(F(s), t) \in Scalar
  BY <1>1, ScalarOperations
<1>3. M = [s \in Names(elem) |-> [t \in Scalar |-> Mul(F(s), t)]]
  BY DEF Multiply, F
<1>4. ASSUME NEW r \in Names(elem), NEW s \in Names(elem), NEW t \in Scalar
      PROVE  M[r][M[s][t]] = M[s][M[r][t]]
  <2>1. F(r) \in Scalar /\ F(s) \in Scalar
    BY <1>1
  <2> HIDE DEF F, M
  <2>2. Mul(F(r), Mul(F(s), t)) = Mul(F(s), Mul(F(r), t))
    <3>1. /\ Mul(Mul(F(r), F(s)), t) = Mul(F(r), Mul(F(s), t))
          /\ Mul(Mul(F(s), F(r)), t) = Mul(F(s), Mul(F(r), t))
          /\ Mul(F(r), F(s)) = Mul(F(s), F(r))
      BY <2>1, FieldAssumption
    <3> QED
      BY <3>1, Zenon
  <2>3. Mul(F(r), t) \in Scalar /\ Mul(F(s), t) \in Scalar
    BY <1>2
  <2> QED
    BY <1>3, <2>2, <2>3
<1>5. M \in [Names(elem) -> [Scalar -> Scalar]]
  BY <1>2, <1>3
<1>6. \A s \in Names(elem) : Factor(elem, value, s) \in Scalar
  BY <1>1 DEF F
<1>7. Commute(M, Names(elem), Scalar)
  <2> HIDE DEF M
  <2> QED
    BY <1>4, <1>5 DEF Commute
<1> QED
  BY <1>6, <1>7

\* The value of an element is the product of its factors.
LEMMA ValueIsProduct ==
    ASSUME NEW elem, NEW value, Valued(elem, value)
    PROVE  \E f \in [SUBSET Names(elem) -> Scalar] :
              /\ AreFolds(f, One, Multiply(elem, value), Names(elem))
              /\ ValueOf(elem, value) = f[Names(elem)]
<1> DEFINE N == Names(elem)
           factors == [s \in N |-> Factor(elem, value, s)]
           Is(p) == p = [S \in SUBSET N |->
                           IF S = {} THEN One
                           ELSE Mul(factors[CHOOSE s \in S : TRUE],
                                    p[S \ {CHOOSE s \in S : TRUE}])]
           product == CHOOSE p : Is(p)
<1>1. ValueOf(elem, value) = product[N]
  <2>1. factors = [s \in elem.mul \cup elem.div |->
                     IF s \in elem.mul THEN value[s] ELSE BN_mod_inverse(value[s])]
    BY DEF Names, Factor
  <2>2. DOMAIN factors = N
    OBVIOUS
  <2> HIDE DEF factors, N
  <2>3. ValueOf(elem, value)
          = (CHOOSE p : p = [S \in SUBSET DOMAIN factors |->
                               IF S = {} THEN One
                               ELSE Mul(factors[CHOOSE s \in S : TRUE],
                                        p[S \ {CHOOSE s \in S : TRUE}])])[DOMAIN factors]
    BY <2>1, Zenon DEF ValueOf
  <2> QED
    BY <2>2, <2>3, Zenon
<1>2. \A s \in N : factors[s] = Factor(elem, value, s)
  OBVIOUS
<1> HIDE DEF factors
<1>3. IsFiniteSet(N) /\ One \in Scalar
  BY FieldAssumption DEF Valued
<1>4. PICK f \in [SUBSET N -> Scalar] : AreFolds(f, One, Multiply(elem, value), N)
  BY <1>3, FactorsCommute, FoldsExist DEF Commute
<1>5. \A S \in SUBSET N : S # {} =>
        /\ Chosen(S) \in S
        /\ Multiply(elem, value)[Chosen(S)][f[S \ {Chosen(S)}]]
             = Mul(factors[Chosen(S)], f[S \ {Chosen(S)}])
  <2> SUFFICES ASSUME NEW S \in SUBSET N, S # {}
               PROVE  /\ Chosen(S) \in S
                      /\ Multiply(elem, value)[Chosen(S)][f[S \ {Chosen(S)}]]
                           = Mul(factors[Chosen(S)], f[S \ {Chosen(S)}])
    OBVIOUS
  <2>1. Chosen(S) \in S
    BY DEF Chosen
  <2>2. f[S \ {Chosen(S)}] \in Scalar /\ Chosen(S) \in N
    BY <2>1
  <2> QED
    BY <1>2, <2>1, <2>2 DEF Multiply
<1>6. \A S \in SUBSET N :
        f[S] = IF S = {} THEN One ELSE Mul(factors[Chosen(S)], f[S \ {Chosen(S)}])
  BY <1>4, <1>5 DEF AreFolds
<1>7. Is(f)
  BY <1>6 DEF Chosen
<1>8. Is(product)
  <2> HIDE DEF Is
  <2> QED
    BY <1>7
<1> DEFINE P == {S \in SUBSET N : product[S] = f[S]}
<1>9. \A S \in SUBSET N :
        product[S] = IF S = {} THEN One ELSE Mul(factors[Chosen(S)], product[S \ {Chosen(S)}])
  <2> HIDE DEF product
  <2> QED
    BY <1>8 DEF Chosen
<1> HIDE DEF product, Is
<1>10. {} \in P
  BY <1>6, <1>9
<1>11. ASSUME NEW S \in SUBSET N, S # {}, \A x \in S : S \ {x} \in P
       PROVE  S \in P
  BY <1>5, <1>6, <1>9, <1>11
<1>12. SUBSET N \subseteq P
  <2> HIDE DEF P
  <2> QED
    BY <1>3, <1>10, <1>11, InductionOnSubsets
<1>13. product[N] = f[N]
  BY <1>12
<1> QED
  BY <1>1, <1>4, <1>13

\* An element that names no secret is the generator.
LEMMA ValueOfNothing ==
    ASSUME NEW elem, Names(elem) = {}, NEW value
    PROVE  ValueOf(elem, value) = One
<1>1. Valued(elem, value)
  BY FS_EmptySet DEF Valued
<1>2. PICK f \in [SUBSET Names(elem) -> Scalar] :
        /\ AreFolds(f, One, Multiply(elem, value), Names(elem))
        /\ ValueOf(elem, value) = f[Names(elem)]
  BY <1>1, ValueIsProduct
<1> QED
  BY <1>2 DEF AreFolds

\* One more secret multiplies the value.
LEMMA OneMoreFactor ==
    ASSUME NEW elem, NEW more, NEW value, Valued(more, value),
           NEW s, s \notin Names(elem), Names(more) = Names(elem) \cup {s},
           \A r \in Names(elem) : Factor(more, value, r) = Factor(elem, value, r)
    PROVE  /\ ValueOf(elem, value) \in Scalar
           /\ ValueOf(more, value) = Mul(Factor(more, value, s), ValueOf(elem, value))
<1>1. Valued(elem, value)
  BY FS_Subset DEF Valued
<1>2. PICK f \in [SUBSET Names(elem) -> Scalar] :
        /\ AreFolds(f, One, Multiply(elem, value), Names(elem))
        /\ ValueOf(elem, value) = f[Names(elem)]
  BY <1>1, ValueIsProduct
<1>3. PICK h \in [SUBSET Names(more) -> Scalar] :
        /\ AreFolds(h, One, Multiply(more, value), Names(more))
        /\ ValueOf(more, value) = h[Names(more)]
  BY ValueIsProduct
<1>4. \A x \in Names(elem) : Multiply(more, value)[x] = Multiply(elem, value)[x]
  BY DEF Multiply
<1>5. h[Names(elem)] = f[Names(elem)]
  <2>1. IsFiniteSet(Names(more)) /\ Names(elem) \in SUBSET Names(more)
    BY DEF Valued
  <2> QED
    BY <1>2, <1>3, <1>4, <2>1, FoldsAgree
<1>6. h[Names(more)] = Multiply(more, value)[s][h[Names(more) \ {s}]]
  <2>1. IsFiniteSet(Names(more)) /\ One \in Scalar
    BY FieldAssumption DEF Valued
  <2>2. AreFoldsInAnyOrder(h, One, Multiply(more, value), Names(more))
    BY <1>3, <2>1, FactorsCommute, FoldsInAnyOrder
  <2> QED
    BY <2>2 DEF AreFoldsInAnyOrder
<1>7. Names(more) \ {s} = Names(elem)
  OBVIOUS
<1>8. f[Names(elem)] \in Scalar
  BY <1>2
<1> QED
  BY <1>2, <1>3, <1>5, <1>6, <1>7, <1>8 DEF Multiply

\* The value of a contribution.
LEMMA BlindingIsRight ==
    ASSUME NEW s, NEW value, value[s] \in Scalar
    PROVE  ValueOf(Symbolic!computeBlindedSecret(s), value) = computeBlindedSecret(value[s])
<1> DEFINE none == [mul |-> {}, div |-> {}]
           elem == Symbolic!computeBlindedSecret(s)
<1>1. Names(none) = {} /\ elem.mul = {s} /\ Names(elem) = {s}
  BY DEF Names, Symbolic!computeBlindedSecret
<1>2. Valued(elem, value)
  BY <1>1, FS_Singleton DEF Valued
<1>3. ValueOf(none, value) = One
  BY <1>1, ValueOfNothing
<1> HIDE DEF none, elem
<1>4. ValueOf(elem, value) = Mul(Factor(elem, value, s), ValueOf(none, value))
  BY <1>1, <1>2, OneMoreFactor
<1>5. Factor(elem, value, s) = value[s]
  BY <1>1 DEF Factor
<1>6. Mul(value[s], One) = Mul(One, value[s])
  BY ScalarOperations
<1> QED
  BY <1>3, <1>4, <1>5, <1>6 DEF computeBlindedSecret, EC_POINT_mul, g, elem

\* The value of a response, to an element the secret is not in yet.
LEMMA RespondingIsRight ==
    ASSUME NEW elem \in Symbolic!Elem, NEW value, Valued(elem, value),
           NEW s \in Nat, s \notin Names(elem), value[s] \in Scalar
    PROVE  /\ Valued(Symbolic!computeBlindedResponse(elem, s), value)
           /\ ValueOf(Symbolic!computeBlindedResponse(elem, s), value)
                = computeBlindedResponse(ValueOf(elem, value), value[s])
<1> DEFINE more == Symbolic!computeBlindedResponse(elem, s)
<1>1. /\ more.mul = elem.mul \cup {s}
      /\ more.div = elem.div
  BY DEF Symbolic!computeBlindedResponse, Symbolic!Elem
<1> HIDE DEF more
<1>2. Names(more) = Names(elem) \cup {s}
  BY <1>1 DEF Names
<1>3. Valued(more, value)
  BY <1>2, FS_AddElement DEF Valued
<1>4. \A r \in Names(elem) : Factor(more, value, r) = Factor(elem, value, r)
  BY <1>1 DEF Factor
<1>5. /\ ValueOf(elem, value) \in Scalar
      /\ ValueOf(more, value) = Mul(Factor(more, value, s), ValueOf(elem, value))
  BY <1>2, <1>3, <1>4, OneMoreFactor
<1>6. Factor(more, value, s) = value[s]
  BY <1>1 DEF Factor
<1>7. ValueOf(more, value) = Mul(ValueOf(elem, value), value[s])
  BY <1>5, <1>6, ScalarOperations
<1> QED
  BY <1>3, <1>7 DEF computeBlindedResponse, EC_POINT_mul, more

\* The value of what is left when a secret is undone, that of the element's
\* member or another.
LEMMA UnblindingIsRight ==
    ASSUME NEW elem \in Symbolic!Elem, NEW value, Valued(elem, value),
           elem.mul \cap elem.div = {},
           NEW s \in Nat, s \notin elem.div, value[s] \in Scalar \ {Zero}
    PROVE  /\ Valued(Symbolic!Unblind(elem, s), value)
           /\ ValueOf(Symbolic!Unblind(elem, s), value)
                = EC_POINT_mul(ValueOf(elem, value), BN_mod_inverse(value[s]))
<1> DEFINE rest == Symbolic!Unblind(elem, s)
           inv == BN_mod_inverse(value[s])
<1>1. inv \in Scalar /\ Mul(value[s], inv) = One
  BY InverseUndoes
<1>2. CASE s \in elem.mul
  <2>1. rest.mul = elem.mul \ {s} /\ rest.div = elem.div
    BY <1>2 DEF Symbolic!Unblind, Symbolic!Elem
  <2> HIDE DEF rest, inv
  <2>2. Names(elem) = Names(rest) \cup {s} /\ s \notin Names(rest)
    BY <1>2, <2>1 DEF Names
  <2>3. \A r \in Names(rest) : Factor(elem, value, r) = Factor(rest, value, r)
    BY <2>1, <2>2 DEF Factor
  <2>4. /\ ValueOf(rest, value) \in Scalar
        /\ ValueOf(elem, value) = Mul(Factor(elem, value, s), ValueOf(rest, value))
    BY <2>2, <2>3, OneMoreFactor
  <2>5. Factor(elem, value, s) = value[s]
    BY <1>2 DEF Factor
  <2>6. Mul(ValueOf(elem, value), inv) = ValueOf(rest, value)
    <3> DEFINE v == ValueOf(rest, value)
               x == value[s]
    <3>1. v \in Scalar /\ x \in Scalar
      BY <2>4
    <3> HIDE DEF v, x
    <3>2. Mul(Mul(x, v), inv) = Mul(v, Mul(x, inv))
      <4>1. Mul(x, v) = Mul(v, x)
        BY <3>1, ScalarOperations
      <4>2. Mul(Mul(v, x), inv) = Mul(v, Mul(x, inv))
        BY <1>1, <3>1, FieldAssumption
      <4> QED
        BY <4>1, <4>2
    <3>3. Mul(x, inv) = One /\ Mul(v, One) = v
      BY <1>1, <3>1, ScalarOperations DEF x
    <3>4. ValueOf(elem, value) = Mul(x, v)
      BY <2>4, <2>5 DEF x, v
    <3> QED
      BY <3>2, <3>3, <3>4 DEF v
  <2>7. Valued(rest, value)
    BY <2>2, FS_Subset DEF Valued
  <2> QED
    BY <2>6, <2>7 DEF EC_POINT_mul, rest, inv
<1>3. CASE s \notin elem.mul
  <2>1. rest.mul = elem.mul /\ rest.div = elem.div \cup {s}
    BY <1>3 DEF Symbolic!Unblind, Symbolic!Elem
  <2> HIDE DEF rest, inv
  <2>2. Names(rest) = Names(elem) \cup {s} /\ s \notin Names(elem)
    BY <1>3, <2>1 DEF Names
  <2>3. Valued(rest, value)
    BY <2>2, FS_AddElement DEF Valued
  <2>4. \A r \in Names(elem) : Factor(rest, value, r) = Factor(elem, value, r)
    BY <2>1 DEF Factor
  <2>5. /\ ValueOf(elem, value) \in Scalar
        /\ ValueOf(rest, value) = Mul(Factor(rest, value, s), ValueOf(elem, value))
    BY <2>2, <2>3, <2>4, OneMoreFactor
  <2>6. Factor(rest, value, s) = inv
    BY <1>3, <2>1 DEF Factor, inv
  <2>7. Mul(inv, ValueOf(elem, value)) = Mul(ValueOf(elem, value), inv)
    BY <1>1, <2>5, ScalarOperations
  <2> QED
    BY <2>3, <2>5, <2>6, <2>7 DEF EC_POINT_mul, rest, inv
<1> QED
  BY <1>2, <1>3

\* Sums of scalars, added one by one to a first.
IsRunningSum(total, from, terms, n) ==
    total = [k \in 0..n |-> IF k = 0 THEN from ELSE Add(total[k-1], terms[k])]

RunsAlong(h, from, terms, n) ==
    h[0] = from /\ \A k \in 1..n : h[k] = Add(h[k-1], terms[k])

\* What the recursion of such a sum computes.
LEMMA RunningSum ==
    ASSUME NEW n \in Nat, NEW from, NEW terms, NEW h, RunsAlong(h, from, terms, n)
    PROVE  /\ \E total : IsRunningSum(total, from, terms, n)
           /\ \A total : IsRunningSum(total, from, terms, n) => total[n] = h[n]
<1>1. IsRunningSum([k \in 0..n |-> h[k]], from, terms, n)
  <2> DEFINE total == [k \in 0..n |-> h[k]]
  <2>1. ASSUME NEW k \in 0..n
        PROVE  total[k] = IF k = 0 THEN from ELSE Add(total[k-1], terms[k])
    <3>1. k # 0 => k \in 1..n /\ k-1 \in 0..n
      OBVIOUS
    <3> QED
      BY <3>1 DEF RunsAlong
  <2>2. total = [k \in 0..n |-> total[k]]
    OBVIOUS
  <2> HIDE DEF total
  <2>3. total = [k \in 0..n |-> IF k = 0 THEN from ELSE Add(total[k-1], terms[k])]
    BY <2>1, <2>2
  <2> QED
    BY <2>3 DEF IsRunningSum, total
<1>2. ASSUME NEW total, IsRunningSum(total, from, terms, n)
      PROVE  total[n] = h[n]
  <2> DEFINE Q == {k \in Nat : k <= n => total[k] = h[k]}
  <2>1. \A k \in 0..n : total[k] = IF k = 0 THEN from ELSE Add(total[k-1], terms[k])
    BY <1>2 DEF IsRunningSum
  <2>2. 0 \in Q
    BY <2>1 DEF RunsAlong
  <2>3. ASSUME NEW k \in Nat, k \in Q PROVE k + 1 \in Q
    <3> SUFFICES ASSUME k + 1 <= n PROVE total[k+1] = h[k+1]
      OBVIOUS
    <3>1. total[k] = h[k] /\ k+1 \in 1..n /\ (k+1)-1 = k /\ k+1 # 0 /\ k+1 \in 0..n
      BY <2>3
    <3>2. total[k+1] = Add(total[k], terms[k+1])
      BY <2>1, <3>1
    <3>3. h[k+1] = Add(h[k], terms[k+1])
      BY <3>1 DEF RunsAlong
    <3> QED
      BY <3>1, <3>2, <3>3
  <2>4. Nat \subseteq Q
    <3> HIDE DEF Q
    <3> QED
      BY <2>2, <2>3, InductionOnNat
  <2> QED
    BY <2>4
<1> QED
  BY <1>1, <1>2

\* The same sums, of the terms of a set of positions, in any order.
AddTerm(terms, n) == [k \in 1..n |-> [t \in Scalar |-> Add(terms[k], t)]]

AreSumsOver(sums, from, terms, n) ==
    /\ sums \in [SUBSET (1..n) -> Scalar]
    /\ sums[{}] = from
    /\ \A s \in SUBSET (1..n) : \A k \in s : sums[s] = Add(sums[s \ {k}], terms[k])

LEMMA SumsOverExist ==
    ASSUME NEW n \in Nat, NEW from \in Scalar, NEW terms, \A k \in 1..n : terms[k] \in Scalar
    PROVE  \E sums : AreSumsOver(sums, from, terms, n)
<1> DEFINE A == AddTerm(terms, n)
<1>1. \A k \in 1..n : \A t \in Scalar :
        Add(terms[k], t) \in Scalar /\ Add(terms[k], t) = Add(t, terms[k])
  BY ScalarOperations
<1>2. \A k \in 1..n : \A t \in Scalar : A[k][t] = Add(terms[k], t)
  BY DEF AddTerm
<1>3. A \in [1..n -> [Scalar -> Scalar]]
  BY <1>1 DEF AddTerm
<1> HIDE DEF A
<1>4. ASSUME NEW j \in 1..n, NEW k \in 1..n, NEW t \in Scalar
      PROVE  A[j][A[k][t]] = A[k][A[j][t]]
  <2>1. /\ terms[j] \in Scalar /\ terms[k] \in Scalar
        /\ Add(terms[j], t) \in Scalar /\ Add(terms[k], t) \in Scalar
    BY <1>1
  <2> DEFINE x == terms[j]
             y == terms[k]
  <2>2. Add(x, Add(y, t)) = Add(y, Add(x, t))
    <3>1. x \in Scalar /\ y \in Scalar
      BY <2>1
    <3> HIDE DEF x, y
    <3>2. Add(Add(x, y), t) = Add(x, Add(y, t)) /\ Add(Add(y, x), t) = Add(y, Add(x, t))
      BY <3>1, FieldAssumption
    <3>3. Add(x, y) = Add(y, x)
      BY <3>1, ScalarOperations
    <3> QED
      BY <3>2, <3>3, Zenon
  <2> QED
    BY <1>2, <2>1, <2>2
<1>5. Commute(A, 1..n, Scalar)
  BY <1>3, <1>4 DEF Commute
<1>6. IsFiniteSet(1..n)
  BY CountingFromOne
<1>7. PICK sums \in [SUBSET (1..n) -> Scalar] : AreFolds(sums, from, A, 1..n)
  BY <1>3, <1>6, FoldsExist
<1>8. AreFoldsInAnyOrder(sums, from, A, 1..n)
  BY <1>5, <1>6, <1>7, FoldsInAnyOrder
<1>9. ASSUME NEW s \in SUBSET (1..n), NEW k \in s
      PROVE  sums[s] = Add(sums[s \ {k}], terms[k])
  <2>1. sums[s] = A[k][sums[s \ {k}]]
    BY <1>8 DEF AreFoldsInAnyOrder
  <2>2. sums[s \ {k}] \in Scalar /\ k \in 1..n
    BY <1>7
  <2> QED
    BY <1>1, <1>2, <2>1, <2>2
<1> QED
  BY <1>7, <1>8, <1>9 DEF AreSumsOver, AreFoldsInAnyOrder

\* AddAll adds them in the order of the list.
LEMMA AddAllIsSum ==
    ASSUME NEW terms \in Seq(Scalar), NEW from, NEW sums,
           AreSumsOver(sums, from, terms, Len(terms))
    PROVE  AddAll(from, terms) = sums[1..Len(terms)]
<1> DEFINE n == Len(terms)
           h == [k \in 0..n |-> sums[1..k]]
           total == CHOOSE f : IsRunningSum(f, from, terms, n)
<1>1. n \in Nat
  BY LenProperties
<1>2. RunsAlong(h, from, terms, n)
  <2>1. h[0] = from
    <3>1. 1..0 = {} /\ 0 \in 0..n
      BY <1>1
    <3> QED
      BY <3>1 DEF AreSumsOver
  <2>2. ASSUME NEW k \in 1..n PROVE h[k] = Add(h[k-1], terms[k])
    <3>1. /\ 1..k \in SUBSET (1..n) /\ k \in 1..k /\ (1..k) \ {k} = 1..(k-1)
          /\ k \in 0..n /\ k-1 \in 0..n
      BY <1>1
    <3>2. sums[1..k] = Add(sums[(1..k) \ {k}], terms[k])
      BY <3>1 DEF AreSumsOver
    <3> QED
      BY <3>1, <3>2
  <2> QED
    BY <2>1, <2>2 DEF RunsAlong
<1>3. AddAll(from, terms) = total[n]
  BY Zenon DEF AddAll, IsRunningSum
<1>4. IsRunningSum(total, from, terms, n)
  BY <1>1, <1>2, RunningSum
<1>5. total[n] = h[n]
  <2> HIDE DEF total, h
  <2> QED
    BY <1>1, <1>2, <1>4, RunningSum
<1>6. n \in 0..n
  BY <1>1
<1> QED
  BY <1>3, <1>5, <1>6

\* An element added as often as it is in the list, in one go.
Repeated(v, c) == [k \in 1..c |-> v]

\* The positions B, those of C outside A, hold terms that are all v.
EqualOn(B, v, A, C, sums, from, terms, n) ==
    /\ n \in Nat /\ AreSumsOver(sums, from, terms, n)
    /\ A \subseteq 1..n /\ B \subseteq 1..n /\ A \cap B = {} /\ C = A \cup B
    /\ \A k \in B : terms[k] = v

LEMMA EqualTerms ==
    ASSUME NEW n, NEW from, NEW terms, NEW sums, NEW A, NEW B, NEW C, NEW v,
           EqualOn(B, v, A, C, sums, from, terms, n)
    PROVE  \E h : /\ RunsAlong(h, sums[A], Repeated(v, Cardinality(B)), Cardinality(B))
                  /\ h[Cardinality(B)] = sums[C]
<1> DEFINE c == Cardinality(B)
<1>1. IsFiniteSet(B)
  BY CountingFromOne, FS_Subset DEF EqualOn
<1>2. c \in Nat /\ ExistsBijection(1..c, B)
  BY <1>1, FS_CardinalityType
<1> HIDE DEF c
<1>3. PICK at : at \in Bijection(1..c, B)
  BY <1>2 DEF ExistsBijection
<1>4. /\ at \in [1..c -> B]
      /\ \A j, k \in 1..c : at[j] = at[k] => j = k
      /\ \A x \in B : \E k \in 1..c : at[k] = x
  BY <1>2, <1>3, OneToOneOnto
<1> DEFINE First(k) == {at[j] : j \in 1..k}
<1>f. /\ \A k \in 0..c : First(k) \subseteq B
      /\ \A k \in 1..c : First(k) = First(k-1) \cup {at[k]} /\ at[k] \notin First(k-1)
      /\ First(0) = {} /\ First(c) = B
  <2>1. \A k \in 0..c : \A j \in 1..k : j \in 1..c /\ at[j] \in B
    BY <1>2, <1>4
  <2>2. ASSUME NEW k \in 1..c
        PROVE  First(k) = First(k-1) \cup {at[k]} /\ at[k] \notin First(k-1)
    <3>1. 1..k = (1..(k-1)) \cup {k} /\ k \notin 1..(k-1) /\ 1..(k-1) \subseteq 1..c
      BY <1>2
    <3> QED
      BY <1>4, <3>1
  <2>3. First(0) = {}
    OBVIOUS
  <2>4. First(c) = B
    <3>1. First(c) \subseteq B
      BY <1>4
    <3>2. \A x \in B : x \in First(c)
      BY <1>4
    <3> HIDE DEF First
    <3> QED
      BY <3>1, <3>2
  <2> QED
    BY <2>1, <2>2, <2>3, <2>4
<1> HIDE DEF First
<1> DEFINE h == [k \in 0..c |-> sums[A \cup First(k)]]
<1>5. h[0] = sums[A]
  <2>1. First(0) = {} /\ 0 \in 0..c
    BY <1>2, <1>f
  <2>2. A \cup First(0) = A
    BY <2>1
  <2> QED
    BY <2>1, <2>2
<1>6. ASSUME NEW k \in 1..c
      PROVE  h[k] = Add(h[k-1], v)
  <2> DEFINE s == A \cup First(k)
  <2>1. at[k] \in B /\ at[k] \in First(k) /\ at[k] \notin A
    <3>1. at[k] \in B
      BY <1>4
    <3>2. at[k] \notin A
      BY <3>1 DEF EqualOn
    <3> QED
      BY <1>f, <3>1, <3>2
  <2>2. First(k) \ {at[k]} = First(k-1)
    BY <1>f
  <2>3. s \ {at[k]} = A \cup First(k-1)
    BY <2>1, <2>2
  <2>4. s \in SUBSET (1..n)
    <3>1. k \in 0..c
      BY <1>2
    <3> QED
      BY <1>f, <3>1 DEF EqualOn
  <2>5. k \in 0..c /\ k-1 \in 0..c
    BY <1>2
  <2>6. h[k] = sums[s] /\ h[k-1] = sums[s \ {at[k]}]
    BY <2>3, <2>5
  <2> HIDE DEF h
  <2>7. sums[s] = Add(sums[s \ {at[k]}], terms[at[k]])
    BY <2>1, <2>4 DEF AreSumsOver, EqualOn
  <2> QED
    BY <2>1, <2>6, <2>7 DEF EqualOn
<1>7. h[c] = sums[C]
  <2>1. First(c) = B /\ c \in 0..c /\ A \cup B = C
    BY <1>2, <1>f DEF EqualOn
  <2> QED
    BY <2>1
<1> HIDE DEF h
<1>8. RunsAlong(h, sums[A], Repeated(v, c), c)
  BY <1>2, <1>5, <1>6 DEF RunsAlong, Repeated
<1> QED
  BY <1>7, <1>8 DEF c

Times(from, v, c) ==
    (CHOOSE times : times = [j \in 0..c |-> IF j = 0 THEN from ELSE Add(times[j-1], v)])[c]

\* The recursion of ValueOfKey for one element does that.
LEMMA TimesAdd ==
    ASSUME NEW n, NEW from, NEW terms, NEW sums, NEW A, NEW B, NEW C, NEW v,
           EqualOn(B, v, A, C, sums, from, terms, n)
    PROVE  Times(sums[A], v, Cardinality(B)) = sums[C]
<1> DEFINE c == Cardinality(B)
           equal == Repeated(v, c)
           Is(t) == t = [j \in 0..c |-> IF j = 0 THEN sums[A] ELSE Add(t[j-1], v)]
           times == CHOOSE t : Is(t)
<1>1. c \in Nat
  <2>1. IsFiniteSet(B)
    BY CountingFromOne, FS_Subset DEF EqualOn
  <2> QED
    BY <2>1, FS_CardinalityType
<1>2. PICK h : RunsAlong(h, sums[A], equal, c) /\ h[c] = sums[C]
  BY EqualTerms
<1> HIDE DEF c
<1>3. \A t : Is(t) <=> IsRunningSum(t, sums[A], equal, c)
  <2>1. \A j \in 0..c : j # 0 => equal[j] = v
    BY <1>1 DEF Repeated
  <2> HIDE DEF equal
  <2> QED
    BY <2>1 DEF IsRunningSum
<1> HIDE DEF Is, equal
<1>4. IsRunningSum(times, sums[A], equal, c)
  BY <1>1, <1>2, <1>3, RunningSum
<1>5. times[c] = h[c]
  BY <1>1, <1>2, <1>4, RunningSum
<1>6. Times(sums[A], v, c) = times[c]
  BY Zenon DEF Times, Is
<1> QED
  BY <1>2, <1>5, <1>6 DEF c

\* The instance of GKACrypto has a cardinality of its own.
LEMMA SameCardinality ==
    ASSUME NEW S
    PROVE  Symbolic!Cardinality(S) = Cardinality(S)
BY Zenon DEF Symbolic!Cardinality, Cardinality

\* What ValueOfKey adds up.
AddsUp(total, from, count, D, value) ==
    total = [S \in SUBSET D |->
               IF S = {} THEN from
               ELSE Times(total[S \ {Chosen(S)}], ValueOf(Chosen(S), value),
                          count[Chosen(S)])]

AddedUp(from, count, D, value) ==
    (CHOOSE total : AddsUp(total, from, count, D, value))[D]

\* The value of a key, for a group of any size: the sum of its share and of
\* the replies, in whatever order they are added.
LEMMA KeyIsSum ==
    ASSUME NEW replies \in Seq(Symbolic!Elem), NEW share, NEW value,
           ValueOf(share, value) \in Scalar,
           \A k \in 1..Len(replies) : ValueOf(replies[k], value) \in Scalar
    PROVE  ValueOfKey([share |-> share, sum |-> Symbolic!SumOf(replies)], value)
             = AddAll(ValueOf(share, value),
                      [k \in 1..Len(replies) |-> ValueOf(replies[k], value)])
<1> DEFINE n == Len(replies)
           D == {replies[k] : k \in 1..n}
           At(e) == {k \in 1..n : replies[k] = e}
           count == [e \in D |-> Cardinality(At(e))]
           from == ValueOf(share, value)
           terms == [k \in 1..n |-> ValueOf(replies[k], value)]
           Where(S) == {k \in 1..n : replies[k] \in S}
<1>1. n \in Nat /\ DOMAIN replies = 1..n
  BY LenProperties
<1>2. /\ terms \in Seq(Scalar) /\ Len(terms) = n
      /\ \A k \in 1..n : terms[k] \in Scalar /\ terms[k] = ValueOf(replies[k], value)
  <2>1. terms \in [1..n -> Scalar]
    OBVIOUS
  <2> QED
    BY <1>1, <2>1, SeqDef, LenProperties
<1>3. PICK sums : AreSumsOver(sums, from, terms, n)
  <2> HIDE DEF n, from, terms
  <2>1. from \in Scalar
    BY DEF from
  <2> QED
    BY <1>1, <1>2, <2>1, SumsOverExist
<1>4. AddAll(from, terms) = sums[1..n]
  <2> HIDE DEF n, from, terms
  <2> QED
    BY <1>2, <1>3, AddAllIsSum
<1> HIDE DEF terms
<1>5. Symbolic!SumOf(replies) = count
  <2>1. Symbolic!SumOf(replies)
          = [e \in {replies[k] : k \in DOMAIN replies} |->
               Cardinality({k \in DOMAIN replies : replies[k] = e})]
    BY SameCardinality, Zenon DEF Symbolic!SumOf
  <2> HIDE DEF n
  <2> QED
    BY <1>1, <2>1, Zenon
<1> DEFINE Is(total) == AddsUp(total, from, count, D, value)
           sum == CHOOSE total : Is(total)
<1>6. ValueOfKey([share |-> share, sum |-> count], value) = sum[D]
  <2> DEFINE K == [share |-> share, sum |-> count]
  <2>1. K.share = share /\ K.sum = count /\ DOMAIN K.sum = D
    OBVIOUS
  <2> HIDE DEF count, D, K
  <2>2. ValueOfKey(K, value)
          = AddedUp(ValueOf(K.share, value), K.sum, DOMAIN K.sum, value)
    BY Zenon DEF ValueOfKey, AddedUp, AddsUp, Times, Chosen
  <2>3. ValueOfKey(K, value) = AddedUp(from, count, D, value)
    BY <2>1, <2>2
  <2> QED
    BY <2>3, Zenon DEF K, AddedUp
<1>7. ASSUME NEW S \in SUBSET D, S # {}
      PROVE  /\ Chosen(S) \in S
             /\ Times(sums[Where(S \ {Chosen(S)})], ValueOf(Chosen(S), value),
                      count[Chosen(S)])
                  = sums[Where(S)]
  <2> DEFINE e == Chosen(S)
             A == Where(S \ {e})
             B == At(e)
  <2>1. e \in S
    BY <1>7 DEF Chosen
  <2> HIDE DEF e
  <2>2. /\ A \in SUBSET (1..n) /\ B \in SUBSET (1..n)
        /\ A \cap B = {} /\ A \cup B = Where(S)
    BY <2>1
  <2>3. \A k \in B : terms[k] = ValueOf(e, value)
    BY <1>2
  <2>4. count[e] = Cardinality(B)
    BY <2>1
  <2> HIDE DEF A, B, Where, count, At, n, from
  <2>5. Times(sums[A], ValueOf(e, value), Cardinality(B)) = sums[Where(S)]
    <3>1. EqualOn(B, ValueOf(e, value), A, Where(S), sums, from, terms, n)
      BY <1>1, <1>3, <2>2, <2>3 DEF EqualOn
    <3> QED
      BY <3>1, TimesAdd
  <2> QED
    BY <2>1, <2>2, <2>4, <2>5 DEF e, A
<1>8. Where({}) = {} /\ Where(D) = 1..n /\ sums[{}] = from
  <2>1. sums[{}] = from
    BY <1>3 DEF AreSumsOver
  <2>2. Where({}) = {} /\ Where(D) = 1..n
    OBVIOUS
  <2> QED
    BY <2>1, <2>2
<1> HIDE DEF count, Where, n, from
<1> DEFINE all == [S \in SUBSET D |-> sums[Where(S)]]
<1>9. Is(all)
  <2>1. \A S \in SUBSET D :
          all[S] = IF S = {} THEN from
                   ELSE Times(all[S \ {Chosen(S)}], ValueOf(Chosen(S), value),
                              count[Chosen(S)])
    BY <1>7, <1>8
  <2>2. all = [S \in SUBSET D |-> all[S]]
    OBVIOUS
  <2> HIDE DEF all
  <2> QED
    BY <2>1, <2>2 DEF AddsUp
<1>10. Is(sum)
  <2> HIDE DEF Is
  <2> QED
    BY <1>9
<1>11. \A S \in SUBSET D :
         sum[S] = IF S = {} THEN from
                  ELSE Times(sum[S \ {Chosen(S)}], ValueOf(Chosen(S), value),
                             count[Chosen(S)])
  <2> HIDE DEF sum
  <2> QED
    BY <1>10 DEF AddsUp
<1> HIDE DEF sum, all, Is
<1> DEFINE P == {S \in SUBSET D : sum[S] = sums[Where(S)]}
<1>12. {} \in P
  BY <1>8, <1>11
<1>13. ASSUME NEW S \in SUBSET D, S # {}, \A e \in S : S \ {e} \in P
       PROVE  S \in P
  <2>1. Chosen(S) \in S
    BY <1>7, <1>13
  <2>2. sum[S \ {Chosen(S)}] = sums[Where(S \ {Chosen(S)})]
    BY <1>13, <2>1
  <2>3. sum[S] = Times(sums[Where(S \ {Chosen(S)})], ValueOf(Chosen(S), value),
                       count[Chosen(S)])
    BY <1>11, <1>13, <2>2
  <2> QED
    BY <1>7, <1>13, <2>3
<1>14. IsFiniteSet(D)
  <2>1. IsFiniteSet(1..n)
    BY <1>1, CountingFromOne
  <2>2. replies \in Surjection(1..n, D)
    <3>1. replies \in [1..n -> D]
      BY <1>1
    <3>2. \A e \in D : \E k \in 1..n : replies[k] = e
      OBVIOUS
    <3> HIDE DEF D
    <3> QED
      BY <3>1, <3>2, Zenon DEF Surjection
  <2> HIDE DEF D
  <2> QED
    BY <2>1, <2>2, FS_Surjection
<1>15. SUBSET D \subseteq P
  <2> HIDE DEF P, D
  <2> QED
    BY <1>12, <1>13, <1>14, InductionOnSubsets
<1>16. sum[D] = sums[1..n]
  BY <1>8, <1>15
<1> QED
  BY <1>4, <1>5, <1>6, <1>16 DEF terms, from, n

\* Elements that name secrets with a value have a value.
LEMMA ValuesAreScalars ==
    ASSUME NEW elem, NEW value, Valued(elem, value)
    PROVE  ValueOf(elem, value) \in Scalar
<1>1. PICK f \in [SUBSET Names(elem) -> Scalar] :
        ValueOf(elem, value) = f[Names(elem)]
  BY ValueIsProduct
<1> QED
  BY <1>1

AllValued(replies, value) == \A k \in 1..Len(replies) : Valued(replies[k], value)

Values(replies, value) == [k \in 1..Len(replies) |-> ValueOf(replies[k], value)]

\* Whatever elements the leader's message holds, and whatever values but 0 the
\* secrets have: the symbolic key of the leader has the value the leader
\* computes with the values (leaderComputeKey), and so has that of a member,
\* also of one whose secret is not in its reply (memberComputeKey).
THEOREM SymbolicKeysAreRight ==
    ASSUME NEW replies \in Seq(Symbolic!Elem), NEW value, AllValued(replies, value),
           NEW reply \in Symbolic!Elem, Valued(reply, value), reply.mul \cap reply.div = {},
           NEW s \in Nat, s \notin reply.div, value[s] \in Scalar \ {Zero}
    PROVE  /\ ValueOfKey(Symbolic!leaderComputeKey(s, replies), value)
                = leaderComputeKey(value[s], Values(replies, value))
           /\ ValueOfKey(Symbolic!memberComputeKey(s, reply, replies), value)
                = memberComputeKey(value[s], ValueOf(reply, value), Values(replies, value))
<1>1. \A k \in 1..Len(replies) : ValueOf(replies[k], value) \in Scalar
  BY ValuesAreScalars DEF AllValued
<1>2. ASSUME NEW share, ValueOf(share, value) \in Scalar
      PROVE  ValueOfKey([share |-> share, sum |-> Symbolic!SumOf(replies)], value)
               = AddAll(ValueOf(share, value), Values(replies, value))
  BY <1>1, <1>2, KeyIsSum DEF Values
<1>3. ValueOfKey(Symbolic!leaderComputeKey(s, replies), value)
        = leaderComputeKey(value[s], Values(replies, value))
  <2> DEFINE share == Symbolic!computeBlindedSecret(s)
  <2>1. ValueOf(share, value) = computeBlindedSecret(value[s])
    BY BlindingIsRight
  <2>2. computeBlindedSecret(value[s]) = EC_POINT_mul(g, value[s])
    BY DEF computeBlindedSecret
  <2>3. ValueOf(share, value) \in Scalar
    BY <2>1, <2>2, ScalarOperations DEF EC_POINT_mul, g
  <2> HIDE DEF share
  <2>4. ValueOfKey([share |-> share, sum |-> Symbolic!SumOf(replies)], value)
          = AddAll(EC_POINT_mul(g, value[s]), Values(replies, value))
    BY <1>2, <2>1, <2>2, <2>3
  <2> QED
    BY <2>4, Zenon DEF share, Symbolic!leaderComputeKey, leaderComputeKey
<1>4. ValueOfKey(Symbolic!memberComputeKey(s, reply, replies), value)
        = memberComputeKey(value[s], ValueOf(reply, value), Values(replies, value))
  <2> DEFINE share == Symbolic!Unblind(reply, s)
  <2>1. /\ Valued(share, value)
        /\ ValueOf(share, value)
             = EC_POINT_mul(ValueOf(reply, value), BN_mod_inverse(value[s]))
    BY UnblindingIsRight
  <2>2. ValueOf(share, value) \in Scalar
    BY <2>1, ValuesAreScalars
  <2> HIDE DEF share
  <2>3. ValueOfKey([share |-> share, sum |-> Symbolic!SumOf(replies)], value)
          = AddAll(EC_POINT_mul(ValueOf(reply, value), BN_mod_inverse(value[s])), Values(replies, value))
    BY <1>2, <2>1, <2>2
  <2> QED
    BY <2>3, Zenon DEF share, Symbolic!memberComputeKey, memberComputeKey
<1> QED
  BY <1>3, <1>4

\* In crypto-test the symbolic keys have the values of the computed ones, for
\* every prime order of the curve, every choice of secrets but 0, and every
\* wrong secret a member undoes.
THEOREM SymbolsAreRightHolds == TestSpec => []SymbolsAreRight
<1> DEFINE replies == [m \in Two |-> Symbolic!computeBlindedResponse(
                                       Symbolic!computeBlindedSecret(m), 3)]
<1>1. \A m \in Two :
        /\ replies[m] \in Symbolic!Elem
        /\ replies[m].mul = {m, 3} /\ replies[m].div = {}
  <2>1. ASSUME NEW m \in Two
        PROVE  /\ replies[m] \in Symbolic!Elem
               /\ replies[m].mul = {m, 3} /\ replies[m].div = {}
    <3>1. replies[m] = [mul |-> {m} \cup {3}, div |-> {}]
      BY DEF Symbolic!computeBlindedResponse, Symbolic!computeBlindedSecret
    <3>2. m \in Nat /\ {m} \cup {3} = {m, 3} /\ {m, 3} \subseteq Nat
      BY DEF Two
    <3> HIDE DEF replies
    <3> QED
      BY <3>1, <3>2 DEF Symbolic!Elem
  <2> QED
    BY <2>1
<1>2. replies \in Seq(Symbolic!Elem) /\ Len(replies) = 2
  <2>1. replies \in [1..2 -> Symbolic!Elem]
    BY <1>1 DEF Two
  <2> HIDE DEF replies
  <2>2. replies \in Seq(Symbolic!Elem)
    BY <2>1, SeqDef
  <2> QED
    BY <2>1, <2>2, LenProperties
<1>3. ASSUME AgreementInv, KeysComputed, NEW wrong, NEW value,
             \A m \in Two : value[m] = memberSecret[m] /\ value[m] \in Scalar \ {Zero},
             value[3] = leaderSecret, value[3] \in Scalar \ {Zero},
             value[4] = wrong, wrong \in Scalar \ {Zero}
      PROVE  /\ ValueOfKey(Symbolic!leaderComputeKey(3, replies), value) = leaderKey
             /\ \A m \in Two :
                  /\ ValueOfKey(Symbolic!memberComputeKey(m, replies[m], replies), value)
                       = memberKey[m]
                  /\ ValueOfKey(Symbolic!memberComputeKey(4, replies[m], replies), value)
                       = memberComputeKey(wrong, leaderReply[m], leaderReply)
  <2> HIDE DEF replies
  <2>1. \A m \in Two : m \in Nat /\ m # 3
    BY DEF Two
  <2>2. ASSUME NEW m \in Two
        PROVE  /\ Valued(replies[m], value)
               /\ ValueOf(replies[m], value) = leaderReply[m]
    <3> DEFINE contrib == Symbolic!computeBlindedSecret(m)
    <3>1. contrib.mul = {m} /\ contrib.div = {} /\ m \in Nat /\ m # 3
      BY <2>1 DEF Symbolic!computeBlindedSecret
    <3>2. contrib \in Symbolic!Elem
      BY <3>1 DEF Symbolic!computeBlindedSecret, Symbolic!Elem
    <3>3. ValueOf(contrib, value) = computeBlindedSecret(memberSecret[m])
      BY <1>3, BlindingIsRight
    <3>4. replies[m] = Symbolic!computeBlindedResponse(contrib, 3)
      BY DEF replies
    <3> HIDE DEF contrib
    <3>5. Names(contrib) = {m}
      BY <3>1 DEF Names
    <3>6. Valued(contrib, value)
      BY <1>3, <3>5, FS_Singleton DEF Valued
    <3>7. /\ Valued(replies[m], value)
          /\ ValueOf(replies[m], value)
               = computeBlindedResponse(ValueOf(contrib, value), value[3])
      <4>1. 3 \in Nat /\ 3 \notin Names(contrib) /\ value[3] \in Scalar
        BY <1>3, <3>1, <3>5
      <4>2. /\ Valued(Symbolic!computeBlindedResponse(contrib, 3), value)
            /\ ValueOf(Symbolic!computeBlindedResponse(contrib, 3), value)
                 = computeBlindedResponse(ValueOf(contrib, value), value[3])
        BY <3>2, <3>6, <4>1, RespondingIsRight
      <4> QED
        BY <3>4, <4>2
    <3>8. leaderReply[m]
            = computeBlindedResponse(computeBlindedSecret(memberSecret[m]), leaderSecret)
      BY <1>3 DEF AgreementInv, KeysComputed
    <3> QED
      BY <1>3, <3>3, <3>7, <3>8
  <2>3. leaderReply = Values(replies, value)
    <3>1. leaderReply = [m \in Two |-> leaderReply[m]]
      BY <1>3 DEF AgreementInv, KeysComputed
    <3> QED
      BY <1>2, <2>2, <3>1 DEF Two, Values
  <2>4. AllValued(replies, value)
    BY <1>2, <2>2 DEF Two, AllValued
  <2>5. ASSUME NEW m \in Two, NEW s \in Nat, value[s] \in Scalar \ {Zero}
        PROVE  /\ ValueOfKey(Symbolic!leaderComputeKey(s, replies), value)
                    = leaderComputeKey(value[s], leaderReply)
               /\ ValueOfKey(Symbolic!memberComputeKey(s, replies[m], replies), value)
                    = memberComputeKey(value[s], leaderReply[m], leaderReply)
    <3>1. /\ replies[m] \in Symbolic!Elem /\ Valued(replies[m], value)
          /\ replies[m].mul \cap replies[m].div = {} /\ s \notin replies[m].div
          /\ ValueOf(replies[m], value) = leaderReply[m]
      BY <1>1, <2>2
    <3>2. /\ ValueOfKey(Symbolic!leaderComputeKey(s, replies), value)
               = leaderComputeKey(value[s], leaderReply)
          /\ ValueOfKey(Symbolic!memberComputeKey(s, replies[m], replies), value)
               = memberComputeKey(value[s], ValueOf(replies[m], value), leaderReply)
      <4> DEFINE reply == replies[m]
      <4>1. /\ reply \in Symbolic!Elem /\ Valued(reply, value)
            /\ reply.mul \cap reply.div = {} /\ s \notin reply.div
        BY <3>1
      <4> HIDE DEF reply
      <4>2. /\ ValueOfKey(Symbolic!leaderComputeKey(s, replies), value)
                 = leaderComputeKey(value[s], leaderReply)
            /\ ValueOfKey(Symbolic!memberComputeKey(s, reply, replies), value)
                 = memberComputeKey(value[s], ValueOf(reply, value), leaderReply)
        <5>1. replies \in Seq(Symbolic!Elem) /\ value[s] \in Scalar \ {Zero} /\ s \in Nat
          BY <1>2, <2>5
        <5> QED
          BY <2>3, <2>4, <4>1, <5>1, SymbolicKeysAreRight
      <4> QED
        BY <4>2 DEF reply
    <3> QED
      BY <3>1, <3>2
  <2>6. /\ leaderKey = leaderComputeKey(leaderSecret, leaderReply)
        /\ \A m \in Two :
             memberKey[m] = memberComputeKey(memberSecret[m], leaderReply[m], leaderReply)
    BY <1>3 DEF AgreementInv, KeysComputed
  <2>7. 1 \in Two /\ Two \subseteq Nat
    BY DEF Two
  <2>8. ValueOfKey(Symbolic!leaderComputeKey(3, replies), value) = leaderKey
    BY <1>3, <2>5, <2>6, <2>7
  <2>9. ASSUME NEW m \in Two
        PROVE  /\ ValueOfKey(Symbolic!memberComputeKey(m, replies[m], replies), value)
                    = memberKey[m]
               /\ ValueOfKey(Symbolic!memberComputeKey(4, replies[m], replies), value)
                    = memberComputeKey(wrong, leaderReply[m], leaderReply)
    BY <1>3, <2>5, <2>6, <2>7
  <2> QED
    BY <2>8, <2>9
<1>4. AgreementInv => SymbolsAreRight
  <2> HIDE DEF replies
  <2> SUFFICES ASSUME AgreementInv, KeysComputed,
                      Zero \notin {memberSecret[1], memberSecret[2], leaderSecret},
                      NEW wrong \in Scalar \ {Zero},
                      NEW value,
                      value = <<memberSecret[1], memberSecret[2], leaderSecret, wrong>>
               PROVE  /\ ValueOfKey(Symbolic!leaderComputeKey(3, replies), value) = leaderKey
                      /\ \A m \in Two :
                           /\ ValueOfKey(Symbolic!memberComputeKey(m, replies[m], replies),
                                         value)
                                = memberKey[m]
                           /\ ValueOfKey(Symbolic!memberComputeKey(4, replies[m], replies),
                                         value)
                                = memberComputeKey(wrong, leaderReply[m], leaderReply)
    BY Zenon DEF SymbolsAreRight, replies
  <2>1. /\ \A m \in Two : value[m] = memberSecret[m] /\ value[m] \in Scalar \ {Zero}
        /\ value[3] = leaderSecret /\ value[3] \in Scalar \ {Zero}
        /\ value[4] = wrong
    BY DEF AgreementInv, Two
  <2> QED
    BY <1>3, <2>1
<1> QED
  BY <1>4, AgreementAlways, PTL

-----------------------------------------------------------------------------
(* The signatures of crypto-test.                                          *)

\* Keys given out are the manager's only pair.
SignatureInv ==
    /\ step \in Steps
    /\ eckey \in EC_KEY \cup {None}
    /\ privKey \in [Two -> EC_KEY \cup {None}]
    /\ pubKey = privKey
    /\ \A k \in Two : privKey[k] # None => privKey[k] = eckey
    /\ step \in {"sign", "verify", "done"} => \A k \in Two : privKey[k] # None
    /\ step \in {"verify", "done"} => signature.by = eckey
    /\ step = "done" => \A k \in Two : verified[k]

LEMMA SignatureAlways == TestSpec => []SignatureInv
<1>1. TestInit => SignatureInv
  BY DEF TestInit, SignatureInv, Steps
<1>2. SignatureInv /\ [TestNext]_testVars => SignatureInv'
  <2> SUFFICES ASSUME SignatureInv, [TestNext]_testVars PROVE SignatureInv'
    OBVIOUS
  <2> USE DEF SignatureInv, Steps
  <2>1. CASE DrawSecrets \/ Contribute \/ Respond \/ ComputeKeys
    BY <2>1 DEF DrawSecrets, Contribute, Respond, ComputeKeys, signatureVars
  <2>2. CASE GenerateKeys
    <3>1. PICK k \in Two : generateKey(k)
      BY <2>2 DEF GenerateKeys
    <3>2. /\ privKey' = [privKey EXCEPT ![k] = eckey']
          /\ pubKey' = [pubKey EXCEPT ![k] = eckey']
          /\ eckey' \in EC_KEY \cup {None}
          /\ eckey = None \/ eckey' = eckey
      BY <3>1 DEF generateKey
    <3>3. /\ step = "signature keys"
          /\ step' = IF \A j \in Two : privKey'[j] # None THEN "sign" ELSE step
      BY <2>2 DEF GenerateKeys
    <3> QED
      BY <3>2, <3>3
  <2>3. CASE Sign
    <3>1. privKey[1] = eckey
      BY <2>3 DEF Sign, Two
    <3> QED
      BY <2>3, <3>1 DEF Sign, sign, agreementVars
  <2>4. CASE Verify
    BY <2>4 DEF Verify, verify, agreementVars
  <2>5. CASE UNCHANGED testVars
    BY <2>5 DEF testVars, signatureVars
  <2> QED
    BY <2>1, <2>2, <2>3, <2>4, <2>5 DEF TestNext
<1> QED
  BY <1>1, <1>2, PTL DEF TestSpec

\* Every public key ECDSAManager has given out verifies a signature by any of
\* its private keys.
THEOREM EveryKeyVerifiesHolds == TestSpec => []EveryKeyVerifies
<1>1. SignatureInv => EveryKeyVerifies
  BY DEF SignatureInv, EveryKeyVerifies
<1> QED
  BY <1>1, SignatureAlways, PTL

-----------------------------------------------------------------------------
(* The program tagdh.                                                      *)

Tests == {"signature", "multiplication", "inverse", "Diffie-Hellmann", "Hughes",
          "points", "read", "read arbitrary", "done"}

TagdhInv ==
    /\ test \in Tests
    /\ a \in Scalar
    /\ test = "inverse" => g1 = EC_POINT_mul(g, a)
    /\ test = "read arbitrary" => g2 = g1
    /\ AsPrinted

\* For every random number drawn, tagdh prints of each comparison what the
\* text it prints says it should be, but for 0, 1 and equal numbers, and for
\* the last one: an element that cannot be read is never different.
THEOREM AsPrintedHolds == TagdhSpec => []AsPrinted
<1> USE DEF TagdhInv, Tests, EC_POINT_cmp
<1>1. TagdhInit => TagdhInv
  BY FieldAssumption DEF TagdhInit, AsPrinted
<1>2. TagdhInv /\ [TagdhNext]_tagdhVars => TagdhInv'
  <2> SUFFICES ASSUME TagdhInv, [TagdhNext]_tagdhVars PROVE TagdhInv'
    OBVIOUS
  <2>0. \A x \in Scalar : EC_POINT_mul(g, x) = x /\ x = EC_POINT_mul(g, x)
    BY ScalarOperations DEF EC_POINT_mul, g
  <2>1. CASE TrySignature
    BY <2>1 DEF TrySignature, AsPrinted, sign, verify
  <2>2. CASE TryMultiplication
    BY <2>0, <2>2 DEF TryMultiplication, AsPrinted, g
  <2>3. CASE TryInverse
    <3>1. Mul(a, BN_mod_inverse(a)) = IF a = Zero THEN Zero ELSE One
      BY InverseUndoes, ScalarOperations
    <3>2. g1 = a
      BY <2>0, <2>3 DEF TryInverse
    <3>3. g2' = IF a = Zero THEN Zero ELSE One
      BY <2>3, <3>1, <3>2 DEF TryInverse, EC_POINT_mul
    <3>4. Zero # One
      BY FieldAssumption
    <3>5. cmp' = 0 <=> a # Zero
      BY <2>3, <3>3, <3>4 DEF TryInverse, g
    <3> QED
      BY <2>3, <3>5 DEF TryInverse, AsPrinted
  <2>4. CASE TryDiffieHellmann
    <3>1. a' \in Scalar /\ b' \in Scalar
      BY <2>4 DEF TryDiffieHellmann
    <3>2. EC_POINT_mul(EC_POINT_mul(g, a'), b') = EC_POINT_mul(EC_POINT_mul(g, b'), a')
      BY <3>1, BlindingCommutes
    <3>3. g1' = EC_POINT_mul(g, a') /\ g2' = EC_POINT_mul(g1', b')
      BY <2>4 DEF TryDiffieHellmann
    <3>4. cmp' = 0
      BY <2>4, <3>2, <3>3, Zenon DEF TryDiffieHellmann
    <3> QED
      BY <2>4, <3>1, <3>4 DEF TryDiffieHellmann, AsPrinted
  <2>5. CASE TryHughes
    <3>1. r0' \in Scalar /\ r1' \in Scalar
      BY <2>5 DEF TryHughes
    <3>2. member_secret' = IF r1' = Zero THEN Zero ELSE EC_POINT_mul(g, r0')
      <4>1. member_secret' = EC_POINT_mul(
              computeBlindedResponse(computeBlindedSecret(r1'), r0'), BN_mod_inverse(r1'))
        BY <2>5 DEF TryHughes, computeBlindedResponse, computeBlindedSecret
      <4> QED
        BY <3>1, <4>1, ShareOfResponse
    <3>3. cmp' = 0 <=> r1' # Zero \/ r0' = Zero
      BY <2>0, <2>5, <3>1, <3>2 DEF TryHughes
    <3> QED
      BY <2>5, <3>3 DEF TryHughes, AsPrinted
  <2>6. CASE TryPoints
    BY <2>0, <2>6 DEF TryPoints, AsPrinted
  <2>7. CASE TryReading
    BY <2>7 DEF TryReading, AsPrinted
  <2>8. CASE TryArbitrary
    BY <2>8 DEF TryArbitrary, AsPrinted
  <2>9. CASE UNCHANGED tagdhVars
    BY <2>9 DEF tagdhVars, AsPrinted
  <2> QED
    BY <2>1, <2>2, <2>3, <2>4, <2>5, <2>6, <2>7, <2>8, <2>9 DEF TagdhNext
<1> QED
  BY <1>1, <1>2, PTL DEF TagdhSpec

=============================================================================
