---------------------------- MODULE SweepProofs ----------------------------
(***************************************************************************)
(* What the erasing loops leave of a list, for lists of any length, and    *)
(* what else the proofs need of lists, of functions defined by recursion   *)
(* on the naturals, of sets that grow and of sums.                         *)
(***************************************************************************)
EXTENDS Sweep, FiniteSetTheorems, SequenceTheorems, WellFoundedInduction, TLAPS

\* What the erasing loops leave is a subsequence of the list.
LEMMA SweptIsSubsequence ==
    ASSUME NEW S, NEW list \in Seq(S), NEW old, NEW r \in Swept(list, old)
    PROVE  /\ r \in Seq(S)
           /\ \E f \in [DOMAIN r -> DOMAIN list] :
                /\ \A i, j \in DOMAIN r : i < j => f[i] < f[j]
                /\ \A i \in DOMAIN r : r[i] = list[f[i]]
  <1> DEFINE kept == (1..Len(list)) \ ErasedAt(old)
  <1>1. Cardinality(kept) \in Nat
    <2>1. IsFiniteSet(1..Len(list))
      BY FS_Interval, LenProperties
    <2>2. IsFiniteSet(kept)
      BY <2>1, FS_Subset
    <2> QED
      BY <2>2, FS_CardinalityType
  <1>2. PICK f : /\ Increasing(f, kept)
                 /\ r = [k \in 1..Cardinality(kept) |-> list[f[k]]]
    BY DEF Swept
  <1>3. /\ f \in [1..Cardinality(kept) -> kept]
        /\ \A i, j \in 1..Cardinality(kept) : i < j => f[i] < f[j]
    BY <1>2 DEF Increasing
  <1>4. kept \subseteq DOMAIN list /\ DOMAIN list = 1..Len(list)
    BY LenProperties
  <1>5. DOMAIN r = 1..Cardinality(kept)
    BY <1>2
  <1>6. \A i \in DOMAIN r : r[i] = list[f[i]] /\ r[i] \in S
    <2> HIDE DEF kept
    <2> QED
      BY <1>2, <1>3, <1>4, <1>5, ElementOfSeq
  <1>7. r \in Seq(S)
    <2> HIDE DEF kept
    <2>1. r \in [1..Cardinality(kept) -> S]
      BY <1>2, <1>5, <1>6
    <2> QED
      BY <2>1, <1>1, SeqDef
  <1> HIDE DEF kept
  <1>8. f \in [DOMAIN r -> DOMAIN list]
    BY <1>3, <1>4, <1>5
  <1> QED
    BY <1>3, <1>5, <1>6, <1>7, <1>8

\* An increasing function on a finite set of positions is a sequence without
\* repetitions, of all of them.
LEMMA IncreasingEnumerates ==
    ASSUME NEW S, IsFiniteSet(S), S \subseteq Int, NEW f, Increasing(f, S)
    PROVE  /\ f \in Seq(S)
           /\ Len(f) = Cardinality(S)
           /\ \A i, j \in 1..Len(f) : f[i] = f[j] => i = j
           /\ f \in Surjection(1..Cardinality(S), S)
  <1> DEFINE n == Cardinality(S)
  <1>1. n \in Nat
    BY FS_CardinalityType
  <1>2. /\ f \in [1..n -> S]
        /\ \A i, j \in 1..n : i < j => f[i] < f[j]
    BY DEF Increasing
  <1> HIDE DEF n
  <1>3. f \in Seq(S) /\ Len(f) = n
    BY <1>1, <1>2, SeqDef, LenProperties
  <1>4. \A i, j \in 1..n : f[i] = f[j] => i = j
    <2> SUFFICES ASSUME NEW i \in 1..n, NEW j \in 1..n, i # j PROVE f[i] # f[j]
      OBVIOUS
    <2>1. f[i] \in Int /\ f[j] \in Int
      BY <1>2
    <2>2. i < j \/ j < i
      BY <1>1
    <2> QED
      BY <1>2, <2>1, <2>2
  <1>5. f \in Injection(1..n, S)
    BY <1>2, <1>4 DEF Injection, IsInjective
  <1>6. Cardinality(1..n) = n
    BY <1>1, FS_Interval
  <1>7. f \in Surjection(1..n, S)
    BY <1>5, <1>6, FS_Injection DEF n
  <1> QED
    BY <1>3, <1>4, <1>7 DEF n

\* An element at the end of the list that is not old is at the end of what the
\* loop leaves.
LEMMA LastIsKept ==
    ASSUME NEW S, NEW list \in Seq(S), NEW old, NEW r \in Swept(list, old),
           list # <<>>, Len(list) \notin old
    PROVE  r # <<>> /\ r[Len(r)] = list[Len(list)]
  <1> DEFINE kept == (1..Len(list)) \ ErasedAt(old)
             n == Cardinality(kept)
  <1>1. Len(list) \in Nat /\ Len(list) \in kept
    <2>1. Len(list) \in Nat /\ Len(list) # 0
      BY EmptySeq, LenProperties
    <2>2. Len(list) \notin ErasedAt(old)
      BY DEF ErasedAt
    <2> QED
      BY <2>1, <2>2
  <1>2. IsFiniteSet(kept) /\ kept \subseteq 1..Len(list) /\ kept \subseteq Int
    <2>1. IsFiniteSet(1..Len(list))
      BY <1>1, FS_Interval
    <2> QED
      BY <2>1, <1>1, FS_Subset
  <1>3. PICK f : /\ Increasing(f, kept)
                 /\ r = [k \in 1..n |-> list[f[k]]]
    BY DEF Swept
  <1> HIDE DEF kept
  <1>4. /\ f \in Seq(kept) /\ Len(f) = n
        /\ \E i \in 1..Len(f) : f[i] = Len(list)
    <2>1. Increasing(f, kept) /\ Len(list) \in kept
      BY <1>1, <1>3
    <2>a. IsFiniteSet(kept) /\ kept \subseteq Int
      BY <1>2
    <2>2. /\ f \in Seq(kept)
          /\ Len(f) = Cardinality(kept)
          /\ f \in Surjection(1..Cardinality(kept), kept)
      BY <2>a, <2>1, IncreasingEnumerates
    <2>3. \E i \in 1..Cardinality(kept) : f[i] = Len(list)
      BY <2>1, <2>2 DEF Surjection
    <2> QED
      BY <2>2, <2>3
  <1>5. n \in Nat /\ n >= 1
    <2>1. PICK i \in 1..Len(f) : f[i] = Len(list)
      BY <1>4
    <2>2. Len(f) \in Nat
      BY <1>4, LenProperties
    <2> HIDE DEF n
    <2> QED
      BY <1>4, <2>1, <2>2
  <1>6. f \in [1..n -> kept] /\ \A i, j \in 1..n : i < j => f[i] < f[j]
    BY <1>3 DEF Increasing
  <1> HIDE DEF n
  <1>7. f[n] = Len(list)
    <2>1. PICK i \in 1..n : f[i] = Len(list)
      BY <1>4
    <2>2. ~ (i < n)
      <3> SUFFICES ASSUME i < n PROVE FALSE
        OBVIOUS
      <3>1. n \in 1..n /\ f[n] \in kept
        BY <1>5, <1>6
      <3>2. f[i] < f[n]
        BY <1>5, <1>6, <2>1, <3>1
      <3>3. f[n] \in 1..Len(list)
        BY <1>2, <3>1
      <3> QED
        BY <1>1, <2>1, <3>2, <3>3
    <2> QED
      BY <1>5, <2>1, <2>2
  <1>8. r \in Seq(S)
    BY SweptIsSubsequence
  <1>9. DOMAIN r = 1..n
    BY <1>3
  <1>10. Len(r) = n
    BY <1>5, <1>8, <1>9, LenProperties
  <1> QED
    BY <1>3, <1>5, <1>7, <1>9, <1>10, EmptySeq

-----------------------------------------------------------------------------
(* Lists in which an element of M can only be the last.                    *)

OnlyLast(list, M) == \A k \in 1..Len(list) : list[k] \in M => k = Len(list)

LEMMA SweptOnlyLast ==
    ASSUME NEW S, NEW list \in Seq(S), NEW old, NEW r \in Swept(list, old),
           NEW M, OnlyLast(list, M)
    PROVE  OnlyLast(r, M)
  <1>1. r \in Seq(S) /\ DOMAIN r = 1..Len(r) /\ Len(r) \in Nat
    BY SweptIsSubsequence, LenProperties
  <1>2. DOMAIN list = 1..Len(list) /\ Len(list) \in Nat
    BY LenProperties
  <1>3. PICK f \in [DOMAIN r -> DOMAIN list] :
          /\ \A i, j \in DOMAIN r : i < j => f[i] < f[j]
          /\ \A i \in DOMAIN r : r[i] = list[f[i]]
    BY SweptIsSubsequence
  <1> SUFFICES ASSUME NEW k \in 1..Len(r), r[k] \in M, k # Len(r) PROVE FALSE
    BY DEF OnlyLast
  <1>4. f[k] = Len(list)
    BY <1>1, <1>2, <1>3 DEF OnlyLast
  <1>5. k \in DOMAIN r /\ Len(r) \in DOMAIN r /\ k < Len(r)
    <2>1. PICK n \in Nat : n = Len(r)
      BY <1>1
    <2>2. k \in 1..n /\ k # n
      BY <2>1
    <2>3. k < n /\ n \in 1..n
      BY <2>2
    <2> QED
      BY <1>1, <2>1, <2>3
  <1>6. f[k] < f[Len(r)] /\ f[Len(r)] \in 1..Len(list)
    BY <1>2, <1>3, <1>5
  <1> QED
    BY <1>2, <1>4, <1>6

\* What holds of every element of the list holds of what the loop leaves.
LEMMA SweptKeeps ==
    ASSUME NEW S, NEW list \in Seq(S), NEW old, NEW r \in Swept(list, old),
           NEW P, \A k \in 1..Len(list) : list[k] \in P
    PROVE  \A k \in 1..Len(r) : r[k] \in P
  <1>1. DOMAIN r = 1..Len(r) /\ DOMAIN list = 1..Len(list)
    BY SweptIsSubsequence, LenProperties
  <1>2. PICK f \in [DOMAIN r -> DOMAIN list] :
          /\ \A i, j \in DOMAIN r : i < j => f[i] < f[j]
          /\ \A i \in DOMAIN r : r[i] = list[f[i]]
    BY SweptIsSubsequence
  <1> QED
    BY <1>1, <1>2

LEMMA AppendOnlyLast ==
    ASSUME NEW S, NEW list \in Seq(S), NEW e \in S, NEW M,
           \A k \in 1..Len(list) : list[k] \notin M
    PROVE  OnlyLast(Append(list, e), M)
  BY AppendProperties, LenProperties DEF OnlyLast

\* The rest of a list without repetitions has none, and not its first element.
NoRepeats(list) == \A i, j \in 1..Len(list) : list[i] = list[j] => i = j

LEMMA TailOfNoRepeats ==
    ASSUME NEW S, NEW list \in Seq(S), list # <<>>, NoRepeats(list)
    PROVE  /\ NoRepeats(Tail(list))
           /\ \A k \in 1..Len(Tail(list)) : Tail(list)[k] # Head(list)
  <1>0. Len(list) \in Nat /\ Len(list) # 0
    BY EmptySeq, LenProperties
  <1>1. /\ Head(list) = list[1]
        /\ Len(Tail(list)) = Len(list) - 1
        /\ \A k \in 1..Len(Tail(list)) : Tail(list)[k] = list[k+1]
    BY HeadTailProperties
  <1>2. \A k \in 1..Len(Tail(list)) : k + 1 \in 1..Len(list) /\ k + 1 # 1
    BY <1>1, <1>0
  <1>3. 1 \in 1..Len(list)
    BY <1>0
  <1>4. ASSUME NEW k \in 1..Len(Tail(list)) PROVE Tail(list)[k] # Head(list)
    BY <1>1, <1>2, <1>3, Zenon DEF NoRepeats
  <1>5. ASSUME NEW k \in 1..Len(Tail(list)), NEW l \in 1..Len(Tail(list)),
               Tail(list)[k] = Tail(list)[l]
        PROVE  k = l
    <2>1. list[k+1] = list[l+1]
      BY <1>1, <1>5, Zenon
    <2>2. k + 1 = l + 1
      BY <1>2, <2>1, Zenon DEF NoRepeats
    <2>3. k \in Int /\ l \in Int
      OBVIOUS
    <2> QED
      BY <2>2, <2>3
  <1> QED
    BY <1>4, <1>5, Zenon DEF NoRepeats

-----------------------------------------------------------------------------
(* The elements of a list.                                                 *)

ElementsOf(list) == {list[k] : k \in 1..Len(list)}

\* What appending, Head and Tail do to the elements.
LEMMA ElementsOfLists ==
    ASSUME NEW S, NEW list \in Seq(S)
    PROVE  /\ ElementsOf(list) \subseteq S
           /\ \A e \in S : ElementsOf(Append(list, e)) = ElementsOf(list) \cup {e}
           /\ list # <<>> => ElementsOf(list) = {Head(list)} \cup ElementsOf(Tail(list))
<1>1. ElementsOf(list) \subseteq S
  BY ElementOfSeq DEF ElementsOf
<1>2. ASSUME NEW e \in S PROVE ElementsOf(Append(list, e)) = ElementsOf(list) \cup {e}
  <2>1. /\ Len(Append(list, e)) = Len(list) + 1 /\ Len(list) \in Nat
        /\ \A k \in 1..Len(list) : Append(list, e)[k] = list[k]
        /\ Append(list, e)[Len(list) + 1] = e
    BY AppendProperties, LenProperties
  <2>2. 1..Len(list) + 1 = (1..Len(list)) \cup {Len(list) + 1}
    BY <2>1
  <2> QED
    BY <2>1, <2>2 DEF ElementsOf
<1>3. ASSUME list # <<>>
      PROVE  ElementsOf(list) = {Head(list)} \cup ElementsOf(Tail(list))
  <2>1. /\ Head(list) = list[1] /\ Len(list) \in Nat /\ Len(list) # 0
        /\ Len(Tail(list)) = Len(list) - 1
        /\ \A k \in 1..Len(Tail(list)) : Tail(list)[k] = list[k+1]
    BY <1>3, HeadTailProperties, LenProperties, EmptySeq
  <2>2. \A k \in 1..Len(list) : k = 1 \/ (k - 1 \in 1..Len(Tail(list)) /\ k - 1 + 1 = k)
    BY <2>1
  <2>3. \A k \in 1..Len(Tail(list)) : k + 1 \in 1..Len(list)
    BY <2>1
  <2>4. 1 \in 1..Len(list)
    BY <2>1
  <2>5. ASSUME NEW e \in ElementsOf(list) PROVE e \in {Head(list)} \cup ElementsOf(Tail(list))
    <3>1. PICK k \in 1..Len(list) : e = list[k]
      BY <2>5 DEF ElementsOf
    <3>2. CASE k = 1
      BY <2>1, <3>1, <3>2
    <3>3. CASE k # 1
      <4>1. k - 1 \in 1..Len(Tail(list)) /\ k - 1 + 1 = k
        BY <2>2, <3>3
      <4>2. Tail(list)[k - 1] = e
        BY <2>1, <3>1, <4>1
      <4> QED
        BY <4>1, <4>2 DEF ElementsOf
    <3> QED
      BY <3>2, <3>3
  <2>6. ASSUME NEW e \in ElementsOf(Tail(list)) PROVE e \in ElementsOf(list)
    BY <2>1, <2>3, <2>6 DEF ElementsOf
  <2>7. Head(list) \in ElementsOf(list)
    BY <2>1, <2>4 DEF ElementsOf
  <2> QED
    BY <2>5, <2>6, <2>7
<1> QED
  BY <1>1, <1>2, <1>3

LEMMA NoElements == ElementsOf(<<>>) = {}
  BY EmptySeq DEF ElementsOf

\* A list without repetitions, and one more element.
LEMMA AppendNoRepeats ==
    ASSUME NEW S, NEW list \in Seq(S), NEW e \in S, NoRepeats(list), e \notin ElementsOf(list)
    PROVE  NoRepeats(Append(list, e))
<1> DEFINE new == Append(list, e)
<1>1. /\ Len(list) \in Nat /\ Len(new) = Len(list) + 1
      /\ \A k \in 1..Len(list) : new[k] = list[k]
      /\ new[Len(list) + 1] = e
  BY AppendProperties, LenProperties
<1>2. \A k \in 1..Len(new) : k \in 1..Len(list) \/ k = Len(list) + 1
  BY <1>1
<1>3. \A k \in 1..Len(list) : list[k] # e
  BY DEF ElementsOf
<1> HIDE DEF new
<1>4. \A k, l \in 1..Len(new) : new[k] = new[l] => k = l
  <2> SUFFICES ASSUME NEW k \in 1..Len(new), NEW l \in 1..Len(new), new[k] = new[l]
               PROVE  k = l
    OBVIOUS
  <2>1. CASE k \in 1..Len(list) /\ l \in 1..Len(list)
    BY <1>1, <2>1 DEF NoRepeats
  <2>2. CASE k = Len(list) + 1 /\ l \in 1..Len(list)
    BY <1>1, <1>3, <2>2
  <2>3. CASE k \in 1..Len(list) /\ l = Len(list) + 1
    BY <1>1, <1>3, <2>3
  <2> QED
    BY <1>2, <2>1, <2>2, <2>3
<1> QED
  BY <1>4 DEF NoRepeats, new

-----------------------------------------------------------------------------
(* Induction and recursion on the naturals.                                *)

\* A set with 0 in it and with every number the next one has every number.
LEMMA InductionOnNat ==
    ASSUME NEW P, 0 \in P, \A k \in Nat : k \in P => k + 1 \in P
    PROVE  Nat \subseteq P
<1> SUFFICES ASSUME Nat \ P # {} PROVE FALSE
  OBVIOUS
<1>1. PICK m \in Nat \ P : \A k \in Nat \ P : <<k, m>> \notin OpToRel(<, Nat)
  BY NatLessThanWellFounded, WFMin, Zenon
<1>2. m - 1 \in Nat /\ m - 1 < m /\ m - 1 + 1 = m
  <2>1. m \in Nat /\ m # 0
    BY <1>1
  <2> QED
    BY <2>1
<1>3. m - 1 \notin P
  BY <1>2
<1>4. <<m - 1, m>> \in OpToRel(<, Nat)
  BY <1>2 DEF OpToRel
<1> QED
  BY <1>1, <1>2, <1>3, <1>4

\* The values of `step' applied again and again.
Iterates(S, init, step) ==
    CHOOSE f \in [Nat -> S] : f[0] = init /\ \A k \in Nat : f[k+1] = step[f[k]]

\* There is such a sequence of values: one up to every number, each of them the
\* beginning of the next.
LEMMA IteratesExist ==
    ASSUME NEW S, NEW init \in S, NEW step \in [S -> S]
    PROVE  /\ Iterates(S, init, step) \in [Nat -> S]
           /\ Iterates(S, init, step)[0] = init
           /\ \A k \in Nat : Iterates(S, init, step)[k+1] = step[Iterates(S, init, step)[k]]
<1> DEFINE Upto(n) == {g \in [0..n -> S] : /\ g[0] = init
                                           /\ \A k \in 0..n-1 : g[k+1] = step[g[k]]}
           P == {n \in Nat : \E g \in Upto(n) : \A h \in Upto(n) : h = g}
<1>1. 0 \in P
  <2>1. [k \in 0..0 |-> init] \in Upto(0)
    OBVIOUS
  <2>2. ASSUME NEW h \in Upto(0) PROVE h = [k \in 0..0 |-> init]
    OBVIOUS
  <2> HIDE DEF Upto
  <2> QED
    BY <2>1, <2>2
<1>2. ASSUME NEW n \in Nat, n \in P PROVE n + 1 \in P
  <2>1. PICK g \in Upto(n) : \A h \in Upto(n) : h = g
    BY <1>2
  <2> DEFINE longer == [k \in 0..n+1 |-> IF k = n + 1 THEN step[g[n]] ELSE g[k]]
  <2>2. longer \in Upto(n+1)
    <3>1. /\ g \in [0..n -> S] /\ g[0] = init
          /\ \A k \in 0..n-1 : g[k+1] = step[g[k]]
      BY <2>1
    <3>2. longer \in [0..n+1 -> S]
      BY <3>1
    <3>3. longer[0] = init
      BY <3>1
    <3>4. ASSUME NEW k \in 0..n PROVE longer[k+1] = step[longer[k]]
      <4>1. CASE k = n
        BY <4>1
      <4>2. CASE k # n
        BY <3>1, <4>2
      <4> QED
        BY <4>1, <4>2
    <3> QED
      BY <3>2, <3>3, <3>4
  <2>3. ASSUME NEW h \in Upto(n+1) PROVE h = longer
    <3>1. /\ h \in [0..n+1 -> S] /\ h[0] = init
          /\ \A k \in 0..n : h[k+1] = step[h[k]]
      OBVIOUS
    <3>2. [k \in 0..n |-> h[k]] \in Upto(n)
      BY <3>1
    <3>3. [k \in 0..n |-> h[k]] = g
      BY <2>1, <3>2
    <3>4. \A k \in 0..n : h[k] = g[k]
      BY <3>3
    <3>5. h[n+1] = step[g[n]]
      BY <3>1, <3>4
    <3>6. \A k \in 0..n+1 : h[k] = longer[k]
      BY <3>4, <3>5
    <3> QED
      BY <3>1, <3>6
  <2> HIDE DEF Upto, longer
  <2> QED
    BY <2>2, <2>3
<1>3. Nat \subseteq P
  <2> HIDE DEF P
  <2> QED
    BY <1>1, <1>2, InductionOnNat
<1> DEFINE G(n) == CHOOSE g \in Upto(n) : TRUE
           f == [n \in Nat |-> G(n)[n]]
<1>4. ASSUME NEW n \in Nat PROVE G(n) \in Upto(n) /\ \A h \in Upto(n) : h = G(n)
  <2>1. n \in P
    BY <1>3
  <2> HIDE DEF Upto
  <2> QED
    BY <2>1
<1> HIDE DEF G
<1>5. f \in [Nat -> S]
  BY <1>4
<1>6. f[0] = init
  BY <1>4
<1>7. ASSUME NEW n \in Nat PROVE f[n+1] = step[f[n]]
  <2>1. /\ G(n+1) \in [0..n+1 -> S] /\ G(n+1)[0] = init
        /\ \A k \in 0..n : G(n+1)[k+1] = step[G(n+1)[k]]
    BY <1>4
  <2>2. [k \in 0..n |-> G(n+1)[k]] \in Upto(n)
    <3> DEFINE short == [k \in 0..n |-> G(n+1)[k]]
    <3>1. \A k \in 0..n : k \in 0..n+1 /\ short[k] = G(n+1)[k]
      OBVIOUS
    <3>2. short \in [0..n -> S]
      BY <2>1, <3>1
    <3>3. short[0] = init
      BY <2>1, <3>1, 0 \in 0..n
    <3>4. \A k \in 0..n-1 : k \in 0..n /\ k+1 \in 0..n
      OBVIOUS
    <3>5. \A k \in 0..n-1 : short[k+1] = step[short[k]]
      BY <2>1, <3>1, <3>4
    <3> QED
      BY <3>2, <3>3, <3>5
  <2>3. [k \in 0..n |-> G(n+1)[k]] = G(n)
    BY <1>4, <2>2
  <2>4. G(n+1)[n] = G(n)[n]
    BY <2>3
  <2> QED
    BY <2>1, <2>4
<1> QED
  BY <1>5, <1>6, <1>7 DEF Iterates

\* A set that only grows, inside a finite one, and stops growing once it has
\* not grown, has stopped after as many steps as the finite set has elements.
LEMMA GrowthEnds ==
    ASSUME NEW S, IsFiniteSet(S), NEW f \in [Nat -> SUBSET S], f[0] # {},
           \A k \in Nat : f[k] \subseteq f[k+1],
           \A k \in Nat : f[k+1] = f[k] => f[k+1+1] = f[k+1]
    PROVE  f[Cardinality(S) + 1] = f[Cardinality(S)]
<1> DEFINE P == {k \in Nat : f[k+1] = f[k] \/ Cardinality(f[k]) >= k + 1}
<1>1. \A k \in Nat : /\ IsFiniteSet(f[k]) /\ Cardinality(f[k]) \in Nat
                      /\ Cardinality(f[k]) <= Cardinality(S)
  BY FS_Subset, FS_CardinalityType
<1>2. 0 \in P
  <2>1. Cardinality(f[0]) # 0
    BY <1>1, FS_EmptySet
  <2> QED
    BY <1>1, <2>1
<1>3. ASSUME NEW k \in Nat, k \in P PROVE k + 1 \in P
  <2>1. CASE f[k+1] = f[k]
    BY <2>1
  <2>2. CASE f[k+1] # f[k]
    <3>1. Cardinality(f[k]) >= k + 1
      BY <1>3, <2>2
    <3>2. IsFiniteSet(f[k+1]) /\ f[k] \subseteq f[k+1]
      BY <1>1
    <3>3. Cardinality(f[k]) <= Cardinality(f[k+1]) /\ Cardinality(f[k]) # Cardinality(f[k+1])
      BY <2>2, <3>2, FS_Subset
    <3>4. Cardinality(f[k]) \in Nat /\ Cardinality(f[k+1]) \in Nat
      BY <1>1
    <3> QED
      BY <3>1, <3>3, <3>4
  <2> QED
    BY <2>1, <2>2
<1>4. Cardinality(S) \in P
  <2> HIDE DEF P
  <2> QED
    BY <1>2, <1>3, InductionOnNat, FS_CardinalityType
<1>5. Cardinality(S) \in Nat
  BY FS_CardinalityType
<1>6. ~(Cardinality(f[Cardinality(S)]) >= Cardinality(S) + 1)
  BY <1>1, <1>5
<1> QED
  BY <1>4, <1>6

\* A property of sets that one step keeps is kept by all.
LEMMA GrowthStaysWithin ==
    ASSUME NEW S, NEW f \in [Nat -> SUBSET S], NEW C, f[0] \subseteq C,
           \A k \in Nat : f[k] \subseteq C => f[k+1] \subseteq C
    PROVE  \A k \in Nat : f[k] \subseteq C
<1> DEFINE P == {k \in Nat : f[k] \subseteq C}
<1>1. 0 \in P /\ \A k \in Nat : k \in P => k + 1 \in P
  OBVIOUS
<1>2. Nat \subseteq P
  <2> HIDE DEF P
  <2> QED
    BY <1>1, InductionOnNat
<1> QED
  BY <1>2

-----------------------------------------------------------------------------
(* Folds and sums over finite sets.                                        *)

\* A set of subsets that has the empty set, and a set as soon as it has the
\* sets without one of its elements, has every finite subset.
LEMMA InductionOnSubsets ==
    ASSUME NEW S, IsFiniteSet(S), NEW P, {} \in P,
           \A s \in SUBSET S : s # {} /\ (\A x \in s : s \ {x} \in P) => s \in P
    PROVE  SUBSET S \subseteq P
<1> DEFINE Q == {k \in Nat : \A s \in SUBSET S : Cardinality(s) = k => s \in P}
<1>1. \A s \in SUBSET S : IsFiniteSet(s) /\ Cardinality(s) \in Nat
  BY FS_Subset, FS_CardinalityType
<1>2. 0 \in Q
  <2>1. \A s \in SUBSET S : Cardinality(s) = 0 => s = {}
    BY <1>1, FS_EmptySet
  <2> QED
    BY <2>1
<1>3. ASSUME NEW k \in Nat, k \in Q
      PROVE  k + 1 \in Q
  <2> SUFFICES ASSUME NEW s \in SUBSET S, Cardinality(s) = k + 1
               PROVE  s \in P
    OBVIOUS
  <2>1. IsFiniteSet(s) /\ s # {}
    <3>1. Cardinality({}) = 0 /\ k + 1 # 0
      BY FS_EmptySet
    <3> QED
      BY <1>1, <3>1
  <2>2. ASSUME NEW x \in s
        PROVE  s \ {x} \in P
    <3>1. Cardinality(s \ {x}) = Cardinality(s) - 1
      BY <2>1, FS_RemoveElement, Zenon
    <3>2. s \ {x} \in SUBSET S /\ Cardinality(s) - 1 = k
      OBVIOUS
    <3> QED
      BY <1>3, <3>1, <3>2
  <2> QED
    BY <2>1, <2>2
<1>4. Nat \subseteq Q
  <2> HIDE DEF Q
  <2> QED
    BY <1>2, <1>3, InductionOnNat
<1> QED
  BY <1>1, <1>4

Chosen(s) == CHOOSE x \in s : TRUE

\* What steps make of a value, one for each element of a set, one by one.
AreFolds(fold, from, step, S) ==
    fold = [s \in SUBSET S |-> IF s = {} THEN from
                               ELSE step[Chosen(s)][fold[s \ {Chosen(s)}]]]

LEMMA FoldsExist ==
    ASSUME NEW S, IsFiniteSet(S), NEW T, NEW from \in T, NEW step \in [S -> [T -> T]]
    PROVE  \E fold \in [SUBSET S -> T] : AreFolds(fold, from, step, S)
<1> DEFINE D == [SUBSET S -> T]
           first == [s \in SUBSET S |-> from]
           Further(g) == [s \in SUBSET S |->
                            IF s = {} THEN from ELSE step[Chosen(s)][g[s \ {Chosen(s)}]]]
           further == [g \in D |-> Further(g)]
           it == Iterates(D, first, further)
           fold == [s \in SUBSET S |-> it[Cardinality(s)][s]]
<1>1. \A s \in SUBSET S : s # {} => /\ Chosen(s) \in s /\ step[Chosen(s)] \in [T -> T]
                                    /\ s \ {Chosen(s)} \in SUBSET S
  BY DEF Chosen
<1>2. first \in D /\ further \in [D -> D]
  <2>1. ASSUME NEW g \in D PROVE Further(g) \in D
    BY <1>1
  <2> HIDE DEF Further, D
  <2>2. further \in [D -> D]
    BY <2>1
  <2> QED
    BY <2>2 DEF D
<1>3. /\ it \in [Nat -> D] /\ it[0] = first
      /\ \A k \in Nat : it[k+1] = further[it[k]]
  <2> HIDE DEF D, first, further
  <2> QED
    BY <1>2, IteratesExist DEF it
<1>4. \A k \in Nat : it[k] \in D /\ it[k+1] = Further(it[k])
  <2> HIDE DEF it, first, D, Further
  <2> QED
    BY <1>3
<1>5. \A s \in SUBSET S : IsFiniteSet(s) /\ Cardinality(s) \in Nat
  BY FS_Subset, FS_CardinalityType
<1> HIDE DEF it
<1>6. fold \in [SUBSET S -> T]
  BY <1>4, <1>5
<1>7. ASSUME NEW s \in SUBSET S
      PROVE  fold[s] = IF s = {} THEN from ELSE step[Chosen(s)][fold[s \ {Chosen(s)}]]
  <2>1. CASE s = {}
    BY <2>1, <1>3, FS_EmptySet
  <2>2. CASE s # {}
    <3> DEFINE t == s \ {Chosen(s)}
               k == Cardinality(t)
    <3>1. t \in SUBSET S /\ k \in Nat /\ Cardinality(s) = k + 1
      <4>1. Chosen(s) \in s /\ t \in SUBSET S
        BY <1>1, <2>2
      <4> QED
        BY <4>1, <1>5, FS_RemoveElement
    <3>2. fold[s] = it[k+1][s] /\ fold[t] = it[k][t]
      BY <3>1
    <3>3. it[k+1] = Further(it[k])
      BY <3>1, <1>4
    <3>4. it[k+1][s] = step[Chosen(s)][it[k][t]]
      BY <3>3, <2>2
    <3> QED
      BY <3>2, <3>4, <2>2
  <2> QED
    BY <2>1, <2>2
<1>8. AreFolds(fold, from, step, S)
  <2> HIDE DEF fold
  <2> QED
    BY <1>6, <1>7 DEF AreFolds
<1> QED
  BY <1>6, <1>8

\* They are the same whatever set they are taken in.
LEMMA FoldsAgree ==
    ASSUME NEW S, IsFiniteSet(S), NEW T \in SUBSET S, NEW from, NEW f, NEW g,
           \A x \in T : f[x] = g[x],
           NEW a, AreFolds(a, from, f, S), NEW b, AreFolds(b, from, g, T)
    PROVE  \A s \in SUBSET T : a[s] = b[s]
<1> DEFINE P == {s \in SUBSET T : a[s] = b[s]}
<1>1. \A s \in SUBSET T :
        /\ a[s] = IF s = {} THEN from ELSE f[Chosen(s)][a[s \ {Chosen(s)}]]
        /\ b[s] = IF s = {} THEN from ELSE g[Chosen(s)][b[s \ {Chosen(s)}]]
  BY DEF AreFolds
<1>2. {} \in P
  BY <1>1
<1>3. ASSUME NEW s \in SUBSET T, s # {}, \A x \in s : s \ {x} \in P
      PROVE  s \in P
  <2>1. Chosen(s) \in s
    BY <1>3 DEF Chosen
  <2>2. a[s \ {Chosen(s)}] = b[s \ {Chosen(s)}] /\ f[Chosen(s)] = g[Chosen(s)]
    BY <1>3, <2>1
  <2> QED
    BY <1>1, <1>3, <2>2
<1>4. SUBSET T \subseteq P
  <2> HIDE DEF P
  <2>1. IsFiniteSet(T)
    BY FS_Subset
  <2> QED
    BY <1>2, <1>3, <2>1, InductionOnSubsets
<1> QED
  BY <1>4

\* When the steps commute, any of them may be the last.
Commute(step, S, T) ==
    /\ step \in [S -> [T -> T]]
    /\ \A x, y \in S : \A t \in T : step[x][step[y][t]] = step[y][step[x][t]]

AreFoldsInAnyOrder(fold, from, step, S) ==
    /\ fold[{}] = from
    /\ \A s \in SUBSET S : \A x \in s : fold[s] = step[x][fold[s \ {x}]]

LEMMA FoldsInAnyOrder ==
    ASSUME NEW S, IsFiniteSet(S), NEW T, NEW from \in T, NEW step, Commute(step, S, T),
           NEW fold \in [SUBSET S -> T], AreFolds(fold, from, step, S)
    PROVE  AreFoldsInAnyOrder(fold, from, step, S)
<1> DEFINE P == {s \in SUBSET S : \A x \in s : fold[s] = step[x][fold[s \ {x}]]}
<1>1. \A s \in SUBSET S :
        fold[s] = IF s = {} THEN from ELSE step[Chosen(s)][fold[s \ {Chosen(s)}]]
  BY DEF AreFolds
<1>2. {} \in P
  OBVIOUS
<1>3. ASSUME NEW s \in SUBSET S, s # {}, \A x \in s : s \ {x} \in P
      PROVE  s \in P
  <2> SUFFICES ASSUME NEW x \in s PROVE fold[s] = step[x][fold[s \ {x}]]
    OBVIOUS
  <2> DEFINE y == Chosen(s)
  <2>1. y \in s /\ fold[s] = step[y][fold[s \ {y}]]
    BY <1>1, <1>3 DEF Chosen
  <2> HIDE DEF y
  <2>2. CASE x = y
    BY <2>1, <2>2
  <2>3. CASE x # y
    <3> DEFINE r == s \ {x, y}
    <3>1. /\ s \ {y} \in P /\ x \in s \ {y} /\ (s \ {y}) \ {x} = r
          /\ s \ {x} \in P /\ y \in s \ {x} /\ (s \ {x}) \ {y} = r
      BY <1>3, <2>1, <2>3
    <3>2. /\ fold[s \ {y}] = step[x][fold[r]]
          /\ fold[s \ {x}] = step[y][fold[r]]
      BY <3>1
    <3>3. fold[r] \in T /\ x \in S /\ y \in S
      BY <2>1
    <3>4. step[x][step[y][fold[r]]] = step[y][step[x][fold[r]]]
      BY <3>3 DEF Commute
    <3> QED
      BY <2>1, <3>2, <3>4
  <2> QED
    BY <2>2, <2>3
<1>4. SUBSET S \subseteq P
  <2> HIDE DEF P
  <2> QED
    BY <1>2, <1>3, InductionOnSubsets
<1> QED
  BY <1>1, <1>4 DEF AreFoldsInAnyOrder

\* The sums of a function over each set of its arguments.
AreSums(sum, f, S) ==
    sum = [s \in SUBSET S |-> IF s = {} THEN 0 ELSE f[Chosen(s)] + sum[s \ {Chosen(s)}]]

LEMMA SumsExist ==
    ASSUME NEW S, IsFiniteSet(S), NEW f \in [S -> Nat]
    PROVE  \E sum \in [SUBSET S -> Nat] : AreSums(sum, f, S)
<1> DEFINE step == [x \in S |-> [t \in Nat |-> f[x] + t]]
<1>1. step \in [S -> [Nat -> Nat]]
  OBVIOUS
<1>2. PICK sum \in [SUBSET S -> Nat] : AreFolds(sum, 0, step, S)
  <2> HIDE DEF step
  <2> QED
    BY <1>1, FoldsExist
<1>3. \A s \in SUBSET S : s # {} =>
        step[Chosen(s)][sum[s \ {Chosen(s)}]] = f[Chosen(s)] + sum[s \ {Chosen(s)}]
  BY DEF Chosen
<1> HIDE DEF step
<1>4. AreSums(sum, f, S)
  BY <1>2, <1>3 DEF AreFolds, AreSums
<1> QED
  BY <1>4

\* They are the same whatever set they are taken in.
LEMMA SumsAgree ==
    ASSUME NEW S, IsFiniteSet(S), NEW T \in SUBSET S, NEW f, NEW g,
           \A x \in T : f[x] = g[x],
           NEW a, AreSums(a, f, S), NEW b, AreSums(b, g, T)
    PROVE  \A s \in SUBSET T : a[s] = b[s]
<1> DEFINE P == {s \in SUBSET T : a[s] = b[s]}
<1>1. \A s \in SUBSET T :
        /\ a[s] = IF s = {} THEN 0 ELSE f[Chosen(s)] + a[s \ {Chosen(s)}]
        /\ b[s] = IF s = {} THEN 0 ELSE g[Chosen(s)] + b[s \ {Chosen(s)}]
  BY DEF AreSums
<1>2. {} \in P
  BY <1>1
<1>3. ASSUME NEW s \in SUBSET T, s # {}, \A x \in s : s \ {x} \in P
      PROVE  s \in P
  <2>1. Chosen(s) \in s
    BY <1>3 DEF Chosen
  <2>2. a[s \ {Chosen(s)}] = b[s \ {Chosen(s)}] /\ f[Chosen(s)] = g[Chosen(s)]
    BY <1>3, <2>1
  <2> QED
    BY <1>1, <1>3, <2>2
<1>4. SUBSET T \subseteq P
  <2> HIDE DEF P
  <2>1. IsFiniteSet(T)
    BY FS_Subset
  <2> QED
    BY <1>2, <1>3, <2>1, InductionOnSubsets
<1> QED
  BY <1>4

\* SumFunctionOnSet computes them.
LEMMA SumFunctionIs ==
    ASSUME NEW S, IsFiniteSet(S), NEW f \in [S -> Nat],
           NEW sum \in [SUBSET S -> Nat], AreSums(sum, f, S), NEW T \in SUBSET S
    PROVE  SumFunctionOnSet(f, T) = sum[T]
<1> DEFINE Is(it) == it = [s \in SUBSET T |->
                             IF s = {} THEN 0
                             ELSE f[CHOOSE x \in s : TRUE] + it[s \ {CHOOSE x \in s : TRUE}]]
<1>1. SumFunctionOnSet(f, T) = (CHOOSE it : Is(it))[T]
  BY DEF SumFunctionOnSet, FoldFunctionOnSet, MapThenFoldSet
<1>2. \A it : Is(it) <=> AreSums(it, f, T)
  BY DEF AreSums, Chosen
<1>3. \E it : AreSums(it, f, T)
  <2> DEFINE it == [s \in SUBSET T |-> sum[s]]
  <2>1. AreSums(it, f, T)
    <3>1. \A s \in SUBSET T : s # {} => Chosen(s) \in s
      BY DEF Chosen
    <3> QED
      BY <3>1 DEF AreSums
  <2> QED
    BY <2>1
<1> HIDE DEF Is
<1>4. AreSums(CHOOSE it : Is(it), f, T)
  BY <1>2, <1>3
<1> QED
  BY <1>1, <1>4, SumsAgree

\* The sum of no numbers, and of some from all of them but one.
SumsOf(f, S) ==
    /\ SumFunction(f) = SumFunctionOnSet(f, S)
    /\ SumFunctionOnSet(f, {}) = 0
    /\ \A s \in SUBSET S :
         /\ SumFunctionOnSet(f, s) \in Nat
         /\ s # {} => SumFunctionOnSet(f, s)
                        = f[Chosen(s)] + SumFunctionOnSet(f, s \ {Chosen(s)})

LEMMA SumOver ==
    ASSUME NEW S, IsFiniteSet(S), NEW f \in [S -> Nat]
    PROVE  SumsOf(f, S)
<1>1. PICK sum \in [SUBSET S -> Nat] : AreSums(sum, f, S)
  BY SumsExist
<1>2. \A s \in SUBSET S : SumFunctionOnSet(f, s) = sum[s]
  BY <1>1, SumFunctionIs
<1>3. \A s \in SUBSET S :
        sum[s] = IF s = {} THEN 0 ELSE f[Chosen(s)] + sum[s \ {Chosen(s)}]
  BY <1>1 DEF AreSums
<1>4. SumFunction(f) = SumFunctionOnSet(f, S)
  BY DEF SumFunction
<1>5. SumFunctionOnSet(f, {}) = 0
  BY <1>2, <1>3
<1>6. ASSUME NEW s \in SUBSET S
      PROVE  /\ SumFunctionOnSet(f, s) \in Nat
             /\ s # {} => SumFunctionOnSet(f, s)
                            = f[Chosen(s)] + SumFunctionOnSet(f, s \ {Chosen(s)})
  <2>1. SumFunctionOnSet(f, s) = sum[s] /\ sum[s] \in Nat
    BY <1>2
  <2>2. SumFunctionOnSet(f, s \ {Chosen(s)}) = sum[s \ {Chosen(s)}]
    BY <1>2
  <2> QED
    BY <1>3, <2>1, <2>2
<1> QED
  BY <1>4, <1>5, <1>6 DEF SumsOf

LEMMA SumOfZeros ==
    ASSUME NEW S, IsFiniteSet(S), NEW f \in [S -> Nat], \A x \in S : f[x] = 0
    PROVE  SumFunction(f) = 0
<1> DEFINE P == {s \in SUBSET S : SumFunctionOnSet(f, s) = 0}
<1>0. SumsOf(f, S)
  BY SumOver
<1>1. {} \in P
  BY <1>0 DEF SumsOf
<1>2. ASSUME NEW s \in SUBSET S, s # {}, \A x \in s : s \ {x} \in P
      PROVE  s \in P
  <2>1. Chosen(s) \in s
    BY <1>2 DEF Chosen
  <2>2. SumFunctionOnSet(f, s \ {Chosen(s)}) = 0 /\ f[Chosen(s)] = 0
    BY <1>2, <2>1
  <2>3. SumFunctionOnSet(f, s) = f[Chosen(s)] + SumFunctionOnSet(f, s \ {Chosen(s)})
    BY <1>0, <1>2 DEF SumsOf
  <2> QED
    BY <2>2, <2>3
<1>3. S \in P
  <2> HIDE DEF P
  <2> QED
    BY <1>1, <1>2, InductionOnSubsets
<1> QED
  BY <1>0, <1>3 DEF SumsOf

\* Sums are added element by element.
SumsAdd(S) ==
    \A f, g, h \in [S -> Nat] :
        (\A x \in S : h[x] = f[x] + g[x])
            => SumFunction(h) = SumFunction(f) + SumFunction(g)

LEMMA SumAdds ==
    ASSUME NEW S, IsFiniteSet(S)
    PROVE  SumsAdd(S)
<1> SUFFICES ASSUME NEW f \in [S -> Nat], NEW g \in [S -> Nat], NEW h \in [S -> Nat],
                    \A x \in S : h[x] = f[x] + g[x]
             PROVE  SumFunction(h) = SumFunction(f) + SumFunction(g)
  BY DEF SumsAdd
<1> DEFINE Sum(k, s) == SumFunctionOnSet(k, s)
           P == {s \in SUBSET S : Sum(h, s) = Sum(f, s) + Sum(g, s)}
<1>0. SumsOf(f, S) /\ SumsOf(g, S) /\ SumsOf(h, S)
  BY SumOver
<1>1. \A k \in {f, g, h} :
        /\ Sum(k, {}) = 0
        /\ \A s \in SUBSET S :
             /\ Sum(k, s) \in Nat
             /\ s # {} => Sum(k, s) = k[Chosen(s)] + Sum(k, s \ {Chosen(s)})
  BY <1>0 DEF SumsOf
<1> HIDE DEF Sum
<1>2. {} \in P
  BY <1>1
<1>3. ASSUME NEW s \in SUBSET S, s # {}, \A x \in s : s \ {x} \in P
      PROVE  s \in P
  <2> DEFINE t == s \ {Chosen(s)}
  <2>1. Chosen(s) \in s
    BY <1>3 DEF Chosen
  <2>2. Sum(h, t) = Sum(f, t) + Sum(g, t) /\ h[Chosen(s)] = f[Chosen(s)] + g[Chosen(s)]
    BY <1>3, <2>1
  <2>3. /\ Sum(f, t) \in Nat /\ Sum(g, t) \in Nat
        /\ f[Chosen(s)] \in Nat /\ g[Chosen(s)] \in Nat
    BY <1>1, <2>1
  <2>4. /\ Sum(h, s) = h[Chosen(s)] + Sum(h, t)
        /\ Sum(f, s) = f[Chosen(s)] + Sum(f, t)
        /\ Sum(g, s) = g[Chosen(s)] + Sum(g, t)
    BY <1>1, <1>3
  <2> HIDE DEF t
  <2>5. Sum(h, s) = Sum(f, s) + Sum(g, s)
    BY <2>2, <2>3, <2>4
  <2> QED
    BY <2>5
<1>4. S \in P
  <2> HIDE DEF P
  <2> QED
    BY <1>2, <1>3, InductionOnSubsets
<1> QED
  BY <1>0, <1>4 DEF Sum, SumsOf

\* Sums of sums may be taken in any order: those to the right of the rows of a
\* table, and those below its columns.
SumsCommute(S, T) ==
    \A rows \in [S -> [T -> Nat]], columns \in [T -> [S -> Nat]],
      right \in [S -> Nat], below \in [T -> Nat] :
        /\ \A n \in S, j \in T : rows[n][j] = columns[j][n]
        /\ \A n \in S : right[n] = SumFunction(rows[n])
        /\ \A j \in T : below[j] = SumFunction(columns[j])
        => SumFunction(below) = SumFunction(right)

LEMMA SumOfSums ==
    ASSUME NEW S, IsFiniteSet(S), NEW T, IsFiniteSet(T)
    PROVE  SumsCommute(S, T)
<1> SUFFICES ASSUME
        NEW rows \in [S -> [T -> Nat]], NEW columns \in [T -> [S -> Nat]],
        NEW right \in [S -> Nat], NEW below \in [T -> Nat],
        /\ \A n \in S, j \in T : rows[n][j] = columns[j][n]
        /\ \A n \in S : right[n] = SumFunction(rows[n])
        /\ \A j \in T : below[j] = SumFunction(columns[j])
             PROVE  SumFunction(below) = SumFunction(right)
  BY Zenon DEF SumsCommute
<1> DEFINE Upto(s) == [j \in T |-> SumFunctionOnSet(columns[j], s)]
           P == {s \in SUBSET S : SumFunction(Upto(s)) = SumFunctionOnSet(right, s)}
<1>1. \A j \in T : SumsOf(columns[j], S)
  BY SumOver
<1>2. \A s \in SUBSET S : /\ Upto(s) \in [T -> Nat]
                          /\ \A j \in T : Upto(s)[j] = SumFunctionOnSet(columns[j], s)
  BY <1>1 DEF SumsOf
<1> HIDE DEF Upto
<1>3. SumsAdd(T)
  BY SumAdds
<1>4. SumsOf(right, S)
  BY SumOver
<1>5. {} \in P
  <2>1. Upto({}) \in [T -> Nat] /\ \A j \in T : Upto({})[j] = 0
    BY <1>1, <1>2 DEF SumsOf
  <2>2. SumFunction(Upto({})) = 0
    BY <2>1, SumOfZeros
  <2> QED
    BY <1>4, <2>2 DEF SumsOf
<1>6. ASSUME NEW s \in SUBSET S, s # {}, \A x \in s : s \ {x} \in P
      PROVE  s \in P
  <2> DEFINE n == Chosen(s)
             t == s \ {n}
  <2>1. n \in s
    BY <1>6 DEF Chosen
  <2>2. rows[n] \in [T -> Nat] /\ Upto(s) \in [T -> Nat] /\ Upto(t) \in [T -> Nat]
    BY <1>2, <2>1
  <2>3. ASSUME NEW j \in T
        PROVE  Upto(s)[j] = rows[n][j] + Upto(t)[j]
    <3>1. SumFunctionOnSet(columns[j], s) = columns[j][n] + SumFunctionOnSet(columns[j], t)
      BY <1>1, <1>6 DEF SumsOf
    <3> QED
      BY <1>2, <2>1, <3>1
  <2>4. SumFunction(Upto(s)) = SumFunction(rows[n]) + SumFunction(Upto(t))
    <3> HIDE DEF n, t, P
    <3> DEFINE f == rows[n]
               g == Upto(t)
               h == Upto(s)
    <3>1. f \in [T -> Nat] /\ g \in [T -> Nat] /\ h \in [T -> Nat]
      BY <2>2
    <3>2. \A j \in T : h[j] = f[j] + g[j]
      BY <2>3
    <3> HIDE DEF f, g, h
    <3>3. SumFunction(h) = SumFunction(f) + SumFunction(g)
      BY <1>3, <3>1, <3>2 DEF SumsAdd
    <3> QED
      BY <3>3 DEF f, g, h
  <2>5. SumFunction(Upto(t)) = SumFunctionOnSet(right, t)
    BY <1>6, <2>1
  <2>6. SumFunctionOnSet(right, s) = SumFunction(rows[n]) + SumFunctionOnSet(right, t)
    <3>1. SumFunctionOnSet(right, s) = right[n] + SumFunctionOnSet(right, t)
      BY <1>4, <1>6 DEF SumsOf
    <3> QED
      BY <2>1, <3>1
  <2> HIDE DEF n, t
  <2> QED
    BY <2>4, <2>5, <2>6
<1>7. S \in P
  <2> HIDE DEF P
  <2> QED
    BY <1>5, <1>6, InductionOnSubsets
<1>8. Upto(S) = below
  BY <1>1 DEF Upto, SumsOf
<1> QED
  BY <1>4, <1>7, <1>8 DEF SumsOf

\* The numbers from one to n are n in number.
LEMMA CountingFromOne ==
    ASSUME NEW n \in Nat
    PROVE  IsFiniteSet(1..n) /\ Cardinality(1..n) = n
<1>1. /\ IsFiniteSet(1..n)
      /\ Cardinality(1..n) = IF 1 > n THEN 0 ELSE n - 1 + 1
  BY FS_Interval
<1> QED
  BY <1>1

\* Two sets that share no element are counted apart.
LEMMA CountingApart ==
    ASSUME NEW A, IsFiniteSet(A), NEW B, IsFiniteSet(B), A \cap B = {}
    PROVE  Cardinality(A \cup B) = Cardinality(A) + Cardinality(B)
<1>1. Cardinality(A) \in Nat /\ Cardinality(B) \in Nat /\ Cardinality({}) = 0
  <2>1. Cardinality(A) \in Nat
    BY FS_CardinalityType
  <2>2. Cardinality(B) \in Nat
    BY FS_CardinalityType
  <2>3. Cardinality({}) = 0
    BY FS_EmptySet
  <2> QED
    BY <2>1, <2>2, <2>3
<1>2. Cardinality(A \cup B) = Cardinality(A) + Cardinality(B) - Cardinality(A \cap B)
  BY FS_Union, Zenon
<1>3. Cardinality(A \cap B) = 0
  BY <1>1, Zenon
<1> QED
  BY <1>1, <1>2, <1>3

\* The elements of a list, counted value by value, are its length.
LEMMA SumOfCounts ==
    ASSUME NEW T, IsFiniteSet(T), NEW list \in Seq(T), NEW f,
           f = [j \in T |-> Cardinality({k \in DOMAIN list : list[k] = j})]
    PROVE  f \in [T -> Nat] /\ SumFunction(f) = Len(list)
<1> DEFINE At(s) == {k \in DOMAIN list : list[k] \in s}
           P == {s \in SUBSET T : SumFunctionOnSet(f, s) = Cardinality(At(s))}
<1>1. Len(list) \in Nat /\ DOMAIN list = 1..Len(list) /\ \A k \in DOMAIN list : list[k] \in T
  BY LenProperties, ElementOfSeq
<1>2. IsFiniteSet(DOMAIN list) /\ Cardinality(DOMAIN list) = Len(list)
  <2> QED
    BY <1>1, CountingFromOne
<1>3. \A K \in SUBSET DOMAIN list : IsFiniteSet(K) /\ Cardinality(K) \in Nat
  BY <1>2, FS_Subset, FS_CardinalityType
<1>4. \A j \in T : f[j] = Cardinality(At({j})) /\ f[j] \in Nat
  <2> SUFFICES ASSUME NEW j \in T
               PROVE  f[j] = Cardinality(At({j})) /\ f[j] \in Nat
    OBVIOUS
  <2>1. {k \in DOMAIN list : list[k] = j} = At({j})
    OBVIOUS
  <2>2. f[j] = Cardinality({k \in DOMAIN list : list[k] = j})
    OBVIOUS
  <2>3. At({j}) \in SUBSET DOMAIN list
    OBVIOUS
  <2> HIDE DEF At
  <2> QED
    BY <1>3, <2>1, <2>2, <2>3
<1>5. f \in [T -> Nat]
  BY <1>4
<1>6. SumsOf(f, T)
  BY <1>5, SumOver
<1>7. {} \in P
  <2>1. At({}) = {}
    OBVIOUS
  <2> HIDE DEF At
  <2> QED
    BY <1>6, <2>1, FS_EmptySet DEF SumsOf
<1>8. ASSUME NEW s \in SUBSET T, s # {}, \A x \in s : s \ {x} \in P
      PROVE  s \in P
  <2> DEFINE x == Chosen(s)
             t == s \ {x}
  <2>1. x \in s
    BY <1>8 DEF Chosen
  <2>2. /\ At(s) = At({x}) \cup At(t) /\ At({x}) \cap At(t) = {}
        /\ At({x}) \in SUBSET DOMAIN list /\ At(t) \in SUBSET DOMAIN list
    BY <2>1
  <2>3. SumFunctionOnSet(f, t) = Cardinality(At(t))
    BY <1>8, <2>1
  <2>4. SumFunctionOnSet(f, s) = f[x] + SumFunctionOnSet(f, t)
    BY <1>6, <1>8 DEF SumsOf
  <2>5. f[x] = Cardinality(At({x}))
    BY <1>4, <2>1
  <2> HIDE DEF At, x, t
  <2>6. IsFiniteSet(At({x})) /\ IsFiniteSet(At(t))
    BY <1>3, <2>2
  <2>7. Cardinality(At({x}) \cup At(t)) = Cardinality(At({x})) + Cardinality(At(t))
    BY <2>2, <2>6, CountingApart
  <2>8. Cardinality(At(s)) = Cardinality(At({x})) + Cardinality(At(t))
    BY <2>2, <2>7
  <2>9. SumFunctionOnSet(f, s) = Cardinality(At(s))
    BY <2>3, <2>4, <2>5, <2>8
  <2> QED
    BY <2>9
<1>9. T \in P
  <2> HIDE DEF P
  <2> QED
    BY <1>7, <1>8, InductionOnSubsets
<1>10. At(T) = DOMAIN list
  BY <1>1
<1> HIDE DEF At
<1> QED
  BY <1>2, <1>5, <1>6, <1>9, <1>10 DEF SumsOf

-----------------------------------------------------------------------------
(* What a sweep spares.                                                    *)

\* Adjacent old elements have a first one.
LEMMA RunBegins ==
    ASSUME NEW S, NEW j \in Nat \ {0}, j \in S
    PROVE  \E k \in 1..j : k..j \subseteq S /\ k-1 \notin S \ {0}
<1> DEFINE P == {d \in Nat :
                   \A m \in S \cap (Nat \ {0}) :
                     m = d + 1 => \E k \in 1..m : k..m \subseteq S /\ k-1 \notin S \ {0}}
<1>1. 0 \in P
  <2> SUFFICES ASSUME NEW m \in S \cap (Nat \ {0}), m = 1
               PROVE  \E k \in 1..m : k..m \subseteq S /\ k-1 \notin S \ {0}
    OBVIOUS
  <2>1. 1 \in 1..m /\ 1..m \subseteq S /\ 1-1 \notin S \ {0}
    OBVIOUS
  <2> QED
    BY <2>1
<1>2. ASSUME NEW d \in P
      PROVE  d + 1 \in P
  <2> SUFFICES ASSUME NEW m \in S \cap (Nat \ {0}), m = d + 2
               PROVE  \E k \in 1..m : k..m \subseteq S /\ k-1 \notin S \ {0}
    OBVIOUS
  <2>1. CASE m - 1 \in S
    <3>1. m - 1 \in S \cap (Nat \ {0}) /\ m - 1 = d + 1
      BY <2>1
    <3>2. PICK k \in 1..(m-1) : k..(m-1) \subseteq S /\ k-1 \notin S \ {0}
      BY <3>1, <1>2
    <3>3. k \in 1..m /\ k..m \subseteq S
      BY <3>2
    <3> QED
      BY <3>2, <3>3
  <2>2. CASE m - 1 \notin S
    <3>1. m \in 1..m /\ m..m \subseteq S /\ m-1 \notin S \ {0}
      BY <2>2
    <3> QED
      BY <3>1
  <2> QED
    BY <2>1, <2>2
<1>3. j - 1 \in P
  <2> HIDE DEF P
  <2>1. j - 1 \in Nat
    OBVIOUS
  <2> QED
    BY <2>1, <1>1, <1>2, InductionOnNat
<1> QED
  BY <1>3

\* An element is erased when it is too old and the one before it is not erased.
LEMMA ErasedAfterKept ==
    ASSUME NEW n \in Nat, NEW S \in SUBSET (1..n), NEW j \in Int
    PROVE  j \in ErasedAt(S) <=> j \in S /\ j - 1 \notin ErasedAt(S)
<1>1. ASSUME j \in ErasedAt(S), j - 1 \in ErasedAt(S)
      PROVE  FALSE
  <2>1. PICK k \in 1..j : k..j \subseteq S /\ k-1 \notin S /\ (j-k) % 2 = 0
    BY <1>1 DEF ErasedAt
  <2>2. PICK m \in 1..(j-1) : /\ m..(j-1) \subseteq S /\ m-1 \notin S
                              /\ (j-1-m) % 2 = 0
    BY <1>1 DEF ErasedAt
  <2>3. k = m
    <3>1. ~(k < m)
      <4>1. k < m => m-1 \in k..j
        OBVIOUS
      <4> QED
        BY <4>1, <2>1, <2>2
    <3>2. ~(m < k)
      <4>1. m < k => k-1 \in m..(j-1)
        OBVIOUS
      <4> QED
        BY <4>1, <2>1, <2>2
    <3> QED
      BY <3>1, <3>2
  <2> QED
    BY <2>1, <2>2, <2>3
<1>2. ASSUME j \in S, j - 1 \notin ErasedAt(S)
      PROVE  j \in ErasedAt(S)
  <2>1. CASE j - 1 \notin S
    <3>1. j \in 1..j /\ j..j \subseteq S /\ (j-j) % 2 = 0
      BY <1>2
    <3> QED
      BY <1>2, <2>1, <3>1 DEF ErasedAt
  <2>2. CASE j - 1 \in S
    <3>1. j - 1 \in Nat \ {0} /\ 0 \notin S
      BY <2>2
    <3>2. PICK k \in 1..(j-1) : k..(j-1) \subseteq S /\ k-1 \notin S
      BY <2>2, <3>1, RunBegins
    <3>3. (j-1-k) % 2 # 0
      BY <1>2, <2>2, <3>2 DEF ErasedAt
    <3>4. (j-k) % 2 = 0
      BY <3>3
    <3>5. k \in 1..j /\ k..j \subseteq S
      BY <1>2, <3>2
    <3> QED
      BY <1>2, <3>2, <3>4, <3>5 DEF ErasedAt
  <2> QED
    BY <2>1, <2>2
<1>3. j \in ErasedAt(S) => j \in S
  BY DEF ErasedAt
<1> QED
  BY <1>1, <1>2, <1>3

\* One-to-one functions, spelled out.
LEMMA OneToOne ==
    ASSUME NEW S, NEW T, NEW f
    PROVE  f \in Injection(S, T)
             <=> f \in [S -> T] /\ \A x, y \in S : f[x] = f[y] => x = y
<1>1. ASSUME f \in [S -> T]
      PROVE  IsInjective(f) <=> \A x, y \in S : f[x] = f[y] => x = y
  <2>1. DOMAIN f = S
    BY <1>1
  <2> QED
    BY <2>1, Zenon DEF IsInjective
<1> QED
  BY <1>1, Zenon DEF Injection

LEMMA OneToOneOnto ==
    ASSUME NEW S, NEW T, NEW f
    PROVE  f \in Bijection(S, T)
             <=> /\ f \in [S -> T]
                 /\ \A x, y \in S : f[x] = f[y] => x = y
                 /\ \A t \in T : \E x \in S : f[x] = t
  BY OneToOne, Zenon DEF Bijection, Surjection

LEMMA CountedOneToOne ==
    ASSUME NEW S, NEW n \in Nat, NEW f \in Bijection(1..n, S)
    PROVE  Cardinality(S) = n
<1>1. IsFiniteSet(1..n) /\ Cardinality(1..n) = n
  BY CountingFromOne
<1>2. ExistsBijection(1..n, S)
  BY Zenon DEF ExistsBijection
<1> QED
  BY <1>1, <1>2, FS_Bijection, Zenon

\* An element that a sweep spares moves up, or stays where it is when it is not
\* old; an old one moves up, since the element before it was erased.
LEMMA SweptMovesUp ==
    ASSUME NEW S, NEW list \in Seq(S), NEW old \in SUBSET (DOMAIN list),
           NEW r \in Swept(list, old), NEW k \in DOMAIN r
    PROVE  \E j \in DOMAIN list : r[k] = list[j] /\ k <= j /\ (j \in old => k < j)
<1> DEFINE n == Len(list)
           kept == (1..n) \ ErasedAt(old)
           m == Cardinality(kept)
<1>1. n \in Nat /\ DOMAIN list = 1..n
  BY LenProperties
<1>2. m \in Nat
  <2>1. IsFiniteSet(1..n)
    BY <1>1, CountingFromOne
  <2>2. IsFiniteSet(kept)
    BY <2>1, FS_Subset
  <2> QED
    BY <2>2, FS_CardinalityType
<1>3. PICK f : Increasing(f, kept) /\ r = [q \in 1..m |-> list[f[q]]]
  BY DEF Swept
<1>4. /\ f \in [1..m -> kept] /\ k \in 1..m /\ r[k] = list[f[k]]
      /\ \A p, q \in 1..m : p < q => f[p] < f[q]
  BY <1>3 DEF Increasing
<1>5. kept \subseteq 1..n
  OBVIOUS
<1> HIDE DEF kept, m
<1>6. \A q \in 1..m : f[q] \in Nat /\ f[q] \in 1..n /\ f[q] \in kept
  BY <1>1, <1>4, <1>5
<1>7. \A q \in 1..m : q <= f[q]
  <2> DEFINE P == {d \in Nat : d + 1 \in 1..m => d + 1 <= f[d+1]}
  <2>1. 0 \in P
    BY <1>6
  <2>2. ASSUME NEW d \in Nat, d \in P
        PROVE  d + 1 \in P
    <3> SUFFICES ASSUME d + 2 \in 1..m PROVE d + 2 <= f[d+2]
      BY SMT
    <3>1. d + 1 \in 1..m
      BY <1>2
    <3>2. d + 1 <= f[d+1]
      BY <2>2, <3>1
    <3>3. f[d+1] < f[d+2]
      BY <1>4, <3>1
    <3> QED
      BY <1>6, <3>1, <3>2, <3>3
  <2> HIDE DEF P
  <2>3. Nat \subseteq P
    BY <2>1, <2>2, InductionOnNat
  <2>4. ASSUME NEW q \in 1..m
        PROVE  q <= f[q]
    <3>1. q - 1 \in P /\ q - 1 + 1 = q
      BY <2>3
    <3> QED
      BY <3>1 DEF P
  <2> QED
    BY <2>4
<1>8. f[k] \in old => k # f[k]
  <2> SUFFICES ASSUME f[k] \in old, k = f[k] PROVE FALSE
    OBVIOUS
  <2>1. /\ n \in Nat /\ old \in SUBSET (1..n) /\ k \in Int
        /\ k \in old /\ k \notin ErasedAt(old)
    BY <1>1, <1>4, <1>6 DEF kept
  <2>2. k - 1 \in ErasedAt(old)
    BY <2>1, ErasedAfterKept
  <2>3. k - 1 \in 1..m
    <3>1. k - 1 \in old
      BY <2>2 DEF ErasedAt
    <3> QED
      BY <1>1, <1>2, <1>4, <3>1
  <2>4. f[k-1] = k - 1
    <3>1. k - 1 <= f[k-1] /\ f[k-1] < k
      BY <1>4, <1>7, <2>3
    <3> QED
      BY <1>6, <2>1, <2>3, <3>1
  <2>5. k - 1 \in kept
    BY <1>6, <2>3, <2>4
  <2> QED
    BY <2>2, <2>5 DEF kept
<1> QED
  BY <1>1, <1>4, <1>6, <1>7, <1>8

\* Where nothing is old the loop leaves the list as it was.
LEMMA SweptNothing ==
    ASSUME NEW S, NEW list \in Seq(S), NEW r \in Swept(list, {})
    PROVE  r = list
<1> DEFINE n == Len(list)
           kept == (1..n) \ ErasedAt({})
<1>1. n \in Nat /\ DOMAIN list = 1..n /\ list \in [1..n -> S]
  BY LenProperties
<1>2. kept = 1..n
  BY DEF ErasedAt
<1>3. Cardinality(kept) = n
  BY <1>1, <1>2, CountingFromOne
<1>4. PICK f : Increasing(f, kept) /\ r = [q \in 1..Cardinality(kept) |-> list[f[q]]]
  BY DEF Swept
<1> HIDE DEF kept
<1>5. /\ f \in [1..n -> 1..n]
      /\ \A p, q \in 1..n : p < q => f[p] < f[q]
  BY <1>2, <1>3, <1>4 DEF Increasing
<1>6. \A q \in 1..n : f[q] \in 1..n
  BY <1>5
<1> HIDE DEF n
<1>7. \A q \in 1..n : q <= f[q]
  <2> DEFINE P == {d \in Nat : d + 1 \in 1..n => d + 1 <= f[d+1]}
  <2>1. 0 \in P
    BY <1>1, <1>6
  <2>2. ASSUME NEW d \in Nat, d \in P PROVE d + 1 \in P
    <3> SUFFICES ASSUME d + 2 \in 1..n PROVE d + 2 <= f[d+2]
      BY SMT
    <3>1. d + 1 \in 1..n /\ d + 1 < d + 2
      BY <1>1
    <3>2. d + 1 <= f[d+1] /\ f[d+1] < f[d+2]
      BY <1>5, <2>2, <3>1
    <3> QED
      BY <1>1, <1>6, <3>1, <3>2
  <2> HIDE DEF P
  <2>3. Nat \subseteq P
    BY <2>1, <2>2, InductionOnNat
  <2>4. ASSUME NEW q \in 1..n PROVE q <= f[q]
    <3>1. q - 1 \in P /\ q - 1 + 1 = q
      BY <1>1, <2>3
    <3> QED
      BY <3>1 DEF P
  <2> QED
    BY <2>4
<1>8. \A q \in 1..n : f[q] <= q
  <2> DEFINE P == {d \in Nat : n - d \in 1..n => f[n-d] <= n - d}
  <2>1. 0 \in P
    BY <1>1, <1>6
  <2>2. ASSUME NEW d \in Nat, d \in P PROVE d + 1 \in P
    <3> SUFFICES ASSUME n - (d + 1) \in 1..n PROVE f[n-(d+1)] <= n - (d + 1)
      OBVIOUS
    <3>1. n - d \in 1..n /\ n - (d + 1) < n - d
      BY <1>1
    <3>2. f[n-d] <= n - d /\ f[n-(d+1)] < f[n-d]
      BY <1>5, <2>2, <3>1
    <3> QED
      BY <1>1, <1>6, <3>1, <3>2
  <2> HIDE DEF P
  <2>3. Nat \subseteq P
    BY <2>1, <2>2, InductionOnNat
  <2>4. ASSUME NEW q \in 1..n PROVE f[q] <= q
    <3>1. n - q \in P /\ n - (n - q) = q
      BY <1>1, <2>3
    <3> QED
      BY <3>1 DEF P
  <2> QED
    BY <2>4
<1>9. \A q \in 1..n : f[q] = q
  BY <1>1, <1>6, <1>7, <1>8
<1> QED
  BY <1>1, <1>3, <1>4, <1>9

=============================================================================
