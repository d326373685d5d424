------------------------- MODULE FloodIGROUPProofs -------------------------
(***************************************************************************)
(* The flood of an IGROUP message on any network: its types, that nobody   *)
(* relays a message twice, and that every step of it is one of the         *)
(* broadcast GKAInstance relies on.                                        *)
(***************************************************************************)
EXTENDS FloodIGROUP, SweepProofs

RecordSet == [from : Node, number : Nat, time : Nat]

-----------------------------------------------------------------------------
(* The operators of Radio.                                                 *)

\* Every receiver is met once.
LEMMA ReceiversAreNodes ==
    ASSUME NEW s, NEW nodes \in SUBSET Node, NEW f \in Receivers(loc, s, nodes)
    PROVE  /\ f \in Seq(Node)
           /\ \A k \in 1..Len(f) : f[k] \in nodes \ {s}
           /\ NoRepeats(f)
<1> DEFINE reached == {m \in nodes : InRange(loc, s, m)}
<1>1. IsFiniteSet(reached) /\ reached \subseteq Int
  <2>1. reached \in SUBSET Node /\ Node \subseteq Nat
    BY NodeAssumption
  <2> HIDE DEF reached
  <2>2. IsFiniteSet(reached)
    BY <2>1, NodeAssumption, FS_Subset
  <2> QED
    BY <2>1, <2>2
<1>2. Increasing(f, reached)
  BY DEF Receivers
<1>3. reached \subseteq nodes \ {s}
  BY DEF InRange
<1> HIDE DEF reached
<1>4. /\ f \in Seq(reached)
      /\ \A i1, i2 \in 1..Len(f) : f[i1] = f[i2] => i1 = i2
  BY <1>1, <1>2, IncreasingEnumerates
<1>5. \A k \in 1..Len(f) : f[k] \in reached
  BY <1>4, ElementOfSeq
<1>6. f \in Seq(Node)
  BY <1>3, <1>4, SeqMonotonic
<1> QED
  BY <1>3, <1>4, <1>5, <1>6 DEF NoRepeats

\* Nobody in range is left out.
LEMMA ReceiversAreAll ==
    ASSUME NEW s, NEW nodes \in SUBSET Node, NEW f \in Receivers(loc, s, nodes)
    PROVE  ElementsOf(f) = {m \in nodes : InRange(loc, s, m)}
<1> DEFINE reached == {m \in nodes : InRange(loc, s, m)}
<1>1. IsFiniteSet(reached) /\ reached \subseteq Int
  <2>1. reached \in SUBSET Node /\ Node \subseteq Nat
    BY NodeAssumption
  <2> HIDE DEF reached
  <2>2. IsFiniteSet(reached)
    BY <2>1, NodeAssumption, FS_Subset
  <2> QED
    BY <2>1, <2>2
<1>2. Increasing(f, reached)
  BY DEF Receivers
<1> HIDE DEF reached
<1>3. /\ f \in Seq(reached) /\ Len(f) = Cardinality(reached)
      /\ f \in Surjection(1..Cardinality(reached), reached)
  BY <1>1, <1>2, IncreasingEnumerates
<1>4. /\ \A k \in 1..Len(f) : f[k] \in reached
      /\ \A m \in reached : \E k \in 1..Len(f) : f[k] = m
  <2>1. \A k \in 1..Len(f) : f[k] \in reached
    BY <1>3, ElementOfSeq
  <2>2. \A m \in reached : \E k \in 1..Cardinality(reached) : f[k] = m
    BY <1>3 DEF Surjection
  <2> QED
    BY <1>3, <2>1, <2>2
<1>5. ElementsOf(f) = reached
  BY <1>4 DEF ElementsOf
<1> QED
  BY <1>5 DEF reached

LEMMA RememberedAreRecords ==
    ASSUME NEW records \in Seq(RecordSet), NEW kept \in Remembered(records, now, LEADER_LAST_TIME)
    PROVE  kept \in Seq(RecordSet)
  BY SweptIsSubsequence DEF Remembered

LEMMA ActiveNodes == Active \subseteq Node
  BY DEF Active

-----------------------------------------------------------------------------
(* Types.                                                                  *)

LEMMA InitTypes == Init => TypeOK
<1> SUFFICES ASSUME Init PROVE TypeOK
  OBVIOUS
<1>1. <<>> \in Seq(Node) /\ Len(<<>>) = 0 /\ <<>> \in Seq(RecordSet)
  BY EmptySeq
<1>2. loc \in [Node -> Location] /\ message \in Message \cup {None}
  BY NodeAssumption DEF Init
<1>3. /\ isActive \in [Node -> BOOLEAN] /\ handed \in [Node -> Nat]
      /\ RxIG \in [Node -> Seq(RecordSet)]
  BY <1>1 DEF Init
<1>4. i \in 1..Len(tempIGRxTxnodelist) + 1
  BY <1>1 DEF Init
<1> QED
  BY <1>1, <1>2, <1>3, <1>4 DEF Init, TypeOK, RecordSet

\* What the call of ReTxIGROUPMessage leaves has its types.
LEMMA RoundTypes ==
    ASSUME TypeOK, Round(IGReTxnodesList)
    PROVE  /\ message' \in Message \cup {None}
           /\ IGReTxnodesList' \in Seq(Node)
           /\ tempIGRxTxnodelist' \in Seq(Node)
           /\ i' \in 1..Len(tempIGRxTxnodelist') + 1
           /\ isReTx' \in BOOLEAN
           /\ processed' \in BOOLEAN
           /\ handed' \in [Node -> Nat]
<1>1. CASE IGReTxnodesList = <<>>
  BY <1>1 DEF Round, TypeOK
<1>2. CASE IGReTxnodesList # <<>>
  <2>1. Len(IGReTxnodesList) \in Nat /\ <<>> \in Seq(Node)
    BY EmptySeq, LenProperties DEF TypeOK
  <2>2. 1 \in 1..Len(IGReTxnodesList) + 1
    BY <2>1
  <2> QED
    BY <1>2, <2>1, <2>2 DEF Round, TypeOK
<1> QED
  BY <1>1, <1>2

LEMMA RememberTypes ==
    ASSUME TypeOK, message # None, NEW n \in Node, NEW records \in Seq(RecordSet),
           Remember(n, records)
    PROVE  RxIG' \in [Node -> Seq(RecordSet)]
<1>1. Record(message.leaderId, message.sequenceNumber, now) \in RecordSet
  BY DEF TypeOK, Message, Record, RecordSet
<1> DEFINE longer == Append(records, Record(message.leaderId, message.sequenceNumber, now))
<1>2. longer \in Seq(RecordSet)
  BY <1>1, AppendProperties
<1>3. RxIG \in [Node -> Seq(RecordSet)]
  BY DEF TypeOK, RecordSet
<1>4. RxIG' = [RxIG EXCEPT ![n] = longer]
  BY DEF Remember
<1> HIDE DEF longer
<1> QED
  BY <1>2, <1>3, <1>4

LEMMA RelayTypes ==
    ASSUME TypeOK, Relay
    PROVE  TypeOK'
<1>1. /\ message # None /\ message \in Message
      /\ i \in 1..Len(tempIGRxTxnodelist)
      /\ Len(tempIGRxTxnodelist) \in Nat
  BY LenProperties DEF Relay, TypeOK
<1> DEFINE n == tempIGRxTxnodelist[i]
<1>2. n \in Node
  BY <1>1, ElementOfSeq DEF TypeOK
<1> HIDE DEF n
<1>3. PICK kept \in Remembered(RxIG[n], now, LEADER_LAST_TIME) :
        /\ isReTx' = Repeated(RxIG[n], kept, message.leaderId,
                              message.sequenceNumber, isReTx)
        /\ forgot' = (forgot \/ (RxIG[n] # <<>> /\ kept = <<>>))
        /\ IF isReTx'
           THEN /\ RxIG' = [RxIG EXCEPT ![n] = kept]
                /\ UNCHANGED todo
           ELSE /\ Remember(n, kept)
                /\ todo' \in Receivers(loc, n, Active \ {message.leaderId})
  BY Zenon DEF Relay, n
<1>4. RxIG \in [Node -> Seq(RecordSet)] /\ RxIG[n] \in Seq(RecordSet)
  BY <1>2 DEF TypeOK, RecordSet
<1>5. kept \in Seq(RecordSet)
  BY <1>4, RememberedAreRecords
<1>6. RxIG' \in [Node -> Seq(RecordSet)] /\ todo' \in Seq(Node)
  <2>1. CASE isReTx'
    BY <1>3, <1>4, <1>5, <2>1 DEF TypeOK
  <2>2. CASE ~isReTx'
    BY <1>1, <1>2, <1>3, <1>5, <2>2, RememberTypes, ReceiversAreNodes, ActiveNodes
  <2> QED
    BY <2>1, <2>2
<1>7. isReTx' \in BOOLEAN /\ forgot' \in BOOLEAN
  BY <1>3 DEF TypeOK, Repeated
<1>8. i' \in 1..Len(tempIGRxTxnodelist) + 1
  BY <1>1 DEF Relay
<1>9. UNCHANGED <<worldVars, message, direct, IGReTxnodesList,
                  tempIGRxTxnodelist, processed, handed>>
  BY DEF Relay
<1> QED
  BY <1>6, <1>7, <1>8, <1>9 DEF TypeOK, worldVars, RecordSet

LEMMA HandTypes ==
    ASSUME TypeOK, HandDirect \/ HandRelayed
    PROVE  TypeOK'
<1>1. todo \in Seq(Node) /\ todo # <<>>
  BY DEF TypeOK, HandDirect, HandRelayed
<1>2. Head(todo) \in Node /\ Tail(todo) \in Seq(Node)
  BY <1>1, HeadTailProperties
<1>3. Append(IGReTxnodesList, Head(todo)) \in Seq(Node)
  BY <1>2, AppendProperties DEF TypeOK
<1>4. handed' \in [Node -> Nat]
  <2>1. handed \in [Node -> Nat]
    BY DEF TypeOK
  <2>2. Hand(Head(todo)) \/ handed' = handed
    BY DEF HandDirect, HandRelayed
  <2> QED
    BY <1>2, <2>1, <2>2 DEF Hand
<1>5. processed' \in BOOLEAN
  BY DEF TypeOK, HandDirect, HandRelayed
<1> QED
  BY <1>2, <1>3, <1>4, <1>5 DEF TypeOK, HandDirect, HandRelayed, worldVars

LEMMA TypesPreserved == TypeOK /\ [Next]_vars => TypeOK'
<1> SUFFICES ASSUME TypeOK, [Next]_vars PROVE TypeOK'
  OBVIOUS
<1>1. ASSUME NEW n \in Sources, evIGROUP(n) PROVE TypeOK'
  <2>1. n \in Node
    BY NodeAssumption
  <2>2. message' \in Message /\ IGmessageCount' \in Nat
    BY <1>1, <2>1 DEF evIGROUP, TypeOK, Message
  <2>3. todo' \in Seq(Node) /\ <<>> \in Seq(Node)
    BY <1>1, ReceiversAreNodes, ActiveNodes, EmptySeq DEF evIGROUP
  <2> QED
    BY <1>1, <2>2, <2>3 DEF evIGROUP, TypeOK
<1>2. ASSUME NEW n \in Node, nodePeriodicUpdate(n) PROVE TypeOK'
  BY <1>2 DEF nodePeriodicUpdate, TypeOK, loopVars
<1>3. CASE HandDirect \/ HandRelayed
  BY <1>3, HandTypes
<1>4. CASE EndDirect
  <2>1. message # None /\ message.leaderId \in Node
    BY <1>4 DEF EndDirect, TypeOK, Message
  <2>2. RxIG' \in [Node -> Seq(RecordSet)]
    <3>1. RxIG[message.leaderId] \in Seq(RecordSet)
      BY <2>1 DEF TypeOK, RecordSet
    <3> QED
      BY <1>4, <2>1, <3>1, RememberTypes DEF EndDirect
  <2>3. Round(IGReTxnodesList) /\ direct' = FALSE /\ UNCHANGED <<worldVars, todo, forgot>>
    BY <1>4 DEF EndDirect
  <2> QED
    BY <2>2, <2>3, RoundTypes DEF TypeOK, worldVars, RecordSet
<1>5. CASE Relay
  BY <1>5, RelayTypes
<1>6. CASE EndRound
  BY <1>6, RoundTypes DEF EndRound, TypeOK, worldVars
<1>7. CASE nodeMovementUpdate
  BY <1>7, NodeAssumption DEF nodeMovementUpdate, TypeOK, loopVars
<1>8. CASE PassTime
  <2>1. now' \in Nat
    BY <1>8, NodeAssumption DEF PassTime, TypeOK
  <2> QED
    BY <1>8, <2>1 DEF PassTime, TypeOK, loopVars
<1>9. CASE UNCHANGED vars
  BY <1>9 DEF vars, worldVars, loopVars, TypeOK
<1> QED
  BY <1>1, <1>2, <1>3, <1>4, <1>5, <1>6, <1>7, <1>8, <1>9 DEF Next, Flooding

\* Every variable of the flood keeps its type.
THEOREM TypeCorrect == Spec => []TypeOK
  BY InitTypes, TypesPreserved, PTL DEF Spec

-----------------------------------------------------------------------------
(* Nobody relays a message twice.                                          *)

\* The records of the message in flight.
Sent == {r \in RecordSet : r.number = message.sequenceNumber}

\* Of RxIG, or what a step makes of it: a node has a record of the message;
\* the counter is beyond every number; a record of the message is the last its
\* node has, of this leader and this instant.
Has(rx, n) == \E k \in 1..Len(rx[n]) : rx[n][k] \in Sent

Numbered(rx) ==
    \A n \in Node : \A k \in 1..Len(rx[n]) : rx[n][k].number < IGmessageCount

SentNow == {r \in Sent : r.from = message.leaderId /\ r.time = now}

LastOnly(rx) ==
    \A n \in Node : /\ OnlyLast(rx[n], Sent)
                    /\ \A k \in 1..Len(rx[n]) : rx[n][k] \in Sent => rx[n][k] \in SentNow

HasRelayed(n) == Has(RxIG, n)

NumbersDrawn ==
    /\ message # None => message.sequenceNumber < IGmessageCount
    /\ Numbered(RxIG)

\* Before evIGROUP's own loop has ended nobody has a record, then the leader has.
SentIsLast ==
    message # None =>
        /\ LastOnly(RxIG)
        /\ \A n \in Node : HasRelayed(n) => ~direct
        /\ ~direct => HasRelayed(message.leaderId)

RecordInv == TypeOK /\ NumbersDrawn /\ SentIsLast

LEMMA RecordTypes ==
    ASSUME TypeOK
    PROVE  /\ RxIG \in [Node -> Seq(RecordSet)]
           /\ \A n \in Node : \A k \in 1..Len(RxIG[n]) : RxIG[n][k] \in RecordSet
<1>1. RxIG \in [Node -> Seq(RecordSet)]
  BY DEF TypeOK, RecordSet
<1>2. ASSUME NEW n \in Node, NEW k \in 1..Len(RxIG[n]) PROVE RxIG[n][k] \in RecordSet
  <2>1. RxIG[n] \in Seq(RecordSet)
    BY <1>1
  <2> QED
    BY <2>1, ElementOfSeq
<1> QED
  BY <1>1, <1>2

\* A sweep neither forgets a record of this instant nor makes one.
LEMMA SweepKeepsSent ==
    ASSUME RecordInv, message # None, NEW n \in Node,
           NEW kept \in Remembered(RxIG[n], now, LEADER_LAST_TIME)
    PROVE  /\ kept \in Seq(RecordSet)
           /\ OnlyLast(kept, Sent)
           /\ \A k \in 1..Len(kept) : /\ kept[k].number < IGmessageCount
                                      /\ kept[k] \in Sent => kept[k] \in SentNow
           /\ HasRelayed(n) => /\ RxIG[n] # <<>> /\ kept # <<>>
                               /\ Len(kept) \in 1..Len(kept)
                               /\ kept[Len(kept)] \in SentNow
           /\ ~HasRelayed(n) => \A k \in 1..Len(kept) : kept[k] \notin Sent
<1> DEFINE old == {k \in DOMAIN RxIG[n] : now - RxIG[n][k].time > LEADER_LAST_TIME}
<1>1. /\ RxIG[n] \in Seq(RecordSet)
      /\ kept \in Swept(RxIG[n], old)
      /\ Len(RxIG[n]) \in Nat
      /\ \A k \in 1..Len(RxIG[n]) : RxIG[n][k] \in RecordSet
  <2>1. RxIG[n] \in Seq(RecordSet) /\ \A k \in 1..Len(RxIG[n]) : RxIG[n][k] \in RecordSet
    BY RecordTypes DEF RecordInv
  <2> QED
    BY <2>1, LenProperties DEF Remembered
<1>2. kept \in Seq(RecordSet)
  BY <1>1, SweptIsSubsequence
<1>3. OnlyLast(kept, Sent)
  <2>1. OnlyLast(RxIG[n], Sent)
    BY DEF RecordInv, SentIsLast, LastOnly
  <2> HIDE DEF old
  <2> QED
    BY <1>1, <2>1, SweptOnlyLast
<1>4. \A k \in 1..Len(kept) : /\ kept[k].number < IGmessageCount
                              /\ kept[k] \in Sent => kept[k] \in SentNow
  <2> DEFINE P == {r \in RecordSet : /\ r.number < IGmessageCount
                                     /\ r \in Sent => r \in SentNow}
  <2>1. \A k \in 1..Len(RxIG[n]) : RxIG[n][k] \in P
    BY <1>1 DEF RecordInv, NumbersDrawn, Numbered, SentIsLast, LastOnly
  <2> HIDE DEF old, P
  <2>2. \A k \in 1..Len(kept) : kept[k] \in P
    BY <1>1, <2>1, SweptKeeps
  <2> QED
    BY <2>2 DEF P
<1>5. ASSUME HasRelayed(n)
      PROVE  /\ RxIG[n] # <<>> /\ kept # <<>>
             /\ Len(kept) \in 1..Len(kept)
             /\ kept[Len(kept)] \in SentNow
  <2>1. PICK k \in 1..Len(RxIG[n]) : RxIG[n][k] \in Sent
    BY <1>5 DEF HasRelayed, Has
  <2>2. k = Len(RxIG[n]) /\ RxIG[n][k] \in SentNow
    BY <2>1 DEF RecordInv, SentIsLast, LastOnly, OnlyLast
  <2>3. Len(RxIG[n]) \notin old
    <3>1. now - now = 0 /\ ~(0 > LEADER_LAST_TIME)
      BY NodeAssumption DEF RecordInv, TypeOK
    <3> QED
      BY <2>2, <3>1 DEF SentNow
  <2>4. RxIG[n] # <<>>
    BY <2>1, EmptySeq
  <2> HIDE DEF old
  <2>5. kept # <<>> /\ kept[Len(kept)] = RxIG[n][Len(RxIG[n])]
    BY <1>1, <2>3, <2>4, LastIsKept
  <2>6. Len(kept) \in 1..Len(kept)
    BY <1>2, <2>5, EmptySeq
  <2> QED
    BY <2>2, <2>4, <2>5, <2>6
<1>6. ASSUME ~HasRelayed(n), NEW k \in 1..Len(kept) PROVE kept[k] \notin Sent
  <2> HIDE DEF old
  <2>1. \A j \in 1..Len(RxIG[n]) : RxIG[n][j] \in RecordSet \ Sent
    BY <1>1, <1>6 DEF HasRelayed, Has
  <2>2. \A j \in 1..Len(kept) : kept[j] \in RecordSet \ Sent
    BY <1>1, <2>1, SweptKeeps
  <2> QED
    BY <2>2
<1> HIDE DEF old
<1> QED
  BY <1>2, <1>3, <1>4, <1>5, <1>6

\* Appending the record of the message to records without one.
LEMMA RememberKeepsLast ==
    ASSUME RecordInv, message # None, NEW n \in Node, NEW records \in Seq(RecordSet),
           \A k \in 1..Len(records) : /\ records[k] \notin Sent
                                      /\ records[k].number < IGmessageCount,
           Remember(n, records)
    PROVE  /\ Numbered(RxIG') /\ LastOnly(RxIG')
           /\ Has(RxIG', n)
           /\ \A m \in Node \ {n} : RxIG'[m] = RxIG[m]
<1> DEFINE new == Record(message.leaderId, message.sequenceNumber, now)
           longer == Append(records, new)
<1>1. /\ new \in RecordSet /\ new \in SentNow /\ new \in Sent
      /\ new.number = message.sequenceNumber
  BY DEF RecordInv, TypeOK, Message, Record, RecordSet, SentNow, Sent
<1>3. /\ RxIG \in [Node -> Seq(RecordSet)]
      /\ RxIG' = [RxIG EXCEPT ![n] = longer]
  BY RecordTypes DEF RecordInv, Remember
<1> HIDE DEF new
<1>4. /\ longer \in Seq(RecordSet)
      /\ Len(longer) = Len(records) + 1 /\ Len(records) \in Nat
      /\ \A k \in 1..Len(records) : longer[k] = records[k]
      /\ longer[Len(longer)] = new
  BY <1>1, AppendProperties, LenProperties
<1>5. OnlyLast(longer, Sent)
  BY <1>1, AppendOnlyLast
<1> HIDE DEF longer
<1>6. \A k \in 1..Len(longer) : k \in 1..Len(records) \/ k = Len(longer)
  BY <1>4
<1>7. RxIG'[n] = longer /\ \A m \in Node \ {n} : RxIG'[m] = RxIG[m]
  BY <1>3
<1>8. Numbered(RxIG')
  <2>1. message.sequenceNumber < IGmessageCount
    BY DEF RecordInv, NumbersDrawn
  <2>2. \A k \in 1..Len(longer) : longer[k].number < IGmessageCount
    BY <1>1, <1>4, <1>6, <2>1
  <2> QED
    BY <1>7, <2>2 DEF RecordInv, NumbersDrawn, Numbered
<1>9. LastOnly(RxIG')
  <2>1. \A k \in 1..Len(longer) : longer[k] \in Sent => longer[k] \in SentNow
    BY <1>1, <1>4, <1>6
  <2> SUFFICES ASSUME NEW m \in Node
               PROVE  /\ OnlyLast(RxIG'[m], Sent)
                      /\ \A k \in 1..Len(RxIG'[m]) :
                           RxIG'[m][k] \in Sent => RxIG'[m][k] \in SentNow
    BY DEF LastOnly
  <2>2. CASE m = n
    BY <1>5, <1>7, <2>1, <2>2
  <2>3. CASE m # n
    BY <1>7, <2>3 DEF RecordInv, SentIsLast, LastOnly
  <2> QED
    BY <2>2, <2>3
<1>10. Has(RxIG', n)
  <2>1. Len(longer) \in 1..Len(longer)
    BY <1>4
  <2> QED
    BY <1>1, <1>4, <1>7, <2>1 DEF Has
<1> QED
  BY <1>7, <1>8, <1>9, <1>10

\* A relay records the message when it has not yet, and only then.
LEMMA RelayRecords ==
    ASSUME RecordInv, Relay
    PROVE  /\ tempIGRxTxnodelist[i] \in Node
           /\ Numbered(RxIG') /\ LastOnly(RxIG')
           /\ \A m \in Node \ {tempIGRxTxnodelist[i]} : RxIG'[m] = RxIG[m]
           /\ Has(RxIG', tempIGRxTxnodelist[i]) <=>
                HasRelayed(tempIGRxTxnodelist[i]) \/ ~isReTx'
           /\ HasRelayed(tempIGRxTxnodelist[i]) => isReTx'
           /\ IF isReTx'
              THEN UNCHANGED todo
              ELSE todo' \in Receivers(loc, tempIGRxTxnodelist[i],
                                       Active \ {message.leaderId})
<1> DEFINE n == tempIGRxTxnodelist[i]
<1>1. message # None /\ n \in Node
  <2>1. i \in 1..Len(tempIGRxTxnodelist) /\ tempIGRxTxnodelist \in Seq(Node)
    BY LenProperties DEF Relay, RecordInv, TypeOK
  <2> QED
    BY <2>1, ElementOfSeq DEF Relay
<1>2. PICK kept \in Remembered(RxIG[n], now, LEADER_LAST_TIME) :
        /\ isReTx' = Repeated(RxIG[n], kept, message.leaderId,
                              message.sequenceNumber, isReTx)
        /\ forgot' = (forgot \/ (RxIG[n] # <<>> /\ kept = <<>>))
        /\ IF isReTx'
           THEN /\ RxIG' = [RxIG EXCEPT ![n] = kept]
                /\ UNCHANGED todo
           ELSE /\ Remember(n, kept)
                /\ todo' \in Receivers(loc, n, Active \ {message.leaderId})
  BY Zenon DEF Relay
<1> HIDE DEF n
<1>3. /\ kept \in Seq(RecordSet)
      /\ OnlyLast(kept, Sent)
      /\ \A k \in 1..Len(kept) : /\ kept[k].number < IGmessageCount
                                 /\ kept[k] \in Sent => kept[k] \in SentNow
      /\ HasRelayed(n) => /\ RxIG[n] # <<>> /\ kept # <<>>
                          /\ Len(kept) \in 1..Len(kept)
                          /\ kept[Len(kept)] \in SentNow
      /\ ~HasRelayed(n) => \A k \in 1..Len(kept) : kept[k] \notin Sent
  BY <1>1, SweepKeepsSent
<1>4. HasRelayed(n) => isReTx'
  BY <1>2, <1>3 DEF Repeated, SentNow, Sent
<1>5. CASE isReTx'
  <2>1. RxIG'[n] = kept /\ \A m \in Node \ {n} : RxIG'[m] = RxIG[m]
    BY <1>1, <1>2, <1>5, RecordTypes DEF RecordInv
  <2>2. Numbered(RxIG')
    BY <1>3, <2>1 DEF Numbered, RecordInv, NumbersDrawn
  <2>3. LastOnly(RxIG')
    <3> SUFFICES ASSUME NEW m \in Node
                 PROVE  /\ OnlyLast(RxIG'[m], Sent)
                        /\ \A k \in 1..Len(RxIG'[m]) :
                             RxIG'[m][k] \in Sent => RxIG'[m][k] \in SentNow
      BY DEF LastOnly
    <3>1. CASE m = n
      BY <1>3, <2>1, <3>1
    <3>2. CASE m # n
      BY <1>1, <2>1, <3>2 DEF RecordInv, SentIsLast, LastOnly
    <3> QED
      BY <3>1, <3>2
  <2>4. Has(RxIG', n) <=> HasRelayed(n)
    <3>1. Has(RxIG', n) <=> \E k \in 1..Len(kept) : kept[k] \in Sent
      BY <2>1 DEF Has
    <3>2. SentNow \subseteq Sent
      BY DEF SentNow
    <3> QED
      BY <1>3, <3>1, <3>2
  <2> QED
    BY <1>1, <1>2, <1>5, <2>1, <2>2, <2>3, <2>4 DEF n
<1>6. CASE ~isReTx'
  <2>1. \A k \in 1..Len(kept) : kept[k] \notin Sent /\ kept[k].number < IGmessageCount
    BY <1>3, <1>4, <1>6
  <2>2. /\ Numbered(RxIG') /\ LastOnly(RxIG')
        /\ Has(RxIG', n)
        /\ \A m \in Node \ {n} : RxIG'[m] = RxIG[m]
    BY <1>1, <1>2, <1>3, <1>6, <2>1, RememberKeepsLast
  <2> QED
    BY <1>1, <1>2, <1>4, <1>6, <2>2 DEF n
<1> QED
  BY <1>5, <1>6

\* evIGROUP's own loop ends by recording the message with its leader.
LEMMA DirectRecords ==
    ASSUME RecordInv, EndDirect
    PROVE  /\ message.leaderId \in Node
           /\ Numbered(RxIG') /\ LastOnly(RxIG')
           /\ Has(RxIG', message.leaderId)
           /\ \A m \in Node \ {message.leaderId} : RxIG'[m] = RxIG[m]
<1> DEFINE n == message.leaderId
<1>1. message # None /\ direct /\ Remember(n, RxIG[n])
  BY DEF EndDirect
<1>2. n \in Node
  BY <1>1 DEF RecordInv, TypeOK, Message
<1> HIDE DEF n
<1>3. RxIG[n] \in Seq(RecordSet)
  BY <1>2, RecordTypes DEF RecordInv
<1>4. \A k \in 1..Len(RxIG[n]) : RxIG[n][k] \notin Sent /\ RxIG[n][k].number < IGmessageCount
  BY <1>1, <1>2 DEF RecordInv, NumbersDrawn, Numbered, SentIsLast, HasRelayed, Has
<1>5. /\ Numbered(RxIG') /\ LastOnly(RxIG')
      /\ Has(RxIG', n)
      /\ \A m \in Node \ {n} : RxIG'[m] = RxIG[m]
  BY <1>1, <1>2, <1>3, <1>4, RememberKeepsLast
<1> QED
  BY <1>2, <1>5 DEF n

\* The message of the next round is the same, or none.
LEMMA RoundKeepsMessage ==
    ASSUME Round(IGReTxnodesList) PROVE message' \in {message, None}
  BY DEF Round

LEMMA InitRecords == Init => RecordInv
<1> SUFFICES ASSUME Init PROVE RecordInv
  OBVIOUS
<1>1. message = None /\ \A n \in Node : RxIG[n] = <<>>
  BY DEF Init
<1>2. NumbersDrawn
  BY <1>1, EmptySeq DEF NumbersDrawn, Numbered
<1> QED
  BY <1>1, <1>2, InitTypes DEF RecordInv, SentIsLast

LEMMA RecordsPreserved == RecordInv /\ [Next]_vars => RecordInv'
<1> SUFFICES ASSUME RecordInv, [Next]_vars PROVE RecordInv'
  OBVIOUS
<1>0. TypeOK'
  BY TypesPreserved DEF RecordInv
<1>1. ASSUME NEW n \in Sources, evIGROUP(n) PROVE RecordInv'
  <2>1. /\ message' # None
        /\ message'.sequenceNumber = IGmessageCount
        /\ IGmessageCount \in Nat /\ IGmessageCount' = IGmessageCount + 1
        /\ RxIG' = RxIG
    <3>1. n \in Node
      BY NodeAssumption
    <3>2. message' \in Message
      BY <1>1, <3>1 DEF evIGROUP, RecordInv, TypeOK, Message
    <3> QED
      BY <1>1, <3>2, NodeAssumption DEF evIGROUP, RecordInv, TypeOK
  <2>2. NumbersDrawn'
    <3>1. \A m \in Node : \A k \in 1..Len(RxIG[m]) :
            RxIG[m][k].number \in Nat /\ RxIG[m][k].number < IGmessageCount
      BY RecordTypes DEF RecordInv, NumbersDrawn, Numbered, RecordSet
    <3>2. \A x \in Nat : x < IGmessageCount => x < IGmessageCount'
      BY <2>1
    <3>3. message'.sequenceNumber < IGmessageCount'
      BY <2>1
    <3> QED
      BY <2>1, <3>1, <3>2, <3>3 DEF NumbersDrawn, Numbered
  <2>3. \A m \in Node : \A k \in 1..Len(RxIG'[m]) : RxIG'[m][k] \notin Sent'
    BY <2>1 DEF RecordInv, NumbersDrawn, Numbered, Sent
  <2>4. SentIsLast'
    <3>1. \A m \in Node : ~HasRelayed(m)'
      BY <2>3 DEF HasRelayed, Has
    <3>2. LastOnly(RxIG)'
      BY <2>3 DEF LastOnly, OnlyLast
    <3>3. direct'
      BY <1>1 DEF evIGROUP
    <3> QED
      BY <3>1, <3>2, <3>3 DEF SentIsLast
  <2> QED
    BY <1>0, <2>2, <2>4 DEF RecordInv
<1>2. ASSUME message = None, message' = None, UNCHANGED <<RxIG, IGmessageCount>>
      PROVE  RecordInv'
  <2>1. NumbersDrawn'
    BY <1>2 DEF RecordInv, NumbersDrawn, Numbered
  <2> QED
    BY <1>0, <1>2, <2>1 DEF RecordInv, SentIsLast
<1>3. ASSUME message' \in {message, None}, UNCHANGED <<RxIG, IGmessageCount, now, direct>>
      PROVE  RecordInv'
  <2>1. NumbersDrawn'
    BY <1>3 DEF RecordInv, NumbersDrawn, Numbered
  <2>2. SentIsLast'
    BY <1>3 DEF RecordInv, SentIsLast, LastOnly, HasRelayed, Has, OnlyLast, Sent, SentNow
  <2> QED
    BY <1>0, <2>1, <2>2 DEF RecordInv
<1>4. ASSUME message # None, message' \in {message, None}, UNCHANGED <<IGmessageCount, now>>,
             Numbered(RxIG'), LastOnly(RxIG'), Has(RxIG', message.leaderId), ~direct'
      PROVE  RecordInv'
  <2>1. NumbersDrawn'
    BY <1>4 DEF RecordInv, NumbersDrawn, Numbered
  <2>2. SentIsLast'
    BY <1>4 DEF SentIsLast, LastOnly, HasRelayed, Has, OnlyLast, Sent, SentNow
  <2> QED
    BY <1>0, <2>1, <2>2 DEF RecordInv
<1>5. CASE HandDirect \/ HandRelayed
  BY <1>3, <1>5 DEF HandDirect, HandRelayed, worldVars
<1>6. CASE EndDirect
  <2>1. message # None /\ message' \in {message, None} /\ ~direct'
        /\ UNCHANGED <<IGmessageCount, now>>
    BY <1>6, RoundKeepsMessage DEF EndDirect, worldVars
  <2> QED
    BY <1>4, <1>6, <2>1, DirectRecords
<1>7. CASE Relay
  <2>1. message # None /\ message' = message /\ ~direct /\ ~direct'
        /\ UNCHANGED <<IGmessageCount, now>>
    BY <1>7 DEF Relay, worldVars
  <2>2. HasRelayed(message.leaderId) /\ message.leaderId \in Node
    BY <2>1 DEF RecordInv, SentIsLast, TypeOK, Message
  <2>3. Has(RxIG', message.leaderId)
    BY <1>7, <2>2, RelayRecords DEF HasRelayed, Has
  <2> QED
    BY <1>4, <1>7, <2>1, <2>3, RelayRecords
<1>8. CASE EndRound
  <2>1. message' \in {message, None} /\ UNCHANGED <<RxIG, IGmessageCount, now, direct>>
    BY <1>8, RoundKeepsMessage DEF EndRound, worldVars
  <2> QED
    BY <1>3, <2>1
<1>9. CASE (\E n \in Node : nodePeriodicUpdate(n)) \/ nodeMovementUpdate \/ PassTime
  BY <1>2, <1>9 DEF nodePeriodicUpdate, nodeMovementUpdate, PassTime, loopVars
<1>10. CASE UNCHANGED vars
  BY <1>3, <1>10 DEF vars, worldVars, loopVars
<1> QED
  BY <1>1, <1>5, <1>6, <1>7, <1>8, <1>9, <1>10 DEF Next, Flooding

LEMMA OneRecord == RecordInv => RelaysOnce
<1> SUFFICES ASSUME RecordInv, message # None, NEW n \in Node
             PROVE  Relays(n) <= 1
  BY DEF RelaysOnce
<1> DEFINE matching == {k \in DOMAIN RxIG[n] :
                          /\ RxIG[n][k].from = message.leaderId
                          /\ RxIG[n][k].number = message.sequenceNumber}
<1>1. matching \subseteq {Len(RxIG[n])}
  <2>1. DOMAIN RxIG[n] = 1..Len(RxIG[n])
    BY RecordTypes, LenProperties DEF RecordInv
  <2>2. \A k \in 1..Len(RxIG[n]) :
          RxIG[n][k].number = message.sequenceNumber => k = Len(RxIG[n])
    BY RecordTypes DEF RecordInv, SentIsLast, LastOnly, OnlyLast, Sent
  <2> QED
    BY <2>1, <2>2
<1>2. IsFiniteSet({Len(RxIG[n])}) /\ Cardinality({Len(RxIG[n])}) = 1
  BY FS_Singleton
<1> HIDE DEF matching
<1>3. IsFiniteSet(matching) /\ Cardinality(matching) <= 1
  BY <1>1, <1>2, FS_Subset
<1> QED
  BY <1>3 DEF Relays, matching

\* On no network does a node relay a message twice, though ReTxIGROUPMessage
\* looks at the last record only and sweeps records while the flood goes on.
THEOREM RelaysOnceHolds == Spec => []RelaysOnce
  BY OneRecord, InitRecords, RecordsPreserved, PTL DEF Spec

-----------------------------------------------------------------------------
(* The flood is a broadcast.                                               *)

\* Those who have sent the message in flight, and those it will be handed next.
Senders == {message.leaderId} \cup {n \in Node : HasRelayed(n)}

Waiting(m) == \E k \in 1..Len(todo) : todo[k] = m

Owed(m) == IF Waiting(m) THEN 1 ELSE 0

\* A node gets at most one copy from every sender, and none from itself.
CopiesBounded ==
    message # None =>
        /\ \A k \in 1..Len(todo) : todo[k] \in Active \ {message.leaderId}
        /\ NoRepeats(todo)
        /\ \A m \in Node : handed[m] + Owed(m) <= Cardinality(Senders \ {m})

CopiesInv == RecordInv /\ CopiesBounded

LEMMA CardinalityOfSenders ==
    ASSUME NEW A \in SUBSET Node, NEW B \in SUBSET Node, A \subseteq B, NEW m \in Node
    PROVE  /\ Cardinality(A \ {m}) \in Nat /\ Cardinality(B \ {m}) \in Nat
           /\ Cardinality(A \ {m}) <= Cardinality(B \ {m})
           /\ \A n \in B \ A : n # m => Cardinality(A \ {m}) + 1 <= Cardinality(B \ {m})
<1> DEFINE C == A \ {m}
           D == B \ {m}
<1>1. C \in SUBSET D /\ D \in SUBSET Node
  OBVIOUS
<1>2. \A n \in B \ A : n # m => n \in D \ C
  OBVIOUS
<1> HIDE DEF C, D
<1>3. IsFiniteSet(D) /\ IsFiniteSet(C)
  BY <1>1, NodeAssumption, FS_Subset
<1>4. Cardinality(C) \in Nat /\ Cardinality(D) \in Nat /\ Cardinality(C) <= Cardinality(D)
  BY <1>1, <1>3, FS_CardinalityType, FS_Subset
<1>5. ASSUME NEW n \in D \ C PROVE Cardinality(C) + 1 <= Cardinality(D)
  <2>1. Cardinality(C) # Cardinality(D)
    BY <1>1, <1>3, <1>5, FS_Subset
  <2> QED
    BY <1>4, <2>1
<1> QED
  BY <1>2, <1>4, <1>5 DEF C, D

LEMMA SendersAreNodes ==
    ASSUME TypeOK, message # None PROVE Senders \in SUBSET Node
  BY DEF TypeOK, Message, Senders

\* Nobody is waiting and nobody is handed a copy.
LEMMA CopiesKept ==
    ASSUME TypeOK, CopiesBounded, message # None,
           message' = message, UNCHANGED <<todo, handed, isActive>>,
           Senders' \in SUBSET Node, Senders \subseteq Senders'
    PROVE  CopiesBounded'
<1>1. Senders \in SUBSET Node
  BY SendersAreNodes
<1>2. ASSUME NEW m \in Node
      PROVE  handed'[m] + Owed(m)' <= Cardinality(Senders' \ {m})
  <2>1. Owed(m)' = Owed(m)
    BY DEF Owed, Waiting
  <2>2. handed[m] + Owed(m) <= Cardinality(Senders \ {m})
    BY DEF CopiesBounded
  <2>3. /\ Cardinality(Senders \ {m}) \in Nat /\ Cardinality(Senders' \ {m}) \in Nat
        /\ Cardinality(Senders \ {m}) <= Cardinality(Senders' \ {m})
    BY <1>1, CardinalityOfSenders
  <2>4. handed[m] \in Nat /\ Owed(m) \in Nat
    BY DEF TypeOK, Owed
  <2> QED
    BY <2>1, <2>2, <2>3, <2>4
<1>3. Active' = Active
  BY DEF Active
<1> QED
  BY <1>2, <1>3 DEF CopiesBounded

\* Handing a copy to the first of those who wait.
LEMMA CopyHanded ==
    ASSUME TypeOK, CopiesBounded, message # None, todo # <<>>, todo' = Tail(todo),
           Hand(Head(todo)) \/ handed' = handed,
           UNCHANGED <<message, isActive, RxIG>>
    PROVE  CopiesBounded'
<1>0. PICK h \in Node : h = Head(todo)
  BY HeadTailProperties DEF TypeOK
<1>1. /\ todo \in Seq(Node)
      /\ Len(todo') = Len(todo) - 1 /\ Len(todo) \in Nat
      /\ \A k \in 1..Len(todo') : todo'[k] = todo[k+1]
      /\ handed \in [Node -> Nat]
  BY HeadTailProperties, LenProperties DEF TypeOK
<1>2. NoRepeats(todo') /\ \A k \in 1..Len(todo') : todo'[k] # h
  BY <1>0, <1>1, TailOfNoRepeats DEF CopiesBounded
<1>3. \A k \in 1..Len(todo') : k + 1 \in 1..Len(todo)
  BY <1>1
<1>4. Waiting(h) /\ ~Waiting(h)' /\ \A m \in Node : Waiting(m)' => Waiting(m)
  <2>1. 1 \in 1..Len(todo) /\ todo[1] = h
    BY <1>0, <1>1, EmptySeq
  <2> QED
    BY <1>1, <1>2, <1>3, <2>1 DEF Waiting
<1>5. Senders' = Senders /\ Active' = Active
  BY DEF Senders, HasRelayed, Has, Sent, Active
<1>6. ASSUME NEW m \in Node
      PROVE  handed'[m] + Owed(m)' <= Cardinality(Senders' \ {m})
  <2>1. handed[m] + Owed(m) <= Cardinality(Senders \ {m})
    BY DEF CopiesBounded
  <2>2. handed[m] \in Nat /\ Cardinality(Senders \ {m}) \in Nat
    <3>1. Senders \in SUBSET Node /\ Senders \subseteq Senders
      BY SendersAreNodes
    <3> QED
      BY <1>1, <3>1, CardinalityOfSenders
  <2>3. CASE m = h
    <3>1. handed'[m] = handed[m] \/ handed'[m] = handed[m] + 1
      BY <1>0, <1>1, <2>3 DEF Hand
    <3>2. Owed(m) = 1 /\ Owed(m)' = 0
      BY <1>4, <2>3 DEF Owed
    <3> QED
      BY <1>5, <2>1, <2>2, <3>1, <3>2
  <2>4. CASE m # h
    <3>1. handed'[m] = handed[m]
      BY <1>0, <1>1, <2>4 DEF Hand
    <3>2. Owed(m) \in 0..1 /\ Owed(m)' \in 0..1 /\ Owed(m)' <= Owed(m)
      BY <1>4 DEF Owed
    <3> QED
      BY <1>5, <2>1, <2>2, <3>1, <3>2
  <2> QED
    BY <2>3, <2>4
<1>7. \A k \in 1..Len(todo') : todo'[k] \in Active \ {message.leaderId}
  BY <1>1, <1>3 DEF CopiesBounded
<1> QED
  BY <1>2, <1>5, <1>6, <1>7 DEF CopiesBounded

\* A new sender has every node in range wait for a copy of its own.
LEMMA RelaySends ==
    ASSUME RecordInv, RecordInv', CopiesBounded, Relay
    PROVE  CopiesBounded'
<1> DEFINE n == tempIGRxTxnodelist[i]
<1>1. /\ message # None /\ message' = message /\ ~direct /\ todo = <<>>
      /\ UNCHANGED <<handed, isActive>>
  BY DEF Relay, worldVars
<1>2. /\ n \in Node
      /\ \A m \in Node \ {n} : RxIG'[m] = RxIG[m]
      /\ Has(RxIG', n) <=> HasRelayed(n) \/ ~isReTx'
      /\ HasRelayed(n) => isReTx'
      /\ IF isReTx'
         THEN UNCHANGED todo
         ELSE todo' \in Receivers(loc, n, Active \ {message.leaderId})
  BY RelayRecords
<1> HIDE DEF n
<1>3. /\ Senders = {message.leaderId} \cup {m \in Node : Has(RxIG, m)}
      /\ Senders' = {message.leaderId} \cup {m \in Node : Has(RxIG', m)}
      /\ \A m \in Node \ {n} : Has(RxIG', m) <=> Has(RxIG, m)
  BY <1>1, <1>2 DEF Senders, HasRelayed, Has, Sent
<1>4. Senders \in SUBSET Node /\ Senders' \in SUBSET Node /\ Senders \subseteq Senders'
  <2>1. message.leaderId \in Node
    BY <1>1 DEF RecordInv, TypeOK, Message
  <2> QED
    BY <1>2, <1>3, <2>1 DEF HasRelayed
<1>5. CASE isReTx'
  BY <1>1, <1>2, <1>4, <1>5, CopiesKept DEF RecordInv
<1>6. CASE ~isReTx'
  <2>1. n \in Senders' \ Senders
    <3>1. HasRelayed(message.leaderId)
      BY <1>1 DEF RecordInv, SentIsLast
    <3>2. ~HasRelayed(n) /\ Has(RxIG', n)
      BY <1>2, <1>6
    <3> QED
      BY <1>2, <1>3, <3>1, <3>2 DEF HasRelayed
  <2>2. /\ \A k \in 1..Len(todo') : todo'[k] \in (Active \ {message.leaderId}) \ {n}
        /\ NoRepeats(todo')
    <3>1. Active \ {message.leaderId} \in SUBSET Node
      BY ActiveNodes
    <3> QED
      BY <1>2, <1>6, <3>1, ReceiversAreNodes
  <2>3. ASSUME NEW m \in Node
        PROVE  handed'[m] + Owed(m)' <= Cardinality(Senders' \ {m})
    <3>1. Owed(m) = 0
      BY <1>1, EmptySeq DEF Owed, Waiting
    <3>2. handed[m] \in Nat /\ handed[m] <= Cardinality(Senders \ {m})
      <4>1. handed[m] \in Nat
        BY DEF RecordInv, TypeOK
      <4>2. handed[m] + Owed(m) <= Cardinality(Senders \ {m})
        BY <1>1 DEF CopiesBounded
      <4>3. handed[m] + 0 = handed[m]
        BY <4>1
      <4> QED
        BY <3>1, <4>1, <4>2, <4>3
    <3>3. Owed(m)' = 0 \/ (Owed(m)' = 1 /\ m # n)
      BY <2>2 DEF Owed, Waiting
    <3>4. /\ Cardinality(Senders \ {m}) \in Nat /\ Cardinality(Senders' \ {m}) \in Nat
          /\ Cardinality(Senders \ {m}) <= Cardinality(Senders' \ {m})
          /\ n # m => Cardinality(Senders \ {m}) + 1 <= Cardinality(Senders' \ {m})
      BY <1>4, <2>1, CardinalityOfSenders
    <3> QED
      BY <1>1, <3>2, <3>3, <3>4
  <2>4. Active' = Active
    BY <1>1 DEF Active
  <2> QED
    BY <1>1, <2>2, <2>3, <2>4 DEF CopiesBounded
<1> QED
  BY <1>5, <1>6

LEMMA CopiesPreserved ==
    ASSUME CopiesInv, [Next]_vars
    PROVE  CopiesInv'
<1>0. RecordInv /\ RecordInv' /\ TypeOK
  BY RecordsPreserved DEF CopiesInv, RecordInv
<1> SUFFICES CopiesBounded'
  BY <1>0 DEF CopiesInv
<1>1. ASSUME NEW n \in Sources, evIGROUP(n) PROVE CopiesBounded'
  <2>1. /\ n \in Node /\ message'.leaderId = n /\ message' # None
        /\ todo' \in Receivers(loc, n, Active)
        /\ handed' = [m \in Node |-> 0]
        /\ Active' = Active
    <3>1. n \in Node
      BY NodeAssumption
    <3>2. message' \in Message
      BY <1>0, <1>1, <3>1 DEF evIGROUP, TypeOK, Message
    <3> QED
      BY <1>1, <3>1, <3>2, NodeAssumption DEF evIGROUP, Active
  <2>2. NoRepeats(todo') /\ \A k \in 1..Len(todo') : todo'[k] \in Active \ {n}
    BY <2>1, ReceiversAreNodes, ActiveNodes
  <2>3. ASSUME NEW m \in Node PROVE handed'[m] + Owed(m)' <= Cardinality(Senders' \ {m})
    <3>1. handed'[m] = 0 /\ (Owed(m)' = 0 \/ (Owed(m)' = 1 /\ m # n))
      BY <2>1, <2>2 DEF Owed, Waiting
    <3>2. n \in Senders' /\ Senders' \in SUBSET Node
      BY <2>1 DEF Senders
    <3>3. /\ Cardinality({} \ {m}) \in Nat /\ Cardinality(Senders' \ {m}) \in Nat
          /\ n # m => Cardinality({} \ {m}) + 1 <= Cardinality(Senders' \ {m})
      BY <3>2, CardinalityOfSenders
    <3> QED
      BY <3>1, <3>3
  <2> QED
    BY <2>1, <2>2, <2>3 DEF CopiesBounded
<1>2. CASE message' = None
  BY <1>2 DEF CopiesBounded
<1>3. CASE HandDirect \/ HandRelayed
  <2>1. /\ message # None /\ todo # <<>> /\ todo' = Tail(todo)
        /\ Hand(Head(todo)) \/ handed' = handed
        /\ UNCHANGED <<message, isActive, RxIG>>
    BY <1>3 DEF HandDirect, HandRelayed, worldVars
  <2> QED
    BY <1>0, <2>1, CopyHanded DEF CopiesInv
<1>4. CASE EndDirect /\ message' # None
  <2>1. message # None /\ message' = message /\ UNCHANGED <<todo, handed, isActive>>
    BY <1>4 DEF EndDirect, Round, worldVars
  <2>2. Senders' = {message.leaderId} \cup {m \in Node : Has(RxIG', m)}
    BY <2>1 DEF Senders, HasRelayed, Has, Sent
  <2>3. message.leaderId \in Node /\ \A m \in Node \ {message.leaderId} : RxIG'[m] = RxIG[m]
    BY <1>0, <1>4, DirectRecords
  <2>4. Senders' \in SUBSET Node /\ Senders \subseteq Senders'
    BY <2>2, <2>3 DEF Senders, HasRelayed, Has
  <2> QED
    BY <1>0, <2>1, <2>4, CopiesKept DEF CopiesInv
<1>5. CASE Relay
  BY <1>0, <1>5, RelaySends DEF CopiesInv
<1>6. ASSUME message # None, message' = message, UNCHANGED <<todo, handed, isActive, RxIG>>
      PROVE  CopiesBounded'
  <2>1. Senders' = Senders
    BY <1>6 DEF Senders, HasRelayed, Has, Sent
  <2> QED
    BY <1>0, <1>6, <2>1, SendersAreNodes, CopiesKept DEF CopiesInv
<1>7. CASE EndRound /\ message' # None
  BY <1>6, <1>7 DEF EndRound, RoundOver, Round, worldVars
<1>8. CASE (\E n \in Node : nodePeriodicUpdate(n)) \/ nodeMovementUpdate \/ PassTime
  BY <1>2, <1>8 DEF nodePeriodicUpdate, nodeMovementUpdate, PassTime, loopVars
<1>9. CASE UNCHANGED vars
  BY <1>2, <1>6, <1>9 DEF vars, worldVars, loopVars
<1> QED
  BY <1>1, <1>2, <1>3, <1>4, <1>5, <1>7, <1>8, <1>9 DEF Next, Flooding

LEMMA CopiesAlways == Spec => []CopiesInv
<1>1. Init => CopiesInv
  <2> SUFFICES ASSUME Init PROVE CopiesInv
    OBVIOUS
  <2>1. CopiesBounded
    BY DEF Init, CopiesBounded
  <2> QED
    BY <2>1, InitRecords DEF CopiesInv
<1> QED
  BY <1>1, CopiesPreserved, PTL DEF Spec

\* What one step of the flood is for those who only see who sends, who is
\* active and who has got how many copies.
LEMMA StepsAreBroadcast ==
    ASSUME CopiesInv, [Next]_vars
    PROVE  [Abstract!Next]_(Abstract!vars)
<1>0. TypeOK /\ RecordInv /\ CopiesBounded
  BY DEF CopiesInv, RecordInv
<1>1. ASSUME message # None
      PROVE  Sender = message.leaderId /\ Sender \in Node /\ Sender # None
  BY <1>0, <1>1, NodeAssumption DEF TypeOK, Message, Sender
<1>2. ASSUME NEW n \in Sources, evIGROUP(n) PROVE Abstract!Next
  <2>1. n \in Node
    BY NodeAssumption
  <2>2. message' \in Message /\ message'.leaderId = n
    BY <1>0, <1>2, <2>1 DEF evIGROUP, TypeOK, Message
  <2>3. Sender = None /\ Sender' = n
    BY <1>2, <2>2, NodeAssumption DEF evIGROUP, Sender
  <2>4. n \in Active /\ Active' = Active /\ handed' = [m \in Node |-> 0]
    BY <1>2, <2>1 DEF evIGROUP, Active
  <2> QED
    BY <2>1, <2>3, <2>4 DEF Abstract!Next, Abstract!Send
<1>3. ASSUME message # None, todo # <<>>, Hand(Head(todo)), UNCHANGED <<message, isActive>>
      PROVE  Abstract!Next
  <2> DEFINE h == Head(todo)
  <2>1. h \in Node /\ h = todo[1] /\ 1 \in 1..Len(todo)
    BY <1>0, <1>3, HeadTailProperties, EmptySeq DEF TypeOK
  <2> HIDE DEF h
  <2>2. h \in Active \ {Sender}
    BY <1>0, <1>1, <1>3, <2>1 DEF CopiesBounded
  <2>3. handed[h] < Copies
    <3>1. Owed(h) = 1
      BY <2>1 DEF Owed, Waiting
    <3>2. handed[h] \in Nat /\ handed[h] + Owed(h) <= Cardinality(Senders \ {h})
      BY <1>0, <1>3, <2>1 DEF TypeOK, CopiesBounded
    <3>3. /\ Cardinality(Senders \ {h}) \in Nat /\ Cardinality(Node \ {h}) \in Nat
          /\ Cardinality(Senders \ {h}) <= Cardinality(Node \ {h})
      <4>1. Senders \in SUBSET Node /\ Node \in SUBSET Node
        BY <1>0, <1>3, SendersAreNodes
      <4> QED
        BY <2>1, <4>1, CardinalityOfSenders
    <3>4. Cardinality(Node \ {h}) = Cardinality(Node) - 1
      BY <2>1, NodeAssumption, FS_RemoveElement
    <3> QED
      BY <3>1, <3>2, <3>3, <3>4 DEF Copies
  <2>4. handed' = [handed EXCEPT ![h] = @ + 1]
    BY <1>3 DEF Hand, h
  <2>5. UNCHANGED <<Sender, Active>>
    BY <1>3 DEF Sender, Active
  <2> QED
    BY <1>1, <1>3, <2>1, <2>2, <2>3, <2>4, <2>5 DEF Abstract!Next, Abstract!Deliver
<1>4. ASSUME message # None, Round(IGReTxnodesList), UNCHANGED isActive
      PROVE  [Abstract!Next]_(Abstract!vars)
  <2>1. Active' = Active
    BY <1>4 DEF Active
  <2>2. CASE message' = message /\ handed' = handed
    BY <2>1, <2>2 DEF Sender, Abstract!vars
  <2>3. CASE message' = None /\ handed' = [m \in Node |-> 0]
    <3>1. Sender' = None
      BY <2>3 DEF Sender
    <3> QED
      BY <1>1, <1>4, <2>1, <2>3, <3>1 DEF Abstract!Next, Abstract!End
  <2> QED
    BY <1>4, <2>2, <2>3 DEF Round
<1>5. ASSUME UNCHANGED <<message, isActive, handed>> PROVE UNCHANGED Abstract!vars
  BY <1>5 DEF Abstract!vars, Sender, Active
<1>6. ASSUME NEW n \in Node, nodePeriodicUpdate(n) PROVE Abstract!Next
  <2>1. Sender = None /\ UNCHANGED <<Sender, handed>>
    BY <1>6 DEF nodePeriodicUpdate, loopVars, Sender
  <2>2. n \in Node \ Active /\ Active' = Active \cup {n}
    BY <1>0, <1>6 DEF nodePeriodicUpdate, Active, TypeOK
  <2> QED
    BY <2>1, <2>2 DEF Abstract!Next, Abstract!Activate
<1>7. CASE HandDirect
  BY <1>3, <1>7 DEF HandDirect, worldVars
<1>8. CASE HandRelayed
  BY <1>3, <1>5, <1>8 DEF HandRelayed, worldVars
<1>9. CASE EndDirect
  BY <1>4, <1>9 DEF EndDirect, worldVars
<1>10. CASE EndRound
  BY <1>4, <1>10 DEF EndRound, RoundOver, worldVars
<1>11. CASE Relay \/ nodeMovementUpdate \/ PassTime \/ UNCHANGED vars
  BY <1>5, <1>11 DEF Relay, nodeMovementUpdate, PassTime, vars, worldVars, loopVars
<1> QED
  BY <1>2, <1>6, <1>7, <1>8, <1>9, <1>10, <1>11 DEF Next, Flooding

\* The flood of an IGROUP message is a broadcast on any network: a node gets
\* it at most once from every other node, the leader never, and one message is
\* in flight at a time.
THEOREM BroadcastSafety == Spec => Abstract!Init /\ [][Abstract!Next]_(Abstract!vars)
<1>1. Init => Abstract!Init
  BY DEF Init, Abstract!Init, Sender, Active
<1> QED
  BY <1>1, CopiesAlways, StepsAreBroadcast, PTL DEF Spec

-----------------------------------------------------------------------------
(* Everybody is reached.                                                   *)

\* The relays of this round that have not had their turn.
ToRelay ==
    IF direct THEN {} ELSE {tempIGRxTxnodelist[k] : k \in i..Len(tempIGRxTxnodelist)}

Pending == ElementsOf(todo) \cup ElementsOf(IGReTxnodesList) \cup ToRelay

\* Who is in range of one who has sent the message has sent it too, or its turn
\* will come.
NoneIsLost ==
    message # None /\ ~forgot =>
        \A s \in Senders : \A m \in Active :
            InRange(loc, s, m) => m \in Senders \cup Pending

ReachInv == RecordInv /\ NoneIsLost

\* The lists of a round are begun anew.
LEMMA RoundTurnsOver ==
    ASSUME TypeOK, Round(IGReTxnodesList), message' # None
    PROVE  /\ message' = message
           /\ IGReTxnodesList # <<>>
           /\ IGReTxnodesList' = <<>>
           /\ tempIGRxTxnodelist' = IGReTxnodesList
           /\ i' = 1
           /\ ~processed'
           /\ UNCHANGED handed
  BY DEF Round

\* A relay whose records the sweep has not emptied has a record afterwards.
LEMMA RelayRemembers ==
    ASSUME RecordInv, Relay, ~forgot'
    PROVE  ~forgot /\ Has(RxIG', tempIGRxTxnodelist[i])
<1> DEFINE n == tempIGRxTxnodelist[i]
<1>0. n \in Node /\ message # None
  BY RelayRecords DEF Relay
<1>1. PICK kept \in Remembered(RxIG[n], now, LEADER_LAST_TIME) :
        /\ isReTx' = Repeated(RxIG[n], kept, message.leaderId,
                              message.sequenceNumber, isReTx)
        /\ forgot' = (forgot \/ (RxIG[n] # <<>> /\ kept = <<>>))
        /\ IF isReTx'
           THEN /\ RxIG' = [RxIG EXCEPT ![n] = kept]
                /\ UNCHANGED todo
           ELSE /\ Remember(n, kept)
                /\ todo' \in Receivers(loc, n, Active \ {message.leaderId})
  BY Zenon DEF Relay
<1>2. ~isReTx' => Has(RxIG', n)
  BY RelayRecords DEF n
<1> HIDE DEF n
<1>3. ~forgot /\ ~(RxIG[n] # <<>> /\ kept = <<>>)
  BY <1>1
<1>4. ASSUME isReTx' PROVE Has(RxIG', n)
  <2>1. /\ RxIG[n] # <<>> /\ kept # <<>>
        /\ kept[Len(kept)].number = message.sequenceNumber
    BY <1>1, <1>3, <1>4 DEF Repeated
  <2>2. kept \in Seq(RecordSet)
    BY <1>0, SweepKeepsSent
  <2>3. Len(kept) \in 1..Len(kept)
    BY <2>1, <2>2, EmptySeq, LenProperties
  <2>4. kept[Len(kept)] \in Sent
    BY <2>1, <2>2, <2>3, ElementOfSeq DEF Sent
  <2>5. RxIG'[n] = kept
    BY <1>0, <1>1, <1>4, RecordTypes DEF RecordInv
  <2> QED
    BY <2>3, <2>4, <2>5 DEF Has
<1> QED
  BY <1>2, <1>3, <1>4 DEF n

\* The turns that are left after one.
LEMMA NextTurn ==
    ASSUME TypeOK, ~direct, i \in 1..Len(tempIGRxTxnodelist), i' = i + 1,
           UNCHANGED <<direct, tempIGRxTxnodelist>>
    PROVE  ToRelay = {tempIGRxTxnodelist[i]} \cup ToRelay'
<1>1. Len(tempIGRxTxnodelist) \in Nat
  BY LenProperties DEF TypeOK
<1>2. i..Len(tempIGRxTxnodelist) = {i} \cup (i+1..Len(tempIGRxTxnodelist))
  BY <1>1
<1> QED
  BY <1>2 DEF ToRelay

\* The first receiver moves from one list to the other.
LEMMA HandKeepsPending ==
    ASSUME TypeOK, todo # <<>>, todo' = Tail(todo),
           IGReTxnodesList' = Append(IGReTxnodesList, Head(todo)),
           UNCHANGED <<direct, i, tempIGRxTxnodelist>>
    PROVE  Pending' = Pending
<1>1. /\ todo \in Seq(Node) /\ IGReTxnodesList \in Seq(Node) /\ Head(todo) \in Node
  BY HeadTailProperties DEF TypeOK
<1>2. /\ ElementsOf(todo) = {Head(todo)} \cup ElementsOf(todo')
      /\ ElementsOf(IGReTxnodesList') = ElementsOf(IGReTxnodesList) \cup {Head(todo)}
  BY <1>1, ElementsOfLists
<1>3. ToRelay' = ToRelay
  BY DEF ToRelay
<1>4. Pending' = ElementsOf(todo') \cup ElementsOf(IGReTxnodesList') \cup ToRelay'
  BY DEF Pending, ElementsOf
<1> QED
  BY <1>2, <1>3, <1>4 DEF Pending

LEMMA ReachPreserved == ReachInv /\ [Next]_vars => ReachInv'
<1> SUFFICES ASSUME ReachInv, [Next]_vars PROVE ReachInv'
  OBVIOUS
<1>0. RecordInv /\ TypeOK /\ NoneIsLost /\ RecordInv' /\ TypeOK'
  BY RecordsPreserved DEF ReachInv, RecordInv
<1> SUFFICES NoneIsLost'
  BY <1>0 DEF ReachInv
<1>1. CASE message' = None \/ forgot'
  BY <1>1 DEF NoneIsLost
<1>2. ASSUME message # None, ~forgot, UNCHANGED <<message, loc, isActive>>,
             Senders' = Senders, Pending' = Pending
      PROVE  NoneIsLost'
  <2>1. Active' = Active
    BY <1>2 DEF Active
  <2> QED
    BY <1>0, <1>2, <2>1 DEF NoneIsLost
<1>3. ASSUME UNCHANGED <<message, RxIG>> PROVE Senders' = Senders
  BY <1>3 DEF Senders, HasRelayed, Has, Sent
<1>4. ASSUME NEW n \in Sources, evIGROUP(n), ~forgot' PROVE NoneIsLost'
  <2>1. n \in Node /\ message' # None /\ message'.leaderId = n /\ Active' = Active
        /\ todo' \in Receivers(loc, n, Active) /\ loc' = loc
    <3>1. n \in Node
      BY NodeAssumption
    <3>2. message' \in Message
      BY <1>0, <1>4, <3>1 DEF evIGROUP, TypeOK, Message
    <3> QED
      BY <1>4, <3>1, <3>2, NodeAssumption DEF evIGROUP, Active
  <2>2. Senders' = {n}
    <3>1. direct'
      BY <1>4 DEF evIGROUP
    <3>2. \A m \in Node : ~HasRelayed(m)'
      BY <1>0, <2>1, <3>1 DEF RecordInv, SentIsLast
    <3> QED
      BY <2>1, <3>2 DEF Senders
  <2>3. ElementsOf(todo') = {m \in Active : InRange(loc, n, m)}
    BY ActiveNodes, <2>1, ReceiversAreAll
  <2>4. ElementsOf(todo)' = ElementsOf(todo')
    BY DEF ElementsOf
  <2> QED
    BY <2>1, <2>2, <2>3, <2>4 DEF NoneIsLost, Pending
<1>5. CASE (HandDirect \/ HandRelayed) /\ ~forgot'
  <2>1. /\ todo # <<>> /\ todo' = Tail(todo)
        /\ IGReTxnodesList' = Append(IGReTxnodesList, Head(todo))
        /\ UNCHANGED <<direct, i, tempIGRxTxnodelist, message, RxIG, loc, isActive, forgot>>
        /\ message # None
    BY <1>5 DEF HandDirect, HandRelayed, worldVars
  <2> QED
    BY <1>0, <1>2, <1>3, <1>5, <2>1, HandKeepsPending
<1>6. ASSUME message' # None, ~forgot', Round(IGReTxnodesList), ~direct',
             todo = <<>>, ToRelay = {}, message # None, Senders' = Senders,
             UNCHANGED <<todo, loc, isActive, forgot>>
      PROVE  NoneIsLost'
  <2>1. /\ message' = message /\ IGReTxnodesList' = <<>>
        /\ tempIGRxTxnodelist' = IGReTxnodesList /\ i' = 1
    BY <1>0, <1>6, RoundTurnsOver
  <2>2. Pending = ElementsOf(IGReTxnodesList)
    BY <1>6, NoElements DEF Pending
  <2>3. ToRelay' = ElementsOf(IGReTxnodesList)
    BY <1>6, <2>1 DEF ToRelay, ElementsOf
  <2>4. ElementsOf(todo)' = {} /\ ElementsOf(IGReTxnodesList)' = {}
    BY <1>6, <2>1, NoElements
  <2>5. Pending' = Pending
    BY <2>2, <2>3, <2>4 DEF Pending
  <2> QED
    BY <1>2, <1>6, <2>1, <2>5
<1>7. CASE EndDirect /\ message' # None /\ ~forgot'
  <2>1. /\ message # None /\ direct /\ ~direct' /\ todo = <<>>
        /\ Round(IGReTxnodesList) /\ UNCHANGED <<todo, loc, isActive, forgot>>
    BY <1>7 DEF EndDirect, worldVars
  <2>2. Senders' = Senders
    <3>1. message' = message
      BY <1>0, <1>7, <2>1, RoundTurnsOver
    <3>2. /\ message.leaderId \in Node
          /\ \A m \in Node \ {message.leaderId} : Has(RxIG', m) <=> HasRelayed(m)
      BY <1>0, <1>7, DirectRecords DEF HasRelayed, Has
    <3>3. Senders' = {message.leaderId} \cup {m \in Node : Has(RxIG', m)}
      BY <3>1 DEF Senders, HasRelayed, Has, Sent
    <3> QED
      BY <3>2, <3>3 DEF Senders
  <2>3. ToRelay = {}
    BY <2>1 DEF ToRelay
  <2> QED
    BY <1>6, <1>7, <2>1, <2>2, <2>3
<1>8. CASE EndRound /\ message' # None /\ ~forgot'
  <2>1. /\ message # None /\ ~direct /\ ~direct' /\ todo = <<>>
        /\ i > Len(tempIGRxTxnodelist) /\ RxIG' = RxIG
        /\ Round(IGReTxnodesList) /\ UNCHANGED <<todo, loc, isActive, forgot>>
    BY <1>8 DEF EndRound, RoundOver, worldVars
  <2>2. ToRelay = {}
    <3>1. i..Len(tempIGRxTxnodelist) = {}
      BY <1>0, <2>1, LenProperties DEF TypeOK
    <3> QED
      BY <3>1 DEF ToRelay
  <2>3. Senders' = Senders
    BY <1>0, <1>3, <1>8, <2>1, RoundTurnsOver
  <2> QED
    BY <1>6, <1>8, <2>1, <2>2, <2>3
<1>9. CASE Relay /\ ~forgot'
  <2> DEFINE n == tempIGRxTxnodelist[i]
  <2>1. /\ message # None /\ message' = message /\ ~direct /\ todo = <<>>
        /\ i' = i + 1 /\ i \in 1..Len(tempIGRxTxnodelist)
        /\ UNCHANGED <<direct, tempIGRxTxnodelist, IGReTxnodesList, loc, isActive>>
    BY <1>0, <1>9, LenProperties DEF Relay, worldVars, TypeOK
  <2>2. /\ n \in Node
        /\ \A m \in Node \ {n} : RxIG'[m] = RxIG[m]
        /\ Has(RxIG', n) <=> HasRelayed(n) \/ ~isReTx'
        /\ IF isReTx'
           THEN UNCHANGED todo
           ELSE todo' \in Receivers(loc, n, Active \ {message.leaderId})
    BY <1>0, <1>9, RelayRecords
  <2>3. ~forgot /\ Has(RxIG', n)
    BY <1>0, <1>9, RelayRemembers
  <2>4. ToRelay = {n} \cup ToRelay'
    BY <1>0, <2>1, NextTurn
  <2> HIDE DEF n
  <2>5. Senders' = Senders \cup {n}
    <3>1. Senders' = {message.leaderId} \cup {m \in Node : Has(RxIG', m)}
      BY <2>1 DEF Senders, HasRelayed, Has, Sent
    <3>2. \A m \in Node \ {n} : Has(RxIG', m) <=> HasRelayed(m)
      BY <2>2 DEF HasRelayed, Has
    <3> QED
      BY <2>2, <2>3, <3>1, <3>2 DEF Senders
  <2>6. Pending = ElementsOf(IGReTxnodesList) \cup {n} \cup ToRelay'
    BY <2>1, <2>4, NoElements DEF Pending
  <2>7. Pending' = ElementsOf(todo') \cup ElementsOf(IGReTxnodesList) \cup ToRelay'
    BY <2>1 DEF Pending, ElementsOf
  <2>8. message.leaderId \in Senders /\ Active' = Active
    BY <2>1 DEF Senders, Active
  <2>9. \A s \in Senders : \A m \in Active :
          InRange(loc, s, m) => m \in Senders \cup Pending
    BY <1>0, <2>1, <2>3 DEF NoneIsLost
  <2>10. \A m \in Active : InRange(loc, n, m) => m \in Senders' \cup Pending'
    <3>1. CASE isReTx'
      <4>1. n \in Senders
        BY <2>2, <2>3, <3>1 DEF Senders
      <4> QED
        BY <2>5, <2>6, <2>7, <2>9, <4>1
    <3>2. CASE ~isReTx'
      <4>1. Active \ {message.leaderId} \in SUBSET Node
        BY ActiveNodes
      <4>2. ElementsOf(todo') = {m \in Active \ {message.leaderId} : InRange(loc, n, m)}
        BY <2>2, <3>2, <4>1, ReceiversAreAll
      <4> QED
        BY <2>5, <2>7, <2>8, <4>2
    <3> QED
      BY <3>1, <3>2
  <2>11. \A s \in Senders' : \A m \in Active : InRange(loc, s, m) => m \in Senders' \cup Pending'
    BY <2>5, <2>6, <2>7, <2>9, <2>10
  <2> QED
    BY <2>1, <2>8, <2>11 DEF NoneIsLost
<1>10. CASE (\E n \in Node : nodePeriodicUpdate(n)) \/ nodeMovementUpdate \/ PassTime
  BY <1>1, <1>10 DEF nodePeriodicUpdate, nodeMovementUpdate, PassTime, loopVars
<1>11. CASE UNCHANGED vars /\ message' # None /\ ~forgot'
  <2>1. UNCHANGED <<message, loc, isActive, RxIG, forgot, todo, IGReTxnodesList,
                    direct, i, tempIGRxTxnodelist>>
    BY <1>11 DEF vars, worldVars, loopVars
  <2>2. Pending' = Pending
    BY <2>1 DEF Pending, ElementsOf, ToRelay
  <2> QED
    BY <1>2, <1>3, <1>11, <2>1, <2>2
<1> QED
  BY <1>1, <1>4, <1>5, <1>7, <1>8, <1>9, <1>10, <1>11 DEF Next, Flooding

\* The recursion equation of `reach', and what it stays within.
LEMMA ConnectedWithin ==
    ASSUME NEW n \in Node, NEW C \in SUBSET Node, n \in C,
           \A s \in C : \A m \in Active : InRange(loc, s, m) => m \in C
    PROVE  Connected(n) \subseteq C
<1> DEFINE reach == CHOOSE f : f = [k \in Nat |->
                      IF k = 0 THEN {n}
                      ELSE f[k-1] \cup {m \in Active : \E s \in f[k-1] : InRange(loc, s, m)}]
<1>1. PICK S : S = SUBSET Node
  OBVIOUS
<1>2. PICK start \in S : start = {n}
  BY <1>1
<1>3. PICK step \in [S -> S] :
        \A X \in S : step[X] = X \cup {m \in Active : \E s \in X : InRange(loc, s, m)}
  <2> DEFINE step == [X \in S |-> X \cup {m \in Active : \E s \in X : InRange(loc, s, m)}]
  <2>1. step \in [S -> S]
    BY <1>1, ActiveNodes
  <2>2. \A X \in S : step[X] = X \cup {m \in Active : \E s \in X : InRange(loc, s, m)}
    OBVIOUS
  <2> QED
    BY <2>1, <2>2
<1> DEFINE f == Iterates(S, start, step)
<1>4. f \in [Nat -> S] /\ f[0] = start /\ \A k \in Nat : f[k+1] = step[f[k]]
  BY IteratesExist
<1> HIDE DEF f
<1>5. f = [k \in Nat |->
             IF k = 0 THEN {n}
             ELSE f[k-1] \cup {m \in Active : \E s \in f[k-1] : InRange(loc, s, m)}]
  <2>1. ASSUME NEW k \in Nat \ {0}
        PROVE  f[k] = f[k-1] \cup {m \in Active : \E s \in f[k-1] : InRange(loc, s, m)}
    <3>1. k - 1 \in Nat /\ k - 1 + 1 = k
      OBVIOUS
    <3>2. f[k] = step[f[k-1]] /\ f[k-1] \in S
      BY <1>4, <3>1
    <3> QED
      BY <1>3, <3>2
  <2> QED
    BY <1>2, <1>4, <2>1
<1>6. reach = [k \in Nat |->
                 IF k = 0 THEN {n}
                 ELSE reach[k-1] \cup {m \in Active : \E s \in reach[k-1] : InRange(loc, s, m)}]
  BY <1>5
<1>7. Connected(n) = reach[Cardinality(Node)]
  BY DEF Connected
<1> HIDE DEF reach
<1>8. /\ reach[0] = {n}
      /\ \A k \in Nat : reach[k+1] = reach[k] \cup
                          {m \in Active : \E s \in reach[k] : InRange(loc, s, m)}
  BY <1>6
<1>9. reach \in [Nat -> SUBSET Node]
  <2> DEFINE P == {k \in Nat : reach[k] \subseteq Node}
  <2>1. 0 \in P /\ \A k \in Nat : k \in P => k + 1 \in P
    BY <1>8, ActiveNodes
  <2>2. Nat \subseteq P
    <3> HIDE DEF P
    <3> QED
      BY <2>1, InductionOnNat
  <2> QED
    BY <1>6, <2>2
<1>10. \A k \in Nat : reach[k] \subseteq C
  <2>1. reach[0] \subseteq C /\ \A k \in Nat : reach[k] \subseteq C => reach[k+1] \subseteq C
    BY <1>8
  <2> QED
    BY <1>9, <2>1, GrowthStaysWithin
<1> QED
  BY <1>7, <1>10, NodeAssumption, FS_CardinalityType

LEMMA ReachAlways == Init /\ [][Next]_vars => []ReachInv
<1>1. Init => ReachInv
  BY InitRecords DEF Init, ReachInv, NoneIsLost
<1> QED
  BY <1>1, ReachPreserved, PTL

\* When nobody is left to relay, whoever is connected has sent the message.
LEMMA ConnectedHaveSent ==
    ASSUME ReachInv, Ending, ~forgot
    PROVE  /\ message.leaderId \in Node
           /\ \A n \in Connected(message.leaderId) : n \in Node /\ HasRelayed(n)
<1>1. /\ message # None /\ ~direct /\ todo = <<>> /\ IGReTxnodesList = <<>>
      /\ i > Len(tempIGRxTxnodelist) /\ TypeOK /\ RecordInv
  BY DEF Ending, RoundOver, ReachInv, RecordInv
<1>2. message.leaderId \in Node
  BY <1>1 DEF TypeOK, Message
<1>3. Pending = {}
  <2>1. i..Len(tempIGRxTxnodelist) = {}
    BY <1>1, LenProperties DEF TypeOK
  <2>2. ToRelay = {}
    BY <2>1 DEF ToRelay
  <2> QED
    BY <1>1, <2>2, NoElements DEF Pending
<1>4. Senders = {n \in Node : HasRelayed(n)}
  BY <1>1, <1>2 DEF RecordInv, SentIsLast, Senders
<1>5. /\ Senders \in SUBSET Node /\ message.leaderId \in Senders
      /\ \A s \in Senders : \A m \in Active : InRange(loc, s, m) => m \in Senders
  BY <1>1, <1>2, <1>3, <1>4 DEF ReachInv, NoneIsLost, Senders
<1>6. Connected(message.leaderId) \subseteq Senders
  BY <1>2, <1>5, ConnectedWithin
<1> QED
  BY <1>2, <1>4, <1>6

LEMMA EndOfRelays == ReachInv => EverybodyRelays
<1> SUFFICES ASSUME ReachInv, Ending, ~forgot, NEW n \in Connected(message.leaderId)
             PROVE  Relays(n) = 1
  BY DEF EverybodyRelays
<1> DEFINE matching == {k \in DOMAIN RxIG[n] :
                          /\ RxIG[n][k].from = message.leaderId
                          /\ RxIG[n][k].number = message.sequenceNumber}
<1>1. message # None /\ n \in Node /\ HasRelayed(n) /\ RecordInv /\ TypeOK
  BY ConnectedHaveSent DEF Ending, RoundOver, ReachInv, RecordInv
<1>2. DOMAIN RxIG[n] = 1..Len(RxIG[n])
  BY <1>1, RecordTypes, LenProperties
<1>3. PICK k \in 1..Len(RxIG[n]) : RxIG[n][k] \in Sent
  BY <1>1 DEF HasRelayed, Has
<1>4. k \in matching
  BY <1>1, <1>2, <1>3 DEF RecordInv, SentIsLast, LastOnly, SentNow, Sent
<1>5. \A j \in matching : j = k
  BY <1>1, <1>2, <1>3, RecordTypes DEF RecordInv, SentIsLast, LastOnly, OnlyLast, Sent
<1>6. matching = {k}
  BY <1>4, <1>5
<1> HIDE DEF matching
<1>7. Cardinality(matching) = 1
  BY <1>6, FS_Singleton
<1> QED
  BY <1>7 DEF Relays, matching

\* On any network a flood ends only when every node connected to the leader
\* has relayed the message, and once, unless a relay whose records were swept
\* away took over another's isReTx.
THEOREM EverybodyRelaysHolds == Spec => []EverybodyRelays
  BY EndOfRelays, ReachAlways, PTL DEF Spec

-----------------------------------------------------------------------------
(* In a network without odd cycles everybody is handed the message.        *)

\* Those who relay in this round, those it has found, and all who have relayed.
Relaying == IF direct THEN {message.leaderId} ELSE ElementsOf(tempIGRxTxnodelist)

Found == ElementsOf(todo) \cup ElementsOf(IGReTxnodesList)

Relayed == {n \in Node : HasRelayed(n)}

\* A splits the active nodes, and X and Y are on different sides of it.
Splits(A) ==
    \A s, m \in Active : InRange(loc, s, m) => InRange(loc, m, s) /\ (s \in A <=> m \notin A)

Apart(A, X, Y) == \/ X \subseteq A /\ Y \cap A = {}
                  \/ Y \subseteq A /\ X \cap A = {}

\* A round finds only nodes of the other side, so none of its own relays, so
\* `processed' is never set and who has been found is handed the message.
SideInv(A) ==
    /\ Apart(A, Relaying, Found)
    /\ direct \/ ~processed
    /\ \A m \in ElementsOf(IGReTxnodesList) \cup Relaying \cup Relayed :
         m # message.leaderId => handed[m] > 0

ChainInv ==
    /\ RecordInv
    /\ message # None =>
         /\ Relaying \cup Found \subseteq Active
         /\ \A A \in SUBSET Active : Splits(A) => SideInv(A)

\* What a relay finds is on the other side.
LEMMA RelayFindsOtherSide ==
    ASSUME NEW A \in SUBSET Active, Splits(A), NEW X \in SUBSET Active, NEW n \in X,
           NEW Y, Apart(A, X, Y), NEW Z, Z \subseteq {m \in Active : InRange(loc, n, m)}
    PROVE  Apart(A, X, Z \cup Y)
  BY DEF Splits, Apart

\* The first receiver is handed the message and found.
LEMMA HandKeepsSides ==
    ASSUME ChainInv, HandDirect \/ HandRelayed
    PROVE  /\ message # None /\ UNCHANGED <<message, Relaying, Found, Relayed, Active, loc>>
           /\ \A A \in SUBSET Active : Splits(A) => SideInv(A)'
<1> DEFINE h == Head(todo)
<1>1. /\ message # None /\ todo # <<>> /\ todo' = Tail(todo)
      /\ IGReTxnodesList' = Append(IGReTxnodesList, h)
      /\ UNCHANGED <<direct, tempIGRxTxnodelist, message, RxIG, loc, isActive>>
  BY DEF HandDirect, HandRelayed, worldVars
<1>2. /\ todo \in Seq(Node) /\ IGReTxnodesList \in Seq(Node) /\ h \in Node
      /\ handed \in [Node -> Nat]
  BY <1>1, HeadTailProperties DEF ChainInv, RecordInv, TypeOK
<1> HIDE DEF h
<1>3. /\ ElementsOf(todo) = {h} \cup ElementsOf(todo')
      /\ ElementsOf(IGReTxnodesList') = ElementsOf(IGReTxnodesList) \cup {h}
  BY <1>1, <1>2, ElementsOfLists DEF h
<1>4. /\ ElementsOf(todo)' = ElementsOf(todo')
      /\ ElementsOf(IGReTxnodesList)' = ElementsOf(IGReTxnodesList')
  BY DEF ElementsOf
<1>5. UNCHANGED <<Relaying, Found, Relayed, Active>>
  <2>1. Found' = Found
    BY <1>3, <1>4 DEF Found
  <2>2. Relayed' = Relayed /\ Active' = Active
    BY <1>1 DEF Relayed, HasRelayed, Has, Sent, Active
  <2>3. Relaying' = Relaying
    BY <1>1 DEF Relaying, ElementsOf
  <2> QED
    BY <2>1, <2>2, <2>3
<1>6. ASSUME NEW A \in SUBSET Active, Splits(A) PROVE SideInv(A)'
  <2>1. SideInv(A)
    BY <1>1, <1>6 DEF ChainInv
  <2>2. Apart(A, Relaying, Found)'
    BY <1>5, <2>1 DEF SideInv, Apart
  <2>3. (direct \/ ~processed)' /\ Hand(h)
    <3>1. CASE HandDirect
      BY <1>1, <3>1 DEF HandDirect, h
    <3>2. CASE HandRelayed
      <4>1. ~direct /\ ~processed
        BY <2>1, <3>2 DEF HandRelayed, SideInv
      <4>2. h \in Found /\ h \notin Relaying
        BY <1>3, <2>1 DEF Found, SideInv, Apart
      <4>3. DOMAIN tempIGRxTxnodelist = 1..Len(tempIGRxTxnodelist)
        BY LenProperties DEF ChainInv, RecordInv, TypeOK
      <4>4. ~\E j \in DOMAIN tempIGRxTxnodelist : tempIGRxTxnodelist[j] = h
        BY <4>1, <4>2, <4>3 DEF Relaying, ElementsOf
      <4> QED
        BY <3>2, <4>1, <4>4 DEF HandRelayed, h
    <3> QED
      BY <3>1, <3>2
  <2>4. ASSUME NEW m \in ElementsOf(IGReTxnodesList)' \cup Relaying' \cup Relayed',
               m # message'.leaderId
        PROVE  handed'[m] > 0
    <3>1. m \in Node
      BY <1>1, <1>2, <1>3, <1>4, <1>5, ElementsOfLists, ActiveNodes DEF ChainInv, Relayed
    <3>2. m = h \/ handed[m] > 0
      BY <1>1, <1>3, <1>4, <1>5, <2>1, <2>4 DEF SideInv
    <3>3. handed'[m] = IF m = h THEN handed[h] + 1 ELSE handed[m]
      BY <1>2, <2>3, <3>1 DEF Hand
    <3> QED
      BY <1>2, <3>2, <3>3
  <2> QED
    BY <2>2, <2>3, <2>4 DEF SideInv
<1> QED
  BY <1>1, <1>5, <1>6

\* Those who were found are the relays of the next round.
LEMMA RoundKeepsSides ==
    ASSUME ChainInv, message # None, message' # None, Round(IGReTxnodesList),
           todo = <<>>, ~direct', UNCHANGED <<todo, loc, isActive>>,
           Relayed' \subseteq Relayed \cup {message.leaderId}
    PROVE  /\ message' = message /\ Active' = Active
           /\ Relaying' = ElementsOf(IGReTxnodesList) /\ Found' = {}
           /\ \A A \in SUBSET Active : Splits(A) => SideInv(A)'
<1>1. /\ message' = message /\ IGReTxnodesList' = <<>>
      /\ tempIGRxTxnodelist' = IGReTxnodesList
      /\ ~processed' /\ handed' = handed
  BY RoundTurnsOver DEF ChainInv, RecordInv
<1>2. /\ Relaying' = ElementsOf(IGReTxnodesList) /\ Found' = {}
      /\ ElementsOf(IGReTxnodesList)' = {} /\ Active' = Active
  BY <1>1, NoElements DEF Relaying, Found, ElementsOf, Active
<1>3. ASSUME NEW A \in SUBSET Active, Splits(A) PROVE SideInv(A)'
  <2>1. SideInv(A)
    BY <1>3 DEF ChainInv
  <2>2. Apart(A, Relaying, Found)'
    BY <1>2, <2>1 DEF SideInv, Apart, Found
  <2> QED
    BY <1>1, <1>2, <2>1, <2>2 DEF SideInv
<1> QED
  BY <1>1, <1>2, <1>3

\* A relay finds only nodes of the other side, and has been handed the message.
LEMMA RelayKeepsSides ==
    ASSUME ChainInv, Relay
    PROVE  /\ message # None /\ UNCHANGED <<message, Relaying, Active, loc>>
           /\ Found' \subseteq Active
           /\ \A A \in SUBSET Active : Splits(A) => SideInv(A)'
<1> DEFINE n == tempIGRxTxnodelist[i]
<1>0. RecordInv /\ TypeOK
  BY DEF ChainInv, RecordInv
<1>1. /\ message # None /\ message' = message /\ ~direct /\ todo = <<>>
      /\ i \in 1..Len(tempIGRxTxnodelist)
      /\ UNCHANGED <<direct, tempIGRxTxnodelist, IGReTxnodesList, loc, isActive,
                     processed, handed>>
  BY <1>0, LenProperties DEF Relay, worldVars, TypeOK
<1>2. /\ n \in Node
      /\ \A m \in Node \ {n} : RxIG'[m] = RxIG[m]
      /\ IF isReTx'
         THEN UNCHANGED todo
         ELSE todo' \in Receivers(loc, n, Active \ {message.leaderId})
  BY <1>0, RelayRecords
<1>3. n \in Relaying
  BY <1>1 DEF Relaying, ElementsOf
<1> HIDE DEF n
<1>4. ElementsOf(todo') \subseteq {m \in Active : InRange(loc, n, m)}
  <2>1. CASE isReTx'
    BY <1>1, <1>2, <2>1, NoElements
  <2>2. CASE ~isReTx'
    <3>1. Active \ {message.leaderId} \in SUBSET Node
      BY ActiveNodes
    <3> QED
      BY <1>2, <2>2, <3>1, ReceiversAreAll
  <2> QED
    BY <2>1, <2>2
<1>5. /\ Relaying' = Relaying /\ Active' = Active
      /\ Found = ElementsOf(IGReTxnodesList)
      /\ Found' = ElementsOf(todo') \cup ElementsOf(IGReTxnodesList)
      /\ ElementsOf(IGReTxnodesList)' = ElementsOf(IGReTxnodesList)
  BY <1>1, NoElements DEF Relaying, Active, Found, ElementsOf
<1>6. Relayed' \subseteq Relayed \cup {n}
  BY <1>1, <1>2 DEF Relayed, HasRelayed, Has, Sent
<1>7. Relaying \subseteq Active /\ Found \subseteq Active
  BY <1>1 DEF ChainInv
<1>8. ASSUME NEW A \in SUBSET Active, Splits(A) PROVE SideInv(A)'
  <2>1. SideInv(A)
    BY <1>1, <1>8 DEF ChainInv
  <2>2. Apart(A, Relaying, ElementsOf(todo') \cup Found)
    <3>1. Apart(A, Relaying, Found)
      BY <2>1 DEF SideInv
    <3> QED
      BY <1>3, <1>4, <1>7, <1>8, <3>1, RelayFindsOtherSide
  <2>3. Apart(A, Relaying, Found)'
    BY <1>5, <2>2 DEF Apart
  <2> QED
    BY <1>1, <1>3, <1>5, <1>6, <2>1, <2>3 DEF SideInv
<1> QED
  BY <1>1, <1>4, <1>5, <1>7, <1>8

LEMMA ChainPreserved == ChainInv /\ [Next]_vars => ChainInv'
<1> SUFFICES ASSUME ChainInv, [Next]_vars, message' # None
             PROVE  /\ Relaying' \cup Found' \subseteq Active'
                    /\ \A A \in SUBSET Active' : Splits(A)' => SideInv(A)'
  BY RecordsPreserved DEF ChainInv
<1>0. RecordInv /\ TypeOK /\ RecordInv'
  BY RecordsPreserved DEF ChainInv, RecordInv
<1>1. ASSUME UNCHANGED <<loc, Active>>, NEW A PROVE Splits(A)' = Splits(A)
  BY <1>1 DEF Splits
<1>2. ASSUME NEW n \in Sources, evIGROUP(n)
      PROVE  /\ Relaying' \cup Found' \subseteq Active'
             /\ \A A \in SUBSET Active' : Splits(A)' => SideInv(A)'
  <2>1. /\ n \in Node /\ n \in Active /\ message'.leaderId = n /\ Active' = Active
        /\ todo' \in Receivers(loc, n, Active) /\ loc' = loc /\ direct'
        /\ IGReTxnodesList' = <<>>
    <3>1. n \in Node
      BY NodeAssumption
    <3>2. message' \in Message
      BY <1>0, <1>2, <3>1 DEF evIGROUP, TypeOK, Message
    <3> QED
      BY <1>2, <3>1, <3>2, NodeAssumption DEF evIGROUP, Active
  <2>2. Relayed' = {}
    BY <1>0, <2>1 DEF RecordInv, SentIsLast, Relayed
  <2>3. ElementsOf(todo') = {m \in Active : InRange(loc, n, m)}
    BY ActiveNodes, <2>1, ReceiversAreAll
  <2>4. /\ Relaying' = {n} /\ Found' = ElementsOf(todo')
        /\ ElementsOf(IGReTxnodesList)' = {}
    BY <2>1, NoElements DEF Relaying, Found, ElementsOf
  <2>5. ASSUME NEW A \in SUBSET Active, Splits(A) PROVE SideInv(A)'
    <3>1. Apart(A, {n}, ElementsOf(todo') \cup {})
      <4>1. Apart(A, {n}, {}) /\ {n} \in SUBSET Active /\ n \in {n}
        BY <2>1 DEF Apart
      <4> QED
        BY <2>3, <2>5, <4>1, RelayFindsOtherSide
    <3>2. Apart(A, Relaying, Found)'
      BY <2>4, <3>1 DEF Apart
    <3> QED
      BY <2>1, <2>2, <2>4, <3>2 DEF SideInv
  <2> QED
    BY <1>1, <2>1, <2>3, <2>4, <2>5
<1>3. CASE HandDirect \/ HandRelayed
  <2>1. /\ message # None /\ UNCHANGED <<Relaying, Found, Active, loc>>
        /\ \A A \in SUBSET Active : Splits(A) => SideInv(A)'
    BY <1>3, HandKeepsSides
  <2> QED
    BY <1>1, <2>1 DEF ChainInv
<1>4. ASSUME message # None, Round(IGReTxnodesList), todo = <<>>, ~direct',
             UNCHANGED <<todo, loc, isActive>>,
             Relayed' \subseteq Relayed \cup {message.leaderId}
      PROVE  /\ Relaying' \cup Found' \subseteq Active'
             /\ \A A \in SUBSET Active' : Splits(A)' => SideInv(A)'
  <2>1. /\ Active' = Active
        /\ Relaying' = ElementsOf(IGReTxnodesList) /\ Found' = {}
        /\ \A A \in SUBSET Active : Splits(A) => SideInv(A)'
    BY <1>4, RoundKeepsSides
  <2>2. ElementsOf(IGReTxnodesList) \subseteq Active
    BY <1>4 DEF ChainInv, Found
  <2> QED
    BY <1>1, <1>4, <2>1, <2>2
<1>5. CASE EndDirect
  <2>1. /\ message # None /\ ~direct' /\ todo = <<>>
        /\ Round(IGReTxnodesList) /\ UNCHANGED <<todo, loc, isActive>>
    BY <1>5 DEF EndDirect, worldVars
  <2>2. Relayed' \subseteq Relayed \cup {message.leaderId}
    <3>1. message' = message
      BY <1>0, <2>1, RoundTurnsOver
    <3>2. \A m \in Node \ {message.leaderId} : RxIG'[m] = RxIG[m]
      BY <1>0, <1>5, DirectRecords
    <3> QED
      BY <3>1, <3>2 DEF Relayed, HasRelayed, Has, Sent
  <2> QED
    BY <1>4, <2>1, <2>2
<1>6. CASE EndRound
  <2>1. /\ message # None /\ ~direct' /\ todo = <<>> /\ RxIG' = RxIG
        /\ Round(IGReTxnodesList) /\ UNCHANGED <<todo, loc, isActive>>
    BY <1>6 DEF EndRound, RoundOver, worldVars
  <2>2. message' = message
    BY <1>0, <2>1, RoundTurnsOver
  <2>3. Relayed' \subseteq Relayed \cup {message.leaderId}
    BY <2>1, <2>2 DEF Relayed, HasRelayed, Has, Sent
  <2> QED
    BY <1>4, <2>1, <2>3
<1>7. CASE Relay
  <2>1. /\ message # None /\ UNCHANGED <<Relaying, Active, loc>> /\ Found' \subseteq Active
        /\ \A A \in SUBSET Active : Splits(A) => SideInv(A)'
    BY <1>7, RelayKeepsSides
  <2> QED
    BY <1>1, <2>1 DEF ChainInv
<1>8. CASE (\E n \in Node : nodePeriodicUpdate(n)) \/ nodeMovementUpdate \/ PassTime
  BY <1>8 DEF nodePeriodicUpdate, nodeMovementUpdate, PassTime, loopVars
<1>9. CASE UNCHANGED vars
  <2>1. /\ message # None /\ message' = message /\ processed' = processed
        /\ UNCHANGED <<loc, isActive, todo, IGReTxnodesList, tempIGRxTxnodelist,
                       direct, RxIG, handed>>
    BY <1>9 DEF vars, worldVars, loopVars
  <2>2. /\ UNCHANGED <<Relaying, Found, Relayed, Active, loc>>
        /\ ElementsOf(IGReTxnodesList)' = ElementsOf(IGReTxnodesList)
    BY <2>1 DEF Relaying, Found, ElementsOf, Relayed, HasRelayed, Has, Sent, Active
  <2>3. ASSUME NEW A PROVE SideInv(A)' = SideInv(A)
    BY <2>1, <2>2 DEF SideInv, Apart
  <2> QED
    BY <1>1, <2>1, <2>2, <2>3 DEF ChainInv
<1> QED
  BY <1>2, <1>3, <1>5, <1>6, <1>7, <1>8, <1>9 DEF Next, Flooding

LEMMA ChainAlways == Init /\ [][Next]_vars => []ChainInv
<1>1. Init => ChainInv
  BY InitRecords DEF Init, ChainInv
<1> QED
  BY <1>1, ChainPreserved, PTL

LEMMA EndInChains == ReachInv /\ ChainInv => ChainsAreServed
<1> SUFFICES ASSUME ReachInv, ChainInv, Ending, ~forgot, Bipartite,
                    NEW n \in Connected(message.leaderId) \ {message.leaderId}
             PROVE  handed[n] > 0
  BY DEF ChainsAreServed
<1>1. PICK A \in SUBSET Active : Splits(A)
  BY DEF Bipartite, Splits
<1>2. n \in Relayed
  BY ConnectedHaveSent DEF Relayed
<1>3. SideInv(A)
  BY <1>1 DEF ChainInv, Ending, RoundOver
<1> QED
  BY <1>2, <1>3 DEF SideInv

\* In every chain of nodes, of any length, and every network without odd
\* cycles, a flood hands the message to every node connected to the leader.
THEOREM ChainsAreServedHolds == Spec => []ChainsAreServed
  BY EndInChains, ReachAlways, ChainAlways, PTL DEF Spec

-----------------------------------------------------------------------------
(* In a network of one hop everybody is handed the message once.           *)

\* Whoever a node in range can reach is in range.
OneHopRange ==
    \A l, m, n \in Node :
        InRange(loc, l, m) /\ InRange(loc, m, n) /\ l # n => InRange(loc, l, n)

\* The active nodes in range of the leader.
Area == {m \in Active : InRange(loc, message.leaderId, m)}

\* evIGROUP's own loop hands the message to each of them in turn.
DirectRound ==
    /\ Found = Area
    /\ ElementsOf(todo) \cap ElementsOf(IGReTxnodesList) = {}
    /\ NoRepeats(todo) /\ NoRepeats(IGReTxnodesList)
    /\ \A m \in Node : handed[m] = IF m \in ElementsOf(IGReTxnodesList) THEN 1 ELSE 0

\* The first round of relays finds only its own relays; each relays in turn.
FirstRound ==
    /\ Area \subseteq Relaying
    /\ NoRepeats(tempIGRxTxnodelist)
    /\ ~isReTx
    /\ \A k \in 1..Len(tempIGRxTxnodelist) : HasRelayed(tempIGRxTxnodelist[k]) <=> k < i

\* In the second nobody relays any more.
LastRound == todo = <<>> /\ IGReTxnodesList = <<>> /\ Area \subseteq Relayed

ServedInv ==
    message # None /\ OneHopRange =>
        IF direct
        THEN DirectRound
        ELSE /\ Relaying \cup Found \subseteq Area
             /\ \A m \in Node : handed[m] = IF m \in Area THEN 1 ELSE 0
             /\ FirstRound \/ LastRound

LEMMA AreaIsOfNodes == TypeOK /\ message # None => Area \subseteq Node \ {message.leaderId}
  BY ActiveNodes DEF Area, InRange

LEMMA AreaKept ==
    ASSUME UNCHANGED <<message, loc, isActive>>
    PROVE  Area' = Area /\ Active' = Active /\ OneHopRange' = OneHopRange
<1>1. Active' = Active
  BY DEF Active
<1> QED
  BY <1>1 DEF Area, OneHopRange

\* The first receiver moves from one list to the other.
LEMMA ReceiverFound ==
    ASSUME TypeOK, HandDirect \/ HandRelayed
    PROVE  /\ Head(todo) \in Node
           /\ ElementsOf(todo) = {Head(todo)} \cup ElementsOf(todo')
           /\ ElementsOf(IGReTxnodesList') = ElementsOf(IGReTxnodesList) \cup {Head(todo)}
           /\ Found' = Found
<1>1. /\ todo # <<>> /\ todo' = Tail(todo)
      /\ IGReTxnodesList' = Append(IGReTxnodesList, Head(todo))
  BY DEF HandDirect, HandRelayed
<1>2. todo \in Seq(Node) /\ IGReTxnodesList \in Seq(Node) /\ Head(todo) \in Node
  BY <1>1, HeadTailProperties DEF TypeOK
<1>3. /\ ElementsOf(todo) = {Head(todo)} \cup ElementsOf(todo')
      /\ ElementsOf(IGReTxnodesList') = ElementsOf(IGReTxnodesList) \cup {Head(todo)}
  BY <1>1, <1>2, ElementsOfLists
<1>4. Found' = ElementsOf(todo') \cup ElementsOf(IGReTxnodesList')
  BY DEF Found, ElementsOf
<1> QED
  BY <1>2, <1>3, <1>4 DEF Found

LEMMA DirectHands ==
    ASSUME TypeOK, DirectRound, HandDirect
    PROVE  DirectRound'
<1> DEFINE h == Head(todo)
<1>1. /\ todo # <<>> /\ todo' = Tail(todo) /\ Hand(h)
      /\ IGReTxnodesList' = Append(IGReTxnodesList, h)
      /\ UNCHANGED <<message, loc, isActive>>
  BY DEF HandDirect, worldVars
<1>2. /\ todo \in Seq(Node) /\ IGReTxnodesList \in Seq(Node) /\ handed \in [Node -> Nat]
  BY DEF TypeOK
<1>3. /\ h \in Node
      /\ ElementsOf(todo) = {h} \cup ElementsOf(todo')
      /\ ElementsOf(IGReTxnodesList') = ElementsOf(IGReTxnodesList) \cup {h}
      /\ Found' = Found
  BY ReceiverFound
<1>4. NoRepeats(todo') /\ h \notin ElementsOf(todo')
  <2>1. NoRepeats(Tail(todo)) /\ \A k \in 1..Len(Tail(todo)) : Tail(todo)[k] # h
    BY <1>1, <1>2, TailOfNoRepeats DEF DirectRound
  <2> QED
    BY <1>1, <2>1 DEF ElementsOf
<1>5. NoRepeats(IGReTxnodesList') /\ h \notin ElementsOf(IGReTxnodesList)
  <2>1. h \notin ElementsOf(IGReTxnodesList)
    BY <1>3 DEF DirectRound
  <2> HIDE DEF h
  <2> QED
    BY <1>1, <1>2, <1>3, <2>1, AppendNoRepeats DEF DirectRound
<1>6. /\ ElementsOf(todo)' = ElementsOf(todo')
      /\ ElementsOf(IGReTxnodesList)' = ElementsOf(IGReTxnodesList')
      /\ NoRepeats(todo)' /\ NoRepeats(IGReTxnodesList)'
  BY <1>4, <1>5 DEF ElementsOf, NoRepeats
<1> HIDE DEF h
<1>7. \A m \in Node : handed'[m] = IF m \in ElementsOf(IGReTxnodesList') THEN 1 ELSE 0
  <2>1. \A m \in Node : handed'[m] = IF m = h THEN handed[h] + 1 ELSE handed[m]
    BY <1>1, <1>2, <1>3 DEF Hand
  <2>2. handed[h] = 0
    BY <1>3, <1>5 DEF DirectRound
  <2> QED
    BY <1>3, <2>1, <2>2 DEF DirectRound
<1>8. Area' = Area
  BY <1>1, AreaKept
<1> QED
  BY <1>3, <1>4, <1>5, <1>6, <1>7, <1>8 DEF DirectRound

\* A relay that has not had its turn is not taken for one that has.
LEMMA RelayIsFirst ==
    ASSUME RecordInv, Relay, ~isReTx, ~HasRelayed(tempIGRxTxnodelist[i])
    PROVE  ~isReTx'
<1> DEFINE n == tempIGRxTxnodelist[i]
<1>0. n \in Node /\ message # None
  BY RelayRecords DEF Relay
<1>1. PICK kept \in Remembered(RxIG[n], now, LEADER_LAST_TIME) :
        isReTx' = Repeated(RxIG[n], kept, message.leaderId,
                           message.sequenceNumber, isReTx)
  BY Zenon DEF Relay
<1> HIDE DEF n
<1>2. kept \in Seq(RecordSet) /\ \A k \in 1..Len(kept) : kept[k] \notin Sent
  <2>1. ~HasRelayed(n)
    BY DEF n
  <2> QED
    BY <1>0, <2>1, SweepKeepsSent
<1>3. CASE kept # <<>>
  <2>1. Len(kept) \in 1..Len(kept)
    BY <1>2, <1>3, EmptySeq, LenProperties
  <2>2. kept[Len(kept)] \in RecordSet \ Sent
    BY <1>2, <2>1, ElementOfSeq
  <2>3. kept[Len(kept)].number # message.sequenceNumber
    BY <2>2 DEF Sent
  <2> QED
    BY <1>1, <1>3, <2>3 DEF Repeated
<1>4. CASE kept = <<>>
  BY <1>1, <1>4 DEF Repeated
<1> QED
  BY <1>3, <1>4

\* What a relay in range of the leader reaches is in range of the leader.
LEMMA RelayStaysInArea ==
    ASSUME RecordInv, ServedInv, OneHopRange, Relay
    PROVE  /\ Relaying' = Relaying /\ Found' \subseteq Area
           /\ tempIGRxTxnodelist[i] \in Relaying
           /\ isReTx' => UNCHANGED todo
<1> DEFINE n == tempIGRxTxnodelist[i]
<1>1. /\ message # None /\ message.leaderId \in Node /\ ~direct /\ todo = <<>>
      /\ i \in 1..Len(tempIGRxTxnodelist)
      /\ UNCHANGED <<direct, tempIGRxTxnodelist, IGReTxnodesList>>
  BY LenProperties DEF Relay, RecordInv, TypeOK, Message
<1>2. /\ n \in Node
      /\ IF isReTx'
         THEN UNCHANGED todo
         ELSE todo' \in Receivers(loc, n, Active \ {message.leaderId})
  BY RelayRecords
<1>3. n \in Relaying /\ Relaying' = Relaying
  BY <1>1 DEF Relaying, ElementsOf
<1> HIDE DEF n
<1>4. n \in Area /\ Found \subseteq Area
  BY <1>1, <1>3 DEF ServedInv
<1>5. ElementsOf(todo') \subseteq Area
  <2>1. CASE isReTx'
    BY <1>1, <1>2, <2>1, NoElements
  <2>2. CASE ~isReTx'
    <3>1. Active \ {message.leaderId} \in SUBSET Node
      BY ActiveNodes
    <3>2. ElementsOf(todo') = {m \in Active \ {message.leaderId} : InRange(loc, n, m)}
      BY <1>2, <2>2, <3>1, ReceiversAreAll
    <3>3. ASSUME NEW m \in ElementsOf(todo') PROVE m \in Area
      <4>1. m \in Active \ {message.leaderId} /\ InRange(loc, n, m) /\ m \in Node
        BY <3>1, <3>2, <3>3
      <4>2. InRange(loc, message.leaderId, n)
        BY <1>4 DEF Area
      <4>3. InRange(loc, message.leaderId, m)
        BY <1>1, <1>2, <4>1, <4>2 DEF OneHopRange
      <4> QED
        BY <4>1, <4>3 DEF Area
    <3> QED
      BY <3>3
  <2> QED
    BY <2>1, <2>2
<1>6. Found' = ElementsOf(todo') \cup ElementsOf(IGReTxnodesList)
  BY <1>1 DEF Found, ElementsOf
<1> QED
  BY <1>2, <1>3, <1>4, <1>5, <1>6 DEF Found, n

LEMMA RelayServes ==
    ASSUME RecordInv, ServedInv, OneHopRange, Relay
    PROVE  FirstRound' \/ LastRound'
<1> DEFINE n == tempIGRxTxnodelist[i]
<1>1. /\ message # None /\ message' = message /\ ~direct /\ todo = <<>>
      /\ i' = i + 1 /\ i \in 1..Len(tempIGRxTxnodelist) /\ i \in Nat
      /\ tempIGRxTxnodelist \in Seq(Node) /\ Len(tempIGRxTxnodelist) \in Nat
      /\ UNCHANGED <<loc, isActive, tempIGRxTxnodelist, IGReTxnodesList>>
  BY LenProperties DEF Relay, worldVars, RecordInv, TypeOK
<1>2. /\ n \in Node
      /\ \A m \in Node \ {n} : RxIG'[m] = RxIG[m]
      /\ Has(RxIG', n) <=> HasRelayed(n) \/ ~isReTx'
      /\ HasRelayed(n) => isReTx'
  BY RelayRecords
<1>3. /\ Relaying' = Relaying /\ n \in Relaying /\ (isReTx' => UNCHANGED todo)
  BY RelayStaysInArea
<1>4. Area' = Area
  BY <1>1, AreaKept
<1>5. \A m \in Node : HasRelayed(m)' <=> IF m = n THEN Has(RxIG', n) ELSE HasRelayed(m)
  <2>1. \A m \in Node : HasRelayed(m)' <=> Has(RxIG', m)
    BY <1>1 DEF HasRelayed, Has, Sent
  <2>2. \A m \in Node \ {n} : Has(RxIG', m) <=> HasRelayed(m)
    BY <1>2 DEF HasRelayed, Has
  <2> QED
    BY <2>1, <2>2
<1>6. CASE FirstRound
  <2>1. ~HasRelayed(n)
    BY <1>1, <1>6 DEF FirstRound
  <2>2. ~isReTx' /\ Has(RxIG', n)
    BY <1>2, <1>6, <2>1, RelayIsFirst DEF FirstRound
  <2>3. ASSUME NEW k \in 1..Len(tempIGRxTxnodelist)
        PROVE  HasRelayed(tempIGRxTxnodelist[k])' <=> k < i'
    <3>1. tempIGRxTxnodelist[k] \in Node
      BY <1>1, ElementOfSeq
    <3>2. HasRelayed(tempIGRxTxnodelist[k]) <=> k < i
      BY <1>6 DEF FirstRound
    <3>3. HasRelayed(tempIGRxTxnodelist[k])' <=>
            IF tempIGRxTxnodelist[k] = n THEN Has(RxIG', n)
            ELSE HasRelayed(tempIGRxTxnodelist[k])
      <4>1. HasRelayed(tempIGRxTxnodelist[k])' <=> Has(RxIG', tempIGRxTxnodelist[k])
        BY <1>1 DEF HasRelayed, Has, Sent
      <4>2. tempIGRxTxnodelist[k] # n => (Has(RxIG', tempIGRxTxnodelist[k])
                                            <=> HasRelayed(tempIGRxTxnodelist[k]))
        BY <1>2, <3>1 DEF HasRelayed, Has
      <4> QED
        BY <4>1, <4>2
    <3>4. tempIGRxTxnodelist[k] = n <=> k = i
      BY <1>1, <1>6 DEF FirstRound, NoRepeats
    <3>5. k \in Nat
      OBVIOUS
    <3> QED
      BY <1>1, <2>2, <3>2, <3>3, <3>4, <3>5
  <2>4. NoRepeats(tempIGRxTxnodelist)' /\ Area' \subseteq Relaying'
    BY <1>1, <1>3, <1>4, <1>6 DEF FirstRound, NoRepeats
  <2> QED
    BY <1>1, <2>2, <2>3, <2>4 DEF FirstRound
<1>7. CASE LastRound
  <2>1. n \in Relayed
    BY <1>1, <1>3, <1>7 DEF LastRound, ServedInv
  <2>2. todo' = <<>> /\ IGReTxnodesList' = <<>>
    BY <1>1, <1>2, <1>3, <1>7, <2>1 DEF LastRound, Relayed
  <2>3. Relayed \subseteq Relayed'
    BY <1>2, <1>5 DEF Relayed
  <2> QED
    BY <1>4, <1>7, <2>2, <2>3 DEF LastRound
<1> QED
  BY <1>1, <1>6, <1>7 DEF ServedInv

\* A receiver is one of this round's relays, and is not handed another copy.
LEMMA RelayedIsMet ==
    ASSUME RecordInv, ServedInv, OneHopRange, HandRelayed
    PROVE  /\ UNCHANGED handed
           /\ FirstRound'
<1>1. /\ message # None /\ message' = message /\ ~direct /\ todo # <<>>
      /\ UNCHANGED <<loc, isActive, direct, i, isReTx, tempIGRxTxnodelist, RxIG>>
  BY DEF HandRelayed, worldVars
<1>2. Head(todo) \in Area
  <2>1. Head(todo) \in Found
    BY <1>1, ReceiverFound DEF Found, RecordInv
  <2> QED
    BY <1>1, <2>1 DEF ServedInv
<1>3. FirstRound
  BY <1>1 DEF ServedInv, LastRound
<1>4. \E j \in DOMAIN tempIGRxTxnodelist : tempIGRxTxnodelist[j] = Head(todo)
  <2>1. DOMAIN tempIGRxTxnodelist = 1..Len(tempIGRxTxnodelist)
    BY LenProperties DEF RecordInv, TypeOK
  <2>2. Head(todo) \in ElementsOf(tempIGRxTxnodelist)
    BY <1>1, <1>2, <1>3 DEF FirstRound, Relaying
  <2> QED
    BY <2>1, <2>2 DEF ElementsOf
<1>5. handed' = handed
  BY <1>4 DEF HandRelayed
<1>6. Area' = Area /\ Relaying' = Relaying
  BY <1>1, AreaKept DEF Relaying, ElementsOf
<1>7. NoRepeats(tempIGRxTxnodelist)' <=> NoRepeats(tempIGRxTxnodelist)
  BY <1>1 DEF NoRepeats
<1>8. \A k \in 1..Len(tempIGRxTxnodelist) :
        HasRelayed(tempIGRxTxnodelist[k])' <=> HasRelayed(tempIGRxTxnodelist[k])
  BY <1>1 DEF HasRelayed, Has, Sent
<1> QED
  BY <1>1, <1>3, <1>5, <1>6, <1>7, <1>8 DEF FirstRound

LEMMA ServedPreserved == RecordInv /\ ServedInv /\ [Next]_vars => ServedInv'
<1> SUFFICES ASSUME RecordInv, ServedInv, [Next]_vars, message' # None, OneHopRange'
             PROVE  IF direct'
                    THEN DirectRound'
                    ELSE /\ Relaying' \cup Found' \subseteq Area'
                         /\ \A m \in Node : handed'[m] = IF m \in Area' THEN 1 ELSE 0
                         /\ FirstRound' \/ LastRound'
  BY DEF ServedInv
<1>0. TypeOK /\ RecordInv'
  BY RecordsPreserved DEF RecordInv
<1>1. ASSUME NEW n \in Sources, evIGROUP(n)
      PROVE  direct' /\ DirectRound'
  <2>1. /\ n \in Node /\ message'.leaderId = n /\ Active' = Active
        /\ todo' \in Receivers(loc, n, Active) /\ loc' = loc /\ direct'
        /\ IGReTxnodesList' = <<>> /\ handed' = [m \in Node |-> 0]
    <3>1. n \in Node
      BY NodeAssumption
    <3>2. message' \in Message
      BY <1>0, <1>1, <3>1 DEF evIGROUP, TypeOK, Message
    <3> QED
      BY <1>1, <3>1, <3>2, NodeAssumption DEF evIGROUP, Active
  <2>2. /\ ElementsOf(todo') = {m \in Active : InRange(loc, n, m)}
        /\ NoRepeats(todo')
    BY ActiveNodes, <2>1, ReceiversAreAll, ReceiversAreNodes
  <2>3. Area' = {m \in Active : InRange(loc, n, m)}
    BY <2>1 DEF Area
  <2>4. ElementsOf(IGReTxnodesList)' = {} /\ ElementsOf(todo)' = ElementsOf(todo')
    BY <2>1, NoElements DEF ElementsOf
  <2>5. NoRepeats(todo)' /\ NoRepeats(IGReTxnodesList)'
    BY <2>1, <2>2, EmptySeq DEF NoRepeats
  <2> QED
    BY <2>1, <2>2, <2>3, <2>4, <2>5 DEF DirectRound, Found
<1>2. CASE HandDirect
  <2>1. message # None /\ direct /\ direct' /\ OneHopRange
    BY <1>2, AreaKept DEF HandDirect, worldVars
  <2> QED
    BY <1>0, <1>2, <2>1, DirectHands DEF ServedInv
<1>3. CASE EndDirect
  <2>1. /\ message # None /\ direct /\ ~direct' /\ todo = <<>>
        /\ Round(IGReTxnodesList) /\ UNCHANGED <<todo, loc, isActive>>
    BY <1>3 DEF EndDirect, worldVars
  <2>2. /\ message' = message /\ IGReTxnodesList' = <<>>
        /\ tempIGRxTxnodelist' = IGReTxnodesList
        /\ i' = 1 /\ handed' = handed /\ ~isReTx'
    BY <1>0, <2>1 DEF Round
  <2>3. Area' = Area /\ OneHopRange
    BY <2>1, <2>2, AreaKept
  <2>4. DirectRound
    BY <2>1, <2>3 DEF ServedInv
  <2>5. /\ Area = ElementsOf(IGReTxnodesList)
        /\ Relaying' = ElementsOf(IGReTxnodesList)
        /\ Found' = {}
    BY <2>1, <2>2, <2>4, NoElements DEF DirectRound, Found, Relaying, ElementsOf
  <2>6. ASSUME NEW k \in 1..Len(tempIGRxTxnodelist')
        PROVE  ~HasRelayed(tempIGRxTxnodelist[k])' /\ ~(k < i')
    <3>1. tempIGRxTxnodelist'[k] \in Node \ {message.leaderId}
      BY <1>0, <2>1, <2>2, <2>5, AreaIsOfNodes DEF ElementsOf
    <3>2. RxIG'[tempIGRxTxnodelist'[k]] = RxIG[tempIGRxTxnodelist'[k]]
      BY <1>3, <3>1, DirectRecords
    <3>3. ~HasRelayed(tempIGRxTxnodelist'[k])
      BY <2>1, <3>1 DEF RecordInv, SentIsLast
    <3>4. ~HasRelayed(tempIGRxTxnodelist[k])'
      BY <2>2, <3>2, <3>3 DEF HasRelayed, Has, Sent
    <3> QED
      BY <2>2, <3>4
  <2>7. NoRepeats(tempIGRxTxnodelist)'
    BY <2>2, <2>4 DEF DirectRound, NoRepeats
  <2>8. FirstRound'
    BY <2>2, <2>3, <2>5, <2>6, <2>7 DEF FirstRound
  <2> QED
    BY <2>1, <2>2, <2>3, <2>4, <2>5, <2>8 DEF DirectRound
<1>4. CASE Relay
  <2>1. /\ message # None /\ ~direct /\ ~direct' /\ handed' = handed
        /\ UNCHANGED <<message, loc, isActive>>
    BY <1>4 DEF Relay, worldVars
  <2>2. Area' = Area /\ OneHopRange
    BY <2>1, AreaKept
  <2>3. FirstRound' \/ LastRound'
    BY <1>4, <2>2, RelayServes
  <2>4. Relaying' = Relaying /\ Found' \subseteq Area
    BY <1>4, <2>2, RelayStaysInArea
  <2> QED
    BY <2>1, <2>2, <2>3, <2>4 DEF ServedInv
<1>5. CASE HandRelayed
  <2>1. /\ message # None /\ ~direct /\ ~direct'
        /\ UNCHANGED <<message, loc, isActive, tempIGRxTxnodelist>>
    BY <1>5 DEF HandRelayed, worldVars
  <2>2. Area' = Area /\ OneHopRange
    BY <2>1, AreaKept
  <2>3. handed' = handed /\ FirstRound'
    BY <1>5, <2>2, RelayedIsMet
  <2>4. Relaying' = Relaying /\ Found' = Found
    BY <1>0, <1>5, <2>1, ReceiverFound DEF Relaying, ElementsOf
  <2> QED
    BY <2>1, <2>2, <2>3, <2>4 DEF ServedInv
<1>6. CASE EndRound
  <2>1. /\ message # None /\ ~direct /\ ~direct' /\ todo = <<>> /\ RxIG' = RxIG
        /\ i > Len(tempIGRxTxnodelist)
        /\ Round(IGReTxnodesList) /\ UNCHANGED <<todo, loc, isActive>>
    BY <1>6 DEF EndRound, RoundOver, worldVars
  <2>2. /\ message' = message /\ IGReTxnodesList # <<>> /\ IGReTxnodesList' = <<>>
        /\ tempIGRxTxnodelist' = IGReTxnodesList /\ handed' = handed
    BY <1>0, <2>1, RoundTurnsOver
  <2>3. Area' = Area /\ OneHopRange
    BY <2>1, <2>2, AreaKept
  <2>4. FirstRound
    BY <2>1, <2>2, <2>3 DEF ServedInv, LastRound
  <2>5. Relaying' = ElementsOf(IGReTxnodesList) /\ Found' = {}
    BY <2>1, <2>2, NoElements DEF Relaying, Found, ElementsOf
  <2>6. Area' \subseteq Relayed'
    <3>1. Relayed' = Relayed
      BY <2>1, <2>2 DEF Relayed, HasRelayed, Has, Sent
    <3>2. \A k \in 1..Len(tempIGRxTxnodelist) : HasRelayed(tempIGRxTxnodelist[k])
      <4>1. i \in Nat /\ Len(tempIGRxTxnodelist) \in Nat
        BY <1>0, LenProperties DEF TypeOK
      <4>2. \A k \in 1..Len(tempIGRxTxnodelist) : k < i
        BY <2>1, <4>1
      <4> QED
        BY <2>4, <4>2 DEF FirstRound
    <3>3. Area \subseteq ElementsOf(tempIGRxTxnodelist) /\ Area \subseteq Node
      BY <1>0, <2>1, <2>4, AreaIsOfNodes DEF FirstRound, Relaying
    <3> QED
      BY <2>3, <3>1, <3>2, <3>3 DEF Relayed, ElementsOf
  <2>7. LastRound'
    BY <2>1, <2>2, <2>6 DEF LastRound
  <2>8. ElementsOf(IGReTxnodesList) \subseteq Area
    BY <2>1, <2>3 DEF ServedInv, Found
  <2> QED
    BY <2>1, <2>2, <2>3, <2>5, <2>7, <2>8 DEF ServedInv
<1>7. CASE (\E n \in Node : nodePeriodicUpdate(n)) \/ nodeMovementUpdate \/ PassTime
  BY <1>7 DEF nodePeriodicUpdate, nodeMovementUpdate, PassTime, loopVars
<1>8. CASE UNCHANGED vars
  <2>1. /\ message # None
        /\ UNCHANGED <<message, loc, isActive, todo, IGReTxnodesList, tempIGRxTxnodelist,
                       direct, RxIG, handed, i, isReTx>>
    BY <1>8 DEF vars, worldVars, loopVars
  <2>2. /\ UNCHANGED <<Relaying, Found, Relayed, Area>> /\ OneHopRange
        /\ ElementsOf(IGReTxnodesList)' = ElementsOf(IGReTxnodesList)
        /\ ElementsOf(todo)' = ElementsOf(todo)
    BY <2>1, AreaKept DEF Relaying, Found, ElementsOf, Relayed, HasRelayed, Has, Sent
  <2>3. /\ NoRepeats(todo)' <=> NoRepeats(todo)
        /\ NoRepeats(IGReTxnodesList)' <=> NoRepeats(IGReTxnodesList)
        /\ NoRepeats(tempIGRxTxnodelist)' <=> NoRepeats(tempIGRxTxnodelist)
    BY <2>1 DEF NoRepeats
  <2>4. \A k \in 1..Len(tempIGRxTxnodelist) :
          HasRelayed(tempIGRxTxnodelist[k])' <=> HasRelayed(tempIGRxTxnodelist[k])
    BY <2>1 DEF HasRelayed, Has, Sent
  <2>5. DirectRound => DirectRound'
    BY <2>1, <2>2, <2>3 DEF DirectRound
  <2>6. FirstRound => FirstRound'
    BY <2>1, <2>2, <2>3, <2>4 DEF FirstRound
  <2>7. LastRound => LastRound'
    BY <2>1, <2>2 DEF LastRound
  <2> QED
    BY <2>1, <2>2, <2>5, <2>6, <2>7 DEF ServedInv
<1> QED
  BY <1>1, <1>2, <1>3, <1>4, <1>5, <1>6, <1>7, <1>8 DEF Next, Flooding

LEMMA ServedAlways == Init /\ [][Next]_vars => []ServedInv
<1>1. Init => ServedInv
  BY DEF Init, ServedInv
<1>2. Init => RecordInv
  BY InitRecords
<1> QED
  BY <1>1, <1>2, RecordsPreserved, ServedPreserved, PTL

\* Only active nodes in range of the leader have been handed the message, once;
\* all of them have when evIGROUP's own loop has run to its end.
OneHopIsServed ==
    message # None /\ OneHopRange =>
        /\ \A m \in Node : handed[m] <= 1 /\ (handed[m] > 0 => m \in Area)
        /\ ~direct \/ todo = <<>> => \A m \in Area : handed[m] = 1

LEMMA ServedOnce == RecordInv /\ ServedInv => OneHopIsServed
<1> SUFFICES ASSUME RecordInv, ServedInv, message # None, OneHopRange
             PROVE  /\ \A m \in Node : handed[m] <= 1 /\ (handed[m] > 0 => m \in Area)
                    /\ ~direct \/ todo = <<>> => \A m \in Area : handed[m] = 1
  BY DEF OneHopIsServed
<1>1. Area \subseteq Node
  BY AreaIsOfNodes DEF RecordInv
<1>2. CASE direct
  <2>1. todo = <<>> => Area = ElementsOf(IGReTxnodesList)
    BY <1>2, NoElements DEF ServedInv, DirectRound, Found
  <2> QED
    BY <1>1, <1>2, <2>1 DEF ServedInv, DirectRound, Found
<1>3. CASE ~direct
  BY <1>1, <1>3 DEF ServedInv
<1> QED
  BY <1>2, <1>3

\* In every network of one hop the leader's own loop hands the message to the
\* active nodes in range, each once; the relays, which all repeat it, hand it
\* to nobody, because they find only each other and `processed' is set.
THEOREM OneHopIsServedHolds == Spec => []OneHopIsServed
<1>1. Init => RecordInv
  BY InitRecords
<1> QED
  BY <1>1, RecordsPreserved, ServedAlways, ServedOnce, PTL DEF Spec

\* The same of whoever takes the steps of a flood, and does not have to end it.
LEMMA StepsAreSafe ==
    Init /\ [][Next]_vars =>
        []TypeOK /\ []RelaysOnce /\ []EverybodyRelays /\ []ChainsAreServed
          /\ []OneHopIsServed
<1>1. ReachInv => TypeOK /\ RecordInv
  BY DEF ReachInv, RecordInv
<1> QED
  BY <1>1, ReachAlways, ChainAlways, ServedAlways, OneRecord, EndOfRelays, EndInChains,
     ServedOnce, PTL

=============================================================================
