------------------------- MODULE FloodIREPLYProofs -------------------------
(***************************************************************************)
(* The flood of an IREPLY message on any network: its types, and that      *)
(* nobody relays a reply twice, its leader not at all.  The records are    *)
(* those of FloodIGROUPProofs, with the node that replies in the leader's  *)
(* place.                                                                  *)
(***************************************************************************)
EXTENDS FloodIREPLY, SweepProofs

RecordSet == [from : Node, number : Nat, time : Nat]

-----------------------------------------------------------------------------
(* The operators of Radio.                                                 *)

\* Every receiver is met once.
LEMMA ReceiversAreNodes ==
    ASSUME NEW s, NEW nodes \in SUBSET Node, NEW f \in Receivers(loc, s, nodes)
    PROVE  /\ f \in Seq(Node)
           /\ \A k \in 1..Len(f) : f[k] \in nodes \ {s}
           /\ NoRepeats(f)
<1> DEFINE reached == {m \in nodes : InRange(loc, s, m)}
<1>1. IsFiniteSet(reached) /\ reached \subseteq Int
  <2>1. reached \in SUBSET Node /\ Node \subseteq Nat
    BY NodeAssumption
  <2> HIDE DEF reached
  <2>2. IsFiniteSet(reached)
    BY <2>1, NodeAssumption, FS_Subset
  <2> QED
    BY <2>1, <2>2
<1>2. Increasing(f, reached)
  BY DEF Receivers
<1>3. reached \subseteq nodes \ {s}
  BY DEF InRange
<1> HIDE DEF reached
<1>4. /\ f \in Seq(reached)
      /\ \A i1, i2 \in 1..Len(f) : f[i1] = f[i2] => i1 = i2
  BY <1>1, <1>2, IncreasingEnumerates
<1>5. \A k \in 1..Len(f) : f[k] \in reached
  BY <1>4, ElementOfSeq
<1>6. f \in Seq(Node)
  BY <1>3, <1>4, SeqMonotonic
<1> QED
  BY <1>3, <1>4, <1>5, <1>6 DEF NoRepeats

\* Nobody in range is left out.
LEMMA ReceiversAreAll ==
    ASSUME NEW s, NEW nodes \in SUBSET Node, NEW f \in Receivers(loc, s, nodes)
    PROVE  ElementsOf(f) = {m \in nodes : InRange(loc, s, m)}
<1> DEFINE reached == {m \in nodes : InRange(loc, s, m)}
<1>1. IsFiniteSet(reached) /\ reached \subseteq Int
  <2>1. reached \in SUBSET Node /\ Node \subseteq Nat
    BY NodeAssumption
  <2> HIDE DEF reached
  <2>2. IsFiniteSet(reached)
    BY <2>1, NodeAssumption, FS_Subset
  <2> QED
    BY <2>1, <2>2
<1>2. Increasing(f, reached)
  BY DEF Receivers
<1> HIDE DEF reached
<1>3. /\ f \in Seq(reached) /\ Len(f) = Cardinality(reached)
      /\ f \in Surjection(1..Cardinality(reached), reached)
  BY <1>1, <1>2, IncreasingEnumerates
<1>4. /\ \A k \in 1..Len(f) : f[k] \in reached
      /\ \A m \in reached : \E k \in 1..Len(f) : f[k] = m
  <2>1. \A k \in 1..Len(f) : f[k] \in reached
    BY <1>3, ElementOfSeq
  <2>2. \A m \in reached : \E k \in 1..Cardinality(reached) : f[k] = m
    BY <1>3 DEF Surjection
  <2> QED
    BY <1>3, <2>1, <2>2
<1>5. ElementsOf(f) = reached
  BY <1>4 DEF ElementsOf
<1> QED
  BY <1>5 DEF reached

LEMMA RememberedAreRecords ==
    ASSUME NEW records \in Seq(RecordSet), NEW kept \in Remembered(records, now, IREPLY_EXPIRE_TIME)
    PROVE  kept \in Seq(RecordSet)
  BY SweptIsSubsequence DEF Remembered

LEMMA ActiveNodes == Active \subseteq Node
  BY DEF Active

-----------------------------------------------------------------------------
(* Types.                                                                  *)

LEMMA InitTypes == Init => TypeOK
<1> SUFFICES ASSUME Init PROVE TypeOK
  OBVIOUS
<1>1. <<>> \in Seq(Node) /\ Len(<<>>) = 0 /\ <<>> \in Seq(RecordSet)
  BY EmptySeq
<1>2. loc \in [Node -> Location] /\ message \in Message \cup {None}
  BY NodeAssumption DEF Init
<1>3. /\ isActive \in [Node -> BOOLEAN] /\ handed \in Nat
      /\ RxIR \in [Node -> Seq(RecordSet)]
  BY <1>1 DEF Init
<1>4. i \in 1..Len(tempIRRxTxnodelist) + 1
  BY <1>1 DEF Init
<1> QED
  BY <1>1, <1>2, <1>3, <1>4 DEF Init, TypeOK, RecordSet

\* What the call of ReTxIREPLYMessage leaves has its types.
LEMMA RoundTypes ==
    ASSUME TypeOK, Round(IRReTxnodesList)
    PROVE  /\ message' \in Message \cup {None}
           /\ IRReTxnodesList' \in Seq(Node)
           /\ tempIRRxTxnodelist' \in Seq(Node)
           /\ i' \in 1..Len(tempIRRxTxnodelist') + 1
           /\ isReTx' \in BOOLEAN
           /\ handed' \in Nat
<1>1. CASE IRReTxnodesList = <<>>
  BY <1>1 DEF Round, TypeOK
<1>2. CASE IRReTxnodesList # <<>>
  <2>1. Len(IRReTxnodesList) \in Nat /\ <<>> \in Seq(Node)
    BY EmptySeq, LenProperties DEF TypeOK
  <2>2. 1 \in 1..Len(IRReTxnodesList) + 1
    BY <2>1
  <2> QED
    BY <1>2, <2>1, <2>2 DEF Round, TypeOK
<1> QED
  BY <1>1, <1>2

LEMMA RememberTypes ==
    ASSUME TypeOK, message # None, NEW n \in Node, NEW records \in Seq(RecordSet),
           Remember(n, records)
    PROVE  RxIR' \in [Node -> Seq(RecordSet)]
<1>1. Record(message.nodeId, message.sequenceNumber, now) \in RecordSet
  BY DEF TypeOK, Message, Record, RecordSet
<1> DEFINE longer == Append(records, Record(message.nodeId, message.sequenceNumber, now))
<1>2. longer \in Seq(RecordSet)
  BY <1>1, AppendProperties
<1>3. RxIR \in [Node -> Seq(RecordSet)]
  BY DEF TypeOK, RecordSet
<1>4. RxIR' = [RxIR EXCEPT ![n] = longer]
  BY DEF Remember
<1> HIDE DEF longer
<1> QED
  BY <1>2, <1>3, <1>4

LEMMA RelayTypes ==
    ASSUME TypeOK, Relay
    PROVE  TypeOK'
<1>1. /\ message # None /\ message \in Message
      /\ i \in 1..Len(tempIRRxTxnodelist)
      /\ Len(tempIRRxTxnodelist) \in Nat
  BY LenProperties DEF Relay, TypeOK
<1> DEFINE n == tempIRRxTxnodelist[i]
<1>2. n \in Node
  BY <1>1, ElementOfSeq DEF TypeOK
<1> HIDE DEF n
<1>3. PICK kept \in Remembered(RxIR[n], now, IREPLY_EXPIRE_TIME) :
        /\ isReTx' = Repeated(RxIR[n], kept, message.nodeId,
                              message.sequenceNumber, isReTx)
        /\ forgot' = (forgot \/ (RxIR[n] # <<>> /\ kept = <<>>))
        /\ IF isReTx'
           THEN /\ RxIR' = [RxIR EXCEPT ![n] = kept]
                /\ UNCHANGED todo
           ELSE /\ Remember(n, kept)
                /\ todo' \in Receivers(loc, n, Active)
  BY Zenon DEF Relay, n
<1>4. RxIR \in [Node -> Seq(RecordSet)] /\ RxIR[n] \in Seq(RecordSet)
  BY <1>2 DEF TypeOK, RecordSet
<1>5. kept \in Seq(RecordSet)
  BY <1>4, RememberedAreRecords
<1>6. RxIR' \in [Node -> Seq(RecordSet)] /\ todo' \in Seq(Node)
  <2>1. CASE isReTx'
    BY <1>3, <1>4, <1>5, <2>1 DEF TypeOK
  <2>2. CASE ~isReTx'
    BY <1>1, <1>2, <1>3, <1>5, <2>2, RememberTypes, ReceiversAreNodes, ActiveNodes
  <2> QED
    BY <2>1, <2>2
<1>7. isReTx' \in BOOLEAN /\ forgot' \in BOOLEAN
  BY <1>3 DEF TypeOK, Repeated
<1>8. i' \in 1..Len(tempIRRxTxnodelist) + 1
  BY <1>1 DEF Relay
<1>9. UNCHANGED <<worldVars, message, direct, IRReTxnodesList,
                  tempIRRxTxnodelist, handed>>
  BY DEF Relay
<1> QED
  BY <1>6, <1>7, <1>8, <1>9 DEF TypeOK, worldVars, RecordSet

LEMMA HandTypes ==
    ASSUME TypeOK, HandOrRelay
    PROVE  TypeOK'
<1>1. todo \in Seq(Node) /\ todo # <<>>
  BY DEF TypeOK, HandOrRelay
<1>2. Head(todo) \in Node /\ Tail(todo) \in Seq(Node)
  BY <1>1, HeadTailProperties
<1>3. Append(IRReTxnodesList, Head(todo)) \in Seq(Node)
  BY <1>2, AppendProperties DEF TypeOK
<1>4. handed' \in Nat
  BY DEF TypeOK, HandOrRelay
<1>5. IRReTxnodesList' \in Seq(Node)
  BY <1>3 DEF TypeOK, HandOrRelay
<1> QED
  BY <1>2, <1>3, <1>4, <1>5 DEF TypeOK, HandOrRelay, worldVars

LEMMA TypesPreserved == TypeOK /\ [Next]_vars => TypeOK'
<1> SUFFICES ASSUME TypeOK, [Next]_vars PROVE TypeOK'
  OBVIOUS
<1>1. ASSUME NEW r \in Replies, evIREPLY(r[1], r[2]) PROVE TypeOK'
  <2>1. r[1] \in Node /\ r[2] \in Node
    BY NodeAssumption
  <2>2. message' \in Message /\ IRmessageCount' \in Nat
    BY <1>1, <2>1 DEF evIREPLY, TypeOK, Message
  <2>3. todo' \in Seq(Node) /\ <<>> \in Seq(Node)
    BY <1>1, ReceiversAreNodes, ActiveNodes, EmptySeq DEF evIREPLY
  <2> QED
    BY <1>1, <2>2, <2>3 DEF evIREPLY, TypeOK
<1>2. ASSUME NEW n \in Node, nodePeriodicUpdate(n) PROVE TypeOK'
  BY <1>2 DEF nodePeriodicUpdate, TypeOK, loopVars
<1>3. CASE HandOrRelay
  BY <1>3, HandTypes
<1>4. CASE EndDirect
  <2>1. message # None /\ message.nodeId \in Node
    BY <1>4 DEF EndDirect, TypeOK, Message
  <2>2. RxIR' \in [Node -> Seq(RecordSet)]
    <3>1. RxIR[message.nodeId] \in Seq(RecordSet)
      BY <2>1 DEF TypeOK, RecordSet
    <3> QED
      BY <1>4, <2>1, <3>1, RememberTypes DEF EndDirect
  <2>3. Round(IRReTxnodesList) /\ direct' = FALSE /\ UNCHANGED <<worldVars, todo, forgot>>
    BY <1>4 DEF EndDirect
  <2> QED
    BY <2>2, <2>3, RoundTypes DEF TypeOK, worldVars, RecordSet
<1>5. CASE Relay
  BY <1>5, RelayTypes
<1>6. CASE EndRound
  BY <1>6, RoundTypes DEF EndRound, TypeOK, worldVars
<1>7. CASE nodeMovementUpdate
  BY <1>7, NodeAssumption DEF nodeMovementUpdate, TypeOK, loopVars
<1>8. CASE PassTime
  <2>1. now' \in Nat
    BY <1>8, NodeAssumption DEF PassTime, TypeOK
  <2> QED
    BY <1>8, <2>1 DEF PassTime, TypeOK, loopVars
<1>9. CASE UNCHANGED vars
  BY <1>9 DEF vars, worldVars, loopVars, TypeOK
<1> QED
  BY <1>1, <1>2, <1>3, <1>4, <1>5, <1>6, <1>7, <1>8, <1>9 DEF Next, Flooding

\* Every variable of the flood keeps its type.
THEOREM TypeCorrect == Spec => []TypeOK
  BY InitTypes, TypesPreserved, PTL DEF Spec

-----------------------------------------------------------------------------
(* Nobody relays a message twice.                                          *)

\* The records of the message in flight.
Sent == {r \in RecordSet : r.number = message.sequenceNumber}

\* Of RxIR, or what a step makes of it: a node has a record of the message;
\* the counter is beyond every number; a record of the message is the last its
\* node has, of this leader and this instant.
Has(rx, n) == \E k \in 1..Len(rx[n]) : rx[n][k] \in Sent

Numbered(rx) ==
    \A n \in Node : \A k \in 1..Len(rx[n]) : rx[n][k].number < IRmessageCount

SentNow == {r \in Sent : r.from = message.nodeId /\ r.time = now}

LastOnly(rx) ==
    \A n \in Node : /\ OnlyLast(rx[n], Sent)
                    /\ \A k \in 1..Len(rx[n]) : rx[n][k] \in Sent => rx[n][k] \in SentNow

HasRelayed(n) == Has(RxIR, n)

NumbersDrawn ==
    /\ message # None => message.sequenceNumber < IRmessageCount
    /\ Numbered(RxIR)

\* Before evIREPLY's own loop has ended nobody has a record, then the leader has.
SentIsLast ==
    message # None =>
        /\ LastOnly(RxIR)
        /\ \A n \in Node : HasRelayed(n) => ~direct
        /\ ~direct => HasRelayed(message.nodeId)

RecordInv == TypeOK /\ NumbersDrawn /\ SentIsLast

LEMMA RecordTypes ==
    ASSUME TypeOK
    PROVE  /\ RxIR \in [Node -> Seq(RecordSet)]
           /\ \A n \in Node : \A k \in 1..Len(RxIR[n]) : RxIR[n][k] \in RecordSet
<1>1. RxIR \in [Node -> Seq(RecordSet)]
  BY DEF TypeOK, RecordSet
<1>2. ASSUME NEW n \in Node, NEW k \in 1..Len(RxIR[n]) PROVE RxIR[n][k] \in RecordSet
  <2>1. RxIR[n] \in Seq(RecordSet)
    BY <1>1
  <2> QED
    BY <2>1, ElementOfSeq
<1> QED
  BY <1>1, <1>2

\* A sweep neither forgets a record of this instant nor makes one.
LEMMA SweepKeepsSent ==
    ASSUME RecordInv, message # None, NEW n \in Node,
           NEW kept \in Remembered(RxIR[n], now, IREPLY_EXPIRE_TIME)
    PROVE  /\ kept \in Seq(RecordSet)
           /\ OnlyLast(kept, Sent)
           /\ \A k \in 1..Len(kept) : /\ kept[k].number < IRmessageCount
                                      /\ kept[k] \in Sent => kept[k] \in SentNow
           /\ HasRelayed(n) => /\ RxIR[n] # <<>> /\ kept # <<>>
                               /\ Len(kept) \in 1..Len(kept)
                               /\ kept[Len(kept)] \in SentNow
           /\ ~HasRelayed(n) => \A k \in 1..Len(kept) : kept[k] \notin Sent
<1> DEFINE old == {k \in DOMAIN RxIR[n] : now - RxIR[n][k].time > IREPLY_EXPIRE_TIME}
<1>1. /\ RxIR[n] \in Seq(RecordSet)
      /\ kept \in Swept(RxIR[n], old)
      /\ Len(RxIR[n]) \in Nat
      /\ \A k \in 1..Len(RxIR[n]) : RxIR[n][k] \in RecordSet
  <2>1. RxIR[n] \in Seq(RecordSet) /\ \A k \in 1..Len(RxIR[n]) : RxIR[n][k] \in RecordSet
    BY RecordTypes DEF RecordInv
  <2> QED
    BY <2>1, LenProperties DEF Remembered
<1>2. kept \in Seq(RecordSet)
  BY <1>1, SweptIsSubsequence
<1>3. OnlyLast(kept, Sent)
  <2>1. OnlyLast(RxIR[n], Sent)
    BY DEF RecordInv, SentIsLast, LastOnly
  <2> HIDE DEF old
  <2> QED
    BY <1>1, <2>1, SweptOnlyLast
<1>4. \A k \in 1..Len(kept) : /\ kept[k].number < IRmessageCount
                              /\ kept[k] \in Sent => kept[k] \in SentNow
  <2> DEFINE P == {r \in RecordSet : /\ r.number < IRmessageCount
                                     /\ r \in Sent => r \in SentNow}
  <2>1. \A k \in 1..Len(RxIR[n]) : RxIR[n][k] \in P
    BY <1>1 DEF RecordInv, NumbersDrawn, Numbered, SentIsLast, LastOnly
  <2> HIDE DEF old, P
  <2>2. \A k \in 1..Len(kept) : kept[k] \in P
    BY <1>1, <2>1, SweptKeeps
  <2> QED
    BY <2>2 DEF P
<1>5. ASSUME HasRelayed(n)
      PROVE  /\ RxIR[n] # <<>> /\ kept # <<>>
             /\ Len(kept) \in 1..Len(kept)
             /\ kept[Len(kept)] \in SentNow
  <2>1. PICK k \in 1..Len(RxIR[n]) : RxIR[n][k] \in Sent
    BY <1>5 DEF HasRelayed, Has
  <2>2. k = Len(RxIR[n]) /\ RxIR[n][k] \in SentNow
    BY <2>1 DEF RecordInv, SentIsLast, LastOnly, OnlyLast
  <2>3. Len(RxIR[n]) \notin old
    <3>1. now - now = 0 /\ ~(0 > IREPLY_EXPIRE_TIME)
      BY NodeAssumption DEF RecordInv, TypeOK
    <3> QED
      BY <2>2, <3>1 DEF SentNow
  <2>4. RxIR[n] # <<>>
    BY <2>1, EmptySeq
  <2> HIDE DEF old
  <2>5. kept # <<>> /\ kept[Len(kept)] = RxIR[n][Len(RxIR[n])]
    BY <1>1, <2>3, <2>4, LastIsKept
  <2>6. Len(kept) \in 1..Len(kept)
    BY <1>2, <2>5, EmptySeq
  <2> QED
    BY <2>2, <2>4, <2>5, <2>6
<1>6. ASSUME ~HasRelayed(n), NEW k \in 1..Len(kept) PROVE kept[k] \notin Sent
  <2> HIDE DEF old
  <2>1. \A j \in 1..Len(RxIR[n]) : RxIR[n][j] \in RecordSet \ Sent
    BY <1>1, <1>6 DEF HasRelayed, Has
  <2>2. \A j \in 1..Len(kept) : kept[j] \in RecordSet \ Sent
    BY <1>1, <2>1, SweptKeeps
  <2> QED
    BY <2>2
<1> HIDE DEF old
<1> QED
  BY <1>2, <1>3, <1>4, <1>5, <1>6

\* Appending the record of the message to records without one.
LEMMA RememberKeepsLast ==
    ASSUME RecordInv, message # None, NEW n \in Node, NEW records \in Seq(RecordSet),
           \A k \in 1..Len(records) : /\ records[k] \notin Sent
                                      /\ records[k].number < IRmessageCount,
           Remember(n, records)
    PROVE  /\ Numbered(RxIR') /\ LastOnly(RxIR')
           /\ Has(RxIR', n)
           /\ \A m \in Node \ {n} : RxIR'[m] = RxIR[m]
<1> DEFINE new == Record(message.nodeId, message.sequenceNumber, now)
           longer == Append(records, new)
<1>1. /\ new \in RecordSet /\ new \in SentNow /\ new \in Sent
      /\ new.number = message.sequenceNumber
  BY DEF RecordInv, TypeOK, Message, Record, RecordSet, SentNow, Sent
<1>3. /\ RxIR \in [Node -> Seq(RecordSet)]
      /\ RxIR' = [RxIR EXCEPT ![n] = longer]
  BY RecordTypes DEF RecordInv, Remember
<1> HIDE DEF new
<1>4. /\ longer \in Seq(RecordSet)
      /\ Len(longer) = Len(records) + 1 /\ Len(records) \in Nat
      /\ \A k \in 1..Len(records) : longer[k] = records[k]
      /\ longer[Len(longer)] = new
  BY <1>1, AppendProperties, LenProperties
<1>5. OnlyLast(longer, Sent)
  BY <1>1, AppendOnlyLast
<1> HIDE DEF longer
<1>6. \A k \in 1..Len(longer) : k \in 1..Len(records) \/ k = Len(longer)
  BY <1>4
<1>7. RxIR'[n] = longer /\ \A m \in Node \ {n} : RxIR'[m] = RxIR[m]
  BY <1>3
<1>8. Numbered(RxIR')
  <2>1. message.sequenceNumber < IRmessageCount
    BY DEF RecordInv, NumbersDrawn
  <2>2. \A k \in 1..Len(longer) : longer[k].number < IRmessageCount
    BY <1>1, <1>4, <1>6, <2>1
  <2> QED
    BY <1>7, <2>2 DEF RecordInv, NumbersDrawn, Numbered
<1>9. LastOnly(RxIR')
  <2>1. \A k \in 1..Len(longer) : longer[k] \in Sent => longer[k] \in SentNow
    BY <1>1, <1>4, <1>6
  <2> SUFFICES ASSUME NEW m \in Node
               PROVE  /\ OnlyLast(RxIR'[m], Sent)
                      /\ \A k \in 1..Len(RxIR'[m]) :
                           RxIR'[m][k] \in Sent => RxIR'[m][k] \in SentNow
    BY DEF LastOnly
  <2>2. CASE m = n
    BY <1>5, <1>7, <2>1, <2>2
  <2>3. CASE m # n
    BY <1>7, <2>3 DEF RecordInv, SentIsLast, LastOnly
  <2> QED
    BY <2>2, <2>3
<1>10. Has(RxIR', n)
  <2>1. Len(longer) \in 1..Len(longer)
    BY <1>4
  <2> QED
    BY <1>1, <1>4, <1>7, <2>1 DEF Has
<1> QED
  BY <1>7, <1>8, <1>9, <1>10

\* A relay records the message when it has not yet, and only then.
LEMMA RelayRecords ==
    ASSUME RecordInv, Relay
    PROVE  /\ tempIRRxTxnodelist[i] \in Node
           /\ Numbered(RxIR') /\ LastOnly(RxIR')
           /\ \A m \in Node \ {tempIRRxTxnodelist[i]} : RxIR'[m] = RxIR[m]
           /\ Has(RxIR', tempIRRxTxnodelist[i]) <=>
                HasRelayed(tempIRRxTxnodelist[i]) \/ ~isReTx'
           /\ HasRelayed(tempIRRxTxnodelist[i]) => isReTx'
<1> DEFINE n == tempIRRxTxnodelist[i]
<1>1. message # None /\ n \in Node
  <2>1. i \in 1..Len(tempIRRxTxnodelist) /\ tempIRRxTxnodelist \in Seq(Node)
    BY LenProperties DEF Relay, RecordInv, TypeOK
  <2> QED
    BY <2>1, ElementOfSeq DEF Relay
<1>2. PICK kept \in Remembered(RxIR[n], now, IREPLY_EXPIRE_TIME) :
        /\ isReTx' = Repeated(RxIR[n], kept, message.nodeId,
                              message.sequenceNumber, isReTx)
        /\ forgot' = (forgot \/ (RxIR[n] # <<>> /\ kept = <<>>))
        /\ IF isReTx'
           THEN /\ RxIR' = [RxIR EXCEPT ![n] = kept]
                /\ UNCHANGED todo
           ELSE /\ Remember(n, kept)
                /\ todo' \in Receivers(loc, n, Active)
  BY Zenon DEF Relay
<1> HIDE DEF n
<1>3. /\ kept \in Seq(RecordSet)
      /\ OnlyLast(kept, Sent)
      /\ \A k \in 1..Len(kept) : /\ kept[k].number < IRmessageCount
                                 /\ kept[k] \in Sent => kept[k] \in SentNow
      /\ HasRelayed(n) => /\ RxIR[n] # <<>> /\ kept # <<>>
                          /\ Len(kept) \in 1..Len(kept)
                          /\ kept[Len(kept)] \in SentNow
      /\ ~HasRelayed(n) => \A k \in 1..Len(kept) : kept[k] \notin Sent
  BY <1>1, SweepKeepsSent
<1>4. HasRelayed(n) => isReTx'
  BY <1>2, <1>3 DEF Repeated, SentNow, Sent
<1>5. CASE isReTx'
  <2>1. RxIR'[n] = kept /\ \A m \in Node \ {n} : RxIR'[m] = RxIR[m]
    BY <1>1, <1>2, <1>5, RecordTypes DEF RecordInv
  <2>2. Numbered(RxIR')
    BY <1>3, <2>1 DEF Numbered, RecordInv, NumbersDrawn
  <2>3. LastOnly(RxIR')
    <3> SUFFICES ASSUME NEW m \in Node
                 PROVE  /\ OnlyLast(RxIR'[m], Sent)
                        /\ \A k \in 1..Len(RxIR'[m]) :
                             RxIR'[m][k] \in Sent => RxIR'[m][k] \in SentNow
      BY DEF LastOnly
    <3>1. CASE m = n
      BY <1>3, <2>1, <3>1
    <3>2. CASE m # n
      BY <1>1, <2>1, <3>2 DEF RecordInv, SentIsLast, LastOnly
    <3> QED
      BY <3>1, <3>2
  <2>4. Has(RxIR', n) <=> HasRelayed(n)
    <3>1. Has(RxIR', n) <=> \E k \in 1..Len(kept) : kept[k] \in Sent
      BY <2>1 DEF Has
    <3>2. SentNow \subseteq Sent
      BY DEF SentNow
    <3> QED
      BY <1>3, <3>1, <3>2
  <2> QED
    BY <1>1, <1>2, <1>5, <2>1, <2>2, <2>3, <2>4 DEF n
<1>6. CASE ~isReTx'
  <2>1. \A k \in 1..Len(kept) : kept[k] \notin Sent /\ kept[k].number < IRmessageCount
    BY <1>3, <1>4, <1>6
  <2>2. /\ Numbered(RxIR') /\ LastOnly(RxIR')
        /\ Has(RxIR', n)
        /\ \A m \in Node \ {n} : RxIR'[m] = RxIR[m]
    BY <1>1, <1>2, <1>3, <1>6, <2>1, RememberKeepsLast
  <2> QED
    BY <1>1, <1>2, <1>4, <1>6, <2>2 DEF n
<1> QED
  BY <1>5, <1>6

\* evIREPLY's own loop ends by recording the message with its leader.
LEMMA DirectRecords ==
    ASSUME RecordInv, EndDirect
    PROVE  /\ message.nodeId \in Node
           /\ Numbered(RxIR') /\ LastOnly(RxIR')
           /\ Has(RxIR', message.nodeId)
           /\ \A m \in Node \ {message.nodeId} : RxIR'[m] = RxIR[m]
<1> DEFINE n == message.nodeId
<1>1. message # None /\ direct /\ Remember(n, RxIR[n])
  BY DEF EndDirect
<1>2. n \in Node
  BY <1>1 DEF RecordInv, TypeOK, Message
<1> HIDE DEF n
<1>3. RxIR[n] \in Seq(RecordSet)
  BY <1>2, RecordTypes DEF RecordInv
<1>4. \A k \in 1..Len(RxIR[n]) : RxIR[n][k] \notin Sent /\ RxIR[n][k].number < IRmessageCount
  BY <1>1, <1>2 DEF RecordInv, NumbersDrawn, Numbered, SentIsLast, HasRelayed, Has
<1>5. /\ Numbered(RxIR') /\ LastOnly(RxIR')
      /\ Has(RxIR', n)
      /\ \A m \in Node \ {n} : RxIR'[m] = RxIR[m]
  BY <1>1, <1>2, <1>3, <1>4, RememberKeepsLast
<1> QED
  BY <1>2, <1>5 DEF n

\* The message of the next round is the same, or none.
LEMMA RoundKeepsMessage ==
    ASSUME Round(IRReTxnodesList) PROVE message' \in {message, None}
  BY DEF Round

LEMMA InitRecords == Init => RecordInv
<1> SUFFICES ASSUME Init PROVE RecordInv
  OBVIOUS
<1>1. message = None /\ \A n \in Node : RxIR[n] = <<>>
  BY DEF Init
<1>2. NumbersDrawn
  BY <1>1, EmptySeq DEF NumbersDrawn, Numbered
<1> QED
  BY <1>1, <1>2, InitTypes DEF RecordInv, SentIsLast

LEMMA RecordsPreserved == RecordInv /\ [Next]_vars => RecordInv'
<1> SUFFICES ASSUME RecordInv, [Next]_vars PROVE RecordInv'
  OBVIOUS
<1>0. TypeOK'
  BY TypesPreserved DEF RecordInv
<1>1. ASSUME NEW r \in Replies, evIREPLY(r[1], r[2]) PROVE RecordInv'
  <2>1. /\ message' # None
        /\ message'.sequenceNumber = IRmessageCount
        /\ IRmessageCount \in Nat /\ IRmessageCount' = IRmessageCount + 1
        /\ RxIR' = RxIR
    <3>1. r[1] \in Node /\ r[2] \in Node
      BY NodeAssumption
    <3>2. message' \in Message
      BY <1>1, <3>1 DEF evIREPLY, RecordInv, TypeOK, Message
    <3> QED
      BY <1>1, <3>2, NodeAssumption DEF evIREPLY, RecordInv, TypeOK
  <2>2. NumbersDrawn'
    <3>1. \A m \in Node : \A k \in 1..Len(RxIR[m]) :
            RxIR[m][k].number \in Nat /\ RxIR[m][k].number < IRmessageCount
      BY RecordTypes DEF RecordInv, NumbersDrawn, Numbered, RecordSet
    <3>2. \A x \in Nat : x < IRmessageCount => x < IRmessageCount'
      BY <2>1
    <3>3. message'.sequenceNumber < IRmessageCount'
      BY <2>1
    <3> QED
      BY <2>1, <3>1, <3>2, <3>3 DEF NumbersDrawn, Numbered
  <2>3. \A m \in Node : \A k \in 1..Len(RxIR'[m]) : RxIR'[m][k] \notin Sent'
    BY <2>1 DEF RecordInv, NumbersDrawn, Numbered, Sent
  <2>4. SentIsLast'
    <3>1. \A m \in Node : ~HasRelayed(m)'
      BY <2>3 DEF HasRelayed, Has
    <3>2. LastOnly(RxIR)'
      BY <2>3 DEF LastOnly, OnlyLast
    <3>3. direct'
      BY <1>1 DEF evIREPLY
    <3> QED
      BY <3>1, <3>2, <3>3 DEF SentIsLast
  <2> QED
    BY <1>0, <2>2, <2>4 DEF RecordInv
<1>2. ASSUME message = None, message' = None, UNCHANGED <<RxIR, IRmessageCount>>
      PROVE  RecordInv'
  <2>1. NumbersDrawn'
    BY <1>2 DEF RecordInv, NumbersDrawn, Numbered
  <2> QED
    BY <1>0, <1>2, <2>1 DEF RecordInv, SentIsLast
<1>3. ASSUME message' \in {message, None}, UNCHANGED <<RxIR, IRmessageCount, now, direct>>
      PROVE  RecordInv'
  <2>1. NumbersDrawn'
    BY <1>3 DEF RecordInv, NumbersDrawn, Numbered
  <2>2. SentIsLast'
    BY <1>3 DEF RecordInv, SentIsLast, LastOnly, HasRelayed, Has, OnlyLast, Sent, SentNow
  <2> QED
    BY <1>0, <2>1, <2>2 DEF RecordInv
<1>4. ASSUME message # None, message' \in {message, None}, UNCHANGED <<IRmessageCount, now>>,
             Numbered(RxIR'), LastOnly(RxIR'), Has(RxIR', message.nodeId), ~direct'
      PROVE  RecordInv'
  <2>1. NumbersDrawn'
    BY <1>4 DEF RecordInv, NumbersDrawn, Numbered
  <2>2. SentIsLast'
    BY <1>4 DEF SentIsLast, LastOnly, HasRelayed, Has, OnlyLast, Sent, SentNow
  <2> QED
    BY <1>0, <2>1, <2>2 DEF RecordInv
<1>5. CASE HandOrRelay
  BY <1>3, <1>5 DEF HandOrRelay, worldVars
<1>6. CASE EndDirect
  <2>1. message # None /\ message' \in {message, None} /\ ~direct'
        /\ UNCHANGED <<IRmessageCount, now>>
    BY <1>6, RoundKeepsMessage DEF EndDirect, worldVars
  <2> QED
    BY <1>4, <1>6, <2>1, DirectRecords
<1>7. CASE Relay
  <2>1. message # None /\ message' = message /\ ~direct /\ ~direct'
        /\ UNCHANGED <<IRmessageCount, now>>
    BY <1>7 DEF Relay, worldVars
  <2>2. HasRelayed(message.nodeId) /\ message.nodeId \in Node
    BY <2>1 DEF RecordInv, SentIsLast, TypeOK, Message
  <2>3. Has(RxIR', message.nodeId)
    BY <1>7, <2>2, RelayRecords DEF HasRelayed, Has
  <2> QED
    BY <1>4, <1>7, <2>1, <2>3, RelayRecords
<1>8. CASE EndRound
  <2>1. message' \in {message, None} /\ UNCHANGED <<RxIR, IRmessageCount, now, direct>>
    BY <1>8, RoundKeepsMessage DEF EndRound, worldVars
  <2> QED
    BY <1>3, <2>1
<1>9. CASE (\E n \in Node : nodePeriodicUpdate(n)) \/ nodeMovementUpdate \/ PassTime
  BY <1>2, <1>9 DEF nodePeriodicUpdate, nodeMovementUpdate, PassTime, loopVars
<1>10. CASE UNCHANGED vars
  BY <1>3, <1>10 DEF vars, worldVars, loopVars
<1> QED
  BY <1>1, <1>5, <1>6, <1>7, <1>8, <1>9, <1>10 DEF Next, Flooding

\* Lists of relays without the leader.
WithoutLeader(relays) == \A k \in 1..Len(relays) : relays[k] # message.leaderId

\* The leader of the reply in flight is not its sender, is no relay of this
\* round or of the next, and has no record of it.
LeaderSilent ==
    message # None =>
        /\ message.leaderId # message.nodeId
        /\ WithoutLeader(IRReTxnodesList)
        /\ ~direct => WithoutLeader(tempIRRxTxnodelist)
        /\ ~HasRelayed(message.leaderId)

ReplyInv == RecordInv /\ LeaderSilent

LEMMA MessageNodes ==
    ASSUME TypeOK, message # None
    PROVE  message.leaderId \in Node /\ message.nodeId \in Node
  BY DEF TypeOK, Message

\* A call of ReTxIREPLYMessage makes the relays of the next round those of this.
LEMMA RoundKeepsSilent ==
    ASSUME ReplyInv, message # None, Round(IRReTxnodesList), ~direct', ~Has(RxIR', message.leaderId)
    PROVE  LeaderSilent'
<1>1. /\ message.leaderId # message.nodeId
      /\ WithoutLeader(IRReTxnodesList)
  BY DEF ReplyInv, LeaderSilent
<1>2. CASE message' = None
  BY <1>2 DEF LeaderSilent
<1>3. CASE message' = message /\ IRReTxnodesList' = <<>> /\ tempIRRxTxnodelist' = IRReTxnodesList
  <2>1. WithoutLeader(IRReTxnodesList)'
    BY <1>3, EmptySeq DEF WithoutLeader
  <2>2. WithoutLeader(tempIRRxTxnodelist)'
    BY <1>1, <1>3 DEF WithoutLeader
  <2>3. ~HasRelayed(message.leaderId)'
    BY <1>3 DEF HasRelayed, Has, Sent
  <2> QED
    BY <1>1, <1>3, <2>1, <2>2, <2>3 DEF LeaderSilent
<1> QED
  BY <1>2, <1>3 DEF Round

LEMMA HandKeepsSilent ==
    ASSUME ReplyInv, HandOrRelay
    PROVE  LeaderSilent'
<1>1. /\ message # None /\ message' = message
      /\ UNCHANGED <<direct, tempIRRxTxnodelist, RxIR>>
      /\ \/ UNCHANGED IRReTxnodesList
         \/ /\ Head(todo) # message.leaderId
            /\ IRReTxnodesList' = Append(IRReTxnodesList, Head(todo))
  BY DEF HandOrRelay
<1>2. WithoutLeader(IRReTxnodesList)
  BY <1>1 DEF ReplyInv, LeaderSilent
<1>3. WithoutLeader(IRReTxnodesList)'
  <2>1. CASE UNCHANGED IRReTxnodesList
    BY <1>1, <1>2, <2>1 DEF WithoutLeader
  <2>2. CASE /\ Head(todo) # message.leaderId
             /\ IRReTxnodesList' = Append(IRReTxnodesList, Head(todo))
    <3>1. IRReTxnodesList \in Seq(Node) /\ Head(todo) \in Node
      BY HeadTailProperties DEF ReplyInv, RecordInv, TypeOK, HandOrRelay
    <3>2. /\ Len(IRReTxnodesList') = Len(IRReTxnodesList) + 1
          /\ Len(IRReTxnodesList) \in Nat
          /\ \A k \in 1..Len(IRReTxnodesList) : IRReTxnodesList'[k] = IRReTxnodesList[k]
          /\ IRReTxnodesList'[Len(IRReTxnodesList')] = Head(todo)
      BY <2>2, <3>1, AppendProperties, LenProperties
    <3>3. \A k \in 1..Len(IRReTxnodesList') :
            k \in 1..Len(IRReTxnodesList) \/ k = Len(IRReTxnodesList')
      BY <3>2
    <3> QED
      BY <1>1, <1>2, <2>2, <3>2, <3>3 DEF WithoutLeader
  <2> QED
    BY <1>1, <2>1, <2>2
<1>4. HasRelayed(message.leaderId)' <=> HasRelayed(message.leaderId)
  BY <1>1 DEF HasRelayed, Has, Sent
<1>5. WithoutLeader(tempIRRxTxnodelist)' <=> WithoutLeader(tempIRRxTxnodelist)
  BY <1>1 DEF WithoutLeader
<1> QED
  BY <1>1, <1>3, <1>4, <1>5 DEF ReplyInv, LeaderSilent

LEMMA SilentPreserved == ReplyInv /\ [Next]_vars => ReplyInv'
<1> SUFFICES ASSUME ReplyInv, [Next]_vars PROVE ReplyInv'
  OBVIOUS
<1>0. RecordInv /\ RecordInv' /\ TypeOK
  BY RecordsPreserved DEF ReplyInv, RecordInv
<1> SUFFICES LeaderSilent'
  BY <1>0 DEF ReplyInv
<1>1. ASSUME NEW r \in Replies, evIREPLY(r[1], r[2]) PROVE LeaderSilent'
  <2>1. r[1] \in Node /\ r[2] \in Node /\ r[1] # r[2]
    BY NodeAssumption
  <2>2. /\ message'.leaderId = r[2] /\ message'.nodeId = r[1]
        /\ message'.sequenceNumber = IRmessageCount
        /\ IRReTxnodesList' = <<>> /\ direct' /\ RxIR' = RxIR
    BY <1>1 DEF evIREPLY
  <2>3. WithoutLeader(IRReTxnodesList)'
    BY <2>2, EmptySeq DEF WithoutLeader
  <2>4. ~HasRelayed(message.leaderId)'
    <3>1. \A m \in Node : \A k \in 1..Len(RxIR[m]) :
            RxIR[m][k].number \in Nat /\ RxIR[m][k].number < IRmessageCount
      BY <1>0, RecordTypes DEF RecordInv, NumbersDrawn, Numbered, RecordSet
    <3>2. \A x \in Nat : x < IRmessageCount => x # IRmessageCount
      OBVIOUS
    <3> QED
      BY <2>1, <2>2, <3>1, <3>2 DEF HasRelayed, Has, Sent
  <2> QED
    BY <2>1, <2>2, <2>3, <2>4 DEF LeaderSilent
<1>2. CASE HandOrRelay
  BY <1>2, HandKeepsSilent
<1>3. CASE EndDirect
  <2>1. message # None /\ ~direct' /\ Round(IRReTxnodesList)
    BY <1>3 DEF EndDirect
  <2>2. message.leaderId \in Node \ {message.nodeId} /\ ~HasRelayed(message.leaderId)
    BY <1>0, <2>1, MessageNodes DEF ReplyInv, LeaderSilent
  <2>3. ~Has(RxIR', message.leaderId)
    BY <1>0, <1>3, <2>2, DirectRecords DEF HasRelayed, Has
  <2> QED
    BY <2>1, <2>3, RoundKeepsSilent
<1>4. CASE Relay
  <2>1. /\ message # None /\ message' = message /\ ~direct /\ ~direct'
        /\ UNCHANGED <<IRReTxnodesList, tempIRRxTxnodelist>>
    BY <1>4 DEF Relay
  <2>2. /\ message.leaderId # message.nodeId
        /\ WithoutLeader(IRReTxnodesList) /\ WithoutLeader(tempIRRxTxnodelist)
        /\ ~HasRelayed(message.leaderId)
    BY <2>1 DEF ReplyInv, LeaderSilent
  <2>3. i \in 1..Len(tempIRRxTxnodelist)
    BY <1>0, <1>4, LenProperties DEF Relay, TypeOK
  <2>4. message.leaderId \in Node \ {tempIRRxTxnodelist[i]}
    BY <1>0, <2>1, <2>2, <2>3, MessageNodes DEF WithoutLeader
  <2>5. ~HasRelayed(message.leaderId)'
    BY <1>0, <1>4, <2>1, <2>2, <2>4, RelayRecords DEF HasRelayed, Has, Sent
  <2> QED
    BY <2>1, <2>2, <2>5 DEF LeaderSilent, WithoutLeader
<1>5. CASE EndRound
  <2>1. message # None /\ ~direct' /\ Round(IRReTxnodesList) /\ RxIR' = RxIR
    BY <1>5 DEF EndRound, RoundOver
  <2>2. ~Has(RxIR', message.leaderId)
    BY <2>1 DEF ReplyInv, LeaderSilent, HasRelayed, Has
  <2> QED
    BY <2>1, <2>2, RoundKeepsSilent
<1>6. CASE (\E n \in Node : nodePeriodicUpdate(n)) \/ nodeMovementUpdate \/ PassTime
  BY <1>6 DEF nodePeriodicUpdate, nodeMovementUpdate, PassTime, loopVars, LeaderSilent
<1>7. CASE UNCHANGED vars
  BY <1>7 DEF vars, loopVars, ReplyInv, LeaderSilent, WithoutLeader, HasRelayed, Has, Sent
<1> QED
  BY <1>1, <1>2, <1>3, <1>4, <1>5, <1>6, <1>7 DEF Next, Flooding

LEMMA OneRecord == ReplyInv => RelaysOnce
<1>1. ASSUME ReplyInv, message # None, NEW n \in Node
      PROVE  Relays(n) <= 1 /\ (~HasRelayed(n) => Relays(n) = 0)
  <2> DEFINE matching == {k \in DOMAIN RxIR[n] :
                            /\ RxIR[n][k].from = message.nodeId
                            /\ RxIR[n][k].number = message.sequenceNumber}
  <2>1. matching \subseteq {Len(RxIR[n])} /\ (~HasRelayed(n) => matching = {})
    <3>1. DOMAIN RxIR[n] = 1..Len(RxIR[n])
      BY <1>1, RecordTypes, LenProperties DEF ReplyInv, RecordInv
    <3>2. \A k \in 1..Len(RxIR[n]) :
            RxIR[n][k].number = message.sequenceNumber => k = Len(RxIR[n]) /\ HasRelayed(n)
      BY <1>1, RecordTypes
         DEF ReplyInv, RecordInv, SentIsLast, LastOnly, OnlyLast, Sent, HasRelayed, Has
    <3> QED
      BY <3>1, <3>2
  <2>2. IsFiniteSet({Len(RxIR[n])}) /\ Cardinality({Len(RxIR[n])}) = 1
    BY FS_Singleton
  <2> HIDE DEF matching
  <2>3. IsFiniteSet(matching) /\ Cardinality(matching) <= 1
    BY <2>1, <2>2, FS_Subset
  <2>4. Cardinality({}) = 0
    BY FS_EmptySet
  <2> QED
    BY <2>1, <2>3, <2>4 DEF Relays, matching
<1> SUFFICES ASSUME ReplyInv, message # None
             PROVE  /\ \A n \in Node : Relays(n) <= 1
                    /\ Relays(message.leaderId) = 0
  BY DEF RelaysOnce
<1>2. message.leaderId \in Node /\ ~HasRelayed(message.leaderId)
  BY MessageNodes DEF ReplyInv, RecordInv, LeaderSilent
<1> QED
  BY <1>1, <1>2

LEMMA InitReplies == Init => ReplyInv
  BY InitRecords DEF Init, ReplyInv, LeaderSilent

\* On no network does a node relay a reply twice, or the node that replies its
\* own, or the leader one meant for it.
THEOREM RelaysOnceHolds == Spec => []RelaysOnce
  BY OneRecord, InitReplies, SilentPreserved, PTL DEF Spec

-----------------------------------------------------------------------------
(* The leader is reached, and only over nodes that are connected.          *)

\* Those who have sent the reply, the relays of this round that have not had
\* their turn, and the leader when it has been handed the reply.
Senders == {message.nodeId} \cup {n \in Node : HasRelayed(n)}

ToRelay ==
    IF direct THEN {} ELSE {tempIRRxTxnodelist[k] : k \in i..Len(tempIRRxTxnodelist)}

Served == IF handed > 0 THEN {message.leaderId} ELSE {}

Reached == Senders \cup ElementsOf(todo) \cup ElementsOf(IRReTxnodesList) \cup ToRelay \cup Served

\* Who is in range of one who has sent the reply has sent it or been handed it,
\* or its turn will come.
NoneIsLost ==
    message # None /\ ~forgot =>
        \A s \in Senders : \A m \in Active : InRange(loc, s, m) => m \in Reached

\* Nobody is reached who is outside a set the reply cannot leave.
Closed(C) ==
    \A s \in C \ {message.leaderId} : \A m \in Active : InRange(loc, s, m) => m \in C

OnlyConnected ==
    message # None =>
        \A C \in SUBSET Node : message.nodeId \in C /\ Closed(C) => Reached \subseteq C

ReachInv == ReplyInv /\ NoneIsLost /\ OnlyConnected

\* What a relay does to its records and to the receivers.
LEMMA RelayTurn ==
    ASSUME RecordInv, Relay
    PROVE  /\ tempIRRxTxnodelist[i] \in Node
           /\ ~forgot' => ~forgot /\ Has(RxIR', tempIRRxTxnodelist[i])
           /\ IF isReTx'
              THEN UNCHANGED todo
              ELSE todo' \in Receivers(loc, tempIRRxTxnodelist[i], Active)
<1> DEFINE n == tempIRRxTxnodelist[i]
<1>0. n \in Node /\ message # None
  BY RelayRecords DEF Relay
<1>1. PICK kept \in Remembered(RxIR[n], now, IREPLY_EXPIRE_TIME) :
        /\ isReTx' = Repeated(RxIR[n], kept, message.nodeId,
                              message.sequenceNumber, isReTx)
        /\ forgot' = (forgot \/ (RxIR[n] # <<>> /\ kept = <<>>))
        /\ IF isReTx'
           THEN /\ RxIR' = [RxIR EXCEPT ![n] = kept]
                /\ UNCHANGED todo
           ELSE /\ Remember(n, kept)
                /\ todo' \in Receivers(loc, n, Active)
  BY Zenon DEF Relay
<1>2. ~isReTx' => Has(RxIR', n)
  BY RelayRecords DEF n
<1> HIDE DEF n
<1>3. ASSUME isReTx', ~forgot' PROVE Has(RxIR', n)
  <2>1. /\ RxIR[n] # <<>> /\ kept # <<>>
        /\ kept[Len(kept)].number = message.sequenceNumber
    BY <1>1, <1>3 DEF Repeated
  <2>2. kept \in Seq(RecordSet)
    BY <1>0, SweepKeepsSent
  <2>3. Len(kept) \in 1..Len(kept)
    BY <2>1, <2>2, EmptySeq, LenProperties
  <2>4. kept[Len(kept)] \in Sent
    BY <2>1, <2>2, <2>3, ElementOfSeq DEF Sent
  <2>5. RxIR'[n] = kept
    BY <1>0, <1>1, <1>3, RecordTypes DEF RecordInv
  <2> QED
    BY <2>3, <2>4, <2>5 DEF Has
<1>4. ~forgot' => ~forgot
  BY <1>1
<1>5. IF isReTx' THEN UNCHANGED todo ELSE todo' \in Receivers(loc, n, Active)
  BY <1>1
<1> QED
  BY <1>0, <1>2, <1>3, <1>4, <1>5 DEF n

\* The first receiver moves from one list to the other, or is served.
LEMMA HandKeepsReached ==
    ASSUME TypeOK, HandOrRelay
    PROVE  /\ message # None
           /\ UNCHANGED <<message, loc, isActive, forgot, Senders, Reached>>
<1> DEFINE h == Head(todo)
<1>1. /\ message # None /\ todo # <<>> /\ todo' = Tail(todo)
      /\ UNCHANGED <<message, loc, isActive, forgot, RxIR, direct, i, tempIRRxTxnodelist>>
      /\ IF h = message.leaderId
         THEN /\ handed' = handed + 1 /\ UNCHANGED IRReTxnodesList
         ELSE /\ IRReTxnodesList' = Append(IRReTxnodesList, h) /\ UNCHANGED handed
  BY DEF HandOrRelay, worldVars
<1>2. /\ todo \in Seq(Node) /\ IRReTxnodesList \in Seq(Node) /\ h \in Node /\ handed \in Nat
  BY <1>1, HeadTailProperties DEF TypeOK
<1> HIDE DEF h
<1>3. /\ ElementsOf(todo) = {h} \cup ElementsOf(todo')
      /\ ElementsOf(Append(IRReTxnodesList, h)) = ElementsOf(IRReTxnodesList) \cup {h}
  BY <1>1, <1>2, ElementsOfLists DEF h
<1>4. /\ ElementsOf(todo)' = ElementsOf(todo')
      /\ ElementsOf(IRReTxnodesList)' = ElementsOf(IRReTxnodesList')
      /\ Senders' = Senders /\ ToRelay' = ToRelay
  BY <1>1 DEF ElementsOf, Senders, HasRelayed, Has, Sent, ToRelay
<1>5. ElementsOf(IRReTxnodesList') \cup Served' = ElementsOf(IRReTxnodesList) \cup Served \cup {h}
  <2>1. CASE h = message.leaderId
    <3>1. handed' > 0
      BY <1>1, <1>2, <2>1
    <3> QED
      BY <1>1, <2>1, <3>1 DEF Served
  <2>2. CASE h # message.leaderId
    BY <1>1, <1>3, <2>2 DEF Served
  <2> QED
    BY <2>1, <2>2
<1>6. Reached' = Reached
  <2>1. Reached' = Senders' \cup ElementsOf(todo)' \cup ElementsOf(IRReTxnodesList)'
                     \cup ToRelay' \cup Served'
    BY DEF Reached
  <2> QED
    BY <1>3, <1>4, <1>5, <2>1 DEF Reached
<1> QED
  BY <1>1, <1>4, <1>6

\* The relays of the next round are those this one has found.
LEMMA RoundKeepsReached ==
    ASSUME TypeOK, Round(IRReTxnodesList), message' # None, ~direct',
           todo = <<>>, todo' = todo, ToRelay = {}, Senders' = Senders
    PROVE  message' = message /\ Reached' = Reached
<1>1. /\ message' = message /\ IRReTxnodesList' = <<>> /\ handed' = handed
      /\ tempIRRxTxnodelist' = IRReTxnodesList /\ i' = 1
  BY DEF Round
<1>2. /\ ToRelay' = ElementsOf(IRReTxnodesList) /\ Served' = Served
      /\ ElementsOf(IRReTxnodesList)' = {} /\ ElementsOf(todo)' = ElementsOf(todo)
  BY <1>1, NoElements DEF ToRelay, ElementsOf, Served
<1> QED
  BY <1>1, <1>2 DEF Reached

LEMMA ReachPreserved == ReachInv /\ [Next]_vars => ReachInv'
<1> SUFFICES ASSUME ReachInv, [Next]_vars PROVE ReachInv'
  OBVIOUS
<1>0. ReplyInv /\ RecordInv /\ TypeOK /\ ReplyInv' /\ RecordInv'
  BY SilentPreserved DEF ReachInv, ReplyInv, RecordInv
<1> SUFFICES NoneIsLost' /\ OnlyConnected'
  BY <1>0 DEF ReachInv
<1>1. CASE message' = None
  BY <1>1 DEF NoneIsLost, OnlyConnected
<1>2. ASSUME message # None, UNCHANGED <<message, loc, isActive, forgot, Senders, Reached>>
      PROVE  NoneIsLost' /\ OnlyConnected'
  <2>1. Active' = Active
    BY <1>2 DEF Active
  <2>2. \A C \in SUBSET Node : Closed(C)' <=> Closed(C)
    BY <1>2, <2>1 DEF Closed
  <2>3. NoneIsLost'
    BY <1>2, <2>1 DEF ReachInv, NoneIsLost
  <2> QED
    BY <1>2, <2>2, <2>3 DEF ReachInv, OnlyConnected
<1>3. ASSUME NEW r \in Replies, evIREPLY(r[1], r[2]) PROVE NoneIsLost' /\ OnlyConnected'
  <2>1. /\ r[1] \in Node /\ message' # None /\ message'.nodeId = r[1]
        /\ Active' = Active /\ loc' = loc /\ direct' /\ handed' = 0
        /\ todo' \in Receivers(loc, r[1], Active) /\ IRReTxnodesList' = <<>>
        /\ message'.leaderId # r[1]
    <3>1. r[1] \in Node /\ r[2] \in Node /\ r[1] # r[2]
      BY NodeAssumption
    <3>2. message' \in Message
      BY <1>0, <1>3, <3>1 DEF evIREPLY, TypeOK, Message
    <3> QED
      BY <1>3, <3>1, <3>2, NodeAssumption DEF evIREPLY, Active
  <2>2. Senders' = {r[1]}
    <3>1. \A m \in Node : ~HasRelayed(m)'
      BY <1>0, <2>1 DEF RecordInv, SentIsLast
    <3> QED
      BY <2>1, <3>1 DEF Senders
  <2>3. ElementsOf(todo') = {m \in Active : InRange(loc, r[1], m)}
    BY ActiveNodes, <2>1, ReceiversAreAll
  <2>4. Reached' = {r[1]} \cup ElementsOf(todo')
    <3>1. ToRelay' = {} /\ Served' = {} /\ ElementsOf(IRReTxnodesList)' = {}
      BY <2>1, NoElements DEF ToRelay, Served
    <3>2. ElementsOf(todo)' = ElementsOf(todo')
      BY DEF ElementsOf
    <3> QED
      BY <2>2, <3>1, <3>2 DEF Reached
  <2>5. NoneIsLost'
    BY <2>1, <2>2, <2>3, <2>4 DEF NoneIsLost
  <2>6. OnlyConnected'
    BY <2>1, <2>3, <2>4 DEF OnlyConnected, Closed
  <2> QED
    BY <2>5, <2>6
<1>4. CASE HandOrRelay
  BY <1>0, <1>2, <1>4, HandKeepsReached
<1>5. CASE EndDirect /\ message' # None
  <2>1. /\ message # None /\ direct /\ ~direct' /\ todo = <<>> /\ todo' = todo
        /\ Round(IRReTxnodesList) /\ UNCHANGED <<loc, isActive, forgot>>
    BY <1>5 DEF EndDirect, worldVars
  <2>2. Senders' = Senders
    <3>1. message' = message
      BY <1>5, <2>1 DEF Round
    <3>2. /\ message.nodeId \in Node
          /\ \A m \in Node \ {message.nodeId} : Has(RxIR', m) <=> HasRelayed(m)
      BY <1>0, <1>5, DirectRecords DEF HasRelayed, Has
    <3>3. Senders' = {message.nodeId} \cup {m \in Node : Has(RxIR', m)}
      BY <3>1 DEF Senders, HasRelayed, Has, Sent
    <3> QED
      BY <3>2, <3>3 DEF Senders
  <2>3. ToRelay = {}
    BY <2>1 DEF ToRelay
  <2>4. message' = message /\ Reached' = Reached
    BY <1>0, <1>5, <2>1, <2>2, <2>3, RoundKeepsReached
  <2> QED
    BY <1>2, <2>1, <2>2, <2>4
<1>6. CASE EndRound /\ message' # None
  <2>1. /\ message # None /\ ~direct /\ ~direct' /\ todo = <<>> /\ todo' = todo
        /\ i > Len(tempIRRxTxnodelist) /\ RxIR' = RxIR
        /\ Round(IRReTxnodesList) /\ UNCHANGED <<loc, isActive, forgot>>
    BY <1>6 DEF EndRound, RoundOver, worldVars
  <2>2. ToRelay = {}
    <3>1. i..Len(tempIRRxTxnodelist) = {}
      BY <1>0, <2>1, LenProperties DEF TypeOK
    <3> QED
      BY <3>1 DEF ToRelay
  <2>3. Senders' = Senders
    BY <1>6, <2>1 DEF Round, Senders, HasRelayed, Has, Sent
  <2>4. message' = message /\ Reached' = Reached
    BY <1>0, <1>6, <2>1, <2>2, <2>3, RoundKeepsReached
  <2> QED
    BY <1>2, <2>1, <2>3, <2>4
<1>7. CASE Relay
  <2> DEFINE n == tempIRRxTxnodelist[i]
  <2>1. /\ message # None /\ message' = message /\ ~direct /\ todo = <<>>
        /\ i' = i + 1 /\ i \in 1..Len(tempIRRxTxnodelist)
        /\ UNCHANGED <<direct, tempIRRxTxnodelist, IRReTxnodesList, loc, isActive, handed>>
    BY <1>0, <1>7, LenProperties DEF Relay, worldVars, TypeOK
  <2>2. /\ n \in Node
        /\ \A m \in Node \ {n} : RxIR'[m] = RxIR[m]
        /\ Has(RxIR', n) <=> HasRelayed(n) \/ ~isReTx'
        /\ ~forgot' => ~forgot /\ Has(RxIR', n)
        /\ IF isReTx' THEN UNCHANGED todo ELSE todo' \in Receivers(loc, n, Active)
    BY <1>0, <1>7, RelayRecords, RelayTurn
  <2>3. ToRelay = {n} \cup ToRelay'
    <3>1. Len(tempIRRxTxnodelist) \in Nat
      BY <1>0, LenProperties DEF TypeOK
    <3>2. i..Len(tempIRRxTxnodelist) = {i} \cup (i+1..Len(tempIRRxTxnodelist))
      BY <2>1, <3>1
    <3> QED
      BY <2>1, <3>2 DEF ToRelay
  <2>4. n # message.leaderId
    BY <2>1 DEF ReachInv, ReplyInv, LeaderSilent, WithoutLeader
  <2> HIDE DEF n
  <2>5. /\ Senders \subseteq Senders' /\ Senders' \subseteq Senders \cup {n}
        /\ ~forgot' => n \in Senders'
    <3>1. Senders' = {message.nodeId} \cup {m \in Node : Has(RxIR', m)}
      BY <2>1 DEF Senders, HasRelayed, Has, Sent
    <3>2. \A m \in Node \ {n} : Has(RxIR', m) <=> HasRelayed(m)
      BY <2>2 DEF HasRelayed, Has
    <3> QED
      BY <2>2, <3>1, <3>2 DEF Senders
  <2>6. /\ Reached = Senders \cup ElementsOf(IRReTxnodesList) \cup {n} \cup ToRelay' \cup Served
        /\ Reached' = Senders' \cup ElementsOf(todo') \cup ElementsOf(IRReTxnodesList)
                        \cup ToRelay' \cup Served
    <3>1. Served' = Served /\ ElementsOf(IRReTxnodesList)' = ElementsOf(IRReTxnodesList)
          /\ ElementsOf(todo)' = ElementsOf(todo')
      BY <2>1 DEF Served, ElementsOf
    <3> QED
      BY <2>1, <2>3, <3>1, NoElements DEF Reached
  <2>7. /\ ElementsOf(todo') \subseteq {m \in Active : InRange(loc, n, m)}
        /\ ~isReTx' => ElementsOf(todo') = {m \in Active : InRange(loc, n, m)}
    <3>1. isReTx' => ElementsOf(todo') = {}
      BY <2>1, <2>2, NoElements
    <3> QED
      BY <2>2, <3>1, ActiveNodes, ReceiversAreAll
  <2>8. Active' = Active
    BY <2>1 DEF Active
  <2>9. NoneIsLost'
    <3> SUFFICES ASSUME ~forgot', NEW s \in Senders', NEW m \in Active, InRange(loc, s, m)
                 PROVE  m \in Reached'
      BY <2>1, <2>8 DEF NoneIsLost
    <3>1. Reached \subseteq Reached'
      BY <2>5, <2>6
    <3>2. CASE s \in Senders
      BY <2>1, <2>2, <3>1, <3>2 DEF ReachInv, NoneIsLost
    <3>3. CASE s = n /\ s \notin Senders
      <4>1. ~isReTx'
        BY <2>2, <3>3 DEF Senders
      <4> QED
        BY <2>6, <2>7, <3>3, <4>1
    <3> QED
      BY <2>5, <3>2, <3>3
  <2>10. OnlyConnected'
    <3> SUFFICES ASSUME NEW C \in SUBSET Node, message.nodeId \in C, Closed(C)'
                 PROVE  Reached' \subseteq C
      BY <2>1 DEF OnlyConnected
    <3>1. Closed(C)
      BY <2>1, <2>8 DEF Closed
    <3>2. Reached \subseteq C
      BY <2>1, <3>1 DEF ReachInv, OnlyConnected
    <3>3. ElementsOf(todo') \subseteq C
      BY <2>4, <2>6, <2>7, <3>1, <3>2 DEF Closed
    <3> QED
      BY <2>5, <2>6, <3>2, <3>3
  <2> QED
    BY <2>9, <2>10
<1>8. CASE (\E n \in Node : nodePeriodicUpdate(n)) \/ nodeMovementUpdate \/ PassTime
  BY <1>1, <1>8 DEF nodePeriodicUpdate, nodeMovementUpdate, PassTime, loopVars
<1>9. CASE UNCHANGED vars /\ message' # None
  <2>1. message # None /\ UNCHANGED <<message, loc, isActive, forgot>>
    BY <1>9 DEF vars, worldVars, loopVars
  <2>2. UNCHANGED <<Senders, Reached>>
    BY <1>9 DEF vars, worldVars, loopVars, Senders, HasRelayed, Has, Sent, Reached,
                ElementsOf, ToRelay, Served
  <2> QED
    BY <1>2, <2>1, <2>2
<1> QED
  BY <1>1, <1>3, <1>4, <1>5, <1>6, <1>7, <1>8, <1>9 DEF Next, Flooding

LEMMA ReachAlways == Init /\ [][Next]_vars => []ReachInv
<1>1. Init => ReachInv
  BY InitReplies DEF Init, ReachInv, NoneIsLost, OnlyConnected
<1> QED
  BY <1>1, ReachPreserved, PTL

\* The recursion of Connected gives the least set with n in it that no active
\* node in range of a member is outside of: it has stopped growing after as
\* many steps as there are nodes.
LEMMA ConnectedIsLeast ==
    ASSUME NEW n \in Node, NEW leader
    PROVE  /\ Connected(n, leader) \in SUBSET Node
           /\ n \in Connected(n, leader)
           /\ \A s \in Connected(n, leader) \ {leader} : \A m \in Active :
                InRange(loc, s, m) => m \in Connected(n, leader)
           /\ \A C \in SUBSET Node :
                /\ n \in C
                /\ \A s \in C \ {leader} : \A m \in Active : InRange(loc, s, m) => m \in C
                => Connected(n, leader) \subseteq C
<1> DEFINE Near(X) == {m \in Active : \E s \in X \ {leader} : InRange(loc, s, m)}
           reach == CHOOSE f : f = [k \in Nat |->
                      IF k = 0 THEN {n}
                      ELSE f[k-1] \cup
                             {m \in Active : \E s \in f[k-1] \ {leader} : InRange(loc, s, m)}]
<1>1. PICK S : S = SUBSET Node
  OBVIOUS
<1>2. PICK start \in S : start = {n}
  BY <1>1
<1>3. PICK step \in [S -> S] : \A X \in S : step[X] = X \cup Near(X)
  <2> DEFINE step == [X \in S |-> X \cup Near(X)]
  <2>1. step \in [S -> S]
    BY <1>1, ActiveNodes
  <2>2. \A X \in S : step[X] = X \cup Near(X)
    OBVIOUS
  <2> QED
    BY <2>1, <2>2
<1> DEFINE f == Iterates(S, start, step)
<1>4. f \in [Nat -> S] /\ f[0] = start /\ \A k \in Nat : f[k+1] = step[f[k]]
  BY IteratesExist
<1> HIDE DEF f
<1>5. f = [k \in Nat |->
             IF k = 0 THEN {n}
             ELSE f[k-1] \cup
                    {m \in Active : \E s \in f[k-1] \ {leader} : InRange(loc, s, m)}]
  <2>1. ASSUME NEW k \in Nat \ {0} PROVE f[k] = f[k-1] \cup Near(f[k-1])
    <3>1. k - 1 \in Nat /\ k - 1 + 1 = k
      OBVIOUS
    <3>2. f[k] = step[f[k-1]] /\ f[k-1] \in S
      BY <1>4, <3>1
    <3> QED
      BY <1>3, <3>2
  <2> QED
    BY <1>2, <1>4, <2>1
<1>6. reach = [k \in Nat |->
                 IF k = 0 THEN {n}
                 ELSE reach[k-1] \cup
                        {m \in Active : \E s \in reach[k-1] \ {leader} : InRange(loc, s, m)}]
  BY <1>5
<1>7. Connected(n, leader) = reach[Cardinality(Node)]
  BY DEF Connected
<1> HIDE DEF reach
<1>8. reach[0] = {n} /\ \A k \in Nat : reach[k+1] = reach[k] \cup Near(reach[k])
  BY <1>6
<1> HIDE DEF Near
<1>9. reach \in [Nat -> SUBSET Node]
  <2> DEFINE P == {k \in Nat : reach[k] \subseteq Node}
  <2>1. \A X : Near(X) \subseteq Node
    BY ActiveNodes DEF Near
  <2>2. 0 \in P /\ \A k \in Nat : k \in P => k + 1 \in P
    BY <1>8, <2>1
  <2>3. Nat \subseteq P
    <3> HIDE DEF P
    <3> QED
      BY <2>2, InductionOnNat
  <2> QED
    BY <1>6, <2>3
<1> DEFINE N == Cardinality(Node)
<1>10. N \in Nat
  BY NodeAssumption, FS_CardinalityType
<1>11. reach[N + 1] = reach[N]
  <2>1. /\ reach[0] # {}
        /\ \A k \in Nat : reach[k] \subseteq reach[k+1]
    BY <1>8
  <2>2. ASSUME NEW k \in Nat, reach[k+1] = reach[k] PROVE reach[k+1+1] = reach[k+1]
    <3>1. reach[k+1+1] = reach[k+1] \cup Near(reach[k+1])
      BY <1>8
    <3>2. reach[k+1] = reach[k] \cup Near(reach[k])
      BY <1>8
    <3> QED
      BY <2>2, <3>1, <3>2
  <2> QED
    BY <1>9, <2>1, <2>2, NodeAssumption, GrowthEnds
<1>12. Near(reach[N]) \subseteq reach[N]
  BY <1>8, <1>10, <1>11
<1>13. n \in reach[N]
  <2> DEFINE P == {k \in Nat : n \in reach[k]}
  <2>1. 0 \in P /\ \A k \in Nat : k \in P => k + 1 \in P
    BY <1>8
  <2>2. Nat \subseteq P
    <3> HIDE DEF P
    <3> QED
      BY <2>1, InductionOnNat
  <2> QED
    BY <1>10, <2>2
<1>14. ASSUME NEW C \in SUBSET Node, n \in C,
              \A s \in C \ {leader} : \A m \in Active : InRange(loc, s, m) => m \in C
       PROVE  reach[N] \subseteq C
  <2>1. reach[0] \subseteq C /\ \A k \in Nat : reach[k] \subseteq C => reach[k+1] \subseteq C
    BY <1>8, <1>14 DEF Near
  <2>2. \A k \in Nat : reach[k] \subseteq C
    BY <1>9, <2>1, GrowthStaysWithin
  <2> QED
    BY <1>10, <2>2
<1>15. \A s \in reach[N] \ {leader} : \A m \in Active : InRange(loc, s, m) => m \in reach[N]
  BY <1>12 DEF Near
<1>16. reach[N] \in SUBSET Node
  BY <1>9, <1>10
<1> QED
  BY <1>7, <1>13, <1>14, <1>15, <1>16

LEMMA EndOfRelays == ReachInv => LeaderIsReached
<1> SUFFICES ASSUME ReachInv, Ending, ~forgot
             PROVE  handed > 0 <=>
                      message.leaderId \in Connected(message.nodeId, message.leaderId)
  BY DEF LeaderIsReached
<1>1. /\ message # None /\ ~direct /\ todo = <<>> /\ IRReTxnodesList = <<>>
      /\ i > Len(tempIRRxTxnodelist) /\ TypeOK /\ RecordInv /\ ReplyInv
  BY DEF Ending, RoundOver, ReachInv, ReplyInv, RecordInv
<1>2. message.leaderId \in Node /\ message.nodeId \in Node
  BY <1>1, MessageNodes
<1>3. Reached = Senders \cup Served
  <2>1. i..Len(tempIRRxTxnodelist) = {}
    BY <1>1, LenProperties DEF TypeOK
  <2>2. ToRelay = {}
    BY <2>1 DEF ToRelay
  <2> QED
    BY <1>1, <2>2, NoElements DEF Reached
<1> DEFINE C == Connected(message.nodeId, message.leaderId)
<1>4. /\ C \in SUBSET Node /\ message.nodeId \in C /\ Closed(C)
      /\ \A D \in SUBSET Node : message.nodeId \in D /\ Closed(D) => C \subseteq D
  BY <1>2, ConnectedIsLeast DEF Closed
<1> HIDE DEF C
<1>5. handed > 0 => message.leaderId \in C
  BY <1>1, <1>3, <1>4 DEF ReachInv, OnlyConnected, Served
<1>6. ASSUME message.leaderId \in C PROVE handed > 0
  <2>1. Reached \in SUBSET Node /\ message.nodeId \in Reached
    BY <1>2, <1>3 DEF Senders, Served
  <2>2. Closed(Reached)
    BY <1>1, <1>3 DEF ReachInv, NoneIsLost, Closed, Served
  <2>3. message.leaderId \in Reached
    BY <1>4, <1>6, <2>1, <2>2
  <2>4. message.leaderId \notin Senders
    BY <1>1 DEF ReplyInv, LeaderSilent, Senders
  <2> QED
    BY <1>3, <2>3, <2>4 DEF Served
<1> QED
  BY <1>5, <1>6 DEF C

\* On any network a reply gets to its leader exactly when there is a chain of
\* nodes in range of each other to it, unless a relay whose records were swept
\* away took over another's isReTx.
THEOREM LeaderIsReachedHolds == Spec => []LeaderIsReached
  BY EndOfRelays, ReachAlways, PTL DEF Spec

-----------------------------------------------------------------------------
(* A leader in range is handed the reply by evIREPLY's own loop.           *)

LeaderInRange ==
    message.leaderId \in Active /\ InRange(loc, message.nodeId, message.leaderId)

\* Whatever the sweeps do to the records of the relays.
InRangeIsServed ==
    message # None /\ LeaderInRange =>
        handed > 0 \/ (direct /\ message.leaderId \in ElementsOf(todo))

LEMMA InRangePreserved == TypeOK /\ InRangeIsServed /\ [Next]_vars => InRangeIsServed'
<1> SUFFICES ASSUME TypeOK, InRangeIsServed, [Next]_vars, message' # None, LeaderInRange'
             PROVE  handed' > 0 \/ (direct' /\ message'.leaderId \in ElementsOf(todo)')
  BY DEF InRangeIsServed
<1>1. ASSUME NEW n \in Node, NEW leader \in Node, evIREPLY(n, leader)
      PROVE  direct' /\ message'.leaderId \in ElementsOf(todo)'
  <2>1. /\ message'.leaderId = leader /\ message'.nodeId = n /\ Active' = Active
        /\ todo' \in Receivers(loc, n, Active) /\ loc' = loc /\ direct'
    BY <1>1 DEF evIREPLY, Active
  <2>2. ElementsOf(todo') = {m \in Active : InRange(loc, n, m)}
    BY ActiveNodes, <2>1, ReceiversAreAll
  <2>3. ElementsOf(todo)' = ElementsOf(todo')
    BY DEF ElementsOf
  <2> QED
    BY <2>1, <2>2, <2>3 DEF LeaderInRange
<1>2. ASSUME UNCHANGED <<message, loc, isActive>>
      PROVE  LeaderInRange
  BY <1>2 DEF LeaderInRange, Active
<1>3. CASE HandOrRelay
  <2> DEFINE h == Head(todo)
  <2>1. /\ message # None /\ todo # <<>> /\ todo' = Tail(todo)
        /\ UNCHANGED <<message, loc, isActive, direct>>
        /\ handed' = IF h = message.leaderId THEN handed + 1 ELSE handed
    BY <1>3 DEF HandOrRelay, worldVars
  <2>2. todo \in Seq(Node) /\ handed \in Nat
    BY DEF TypeOK
  <2>3. ElementsOf(todo) = {h} \cup ElementsOf(todo')
    BY <2>1, <2>2, ElementsOfLists
  <2>4. ElementsOf(todo)' = ElementsOf(todo')
    BY DEF ElementsOf
  <2> HIDE DEF h
  <2>5. handed > 0 \/ (direct /\ message.leaderId \in ElementsOf(todo))
    BY <1>2, <2>1 DEF InRangeIsServed
  <2> QED
    BY <2>1, <2>2, <2>3, <2>4, <2>5
<1>4. CASE EndDirect \/ EndRound
  <2>1. /\ message # None /\ todo = <<>> /\ Round(IRReTxnodesList)
        /\ UNCHANGED <<loc, isActive>>
    BY <1>4 DEF EndDirect, EndRound, RoundOver, worldVars
  <2>2. message' = message /\ handed' = handed
    BY <2>1 DEF Round
  <2>3. handed > 0
    BY <1>2, <2>1, <2>2, NoElements DEF InRangeIsServed
  <2> QED
    BY <2>2, <2>3
<1>5. CASE Relay
  <2>1. message # None /\ ~direct /\ UNCHANGED <<message, loc, isActive, handed>>
    BY <1>5 DEF Relay, worldVars
  <2> QED
    BY <1>2, <2>1 DEF InRangeIsServed
<1>6. CASE (\E n \in Node : nodePeriodicUpdate(n)) \/ nodeMovementUpdate \/ PassTime
  BY <1>6 DEF nodePeriodicUpdate, nodeMovementUpdate, PassTime, loopVars
<1>7. CASE UNCHANGED vars
  <2>1. UNCHANGED <<message, loc, isActive, handed, direct, todo>>
    BY <1>7 DEF vars, worldVars, loopVars
  <2>2. ElementsOf(todo)' = ElementsOf(todo)
    BY <2>1 DEF ElementsOf
  <2> QED
    BY <1>2, <2>1, <2>2 DEF InRangeIsServed
<1>8. ASSUME NEW r \in Replies, evIREPLY(r[1], r[2])
      PROVE  direct' /\ message'.leaderId \in ElementsOf(todo)'
  BY <1>1, <1>8, NodeAssumption
<1> QED
  BY <1>3, <1>4, <1>5, <1>6, <1>7, <1>8 DEF Next, Flooding

LEMMA InRangeAlways == Init /\ [][Next]_vars => []InRangeIsServed
<1>1. Init => TypeOK /\ InRangeIsServed
  BY InitTypes DEF Init, InRangeIsServed
<1> QED
  BY <1>1, TypesPreserved, InRangePreserved, PTL

\* A leader that is active and in range of the node that replies is handed the
\* reply before anybody relays it, however records are swept.
THEOREM InRangeIsServedHolds == Spec => []InRangeIsServed
  BY InRangeAlways, PTL DEF Spec

\* The same of whoever takes the steps of a flood, and does not have to end it.
LEMMA StepsAreSafe ==
    Init /\ [][Next]_vars => []TypeOK /\ []RelaysOnce /\ []LeaderIsReached
                               /\ []InRangeIsServed
<1>1. ReachInv => TypeOK /\ ReplyInv
  BY DEF ReachInv, ReplyInv, RecordInv
<1> QED
  BY <1>1, ReachAlways, OneRecord, EndOfRelays, InRangeAlways, PTL

=============================================================================
