------------------------- MODULE GKAInstanceProofs -------------------------
(* The types and the safety properties of GKAInstance, for every set of    *)
(* nodes and every setting of the timers.                                  *)
EXTENDS GKAInstance, SweepProofs

-----------------------------------------------------------------------------
(* Types.                                                                  *)

LEMMA CryptoTypes ==
    /\ NoElem \in Elem
    /\ \A s \in Nat : computeBlindedSecret(s) \in Elem
    /\ \A e \in Elem, s \in Nat : computeBlindedResponse(e, s) \in Elem
  BY DEF NoElem, Elem, computeBlindedSecret, computeBlindedResponse

LEMMA RecordTypes ==
    /\ \A id \in Node, c \in Elem, x, t \in Nat : Member(id, c, x, t) \in MemberRecord
    /\ \A id \in Node : Named(id) \in MemberRecord
    /\ \A id \in Node, ln, s, x, k, t \in Nat :
         pendingLeader(id, ln, s, x, k, t) \in PendingLeader
  BY CryptoTypes DEF Member, Named, MemberRecord, pendingLeader, PendingLeader

LEMMA RekeyTypes ==
    ASSUME TypeOK, NEW n \in Node, NEW list \in Seq(MemberRecord),
           NEW session \in Nat, NEW position \in Nat,
           Rekey(n, list, session, position)
    PROVE  /\ secrets' \in Nat
           /\ nodeSecret' \in [Node -> Nat]
           /\ nodeContrib' \in [Node -> Elem]
           /\ lastTimeSecret' \in [Node -> Nat]
           /\ lastNonce' \in [Node -> Nat]
           /\ sessionCurrent' \in [Node -> Nat]
           /\ sessionNext' \in [Node -> Nat]
           /\ rng' \in Nat
           /\ memberList' \in [Node -> Seq(MemberRecord)]
           /\ DOMAIN key' = Node
           /\ compGroupChange' \in [Node -> BOOLEAN]
  <1> DEFINE Respond(m) == [m EXCEPT !.leaderReply =
                              computeBlindedResponse(m.memberContrib, secrets + 1)]
             replied == [i \in DOMAIN list |-> Respond(list[i])]
  <1>1. secrets + 1 \in Nat
    BY DEF TypeOK
  <1>2. \A m \in MemberRecord : Respond(m) \in MemberRecord
    BY <1>1, CryptoTypes DEF MemberRecord
  <1>3. replied \in Seq(MemberRecord)
    <2>1. \A i \in 1..Len(list) : list[i] \in MemberRecord
      BY ElementOfSeq
    <2>2. replied \in [1..Len(list) -> MemberRecord]
      <3> HIDE DEF Respond
      <3> QED
        BY <1>2, <2>1, LenProperties
    <2> QED
      BY <2>2, SeqDef, LenProperties
  <1>4. memberList' = [memberList EXCEPT ![n] = replied]
    BY DEF Rekey
  <1> HIDE DEF replied
  <1>5. memberList' \in [Node -> Seq(MemberRecord)]
    BY <1>3, <1>4 DEF TypeOK
  <1>6. /\ secrets' = secrets + 1
        /\ rng' = position + 2 * DrawLength
        /\ nodeSecret' = [nodeSecret EXCEPT ![n] = secrets + 1]
        /\ nodeContrib' = [nodeContrib EXCEPT ![n] = computeBlindedSecret(secrets + 1)]
        /\ lastTimeSecret' = [lastTimeSecret EXCEPT ![n] = now]
        /\ lastNonce' = [lastNonce EXCEPT ![n] = DrawnAt(position)]
        /\ sessionCurrent' = [sessionCurrent EXCEPT ![n] = session]
        /\ sessionNext' = [sessionNext EXCEPT ![n] = DrawnAt(position + DrawLength)]
        /\ compGroupChange' = [compGroupChange EXCEPT ![n] = FALSE]
        /\ DOMAIN key' = DOMAIN key
    BY DEF Rekey
  <1>7. /\ DrawnAt(position) \in Nat
        /\ DrawnAt(position + DrawLength) \in Nat
        /\ position + 2 * DrawLength \in Nat
        /\ computeBlindedSecret(secrets + 1) \in Elem
    BY <1>1, CryptoTypes DEF DrawnAt, DrawLength
  <1> QED
    BY <1>1, <1>5, <1>6, <1>7 DEF TypeOK

LEMMA SendIGROUPTypes ==
    ASSUME TypeOK, NEW n \in Node, SendIGROUP(n),
           memberList' \in [Node -> Seq(MemberRecord)],
           lastNonce' \in [Node -> Nat],
           sessionCurrent' \in [Node -> Nat],
           sessionNext' \in [Node -> Nat]
    PROVE  /\ igroup' \in IGROUPMessage
           /\ IGmessageCount' \in Nat
           /\ heard' \in [Node -> Nat]
           /\ ireply' = ireply
           /\ IRmessageCount' = IRmessageCount
  <1> DEFINE list == memberList'[n]
             info == [i \in DOMAIN list |->
                        [memberId |-> list[i].memberId,
                         memberLastNonce |-> list[i].memberLastNonce,
                         memberContrib |-> list[i].memberContrib,
                         leaderReply |-> list[i].leaderReply]]
  <1>1. list \in Seq(MemberRecord)
    OBVIOUS
  <1>2. info \in Seq(MemberInfo)
    <2> HIDE DEF list
    <2>1. \A i \in 1..Len(list) : list[i] \in MemberRecord
      BY <1>1, ElementOfSeq
    <2>2. info \in [1..Len(list) -> MemberInfo]
      BY <1>1, <2>1, LenProperties DEF MemberRecord, MemberInfo
    <2> QED
      BY <2>2, <1>1, SeqDef, LenProperties
  <1>3. igroup' = [leaderId |-> n, sessionId |-> 0,
                   leaderLastNonce |-> lastNonce'[n],
                   sessionCurrent |-> sessionCurrent'[n],
                   sessionNext |-> sessionNext'[n],
                   sequenceNumber |-> IGmessageCount,
                   memberInfoList |-> info]
    BY DEF SendIGROUP
  <1> HIDE DEF info, list
  <1>4. igroup' \in IGROUPMessage
    BY <1>2, <1>3 DEF IGROUPMessage, TypeOK
  <1>5. /\ IGmessageCount' = IGmessageCount + 1
        /\ heard' = [m \in Node |-> 0]
        /\ ireply' = ireply
        /\ IRmessageCount' = IRmessageCount
    BY DEF SendIGROUP
  <1>6. IGmessageCount \in Nat
    BY DEF TypeOK
  <1> QED
    BY <1>4, <1>5, <1>6

LEMMA ComputeKeyTypes ==
    ASSUME TypeOK, igroup # None, NEW n \in Node, NEW secret, NEW changed,
           ComputeKey(n, secret, changed)
    PROVE  /\ memberList' \in [Node -> Seq(MemberRecord)]
           /\ DOMAIN key' = Node
           /\ compGroupChange' = compGroupChange
  <1> DEFINE info == igroup.memberInfoList
             names == [i \in DOMAIN info |-> Named(info[i].memberId)]
  <1>1. info \in Seq(MemberInfo)
    BY DEF TypeOK, IGROUPMessage
  <1>2. names \in Seq(MemberRecord)
    <2> HIDE DEF info
    <2>0. \A i \in 1..Len(info) : info[i] \in MemberInfo
      BY <1>1, ElementOfSeq
    <2>1. \A i \in 1..Len(info) : info[i].memberId \in Node
      BY <2>0 DEF MemberInfo
    <2>2. names \in [1..Len(info) -> MemberRecord]
      BY <1>1, <2>1, LenProperties, RecordTypes
    <2> QED
      BY <2>2, <1>1, SeqDef, LenProperties
  <1>3. /\ memberList' = [memberList EXCEPT ![n] =
                            IF SameLength(n) THEN @ ELSE names]
        /\ DOMAIN key' = DOMAIN key
        /\ compGroupChange' = compGroupChange
    BY DEF ComputeKey
  <1> HIDE DEF names
  <1> QED
    BY <1>2, <1>3 DEF TypeOK

LEMMA ReplyTypes ==
    ASSUME TypeOK, NEW n \in Node, NEW to \in Node, NEW leaderNonce \in Nat,
           NEW session \in Nat, NEW nonce \in Nat, NEW contrib \in Elem,
           NEW id \in Int, Reply(n, to, leaderNonce, session, nonce, contrib, id)
    PROVE  /\ ireply' \in IREPLYMessage
           /\ IRmessageCount' \in Nat
           /\ IGmessageCount' = IGmessageCount
  <1>1. /\ ireply' = [leaderId |-> to, leaderLastNonce |-> leaderNonce,
                      nodeId |-> n, sessionId |-> id, nodeNonce |-> nonce,
                      nodeContrib |-> contrib, sessionCurrent |-> session,
                      sequenceNumber |-> IRmessageCount]
        /\ IRmessageCount' = IRmessageCount + 1
        /\ IGmessageCount' = IGmessageCount
    BY DEF Reply
  <1>2. IRmessageCount \in Nat
    BY DEF TypeOK
  <1>3. ireply' \in IREPLYMessage
    BY <1>1, <1>2 DEF IREPLYMessage
  <1> QED
    BY <1>1, <1>2, <1>3

LEMMA AdoptSessionTypes ==
    ASSUME TypeOK, igroup # None, NEW n \in Node, AdoptSession(n)
    PROVE  /\ sessionNext' \in [Node -> Nat]
           /\ sessionCurrent' \in [Node -> Nat]
           /\ leaderLastNonce' \in [Node -> Nat]
  <1>1. /\ igroup.sessionNext \in Nat
        /\ igroup.sessionCurrent \in Nat
        /\ igroup.leaderLastNonce \in Nat
    BY DEF TypeOK, IGROUPMessage
  <1>2. /\ sessionNext \in [Node -> Nat]
        /\ sessionCurrent \in [Node -> Nat]
        /\ leaderLastNonce \in [Node -> Nat]
    BY DEF TypeOK
  <1> QED
    BY <1>1, <1>2 DEF AdoptSession, sessionVars

LEMMA InitTypes == Init => TypeOK
  <1> SUFFICES ASSUME Init PROVE TypeOK
    OBVIOUS
  <1>1. memberList \in [Node -> Seq(MemberRecord)]
    BY EmptySeq DEF Init
  <1>2. pendingLeaderList \in [Node -> Seq(PendingLeader)]
    BY EmptySeq DEF Init
  <1>3. nodeContrib \in [Node -> Elem]
    BY CryptoTypes DEF Init
  <1> QED
    BY <1>1, <1>2, <1>3, TimeAssumption, ChoiceAssumption DEF Init, TypeOK, Role

LEMMA DueTypes ==
    ASSUME TypeOK, NEW n \in Node, Due(n)
    PROVE  /\ isActive' \in [Node -> BOOLEAN]
           /\ nextUpdate' \in [Node -> Nat]
           /\ now' = now
  <1>1. now + PERIOD_INTERVAL \in Nat
    BY TimeAssumption DEF TypeOK
  <1>2. /\ isActive' = [isActive EXCEPT ![n] = TRUE]
        /\ nextUpdate' = [nextUpdate EXCEPT ![n] = now + PERIOD_INTERVAL]
        /\ now' = now
    BY DEF Due
  <1> QED
    BY <1>1, <1>2 DEF TypeOK

LEMMA DrawBackoffTypes ==
    ASSUME TypeOK, NEW n \in Node, DrawBackoff(n)
    PROVE  TypeOK'
  <1>1. backoffTime' \in [Node -> Nat]
    <2>1. PICK b \in Backoffs :
            backoffTime' = [backoffTime EXCEPT ![n] = b * PERIOD_INTERVAL + now]
      BY DEF DrawBackoff
    <2>2. b \in Nat /\ PERIOD_INTERVAL \in Nat
      BY TimeAssumption
    <2>3. b * PERIOD_INTERVAL \in Nat
      BY <2>2
    <2>4. now \in Nat /\ backoffTime \in [Node -> Nat]
      BY DEF TypeOK
    <2>5. b * PERIOD_INTERVAL + now \in Nat
      BY <2>3, <2>4
    <2> QED
      BY <2>1, <2>4, <2>5
  <1>2. /\ nodeState' \in [Node -> Role]
        /\ isbackoffExists' \in [Node -> BOOLEAN]
        /\ rng' \in Nat
    BY DEF DrawBackoff, TypeOK, Role
  <1>3. UNCHANGED <<lastIGROUPMsgTime, leaderId, sessionId, sessionVars,
                    secretVars, groupVars, pendingLeaderList, countVars,
                    secrets, netVars>>
    BY DEF DrawBackoff
  <1>4. Due(n)
    BY DEF DrawBackoff
  <1> QED
    BY <1>1, <1>2, <1>3, <1>4, DueTypes
       DEF TypeOK, sessionVars, secretVars, groupVars, countVars, netVars

LEMMA DetachFromLeaderTypes ==
    ASSUME TypeOK, NEW n \in Node, DetachFromLeader(n)
    PROVE  TypeOK'
  BY DueTypes
     DEF DetachFromLeader, TypeOK, Role, sessionVars, secretVars, groupVars,
         countVars, randomVars, netVars

LEMMA IdleUpdateTypes ==
    ASSUME TypeOK, NEW n \in Node, IdleUpdate(n)
    PROVE  TypeOK'
  BY DueTypes
     DEF IdleUpdate, TypeOK, roleVars, sessionVars, secretVars, groupVars,
         countVars, randomVars, netVars

LEMMA BecomeLeaderTypes ==
    ASSUME TypeOK, NEW n \in Node, BecomeLeader(n)
    PROVE  TypeOK'
  <1>1. /\ Due(n)
        /\ Rekey(n, <<>>, DrawnAt(rng), rng + DrawLength)
        /\ SendIGROUP(n)
        /\ nodeState' = [nodeState EXCEPT ![n] = "Leader"]
        /\ isbackoffExists' = [isbackoffExists EXCEPT ![n] = FALSE]
        /\ UNCHANGED <<backoffTime, lastIGROUPMsgTime, leaderId, leaderLastNonce,
                       sessionId, pendingLeaderList>>
    BY DEF BecomeLeader
  <1>2. <<>> \in Seq(MemberRecord) /\ DrawnAt(rng) \in Nat /\ rng + DrawLength \in Nat
    BY EmptySeq DEF TypeOK, DrawnAt, DrawLength
  <1>3. /\ secrets' \in Nat
        /\ nodeSecret' \in [Node -> Nat]
        /\ nodeContrib' \in [Node -> Elem]
        /\ lastTimeSecret' \in [Node -> Nat]
        /\ lastNonce' \in [Node -> Nat]
        /\ sessionCurrent' \in [Node -> Nat]
        /\ sessionNext' \in [Node -> Nat]
        /\ rng' \in Nat
        /\ memberList' \in [Node -> Seq(MemberRecord)]
        /\ DOMAIN key' = Node
        /\ compGroupChange' \in [Node -> BOOLEAN]
    BY <1>1, <1>2, RekeyTypes
  <1>4. /\ igroup' \in IGROUPMessage
        /\ IGmessageCount' \in Nat
        /\ heard' \in [Node -> Nat]
        /\ ireply' = ireply
        /\ IRmessageCount' = IRmessageCount
    BY <1>1, <1>3, SendIGROUPTypes
  <1> QED
    BY <1>1, <1>3, <1>4, DueTypes DEF TypeOK, Role

LEMMA LeaderUpdateTypes ==
    ASSUME TypeOK, NEW n \in Node, LeaderUpdate(n)
    PROVE  TypeOK'
  <1> DEFINE old == {i \in DOMAIN memberList[n] :
                       now - memberList[n][i].memberLastIREPLYTime >= IREPLY_EXPIRE_TIME}
  <1>1. /\ Due(n)
        /\ SendIGROUP(n)
        /\ UNCHANGED <<roleVars, lastIGROUPMsgTime, leaderId, leaderLastNonce,
                       sessionId, pendingLeaderList>>
    BY DEF LeaderUpdate
  <1>2. PICK list \in Swept(memberList[n], old) :
          \/ Rekey(n, list, sessionNext[n], rng)
          \/ /\ memberList' = [memberList EXCEPT ![n] = list]
             /\ UNCHANGED <<secretVars, compGroupChange, sessionCurrent,
                            sessionNext, randomVars>>
    BY DEF LeaderUpdate
  <1> HIDE DEF old
  <1>3. list \in Seq(MemberRecord)
    BY SweptIsSubsequence DEF TypeOK
  <1>4. /\ secrets' \in Nat
        /\ nodeSecret' \in [Node -> Nat]
        /\ nodeContrib' \in [Node -> Elem]
        /\ lastTimeSecret' \in [Node -> Nat]
        /\ lastNonce' \in [Node -> Nat]
        /\ sessionCurrent' \in [Node -> Nat]
        /\ sessionNext' \in [Node -> Nat]
        /\ rng' \in Nat
        /\ memberList' \in [Node -> Seq(MemberRecord)]
        /\ DOMAIN key' = Node
        /\ compGroupChange' \in [Node -> BOOLEAN]
    <2>1. CASE Rekey(n, list, sessionNext[n], rng)
      <3>1. sessionNext[n] \in Nat /\ rng \in Nat
        BY DEF TypeOK
      <3> QED
        BY <2>1, <3>1, <1>3, RekeyTypes
    <2>2. CASE /\ memberList' = [memberList EXCEPT ![n] = list]
               /\ UNCHANGED <<secretVars, compGroupChange, sessionCurrent,
                              sessionNext, randomVars>>
      BY <2>2, <1>3 DEF TypeOK, secretVars, randomVars
    <2> QED
      BY <1>2, <2>1, <2>2
  <1>5. /\ igroup' \in IGROUPMessage
        /\ IGmessageCount' \in Nat
        /\ heard' \in [Node -> Nat]
        /\ ireply' = ireply
        /\ IRmessageCount' = IRmessageCount
    BY <1>1, <1>4, SendIGROUPTypes
  <1> QED
    BY <1>1, <1>4, <1>5, DueTypes DEF TypeOK, roleVars

LEMMA ReceivesTypes ==
    ASSUME TypeOK, NEW n \in Node, Receives(n)
    PROVE  /\ igroup \in IGROUPMessage
           /\ igroup # None
           /\ igroup' \in IGROUPMessage
           /\ heard' \in [Node -> Nat]
  <1>1. /\ igroup # None
        /\ igroup' = igroup
        /\ heard' = [heard EXCEPT ![n] = @ + 1]
    BY DEF Receives
  <1>2. heard \in [Node -> Nat] /\ igroup \in IGROUPMessage \cup {None}
    BY DEF TypeOK
  <1> QED
    BY <1>1, <1>2

LEMMA IGROUPFields ==
    ASSUME NEW m \in IGROUPMessage
    PROVE  /\ m.leaderId \in Node
           /\ m.sessionId \in Nat
           /\ m.leaderLastNonce \in Nat
           /\ m.sessionCurrent \in Nat
           /\ m.sessionNext \in Nat
           /\ m.memberInfoList \in Seq(MemberInfo)
  BY DEF IGROUPMessage

LEMMA AcceptFromLeaderTypes ==
    ASSUME TypeOK, NEW n \in Node, AcceptFromLeader(n)
    PROVE  TypeOK'
  <1>1. /\ Receives(n)
        /\ AdoptSession(n)
        /\ ComputeKey(n, nodeSecret[n], SessionMoves(n))
        /\ lastIGROUPMsgTime' = [lastIGROUPMsgTime EXCEPT ![n] = now]
        /\ lastNonce' = [lastNonce EXCEPT ![n] = DrawnAt(rng)]
        /\ rng' = rng + DrawLength
        /\ UNCHANGED <<roleVars, leaderId, sessionId, nodeContrib,
                       pendingLeaderList, timeVars>>
        /\ FromMyLeader(n)
    BY DEF AcceptFromLeader
  <1>2. /\ sessionNext' \in [Node -> Nat]
        /\ sessionCurrent' \in [Node -> Nat]
        /\ leaderLastNonce' \in [Node -> Nat]
        /\ memberList' \in [Node -> Seq(MemberRecord)]
        /\ DOMAIN key' = Node
        /\ compGroupChange' = compGroupChange
    BY <1>1, ReceivesTypes, AdoptSessionTypes, ComputeKeyTypes
  <1>3. DrawnAt(rng) \in Nat /\ rng + DrawLength \in Nat /\ secrets + 1 \in Nat
    <2>1. rng \in Nat /\ secrets \in Nat
      BY DEF TypeOK
    <2> QED
      BY <2>1 DEF DrawnAt, DrawLength
  <1>4. PICK expired \in LastSecretExpired :
          /\ IF expired
             THEN /\ secrets' = secrets + 1
                  /\ nodeSecret' = [nodeSecret EXCEPT ![n] = secrets + 1]
                  /\ lastTimeSecret' = [lastTimeSecret EXCEPT ![n] = now]
             ELSE UNCHANGED <<secrets, nodeSecret, lastTimeSecret>>
          /\ Reply(n, leaderId[n], leaderLastNonce'[n],
                   IF expired THEN sessionNext'[n] ELSE sessionCurrent'[n],
                   DrawnAt(rng), nodeContrib[n], igroup.sessionId)
    BY DEF AcceptFromLeader
  <1>5. /\ secrets' \in Nat
        /\ nodeSecret' \in [Node -> Nat]
        /\ lastTimeSecret' \in [Node -> Nat]
    <2>1. CASE expired = TRUE
      <3>1. /\ secrets' = secrets + 1
            /\ nodeSecret' = [nodeSecret EXCEPT ![n] = secrets + 1]
            /\ lastTimeSecret' = [lastTimeSecret EXCEPT ![n] = now]
        BY <2>1, <1>4
      <3> QED
        BY <3>1, <1>3 DEF TypeOK
    <2>2. CASE expired = FALSE
      BY <2>2, <1>4 DEF TypeOK
    <2> QED
      BY <2>1, <2>2, ChoiceAssumption
  <1>6. /\ ireply' \in IREPLYMessage
        /\ IRmessageCount' \in Nat
        /\ IGmessageCount' = IGmessageCount
    <2> DEFINE session == IF expired THEN sessionNext'[n] ELSE sessionCurrent'[n]
    <2>1. session \in Nat
      BY <1>2
    <2>2. leaderLastNonce'[n] \in Nat /\ nodeContrib[n] \in Elem
      BY <1>2 DEF TypeOK
    <2>3. leaderId[n] \in Node /\ igroup.sessionId \in Int
      BY <1>1, ReceivesTypes, IGROUPFields DEF FromMyLeader
    <2>4. Reply(n, leaderId[n], leaderLastNonce'[n], session,
                DrawnAt(rng), nodeContrib[n], igroup.sessionId)
      BY <1>4
    <2> HIDE DEF session
    <2> QED
      BY <1>3, <2>1, <2>2, <2>3, <2>4, ReplyTypes
  <1>7. /\ lastIGROUPMsgTime' \in [Node -> Nat]
        /\ lastNonce' \in [Node -> Nat]
        /\ rng' \in Nat
    BY <1>1, <1>3 DEF TypeOK
  <1>8. igroup' \in IGROUPMessage /\ heard' \in [Node -> Nat]
    BY <1>1, ReceivesTypes
  <1> QED
    BY <1>1, <1>2, <1>5, <1>6, <1>7, <1>8 DEF TypeOK, roleVars, timeVars

LEMMA RejectFromLeaderTypes ==
    ASSUME TypeOK, NEW n \in Node, RejectFromLeader(n)
    PROVE  TypeOK'
  <1>1. /\ Receives(n)
        /\ AdoptSession(n)
        /\ UNCHANGED <<roleVars, lastIGROUPMsgTime, leaderId, sessionId,
                       secretVars, groupVars, pendingLeaderList, countVars,
                       randomVars, timeVars, ireply>>
    BY DEF RejectFromLeader
  <1>2. /\ sessionNext' \in [Node -> Nat]
        /\ sessionCurrent' \in [Node -> Nat]
        /\ leaderLastNonce' \in [Node -> Nat]
        /\ igroup' \in IGROUPMessage
        /\ heard' \in [Node -> Nat]
    BY <1>1, ReceivesTypes, AdoptSessionTypes
  <1> QED
    BY <1>1, <1>2 DEF TypeOK, roleVars, secretVars, groupVars, countVars,
                      randomVars, timeVars

LEMMA JoinLeaderTypes ==
    ASSUME TypeOK, NEW n \in Node, JoinLeader(n)
    PROVE  TypeOK'
  <1> DEFINE old == {i \in DOMAIN pendingLeaderList[n] :
                       now - pendingLeaderList[n][i].pendingLeaderLastIGROUPTime
                         >= LEADER_LAST_TIME}
             new == pendingLeader(igroup.leaderId, igroup.leaderLastNonce,
                                  igroup.sessionCurrent, DrawnAt(rng),
                                  secrets + 1, now)
  <1>1. /\ Receives(n)
        /\ secrets' = secrets + 1
        /\ rng' = rng + DrawLength
        /\ Reply(n, igroup.leaderId, igroup.leaderLastNonce,
                 igroup.sessionCurrent, DrawnAt(rng),
                 computeBlindedSecret(secrets + 1), igroup.sessionId)
        /\ UNCHANGED <<roleVars, lastIGROUPMsgTime, leaderId, sessionId,
                       sessionVars, secretVars, groupVars, timeVars>>
    BY DEF JoinLeader
  <1>2. PICK list \in Swept(pendingLeaderList[n], old) :
          pendingLeaderList' = [pendingLeaderList EXCEPT ![n] = Append(list, new)]
    BY DEF JoinLeader
  <1>3. DrawnAt(rng) \in Nat /\ rng + DrawLength \in Nat /\ secrets + 1 \in Nat
    <2> HIDE DEF old, new
    <2>1. rng \in Nat /\ secrets \in Nat
      BY DEF TypeOK
    <2> QED
      BY <2>1 DEF DrawnAt, DrawLength
  <1>4. /\ igroup.leaderId \in Node
        /\ igroup.sessionId \in Int
        /\ igroup.leaderLastNonce \in Nat
        /\ igroup.sessionCurrent \in Nat
        /\ igroup' \in IGROUPMessage
        /\ heard' \in [Node -> Nat]
    BY <1>1, ReceivesTypes, IGROUPFields
  <1>5. new \in PendingLeader
    BY <1>3, <1>4, RecordTypes DEF TypeOK
  <1> HIDE DEF old, new
  <1>6. pendingLeaderList' \in [Node -> Seq(PendingLeader)]
    <2>1. list \in Seq(PendingLeader)
      BY SweptIsSubsequence DEF TypeOK
    <2>2. Append(list, new) \in Seq(PendingLeader)
      BY <1>5, <2>1, AppendProperties
    <2> QED
      BY <1>2, <2>2 DEF TypeOK
  <1>7. /\ ireply' \in IREPLYMessage
        /\ IRmessageCount' \in Nat
        /\ IGmessageCount' = IGmessageCount
    BY <1>1, <1>3, <1>4, CryptoTypes, ReplyTypes
  <1> QED
    BY <1>1, <1>3, <1>4, <1>6, <1>7
       DEF TypeOK, roleVars, sessionVars, secretVars, groupVars, timeVars

LEMMA BecomeMemberTypes ==
    ASSUME TypeOK, NEW n \in Node, BecomeMember(n)
    PROVE  TypeOK'
  <1>1. /\ Receives(n)
        /\ nodeState' = [nodeState EXCEPT ![n] = "Member"]
        /\ lastIGROUPMsgTime' = [lastIGROUPMsgTime EXCEPT ![n] = now]
        /\ leaderId' = [leaderId EXCEPT ![n] = igroup.leaderId]
        /\ leaderLastNonce' = [leaderLastNonce EXCEPT ![n] = igroup.leaderLastNonce]
        /\ sessionCurrent' = [sessionCurrent EXCEPT ![n] = igroup.sessionCurrent]
        /\ sessionNext' = [sessionNext EXCEPT ![n] = igroup.sessionNext]
        /\ Reply(n, igroup.leaderId, igroup.leaderLastNonce, igroup.sessionCurrent,
                 lastNonce'[n], nodeContrib'[n], sessionId[n])
        /\ UNCHANGED <<isbackoffExists, backoffTime, sessionId, randomVars, timeVars>>
    BY DEF BecomeMember
  <1>2. PICK i \in PendingWith(n, igroup.leaderId) :
          LET p == pendingLeaderList[n][i]
          IN  /\ pendingLeaderList' =
                   [pendingLeaderList EXCEPT ![n] =
                      SubSeq(@, 1, i-1) \o SubSeq(@, i+1, Len(@))]
              /\ lastNonce' = [lastNonce EXCEPT ![n] = p.lastNonce]
              /\ nodeSecret' = [nodeSecret EXCEPT ![n] = p.nodeSecret]
              /\ nodeContrib' =
                   [nodeContrib EXCEPT ![n] = computeBlindedSecret(p.nodeSecret)]
              /\ lastTimeSecret' =
                   [lastTimeSecret EXCEPT ![n] = p.pendingLeaderLastIGROUPTime]
              /\ ComputeKey(n, p.nodeSecret, FALSE)
    BY DEF BecomeMember
  <1> DEFINE list == pendingLeaderList[n]
             p == list[i]
  <1>3. /\ list \in Seq(PendingLeader)
        /\ i \in DOMAIN list
        /\ i \in 1..Len(list)
    <2>1. list \in Seq(PendingLeader) /\ i \in DOMAIN list
      BY <1>2 DEF TypeOK, PendingWith
    <2> QED
      BY <2>1, LenProperties
  <1>4. p \in PendingLeader
    <2> HIDE DEF list
    <2> QED
      BY <1>3, ElementOfSeq
  <1>5. /\ p.lastNonce \in Nat
        /\ p.nodeSecret \in Nat
        /\ p.pendingLeaderLastIGROUPTime \in Nat
        /\ computeBlindedSecret(p.nodeSecret) \in Elem
    <2> HIDE DEF p
    <2> QED
      BY <1>4, CryptoTypes DEF PendingLeader
  <1>6. SubSeq(list, 1, i-1) \o SubSeq(list, i+1, Len(list)) \in Seq(PendingLeader)
    <2> HIDE DEF list
    <2>1. \A k \in 1..Len(list) : list[k] \in PendingLeader
      BY <1>3, ElementOfSeq
    <2>2. SubSeq(list, 1, i-1) \in Seq(PendingLeader)
      BY <1>3, <2>1, SubSeqProperties
    <2>3. SubSeq(list, i+1, Len(list)) \in Seq(PendingLeader)
      <3>1. Len(list) \in Int /\ i+1 \in Int
        BY <1>3, LenProperties
      <3>2. \A k \in i+1..Len(list) : list[k] \in PendingLeader
        BY <1>3, <2>1
      <3> QED
        BY <3>1, <3>2, SubSeqProperties
    <2> QED
      BY <2>2, <2>3, ConcatProperties
  <1>7. /\ pendingLeaderList' =
             [pendingLeaderList EXCEPT ![n] =
                SubSeq(list, 1, i-1) \o SubSeq(list, i+1, Len(list))]
        /\ lastNonce' = [lastNonce EXCEPT ![n] = p.lastNonce]
        /\ nodeSecret' = [nodeSecret EXCEPT ![n] = p.nodeSecret]
        /\ nodeContrib' = [nodeContrib EXCEPT ![n] = computeBlindedSecret(p.nodeSecret)]
        /\ lastTimeSecret' =
             [lastTimeSecret EXCEPT ![n] = p.pendingLeaderLastIGROUPTime]
        /\ ComputeKey(n, p.nodeSecret, FALSE)
    BY <1>2
  <1>8. /\ igroup.leaderId \in Node
        /\ igroup.leaderLastNonce \in Nat
        /\ igroup.sessionCurrent \in Nat
        /\ igroup.sessionNext \in Nat
        /\ igroup' \in IGROUPMessage
        /\ heard' \in [Node -> Nat]
        /\ igroup # None
    BY <1>1, ReceivesTypes, IGROUPFields
  <1>9. /\ memberList' \in [Node -> Seq(MemberRecord)]
        /\ DOMAIN key' = Node
        /\ compGroupChange' = compGroupChange
    BY <1>7, <1>8, ComputeKeyTypes
  <1> HIDE DEF p, list
  <1>10. /\ pendingLeaderList' \in [Node -> Seq(PendingLeader)]
         /\ lastNonce' \in [Node -> Nat]
         /\ nodeSecret' \in [Node -> Nat]
         /\ nodeContrib' \in [Node -> Elem]
         /\ lastTimeSecret' \in [Node -> Nat]
    BY <1>5, <1>6, <1>7 DEF TypeOK
  <1>11. /\ ireply' \in IREPLYMessage
         /\ IRmessageCount' \in Nat
         /\ IGmessageCount' = IGmessageCount
    <2>1. /\ lastNonce'[n] \in Nat
          /\ nodeContrib'[n] \in Elem
          /\ sessionId[n] \in Int
      BY <1>10 DEF TypeOK
    <2> QED
      BY <1>1, <1>8, <2>1, ReplyTypes
  <1>12. /\ nodeState' \in [Node -> Role]
         /\ lastIGROUPMsgTime' \in [Node -> Nat]
         /\ leaderId' \in [Node -> Node \cup {None}]
         /\ leaderLastNonce' \in [Node -> Nat]
         /\ sessionCurrent' \in [Node -> Nat]
         /\ sessionNext' \in [Node -> Nat]
    BY <1>1, <1>8 DEF TypeOK, Role
  <1> QED
    BY <1>1, <1>8, <1>9, <1>10, <1>11, <1>12 DEF TypeOK, randomVars, timeVars

LEMMA IgnoreIGROUPTypes ==
    ASSUME TypeOK, NEW n \in Node, IgnoreIGROUP(n)
    PROVE  TypeOK'
  <1>1. /\ Receives(n)
        /\ UNCHANGED <<roleVars, lastIGROUPMsgTime, leaderId, sessionId,
                       sessionVars, secretVars, groupVars, pendingLeaderList,
                       countVars, randomVars, timeVars, ireply>>
    BY DEF IgnoreIGROUP
  <1> QED
    BY <1>1, ReceivesTypes
       DEF TypeOK, roleVars, sessionVars, secretVars, groupVars, countVars,
           randomVars, timeVars

LEMMA ProcessIREPLYTypes ==
    ASSUME TypeOK, NEW n \in Node, processIREPLY(n)
    PROVE  TypeOK'
  <1> DEFINE list == memberList[n]
             entries == EntryOf(n, ireply.nodeId)
             renewed(m) == [m EXCEPT !.memberLastNonce = ireply.nodeNonce,
                                     !.memberContrib = ireply.nodeContrib,
                                     !.memberLastIREPLYTime = now]
             new == Member(ireply.nodeId, ireply.nodeContrib, ireply.nodeNonce, now)
             updated == [i \in DOMAIN list |->
                           IF i \in entries THEN renewed(list[i]) ELSE list[i]]
  <1>1. /\ memberList' = [memberList EXCEPT ![n] =
                            IF entries = {} THEN Append(list, new) ELSE updated]
        /\ UNCHANGED <<roleVars, lastIGROUPMsgTime, leaderId, sessionId,
                       sessionVars, secretVars, pendingLeaderList, countVars,
                       randomVars, timeVars, netVars>>
    BY DEF processIREPLY
  <1>2. compGroupChange' \in [Node -> BOOLEAN]
    BY DEF processIREPLY, TypeOK
  <1>3. /\ ireply.nodeId \in Node
        /\ ireply.nodeContrib \in Elem
        /\ ireply.nodeNonce \in Nat
        /\ now \in Nat
    BY DEF processIREPLY, TypeOK, IREPLYMessage
  <1>4. list \in Seq(MemberRecord)
    BY DEF TypeOK
  <1>5. new \in MemberRecord
    BY <1>3, RecordTypes
  <1>6. \A m \in MemberRecord : renewed(m) \in MemberRecord
    BY <1>3 DEF MemberRecord
  <1>7. updated \in Seq(MemberRecord)
    <2> HIDE DEF list, entries, renewed
    <2>1. \A i \in 1..Len(list) : list[i] \in MemberRecord
      BY <1>4, ElementOfSeq
    <2>2. updated \in [1..Len(list) -> MemberRecord]
      BY <1>4, <1>6, <2>1, LenProperties
    <2> QED
      BY <2>2, <1>4, SeqDef, LenProperties
  <1> HIDE DEF updated, new, list, entries
  <1>8. Append(list, new) \in Seq(MemberRecord)
    BY <1>4, <1>5, AppendProperties
  <1>9. memberList' \in [Node -> Seq(MemberRecord)]
    BY <1>1, <1>7, <1>8 DEF TypeOK
  <1> QED
    BY <1>1, <1>2, <1>9
       DEF TypeOK, roleVars, sessionVars, secretVars, countVars, randomVars,
           timeVars, netVars

LEMMA EnvironmentTypes ==
    ASSUME TypeOK,
           \/ \E n \in Node : nodeMovementUpdate(n)
           \/ EndIREPLY
           \/ EndIGROUP
           \/ PassTime
    PROVE  TypeOK'
  <1>1. ASSUME NEW n \in Node, nodeMovementUpdate(n) PROVE TypeOK'
    BY <1>1 DEF nodeMovementUpdate, MovementDraws, TypeOK, StateVars, roleVars,
                sessionVars, secretVars, groupVars, countVars, timeVars, netVars
  <1>2. ASSUME EndIREPLY PROVE TypeOK'
    BY <1>2 DEF EndIREPLY, TypeOK, StateVars, roleVars, sessionVars,
                secretVars, groupVars, countVars, randomVars, timeVars
  <1>3. ASSUME EndIGROUP PROVE TypeOK'
    BY <1>3 DEF EndIGROUP, TypeOK, StateVars, roleVars, sessionVars,
                secretVars, groupVars, countVars, randomVars, timeVars
  <1>4. ASSUME PassTime PROVE TypeOK'
    <2>1. now' \in Nat
      BY <1>4 DEF PassTime, TypeOK
    <2>2. UNCHANGED <<StateVars, randomVars, isActive, nextUpdate, netVars>>
      BY <1>4 DEF PassTime
    <2> QED
      BY <2>1, <2>2 DEF TypeOK, StateVars, roleVars, sessionVars, secretVars,
                        groupVars, countVars, randomVars, netVars
  <1> QED
    BY <1>1, <1>2, <1>3, <1>4

LEMMA TypesPreserved == TypeOK /\ [Next]_vars => TypeOK'
  <1> SUFFICES ASSUME TypeOK, [Next]_vars PROVE TypeOK'
    OBVIOUS
  <1>1. ASSUME NEW n \in Node, nodePeriodicUpdate(n) PROVE TypeOK'
    BY <1>1, DrawBackoffTypes, DetachFromLeaderTypes, IdleUpdateTypes,
       BecomeLeaderTypes, LeaderUpdateTypes DEF nodePeriodicUpdate
  <1>2. ASSUME NEW n \in Node, processIGROUP(n) PROVE TypeOK'
    BY <1>2, AcceptFromLeaderTypes, RejectFromLeaderTypes, JoinLeaderTypes,
       BecomeMemberTypes, IgnoreIGROUPTypes DEF processIGROUP
  <1>3. CASE UNCHANGED vars
    BY <1>3 DEF TypeOK, vars, roleVars, sessionVars, secretVars, groupVars,
                countVars, randomVars, timeVars, netVars
  <1> QED
    BY <1>1, <1>2, <1>3, ProcessIREPLYTypes, EnvironmentTypes DEF Next

\* Every reachable state is well typed.
THEOREM TypeCorrect == Spec => []TypeOK
  BY InitTypes, TypesPreserved, PTL DEF Spec

-----------------------------------------------------------------------------
(* Roles: who is a member of whom.                                         *)

\* A step takes nodes out of the members, or makes one node a member of a node
\* that is not a member.
LEMMA MembershipSteps ==
    ASSUME TypeOK, LeaderSends, [Next]_vars
    PROVE  \/ /\ Members' \subseteq Members
              /\ \A n \in Members' : leaderId'[n] = leaderId[n]
           \/ \E n \in Node : \E l \in Node \ {n} :
                /\ l \notin Members
                /\ Members' = Members \cup {n}
                /\ leaderId' = [leaderId EXCEPT ![n] = l]
  <1> DEFINE Fewer == /\ Members' \subseteq Members
                      /\ \A n \in Members' : leaderId'[n] = leaderId[n]
  <1>1. ASSUME nodeState' = nodeState, leaderId' = leaderId
        PROVE  Fewer
    BY <1>1 DEF Members
  <1>2. ASSUME NEW n \in Node, DrawBackoff(n) \/ DetachFromLeader(n) \/ BecomeLeader(n)
        PROVE  Fewer
    <2>1. /\ leaderId' = leaderId
          /\ \/ nodeState' = [nodeState EXCEPT ![n] = "Detached"]
             \/ nodeState' = [nodeState EXCEPT ![n] = "Leader"]
      BY <1>2 DEF DrawBackoff, DetachFromLeader, BecomeLeader
    <2> QED
      BY <2>1 DEF Members, TypeOK
  <1>3. ASSUME NEW n \in Node, IdleUpdate(n) \/ LeaderUpdate(n)
        PROVE  Fewer
    BY <1>1, <1>3 DEF IdleUpdate, LeaderUpdate, roleVars
  <1>4. ASSUME NEW n \in Node, BecomeMember(n)
        PROVE  \E l \in Node \ {n} :
                 /\ l \notin Members
                 /\ Members' = Members \cup {n}
                 /\ leaderId' = [leaderId EXCEPT ![n] = l]
    <2>1. /\ Receives(n)
          /\ nodeState' = [nodeState EXCEPT ![n] = "Member"]
          /\ leaderId' = [leaderId EXCEPT ![n] = igroup.leaderId]
      BY <1>4 DEF BecomeMember
    <2>2. igroup.leaderId \in Node \ {n}
      BY <2>1, ReceivesTypes, IGROUPFields DEF Receives
    <2>3. igroup.leaderId \notin Members
      BY <2>1 DEF Receives, LeaderSends, Leaders, Members
    <2>4. Members' = Members \cup {n}
      BY <2>1 DEF Members, TypeOK
    <2> QED
      BY <2>1, <2>2, <2>3, <2>4
  <1>5. ASSUME NEW n \in Node, AcceptFromLeader(n) \/ RejectFromLeader(n)
                               \/ JoinLeader(n) \/ IgnoreIGROUP(n)
                               \/ processIREPLY(n)
        PROVE  Fewer
    BY <1>1, <1>5 DEF AcceptFromLeader, RejectFromLeader, JoinLeader,
                      IgnoreIGROUP, processIREPLY, roleVars
  <1>6. ASSUME (\E n \in Node : nodeMovementUpdate(n)) \/ EndIREPLY \/ EndIGROUP
               \/ PassTime \/ UNCHANGED vars
        PROVE  Fewer
    BY <1>1, <1>6 DEF nodeMovementUpdate, EndIREPLY, EndIGROUP, PassTime,
                      vars, StateVars, roleVars
  <1> QED
    BY <1>2, <1>3, <1>4, <1>5, <1>6
       DEF Next, nodePeriodicUpdate, processIGROUP

\* A new member follows a node that is not a member, so a set that holds it
\* has a way out; any other set of members had one before.
LEMMA MembershipAcyclicStep ==
    ASSUME TypeOK, LeaderSends, MembershipAcyclic, [Next]_vars
    PROVE  MembershipAcyclic'
  <1> SUFFICES ASSUME NEW S \in SUBSET Members', S # {}
               PROVE  \E n \in S : leaderId'[n] \notin S
    BY DEF MembershipAcyclic
  <1>1. CASE /\ Members' \subseteq Members
             /\ \A n \in Members' : leaderId'[n] = leaderId[n]
    BY <1>1 DEF MembershipAcyclic
  <1>2. ASSUME NEW n \in Node, NEW l \in Node \ {n}, l \notin Members,
               Members' = Members \cup {n},
               leaderId' = [leaderId EXCEPT ![n] = l]
        PROVE  \E m \in S : leaderId'[m] \notin S
    <2>1. CASE n \in S
      <3>1. leaderId'[n] = l
        BY <1>2 DEF TypeOK
      <3>2. l \notin S
        BY <1>2
      <3> QED
        BY <2>1, <3>1, <3>2
    <2>2. CASE n \notin S
      <3>1. S \in SUBSET Members
        BY <1>2, <2>2
      <3>2. PICK m \in S : leaderId[m] \notin S
        BY <3>1 DEF MembershipAcyclic
      <3>3. m \in Node /\ m # n
        BY <2>2, <3>1 DEF Members
      <3>4. leaderId'[m] = leaderId[m]
        BY <1>2, <3>3 DEF TypeOK
      <3> QED
        BY <3>2, <3>4
    <2> QED
      BY <2>1, <2>2
  <1> QED
    BY <1>1, <1>2, MembershipSteps

-----------------------------------------------------------------------------
(* The messages in flight.                                                 *)

\* While its IGROUP is in flight a leader stays what the message says it is:
\* only its own update changes its nonce and its sessions, and the handlers
\* run for other nodes.
LEMMA LeaderSendsStep ==
    ASSUME TypeOK, LeaderSends, [Next]_vars
    PROVE  LeaderSends'
  <1>1. ASSUME UNCHANGED <<nodeState, sessionCurrent, sessionNext, lastNonce, igroup>>
        PROVE  LeaderSends'
    BY <1>1 DEF LeaderSends, Leaders
  <1>2. ASSUME igroup' = None
        PROVE  LeaderSends'
    BY <1>2 DEF LeaderSends
  <1>3. ASSUME NEW n \in Node, Due(n), igroup' = igroup
        PROVE  LeaderSends'
    BY <1>3, <1>2 DEF Due, Quiet
  <1>4. ASSUME NEW n \in Node, BecomeLeader(n) \/ LeaderUpdate(n)
        PROVE  LeaderSends'
    <2>1. SendIGROUP(n)
      BY <1>4 DEF BecomeLeader, LeaderUpdate
    <2>2. n \in Leaders'
      BY <1>4 DEF BecomeLeader, LeaderUpdate, roleVars, Leaders, TypeOK
    <2>3. /\ igroup'.leaderId = n
          /\ igroup'.sessionCurrent = sessionCurrent'[n]
          /\ igroup'.sessionNext = sessionNext'[n]
          /\ igroup'.leaderLastNonce = lastNonce'[n]
      BY <2>1 DEF SendIGROUP
    <2> QED
      BY <2>2, <2>3 DEF LeaderSends
  <1>5. ASSUME NEW n \in Node, processIGROUP(n)
        PROVE  LeaderSends'
    <2> DEFINE l == igroup.leaderId
    <2>1. Receives(n)
      BY <1>5 DEF processIGROUP, AcceptFromLeader, RejectFromLeader, JoinLeader,
                  BecomeMember, IgnoreIGROUP
    <2>2. l \in Node \ {n} /\ igroup' = igroup /\ igroup # None
      BY <2>1, ReceivesTypes, IGROUPFields DEF Receives
    <2>3. /\ nodeState'[l] = nodeState[l]
          /\ sessionCurrent'[l] = sessionCurrent[l]
          /\ sessionNext'[l] = sessionNext[l]
          /\ lastNonce'[l] = lastNonce[l]
      <3>1. CASE AcceptFromLeader(n) \/ RejectFromLeader(n)
        <4>1. AdoptSession(n) /\ nodeState' = nodeState
          BY <3>1 DEF AcceptFromLeader, RejectFromLeader, roleVars
        <4>2. \/ lastNonce' = lastNonce
              \/ lastNonce' = [lastNonce EXCEPT ![n] = DrawnAt(rng)]
          BY <3>1 DEF AcceptFromLeader, RejectFromLeader, secretVars
        <4>3. /\ sessionCurrent'[l] = sessionCurrent[l]
              /\ sessionNext'[l] = sessionNext[l]
          BY <4>1, <2>2 DEF AdoptSession, sessionVars, TypeOK
        <4> QED
          BY <4>1, <4>2, <4>3, <2>2 DEF TypeOK
      <3>2. CASE JoinLeader(n) \/ IgnoreIGROUP(n)
        BY <3>2 DEF JoinLeader, IgnoreIGROUP, roleVars, sessionVars, secretVars
      <3>3. CASE BecomeMember(n)
        <4>1. /\ nodeState' = [nodeState EXCEPT ![n] = "Member"]
              /\ sessionCurrent' = [sessionCurrent EXCEPT ![n] = igroup.sessionCurrent]
              /\ sessionNext' = [sessionNext EXCEPT ![n] = igroup.sessionNext]
          BY <3>3 DEF BecomeMember
        <4>2. \E x : lastNonce' = [lastNonce EXCEPT ![n] = x]
          BY <3>3 DEF BecomeMember
        <4> QED
          BY <4>1, <4>2, <2>2 DEF TypeOK
      <3> QED
        BY <1>5, <3>1, <3>2, <3>3 DEF processIGROUP
    <2> QED
      BY <2>2, <2>3 DEF LeaderSends, Leaders
  <1>6. ASSUME NEW n \in Node, DrawBackoff(n) \/ DetachFromLeader(n) \/ IdleUpdate(n)
        PROVE  LeaderSends'
    BY <1>3, <1>6 DEF DrawBackoff, DetachFromLeader, IdleUpdate, netVars
  <1>7. ASSUME NEW n \in Node, processIREPLY(n) \/ nodeMovementUpdate(n)
        PROVE  LeaderSends'
    BY <1>1, <1>7 DEF processIREPLY, nodeMovementUpdate, StateVars, roleVars,
                      sessionVars, secretVars, netVars
  <1>8. ASSUME EndIREPLY \/ PassTime \/ UNCHANGED vars
        PROVE  LeaderSends'
    BY <1>1, <1>8 DEF EndIREPLY, PassTime, vars, StateVars, roleVars,
                      sessionVars, secretVars, netVars
  <1>9. ASSUME EndIGROUP
        PROVE  LeaderSends'
    BY <1>2, <1>9 DEF EndIGROUP
  <1> QED
    BY <1>4, <1>5, <1>6, <1>7, <1>8, <1>9 DEF Next, nodePeriodicUpdate

\* Every IREPLY goes to the sender of an IGROUP, which does not handle its own.
LEMMA OthersReplyStep ==
    ASSUME TypeOK, OthersReply, [Next]_vars
    PROVE  OthersReply'
  <1>1. ASSUME ireply' = ireply \/ ireply' = None
        PROVE  OthersReply'
    BY <1>1 DEF OthersReply
  <1>2. ASSUME NEW n \in Node, NEW to, to # n, NEW leaderNonce, NEW session,
               NEW nonce, NEW contrib, NEW id,
               Reply(n, to, leaderNonce, session, nonce, contrib, id)
        PROVE  OthersReply'
    BY <1>2 DEF OthersReply, Reply
  <1>3. ASSUME NEW n \in Node, AcceptFromLeader(n)
        PROVE  OthersReply'
    <2>1. leaderId[n] # n
      BY <1>3 DEF AcceptFromLeader, FromMyLeader, Receives
    <2>2. \E session : Reply(n, leaderId[n], leaderLastNonce'[n], session,
                             DrawnAt(rng), nodeContrib[n], igroup.sessionId)
      BY <1>3 DEF AcceptFromLeader
    <2> QED
      BY <1>2, <2>1, <2>2
  <1>4. ASSUME NEW n \in Node, JoinLeader(n)
        PROVE  OthersReply'
    <2>1. igroup.leaderId # n
      BY <1>4 DEF JoinLeader, Receives
    <2>2. Reply(n, igroup.leaderId, igroup.leaderLastNonce,
                igroup.sessionCurrent, DrawnAt(rng),
                computeBlindedSecret(secrets + 1), igroup.sessionId)
      BY <1>4 DEF JoinLeader
    <2> QED
      BY <1>2, <2>1, <2>2
  <1>5. ASSUME NEW n \in Node, BecomeMember(n)
        PROVE  OthersReply'
    <2>1. igroup.leaderId # n
      BY <1>5 DEF BecomeMember, Receives
    <2>2. Reply(n, igroup.leaderId, igroup.leaderLastNonce, igroup.sessionCurrent,
                lastNonce'[n], nodeContrib'[n], sessionId[n])
      BY <1>5 DEF BecomeMember
    <2> QED
      BY <1>2, <2>1, <2>2
  <1>6. ASSUME NEW n \in Node, nodePeriodicUpdate(n) \/ RejectFromLeader(n)
                               \/ IgnoreIGROUP(n) \/ processIREPLY(n)
                               \/ nodeMovementUpdate(n)
        PROVE  OthersReply'
    BY <1>1, <1>6 DEF nodePeriodicUpdate, DrawBackoff, DetachFromLeader,
                      IdleUpdate, BecomeLeader, LeaderUpdate, SendIGROUP,
                      RejectFromLeader, IgnoreIGROUP, processIREPLY,
                      nodeMovementUpdate, netVars
  <1>7. ASSUME EndIREPLY \/ EndIGROUP \/ PassTime \/ UNCHANGED vars
        PROVE  OthersReply'
    BY <1>1, <1>7 DEF EndIREPLY, EndIGROUP, PassTime, vars, netVars
  <1> QED
    BY <1>3, <1>4, <1>5, <1>6, <1>7 DEF Next, processIGROUP

-----------------------------------------------------------------------------
(* Silence of the leader.                                                  *)

\* The flag of a backoff is set, and a member detached, only when the leader
\* is silent; from then on only the clock moves.
LEMMA BackoffAfterSilenceStep ==
    ASSUME TypeOK, BackoffAfterSilence, [Next]_vars
    PROVE  BackoffAfterSilence'
  <1>1. ASSUME nodeState' = nodeState, isbackoffExists' = isbackoffExists,
               lastIGROUPMsgTime' = lastIGROUPMsgTime, now' \in Nat, now' >= now
        PROVE  BackoffAfterSilence'
    <2>1. ASSUME NEW n \in Node, LeaderSilent(n)
          PROVE  LeaderSilent(n)'
      <3>1. /\ lastIGROUPMsgTime[n] \in Nat /\ now \in Nat
            /\ LEADER_LAST_TIME \in Nat
            /\ now - lastIGROUPMsgTime[n] > LEADER_LAST_TIME
        BY <2>1, TimeAssumption DEF TypeOK, LeaderSilent
      <3>2. now' - lastIGROUPMsgTime[n] > LEADER_LAST_TIME
        BY <3>1, <1>1
      <3> QED
        BY <3>2, <1>1 DEF LeaderSilent
    <2> QED
      BY <2>1, <1>1 DEF BackoffAfterSilence
  <1>2. ASSUME now' = now PROVE now' \in Nat /\ now' >= now
    BY <1>2 DEF TypeOK
  <1>3. ASSUME NEW n \in Node, DrawBackoff(n) \/ DetachFromLeader(n)
        PROVE  BackoffAfterSilence'
    <2>1. /\ LeaderSilent(n)
          /\ lastIGROUPMsgTime' = lastIGROUPMsgTime
          /\ now' = now
          /\ \A m \in Node \ {n} : /\ nodeState'[m] = nodeState[m]
                                   /\ isbackoffExists'[m] = isbackoffExists[m]
      BY <1>3 DEF DrawBackoff, DetachFromLeader, Due, TypeOK
    <2> QED
      BY <2>1 DEF BackoffAfterSilence, LeaderSilent
  <1>4. ASSUME NEW n \in Node, BecomeLeader(n)
        PROVE  BackoffAfterSilence'
    <2>1. /\ nodeState'[n] = "Leader"
          /\ lastIGROUPMsgTime' = lastIGROUPMsgTime
          /\ now' = now
          /\ \A m \in Node \ {n} : /\ nodeState'[m] = nodeState[m]
                                   /\ isbackoffExists'[m] = isbackoffExists[m]
      BY <1>4 DEF BecomeLeader, Due, TypeOK
    <2> QED
      BY <2>1 DEF BackoffAfterSilence, LeaderSilent
  <1>5. ASSUME NEW n \in Node, AcceptFromLeader(n) \/ BecomeMember(n)
        PROVE  BackoffAfterSilence'
    <2>1. /\ nodeState'[n] = "Member"
          /\ isbackoffExists' = isbackoffExists
          /\ now' = now
          /\ \A m \in Node \ {n} : /\ nodeState'[m] = nodeState[m]
                                   /\ lastIGROUPMsgTime'[m] = lastIGROUPMsgTime[m]
      BY <1>5 DEF AcceptFromLeader, FromMyLeader, BecomeMember, roleVars,
                  timeVars, TypeOK
    <2> QED
      BY <2>1 DEF BackoffAfterSilence, LeaderSilent
  <1>6. ASSUME NEW n \in Node, IdleUpdate(n) \/ LeaderUpdate(n)
        PROVE  BackoffAfterSilence'
    BY <1>1, <1>2, <1>6 DEF IdleUpdate, LeaderUpdate, Due, roleVars
  <1>7. ASSUME NEW n \in Node, RejectFromLeader(n) \/ JoinLeader(n)
                               \/ IgnoreIGROUP(n) \/ processIREPLY(n)
                               \/ nodeMovementUpdate(n)
        PROVE  BackoffAfterSilence'
    BY <1>1, <1>2, <1>7 DEF RejectFromLeader, JoinLeader, IgnoreIGROUP,
       processIREPLY, nodeMovementUpdate, StateVars, roleVars, timeVars
  <1>8. ASSUME EndIREPLY \/ EndIGROUP \/ UNCHANGED vars
        PROVE  BackoffAfterSilence'
    BY <1>1, <1>2, <1>8 DEF EndIREPLY, EndIGROUP, StateVars, roleVars,
                            timeVars, vars
  <1>9. ASSUME PassTime
        PROVE  BackoffAfterSilence'
    <2>1. PICK m \in Node : nextUpdate[m] > now /\ now' = nextUpdate[m]
      BY <1>9 DEF PassTime
    <2>2. now' \in Nat /\ now' >= now
      BY <2>1 DEF TypeOK
    <2> QED
      BY <1>1, <1>9, <2>2 DEF PassTime, StateVars, roleVars
  <1> QED
    BY <1>3, <1>4, <1>5, <1>6, <1>7, <1>8, <1>9
       DEF Next, nodePeriodicUpdate, processIGROUP

LEMMA SilenceBeforeLeadershipStep ==
    ASSUME TypeOK, BackoffAfterSilence, [Next]_vars,
           NEW n \in Node, nodeState[n] # "Leader", nodeState'[n] = "Leader"
    PROVE  now - lastIGROUPMsgTime[n] > LEADER_LAST_TIME
  <1>1. ASSUME NEW m \in Node, BecomeLeader(m)
        PROVE  now - lastIGROUPMsgTime[n] > LEADER_LAST_TIME
    <2>1. m = n
      BY <1>1 DEF BecomeLeader, TypeOK
    <2>2. nodeState[n] = "Detached" /\ isbackoffExists[n]
      BY <1>1, <2>1 DEF BecomeLeader, BackoffOver
    <2> QED
      BY <2>2 DEF BackoffAfterSilence, LeaderSilent
  <1>2. ASSUME NEW m \in Node, \/ DrawBackoff(m) \/ DetachFromLeader(m)
                               \/ BecomeMember(m)
        PROVE  FALSE
    <2>1. \/ nodeState' = [nodeState EXCEPT ![m] = "Detached"]
          \/ nodeState' = [nodeState EXCEPT ![m] = "Member"]
      BY <1>2 DEF DrawBackoff, DetachFromLeader, BecomeMember
    <2> QED
      BY <2>1 DEF TypeOK
  <1>3. ASSUME nodeState' = nodeState
        PROVE  FALSE
    BY <1>3
  <1>4. ASSUME NEW m \in Node, IdleUpdate(m) \/ LeaderUpdate(m)
                               \/ AcceptFromLeader(m) \/ RejectFromLeader(m)
                               \/ JoinLeader(m) \/ IgnoreIGROUP(m)
                               \/ processIREPLY(m) \/ nodeMovementUpdate(m)
        PROVE  FALSE
    BY <1>3, <1>4 DEF IdleUpdate, LeaderUpdate, AcceptFromLeader,
       RejectFromLeader, JoinLeader, IgnoreIGROUP, processIREPLY,
       nodeMovementUpdate, StateVars, roleVars
  <1>5. ASSUME EndIREPLY \/ EndIGROUP \/ PassTime \/ UNCHANGED vars
        PROVE  FALSE
    BY <1>3, <1>5 DEF EndIREPLY, EndIGROUP, PassTime, StateVars, roleVars, vars
  <1> QED
    BY <1>1, <1>2, <1>4, <1>5 DEF Next, nodePeriodicUpdate, processIGROUP

-----------------------------------------------------------------------------
(* The member lists.                                                       *)

\* The list names every member once, and not n.
NamesOnce(list, n) ==
    \A i, j \in DOMAIN list :
        /\ list[i].memberId # n
        /\ list[i].memberId = list[j].memberId => i = j

LEMMA SweptNamesOnce ==
    ASSUME NEW S, NEW list \in Seq(S), NEW old, NEW n, NamesOnce(list, n),
           NEW r \in Swept(list, old)
    PROVE  NamesOnce(r, n)
  <1>1. PICK f \in [DOMAIN r -> DOMAIN list] :
               /\ \A i, j \in DOMAIN r : i < j => f[i] < f[j]
               /\ \A i \in DOMAIN r : r[i] = list[f[i]]
    BY SweptIsSubsequence
  <1>2. r \in Seq(S)
    BY SweptIsSubsequence
  <1>3. /\ \A i \in DOMAIN r : i \in Int
        /\ \A i \in DOMAIN list : i \in Int
    BY <1>2, LenProperties
  <1>4. ASSUME NEW i \in DOMAIN r, NEW j \in DOMAIN r, f[i] = f[j]
        PROVE  i = j
    <2>1. ~(i < j) /\ ~(j < i)
      BY <1>1, <1>3, <1>4
    <2> QED
      BY <1>3, <2>1
  <1>5. \A i \in DOMAIN r : f[i] \in DOMAIN list
    BY <1>1
  <1> QED
    BY <1>1, <1>4, <1>5 DEF NamesOnce

\* Rewriting the other fields of the records keeps the names.
LEMMA SameNamesOnce ==
    ASSUME NEW list, NEW r, NEW n, NamesOnce(list, n), DOMAIN r = DOMAIN list,
           \A i \in DOMAIN list : r[i].memberId = list[i].memberId
    PROVE  NamesOnce(r, n)
  BY DEF NamesOnce

LEMMA AppendNamesOnce ==
    ASSUME NEW list \in Seq(MemberRecord), NEW n, NamesOnce(list, n),
           NEW e \in MemberRecord, e.memberId # n,
           \A i \in DOMAIN list : list[i].memberId # e.memberId
    PROVE  NamesOnce(Append(list, e), n)
  <1> DEFINE r == Append(list, e)
  <1>1. /\ Len(list) \in Nat
        /\ DOMAIN list = 1..Len(list)
        /\ r \in Seq(MemberRecord)
        /\ Len(r) = Len(list) + 1
        /\ DOMAIN r = 1..Len(r)
        /\ r[Len(list) + 1] = e
        /\ \A i \in 1..Len(list) : r[i] = list[i]
    BY LenProperties, AppendProperties
  <1> HIDE DEF r
  <1>2. \A i \in DOMAIN r : \/ i \in DOMAIN list /\ r[i] = list[i]
                            \/ i = Len(list) + 1 /\ r[i] = e
    BY <1>1
  <1>3. NamesOnce(r, n)
    BY <1>2 DEF NamesOnce
  <1> QED
    BY <1>3 DEF r

\* A new secret leaves the names as they are.
LEMMA RekeyNames ==
    ASSUME TypeOK, NEW n \in Node, NEW list, NEW session, NEW position,
           Rekey(n, list, session, position), NamesOnce(list, n),
           \A i \in DOMAIN list : list[i] \in MemberRecord
    PROVE  NamesOnce(memberList'[n], n)
  <1> DEFINE Respond(m) == [m EXCEPT !.leaderReply =
                              computeBlindedResponse(m.memberContrib, secrets + 1)]
             replied == [i \in DOMAIN list |-> Respond(list[i])]
  <1>1. memberList' = [memberList EXCEPT ![n] = replied]
    BY DEF Rekey
  <1>2. \A m \in MemberRecord : Respond(m).memberId = m.memberId
    BY DEF MemberRecord
  <1>3. DOMAIN replied = DOMAIN list /\
        \A i \in DOMAIN list : replied[i].memberId = list[i].memberId
    <2> HIDE DEF Respond
    <2> QED
      BY <1>2
  <1> HIDE DEF replied
  <1>4. memberList'[n] = replied
    BY <1>1 DEF TypeOK
  <1> QED
    BY <1>3, <1>4, SameNamesOnce

\* The IGROUP names whom the leader's list names.
LEMMA SendIGROUPNames ==
    ASSUME NEW n \in Node, SendIGROUP(n), NamesOnce(memberList'[n], n)
    PROVE  NamesOnce(igroup'.memberInfoList, n) /\ igroup'.leaderId = n
  <1> DEFINE list == memberList'[n]
             info == igroup'.memberInfoList
  <1>1. /\ DOMAIN info = DOMAIN list
        /\ \A i \in DOMAIN list : info[i].memberId = list[i].memberId
        /\ igroup'.leaderId = n
    BY DEF SendIGROUP
  <1> HIDE DEF list, info
  <1>2. NamesOnce(info, n)
    BY <1>1, SameNamesOnce DEF list
  <1> QED
    BY <1>1, <1>2 DEF info

LEMMA GroupNames ==
    GroupIsASet <=> /\ \A n \in Leaders : NamesOnce(memberList[n], n)
                    /\ igroup # None =>
                         NamesOnce(igroup.memberInfoList, igroup.leaderId)
  BY DEF GroupIsASet, NamesOnce

LEMMA GroupNamesNext ==
    ASSUME \A n \in Leaders' : NamesOnce(memberList'[n], n),
           igroup' # None => NamesOnce(igroup'.memberInfoList, igroup'.leaderId)
    PROVE  GroupIsASet'
  BY DEF GroupIsASet, NamesOnce

LEMMA LeaderUpdateNames ==
    ASSUME TypeOK, GroupIsASet, NEW n \in Node, LeaderUpdate(n)
    PROVE  /\ NamesOnce(memberList'[n], n)
           /\ \A m \in Node \ {n} : memberList'[m] = memberList[m]
  <1> DEFINE old == {i \in DOMAIN memberList[n] :
                       now - memberList[n][i].memberLastIREPLYTime >= IREPLY_EXPIRE_TIME}
  <1>1. PICK list \in Swept(memberList[n], old) :
          \/ Rekey(n, list, sessionNext[n], rng)
          \/ memberList' = [memberList EXCEPT ![n] = list]
    BY DEF LeaderUpdate
  <1> HIDE DEF old
  <1>2. n \in Leaders /\ memberList[n] \in Seq(MemberRecord)
    BY DEF LeaderUpdate, Leaders, TypeOK
  <1>3. NamesOnce(memberList[n], n)
    BY <1>2, GroupNames
  <1>4. NamesOnce(list, n) /\ list \in Seq(MemberRecord)
    BY <1>2, <1>3, SweptNamesOnce, SweptIsSubsequence
  <1>5. \A i \in DOMAIN list : list[i] \in MemberRecord
    BY <1>4, ElementOfSeq, LenProperties
  <1>6. CASE Rekey(n, list, sessionNext[n], rng)
    <2>1. NamesOnce(memberList'[n], n)
      BY <1>4, <1>5, <1>6, RekeyNames
    <2>2. \E r : memberList' = [memberList EXCEPT ![n] = r]
      BY <1>6 DEF Rekey
    <2> QED
      BY <2>1, <2>2 DEF TypeOK
  <1>7. CASE memberList' = [memberList EXCEPT ![n] = list]
    BY <1>4, <1>7 DEF TypeOK
  <1> QED
    BY <1>1, <1>6, <1>7

LEMMA BecomeLeaderNames ==
    ASSUME TypeOK, NEW n \in Node, BecomeLeader(n)
    PROVE  /\ NamesOnce(memberList'[n], n)
           /\ \A m \in Node \ {n} : memberList'[m] = memberList[m]
  <1>1. Rekey(n, <<>>, DrawnAt(rng), rng + DrawLength)
    BY DEF BecomeLeader
  <1>2. NamesOnce(<<>>, n)
    BY DEF NamesOnce
  <1>3. NamesOnce(memberList'[n], n)
    BY <1>1, <1>2, RekeyNames
  <1>4. \E r : memberList' = [memberList EXCEPT ![n] = r]
    BY <1>1 DEF Rekey
  <1> QED
    BY <1>3, <1>4 DEF TypeOK

LEMMA ProcessIREPLYNames ==
    ASSUME TypeOK, OthersReply, GroupIsASet, NEW n \in Node, processIREPLY(n)
    PROVE  /\ NamesOnce(memberList'[n], n)
           /\ \A m \in Node \ {n} : memberList'[m] = memberList[m]
  <1> DEFINE list == memberList[n]
             entries == EntryOf(n, ireply.nodeId)
             renewed(m) == [m EXCEPT !.memberLastNonce = ireply.nodeNonce,
                                     !.memberContrib = ireply.nodeContrib,
                                     !.memberLastIREPLYTime = now]
             new == Member(ireply.nodeId, ireply.nodeContrib, ireply.nodeNonce, now)
             updated == [i \in DOMAIN list |->
                           IF i \in entries THEN renewed(list[i]) ELSE list[i]]
  <1>1. memberList' = [memberList EXCEPT ![n] =
                         IF entries = {} THEN Append(list, new) ELSE updated]
    BY DEF processIREPLY
  <1>2. /\ ireply.nodeId \in Node
        /\ ireply.nodeContrib \in Elem
        /\ ireply.nodeNonce \in Nat
        /\ now \in Nat
        /\ ireply.nodeId # n
    BY DEF processIREPLY, Accepts, OthersReply, TypeOK, IREPLYMessage
  <1>3. list \in Seq(MemberRecord)
    BY DEF TypeOK
  <1>4. NamesOnce(list, n)
    BY GroupNames DEF processIREPLY, Accepts, Leaders
  <1>5. new \in MemberRecord /\ new.memberId = ireply.nodeId
    BY <1>2, RecordTypes DEF Member
  <1>6. CASE entries = {}
    <2>1. \A i \in DOMAIN list : list[i].memberId # new.memberId
      BY <1>5, <1>6 DEF EntryOf
    <2> HIDE DEF list, new, entries, updated
    <2>2. NamesOnce(Append(list, new), n)
      BY <1>2, <1>3, <1>4, <1>5, <2>1, AppendNamesOnce
    <2>3. memberList' = [memberList EXCEPT ![n] = Append(list, new)]
      BY <1>1, <1>6
    <2> QED
      BY <2>2, <2>3 DEF TypeOK
  <1>7. CASE entries # {}
    <2>1. \A i \in 1..Len(list) : list[i] \in MemberRecord
      BY <1>3, ElementOfSeq
    <2>2. \A m \in MemberRecord : renewed(m).memberId = m.memberId
      BY DEF MemberRecord
    <2>3. /\ DOMAIN updated = DOMAIN list
          /\ \A i \in DOMAIN list : updated[i].memberId = list[i].memberId
      <3> HIDE DEF list, entries, renewed
      <3> QED
        BY <1>3, <2>1, <2>2, LenProperties
    <2> HIDE DEF list, new, entries, updated
    <2>4. NamesOnce(updated, n)
      BY <1>4, <2>3, SameNamesOnce
    <2>5. memberList' = [memberList EXCEPT ![n] = updated]
      BY <1>1, <1>7
    <2> QED
      BY <2>4, <2>5 DEF TypeOK
  <1> QED
    BY <1>6, <1>7

\* A node that handles an IGROUP rewrites a list only as a member.
LEMMA ProcessIGROUPNames ==
    ASSUME TypeOK, NEW n \in Node, processIGROUP(n)
    PROVE  /\ Leaders' \subseteq Leaders
           /\ \A m \in Leaders' : memberList'[m] = memberList[m]
           /\ igroup' = igroup
  <1>1. CASE AcceptFromLeader(n)
    <2>1. /\ nodeState' = nodeState
          /\ n \notin Leaders
          /\ igroup' = igroup
          /\ \E r : memberList' = [memberList EXCEPT ![n] = r]
      BY <1>1 DEF AcceptFromLeader, FromMyLeader, Receives, ComputeKey, Leaders, roleVars
    <2> QED
      BY <2>1 DEF Leaders, TypeOK
  <1>2. CASE BecomeMember(n)
    <2>1. /\ nodeState' = [nodeState EXCEPT ![n] = "Member"]
          /\ igroup' = igroup
          /\ \E r : memberList' = [memberList EXCEPT ![n] = r]
      BY <1>2 DEF BecomeMember, Receives, ComputeKey
    <2> QED
      BY <2>1 DEF Leaders, TypeOK
  <1>3. CASE RejectFromLeader(n) \/ JoinLeader(n) \/ IgnoreIGROUP(n)
    BY <1>3 DEF RejectFromLeader, JoinLeader, IgnoreIGROUP, Receives, Leaders,
                roleVars, groupVars
  <1> QED
    BY <1>1, <1>2, <1>3 DEF processIGROUP

LEMMA GroupIsASetStep ==
    ASSUME TypeOK, OthersReply, GroupIsASet, [Next]_vars
    PROVE  GroupIsASet'
  <1>1. ASSUME Leaders' \subseteq Leaders,
               \A m \in Leaders' : memberList'[m] = memberList[m],
               igroup' \in {igroup, None}
        PROVE  GroupIsASet'
    BY <1>1, GroupNames, GroupNamesNext
  <1>2. ASSUME NEW n \in Node, BecomeLeader(n) \/ LeaderUpdate(n)
        PROVE  GroupIsASet'
    <2>1. /\ NamesOnce(memberList'[n], n)
          /\ \A m \in Node \ {n} : memberList'[m] = memberList[m]
      BY <1>2, BecomeLeaderNames, LeaderUpdateNames
    <2>2. Leaders' \subseteq Leaders \cup {n}
      BY <1>2 DEF BecomeLeader, LeaderUpdate, roleVars, Leaders, TypeOK
    <2>3. SendIGROUP(n)
      BY <1>2 DEF BecomeLeader, LeaderUpdate
    <2>4. NamesOnce(igroup'.memberInfoList, igroup'.leaderId)
      BY <2>1, <2>3, SendIGROUPNames
    <2>5. \A m \in Leaders' : NamesOnce(memberList'[m], m)
      BY <2>1, <2>2, GroupNames DEF Leaders
    <2> QED
      BY <2>4, <2>5, GroupNamesNext
  <1>3. ASSUME NEW n \in Node, processIREPLY(n)
        PROVE  GroupIsASet'
    <2>1. /\ NamesOnce(memberList'[n], n)
          /\ \A m \in Node \ {n} : memberList'[m] = memberList[m]
      BY <1>3, ProcessIREPLYNames
    <2>2. Leaders' = Leaders /\ igroup' = igroup
      BY <1>3 DEF processIREPLY, roleVars, netVars, Leaders
    <2>3. \A m \in Leaders' : NamesOnce(memberList'[m], m)
      BY <2>1, <2>2, GroupNames DEF Leaders
    <2> QED
      BY <2>2, <2>3, GroupNames, GroupNamesNext
  <1>4. ASSUME NEW n \in Node, processIGROUP(n)
        PROVE  GroupIsASet'
    BY <1>1, <1>4, ProcessIGROUPNames
  <1>5. ASSUME NEW n \in Node, DrawBackoff(n) \/ DetachFromLeader(n)
        PROVE  GroupIsASet'
    <2>1. /\ nodeState' = [nodeState EXCEPT ![n] = "Detached"]
          /\ memberList' = memberList
          /\ igroup' = igroup
      BY <1>5 DEF DrawBackoff, DetachFromLeader, groupVars, netVars
    <2> QED
      BY <1>1, <2>1 DEF Leaders, TypeOK
  <1>6. ASSUME NEW n \in Node, IdleUpdate(n) \/ nodeMovementUpdate(n)
        PROVE  GroupIsASet'
    BY <1>1, <1>6 DEF IdleUpdate, nodeMovementUpdate, StateVars, roleVars,
                      groupVars, netVars, Leaders
  <1>7. ASSUME EndIREPLY \/ EndIGROUP \/ PassTime \/ UNCHANGED vars
        PROVE  GroupIsASet'
    BY <1>1, <1>7 DEF EndIREPLY, EndIGROUP, PassTime, vars, StateVars,
                      roleVars, groupVars, netVars, Leaders
  <1> QED
    BY <1>2, <1>3, <1>4, <1>5, <1>6, <1>7 DEF Next, nodePeriodicUpdate

-----------------------------------------------------------------------------
(* The theorems about roles and member lists.                              *)

\* The inductive invariant holds of every reachable state.
THEOREM GroupInvCorrect == Spec => []GroupInv
  <1>1. Init => GroupInv
    BY DEF Init, GroupInv, LeaderSends, OthersReply, BackoffAfterSilence,
           MembershipAcyclic, GroupIsASet, Members, Leaders
  <1>2. TypeOK /\ GroupInv /\ [Next]_vars => GroupInv'
    BY LeaderSendsStep, OthersReplyStep, BackoffAfterSilenceStep,
       MembershipAcyclicStep, GroupIsASetStep DEF GroupInv
  <1> QED
    BY <1>1, <1>2, TypeCorrect, PTL DEF Spec

\* No ring of members follows itself, for any number of nodes.
THEOREM MembershipAcyclicHolds == Spec => []MembershipAcyclic
  <1>1. GroupInv => MembershipAcyclic
    BY DEF GroupInv
  <1> QED
    BY <1>1, GroupInvCorrect, PTL

\* A leader's list and the IGROUP it sends name each member once.
THEOREM GroupIsASetHolds == Spec => []GroupIsASet
  <1>1. GroupInv => GroupIsASet
    BY DEF GroupInv
  <1> QED
    BY <1>1, GroupInvCorrect, PTL

\* Nobody takes the lead while its leader has confirmed it recently.
THEOREM SilenceBeforeLeadershipHolds == Spec => SilenceBeforeLeadership
  <1> DEFINE Silence == \A n \in Node :
               nodeState[n] # "Leader" /\ nodeState'[n] = "Leader"
                 => now - lastIGROUPMsgTime[n] > LEADER_LAST_TIME
  <1>1. TypeOK /\ GroupInv /\ [Next]_vars => Silence
    BY SilenceBeforeLeadershipStep DEF GroupInv
  <1>2. TypeOK /\ GroupInv /\ [Next]_vars => [Silence]_vars
    BY <1>1
  <1>3. Spec => [][Silence]_vars
    BY <1>2, TypeCorrect, GroupInvCorrect, PTL DEF Spec
  <1> QED
    BY <1>3 DEF SilenceBeforeLeadership

-----------------------------------------------------------------------------
(* Silent members.                                                         *)

\* A position further down a list is spared one period less, and the last of
\* all is dropped on time.
LEMMA GraceGrows ==
    ASSUME IsFiniteSet(Node)
    PROVE  /\ \A i \in Int : Grace(i) \in Int
           /\ \A i, j \in Int : i <= j => Grace(j) <= Grace(i)
           /\ \A i, j \in Int : i < j => Grace(j) + PERIOD_INTERVAL <= Grace(i)
           /\ \A i \in Int : i <= Cardinality(Node) - 1 => IREPLY_EXPIRE_TIME <= Grace(i)
  <1>1. /\ PERIOD_INTERVAL \in Nat \ {0}
        /\ IREPLY_EXPIRE_TIME \in Nat \ {0}
        /\ Cardinality(Node) \in Nat
    BY TimeAssumption, FS_CardinalityType
  <1>2. \A a, b \in Int, p \in Nat : a <= b => a * p <= b * p
    <2> SUFFICES ASSUME NEW a \in Int, NEW b \in Int, NEW p \in Nat, a <= b
                 PROVE  a * p <= b * p
      OBVIOUS
    <2>1. b * p = a * p + (b - a) * p
      OBVIOUS
    <2>2. b - a \in Nat
      OBVIOUS
    <2>3. \A x, y \in Nat : x * y \in Nat
      OBVIOUS
    <2>4. (b - a) * p \in Nat
      BY <2>2, <2>3
    <2>5. a * p \in Int
      OBVIOUS
    <2> QED
      BY <2>1, <2>4, <2>5
  <1>3. \A a \in Int : a * PERIOD_INTERVAL \in Int
    BY <1>1
  <1>4. \A i, j \in Int : i <= j => Grace(j) <= Grace(i)
    BY <1>1, <1>2, <1>3 DEF Grace
  <1>5. \A i, j \in Int : i < j => Grace(j) + PERIOD_INTERVAL <= Grace(i)
    <2>1. \A j \in Int : Grace(j) + PERIOD_INTERVAL = Grace(j - 1)
      BY <1>1, <1>3 DEF Grace
    <2> QED
      BY <1>4, <2>1
  <1>6. \A i \in Int : i <= Cardinality(Node) - 1 => IREPLY_EXPIRE_TIME <= Grace(i)
    <2>1. Grace(Cardinality(Node) - 1) = IREPLY_EXPIRE_TIME
      BY <1>1 DEF Grace
    <2> QED
      BY <1>1, <1>4, <2>1
  <1> QED
    BY <1>1, <1>3, <1>4, <1>5, <1>6 DEF Grace

\* A list that names nobody twice, and not its leader, is shorter than the
\* network is large.
LEMMA OneEntryEach ==
    ASSUME IsFiniteSet(Node), NEW n \in Node, NEW list \in Seq(MemberRecord),
           NamesOnce(list, n)
    PROVE  \A i \in DOMAIN list : i \in 1..(Cardinality(Node) - 1)
  <1> DEFINE name == [i \in 1..Len(list) |-> list[i].memberId]
  <1>1. Len(list) \in Nat /\ DOMAIN list = 1..Len(list)
    BY LenProperties
  <1>2. \A i \in 1..Len(list) : list[i] \in MemberRecord
    BY ElementOfSeq
  <1>3. name \in [1..Len(list) -> Node \ {n}]
    BY <1>1, <1>2 DEF NamesOnce, MemberRecord
  <1>4. name \in Injection(1..Len(list), Node \ {n})
    BY <1>1, <1>3, OneToOne DEF NamesOnce
  <1>5. /\ IsFiniteSet(Node \ {n})
        /\ Cardinality(Node \ {n}) = Cardinality(Node) - 1
    BY FS_RemoveElement
  <1>6. Cardinality(1..Len(list)) <= Cardinality(Node \ {n})
    BY <1>4, <1>5, FS_Injection
  <1>7. Cardinality(1..Len(list)) = Len(list)
    BY <1>1, CountingFromOne
  <1>8. Cardinality(Node) \in Nat
    BY FS_CardinalityType
  <1> QED
    BY <1>1, <1>5, <1>6, <1>7, <1>8


LEMMA SweptNobodyOverdue ==
    ASSUME TypeOK, IsFiniteSet(Node), NEW n \in Node, NEW list \in Seq(MemberRecord),
           NamesOnce(list, n), NEW time \in Nat,
           NobodyOverdue(list, time - PERIOD_INTERVAL),
           NEW r \in Swept(list, {i \in DOMAIN list :
                      time - list[i].memberLastIREPLYTime >= IREPLY_EXPIRE_TIME})
    PROVE  NobodyOverdue(r, time)
  <1> DEFINE old == {i \in DOMAIN list :
                       time - list[i].memberLastIREPLYTime >= IREPLY_EXPIRE_TIME}
  <1>1. SUFFICES ASSUME NEW k \in DOMAIN r
                 PROVE  time - r[k].memberLastIREPLYTime < Grace(k)
    BY DEF NobodyOverdue
  <1>2. r \in Seq(MemberRecord) /\ old \in SUBSET (DOMAIN list)
    BY SweptIsSubsequence
  <1>3. k \in Nat /\ DOMAIN list \subseteq Nat
    BY <1>2, LenProperties
  <1>4. PICK j \in DOMAIN list : r[k] = list[j] /\ k <= j /\ (j \in old => k < j)
    BY <1>2, SweptMovesUp
  <1>5. j \in Nat /\ j <= Cardinality(Node) - 1 /\ Cardinality(Node) \in Nat
    BY <1>3, OneEntryEach, FS_CardinalityType
  <1>6. list[j].memberLastIREPLYTime \in Nat
    <2>1. list[j] \in MemberRecord
      BY ElementOfSeq, LenProperties
    <2> QED
      BY <2>1 DEF MemberRecord
  <1>7. time - PERIOD_INTERVAL - list[j].memberLastIREPLYTime < Grace(j)
    BY DEF NobodyOverdue
  <1>8. /\ PERIOD_INTERVAL \in Nat /\ IREPLY_EXPIRE_TIME \in Nat
        /\ Grace(k) \in Int /\ Grace(j) \in Int
    BY <1>3, <1>5, TimeAssumption, GraceGrows
  <1>9. CASE j \in old
    <2>1. Grace(j) + PERIOD_INTERVAL <= Grace(k)
      BY <1>3, <1>4, <1>5, <1>9, GraceGrows
    <2> QED
      BY <1>4, <1>6, <1>7, <1>8, <2>1
  <1>10. CASE j \notin old
    <2>1. time - list[j].memberLastIREPLYTime < IREPLY_EXPIRE_TIME
      BY <1>6, <1>8, <1>10
    <2>2. IREPLY_EXPIRE_TIME <= Grace(k)
      BY <1>3, <1>4, <1>5, GraceGrows
    <2> QED
      BY <1>4, <1>6, <1>8, <2>1, <2>2
  <1> QED
    BY <1>9, <1>10

LEMMA LeaderUpdateSilence ==
    ASSUME TypeOK, IsFiniteSet(Node), GroupIsASet, SilenceBounded,
           NEW n \in Node, LeaderUpdate(n)
    PROVE  NobodyOverdue(memberList'[n], now)
  <1> DEFINE old == {i \in DOMAIN memberList[n] :
                       now - memberList[n][i].memberLastIREPLYTime >= IREPLY_EXPIRE_TIME}
  <1>1. PICK list \in Swept(memberList[n], old) :
          \/ Rekey(n, list, sessionNext[n], rng)
          \/ memberList' = [memberList EXCEPT ![n] = list]
    BY DEF LeaderUpdate
  <1>2. /\ n \in Leaders
        /\ memberList[n] \in Seq(MemberRecord)
        /\ now \in Nat
        /\ nextUpdate[n] = now
    BY DEF LeaderUpdate, Leaders, TypeOK, Due
  <1>3. NamesOnce(memberList[n], n)
    BY <1>2, GroupNames
  <1>4. NobodyOverdue(memberList[n], now - PERIOD_INTERVAL)
    BY <1>2 DEF SilenceBounded
  <1>5. NobodyOverdue(list, now)
    BY <1>2, <1>3, <1>4, SweptNobodyOverdue
  <1>6. list \in Seq(MemberRecord)
    <2> HIDE DEF old
    <2> QED
      BY <1>2, SweptIsSubsequence
  <1> HIDE DEF old
  <1>7. CASE Rekey(n, list, sessionNext[n], rng)
    <2> DEFINE Respond(m) == [m EXCEPT !.leaderReply =
                                computeBlindedResponse(m.memberContrib, secrets + 1)]
               replied == [i \in DOMAIN list |-> Respond(list[i])]
    <2>1. memberList' = [memberList EXCEPT ![n] = replied]
      BY <1>7 DEF Rekey
    <2>2. \A m \in MemberRecord :
            Respond(m).memberLastIREPLYTime = m.memberLastIREPLYTime
      BY DEF MemberRecord
    <2>3. \A i \in DOMAIN list : list[i] \in MemberRecord
      BY <1>6, ElementOfSeq, LenProperties
    <2>4. /\ DOMAIN replied = DOMAIN list
          /\ \A i \in DOMAIN list :
               replied[i].memberLastIREPLYTime = list[i].memberLastIREPLYTime
      <3> HIDE DEF Respond
      <3> QED
        BY <2>2, <2>3
    <2> HIDE DEF replied
    <2>5. memberList'[n] = replied
      BY <2>1 DEF TypeOK
    <2> QED
      BY <1>5, <2>4, <2>5 DEF NobodyOverdue
  <1>8. CASE memberList' = [memberList EXCEPT ![n] = list]
    BY <1>5, <1>8 DEF TypeOK
  <1> QED
    BY <1>1, <1>7, <1>8

LEMMA BecomeLeaderSilence ==
    ASSUME TypeOK, NEW n \in Node, BecomeLeader(n)
    PROVE  NobodyOverdue(memberList'[n], now)
  <1>1. PICK r : memberList' = [memberList EXCEPT ![n] = [i \in DOMAIN <<>> |-> r[i]]]
    <2> DEFINE Respond(m) == [m EXCEPT !.leaderReply =
                                computeBlindedResponse(m.memberContrib, secrets + 1)]
               replied == [i \in DOMAIN <<>> |-> Respond(<<>>[i])]
    <2>1. memberList' = [memberList EXCEPT ![n] = replied]
      BY DEF BecomeLeader, Rekey
    <2>2. replied = [i \in DOMAIN <<>> |-> replied[i]]
      OBVIOUS
    <2> HIDE DEF replied
    <2> QED
      BY <2>1, <2>2
  <1> QED
    BY <1>1 DEF TypeOK, NobodyOverdue

LEMMA ProcessIREPLYSilence ==
    ASSUME TypeOK, TypeOK', IsFiniteSet(Node), GroupIsASet', SilenceBounded,
           NEW n \in Node, processIREPLY(n)
    PROVE  NobodyOverdue(memberList'[n], nextUpdate[n] - PERIOD_INTERVAL)
  <1> DEFINE list == memberList[n]
             time == nextUpdate[n] - PERIOD_INTERVAL
             entries == EntryOf(n, ireply.nodeId)
             renewed(m) == [m EXCEPT !.memberLastNonce = ireply.nodeNonce,
                                     !.memberContrib = ireply.nodeContrib,
                                     !.memberLastIREPLYTime = now]
             new == Member(ireply.nodeId, ireply.nodeContrib, ireply.nodeNonce, now)
             updated == [i \in DOMAIN list |->
                           IF i \in entries THEN renewed(list[i]) ELSE list[i]]
  <1>1. memberList' = [memberList EXCEPT ![n] =
                         IF entries = {} THEN Append(list, new) ELSE updated]
    BY DEF processIREPLY
  <1>2. /\ n \in Leaders /\ n \in Leaders'
        /\ ireply # None
    BY DEF processIREPLY, Accepts, Leaders, roleVars
  <1>3. /\ list \in Seq(MemberRecord)
        /\ memberList'[n] \in Seq(MemberRecord)
        /\ now \in Nat
        /\ time \in Int
    <2>1. memberList'[n] \in Seq(MemberRecord)
      BY DEF TypeOK
    <2>2. nextUpdate[n] \in Nat /\ PERIOD_INTERVAL \in Nat
      BY TimeAssumption DEF TypeOK
    <2>3. list \in Seq(MemberRecord) /\ now \in Nat
      BY DEF TypeOK
    <2> QED
      BY <2>1, <2>2, <2>3
  <1>4. time <= now /\ NobodyOverdue(list, time)
    <2>1. nextUpdate[n] <= now + PERIOD_INTERVAL /\ NobodyOverdue(list, time)
      BY <1>2 DEF SilenceBounded
    <2>2. nextUpdate[n] \in Nat /\ PERIOD_INTERVAL \in Nat
      BY TimeAssumption DEF TypeOK
    <2> QED
      BY <1>3, <2>1, <2>2
  <1>5. \A m \in MemberRecord : renewed(m).memberLastIREPLYTime = now
    BY DEF MemberRecord
  <1>6. new.memberLastIREPLYTime = now
    BY DEF Member
  <1>7. \A i \in DOMAIN list : list[i] \in MemberRecord
    BY <1>3, ElementOfSeq, LenProperties
  <1>8. \A i \in DOMAIN memberList'[n] :
          \/ memberList'[n][i].memberLastIREPLYTime = now
          \/ i \in DOMAIN list /\ memberList'[n][i] = list[i]
    <2>1. CASE entries = {}
      <3>1. memberList'[n] = Append(list, new)
        BY <1>1, <2>1 DEF TypeOK
      <3>2. /\ Len(list) \in Nat
            /\ DOMAIN list = 1..Len(list)
            /\ DOMAIN Append(list, new) = 1..(Len(list) + 1)
            /\ Append(list, new)[Len(list) + 1] = new
            /\ \A i \in 1..Len(list) : Append(list, new)[i] = list[i]
        <4>1. new \in MemberRecord
          BY <1>2, <1>3, RecordTypes DEF TypeOK, IREPLYMessage
        <4> HIDE DEF list, new
        <4> QED
          BY <1>3, <4>1, LenProperties, AppendProperties
      <3> HIDE DEF list, new
      <3> QED
        BY <1>6, <3>1, <3>2
    <2>2. CASE entries # {}
      <3>1. memberList'[n] = updated
        BY <1>1, <2>2 DEF TypeOK
      <3> HIDE DEF list, entries, renewed
      <3> QED
        BY <1>5, <1>7, <3>1
    <2> QED
      BY <2>1, <2>2
  <1>9. SUFFICES ASSUME NEW i \in DOMAIN memberList'[n]
                 PROVE  time - memberList'[n][i].memberLastIREPLYTime < Grace(i)
    BY DEF NobodyOverdue
  <1>10. NamesOnce(memberList'[n], n)
    BY <1>2 DEF GroupIsASet, NamesOnce
  <1>11. i \in Int /\ i <= Cardinality(Node) - 1
    BY <1>3, <1>10, OneEntryEach, FS_CardinalityType
  <1>12. CASE memberList'[n][i].memberLastIREPLYTime = now
    <2>1. IREPLY_EXPIRE_TIME <= Grace(i) /\ Grace(i) \in Int
      BY <1>11, GraceGrows
    <2> HIDE DEF time
    <2> QED
      BY <1>3, <1>4, <1>12, <2>1, TimeAssumption
  <1>13. CASE i \in DOMAIN list /\ memberList'[n][i] = list[i]
    BY <1>4, <1>13 DEF NobodyOverdue
  <1> QED
    BY <1>8, <1>12, <1>13


LEMMA SilenceBoundedStep ==
    ASSUME TypeOK, TypeOK', IsFiniteSet(Node), GroupIsASet, GroupIsASet',
           SilenceBounded, [Next]_vars
    PROVE  SilenceBounded'
  <1>1. ASSUME Leaders' \subseteq Leaders,
               \A m \in Leaders' : memberList'[m] = memberList[m] /\ nextUpdate'[m] = nextUpdate[m],
               now' >= now,
               igroup' = None \/ (/\ igroup' = igroup
                                  /\ nextUpdate' = nextUpdate
                                  /\ now' = now)
        PROVE  SilenceBounded'
    <2>1. igroup' # None => nextUpdate'[igroup'.leaderId] = now' + PERIOD_INTERVAL
      BY <1>1 DEF SilenceBounded
    <2>2. ASSUME NEW l \in Leaders'
          PROVE  /\ nextUpdate'[l] <= now' + PERIOD_INTERVAL
                 /\ NobodyOverdue(memberList'[l], nextUpdate'[l] - PERIOD_INTERVAL)
      <3>1. /\ nextUpdate'[l] <= now + PERIOD_INTERVAL
            /\ NobodyOverdue(memberList'[l], nextUpdate'[l] - PERIOD_INTERVAL)
        BY <1>1, <2>2 DEF SilenceBounded
      <3>2. now' \in Nat /\ now \in Nat /\ PERIOD_INTERVAL \in Nat
        BY TimeAssumption DEF TypeOK
      <3>3. nextUpdate'[l] \in Nat
        BY <2>2 DEF TypeOK, Leaders
      <3> QED
        BY <1>1, <3>1, <3>2, <3>3
    <2> QED
      BY <2>1, <2>2 DEF SilenceBounded, NobodyOverdue
  <1>2. ASSUME NEW n \in Node, BecomeLeader(n) \/ LeaderUpdate(n)
        PROVE  SilenceBounded'
    <2>1. /\ NobodyOverdue(memberList'[n], now)
          /\ \A m \in Node \ {n} : memberList'[m] = memberList[m]
      BY <1>2, BecomeLeaderSilence, LeaderUpdateSilence, BecomeLeaderNames,
         LeaderUpdateNames
    <2>2. Leaders' \subseteq Leaders \cup {n}
      BY <1>2 DEF BecomeLeader, LeaderUpdate, roleVars, Leaders, TypeOK
    <2>3. /\ now' = now
          /\ nextUpdate'[n] = now + PERIOD_INTERVAL
          /\ \A m \in Node \ {n} : nextUpdate'[m] = nextUpdate[m]
      BY <1>2 DEF BecomeLeader, LeaderUpdate, Due, TypeOK
    <2>4. igroup'.leaderId = n
      BY <1>2 DEF BecomeLeader, LeaderUpdate, SendIGROUP
    <2>5. now \in Nat /\ PERIOD_INTERVAL \in Nat
      BY TimeAssumption DEF TypeOK
    <2>6. NobodyOverdue(memberList'[n], nextUpdate'[n] - PERIOD_INTERVAL)
      <3>1. nextUpdate'[n] - PERIOD_INTERVAL = now
        BY <2>3, <2>5
      <3> QED
        BY <2>1, <3>1
    <2>7. \A l \in Leaders' : /\ nextUpdate'[l] <= now + PERIOD_INTERVAL
                              /\ NobodyOverdue(memberList'[l], nextUpdate'[l] - PERIOD_INTERVAL)
      <3>1. \A l \in Leaders' \ {n} : l \in Leaders /\ l \in Node \ {n}
        BY <2>2 DEF Leaders
      <3>2. \A l \in Leaders' \ {n} :
               /\ nextUpdate'[l] <= now + PERIOD_INTERVAL
               /\ NobodyOverdue(memberList'[l], nextUpdate'[l] - PERIOD_INTERVAL)
        BY <2>1, <2>3, <3>1 DEF SilenceBounded
      <3> QED
        BY <2>3, <2>5, <2>6, <3>2
    <2> QED
      BY <2>3, <2>4, <2>7 DEF SilenceBounded, NobodyOverdue
  <1>3. ASSUME NEW n \in Node, processIREPLY(n)
        PROVE  SilenceBounded'
    <2>1. NobodyOverdue(memberList'[n], nextUpdate[n] - PERIOD_INTERVAL)
      BY <1>3, ProcessIREPLYSilence
    <2>2. /\ Leaders' = Leaders
          /\ igroup' = igroup
          /\ now' = now
          /\ nextUpdate' = nextUpdate
          /\ \A m \in Node \ {n} : memberList'[m] = memberList[m]
      <3>1. \E r : memberList' = [memberList EXCEPT ![n] = r]
        BY <1>3 DEF processIREPLY
      <3> QED
        BY <1>3, <3>1 DEF processIREPLY, roleVars, netVars, timeVars, Leaders, TypeOK
    <2>3. \A l \in Leaders : NobodyOverdue(memberList'[l], nextUpdate[l] - PERIOD_INTERVAL)
      BY <2>1, <2>2 DEF SilenceBounded, Leaders
    <2> QED
      BY <2>2, <2>3 DEF SilenceBounded, NobodyOverdue
  <1>4. ASSUME NEW n \in Node, processIGROUP(n)
        PROVE  SilenceBounded'
    <2>1. now' = now /\ nextUpdate' = nextUpdate
      BY <1>4 DEF processIGROUP, AcceptFromLeader, RejectFromLeader, JoinLeader,
                  BecomeMember, IgnoreIGROUP, timeVars
    <2>2. now \in Nat
      BY DEF TypeOK
    <2> QED
      BY <1>1, <1>4, <2>1, <2>2, ProcessIGROUPNames
  <1>5. ASSUME NEW n \in Node, DrawBackoff(n) \/ DetachFromLeader(n) \/ IdleUpdate(n)
        PROVE  SilenceBounded'
    <2>1. /\ Due(n)
          /\ n \notin Leaders
          /\ nodeState' = nodeState \/ nodeState' = [nodeState EXCEPT ![n] = "Detached"]
          /\ memberList' = memberList
          /\ igroup' = igroup
      BY <1>5 DEF DrawBackoff, DetachFromLeader, IdleUpdate, roleVars, groupVars,
                  netVars, Leaders
    <2>2. /\ igroup' = None
          /\ now' = now
          /\ \A m \in Node \ {n} : nextUpdate'[m] = nextUpdate[m]
      BY <2>1 DEF Due, Quiet, TypeOK
    <2>3. Leaders' \subseteq Leaders \ {n}
      BY <2>1 DEF Leaders, TypeOK
    <2>4. now \in Nat
      BY DEF TypeOK
    <2>5. Leaders \subseteq Node
      BY DEF Leaders
    <2> QED
      BY <1>1, <2>1, <2>2, <2>3, <2>4, <2>5
  <1>6. ASSUME NEW n \in Node, nodeMovementUpdate(n)
        PROVE  SilenceBounded'
    <2>1. now \in Nat
      BY DEF TypeOK
    <2> QED
      BY <1>1, <1>6, <2>1 DEF nodeMovementUpdate, StateVars, roleVars, groupVars, timeVars,
                       netVars, Leaders
  <1>7. ASSUME EndIREPLY \/ EndIGROUP \/ UNCHANGED vars
        PROVE  SilenceBounded'
    <2>1. now \in Nat
      BY DEF TypeOK
    <2> QED
      BY <1>1, <1>7, <2>1 DEF EndIREPLY, EndIGROUP, vars, StateVars, roleVars, groupVars,
                       timeVars, netVars, Leaders
  <1>8. ASSUME PassTime
        PROVE  SilenceBounded'
    <2>1. /\ UNCHANGED <<nodeState, memberList, nextUpdate, igroup>>
          /\ igroup = None
      BY <1>8 DEF PassTime, Quiet, StateVars, roleVars, groupVars, netVars
    <2>2. now' >= now
      BY <1>8 DEF PassTime, TypeOK
    <2> QED
      BY <1>1, <2>1, <2>2 DEF Leaders
  <1> QED
    BY <1>2, <1>3, <1>4, <1>5, <1>6, <1>7, <1>8 DEF Next, nodePeriodicUpdate

\* A leader never goes on listing a member that has been silent for longer
\* than the sweeps can spare it, whatever the timers and the number of nodes.
THEOREM SilentMembersLeaveHolds ==
    ASSUME IsFiniteSet(Node)
    PROVE  Spec => []SilentMembersLeave
  <1>1. Init => SilenceBounded
    BY DEF Init, SilenceBounded, Leaders
  <1>2. TypeOK /\ TypeOK' /\ GroupInv /\ GroupInv' /\ SilenceBounded /\ [Next]_vars
          => SilenceBounded'
    BY SilenceBoundedStep DEF GroupInv
  <1>3. TypeOK /\ GroupInv /\ SilenceBounded => SilentMembersLeave
    <2> SUFFICES ASSUME TypeOK, GroupInv, SilenceBounded, igroup # None
                 PROVE  NobodyOverdue(memberList[igroup.leaderId], now)
      BY DEF SilentMembersLeave
    <2> DEFINE l == igroup.leaderId
    <2>1. l \in Leaders
      BY DEF GroupInv, LeaderSends
    <2>2. nextUpdate[l] = now + PERIOD_INTERVAL
      BY DEF SilenceBounded
    <2>3. nextUpdate[l] - PERIOD_INTERVAL = now
      BY <2>2, TimeAssumption DEF TypeOK
    <2>4. NobodyOverdue(memberList[l], nextUpdate[l] - PERIOD_INTERVAL)
      BY <2>1 DEF SilenceBounded
    <2> QED
      BY <2>3, <2>4
  <1> QED
    BY <1>1, <1>2, <1>3, TypeCorrect, GroupInvCorrect, PTL DEF Spec

-----------------------------------------------------------------------------
(* Sessions.                                                               *)

\* What a leader's own update does to the sessions: it keeps everything, or it
\* announces a session no position of rand() has given before, and moves to
\* the one it had announced or, when it was no leader, to another new one.
Announces(n) ==
    /\ Leaders' \subseteq Leaders \cup {n}
    /\ Members' \subseteq Members \ {n}
    /\ leaderId' = leaderId
    /\ leaderLastNonce' = leaderLastNonce
    /\ \E x : lastNonce' = [lastNonce EXCEPT ![n] = x]
    /\ \E c, d \in Nat :
         /\ sessionCurrent' = [sessionCurrent EXCEPT ![n] = c]
         /\ sessionNext' = [sessionNext EXCEPT ![n] = d]
         /\ rng < d
         /\ c # d
         /\ c <= rng'
         /\ d <= rng'
         /\ rng <= rng'
         /\ rng < c \/ (n \in Leaders /\ c = sessionNext[n])

\* What every other step does: leaders keep their sessions, and a member keeps
\* what it knows or takes what its leader has.
Follows ==
    /\ rng <= rng'
    /\ Leaders' \subseteq Leaders
    /\ \A l \in Leaders' : /\ sessionCurrent'[l] = sessionCurrent[l]
                           /\ sessionNext'[l] = sessionNext[l]
                           /\ lastNonce'[l] = lastNonce[l]
    /\ \A n \in Members' :
         \/ /\ n \in Members
            /\ leaderId'[n] = leaderId[n]
            /\ sessionCurrent'[n] = sessionCurrent[n]
            /\ sessionNext'[n] = sessionNext[n]
            /\ leaderLastNonce'[n] = leaderLastNonce[n]
         \/ /\ leaderId'[n] \in Leaders
            /\ sessionCurrent'[n] = sessionCurrent[leaderId'[n]]
            /\ sessionNext'[n] = sessionNext[leaderId'[n]]
            /\ leaderLastNonce'[n] = lastNonce[leaderId'[n]]
    /\ \A n \in Node :
         \/ /\ sessionCurrent'[n] = sessionCurrent[n]
            /\ sessionNext'[n] = sessionNext[n]
         \/ \E l \in Leaders : /\ sessionCurrent'[n] = sessionCurrent[l]
                               /\ sessionNext'[n] = sessionNext[l]

LEMMA BecomeLeaderAnnounces ==
    ASSUME TypeOK, NEW n \in Node, BecomeLeader(n)
    PROVE  Announces(n)
  <1> DEFINE c == DrawnAt(rng)
             d == DrawnAt(rng + DrawLength + DrawLength)
  <1>1. /\ nodeState' = [nodeState EXCEPT ![n] = "Leader"]
        /\ leaderId' = leaderId
        /\ leaderLastNonce' = leaderLastNonce
        /\ Rekey(n, <<>>, c, rng + DrawLength)
    BY DEF BecomeLeader
  <1>2. /\ lastNonce' = [lastNonce EXCEPT ![n] = DrawnAt(rng + DrawLength)]
        /\ sessionCurrent' = [sessionCurrent EXCEPT ![n] = c]
        /\ sessionNext' = [sessionNext EXCEPT ![n] = d]
        /\ rng' = rng + DrawLength + 2 * DrawLength
    BY <1>1 DEF Rekey
  <1>3. /\ Leaders' \subseteq Leaders \cup {n}
        /\ Members' \subseteq Members \ {n}
    BY <1>1 DEF Leaders, Members, TypeOK
  <1>4. /\ c \in Nat /\ d \in Nat
        /\ rng < c /\ c < d /\ c <= rng' /\ d <= rng' /\ rng <= rng'
    BY <1>2 DEF DrawnAt, DrawLength, TypeOK
  <1> HIDE DEF c, d
  <1>5. c # d /\ rng < d
    BY <1>4 DEF TypeOK
  <1> QED
    BY <1>1, <1>2, <1>3, <1>4, <1>5 DEF Announces

LEMMA LeaderUpdateAnnounces ==
    ASSUME TypeOK, SessionsDrawn, NEW n \in Node, LeaderUpdate(n)
    PROVE  Announces(n) \/ Follows
  <1>1. PICK list :
          \/ Rekey(n, list, sessionNext[n], rng)
          \/ UNCHANGED <<secretVars, compGroupChange, sessionCurrent,
                         sessionNext, randomVars>>
    BY DEF LeaderUpdate
  <1>2. /\ n \in Leaders
        /\ n \notin Members
        /\ nodeState' = nodeState
        /\ leaderId' = leaderId
        /\ leaderLastNonce' = leaderLastNonce
    BY DEF LeaderUpdate, Leaders, Members, roleVars
  <1>3. CASE Rekey(n, list, sessionNext[n], rng)
    <2> DEFINE c == sessionNext[n]
               d == DrawnAt(rng + DrawLength)
    <2>1. /\ lastNonce' = [lastNonce EXCEPT ![n] = DrawnAt(rng)]
          /\ sessionCurrent' = [sessionCurrent EXCEPT ![n] = c]
          /\ sessionNext' = [sessionNext EXCEPT ![n] = d]
          /\ rng' = rng + 2 * DrawLength
      BY <1>3 DEF Rekey
    <2>2. c \in Nat /\ c <= rng
      BY DEF TypeOK, SessionsDrawn
    <2>3. /\ d \in Nat
          /\ rng < d /\ d <= rng' /\ rng <= rng'
      BY <2>1 DEF DrawnAt, DrawLength, TypeOK
    <2>4. c # d /\ c <= rng'
      <3> HIDE DEF c, d
      <3> QED
        BY <2>1, <2>2, <2>3 DEF TypeOK, DrawLength
    <2>5. Leaders' = Leaders /\ Members' = Members
      BY <1>2 DEF Leaders, Members
    <2> HIDE DEF d
    <2> QED
      BY <1>2, <2>1, <2>2, <2>3, <2>4, <2>5 DEF Announces
  <1>4. CASE UNCHANGED <<secretVars, compGroupChange, sessionCurrent,
                         sessionNext, randomVars>>
    BY <1>2, <1>4 DEF Follows, secretVars, randomVars, Leaders, Members, TypeOK
  <1> QED
    BY <1>1, <1>3, <1>4

\* An IGROUP tells a member what its leader has.
LEMMA ProcessIGROUPFollows ==
    ASSUME TypeOK, LeaderSends, NEW n \in Node, processIGROUP(n)
    PROVE  Follows
  <1> DEFINE l == igroup.leaderId
  <1>1. Receives(n)
    BY DEF processIGROUP, AcceptFromLeader, RejectFromLeader, JoinLeader,
           BecomeMember, IgnoreIGROUP
  <1>2. /\ l \in Leaders
        /\ igroup.sessionCurrent = sessionCurrent[l]
        /\ igroup.sessionNext = sessionNext[l]
        /\ igroup.leaderLastNonce = lastNonce[l]
    BY <1>1 DEF Receives, LeaderSends
  <1> HIDE DEF l
  <1>3. rng <= rng'
    <2>1. rng' = rng + DrawLength \/ rng' = rng
      BY DEF processIGROUP, AcceptFromLeader, RejectFromLeader, JoinLeader,
             BecomeMember, IgnoreIGROUP, randomVars
    <2> QED
      BY <2>1 DEF DrawLength, TypeOK
  <1>4. CASE AcceptFromLeader(n) \/ RejectFromLeader(n)
    <2>1. /\ nodeState' = nodeState
          /\ leaderId' = leaderId
          /\ AdoptSession(n)
          /\ n \in Members /\ n \notin Leaders
          /\ leaderId[n] = l
      BY <1>4 DEF AcceptFromLeader, RejectFromLeader, FromMyLeader, Members,
                  Leaders, roleVars, l
    <2>2. \/ lastNonce' = lastNonce
          \/ lastNonce' = [lastNonce EXCEPT ![n] = DrawnAt(rng)]
      BY <1>4 DEF AcceptFromLeader, RejectFromLeader, secretVars
    <2>3. \A m \in Node \ {n} : lastNonce'[m] = lastNonce[m]
      BY <2>2 DEF TypeOK
    <2>4. \/ UNCHANGED <<sessionCurrent, sessionNext, leaderLastNonce>>
          \/ /\ sessionCurrent' = [sessionCurrent EXCEPT ![n] = sessionCurrent[l]]
             /\ sessionNext' = [sessionNext EXCEPT ![n] = sessionNext[l]]
             /\ leaderLastNonce' = [leaderLastNonce EXCEPT ![n] = lastNonce[l]]
      BY <2>1, <1>2 DEF AdoptSession, sessionVars
    <2>5. /\ Leaders' = Leaders /\ Members' = Members
          /\ \A m \in Leaders : m # n
      BY <2>1 DEF Leaders, Members
    <2>6. \A m \in Leaders : m \in Node \ {n}
      BY <2>5 DEF Leaders
    <2>7. CASE UNCHANGED <<sessionCurrent, sessionNext, leaderLastNonce>>
      BY <1>3, <2>1, <2>3, <2>5, <2>6, <2>7 DEF Follows
    <2>8. CASE /\ sessionCurrent' = [sessionCurrent EXCEPT ![n] = sessionCurrent[l]]
               /\ sessionNext' = [sessionNext EXCEPT ![n] = sessionNext[l]]
               /\ leaderLastNonce' = [leaderLastNonce EXCEPT ![n] = lastNonce[l]]
      <3>1. \A m \in Node \ {n} : /\ sessionCurrent'[m] = sessionCurrent[m]
                                  /\ sessionNext'[m] = sessionNext[m]
                                  /\ leaderLastNonce'[m] = leaderLastNonce[m]
        BY <2>8 DEF TypeOK
      <3>2. /\ sessionCurrent'[n] = sessionCurrent[l]
            /\ sessionNext'[n] = sessionNext[l]
            /\ leaderLastNonce'[n] = lastNonce[l]
        BY <2>8 DEF TypeOK
      <3>3. Members \subseteq Node
        BY DEF Members
      <3> QED
        BY <1>2, <1>3, <2>1, <2>3, <2>5, <2>6, <3>1, <3>2, <3>3 DEF Follows
    <2> QED
      BY <2>4, <2>7, <2>8
  <1>5. CASE JoinLeader(n) \/ IgnoreIGROUP(n)
    BY <1>3, <1>5 DEF JoinLeader, IgnoreIGROUP, Follows, Members, Leaders,
                      roleVars, sessionVars, secretVars
  <1>6. CASE BecomeMember(n)
    <2>1. /\ nodeState' = [nodeState EXCEPT ![n] = "Member"]
          /\ leaderId' = [leaderId EXCEPT ![n] = l]
          /\ sessionCurrent' = [sessionCurrent EXCEPT ![n] = sessionCurrent[l]]
          /\ sessionNext' = [sessionNext EXCEPT ![n] = sessionNext[l]]
          /\ leaderLastNonce' = [leaderLastNonce EXCEPT ![n] = lastNonce[l]]
          /\ \E x : lastNonce' = [lastNonce EXCEPT ![n] = x]
      BY <1>2, <1>6 DEF BecomeMember, l
    <2>2. Leaders' \subseteq Leaders \ {n}
      BY <2>1 DEF Leaders, TypeOK
    <2>3. Members' = Members \cup {n}
      <3>1. nodeState' = [nodeState EXCEPT ![n] = "Member"]
        BY <2>1
      <3> QED
        BY <3>1 DEF Members, TypeOK
    <2>4. \A m \in Node \ {n} : /\ leaderId'[m] = leaderId[m]
                                /\ sessionCurrent'[m] = sessionCurrent[m]
                                /\ sessionNext'[m] = sessionNext[m]
                                /\ leaderLastNonce'[m] = leaderLastNonce[m]
                                /\ lastNonce'[m] = lastNonce[m]
      BY <2>1 DEF TypeOK
    <2>5. /\ leaderId'[n] = l
          /\ sessionCurrent'[n] = sessionCurrent[l]
          /\ sessionNext'[n] = sessionNext[l]
          /\ leaderLastNonce'[n] = lastNonce[l]
      BY <2>1 DEF TypeOK
    <2>6. Members \subseteq Node /\ Leaders \subseteq Node
      BY DEF Members, Leaders
    <2>7. \A m \in Members' : m \in Node /\ (m = n \/ (m \in Node \ {n} /\ m \in Members))
      BY <2>3, <2>6
    <2>8. \A m \in Leaders' : m \in Node \ {n} /\ m \in Leaders
      BY <2>2, <2>6
    <2> QED
      BY <1>2, <1>3, <2>4, <2>5, <2>7, <2>8 DEF Follows
  <1> QED
    BY <1>4, <1>5, <1>6 DEF processIGROUP

LEMMA SessionSteps ==
    ASSUME TypeOK, LeaderSends, SessionsDrawn, ~MovementReseeds, [Next]_vars
    PROVE  (\E n \in Node : Announces(n)) \/ Follows
  <1>1. ASSUME NEW n \in Node, DrawBackoff(n) \/ DetachFromLeader(n) \/ IdleUpdate(n)
        PROVE  Follows
    <2>1. /\ UNCHANGED <<leaderId, sessionCurrent, sessionNext, leaderLastNonce, lastNonce>>
          /\ \/ nodeState' = nodeState
             \/ nodeState' = [nodeState EXCEPT ![n] = "Detached"]
          /\ rng' = rng \/ rng' = rng + 1
      BY <1>1 DEF DrawBackoff, DetachFromLeader, IdleUpdate, roleVars,
                  sessionVars, secretVars, randomVars
    <2>3. rng <= rng'
      <3>1. rng \in Nat
        BY DEF TypeOK
      <3> QED
        BY <2>1, <3>1
    <2>2. Leaders' \subseteq Leaders /\ Members' \subseteq Members
      BY <2>1 DEF Leaders, Members, TypeOK
    <2> QED
      BY <2>1, <2>2, <2>3 DEF Follows, Members
  <1>2. ASSUME UNCHANGED <<nodeState, leaderId, sessionCurrent, sessionNext,
                           leaderLastNonce, lastNonce, rng>>
        PROVE  Follows
    BY <1>2 DEF Follows, Leaders, Members, TypeOK
  <1>3. ASSUME NEW n \in Node, processIREPLY(n)
        PROVE  Follows
    BY <1>2, <1>3 DEF processIREPLY, roleVars, sessionVars, secretVars, randomVars
  <1>4. ASSUME EndIREPLY \/ EndIGROUP \/ PassTime \/ UNCHANGED vars
        PROVE  Follows
    BY <1>2, <1>4 DEF EndIREPLY, EndIGROUP, PassTime, vars, StateVars, roleVars,
                      sessionVars, secretVars, randomVars
  <1>5. ASSUME NEW n \in Node, nodeMovementUpdate(n)
        PROVE  FALSE
    BY <1>5 DEF nodeMovementUpdate
  <1> QED
    BY <1>1, <1>3, <1>4, <1>5, BecomeLeaderAnnounces, LeaderUpdateAnnounces,
       ProcessIGROUPFollows DEF Next, nodePeriodicUpdate

LEMMA AnnouncesKeepsSessions ==
    ASSUME TypeOK, TypeOK', SessionInv, NEW n \in Node, Announces(n)
    PROVE  /\ SessionsDrawn'
           /\ SessionsAhead'
           /\ LeaderSessionsDistinct'
           /\ SessionAgreement'
  <1>1. PICK c \in Nat, d \in Nat :
          /\ sessionCurrent' = [sessionCurrent EXCEPT ![n] = c]
          /\ sessionNext' = [sessionNext EXCEPT ![n] = d]
          /\ rng < d /\ c # d /\ c <= rng' /\ d <= rng' /\ rng <= rng'
          /\ rng < c \/ (n \in Leaders /\ c = sessionNext[n])
    BY DEF Announces
  <1>2. /\ sessionCurrent'[n] = c
        /\ sessionNext'[n] = d
        /\ \A m \in Node \ {n} : /\ sessionCurrent'[m] = sessionCurrent[m]
                                 /\ sessionNext'[m] = sessionNext[m]
                                 /\ lastNonce'[m] = lastNonce[m]
    BY <1>1 DEF Announces, TypeOK
  <1>3. /\ Leaders' \subseteq Leaders \cup {n}
        /\ Members' \subseteq Members \ {n}
        /\ leaderId' = leaderId
        /\ leaderLastNonce' = leaderLastNonce
        /\ Members \subseteq Node /\ Leaders \subseteq Node
    BY DEF Announces, Members, Leaders
  <1>4. \A m \in Node : /\ sessionCurrent[m] \in Nat /\ sessionCurrent[m] <= rng
                        /\ sessionNext[m] \in Nat /\ sessionNext[m] <= rng
    BY DEF SessionInv, SessionsDrawn, TypeOK
  <1>5. rng \in Nat /\ rng' \in Nat
    BY DEF TypeOK
  <1>6. \A m \in Node : /\ sessionCurrent[m] <= rng' /\ sessionNext[m] <= rng'
                        /\ sessionCurrent[m] # d /\ sessionNext[m] # d
    BY <1>1, <1>4, <1>5
  <1>7. SessionsDrawn'
    BY <1>1, <1>2, <1>6 DEF SessionsDrawn
  \* Nobody else has the session n moves to, nor the one it announces.
  <1>8. \A m \in Leaders \ {n} : sessionCurrent[m] # c /\ sessionNext[m] # c
    <2>1. CASE rng < c
      BY <1>3, <1>4, <1>5, <2>1
    <2>2. CASE n \in Leaders /\ c = sessionNext[n]
      BY <2>2 DEF SessionInv, LeaderSessionsDistinct
    <2> QED
      BY <1>1, <2>1, <2>2
  <1>9. \A m \in Members : leaderId[m] = n => sessionCurrent[m] # c
    <2>1. CASE rng < c
      BY <1>3, <1>4, <1>5, <2>1
    <2>2. CASE n \in Leaders /\ c = sessionNext[n]
      BY <2>2 DEF SessionInv, SessionsAhead
    <2> QED
      BY <1>1, <2>1, <2>2
  <1>10. \A m \in Leaders' : m = n \/ (m \in Leaders \ {n} /\ m \in Node \ {n})
    BY <1>3
  <1>11. \A m \in Members' : m \in Members /\ m \in Node \ {n}
    BY <1>3
  <1>12. SessionsAhead'
    <2> SUFFICES ASSUME NEW l \in Leaders'
                 PROVE  /\ sessionCurrent'[l] # sessionNext'[l]
                        /\ \A m \in Members' :
                             leaderId'[m] = l => sessionCurrent'[m] # sessionNext'[l]
      BY DEF SessionsAhead
    <2>1. CASE l = n
      BY <1>1, <1>2, <1>3, <1>6, <1>11, <2>1
    <2>2. CASE l # n
      BY <1>2, <1>3, <1>10, <1>11, <2>2 DEF SessionInv, SessionsAhead
    <2> QED
      BY <2>1, <2>2
  <1>13. LeaderSessionsDistinct'
    BY <1>1, <1>2, <1>6, <1>8, <1>10 DEF SessionInv, LeaderSessionsDistinct
  <1>14. SessionAgreement'
    <2> SUFFICES ASSUME NEW m \in Members', NEW l \in Leaders',
                        leaderId'[m] = l, sessionCurrent'[m] = sessionCurrent'[l]
                 PROVE  /\ sessionNext'[m] = sessionNext'[l]
                        /\ leaderLastNonce'[m] = lastNonce'[l]
      BY DEF SessionAgreement
    <2>1. CASE l = n
      BY <1>2, <1>3, <1>9, <1>11, <2>1
    <2>2. CASE l # n
      BY <1>2, <1>3, <1>10, <1>11, <2>2 DEF SessionInv, SessionAgreement
    <2> QED
      BY <2>1, <2>2
  <1> QED
    BY <1>7, <1>12, <1>13, <1>14

LEMMA FollowsKeepsSessions ==
    ASSUME TypeOK, TypeOK', SessionInv, Follows
    PROVE  /\ SessionsDrawn'
           /\ SessionsAhead'
           /\ LeaderSessionsDistinct'
           /\ SessionAgreement'
  <1>1. /\ rng <= rng'
        /\ Leaders' \subseteq Leaders
        /\ \A l \in Leaders' : /\ sessionCurrent'[l] = sessionCurrent[l]
                               /\ sessionNext'[l] = sessionNext[l]
                               /\ lastNonce'[l] = lastNonce[l]
    BY DEF Follows
  <1>2. \A n \in Members' :
          \/ /\ n \in Members
             /\ leaderId'[n] = leaderId[n]
             /\ sessionCurrent'[n] = sessionCurrent[n]
             /\ sessionNext'[n] = sessionNext[n]
             /\ leaderLastNonce'[n] = leaderLastNonce[n]
          \/ /\ leaderId'[n] \in Leaders
             /\ sessionCurrent'[n] = sessionCurrent[leaderId'[n]]
             /\ sessionNext'[n] = sessionNext[leaderId'[n]]
             /\ leaderLastNonce'[n] = lastNonce[leaderId'[n]]
    BY DEF Follows
  <1>3. SessionsDrawn'
    <2> SUFFICES ASSUME NEW n \in Node
                 PROVE  sessionCurrent'[n] <= rng' /\ sessionNext'[n] <= rng'
      BY DEF SessionsDrawn
    <2>1. PICK m \in Node : /\ sessionCurrent'[n] = sessionCurrent[m]
                            /\ sessionNext'[n] = sessionNext[m]
      BY DEF Follows, Leaders
    <2>2. sessionCurrent[m] <= rng /\ sessionNext[m] <= rng
      BY DEF SessionInv, SessionsDrawn
    <2>3. /\ sessionCurrent[m] \in Nat /\ sessionNext[m] \in Nat
          /\ rng \in Nat /\ rng' \in Nat
      BY DEF TypeOK
    <2> QED
      BY <1>1, <2>1, <2>2, <2>3
  <1>4. SessionsAhead'
    BY <1>1, <1>2 DEF SessionInv, SessionsAhead
  <1>5. LeaderSessionsDistinct'
    BY <1>1 DEF SessionInv, LeaderSessionsDistinct
  <1>6. SessionAgreement'
    BY <1>1, <1>2 DEF SessionInv, SessionAgreement
  <1> QED
    BY <1>3, <1>4, <1>5, <1>6

\* The inductive invariant for the sessions holds when nothing reseeds rand().
THEOREM SessionInvCorrect ==
    ASSUME ~MovementReseeds
    PROVE  Spec => []SessionInv
  <1>1. Init => SessionInv
    BY DEF Init, SessionInv, LeaderSends, SessionsDrawn, SessionsAhead,
           LeaderSessionsDistinct, SessionAgreement, Leaders, Members
  <1>2. TypeOK /\ TypeOK' /\ SessionInv /\ [Next]_vars => SessionInv'
    <2> SUFFICES ASSUME TypeOK, TypeOK', SessionInv, [Next]_vars
                 PROVE  SessionInv'
      OBVIOUS
    <2>1. LeaderSends'
      BY LeaderSendsStep DEF SessionInv
    <2>2. (\E n \in Node : Announces(n)) \/ Follows
      BY SessionSteps DEF SessionInv
    <2>3. SessionsDrawn' /\ SessionsAhead' /\ LeaderSessionsDistinct' /\ SessionAgreement'
      BY <2>2, AnnouncesKeepsSessions, FollowsKeepsSessions
    <2> QED
      BY <2>1, <2>3 DEF SessionInv
  <1> QED
    BY <1>1, <1>2, TypeCorrect, PTL DEF Spec

\* Two leaders never share a session, whatever the nodes, the timers and the
\* losses, as long as rand() does not repeat itself.
THEOREM LeaderSessionsDistinctHolds ==
    ASSUME ~MovementReseeds
    PROVE  Spec => []LeaderSessionsDistinct
  <1>1. SessionInv => LeaderSessionsDistinct
    BY DEF SessionInv
  <1> QED
    BY <1>1, SessionInvCorrect, PTL

\* A member in the session of its leader knows its nonce and its next session.
THEOREM SessionAgreementHolds ==
    ASSUME ~MovementReseeds
    PROVE  Spec => []SessionAgreement
  <1>1. SessionInv => SessionAgreement
    BY DEF SessionInv
  <1> QED
    BY <1>1, SessionInvCorrect, PTL

-----------------------------------------------------------------------------
(* Keys.                                                                   *)

\* A list with a secret's response to every contribution, and the key that the
\* secret makes of the responses.
Responses(list) == [i \in DOMAIN list |-> list[i].leaderReply]

KeyedBy(list, secret, k) ==
    /\ \A i \in DOMAIN list :
         list[i].leaderReply = computeBlindedResponse(list[i].memberContrib, secret)
    /\ k = leaderComputeKey(secret, Responses(list))

\* A leader whose list is not about to change has the key of the responses in
\* the list, and while an IGROUP is in flight that of the responses sent.
KeyInv ==
    /\ \A l \in Leaders :
         compGroupChange[l] \/ KeyedBy(memberList[l], nodeSecret[l], key[l])
    /\ igroup # None =>
         KeyedBy(igroup.memberInfoList, nodeSecret[igroup.leaderId], key[igroup.leaderId])

LEMMA RekeyKeys ==
    ASSUME TypeOK, NEW n \in Node, NEW list \in Seq(MemberRecord), NEW session,
           NEW position, Rekey(n, list, session, position)
    PROVE  /\ KeyedBy(memberList'[n], nodeSecret'[n], key'[n])
           /\ \A m \in Node \ {n} :
                /\ memberList'[m] = memberList[m] /\ nodeSecret'[m] = nodeSecret[m]
                /\ key'[m] = key[m] /\ compGroupChange'[m] = compGroupChange[m]
  <1> DEFINE secret == secrets + 1
             Respond(m) == [m EXCEPT !.leaderReply =
                              computeBlindedResponse(m.memberContrib, secret)]
             new == [i \in DOMAIN list |-> Respond(list[i])]
  <1>1. \A m \in MemberRecord :
          /\ Respond(m).leaderReply = computeBlindedResponse(m.memberContrib, secret)
          /\ Respond(m).memberContrib = m.memberContrib
    BY DEF MemberRecord
  <1>2. \A i \in DOMAIN list : list[i] \in MemberRecord
    BY ElementOfSeq, LenProperties
  <1>3. /\ nodeSecret' = [nodeSecret EXCEPT ![n] = secret]
        /\ memberList' = [memberList EXCEPT ![n] = new]
        /\ key' = [key EXCEPT ![n] = leaderComputeKey(secret,
                     [i \in DOMAIN list |-> Respond(list[i]).leaderReply])]
        /\ compGroupChange' = [compGroupChange EXCEPT ![n] = FALSE]
    BY DEF Rekey
  <1> HIDE DEF Respond
  <1>4. /\ DOMAIN new = DOMAIN list
        /\ \A i \in DOMAIN list :
             new[i].leaderReply = computeBlindedResponse(new[i].memberContrib, secret)
    BY <1>1, <1>2
  <1>5. Responses(new) = [i \in DOMAIN list |-> Respond(list[i]).leaderReply]
    BY DEF Responses
  <1> HIDE DEF new, secret
  <1>6. memberList'[n] = new /\ nodeSecret'[n] = secret
        /\ key'[n] = leaderComputeKey(secret, Responses(new))
    BY <1>3, <1>5 DEF TypeOK
  <1>7. KeyedBy(memberList'[n], nodeSecret'[n], key'[n])
    BY <1>4, <1>6 DEF KeyedBy
  <1>8. ASSUME NEW m \in Node \ {n}
        PROVE  /\ memberList'[m] = memberList[m] /\ nodeSecret'[m] = nodeSecret[m]
               /\ key'[m] = key[m] /\ compGroupChange'[m] = compGroupChange[m]
    BY <1>3 DEF TypeOK
  <1> QED
    BY <1>7, <1>8

\* The IGROUP has the responses of the leader's list.
LEMMA SendIGROUPKeys ==
    ASSUME NEW n \in Node, SendIGROUP(n), KeyedBy(memberList'[n], nodeSecret'[n], key'[n])
    PROVE  /\ igroup'.leaderId = n
           /\ KeyedBy(igroup'.memberInfoList, nodeSecret'[n], key'[n])
  <1> DEFINE list == memberList'[n]
             info == igroup'.memberInfoList
  <1>1. /\ igroup'.leaderId = n
        /\ info = [i \in DOMAIN list |->
                     [memberId |-> list[i].memberId,
                      memberLastNonce |-> list[i].memberLastNonce,
                      memberContrib |-> list[i].memberContrib,
                      leaderReply |-> list[i].leaderReply]]
    BY DEF SendIGROUP
  <1> HIDE DEF list, info
  <1>2. /\ DOMAIN info = DOMAIN list
        /\ \A i \in DOMAIN list : /\ info[i].leaderReply = list[i].leaderReply
                                  /\ info[i].memberContrib = list[i].memberContrib
    BY <1>1
  <1>3. Responses(info) = Responses(list)
    BY <1>2 DEF Responses
  <1>4. KeyedBy(info, nodeSecret'[n], key'[n])
    BY <1>2, <1>3 DEF KeyedBy, list
  <1> QED
    BY <1>1, <1>4 DEF info

\* A leader's update responds to everybody listed, now or at an earlier one
\* since which the list has not changed.
LEMMA LeaderKeys ==
    ASSUME TypeOK, KeyInv, NEW n \in Node, BecomeLeader(n) \/ LeaderUpdate(n)
    PROVE  /\ KeyedBy(memberList'[n], nodeSecret'[n], key'[n])
           /\ \A m \in Node \ {n} :
                /\ memberList'[m] = memberList[m] /\ nodeSecret'[m] = nodeSecret[m]
                /\ key'[m] = key[m] /\ compGroupChange'[m] = compGroupChange[m]
  <1>1. CASE BecomeLeader(n)
    <2>1. Rekey(n, <<>>, DrawnAt(rng), rng + DrawLength)
      BY <1>1 DEF BecomeLeader
    <2>2. <<>> \in Seq(MemberRecord)
      BY EmptySeq
    <2> QED
      BY <2>1, <2>2, RekeyKeys
  <1>2. CASE LeaderUpdate(n)
    <2> DEFINE old == {i \in DOMAIN memberList[n] :
                         now - memberList[n][i].memberLastIREPLYTime >= IREPLY_EXPIRE_TIME}
    <2>1. PICK list \in Swept(memberList[n], old) :
            IF \/ old # {}
               \/ compGroupChange[n]
               \/ now - lastTimeSecret[n] > SECRET_EXPIRE_TIME
            THEN Rekey(n, list, sessionNext[n], rng)
            ELSE /\ memberList' = [memberList EXCEPT ![n] = list]
                 /\ UNCHANGED <<secretVars, compGroupChange, sessionCurrent,
                                sessionNext, randomVars>>
      BY <1>2 DEF LeaderUpdate
    <2> HIDE DEF old
    <2>2. memberList[n] \in Seq(MemberRecord) /\ n \in Leaders
      BY <1>2 DEF LeaderUpdate, Leaders, TypeOK
    <2>3. list \in Seq(MemberRecord)
      BY <2>2, SweptIsSubsequence
    <2>4. CASE Rekey(n, list, sessionNext[n], rng)
      BY <2>3, <2>4, RekeyKeys
    <2>5. CASE /\ old = {} /\ ~compGroupChange[n]
               /\ memberList' = [memberList EXCEPT ![n] = list]
               /\ UNCHANGED <<secretVars, compGroupChange>>
      <3>1. list = memberList[n]
        BY <2>1, <2>2, <2>5, SweptNothing
      <3>2. memberList' = memberList
        BY <2>5, <3>1 DEF TypeOK
      <3>3. KeyedBy(memberList[n], nodeSecret[n], key[n])
        BY <2>2, <2>5 DEF KeyInv
      <3> QED
        BY <2>5, <3>2, <3>3 DEF secretVars
    <2> QED
      BY <2>1, <2>4, <2>5
  <1> QED
    BY <1>1, <1>2

\* A reply that changes what a leader is to respond to is noted.
LEMMA ProcessIREPLYKeys ==
    ASSUME TypeOK, GroupIsASet, KeyInv, NEW n \in Node, processIREPLY(n)
    PROVE  compGroupChange'[n] \/ KeyedBy(memberList'[n], nodeSecret[n], key[n])
  <1> DEFINE list == memberList[n]
             entries == EntryOf(n, ireply.nodeId)
             renewed(m) == [m EXCEPT !.memberLastNonce = ireply.nodeNonce,
                                     !.memberContrib = ireply.nodeContrib,
                                     !.memberLastIREPLYTime = now]
             updated == [i \in DOMAIN list |->
                           IF i \in entries THEN renewed(list[i]) ELSE list[i]]
  <1> SUFFICES ASSUME ~compGroupChange'[n]
               PROVE  KeyedBy(memberList'[n], nodeSecret[n], key[n])
    OBVIOUS
  <1>1. n \in Leaders /\ list \in Seq(MemberRecord)
    BY DEF processIREPLY, Accepts, Leaders, TypeOK
  <1>2. NamesOnce(list, n)
    BY <1>1, GroupNames
  <1>3. /\ ~compGroupChange[n]
        /\ entries # {}
        /\ ~\E i \in entries : /\ \A j \in entries : i <= j
                               /\ list[i].memberContrib # ireply.nodeContrib
    BY DEF processIREPLY, TypeOK
  <1>4. memberList'[n] = updated
    BY <1>3 DEF processIREPLY, TypeOK
  <1>5. \A i \in entries : i \in DOMAIN list /\ list[i].memberId = ireply.nodeId
    BY DEF EntryOf
  <1>6. \A m \in MemberRecord :
          /\ renewed(m).memberContrib = ireply.nodeContrib
          /\ renewed(m).leaderReply = m.leaderReply
    BY DEF MemberRecord
  <1>7. \A i \in DOMAIN list : i \in Nat /\ list[i] \in MemberRecord
    BY <1>1, ElementOfSeq, LenProperties
  <1> HIDE DEF list, entries, renewed
  <1>8. \A i \in entries : list[i].memberContrib = ireply.nodeContrib
    <2> SUFFICES ASSUME NEW i \in entries PROVE list[i].memberContrib = ireply.nodeContrib
      OBVIOUS
    <2>1. \A j \in entries : j = i
      BY <1>2, <1>5 DEF NamesOnce
    <2>2. \A j \in entries : i <= j
      BY <1>5, <1>7, <2>1
    <2> QED
      BY <1>3, <2>2
  <1>9. /\ DOMAIN updated = DOMAIN list
        /\ \A i \in DOMAIN list : /\ updated[i].leaderReply = list[i].leaderReply
                                  /\ updated[i].memberContrib = list[i].memberContrib
    BY <1>6, <1>7, <1>8
  <1> HIDE DEF updated
  <1>10. Responses(updated) = Responses(list)
    BY <1>9 DEF Responses
  <1>11. KeyedBy(list, nodeSecret[n], key[n])
    BY <1>1, <1>3 DEF KeyInv, list
  <1> QED
    BY <1>4, <1>9, <1>10, <1>11 DEF KeyedBy

\* Who is handed an IGROUP changes keys and lists of its own, as a member.
LEMMA ProcessIGROUPKeys ==
    ASSUME TypeOK, NEW n \in Node, processIGROUP(n)
    PROVE  /\ igroup' = igroup /\ igroup # None /\ igroup.leaderId \in Node \ {n}
           /\ compGroupChange' = compGroupChange
           /\ \A m \in Node \ {n} :
                /\ memberList'[m] = memberList[m] /\ nodeSecret'[m] = nodeSecret[m]
                /\ key'[m] = key[m] /\ nodeState'[m] = nodeState[m]
           /\ n \in Leaders' => /\ n \in Leaders
                                /\ memberList'[n] = memberList[n]
                                /\ nodeSecret'[n] = nodeSecret[n] /\ key'[n] = key[n]
  <1>0. Receives(n)
    BY DEF processIGROUP, AcceptFromLeader, RejectFromLeader, JoinLeader,
           BecomeMember, IgnoreIGROUP
  <1>1. igroup' = igroup /\ igroup # None /\ igroup.leaderId \in Node \ {n}
    BY <1>0, ReceivesTypes, IGROUPFields DEF Receives
  <1>2. CASE AcceptFromLeader(n)
    <2>1. /\ nodeState' = nodeState /\ nodeState[n] = "Member"
          /\ compGroupChange' = compGroupChange
          /\ \E r : memberList' = [memberList EXCEPT ![n] = r]
          /\ \E r : key' = [key EXCEPT ![n] = r]
          /\ nodeSecret' = nodeSecret \/ \E r : nodeSecret' = [nodeSecret EXCEPT ![n] = r]
      BY <1>2 DEF AcceptFromLeader, FromMyLeader, ComputeKey, roleVars
    <2> QED
      BY <1>1, <2>1 DEF Leaders, TypeOK
  <1>3. CASE BecomeMember(n)
    <2>1. /\ nodeState' = [nodeState EXCEPT ![n] = "Member"]
          /\ compGroupChange' = compGroupChange
          /\ \E r : memberList' = [memberList EXCEPT ![n] = r]
          /\ \E r : key' = [key EXCEPT ![n] = r]
          /\ \E r : nodeSecret' = [nodeSecret EXCEPT ![n] = r]
      BY <1>3 DEF BecomeMember, ComputeKey
    <2> QED
      BY <1>1, <2>1 DEF Leaders, TypeOK
  <1>4. CASE RejectFromLeader(n) \/ JoinLeader(n) \/ IgnoreIGROUP(n)
    <2>1. UNCHANGED <<nodeState, memberList, nodeSecret, key, compGroupChange>>
      BY <1>4 DEF RejectFromLeader, JoinLeader, IgnoreIGROUP, roleVars, secretVars,
                  groupVars
    <2> QED
      BY <1>1, <2>1 DEF Leaders
  <1> QED
    BY <1>2, <1>3, <1>4 DEF processIGROUP

LEMMA KeyInvStep ==
    ASSUME TypeOK, LeaderSends, GroupIsASet, KeyInv, [Next]_vars
    PROVE  KeyInv'
  <1>1. ASSUME \A l \in Leaders' : /\ l \in Leaders
                                   /\ memberList'[l] = memberList[l]
                                   /\ nodeSecret'[l] = nodeSecret[l]
                                   /\ key'[l] = key[l]
                                   /\ compGroupChange'[l] = compGroupChange[l],
               igroup' = None \/ (igroup' = igroup /\ igroup'.leaderId \in Leaders')
        PROVE  KeyInv'
    BY <1>1 DEF KeyInv
  <1>2. ASSUME NEW n \in Node, BecomeLeader(n) \/ LeaderUpdate(n)
        PROVE  KeyInv'
    <2>1. /\ KeyedBy(memberList'[n], nodeSecret'[n], key'[n])
          /\ \A m \in Node \ {n} :
               /\ memberList'[m] = memberList[m] /\ nodeSecret'[m] = nodeSecret[m]
               /\ key'[m] = key[m] /\ compGroupChange'[m] = compGroupChange[m]
      BY <1>2, LeaderKeys
    <2>2. /\ Leaders' \subseteq Leaders \cup {n} /\ Leaders \subseteq Node
          /\ SendIGROUP(n)
      BY <1>2 DEF BecomeLeader, LeaderUpdate, roleVars, Leaders, TypeOK
    <2>3. igroup'.leaderId = n /\ KeyedBy(igroup'.memberInfoList, nodeSecret'[n], key'[n])
      BY <2>1, <2>2, SendIGROUPKeys
    <2> QED
      BY <2>1, <2>2, <2>3 DEF KeyInv
  <1>3. ASSUME NEW n \in Node, processIREPLY(n)
        PROVE  KeyInv'
    <2>1. compGroupChange'[n] \/ KeyedBy(memberList'[n], nodeSecret[n], key[n])
      BY <1>3, ProcessIREPLYKeys
    <2>2. /\ UNCHANGED <<nodeState, nodeSecret, key, igroup>>
          /\ \E r : memberList' = [memberList EXCEPT ![n] = r]
          /\ \E r : compGroupChange' = [compGroupChange EXCEPT ![n] = r]
      BY <1>3 DEF processIREPLY, roleVars, secretVars, netVars
    <2>3. \A m \in Node \ {n} : /\ memberList'[m] = memberList[m]
                                /\ compGroupChange'[m] = compGroupChange[m]
      BY <2>2 DEF TypeOK
    <2>4. Leaders' = Leaders /\ Leaders \subseteq Node
      BY <2>2 DEF Leaders
    <2> QED
      BY <2>1, <2>2, <2>3, <2>4 DEF KeyInv
  <1>4. ASSUME NEW n \in Node, processIGROUP(n)
        PROVE  KeyInv'
    <2>1. /\ igroup' = igroup /\ igroup # None /\ igroup.leaderId \in Node \ {n}
          /\ compGroupChange' = compGroupChange
          /\ \A m \in Node \ {n} :
               /\ memberList'[m] = memberList[m] /\ nodeSecret'[m] = nodeSecret[m]
               /\ key'[m] = key[m] /\ nodeState'[m] = nodeState[m]
          /\ n \in Leaders' => /\ n \in Leaders
                               /\ memberList'[n] = memberList[n]
                               /\ nodeSecret'[n] = nodeSecret[n] /\ key'[n] = key[n]
      BY <1>4, ProcessIGROUPKeys
    <2>2. igroup'.leaderId \in Leaders'
      BY <2>1 DEF LeaderSends, Leaders
    <2>3. ASSUME NEW l \in Leaders'
          PROVE  /\ l \in Leaders
                 /\ memberList'[l] = memberList[l]
                 /\ nodeSecret'[l] = nodeSecret[l]
                 /\ key'[l] = key[l]
                 /\ compGroupChange'[l] = compGroupChange[l]
      BY <2>1 DEF Leaders
    <2> QED
      BY <1>1, <2>1, <2>2, <2>3
  <1>5. ASSUME NEW n \in Node, DrawBackoff(n) \/ DetachFromLeader(n) \/ IdleUpdate(n)
        PROVE  KeyInv'
    <2>1. /\ UNCHANGED <<memberList, nodeSecret, key, compGroupChange, igroup>>
          /\ igroup = None
          /\ \/ nodeState' = [nodeState EXCEPT ![n] = "Detached"]
             \/ nodeState' = nodeState
      BY <1>5 DEF DrawBackoff, DetachFromLeader, IdleUpdate, Due, Quiet, groupVars,
                  secretVars, netVars, roleVars
    <2>2. Leaders' \subseteq Leaders
      BY <2>1 DEF Leaders, TypeOK
    <2> QED
      BY <1>1, <2>1, <2>2
  <1>6. ASSUME (\E n \in Node : nodeMovementUpdate(n)) \/ EndIREPLY \/ EndIGROUP
               \/ PassTime \/ UNCHANGED vars
        PROVE  KeyInv'
    <2>1. /\ UNCHANGED <<nodeState, memberList, nodeSecret, key, compGroupChange>>
          /\ igroup' \in {igroup, None}
      BY <1>6 DEF nodeMovementUpdate, EndIREPLY, EndIGROUP, PassTime, vars, StateVars,
                  roleVars, groupVars, secretVars, netVars
    <2>2. Leaders' = Leaders
      BY <2>1 DEF Leaders
    <2> QED
      BY <1>1, <2>1, <2>2 DEF LeaderSends
  <1> QED
    BY <1>2, <1>3, <1>4, <1>5, <1>6 DEF Next, nodePeriodicUpdate

\* In every network, whatever is lost or repeated, an IGROUP in flight holds a
\* response to every member it lists, made with the secret its leader has, and
\* the leader's key is the one these responses make.
THEOREM IGROUPCarriesKey == Spec => []KeyInv
  <1>1. Init => KeyInv
    BY DEF Init, KeyInv, Leaders
  <1>2. TypeOK /\ GroupInv /\ KeyInv /\ [Next]_vars => KeyInv'
    BY KeyInvStep DEF GroupInv
  <1> QED
    BY <1>1, <1>2, TypeCorrect, GroupInvCorrect, PTL DEF Spec

\* The one entry of n in the IGROUP.
LEMMA InfoIsEntry ==
    ASSUME igroup \in IGROUPMessage, GroupIsASet, igroup # None, NEW n,
           NEW i \in DOMAIN igroup.memberInfoList, igroup.memberInfoList[i].memberId = n
    PROVE  InfoOf(n) = igroup.memberInfoList[i]
  <1> DEFINE list == igroup.memberInfoList
             mine == {j \in DOMAIN list : list[j].memberId = n}
  <1>1. \A j \in mine : j = i
    BY DEF GroupIsASet
  <1>2. i \in mine /\ i \in Nat
    BY IGROUPFields, LenProperties
  <1>3. \A j \in mine : j <= i
    BY <1>1, <1>2
  <1>4. InfoOf(n) = list[CHOOSE j \in mine : \A k \in mine : k <= j]
    BY DEF InfoOf
  <1> HIDE DEF mine
  <1>5. (CHOOSE j \in mine : \A k \in mine : k <= j) = i
    BY <1>1, <1>2, <1>3
  <1> QED
    BY <1>4, <1>5

\* Undoing the secret one has contributed leaves the leader's key.
LEMMA MemberOpensKey ==
    ASSUME NEW secret, NEW other, secret # other, NEW k, NEW list,
           NEW i \in DOMAIN list, KeyedBy(list, other, k),
           list[i].memberContrib = computeBlindedSecret(secret)
    PROVE  memberComputeKey(secret, list[i].leaderReply, Responses(list)) = k
  <1> DEFINE reply == computeBlindedResponse(computeBlindedSecret(secret), other)
  <1>1. list[i].leaderReply = reply /\ k = leaderComputeKey(other, Responses(list))
    BY DEF KeyedBy
  <1>2. reply = [mul |-> {secret, other}, div |-> {}]
    BY DEF computeBlindedResponse, computeBlindedSecret
  <1>3. Unblind(reply, secret) = [mul |-> {other}, div |-> {}]
    <2>1. {secret, other} \ {secret} = {other}
      OBVIOUS
    <2> HIDE DEF reply
    <2> QED
      BY <1>2, <2>1 DEF Unblind
  <1> QED
    BY <1>1, <1>3 DEF memberComputeKey, leaderComputeKey, computeBlindedSecret

\* Whoever computes a key from an IGROUP that lists the contribution of the
\* secret it undoes gets its sender's key.
LEMMA ComputesLeadersKey ==
    ASSUME TypeOK, GroupIsASet, KeyInv, igroup # None, NEW n \in Node,
           NEW secret, NEW changed, ComputeKey(n, secret, changed),
           ~SameMembers(n) \/ changed,
           Listed(n), InfoOf(n).memberContrib = computeBlindedSecret(secret),
           secret # nodeSecret[igroup.leaderId]
    PROVE  key'[n] = key[igroup.leaderId]
  <1> DEFINE list == igroup.memberInfoList
  <1>1. PICK i \in DOMAIN list : list[i].memberId = n
    BY DEF Listed
  <1>2. InfoOf(n) = list[i]
    <2>1. igroup \in IGROUPMessage
      BY DEF TypeOK
    <2> QED
      BY <1>1, <2>1, InfoIsEntry
  <1>3. KeyedBy(list, nodeSecret[igroup.leaderId], key[igroup.leaderId])
    BY DEF KeyInv
  <1>4. key'[n] = memberComputeKey(secret, InfoOf(n).leaderReply, Responses(list))
    BY DEF ComputeKey, Responses, TypeOK
  <1> HIDE DEF list
  <1> QED
    BY <1>1, <1>2, <1>3, <1>4, MemberOpensKey

=============================================================================
