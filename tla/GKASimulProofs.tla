--------------------------- MODULE GKASimulProofs ---------------------------
(* The simulation runs the protocol and the floods the other modules are   *)
(* about, each as it is there, so that what is proved of each holds here;  *)
(* and protocol and floods together make the keys agree.                   *)
EXTENDS ProtocolTest, GKAInstanceProofs

\* The floods of GKASimul, with what is proved of them.
IGFlood == INSTANCE FloodIGROUPProofs WITH
        Sources <- Node, Gaps <- Nat, Layouts <- [Node -> Location],
        Times <- Nat, Numbers <- Nat,
        message <- IGMessage, direct <- IGdirect, todo <- IGtodo, i <- IGi,
        isReTx <- IGisReTx, handed <- heard, forgot <- IGforgot

IRFlood == INSTANCE FloodIREPLYProofs WITH
        Replies <- {p \in Node \X Node : p[1] # p[2]}, Gaps <- Nat,
        Layouts <- [Node -> Location], Times <- Nat, Numbers <- Nat,
        message <- IRMessage, direct <- IRdirect, todo <- IRtodo, i <- IRi,
        isReTx <- IRisReTx, handed <- IRhanded, forgot <- IRforgot

LEMMA FloodAssumptions == IGFlood!NodeAssumption /\ IRFlood!NodeAssumption
<1>1. IGFlood!IsFiniteSet(Node) /\ IRFlood!IsFiniteSet(Node)
  <2>1. IsFiniteSet(Node)
    BY QueueAssumption
  <2> QED
    BY <2>1, Zenon DEF IsFiniteSet, IGFlood!IsFiniteSet, IRFlood!IsFiniteSet
<1>2. None \notin IGFlood!Message \cup Node /\ None \notin IRFlood!Message
  <2>1. \A n \in Node : n \in Int
    BY NodeAssumption
  <2>2. None \notin Node
    BY <2>1, NodeAssumption
  <2>3. None \notin IGFlood!Message /\ None \notin IRFlood!Message
    BY QueueAssumption, Zenon DEF IGFlood!Message, IRFlood!Message
  <2> QED
    BY <2>2, <2>3
<1>3. Location = IGFlood!Location /\ Location = IRFlood!Location
  BY DEF Location, IGFlood!Location, IRFlood!Location
<1> QED
  BY <1>1, <1>2, <1>3, NodeAssumption, TimeAssumption
     DEF IGFlood!NodeAssumption, IRFlood!NodeAssumption

-----------------------------------------------------------------------------
(* The steps of the floods.                                                *)

LEMMA SameIGReceivers ==
    ASSUME NEW n, NEW S
    PROVE  IG!Receivers(loc, n, S) = IGFlood!Receivers(loc, n, S)
  BY DEF IG!Receivers, IGFlood!Receivers, IG!InRange, IGFlood!InRange, IG!Ordered,
         IGFlood!Ordered, IG!Increasing, IGFlood!Increasing, IG!Cardinality,
         IGFlood!Cardinality

LEMMA SameIGActions ==
    /\ IG!Init => IGFlood!Init
    /\ \A n : IG!evIGROUP(n) => IGFlood!evIGROUP(n)
    /\ IG!HandDirect => IGFlood!HandDirect
    /\ IG!EndDirect => IGFlood!EndDirect
    /\ IG!Relay => IGFlood!Relay
    /\ IG!HandRelayed => IGFlood!HandRelayed
    /\ IG!EndRound => IGFlood!EndRound
<1>1. IG!Init => IGFlood!Init
  BY DEF IG!Init, IGFlood!Init, IG!Location, IGFlood!Location
<1>2. \A n : IG!evIGROUP(n) => IGFlood!evIGROUP(n)
  BY SameIGReceivers DEF IG!evIGROUP, IGFlood!evIGROUP, IG!Active, IGFlood!Active
<1>3. IG!HandDirect => IGFlood!HandDirect
  BY DEF IG!HandDirect, IGFlood!HandDirect, IG!Hand, IGFlood!Hand, IG!worldVars,
         IGFlood!worldVars
<1>4. IG!EndDirect => IGFlood!EndDirect
  BY DEF IG!EndDirect, IGFlood!EndDirect, IG!Remember, IGFlood!Remember, IG!Record,
         IGFlood!Record, IG!Round, IGFlood!Round, IG!worldVars, IGFlood!worldVars
<1>5. IG!Relay => IGFlood!Relay
  BY SameIGReceivers, Zenon
     DEF IG!Relay, IGFlood!Relay, IG!Remembered, IGFlood!Remembered, IG!Swept,
         IGFlood!Swept, IG!ErasedAt, IGFlood!ErasedAt, IG!Ordered, IGFlood!Ordered,
         IG!Increasing, IGFlood!Increasing, IG!Cardinality, IGFlood!Cardinality,
         IG!Repeated, IGFlood!Repeated, IG!Remember, IGFlood!Remember, IG!Record,
         IGFlood!Record, IG!worldVars, IGFlood!worldVars, IG!Active, IGFlood!Active
<1>6. IG!HandRelayed => IGFlood!HandRelayed
  BY DEF IG!HandRelayed, IGFlood!HandRelayed, IG!Hand, IGFlood!Hand, IG!worldVars,
         IGFlood!worldVars
<1>7. IG!EndRound => IGFlood!EndRound
  BY DEF IG!EndRound, IGFlood!EndRound, IG!RoundOver, IGFlood!RoundOver, IG!Round,
         IGFlood!Round, IG!worldVars, IGFlood!worldVars
<1> QED
  BY <1>1, <1>2, <1>3, <1>4, <1>5, <1>6, <1>7

LEMMA SameIRReceivers ==
    ASSUME NEW n, NEW S
    PROVE  IR!Receivers(loc, n, S) = IRFlood!Receivers(loc, n, S)
  BY DEF IR!Receivers, IRFlood!Receivers, IR!InRange, IRFlood!InRange, IR!Ordered,
         IRFlood!Ordered, IR!Increasing, IRFlood!Increasing, IR!Cardinality,
         IRFlood!Cardinality

LEMMA SameIRActions ==
    /\ IR!Init => IRFlood!Init
    /\ \A n, l : IR!evIREPLY(n, l) => IRFlood!evIREPLY(n, l)
    /\ IR!HandOrRelay => IRFlood!HandOrRelay
    /\ IR!EndDirect => IRFlood!EndDirect
    /\ IR!Relay => IRFlood!Relay
    /\ IR!EndRound => IRFlood!EndRound
<1>1. IR!Init => IRFlood!Init
  BY DEF IR!Init, IRFlood!Init, IR!Location, IRFlood!Location
<1>2. \A n, l : IR!evIREPLY(n, l) => IRFlood!evIREPLY(n, l)
  BY SameIRReceivers DEF IR!evIREPLY, IRFlood!evIREPLY, IR!Active, IRFlood!Active
<1>3. IR!HandOrRelay => IRFlood!HandOrRelay
  BY DEF IR!HandOrRelay, IRFlood!HandOrRelay, IR!worldVars, IRFlood!worldVars
<1>4. IR!EndDirect => IRFlood!EndDirect
  BY DEF IR!EndDirect, IRFlood!EndDirect, IR!Remember, IRFlood!Remember, IR!Record,
         IRFlood!Record, IR!Round, IRFlood!Round, IR!worldVars, IRFlood!worldVars
<1>5. IR!Relay => IRFlood!Relay
  BY SameIRReceivers, Zenon
     DEF IR!Relay, IRFlood!Relay, IR!Remembered, IRFlood!Remembered, IR!Swept,
         IRFlood!Swept, IR!ErasedAt, IRFlood!ErasedAt, IR!Ordered, IRFlood!Ordered,
         IR!Increasing, IRFlood!Increasing, IR!Cardinality, IRFlood!Cardinality,
         IR!Repeated, IRFlood!Repeated, IR!Remember, IRFlood!Remember, IR!Record,
         IRFlood!Record, IR!worldVars, IRFlood!worldVars, IR!Active, IRFlood!Active
<1>6. IR!EndRound => IRFlood!EndRound
  BY DEF IR!EndRound, IRFlood!EndRound, IR!RoundOver, IRFlood!RoundOver, IR!Round,
         IRFlood!Round, IR!worldVars, IRFlood!worldVars
<1> QED
  BY <1>1, <1>2, <1>3, <1>4, <1>5, <1>6

-----------------------------------------------------------------------------
(* Each step of the simulation is a step of the protocol, and a step of    *)
(* each flood, or changes nothing of it.                                   *)

\* What the steps need: types, and that no scenario draws random steps.
SimTypes ==
    /\ TypeOK
    /\ IGFlood!TypeOK
    /\ IRFlood!TypeOK
    /\ config.simScenario \notin {1, 2}

\* GKAInstance asks only that the IGROUP is handed to nodes.
LEMMA SimProtocolSteps ==
    ASSUME SimTypes, [SimNext]_simVars
    PROVE  [Next]_vars
<1>1. ASSUME NEW n \in Node, SilentUpdate(n)
      PROVE  Next
  BY <1>1 DEF SilentUpdate, Next, nodePeriodicUpdate
<1>2. ASSUME NEW n \in Node, LeaderSendsIGROUP(n)
      PROVE  Next
  BY <1>2 DEF LeaderSendsIGROUP, Next, nodePeriodicUpdate
<1>3. ASSUME HandIGROUP
      PROVE  Next
  <2>1. IGtodo \in Seq(Node) /\ IGtodo # <<>>
    BY <1>3 DEF SimTypes, IGFlood!TypeOK, HandIGROUP
  <2>2. Head(IGtodo) \in Node
    BY <2>1
  <2> QED
    BY <1>3, <2>2 DEF HandIGROUP, Next
<1>4. ASSUME HandIREPLY
      PROVE  [Next]_vars
  <2>1. ireply.leaderId \in Node
    BY <1>4 DEF HandIREPLY, SimTypes, TypeOK, IREPLYMessage
  <2> QED
    BY <1>4, <2>1 DEF HandIREPLY, Next
<1>5. ASSUME RelayIGROUP \/ RelayIREPLY \/ SkipIGROUP \/ PassTimeTogether
      PROVE  [Next]_vars
  BY <1>5 DEF RelayIGROUP, RelayIREPLY, SkipIGROUP, PassTimeTogether, Next
<1>6. ASSUME NEW n \in Node, MoveNode(n)
      PROVE  UNCHANGED vars
  BY <1>6 DEF MoveNode
<1>7. ASSUME UNCHANGED simVars
      PROVE  UNCHANGED vars
  BY <1>7 DEF simVars
<1> QED
  BY <1>1, <1>2, <1>3, <1>4, <1>5, <1>6, <1>7 DEF SimNext

\* An update activates its node.
LEMMA UpdateActivates ==
    ASSUME TypeOK, NEW n \in Node, SilentUpdate(n)
    PROVE  /\ Quiet
           /\ isActive' = [isActive EXCEPT ![n] = TRUE]
           /\ isActive[n] => isActive' = isActive
           /\ UNCHANGED <<now, countVars, netVars, placeVars, IGvars, IRvars>>
<1>1. Due(n) /\ UNCHANGED <<countVars, netVars, placeVars, IGvars, IRvars>>
  BY DEF SilentUpdate, DrawBackoff, DetachFromLeader, IdleUpdate
<1>2. Quiet /\ isActive' = [isActive EXCEPT ![n] = TRUE] /\ now' = now
  BY <1>1 DEF Due
<1>3. isActive \in [Node -> BOOLEAN]
  BY DEF TypeOK
<1>4. isActive[n] => isActive' = isActive
  BY <1>2, <1>3
<1> QED
  BY <1>1, <1>2, <1>4

\* A node that moves stays in the plane.
LEMMA MovesInPlane ==
    ASSUME SimTypes, NEW n \in Node, MoveNode(n)
    PROVE  /\ Quiet
           /\ loc' \in [Node -> Location]
           /\ UNCHANGED <<vars, config, IGvars, IRvars>>
<1>1. loc' = [loc EXCEPT ![n] = Moved(config, loc[n], <<0, 0, 0>>, now)]
  BY DEF MoveNode
<1>2. Moved(config, loc[n], <<0, 0, 0>>, now) \in {Centre, loc[n]}
  BY DEF Moved, SimTypes
<1>3. Centre \in Location
  BY DEF Centre, At, Location
<1>4. loc \in [Node -> Location]
  BY DEF SimTypes, IGFlood!TypeOK, IGFlood!Location, Location
<1>5. loc' \in [Node -> Location]
  BY <1>1, <1>2, <1>3, <1>4
<1> QED
  BY <1>5 DEF MoveNode

\* Between two IGROUPs nodes become active, move, and time passes; while one is
\* in flight only its flood goes on.
LEMMA SimIGROUPSteps ==
    ASSUME SimTypes, [SimNext]_simVars
    PROVE  [IGFlood!Next]_(IGFlood!vars)
<1> DEFINE Step == [IGFlood!Next]_(IGFlood!vars)
<1>1. ASSUME UNCHANGED <<loc, isActive, now, IGmessageCount, igroup, heard, IGvars>>
      PROVE  Step
  BY <1>1 DEF IGFlood!vars, IGFlood!worldVars, IGFlood!loopVars, IGvars, IGMessage
<1>2. ASSUME NEW n \in Node, SilentUpdate(n)
      PROVE  Step
  <2>1. /\ Quiet
        /\ isActive' = [isActive EXCEPT ![n] = TRUE]
        /\ isActive[n] => isActive' = isActive
        /\ UNCHANGED <<loc, now, IGmessageCount, igroup, heard, IGvars>>
    BY <1>2, UpdateActivates DEF SimTypes, countVars, netVars, placeVars
  <2>2. CASE isActive[n]
    BY <1>1, <2>1, <2>2
  <2>3. CASE ~isActive[n]
    <3>1. IGFlood!nodePeriodicUpdate(n)
      BY <2>1, <2>3 DEF IGFlood!nodePeriodicUpdate, Quiet, IGMessage, IGvars,
                        IGFlood!loopVars
    <3> QED
      BY <3>1 DEF IGFlood!Next
  <2> QED
    BY <2>2, <2>3
<1>3. ASSUME NEW n \in Node, LeaderSendsIGROUP(n)
      PROVE  Step
  <2>1. IGFlood!evIGROUP(n)
    BY <1>3, SameIGActions DEF LeaderSendsIGROUP
  <2>2. IGmessageCount \in Nat
    BY DEF SimTypes, TypeOK
  <2> QED
    BY <2>1, <2>2 DEF IGFlood!Next
<1>4. ASSUME NEW n \in Node, MoveNode(n)
      PROVE  Step
  <2>1. /\ Quiet
        /\ loc' \in [Node -> Location]
        /\ UNCHANGED <<isActive, now, IGmessageCount, igroup, heard, IGvars>>
    BY <1>4, MovesInPlane DEF vars, timeVars, countVars, netVars
  <2>2. CASE loc' = loc
    BY <1>1, <2>1, <2>2
  <2>3. CASE loc' # loc
    <3>1. IGFlood!nodeMovementUpdate
      BY <2>1, <2>3 DEF IGFlood!nodeMovementUpdate, Quiet, IGMessage, IGvars,
                        IGFlood!loopVars
    <3> QED
      BY <3>1 DEF IGFlood!Next
  <2> QED
    BY <2>2, <2>3
<1>5. ASSUME HandIGROUP \/ SkipIGROUP \/ RelayIGROUP
      PROVE  Step
  BY <1>5, SameIGActions
     DEF HandIGROUP, SkipIGROUP, RelayIGROUP, IGFlood!Next, IGFlood!Flooding
<1>6. ASSUME HandIREPLY \/ RelayIREPLY
      PROVE  Step
  <2>1. UNCHANGED <<loc, isActive, now, IGvars>>
    BY <1>6 DEF HandIREPLY, RelayIREPLY, IR!HandOrRelay, IR!EndDirect, IR!Relay,
                IR!EndRound, IR!worldVars
  <2>2. UNCHANGED <<IGmessageCount, igroup, heard>>
    BY <1>6 DEF HandIREPLY, RelayIREPLY, processIREPLY, EndIREPLY, vars, StateVars,
                countVars, netVars
  <2> QED
    BY <1>1, <2>1, <2>2
<1>7. ASSUME PassTimeTogether
      PROVE  Step
  <2>1. /\ Quiet
        /\ \E n \in Node : nextUpdate[n] > now /\ now' = nextUpdate[n]
        /\ UNCHANGED <<loc, isActive, IGmessageCount, igroup, heard, IGvars>>
    BY <1>7 DEF PassTimeTogether, PassTime, placeVars, StateVars, countVars, netVars
  <2>2. now' \in Nat /\ now' - now \in Nat /\ now' = now + (now' - now)
    <3>1. PICK n \in Node : nextUpdate[n] > now /\ now' = nextUpdate[n]
      BY <2>1
    <3>2. nextUpdate \in [Node -> Nat] /\ now \in Nat
      BY DEF SimTypes, TypeOK
    <3>3. nextUpdate[n] \in Nat
      BY <3>2
    <3> QED
      BY <3>1, <3>2, <3>3
  <2>3. \E gap \in Nat : now' = now + gap
    BY <2>2
  <2>4. IGFlood!PassTime
    BY <2>1, <2>2, <2>3 DEF IGFlood!PassTime, Quiet, IGMessage, IGvars, IGFlood!loopVars
  <2> QED
    BY <2>4 DEF IGFlood!Next
<1>8. ASSUME UNCHANGED simVars
      PROVE  Step
  BY <1>1, <1>8 DEF simVars, placeVars, vars, timeVars, countVars, netVars
<1> HIDE DEF Step
<1>9. Step
  BY <1>2, <1>3, <1>4, <1>5, <1>6, <1>7, <1>8 DEF SimNext
<1> QED
  BY <1>9 DEF Step

\* A node that is handed an IGROUP replies to its sender or not at all.
LEMMA RepliesToSender ==
    ASSUME TypeOK, ireply = None, NEW m \in Node, processIGROUP(m)
    PROVE  /\ \/ ireply' = None /\ IRmessageCount' = IRmessageCount
              \/ ireply' # None /\ ireply'.leaderId \in Node \ {m}
           /\ UNCHANGED <<isActive, now>>
<1> DEFINE Replies == \/ ireply' = None /\ IRmessageCount' = IRmessageCount
                      \/ ireply' # None /\ ireply'.leaderId \in Node \ {m}
<1>1. igroup.leaderId \in Node \ {m}
  BY DEF processIGROUP, AcceptFromLeader, RejectFromLeader, JoinLeader, BecomeMember,
         IgnoreIGROUP, Receives, TypeOK, IGROUPMessage
<1>2. UNCHANGED <<isActive, now>>
  BY DEF processIGROUP, AcceptFromLeader, RejectFromLeader, JoinLeader, BecomeMember,
         IgnoreIGROUP, timeVars
<1>3. TypeOK'
  BY AcceptFromLeaderTypes, RejectFromLeaderTypes, JoinLeaderTypes,
     BecomeMemberTypes, IgnoreIGROUPTypes DEF processIGROUP
<1>4. ASSUME NEW leaderNonce \in Nat, NEW session \in Nat, NEW nonce \in Nat,
             NEW contrib \in Elem, NEW id \in Int,
             Reply(m, igroup.leaderId, leaderNonce, session, nonce, contrib, id)
      PROVE  Replies
  <2>1. ireply' \in IREPLYMessage
    BY <1>1, <1>4, ReplyTypes
  <2>2. ireply'.leaderId = igroup.leaderId
    BY <1>4 DEF Reply
  <2> QED
    BY <1>1, <2>1, <2>2, QueueAssumption
<1>5. /\ igroup \in IGROUPMessage
      /\ rng \in Nat /\ secrets \in Nat
      /\ DrawnAt(rng) \in Nat /\ secrets + 1 \in Nat
  <2>1. rng \in Nat /\ secrets \in Nat
    BY DEF TypeOK
  <2>2. igroup # None
    BY DEF processIGROUP, AcceptFromLeader, RejectFromLeader, JoinLeader,
           BecomeMember, IgnoreIGROUP, Receives
  <2>3. igroup \in IGROUPMessage
    BY <2>2 DEF TypeOK
  <2> QED
    BY <2>1, <2>3 DEF DrawnAt
<1>6. ASSUME AcceptFromLeader(m)
      PROVE  Replies
  <2>1. PICK expired \in LastSecretExpired :
          Reply(m, leaderId[m], leaderLastNonce'[m],
                IF expired THEN sessionNext'[m] ELSE sessionCurrent'[m],
                DrawnAt(rng), nodeContrib[m], igroup.sessionId)
    BY <1>6 DEF AcceptFromLeader
  <2> DEFINE session == IF expired THEN sessionNext'[m] ELSE sessionCurrent'[m]
  <2>2. leaderLastNonce'[m] \in Nat /\ session \in Nat
    BY <1>3 DEF TypeOK
  <2>3. nodeContrib[m] \in Elem /\ igroup.sessionId \in Int
    <3>1. nodeContrib[m] \in Elem
      BY DEF TypeOK
    <3>2. igroup.sessionId \in Int
      BY <1>5, IGROUPFields
    <3> QED
      BY <3>1, <3>2
  <2>4. leaderId[m] = igroup.leaderId
    BY <1>6 DEF AcceptFromLeader, FromMyLeader
  <2>5. Reply(m, igroup.leaderId, leaderLastNonce'[m], session, DrawnAt(rng),
              nodeContrib[m], igroup.sessionId)
    BY <2>1, <2>4
  <2> HIDE DEF session
  <2> QED
    BY <1>4, <1>5, <2>2, <2>3, <2>5
<1>7. ASSUME JoinLeader(m)
      PROVE  Replies
  <2>1. Reply(m, igroup.leaderId, igroup.leaderLastNonce, igroup.sessionCurrent,
              DrawnAt(rng), computeBlindedSecret(secrets + 1), igroup.sessionId)
    BY <1>7 DEF JoinLeader
  <2>2. /\ igroup.leaderLastNonce \in Nat /\ igroup.sessionCurrent \in Nat
        /\ igroup.sessionId \in Int
        /\ computeBlindedSecret(secrets + 1) \in Elem
    BY <1>5, IGROUPFields, CryptoTypes
  <2> QED
    BY <1>4, <1>5, <2>1, <2>2
<1>8. ASSUME BecomeMember(m)
      PROVE  Replies
  <2>1. Reply(m, igroup.leaderId, igroup.leaderLastNonce, igroup.sessionCurrent,
              lastNonce'[m], nodeContrib'[m], sessionId[m])
    BY <1>8 DEF BecomeMember
  <2>2. /\ igroup.leaderLastNonce \in Nat /\ igroup.sessionCurrent \in Nat
        /\ sessionId[m] \in Int
        /\ lastNonce'[m] \in Nat /\ nodeContrib'[m] \in Elem
    BY <1>3, <1>5, IGROUPFields DEF TypeOK
  <2> QED
    BY <1>4, <2>1, <2>2
<1>9. ASSUME RejectFromLeader(m) \/ IgnoreIGROUP(m)
      PROVE  Replies
  BY <1>9 DEF RejectFromLeader, IgnoreIGROUP, countVars
<1> HIDE DEF Replies
<1>10. Replies
  BY <1>6, <1>7, <1>8, <1>9 DEF processIGROUP
<1> QED
  BY <1>2, <1>10 DEF Replies

\* A reply is flooded while the flood of the IGROUP it answers waits.
LEMMA SimIREPLYSteps ==
    ASSUME SimTypes, [SimNext]_simVars
    PROVE  [IRFlood!Next]_(IRFlood!vars)
<1> DEFINE Step == [IRFlood!Next]_(IRFlood!vars)
<1>1. ASSUME UNCHANGED <<loc, isActive, now, IRmessageCount, ireply, IRvars>>
      PROVE  Step
  BY <1>1 DEF IRFlood!vars, IRFlood!worldVars, IRFlood!loopVars, IRvars, IRMessage
<1>2. ASSUME NEW n \in Node, SilentUpdate(n)
      PROVE  Step
  <2>1. /\ Quiet
        /\ isActive' = [isActive EXCEPT ![n] = TRUE]
        /\ isActive[n] => isActive' = isActive
        /\ UNCHANGED <<loc, now, IRmessageCount, ireply, IRvars>>
    BY <1>2, UpdateActivates DEF SimTypes, countVars, netVars, placeVars
  <2>2. CASE isActive[n]
    BY <1>1, <2>1, <2>2
  <2>3. CASE ~isActive[n]
    <3>1. IRFlood!nodePeriodicUpdate(n)
      BY <2>1, <2>3 DEF IRFlood!nodePeriodicUpdate, Quiet, IRMessage, IRvars,
                        IRFlood!loopVars
    <3> QED
      BY <3>1 DEF IRFlood!Next
  <2> QED
    BY <2>2, <2>3
<1>3. ASSUME NEW n \in Node, LeaderSendsIGROUP(n)
      PROVE  Step
  <2>1. UNCHANGED <<loc, isActive, now>>
    BY <1>3 DEF LeaderSendsIGROUP, IG!evIGROUP
  <2>2. UNCHANGED <<IRmessageCount, ireply>>
    BY <1>3 DEF LeaderSendsIGROUP, BecomeLeader, LeaderUpdate, SendIGROUP
  <2>3. UNCHANGED IRvars
    BY <1>3 DEF LeaderSendsIGROUP
  <2> QED
    BY <1>1, <2>1, <2>2, <2>3
<1>4. ASSUME NEW n \in Node, MoveNode(n)
      PROVE  Step
  <2>1. /\ Quiet
        /\ loc' \in [Node -> Location]
        /\ UNCHANGED <<isActive, now, IRmessageCount, ireply, IRvars>>
    BY <1>4, MovesInPlane DEF vars, timeVars, countVars, netVars
  <2>2. CASE loc' = loc
    BY <1>1, <2>1, <2>2
  <2>3. CASE loc' # loc
    <3>1. IRFlood!nodeMovementUpdate
      BY <2>1, <2>3 DEF IRFlood!nodeMovementUpdate, Quiet, IRMessage, IRvars,
                        IRFlood!loopVars
    <3> QED
      BY <3>1 DEF IRFlood!Next
  <2> QED
    BY <2>2, <2>3
<1>5. ASSUME HandIGROUP
      PROVE  Step
  <2> DEFINE m == Head(IGtodo)
  <2>1. m \in Node
    <3>1. IGtodo \in Seq(Node) /\ IGtodo # <<>>
      BY <1>5 DEF SimTypes, IGFlood!TypeOK, HandIGROUP
    <3> QED
      BY <3>1
  <2>2. /\ \/ ireply' = None /\ IRmessageCount' = IRmessageCount
           \/ ireply' # None /\ ireply'.leaderId \in Node \ {m}
        /\ UNCHANGED <<isActive, now>>
    BY <1>5, <2>1, RepliesToSender DEF HandIGROUP, SimTypes
  <2>3. UNCHANGED loc
    BY <1>5 DEF HandIGROUP, IG!HandDirect, IG!HandRelayed, IG!worldVars
  <2>4. ireply = None /\ RepliesIfAsked(m)
    BY <1>5 DEF HandIGROUP
  <2>5. CASE ireply' = None
    <3>1. UNCHANGED <<IRvars, IRmessageCount>>
      BY <2>2, <2>4, <2>5, SMT DEF RepliesIfAsked
    <3> QED
      BY <1>1, <2>2, <2>3, <2>4, <2>5, <3>1
  <2>6. CASE ireply' # None
    <3>1. IRFlood!evIREPLY(m, ireply'.leaderId)
      BY <2>4, <2>6, SameIRActions DEF RepliesIfAsked
    <3>2. <<m, ireply'.leaderId>> \in {p \in Node \X Node : p[1] # p[2]}
      BY <2>1, <2>2, <2>6
    <3>3. IRmessageCount \in Nat
      BY DEF SimTypes, TypeOK
    <3>4. \E r \in {p \in Node \X Node : p[1] # p[2]} : IRFlood!evIREPLY(r[1], r[2])
      <4> DEFINE r == <<m, ireply'.leaderId>>
      <4>1. r[1] = m /\ r[2] = ireply'.leaderId
        OBVIOUS
      <4>2. IRFlood!evIREPLY(r[1], r[2])
        BY <3>1, <4>1
      <4> HIDE DEF r
      <4> QED
        BY <3>2, <4>2 DEF r
    <3> QED
      BY <3>3, <3>4 DEF IRFlood!Next
  <2> QED
    BY <2>5, <2>6
<1>6. ASSUME SkipIGROUP \/ RelayIGROUP
      PROVE  Step
  <2>1. UNCHANGED <<loc, isActive, now, IRvars>>
    BY <1>6 DEF SkipIGROUP, RelayIGROUP, IG!HandRelayed, IG!EndDirect, IG!Relay,
                IG!EndRound, IG!worldVars
  <2>2. UNCHANGED <<IRmessageCount, ireply>>
    BY <1>6 DEF SkipIGROUP, RelayIGROUP, EndIGROUP, vars, StateVars, countVars, netVars
  <2> QED
    BY <1>1, <2>1, <2>2
<1>7. ASSUME HandIREPLY \/ RelayIREPLY
      PROVE  Step
  BY <1>7, SameIRActions
     DEF HandIREPLY, RelayIREPLY, IRFlood!Next, IRFlood!Flooding
<1>8. ASSUME PassTimeTogether
      PROVE  Step
  <2>1. /\ Quiet
        /\ \E n \in Node : nextUpdate[n] > now /\ now' = nextUpdate[n]
        /\ UNCHANGED <<loc, isActive, IRmessageCount, ireply, IRvars>>
    BY <1>8 DEF PassTimeTogether, PassTime, placeVars, StateVars, countVars, netVars
  <2>2. now' \in Nat /\ now' - now \in Nat /\ now' = now + (now' - now)
    <3>1. PICK n \in Node : nextUpdate[n] > now /\ now' = nextUpdate[n]
      BY <2>1
    <3>2. nextUpdate \in [Node -> Nat] /\ now \in Nat
      BY DEF SimTypes, TypeOK
    <3>3. nextUpdate[n] \in Nat
      BY <3>2
    <3> QED
      BY <3>1, <3>2, <3>3
  <2>3. \E gap \in Nat : now' = now + gap
    BY <2>2
  <2>4. IRFlood!PassTime
    BY <2>1, <2>2, <2>3 DEF IRFlood!PassTime, Quiet, IRMessage, IRvars, IRFlood!loopVars
  <2> QED
    BY <2>4 DEF IRFlood!Next
<1>9. ASSUME UNCHANGED simVars
      PROVE  Step
  BY <1>1, <1>9 DEF simVars, placeVars, vars, timeVars, countVars, netVars
<1> HIDE DEF Step
<1>10. Step
  BY <1>2, <1>3, <1>4, <1>5, <1>6, <1>7, <1>8, <1>9 DEF SimNext
<1> QED
  BY <1>10 DEF Step

-----------------------------------------------------------------------------
(* The simulation is a run of the protocol and of both floods.             *)

LEMMA SimInitTypes == SimInit => SimTypes
<1> SUFFICES ASSUME SimInit PROVE SimTypes
  OBVIOUS
<1>1. TypeOK
  BY InitTypes DEF SimInit
<1>2. IGFlood!TypeOK /\ IRFlood!TypeOK
  <2>1. IGFlood!NodeAssumption /\ IRFlood!NodeAssumption
    BY FloodAssumptions
  <2>2. IGFlood!Init /\ IRFlood!Init
    BY SameIGActions, SameIRActions DEF SimInit
  <2> QED
    BY <2>1, <2>2, IGFlood!InitTypes, IRFlood!InitTypes
<1>3. config.simScenario \notin {1, 2}
  <2>1. PICK s \in Setups :
          config = [simScenario |-> s.simScenario, numGroups |-> s.numGroups,
                    simulationTime |-> simulationTime]
    BY DEF SimInit
  <2> QED
    BY <2>1, SetupAssumption
<1> QED
  BY <1>1, <1>2, <1>3 DEF SimTypes

LEMMA SimTypesPreserved == SimTypes /\ [SimNext]_simVars => SimTypes'
<1> SUFFICES ASSUME SimTypes, [SimNext]_simVars PROVE SimTypes'
  OBVIOUS
<1>1. TypeOK'
  BY SimProtocolSteps, TypesPreserved DEF SimTypes
<1>2. IGFlood!TypeOK' /\ IRFlood!TypeOK'
  <2>1. IGFlood!NodeAssumption /\ IRFlood!NodeAssumption
    BY FloodAssumptions
  <2>2. [IGFlood!Next]_(IGFlood!vars) /\ [IRFlood!Next]_(IRFlood!vars)
    BY SimIGROUPSteps, SimIREPLYSteps
  <2>3. IGFlood!TypeOK /\ IRFlood!TypeOK
    BY DEF SimTypes
  <2> QED
    BY <2>1, <2>2, <2>3, IGFlood!TypesPreserved, IRFlood!TypesPreserved
<1>3. config' = config
  BY DEF SimNext, SilentUpdate, LeaderSendsIGROUP, MoveNode, HandIGROUP, SkipIGROUP,
         RelayIGROUP, HandIREPLY, RelayIREPLY, PassTimeTogether, simVars, placeVars
<1> QED
  BY <1>1, <1>2, <1>3 DEF SimTypes

LEMMA SimTypesAlways == SimSpec => []SimTypes
  BY SimInitTypes, SimTypesPreserved, PTL DEF SimSpec

\* The protocol run over the floods is the protocol run over a network that
\* hands messages on as it likes.
THEOREM SimulationRunsProtocol == SimSpec => Spec
<1>1. SimInit => Init
  BY DEF SimInit
<1>2. SimTypes /\ [SimNext]_simVars => [Next]_vars
  BY SimProtocolSteps
<1> QED
  BY <1>1, <1>2, SimTypesAlways, PTL DEF SimSpec, Spec

\* What GKASimul does with an IGROUP and with an IREPLY are the floods of the
\* modules about them: the other flood and the protocol do not disturb them.
THEOREM SimulationRunsFloods ==
    SimSpec => /\ IGFlood!Init /\ [][IGFlood!Next]_(IGFlood!vars)
               /\ IRFlood!Init /\ [][IRFlood!Next]_(IRFlood!vars)
<1>1. SimInit => IGFlood!Init /\ IRFlood!Init
  BY SameIGActions, SameIRActions DEF SimInit
<1>2. SimTypes /\ [SimNext]_simVars => [IGFlood!Next]_(IGFlood!vars)
  BY SimIGROUPSteps
<1>3. SimTypes /\ [SimNext]_simVars => [IRFlood!Next]_(IRFlood!vars)
  BY SimIREPLYSteps
<1> QED
  BY <1>1, <1>2, <1>3, SimTypesAlways, PTL DEF SimSpec

\* The whole simulation keeps what the protocol keeps: groups are sets without
\* their leader, membership has no cycles, and an IGROUP in flight says what
\* its leader is.
THEOREM SimulationKeepsGroups == SimSpec => []GroupInv
  BY SimulationRunsProtocol, GroupInvCorrect, PTL

\* In the simulation leaders drop silent members in time.
THEOREM SimulationDropsSilent ==
    ASSUME IsFiniteSet(Node)
    PROVE  SimSpec => []SilentMembersLeave
<1>1. Spec => []SilentMembersLeave
  BY SilentMembersLeaveHolds
<1> QED
  BY <1>1, SimulationRunsProtocol, PTL

\* In the simulation, as long as rand() does not repeat itself, leaders never
\* share a session and members know what their leader has announced.
THEOREM SimulationAgreesOnSessions ==
    ASSUME ~MovementReseeds
    PROVE  SimSpec => []SessionInv
<1>1. Spec => []SessionInv
  BY SessionInvCorrect
<1> QED
  BY <1>1, SimulationRunsProtocol, PTL

\* In the simulation nobody becomes a leader before its own was silent for
\* LEADER_LAST_TIME.
THEOREM SimulationElectsInSilence == SimSpec => SilenceBeforeLeadership
  BY SimulationRunsProtocol, SilenceBeforeLeadershipHolds, PTL

\* In the simulation both floods keep what they promise, whatever IREPLYs are
\* flooded while an IGROUP is: nobody relays a message twice, an IGROUP is
\* relayed by every node it can get to, in chains it is handed to each, and an
\* IREPLY gets to its leader, unless a relay's records were swept away.
THEOREM SimulationFloods ==
    SimSpec => /\ []IGFlood!RelaysOnce
               /\ []IGFlood!EverybodyRelays
               /\ []IGFlood!ChainsAreServed
               /\ []IRFlood!RelaysOnce
               /\ []IRFlood!LeaderIsReached
<1>1. IGFlood!NodeAssumption /\ IRFlood!NodeAssumption
  BY FloodAssumptions
<1>2. IGFlood!Init /\ [][IGFlood!Next]_(IGFlood!vars) =>
        []IGFlood!TypeOK /\ []IGFlood!RelaysOnce /\ []IGFlood!EverybodyRelays
          /\ []IGFlood!ChainsAreServed
  BY <1>1, IGFlood!StepsAreSafe
<1>3. IRFlood!Init /\ [][IRFlood!Next]_(IRFlood!vars) =>
        []IRFlood!TypeOK /\ []IRFlood!RelaysOnce /\ []IRFlood!LeaderIsReached
  BY <1>1, IRFlood!StepsAreSafe
<1> QED
  BY <1>2, <1>3, SimulationRunsFloods, PTL

-----------------------------------------------------------------------------
(* The program, which counts while it simulates, and its report.           *)

LEMMA MainStepsAreSimulated == [MainNext]_mainVars => [SimNext]_simVars
  BY DEF MainNext, CountLeader, CountMember, CountReply, Uncounted, GKAFinish,
         mainVars, SimNext

\* Counting changes nothing of what is simulated.
THEOREM ProgramSimulates == MainSpec => SimSpec
<1>1. MainInit => SimInit
  BY DEF MainInit
<1> QED
  BY <1>1, MainStepsAreSimulated, PTL DEF MainSpec, SimSpec

LEMMA MainAlways == MainSpec => []SimTypes /\ []GroupInv
  BY ProgramSimulates, SimTypesAlways, SimulationKeepsGroups, PTL

\* Messages in flight, and replies verified, are those of leaders that signed;
\* who verifies an IGROUP signs as well.
SignedInv ==
    /\ LeadersignCount \in Nat /\ MembersignCount \in Nat
    /\ igroup # None \/ ireply # None \/ IREPLYtotalVeriCount # 0
         => LeadersignCount > 0
    /\ IGROUPtotalVeriCount # 0 => MembersignCount > 0

LEMMA SignedPreserved == SignedInv /\ [MainNext]_mainVars => SignedInv'
<1> SUFFICES ASSUME SignedInv, [MainNext]_mainVars PROVE SignedInv'
  OBVIOUS
<1>1. ASSUME NEW n \in Node, CountLeader(n)
      PROVE  SignedInv'
  <2>1. LeadersignCount' = LeadersignCount + 1 /\ LeadersignCount \in Nat
    BY <1>1 DEF CountLeader, SignedInv
  <2>2. LeadersignCount' \in Nat /\ LeadersignCount' > 0
    BY <2>1
  <2>3. UNCHANGED <<MembersignCount, IGROUPtotalVeriCount>>
    BY <1>1 DEF CountLeader
  <2> QED
    BY <2>2, <2>3 DEF SignedInv
<1>2. ASSUME CountMember
      PROVE  SignedInv'
  <2>1. igroup # None
    BY <1>2 DEF CountMember, HandIGROUP, processIGROUP, AcceptFromLeader,
                RejectFromLeader, JoinLeader, BecomeMember, IgnoreIGROUP, Receives
  <2>2. UNCHANGED <<LeadersignCount, IREPLYtotalVeriCount>>
    BY <1>2 DEF CountMember
  <2>3. \/ UNCHANGED <<MembersignCount, IGROUPtotalVeriCount>>
        \/ MembersignCount' = MembersignCount + 1
    BY <1>2 DEF CountMember
  <2> QED
    BY <2>1, <2>2, <2>3 DEF SignedInv
<1>3. ASSUME CountReply
      PROVE  SignedInv'
  <2>1. ireply # None
    BY <1>3 DEF CountReply, HandIREPLY
  <2>2. UNCHANGED <<LeadersignCount, MembersignCount, IGROUPtotalVeriCount>>
    BY <1>3 DEF CountReply
  <2> QED
    BY <2>1, <2>2 DEF SignedInv
<1>4. ASSUME UNCHANGED countedVars, igroup' \in {igroup, None}, ireply' \in {ireply, None}
      PROVE  SignedInv'
  BY <1>4 DEF SignedInv, countedVars
<1>5. ASSUME NEW n \in Node, SilentUpdate(n) \/ MoveNode(n)
      PROVE  UNCHANGED <<igroup, ireply>>
  BY <1>5 DEF SilentUpdate, MoveNode, DrawBackoff, DetachFromLeader, IdleUpdate,
              netVars, vars
<1>6. ASSUME SkipIGROUP \/ RelayIGROUP \/ RelayIREPLY \/ PassTimeTogether
      PROVE  igroup' \in {igroup, None} /\ ireply' \in {ireply, None}
  BY <1>6 DEF SkipIGROUP, RelayIGROUP, RelayIREPLY, PassTimeTogether, PassTime,
              EndIGROUP, EndIREPLY, netVars, vars
<1>7. ASSUME Uncounted
      PROVE  SignedInv'
  BY <1>4, <1>5, <1>6, <1>7 DEF Uncounted
<1>8. ASSUME GKAFinish \/ UNCHANGED mainVars
      PROVE  SignedInv'
  BY <1>4, <1>8 DEF GKAFinish, mainVars, simVars, vars, netVars
<1> QED
  BY <1>1, <1>2, <1>3, <1>7, <1>8 DEF MainNext

\* The report takes the average of what leaders took to sign, and of what
\* members took, only when it has counted one that did.
THEOREM AveragesDefinedHolds == MainSpec => []AveragesDefined
<1>1. MainInit => SignedInv
  BY DEF MainInit, SimInit, Init, SignedInv
<1>2. SignedInv => AveragesDefined
  BY DEF SignedInv, AveragesDefined
<1> QED
  BY <1>1, <1>2, SignedPreserved, PTL DEF MainSpec

\* A list that names nodes once, and not the one that keeps it, fits.
LEMMA ListsFit ==
    ASSUME NEW n \in Node, NEW len \in Nat, NEW id \in [1..len -> Node \ {n}],
           \A i, j \in 1..len : id[i] = id[j] => i = j
    PROVE  len \in Columns
<1>1. id \in Injection(1..len, Node \ {n})
  BY DEF Injection, IsInjective
<1>2. IsFiniteSet(Node) /\ Cardinality(Node) \in Nat
  BY QueueAssumption, FS_CardinalityType
<1>3. IsFiniteSet(Node \ {n}) /\ Cardinality(Node \ {n}) = Cardinality(Node) - 1
  BY <1>2, FS_RemoveElement
<1>4. Cardinality(1..len) = len
  BY FS_Interval
<1>5. Cardinality(1..len) <= Cardinality(Node \ {n})
  BY <1>1, <1>3, FS_Injection
<1> QED
  BY <1>2, <1>3, <1>4, <1>5 DEF Columns

\* The keys counted are those of lists that fit, and once the report is made
\* nothing happens any more.
CountedInv ==
    /\ generateIGROUPTime \in [Node -> Seq(Columns)]
    /\ processIGROUPTime \in [Node -> Seq(Columns)]
    /\ finished => /\ NoEvent
                   /\ leaderKeyCount = KeyCount(generateIGROUPTime)
                   /\ memberKeyCount = KeyCount(processIGROUPTime)

LEMMA LeaderListFits ==
    ASSUME TypeOK', GroupIsASet', NEW n \in Node, LeaderSendsIGROUP(n)
    PROVE  Len(memberList'[n]) \in Columns
<1>1. nodeState'[n] = "Leader"
  <2>1. nodeState' \in [Node -> Role]
    BY DEF TypeOK
  <2> QED
    BY <2>1 DEF LeaderSendsIGROUP, BecomeLeader, LeaderUpdate, roleVars
<1> DEFINE list == memberList'[n]
           id == [i \in 1..Len(list) |-> list[i].memberId]
<1>2. list \in Seq(MemberRecord)
  BY DEF TypeOK
<1>3. \A i, j \in DOMAIN list :
        /\ list[i].memberId # n
        /\ list[i].memberId = list[j].memberId => i = j
  BY <1>1 DEF GroupIsASet, Leaders
<1> HIDE DEF list
<1>4. Len(list) \in Nat /\ DOMAIN list = 1..Len(list)
  BY <1>2, LenProperties
<1>5. \A i \in 1..Len(list) : list[i].memberId \in Node
  <2>1. \A i \in 1..Len(list) : list[i] \in MemberRecord
    BY <1>2, ElementOfSeq
  <2> QED
    BY <2>1 DEF MemberRecord
<1>6. id \in [1..Len(list) -> Node \ {n}] /\ \A i, j \in 1..Len(list) : id[i] = id[j] => i = j
  BY <1>3, <1>4, <1>5
<1> HIDE DEF id
<1> QED
  BY <1>4, <1>6, ListsFit DEF list

LEMMA SentListFits ==
    ASSUME TypeOK, GroupIsASet, igroup # None
    PROVE  Len(igroup.memberInfoList) \in Columns
<1> DEFINE list == igroup.memberInfoList
           id == [i \in 1..Len(list) |-> list[i].memberId]
<1>1. list \in Seq(MemberInfo) /\ igroup.leaderId \in Node
  BY IGROUPFields DEF TypeOK
<1>2. \A i, j \in DOMAIN list :
        /\ list[i].memberId # igroup.leaderId
        /\ list[i].memberId = list[j].memberId => i = j
  BY DEF GroupIsASet
<1> HIDE DEF list
<1>3. Len(list) \in Nat /\ DOMAIN list = 1..Len(list)
  BY <1>1, LenProperties
<1>4. \A i \in 1..Len(list) : list[i].memberId \in Node
  <2>1. \A i \in 1..Len(list) : list[i] \in MemberInfo
    BY <1>1, ElementOfSeq
  <2> QED
    BY <2>1 DEF MemberInfo
<1>5. /\ id \in [1..Len(list) -> Node \ {igroup.leaderId}]
      /\ \A i, j \in 1..Len(list) : id[i] = id[j] => i = j
  BY <1>2, <1>3, <1>4
<1> HIDE DEF id
<1> QED
  BY <1>1, <1>3, <1>5, ListsFit DEF list

LEMMA CountedPreserved ==
    SimTypes /\ SimTypes' /\ GroupInv /\ GroupInv' /\ CountedInv /\ [MainNext]_mainVars
      => CountedInv'
<1> SUFFICES ASSUME SimTypes, SimTypes', GroupInv, GroupInv', CountedInv,
                    [MainNext]_mainVars
             PROVE  CountedInv'
  OBVIOUS
<1>1. TypeOK /\ TypeOK' /\ GroupIsASet /\ GroupIsASet'
  BY DEF SimTypes, GroupInv
<1>2. now \in Nat /\ nextUpdate \in [Node -> Nat] /\ simulationTime \in Nat
  BY <1>1, TimeAssumption DEF TypeOK
<1>3. ASSUME NEW n \in Node, Due(n)
      PROVE  ~finished
  BY <1>2, <1>3 DEF CountedInv, NoEvent, Due
<1>4. ASSUME NEW n \in Node, CountLeader(n)
      PROVE  CountedInv'
  <2>1. ~finished /\ finished' = finished
    BY <1>3, <1>4 DEF CountLeader, LeaderSendsIGROUP, BecomeLeader, LeaderUpdate,
                      reportVars
  <2>2. Len(memberList'[n]) \in Columns
    BY <1>1, <1>4, LeaderListFits DEF CountLeader
  <2>3. generateIGROUPTime' \in [Node -> Seq(Columns)]
    <3>1. generateIGROUPTime \in [Node -> Seq(Columns)]
      BY DEF CountedInv
    <3>2. Append(generateIGROUPTime[n], Len(memberList'[n])) \in Seq(Columns)
      BY <2>2, <3>1
    <3>3. \/ generateIGROUPTime' = generateIGROUPTime
          \/ generateIGROUPTime' = [generateIGROUPTime EXCEPT ![n] =
               Append(generateIGROUPTime[n], Len(memberList'[n]))]
      BY <1>4, <3>1 DEF CountLeader
    <3> QED
      BY <3>1, <3>2, <3>3
  <2>4. processIGROUPTime' = processIGROUPTime
    BY <1>4 DEF CountLeader
  <2> QED
    BY <2>1, <2>3, <2>4 DEF CountedInv
<1>5. ASSUME CountMember
      PROVE  CountedInv'
  <2> DEFINE m == Head(IGtodo)
  <2>1. igroup # None
    BY <1>5 DEF CountMember, HandIGROUP, processIGROUP, AcceptFromLeader,
                RejectFromLeader, JoinLeader, BecomeMember, IgnoreIGROUP, Receives
  <2>2. ~finished /\ finished' = finished
    BY <1>5, <2>1 DEF CountMember, CountedInv, NoEvent, Quiet, reportVars
  <2>3. m \in Node
    <3>1. IGtodo \in Seq(Node) /\ IGtodo # <<>>
      BY <1>5 DEF SimTypes, IGFlood!TypeOK, CountMember, HandIGROUP
    <3> QED
      BY <3>1
  <2>4. Len(igroup.memberInfoList) \in Columns
    BY <1>1, <2>1, SentListFits
  <2>5. processIGROUPTime' \in [Node -> Seq(Columns)]
    <3>1. processIGROUPTime \in [Node -> Seq(Columns)]
      BY DEF CountedInv
    <3>2. Append(processIGROUPTime[m], Len(igroup.memberInfoList)) \in Seq(Columns)
      BY <2>3, <2>4, <3>1
    <3>3. \/ processIGROUPTime' = processIGROUPTime
          \/ processIGROUPTime' = [processIGROUPTime EXCEPT ![m] =
               Append(processIGROUPTime[m], Len(igroup.memberInfoList))]
      BY <1>5, <3>1 DEF CountMember
    <3> HIDE DEF m
    <3> QED
      BY <3>1, <3>2, <3>3
  <2>6. generateIGROUPTime' = generateIGROUPTime
    BY <1>5 DEF CountMember
  <2> QED
    BY <2>2, <2>5, <2>6 DEF CountedInv
<1>6. ASSUME CountReply
      PROVE  CountedInv'
  <2>1. ireply # None
    BY <1>6 DEF CountReply, HandIREPLY
  <2>2. ~finished /\ finished' = finished
    BY <1>6, <2>1 DEF CountReply, CountedInv, NoEvent, Quiet, reportVars
  <2> QED
    BY <1>6, <2>2 DEF CountReply, CountedInv
<1>7. ASSUME Uncounted
      PROVE  CountedInv'
  <2>1. UNCHANGED <<countedVars, reportVars>>
    BY <1>7 DEF Uncounted
  <2>2. ~finished \/ UNCHANGED vars
    <3>1. ASSUME NEW n \in Node, SilentUpdate(n)
          PROVE  ~finished
      BY <1>3, <3>1 DEF SilentUpdate, DrawBackoff, DetachFromLeader, IdleUpdate
    <3>2. ASSUME EndIGROUP \/ RelayIREPLY
          PROVE  ~finished
      BY <3>2 DEF CountedInv, NoEvent, Quiet, EndIGROUP, RelayIREPLY
    <3>3. ASSUME PassTimeTogether
          PROVE  ~finished
      <4>1. PICK n \in Node : nextUpdate[n] > now
        BY <3>3 DEF PassTimeTogether, PassTime
      <4> QED
        BY <1>2, <4>1 DEF CountedInv, NoEvent
    <3> QED
      BY <1>7, <3>1, <3>2, <3>3 DEF Uncounted, MoveNode, SkipIGROUP, RelayIGROUP
  <2>3. UNCHANGED vars /\ NoEvent => NoEvent'
    BY DEF NoEvent, Quiet, vars, netVars, timeVars
  <2> QED
    BY <2>1, <2>2, <2>3 DEF CountedInv, countedVars, reportVars, KeyCount, Timed
<1>8. ASSUME GKAFinish
      PROVE  CountedInv'
  <2>1. UNCHANGED <<vars, countedVars>> /\ NoEvent
    BY <1>8 DEF GKAFinish, simVars
  <2>2. NoEvent'
    BY <2>1 DEF NoEvent, Quiet, vars, netVars, timeVars
  <2>3. UNCHANGED <<generateIGROUPTime, processIGROUPTime>>
    BY <2>1 DEF countedVars
  <2>4. /\ leaderKeyCount' = KeyCount(generateIGROUPTime')
        /\ memberKeyCount' = KeyCount(processIGROUPTime')
    BY <1>8, <2>3 DEF GKAFinish
  <2> QED
    BY <2>2, <2>3, <2>4 DEF CountedInv
<1>9. ASSUME UNCHANGED mainVars
      PROVE  CountedInv'
  <2>1. UNCHANGED <<vars, countedVars, reportVars>>
    BY <1>9 DEF mainVars, simVars
  <2>2. NoEvent => NoEvent'
    BY <2>1 DEF NoEvent, Quiet, vars, netVars, timeVars
  <2> QED
    BY <2>1, <2>2 DEF CountedInv, countedVars, reportVars, KeyCount, Timed
<1> QED
  BY <1>4, <1>5, <1>6, <1>7, <1>8, <1>9 DEF MainNext

\* Keys counted row by row are as many as those counted column by column.
LEMMA ReportAddsUp ==
    ASSUME NEW times \in [Node -> Seq(Columns)]
    PROVE  SumFunction(Restrict(KeyCount(times), Columns))
             = SumFunction([n \in Node |-> Len(times[n])])
<1> DEFINE count(n, j) == Cardinality({k \in DOMAIN times[n] : times[n][k] = j})
           rows == [n \in Node |-> [j \in Columns |-> count(n, j)]]
           columns == [j \in Columns |-> [n \in Node |-> count(n, j)]]
           total == [n \in Node |-> Len(times[n])]
           below == Restrict(KeyCount(times), Columns)
<1>1. IsFiniteSet(Node) /\ IsFiniteSet(Columns)
  <2>1. IsFiniteSet(Node) /\ Cardinality(Node) \in Nat
    BY QueueAssumption, FS_CardinalityType
  <2> QED
    BY <2>1, FS_Interval DEF Columns
<1>2. \A n \in Node : /\ rows[n] \in [Columns -> Nat]
                      /\ SumFunction(rows[n]) = Len(times[n])
  BY <1>1, SumOfCounts
<1>3. \A n \in Node, j \in Columns : rows[n][j] = count(n, j) /\ count(n, j) \in Nat
  BY <1>2
<1>4. total \in [Node -> Nat] /\ \A n \in Node : total[n] = Len(times[n])
  BY LenProperties
<1>5. below = [j \in Columns |-> SumFunction(columns[j])]
  <2>1. \A j \in Columns : SumFunction(columns[j]) = Timed(times, j)
    BY TableAssumption DEF Timed
  <2>2. Columns \subseteq Table
    <3>1. TableSize \in Nat /\ Cardinality(Node) \in Nat /\ Cardinality(Node) <= TableSize
      BY TableAssumption, QueueAssumption, FS_CardinalityType
    <3> QED
      BY <3>1 DEF Columns, Table
  <2>3. \A j \in Columns : KeyCount(times)[j] = Timed(times, j)
    BY <2>2 DEF KeyCount
  <2> QED
    BY <2>1, <2>3 DEF Restrict
<1> HIDE DEF count
<1>6. /\ rows \in [Node -> [Columns -> Nat]]
      /\ columns \in [Columns -> [Node -> Nat]]
      /\ \A n \in Node, j \in Columns : rows[n][j] = columns[j][n]
  BY <1>2, <1>3
<1> HIDE DEF rows, columns, total, below
<1>7. \A j \in Columns : SumFunction(columns[j]) \in Nat
  <2>1. \A j \in Columns : SumsOf(columns[j], Node)
    BY <1>1, <1>6, SumOver
  <2> QED
    BY <2>1 DEF SumsOf
<1>8. below \in [Columns -> Nat] /\ \A j \in Columns : below[j] = SumFunction(columns[j])
  BY <1>5, <1>7
<1>9. \A n \in Node : total[n] = SumFunction(rows[n])
  BY <1>2, <1>4
<1>10. SumFunction(below) = SumFunction(total)
  <2>1. SumsCommute(Node, Columns)
    BY <1>1, SumOfSums
  <2> QED
    BY <1>4, <1>6, <1>8, <1>9, <2>1 DEF SumsCommute
<1> QED
  BY <1>10 DEF below, total

\* Every key a leader or a member has computed is in the report, in one of its
\* columns, whatever the number of nodes the tables have room for.
THEOREM EveryKeyReportedHolds == MainSpec => []EveryKeyReported
<1>1. MainInit => CountedInv
  BY DEF MainInit, CountedInv
<1>2. CountedInv => EveryKeyReported
  BY ReportAddsUp DEF CountedInv, EveryKeyReported
<1> QED
  BY <1>1, <1>2, MainAlways, CountedPreserved, PTL DEF MainSpec

-----------------------------------------------------------------------------
(* Where nobody moves or relays, keys agree.                               *)

\* n hears m.
Near(m, n) == IG!InRange(loc, m, n)

\* Lists of members: who is listed, with what, and since when.
Lists(list, n) == \E k \in DOMAIN list : list[k].memberId = n

\* The list has n, with this contribution and this nonce.
Knows(list, n, contrib, nonce) ==
    /\ Lists(list, n)
    /\ \A k \in DOMAIN list :
         list[k].memberId = n => /\ list[k].memberContrib = contrib
                                 /\ list[k].memberLastNonce = nonce

Contributed(list, n, contrib) ==
    \A k \in DOMAIN list : list[k].memberId = n => list[k].memberContrib = contrib

HeardSince(list, n, time) ==
    \A k \in DOMAIN list : list[k].memberId = n => list[k].memberLastIREPLYTime >= time

\* What two lists say of n is the same.
SameFor(a, b, n) ==
    /\ \A k \in DOMAIN a : a[k].memberId = n => k \in DOMAIN b /\ b[k].memberId = n
    /\ \A k \in DOMAIN b :
         b[k].memberId = n => /\ k \in DOMAIN a /\ a[k].memberId = n
                              /\ b[k].memberContrib = a[k].memberContrib
                              /\ b[k].memberLastNonce = a[k].memberLastNonce
                              /\ b[k].memberLastIREPLYTime = a[k].memberLastIREPLYTime

\* n is to be handed the IGROUP of l, has been, has a reply to l on its way.
Waiting(n, l) == igroup # None /\ igroup.leaderId = l /\ heard[n] = 0
Served(n, l) == igroup # None /\ igroup.leaderId = l /\ heard[n] > 0
ReplyingTo(n, l) ==
    ireply # None /\ ireply.nodeId = n /\ ireply.leaderId = l /\ IRhanded = 0

\* When y has sent its last IGROUP, if it is a leader.
LastUpdate(y) == nextUpdate[y] - PERIOD_INTERVAL

\* What n has asked for, and whom it has asked.
Requests(n) == ElementsOf(pendingLeaderList[n])
Pends(n, y) == \E p \in Requests(n) : p.pendingLeaderId = y

\* n has not asked y for membership.  It does before its own backoff is over.
Fresh(n, y) ==
    /\ nodeState[n] = "Detached"
    /\ memberList[n] = <<>>
    /\ ~Pends(n, y)
    /\ ~Lists(memberList[y], n)
    /\ ~Served(n, y)
    /\ Waiting(n, y) \/ (isbackoffExists[n] => backoffTime[n] > nextUpdate[y])

\* n has asked y, and y knows the request, or is to.
Request(n, y, p) ==
    /\ IF ReplyingTo(n, y)
       THEN /\ ireply.sessionId = 0
            /\ ireply.nodeContrib = computeBlindedSecret(p.nodeSecret)
            /\ ireply.nodeNonce = p.lastNonce
       ELSE Knows(memberList[y], n, computeBlindedSecret(p.nodeSecret), p.lastNonce)
    /\ p.nodeSecret # nodeSecret[y]
    /\ Waiting(n, y) \/ p.pendingLeaderLastIGROUPTime >= LastUpdate(y)

\* n waits for y to list it.  It may lead a group of its own meanwhile, and it is
\* listed, or its reply is on its way, before y sends again.
Asked(n, y) ==
    /\ nodeState[n] \in {"Detached", "Leader"}
    /\ nodeState[n] = "Detached" => memberList[n] = <<>>
    /\ Pends(n, y)
    /\ \A p \in Requests(n) : p.pendingLeaderId = y => Request(n, y, p)
    /\ IF Waiting(n, y)
       THEN /\ \A p \in Requests(n) : p.pendingLeaderNonce # lastNonce[y]
            /\ HeardSince(memberList[y], n, LastUpdate(y) - PERIOD_INTERVAL)
       ELSE /\ HeardSince(memberList[y], n, LastUpdate(y))
            /\ IF ReplyingTo(n, y) THEN ~Lists(memberList[y], n) ELSE compGroupChange[y]

\* n is in the session of y, and has its nonce and its key.
InStep(n, y) ==
    /\ sessionCurrent[n] = sessionCurrent[y]
    /\ sessionNext[n] = sessionNext[y]
    /\ leaderLastNonce[n] = lastNonce[y]
    /\ key[n] = key[y]

\* n is a member of y.
Confirmed(n, y) ==
    /\ nodeState[n] = "Member"
    /\ leaderId[n] = y
    /\ nodeContrib[n] = computeBlindedSecret(nodeSecret[n])
    /\ nodeSecret[n] # nodeSecret[y]
    /\ Lists(memberList[y], n)
    /\ Contributed(memberList[y], n, nodeContrib[n])
    /\ IF ReplyingTo(n, y) /\ ireply.sessionId = 0
       THEN /\ ireply.nodeContrib = nodeContrib[n]
            /\ ireply.nodeNonce = lastNonce[n]
       ELSE /\ Knows(memberList[y], n, nodeContrib[n], lastNonce[n])
            /\ ~Waiting(n, y) =>
                 HeardSince(memberList[y], n, LastUpdate(y) - PERIOD_INTERVAL)
    /\ IF Waiting(n, y)
       THEN \/ InStep(n, y)
            \/ /\ sessionNext[n] = sessionCurrent[y]
               /\ sessionCurrent[n] # sessionCurrent[y]
       ELSE InStep(n, y) /\ lastIGROUPMsgTime[n] >= LastUpdate(y)

\* What n may be to a leader whose IGROUPs it hears.
InGroupOf(n, y) == Fresh(n, y) \/ Asked(n, y) \/ Confirmed(n, y)

\* What a step must leave alone for n to stay what it is to y: of n, of y, and
\* of the messages between them.
KeepsNode(n) ==
    /\ nodeState'[n] = nodeState[n] /\ isbackoffExists'[n] = isbackoffExists[n]
    /\ backoffTime'[n] = backoffTime[n] /\ lastIGROUPMsgTime'[n] = lastIGROUPMsgTime[n]
    /\ leaderId'[n] = leaderId[n] /\ leaderLastNonce'[n] = leaderLastNonce[n]
    /\ sessionCurrent'[n] = sessionCurrent[n] /\ sessionNext'[n] = sessionNext[n]
    /\ nodeSecret'[n] = nodeSecret[n] /\ nodeContrib'[n] = nodeContrib[n]
    /\ lastNonce'[n] = lastNonce[n] /\ key'[n] = key[n]
    /\ memberList'[n] = memberList[n] /\ compGroupChange'[n] = compGroupChange[n]
    /\ pendingLeaderList'[n] = pendingLeaderList[n]

KeepsFor(y, n) ==
    /\ SameFor(memberList[y], memberList'[y], n)
    /\ nodeSecret'[y] = nodeSecret[y] /\ lastNonce'[y] = lastNonce[y] /\ key'[y] = key[y]
    /\ sessionCurrent'[y] = sessionCurrent[y] /\ sessionNext'[y] = sessionNext[y]
    /\ compGroupChange[y] => compGroupChange'[y]
    /\ nextUpdate'[y] = nextUpdate[y]

KeepsMessages(n, y) ==
    /\ Waiting(n, y)' <=> Waiting(n, y)
    /\ Served(n, y)' <=> Served(n, y)
    /\ ReplyingTo(n, y)' <=> ReplyingTo(n, y)
    /\ ReplyingTo(n, y) => ireply' = ireply

LEMMA SameForSays ==
    ASSUME NEW a, NEW b, NEW n, SameFor(a, b, n)
    PROVE  /\ Lists(b, n) <=> Lists(a, n)
           /\ \A c, x : Knows(b, n, c, x) <=> Knows(a, n, c, x)
           /\ \A c : Contributed(b, n, c) <=> Contributed(a, n, c)
           /\ \A t : HeardSince(b, n, t) <=> HeardSince(a, n, t)
<1>1. Lists(b, n) <=> Lists(a, n)
  BY DEF SameFor, Lists
<1>2. \A c, x : Knows(b, n, c, x) <=> Knows(a, n, c, x)
  BY <1>1 DEF SameFor, Knows
<1>3. \A c : Contributed(b, n, c) <=> Contributed(a, n, c)
  BY DEF SameFor, Contributed
<1>4. \A t : HeardSince(b, n, t) <=> HeardSince(a, n, t)
  BY DEF SameFor, HeardSince
<1> QED
  BY <1>1, <1>2, <1>3, <1>4

LEMMA InGroupKept ==
    ASSUME NEW n \in Node, NEW y \in Node, KeepsNode(n), KeepsFor(y, n), KeepsMessages(n, y),
           InGroupOf(n, y)
    PROVE  InGroupOf(n, y)'
<1>1. /\ Lists(memberList[y], n)' <=> Lists(memberList[y], n)
      /\ \A c, x : Knows(memberList'[y], n, c, x) <=> Knows(memberList[y], n, c, x)
      /\ \A c : Contributed(memberList'[y], n, c) <=> Contributed(memberList[y], n, c)
      /\ \A t : HeardSince(memberList'[y], n, t) <=> HeardSince(memberList[y], n, t)
  BY SameForSays DEF KeepsFor
<1>2. LastUpdate(y)' = LastUpdate(y)
  BY DEF LastUpdate, KeepsFor
<1>3. Requests(n)' = Requests(n)
  BY DEF Requests, KeepsNode
<1>4. Pends(n, y)' <=> Pends(n, y)
  BY <1>3 DEF Pends
<1>5. InStep(n, y)' <=> InStep(n, y)
  BY DEF InStep, KeepsNode, KeepsFor
<1>6. ASSUME Fresh(n, y) PROVE Fresh(n, y)'
  BY <1>1, <1>4, <1>6 DEF Fresh, KeepsNode, KeepsFor, KeepsMessages
<1>7. ASSUME Asked(n, y) PROVE Asked(n, y)'
  <2>1. \A p : Request(n, y, p) => Request(n, y, p)'
    BY <1>1, <1>2 DEF Request, KeepsNode, KeepsFor, KeepsMessages
  <2> QED
    BY <1>1, <1>2, <1>3, <1>4, <1>7, <2>1 DEF Asked, KeepsNode, KeepsFor, KeepsMessages
<1>8. ASSUME Confirmed(n, y) PROVE Confirmed(n, y)'
  BY <1>1, <1>2, <1>5, <1>8 DEF Confirmed, KeepsNode, KeepsFor, KeepsMessages
<1> QED
  BY <1>6, <1>7, <1>8 DEF InGroupOf

-----------------------------------------------------------------------------
(* Whom a step of the protocol does not concern.                           *)

LEMMA UpdateFrame ==
    ASSUME TypeOK, NEW n \in Node, nodePeriodicUpdate(n)
    PROVE  /\ Due(n)
           /\ \A m \in Node \ {n} : /\ KeepsNode(m)
                                    /\ isActive'[m] = isActive[m]
                                    /\ nextUpdate'[m] = nextUpdate[m]
           /\ isActive'[n] /\ nextUpdate'[n] = now + PERIOD_INTERVAL
<1>1. Due(n)
  BY DEF nodePeriodicUpdate, DrawBackoff, DetachFromLeader, IdleUpdate, BecomeLeader,
         LeaderUpdate
<1>2. /\ nodeState' = nodeState \/ \E r : nodeState' = [nodeState EXCEPT ![n] = r]
      /\ \/ isbackoffExists' = isbackoffExists
         \/ \E r : isbackoffExists' = [isbackoffExists EXCEPT ![n] = r]
      /\ backoffTime' = backoffTime \/ \E r : backoffTime' = [backoffTime EXCEPT ![n] = r]
      /\ UNCHANGED <<lastIGROUPMsgTime, leaderId, leaderLastNonce, pendingLeaderList>>
  BY DEF nodePeriodicUpdate, DrawBackoff, DetachFromLeader, IdleUpdate, BecomeLeader,
         LeaderUpdate, roleVars, sessionVars
<1>3. \/ UNCHANGED <<sessionCurrent, sessionNext, secretVars, compGroupChange>>
         /\ (memberList' = memberList \/ \E r : memberList' = [memberList EXCEPT ![n] = r])
      \/ \E list, session, position : Rekey(n, list, session, position)
  BY DEF nodePeriodicUpdate, DrawBackoff, DetachFromLeader, IdleUpdate, BecomeLeader,
         LeaderUpdate, sessionVars, groupVars
<1>4. \A m \in Node \ {n} :
        /\ nodeState'[m] = nodeState[m] /\ isbackoffExists'[m] = isbackoffExists[m]
        /\ backoffTime'[m] = backoffTime[m]
  BY <1>2 DEF TypeOK
<1> DEFINE Same(m) ==
        /\ sessionCurrent'[m] = sessionCurrent[m] /\ sessionNext'[m] = sessionNext[m]
        /\ nodeSecret'[m] = nodeSecret[m] /\ nodeContrib'[m] = nodeContrib[m]
        /\ lastNonce'[m] = lastNonce[m] /\ key'[m] = key[m]
        /\ memberList'[m] = memberList[m] /\ compGroupChange'[m] = compGroupChange[m]
<1>5. \A m \in Node \ {n} : Same(m)
  <2>1. CASE /\ UNCHANGED <<sessionCurrent, sessionNext, secretVars, compGroupChange>>
             /\ memberList' = memberList \/ \E r : memberList' = [memberList EXCEPT ![n] = r]
    BY <2>1 DEF TypeOK, secretVars
  <2>2. ASSUME NEW list, NEW session, NEW position, Rekey(n, list, session, position)
        PROVE  \A m \in Node \ {n} : Same(m)
    BY <2>2 DEF TypeOK, Rekey
  <2> QED
    BY <1>3, <2>1, <2>2
<1>6. \A m \in Node \ {n} : isActive'[m] = isActive[m] /\ nextUpdate'[m] = nextUpdate[m]
  BY <1>1 DEF TypeOK, Due
<1>7. isActive'[n] /\ nextUpdate'[n] = now + PERIOD_INTERVAL
  BY <1>1 DEF TypeOK, Due
<1> QED
  BY <1>1, <1>2, <1>4, <1>5, <1>6, <1>7 DEF KeepsNode

LEMMA HandFrame ==
    ASSUME TypeOK, NEW n \in Node, processIGROUP(n)
    PROVE  /\ Receives(n)
           /\ UNCHANGED <<isActive, nextUpdate, now, compGroupChange>>
           /\ \A m \in Node \ {n} : KeepsNode(m)
<1>1. \/ Receives(n) /\ UNCHANGED <<isActive, nextUpdate, now, compGroupChange>>
      \/ BecomeMember(n)
  BY DEF processIGROUP, AcceptFromLeader, RejectFromLeader, JoinLeader, IgnoreIGROUP,
         ComputeKey, timeVars, groupVars
<1>2. Receives(n) /\ UNCHANGED <<isActive, nextUpdate, now, compGroupChange>>
  BY <1>1 DEF BecomeMember, ComputeKey, timeVars
<1> DEFINE Only(f) == f' = f \/ \E r : f' = [f EXCEPT ![n] = r]
<1>3. /\ Only(nodeState) /\ Only(isbackoffExists) /\ Only(backoffTime) /\ Only(lastIGROUPMsgTime)
      /\ Only(leaderId) /\ Only(leaderLastNonce) /\ Only(sessionCurrent) /\ Only(sessionNext)
      /\ Only(nodeSecret) /\ Only(nodeContrib) /\ Only(lastNonce) /\ Only(key) /\ Only(memberList)
      /\ Only(pendingLeaderList)
  <2>1. CASE AcceptFromLeader(n)
    BY <2>1 DEF AcceptFromLeader, AdoptSession, ComputeKey, roleVars, sessionVars
  <2>2. CASE RejectFromLeader(n)
    BY <2>2 DEF RejectFromLeader, AdoptSession, roleVars, sessionVars, secretVars, groupVars
  <2>3. CASE JoinLeader(n)
    BY <2>3 DEF JoinLeader, roleVars, sessionVars, secretVars, groupVars
  <2>4. CASE BecomeMember(n)
    BY <2>4 DEF BecomeMember, ComputeKey
  <2>5. CASE IgnoreIGROUP(n)
    BY <2>5 DEF IgnoreIGROUP, roleVars, sessionVars, secretVars, groupVars
  <2> QED
    BY <2>1, <2>2, <2>3, <2>4, <2>5 DEF processIGROUP
<1>4. \A m \in Node \ {n} : KeepsNode(m)
  BY <1>2, <1>3 DEF KeepsNode, TypeOK
<1> QED
  BY <1>2, <1>4

LEMMA ReplyFrame ==
    ASSUME TypeOK, NEW n \in Node, processIREPLY(n)
    PROVE  /\ UNCHANGED <<isActive, nextUpdate, now, igroup, ireply, heard, rng, secrets>>
           /\ UNCHANGED <<nodeState, isbackoffExists, backoffTime, lastIGROUPMsgTime,
                          leaderId, leaderLastNonce, sessionCurrent, sessionNext,
                          nodeSecret, nodeContrib, lastNonce, key, pendingLeaderList>>
           /\ \A m \in Node \ {n} : KeepsNode(m)
<1>1. /\ UNCHANGED <<isActive, nextUpdate, now, igroup, ireply, heard, rng, secrets>>
      /\ UNCHANGED <<nodeState, isbackoffExists, backoffTime, lastIGROUPMsgTime,
                     leaderId, leaderLastNonce, sessionCurrent, sessionNext,
                     nodeSecret, nodeContrib, lastNonce, key, pendingLeaderList>>
      /\ \E r : memberList' = [memberList EXCEPT ![n] = r]
      /\ \E r : compGroupChange' = [compGroupChange EXCEPT ![n] = r]
  BY DEF processIREPLY, roleVars, sessionVars, secretVars, randomVars, timeVars, netVars
<1> QED
  BY <1>1 DEF KeepsNode, TypeOK

-----------------------------------------------------------------------------
(* Numbers.                                                                *)

\* Secrets and nonces have been drawn before; leaders announce later sessions.
NumbersOf(n) ==
    /\ lastNonce[n] <= rng /\ sessionNext[n] <= rng /\ nodeSecret[n] <= secrets
    /\ nodeState[n] = "Leader" => sessionCurrent[n] < sessionNext[n]
    /\ \A p \in Requests(n) : /\ p.pendingLeaderNonce <= rng /\ p.lastNonce <= rng
                              /\ p.nodeSecret <= secrets

Numbers == \A n \in Node : NumbersOf(n)

LEMMA RequestTypes ==
    ASSUME TypeOK, NEW n \in Node
    PROVE  /\ pendingLeaderList[n] \in Seq(PendingLeader)
           /\ \A p \in Requests(n) : p \in PendingLeader
<1>1. pendingLeaderList[n] \in Seq(PendingLeader)
  BY DEF TypeOK
<1> QED
  BY <1>1, ElementsOfLists DEF Requests

LEMMA PendingFields ==
    ASSUME NEW p \in PendingLeader
    PROVE  /\ p.pendingLeaderId \in Node /\ p.pendingLeaderNonce \in Nat
           /\ p.lastNonce \in Nat /\ p.nodeSecret \in Nat
           /\ p.pendingLeaderLastIGROUPTime \in Nat /\ p.pendingSessionNext \in Nat
  BY DEF PendingLeader

\* A node that becomes a member forgets one request.
LEMMA RequestsLeft ==
    ASSUME NEW S, NEW list \in Seq(S), NEW k \in DOMAIN list
    PROVE  /\ SubSeq(list, 1, k-1) \o SubSeq(list, k+1, Len(list)) \in Seq(S)
           /\ ElementsOf(SubSeq(list, 1, k-1) \o SubSeq(list, k+1, Len(list)))
                \subseteq ElementsOf(list)
<1> DEFINE a == SubSeq(list, 1, k-1)
           b == SubSeq(list, k+1, Len(list))
           r == a \o b
<1>1. k \in 1..Len(list) /\ Len(list) \in Nat
  BY LenProperties
<1>2. /\ a \in Seq(S) /\ Len(a) = k-1
      /\ \A j \in 1..Len(a) : a[j] = list[j]
  BY <1>1, SubSeqProperties
<1>3. /\ b \in Seq(S) /\ Len(b) = Len(list) - k
      /\ \A j \in 1..Len(b) : b[j] = list[k+j]
  BY <1>1, SubSeqProperties
<1> HIDE DEF a, b
<1>4. /\ r \in Seq(S) /\ Len(r) = Len(a) + Len(b)
      /\ \A j \in 1..Len(a) + Len(b) : r[j] = IF j <= Len(a) THEN a[j] ELSE b[j - Len(a)]
  BY <1>2, <1>3, ConcatProperties
<1> HIDE DEF r
<1>5. \A j \in 1..Len(r) : \E h \in 1..Len(list) : r[j] = list[h]
  <2>1. \A j \in 1..Len(r) : r[j] = IF j <= k-1 THEN a[j] ELSE b[j - (k-1)]
    BY <1>2, <1>4
  <2>2. Len(r) = Len(list) - 1
    BY <1>1, <1>2, <1>3, <1>4
  <2> SUFFICES ASSUME NEW j \in 1..Len(r) PROVE \E h \in 1..Len(list) : r[j] = list[h]
    OBVIOUS
  <2>3. CASE j <= k-1
    <3>1. j \in 1..Len(a) /\ j \in 1..Len(list)
      BY <1>1, <1>2, <2>2, <2>3
    <3> QED
      BY <1>2, <2>1, <2>3, <3>1
  <2>4. CASE ~(j <= k-1)
    <3>1. /\ j - (k-1) \in 1..Len(b) /\ j + 1 \in 1..Len(list)
          /\ k + (j - (k-1)) = j + 1
      BY <1>1, <1>3, <2>2, <2>4
    <3>2. r[j] = list[j + 1]
      BY <1>3, <2>1, <2>4, <3>1
    <3> QED
      BY <3>1, <3>2
  <2> QED
    BY <2>3, <2>4
<1>6. r \in Seq(S) /\ ElementsOf(r) \subseteq ElementsOf(list)
  BY <1>4, <1>5 DEF ElementsOf
<1> QED
  BY <1>6 DEF r, a, b

\* A node that asks for membership keeps the requests that are not too old.
LEMMA RequestsSwept ==
    ASSUME NEW S, NEW list \in Seq(S), NEW old, NEW r \in Swept(list, old), NEW e \in S
    PROVE  /\ Append(r, e) \in Seq(S)
           /\ e \in ElementsOf(Append(r, e))
           /\ ElementsOf(Append(r, e)) \subseteq ElementsOf(list) \cup {e}
           /\ \A k \in DOMAIN list : k \notin old => list[k] \in ElementsOf(Append(r, e))
<1>1. /\ r \in Seq(S)
      /\ \A k \in DOMAIN r : \E h \in DOMAIN list : r[k] = list[h]
  <2>1. PICK f \in [DOMAIN r -> DOMAIN list] : \A k \in DOMAIN r : r[k] = list[f[k]]
    BY SweptIsSubsequence
  <2> QED
    BY <2>1, SweptIsSubsequence
<1>2. ElementsOf(Append(r, e)) = ElementsOf(r) \cup {e}
  BY <1>1, ElementsOfLists
<1>3. DOMAIN r = 1..Len(r) /\ DOMAIN list = 1..Len(list) /\ Len(list) \in Nat
  BY <1>1, LenProperties
<1>4. ElementsOf(r) \subseteq ElementsOf(list)
  BY <1>1, <1>3 DEF ElementsOf
<1>5. ASSUME NEW k \in DOMAIN list, k \notin old
      PROVE  list[k] \in ElementsOf(r)
  <2> DEFINE kept == (1..Len(list)) \ ErasedAt(old)
  <2>1. PICK f : /\ Increasing(f, kept)
                 /\ r = [h \in 1..Cardinality(kept) |-> list[f[h]]]
    BY DEF Swept
  <2>2. k \in kept
    BY <1>3, <1>5 DEF ErasedAt
  <2>3. IsFiniteSet(kept) /\ kept \subseteq Int
    <3>1. IsFiniteSet(1..Len(list))
      BY <1>3, FS_Interval
    <3>2. IsFiniteSet(kept)
      BY <3>1, FS_Subset
    <3> QED
      BY <3>2
  <2> HIDE DEF kept
  <2>4. f \in Surjection(1..Cardinality(kept), kept)
    BY <2>1, <2>3, IncreasingEnumerates
  <2>5. PICK h \in 1..Cardinality(kept) : f[h] = k
    BY <2>2, <2>4 DEF Surjection
  <2>6. h \in DOMAIN r /\ r[h] = list[k]
    BY <2>1, <2>5
  <2> QED
    BY <1>3, <2>6 DEF ElementsOf
<1> QED
  BY <1>1, <1>2, <1>4, <1>5, AppendProperties

LEMMA NumbersKept ==
    ASSUME TypeOK, TypeOK', NEW n \in Node, KeepsNode(n), rng <= rng', secrets <= secrets',
           NumbersOf(n)
    PROVE  NumbersOf(n)'
<1>1. Requests(n)' = Requests(n)
  BY DEF Requests, KeepsNode
<1>2. \A p \in Requests(n) : p.pendingLeaderNonce \in Nat /\ p.lastNonce \in Nat /\ p.nodeSecret \in Nat
  BY RequestTypes, PendingFields
<1>3. /\ rng \in Nat /\ rng' \in Nat /\ secrets \in Nat /\ secrets' \in Nat
      /\ lastNonce[n] \in Nat /\ sessionNext[n] \in Nat /\ nodeSecret[n] \in Nat
  BY DEF TypeOK
<1>4. \A p \in Requests(n) : /\ p.pendingLeaderNonce <= rng' /\ p.lastNonce <= rng'
                             /\ p.nodeSecret <= secrets'
  BY <1>2, <1>3 DEF NumbersOf
<1> QED
  BY <1>1, <1>3, <1>4 DEF NumbersOf, KeepsNode

LEMMA RekeyNumbers ==
    ASSUME TypeOK, TypeOK', NEW n \in Node, NumbersOf(n), NEW list, NEW session \in Nat,
           NEW position \in Nat, Rekey(n, list, session, position),
           pendingLeaderList' = pendingLeaderList, rng <= position, session <= position
    PROVE  NumbersOf(n)' /\ rng <= rng' /\ secrets <= secrets'
<1>1. /\ nodeSecret'[n] = secrets + 1 /\ secrets' = secrets + 1
      /\ lastNonce'[n] = position + 1 /\ sessionCurrent'[n] = session
      /\ sessionNext'[n] = position + 22 /\ rng' = position + 42
  BY DEF TypeOK, Rekey, DrawnAt, DrawLength
<1>2. rng \in Nat /\ secrets \in Nat
  BY DEF TypeOK
<1>3. Requests(n)' = Requests(n)
  BY DEF Requests
<1>4. \A p \in Requests(n) : p.pendingLeaderNonce \in Nat /\ p.lastNonce \in Nat /\ p.nodeSecret \in Nat
  BY RequestTypes, PendingFields
<1>5. rng <= rng' /\ secrets <= secrets'
  BY <1>1, <1>2
<1>6. \A p \in Requests(n) : /\ p.pendingLeaderNonce <= rng' /\ p.lastNonce <= rng'
                             /\ p.nodeSecret <= secrets'
  <2>1. rng' \in Nat /\ secrets' \in Nat
    BY DEF TypeOK
  <2> QED
    BY <1>2, <1>4, <1>5, <2>1 DEF NumbersOf
<1>7. /\ lastNonce'[n] <= rng' /\ sessionNext'[n] <= rng' /\ nodeSecret'[n] <= secrets'
      /\ sessionCurrent'[n] < sessionNext'[n]
  BY <1>1, <1>2
<1> QED
  BY <1>3, <1>5, <1>6, <1>7 DEF NumbersOf

\* An update of a leader draws numbers or leaves them.
LEMMA UpdateNumbers ==
    ASSUME TypeOK, TypeOK', NEW n \in Node, NumbersOf(n), nodePeriodicUpdate(n)
    PROVE  NumbersOf(n)' /\ rng <= rng' /\ secrets <= secrets'
<1>1. /\ rng \in Nat /\ secrets \in Nat /\ sessionNext[n] \in Nat /\ lastNonce[n] \in Nat
      /\ nodeSecret[n] \in Nat /\ rng' \in Nat /\ secrets' \in Nat
  BY DEF TypeOK
<1>2. CASE BecomeLeader(n)
  <2>1. /\ Rekey(n, <<>>, DrawnAt(rng), rng + DrawLength)
        /\ pendingLeaderList' = pendingLeaderList
    BY <1>2 DEF BecomeLeader
  <2>2. /\ DrawnAt(rng) \in Nat /\ rng + DrawLength \in Nat /\ rng <= rng + DrawLength
        /\ DrawnAt(rng) <= rng + DrawLength
    BY <1>1 DEF DrawnAt, DrawLength
  <2> QED
    BY <2>1, <2>2, RekeyNumbers
<1>3. CASE LeaderUpdate(n)
  <2>1. \/ \E list : Rekey(n, list, sessionNext[n], rng)
        \/ UNCHANGED <<secretVars, compGroupChange, sessionCurrent, sessionNext, randomVars>>
    BY <1>3 DEF LeaderUpdate
  <2>2. pendingLeaderList' = pendingLeaderList /\ nodeState' = nodeState
    BY <1>3 DEF LeaderUpdate, roleVars
  <2>3. ASSUME NEW list, Rekey(n, list, sessionNext[n], rng)
        PROVE  NumbersOf(n)' /\ rng <= rng' /\ secrets <= secrets'
    <3>1. sessionNext[n] <= rng /\ rng <= rng
      BY <1>1 DEF NumbersOf
    <3> QED
      BY <1>1, <2>2, <2>3, <3>1, RekeyNumbers
  <2>4. CASE UNCHANGED <<secretVars, compGroupChange, sessionCurrent, sessionNext, randomVars>>
    <3>1. Requests(n)' = Requests(n)
      BY <2>2 DEF Requests
    <3> QED
      BY <1>1, <2>2, <2>4, <3>1 DEF NumbersOf, secretVars, randomVars
  <2> QED
    BY <2>1, <2>3, <2>4
<1>4. CASE DrawBackoff(n) \/ DetachFromLeader(n) \/ IdleUpdate(n)
  <2>1. /\ UNCHANGED <<lastNonce, sessionNext, nodeSecret, sessionCurrent, secrets,
                       pendingLeaderList>>
        /\ rng' \in {rng, rng + 1}
        /\ nodeState'[n] = "Leader" => nodeState[n] = "Leader"
    BY <1>4 DEF DrawBackoff, DetachFromLeader, IdleUpdate, roleVars, secretVars, sessionVars,
                randomVars, TypeOK
  <2>2. Requests(n)' = Requests(n) /\ rng <= rng' /\ secrets <= secrets'
    BY <1>1, <2>1 DEF Requests
  <2>3. \A p \in Requests(n) : p.pendingLeaderNonce \in Nat /\ p.lastNonce \in Nat
    BY RequestTypes, PendingFields
  <2>4. \A p \in Requests(n) : p.pendingLeaderNonce <= rng' /\ p.lastNonce <= rng'
    BY <1>1, <2>2, <2>3 DEF NumbersOf
  <2>5. lastNonce[n] <= rng' /\ sessionNext[n] <= rng'
    BY <1>1, <2>2 DEF NumbersOf
  <2> QED
    BY <2>1, <2>2, <2>4, <2>5 DEF NumbersOf
<1> QED
  BY <1>2, <1>3, <1>4 DEF nodePeriodicUpdate

LEMMA HandNumbers ==
    ASSUME TypeOK, TypeOK', LeaderSends, Numbers, NEW n \in Node, processIGROUP(n)
    PROVE  NumbersOf(n)' /\ rng <= rng' /\ secrets <= secrets'
<1> DEFINE l == igroup.leaderId
<1>1. /\ rng \in Nat /\ secrets \in Nat /\ sessionNext[n] \in Nat /\ lastNonce[n] \in Nat
      /\ nodeSecret[n] \in Nat
  BY DEF TypeOK
<1>2. /\ igroup.sessionNext \in Nat /\ igroup.leaderLastNonce \in Nat
      /\ igroup.sessionNext <= rng /\ igroup.leaderLastNonce <= rng
  <2>1. igroup # None
    BY HandFrame DEF Receives
  <2>2. l \in Node /\ igroup.sessionNext = sessionNext[l] /\ igroup.leaderLastNonce = lastNonce[l]
    BY <2>1 DEF LeaderSends, Leaders
  <2>3. sessionNext[l] \in Nat /\ lastNonce[l] \in Nat
    BY <2>2 DEF TypeOK
  <2> QED
    BY <2>2, <2>3 DEF Numbers, NumbersOf
<1> HIDE DEF l
<1>3. /\ lastNonce[n] <= rng /\ sessionNext[n] <= rng /\ nodeSecret[n] <= secrets
      /\ nodeState[n] = "Leader" => sessionCurrent[n] < sessionNext[n]
      /\ \A p \in Requests(n) : /\ p.pendingLeaderNonce <= rng /\ p.lastNonce <= rng
                                /\ p.nodeSecret <= secrets
  BY DEF Numbers, NumbersOf
<1>4. \A p \in Requests(n) : p.pendingLeaderNonce \in Nat /\ p.lastNonce \in Nat /\ p.nodeSecret \in Nat
  BY RequestTypes, PendingFields
<1>5. ASSUME rng' \in Nat, secrets' \in Nat, rng <= rng', secrets <= secrets',
             Requests(n)' \subseteq Requests(n)
      PROVE  \A p \in Requests(n)' : /\ p.pendingLeaderNonce <= rng' /\ p.lastNonce <= rng'
                                     /\ p.nodeSecret <= secrets'
  BY <1>1, <1>3, <1>4, <1>5
<1>6. CASE AcceptFromLeader(n)
  <2>1. /\ rng' = rng + 21 /\ lastNonce'[n] = rng + 1 /\ pendingLeaderList' = pendingLeaderList
        /\ nodeState'[n] = "Member"
        /\ sessionNext'[n] \in {sessionNext[n], igroup.sessionNext}
        /\ \/ secrets' = secrets /\ nodeSecret' = nodeSecret
           \/ secrets' = secrets + 1 /\ nodeSecret'[n] = secrets + 1
    <3>1. /\ lastNonce \in [Node -> Nat] /\ sessionNext \in [Node -> Nat]
          /\ nodeSecret \in [Node -> Nat]
      BY DEF TypeOK
    <3>2. /\ rng' = rng + 21 /\ pendingLeaderList' = pendingLeaderList
          /\ nodeState' = nodeState /\ nodeState[n] = "Member"
          /\ lastNonce' = [lastNonce EXCEPT ![n] = rng + 1]
      BY <1>6 DEF AcceptFromLeader, DrawnAt, DrawLength, FromMyLeader, roleVars
    <3>3. \/ sessionNext' = sessionNext
          \/ sessionNext' = [sessionNext EXCEPT ![n] = igroup.sessionNext]
      BY <1>6 DEF AcceptFromLeader, AdoptSession, sessionVars
    <3>4. \/ secrets' = secrets /\ nodeSecret' = nodeSecret
          \/ secrets' = secrets + 1 /\ nodeSecret' = [nodeSecret EXCEPT ![n] = secrets + 1]
      BY <1>6 DEF AcceptFromLeader
    <3> QED
      BY <3>1, <3>2, <3>3, <3>4
  <2>2. Requests(n)' = Requests(n)
    BY <2>1 DEF Requests
  <2>3. rng' \in Nat /\ secrets' \in Nat /\ rng <= rng' /\ secrets <= secrets'
    BY <1>1, <2>1
  <2>4. lastNonce'[n] <= rng' /\ sessionNext'[n] <= rng' /\ nodeSecret'[n] <= secrets'
    BY <1>1, <1>2, <1>3, <2>1
  <2> QED
    BY <1>5, <2>1, <2>2, <2>3, <2>4 DEF NumbersOf
<1>7. CASE RejectFromLeader(n)
  <2>1. /\ UNCHANGED <<rng, secrets, lastNonce, nodeSecret, pendingLeaderList>>
        /\ nodeState'[n] = "Member"
        /\ sessionNext'[n] = igroup.sessionNext
    BY <1>7 DEF RejectFromLeader, AdoptSession, FromMyLeader, roleVars, secretVars, randomVars,
                TypeOK
  <2>2. Requests(n)' = Requests(n)
    BY <2>1 DEF Requests
  <2> QED
    BY <1>1, <1>2, <1>3, <2>1, <2>2 DEF NumbersOf
<1>8. CASE JoinLeader(n)
  <2> DEFINE new == pendingLeader(igroup.leaderId, igroup.leaderLastNonce,
                                  igroup.sessionCurrent, DrawnAt(rng), secrets + 1, now)
  <2>1. /\ rng' = rng + 21 /\ secrets' = secrets + 1
        /\ UNCHANGED <<lastNonce, nodeSecret, nodeState, sessionCurrent, sessionNext>>
        /\ \E old : \E list \in Swept(pendingLeaderList[n], old) :
             pendingLeaderList'[n] = Append(list, new)
    <3>1. /\ rng' = rng + 21 /\ secrets' = secrets + 1
          /\ UNCHANGED <<lastNonce, nodeSecret, nodeState, sessionCurrent, sessionNext>>
      BY <1>8 DEF JoinLeader, DrawLength, roleVars, sessionVars, secretVars
    <3>2. \E old : \E list \in Swept(pendingLeaderList[n], old) :
            pendingLeaderList' = [pendingLeaderList EXCEPT ![n] = Append(list, new)]
      BY <1>8, Zenon DEF JoinLeader
    <3>3. DOMAIN pendingLeaderList = Node
      BY DEF TypeOK
    <3> QED
      BY <3>1, <3>2, <3>3
  <2>2. /\ new.pendingLeaderNonce = igroup.leaderLastNonce /\ new.lastNonce = rng + 1
        /\ new.nodeSecret = secrets + 1
    BY DEF pendingLeader, DrawnAt
  <2> HIDE DEF new
  <2>3. Requests(n)' \subseteq Requests(n) \cup {new}
    <3>1. PICK old : \E list \in Swept(pendingLeaderList[n], old) :
             pendingLeaderList'[n] = Append(list, new)
      BY <2>1
    <3>2. PICK list \in Swept(pendingLeaderList[n], old) :
             pendingLeaderList'[n] = Append(list, new)
      BY <3>1
    <3>3. pendingLeaderList[n] \in Seq(PendingLeader \cup {new})
      BY RequestTypes, SeqMonotonic
    <3>4. new \in PendingLeader \cup {new}
      OBVIOUS
    <3> QED
      BY <3>2, <3>3, <3>4, RequestsSwept DEF Requests
  <2>4. rng' \in Nat /\ secrets' \in Nat /\ rng <= rng' /\ secrets <= secrets'
    BY <1>1, <2>1
  <2>5. \A p \in Requests(n) : /\ p.pendingLeaderNonce <= rng' /\ p.lastNonce <= rng'
                               /\ p.nodeSecret <= secrets'
    BY <1>1, <1>3, <1>4, <2>4
  <2>6. /\ new.pendingLeaderNonce <= rng' /\ new.lastNonce <= rng'
        /\ new.nodeSecret <= secrets'
    BY <1>1, <1>2, <2>1, <2>2
  <2>7. lastNonce'[n] <= rng' /\ sessionNext'[n] <= rng' /\ nodeSecret'[n] <= secrets'
    BY <1>1, <1>3, <2>1
  <2> QED
    BY <1>3, <2>1, <2>3, <2>4, <2>5, <2>6, <2>7 DEF NumbersOf
<1>9. CASE BecomeMember(n)
  <2>1. PICK k \in PendingWith(n, l) :
          /\ pendingLeaderList' = [pendingLeaderList EXCEPT ![n] =
                SubSeq(@, 1, k-1) \o SubSeq(@, k+1, Len(@))]
          /\ lastNonce' = [lastNonce EXCEPT ![n] = pendingLeaderList[n][k].lastNonce]
          /\ nodeSecret' = [nodeSecret EXCEPT ![n] = pendingLeaderList[n][k].nodeSecret]
    BY <1>9 DEF BecomeMember, l
  <2>2. /\ UNCHANGED <<rng, secrets>>
        /\ nodeState'[n] = "Member"
        /\ sessionNext'[n] = igroup.sessionNext
    BY <1>9 DEF BecomeMember, randomVars, TypeOK
  <2>3. k \in DOMAIN pendingLeaderList[n] /\ pendingLeaderList[n] \in Seq(PendingLeader)
    BY RequestTypes DEF PendingWith
  <2>4. pendingLeaderList[n][k] \in Requests(n)
    BY <2>3, LenProperties DEF Requests, ElementsOf
  <2>5. Requests(n)' \subseteq Requests(n)
    <3>1. pendingLeaderList'[n] = SubSeq(pendingLeaderList[n], 1, k-1)
                                    \o SubSeq(pendingLeaderList[n], k+1, Len(pendingLeaderList[n]))
      BY <2>1 DEF TypeOK
    <3> QED
      BY <2>3, <3>1, RequestsLeft DEF Requests
  <2>6. /\ lastNonce'[n] = pendingLeaderList[n][k].lastNonce
        /\ nodeSecret'[n] = pendingLeaderList[n][k].nodeSecret
    BY <2>1 DEF TypeOK
  <2>7. lastNonce'[n] <= rng /\ nodeSecret'[n] <= secrets
    BY <1>3, <2>4, <2>6
  <2>8. \A p \in Requests(n)' : /\ p.pendingLeaderNonce <= rng /\ p.lastNonce <= rng
                                /\ p.nodeSecret <= secrets
    BY <1>3, <2>5
  <2> QED
    BY <1>1, <1>2, <2>2, <2>7, <2>8 DEF NumbersOf
<1>10. CASE IgnoreIGROUP(n)
  <2>1. UNCHANGED <<rng, secrets, lastNonce, nodeSecret, nodeState, sessionCurrent, sessionNext,
                    pendingLeaderList>>
    BY <1>10 DEF IgnoreIGROUP, randomVars, secretVars, roleVars, sessionVars
  <2>2. Requests(n)' = Requests(n)
    BY <2>1 DEF Requests
  <2> QED
    BY <1>1, <1>3, <2>1, <2>2 DEF NumbersOf
<1> QED
  BY <1>6, <1>7, <1>8, <1>9, <1>10 DEF processIGROUP

-----------------------------------------------------------------------------
(* What a step of the simulation is to the protocol.                       *)

\* The first of the nodes left is handed the IGROUP.
Handed == Head(IGtodo)

\* The steps that change nothing of the protocol.
Elsewhere == UNCHANGED <<vars, IRhanded>>

\* The leader of the IREPLY in flight is handed it.
LeaderHears ==
    /\ ireply # None
    /\ processIREPLY(ireply.leaderId) \/ (~Accepts(ireply.leaderId) /\ UNCHANGED vars)
    /\ IRhanded' = IRhanded + 1

LEMMA StepKinds ==
    ASSUME SimTypes, [SimNext]_simVars
    PROVE  \/ \E n \in Node : SilentUpdate(n)
           \/ \E n \in Node : LeaderSendsIGROUP(n)
           \/ /\ Handed \in Node /\ processIGROUP(Handed) /\ ireply = None
              /\ ireply' # None => IRhanded' = 0
           \/ Elsewhere
           \/ EndIGROUP /\ (~IGdirect \/ IGtodo = <<>>)
           \/ EndIREPLY /\ (~IRdirect \/ IRtodo = <<>>)
           \/ LeaderHears
           \/ PassTime
<1>1. CASE HandIGROUP
  <2>1. IGtodo \in Seq(Node) /\ IGtodo # <<>>
    BY <1>1 DEF SimTypes, IGFlood!TypeOK, HandIGROUP
  <2>2. Handed \in Node
    BY <2>1 DEF Handed
  <2>3. processIGROUP(Handed) /\ ireply = None /\ RepliesIfAsked(Handed)
    BY <1>1 DEF HandIGROUP, Handed
  <2>4. ireply' # None => IRhanded' = 0
    BY <2>3 DEF RepliesIfAsked, IR!evIREPLY
  <2> QED
    BY <2>2, <2>3, <2>4
<1>2. CASE SkipIGROUP
  BY <1>2 DEF SkipIGROUP, IRvars, Elsewhere
<1>3. CASE RelayIGROUP
  <2>1. UNCHANGED IRhanded
    BY <1>3 DEF RelayIGROUP, IRvars
  <2>2. CASE UNCHANGED vars
    BY <2>1, <2>2 DEF Elsewhere
  <2>3. CASE EndIGROUP
    <3>1. IG!EndDirect \/ IG!Relay \/ IG!EndRound
      BY <1>3 DEF RelayIGROUP
    <3>2. ~IGdirect \/ IGtodo = <<>>
      BY <3>1 DEF IG!EndDirect, IG!Relay, IG!EndRound, IG!RoundOver
    <3> QED
      BY <2>3, <3>2
  <2> QED
    BY <1>3, <2>2, <2>3 DEF RelayIGROUP
<1>4. CASE HandIREPLY
  <2> DEFINE m == Head(IRtodo)
  <2>1. /\ ireply # None
        /\ \/ m = ireply.leaderId /\ processIREPLY(m)
           \/ m = ireply.leaderId /\ ~Accepts(m) /\ UNCHANGED vars
           \/ m # ireply.leaderId /\ UNCHANGED vars
    BY <1>4 DEF HandIREPLY
  <2>2. IRhanded' = IF m = ireply.leaderId THEN IRhanded + 1 ELSE IRhanded
    BY <1>4, <2>1 DEF HandIREPLY, IR!HandOrRelay, IRMessage
  <2> HIDE DEF m
  <2> QED
    BY <2>1, <2>2 DEF LeaderHears, Elsewhere
<1>5. CASE RelayIREPLY
  <2>1. /\ ireply # None /\ IRMessage # None
        /\ IR!EndDirect \/ IR!Relay \/ IR!EndRound
    BY <1>5 DEF RelayIREPLY, IR!EndDirect, IR!Relay, IR!EndRound, IR!RoundOver
  <2>2. CASE UNCHANGED vars
    <3>1. IRMessage' = IRMessage
      BY <2>2 DEF vars, netVars, IRMessage
    <3>2. IRhanded' = IRhanded
      BY <2>1, <3>1 DEF IR!EndDirect, IR!Relay, IR!EndRound, IR!Round
    <3> QED
      BY <2>2, <3>2 DEF Elsewhere
  <2>3. CASE EndIREPLY
    <3>1. ~IRdirect \/ IRtodo = <<>>
      BY <2>1 DEF IR!EndDirect, IR!Relay, IR!EndRound, IR!RoundOver
    <3> QED
      BY <2>3, <3>1
  <2> QED
    BY <1>5, <2>2, <2>3 DEF RelayIREPLY
<1>6. CASE PassTimeTogether
  BY <1>6 DEF PassTimeTogether
<1>7. ASSUME NEW n \in Node, MoveNode(n) PROVE Elsewhere
  BY <1>7 DEF MoveNode, IRvars, Elsewhere
<1>8. CASE UNCHANGED simVars
  BY <1>8 DEF simVars, IRvars, Elsewhere
<1> QED
  BY <1>1, <1>2, <1>3, <1>4, <1>5, <1>6, <1>7, <1>8 DEF SimNext

LEMMA NumbersPreserved ==
    ASSUME SimTypes, SimTypes', LeaderSends, Numbers, [SimNext]_simVars
    PROVE  Numbers'
<1> USE DEF SimTypes
<1>0. rng \in Nat /\ secrets \in Nat /\ TypeOK /\ TypeOK'
  BY DEF TypeOK
<1>1. ASSUME NEW n \in Node, nodePeriodicUpdate(n) PROVE Numbers'
  <2>1. NumbersOf(n)' /\ rng <= rng' /\ secrets <= secrets'
    BY <1>0, <1>1, UpdateNumbers DEF Numbers
  <2>2. \A m \in Node \ {n} : KeepsNode(m)
    BY <1>0, <1>1, UpdateFrame
  <2>3. \A m \in Node \ {n} : NumbersOf(m)'
    BY <1>0, <2>1, <2>2, NumbersKept DEF Numbers
  <2> QED
    BY <2>1, <2>3 DEF Numbers
<1>2. ASSUME NEW n \in Node, processIGROUP(n) PROVE Numbers'
  <2>1. NumbersOf(n)' /\ rng <= rng' /\ secrets <= secrets'
    BY <1>0, <1>2, HandNumbers
  <2>2. \A m \in Node \ {n} : KeepsNode(m)
    BY <1>0, <1>2, HandFrame
  <2>3. \A m \in Node \ {n} : NumbersOf(m)'
    BY <1>0, <2>1, <2>2, NumbersKept DEF Numbers
  <2> QED
    BY <2>1, <2>3 DEF Numbers
<1>3. ASSUME UNCHANGED <<lastNonce, sessionNext, nodeSecret, nodeState, sessionCurrent,
                         pendingLeaderList, rng, secrets>>
      PROVE  Numbers'
  BY <1>3 DEF Numbers, NumbersOf, Requests
<1>4. CASE LeaderHears
  <2>1. ireply.leaderId \in Node
    BY <1>0, <1>4 DEF LeaderHears, TypeOK, IREPLYMessage
  <2>2. CASE processIREPLY(ireply.leaderId)
    BY <1>0, <1>3, <2>1, <2>2, ReplyFrame
  <2>3. CASE UNCHANGED vars
    BY <1>3, <2>3 DEF vars, secretVars, sessionVars, roleVars, randomVars
  <2> QED
    BY <1>4, <2>2, <2>3 DEF LeaderHears
<1>5. CASE Elsewhere
  BY <1>3, <1>5 DEF Elsewhere, vars, secretVars, sessionVars, roleVars, randomVars
<1>6. CASE EndIGROUP \/ EndIREPLY \/ PassTime
  BY <1>3, <1>6 DEF EndIGROUP, EndIREPLY, PassTime, StateVars, secretVars, sessionVars, roleVars,
                    randomVars
<1>7. ASSUME NEW n \in Node, SilentUpdate(n) \/ LeaderSendsIGROUP(n) PROVE nodePeriodicUpdate(n)
  BY <1>7 DEF SilentUpdate, LeaderSendsIGROUP, nodePeriodicUpdate
<1> QED
  BY <1>1, <1>2, <1>4, <1>5, <1>6, <1>7, StepKinds

-----------------------------------------------------------------------------
(* The clock.                                                              *)

\* No update is missed, and an active node has one within a period.
Clock ==
    /\ now <= simulationTime => \A n \in Node : now <= nextUpdate[n]
    /\ \A n \in Node : isActive[n] => nextUpdate[n] <= now + PERIOD_INTERVAL

\* No two nodes ever update at the same time.
Apart ==
    \A m, n \in Node : m # n =>
        \A k \in Int : nextUpdate[m] # nextUpdate[n] + k * PERIOD_INTERVAL

\* An update, the passing of time, or neither.
LEMMA ClockSteps ==
    ASSUME SimTypes, [SimNext]_simVars
    PROVE  \/ \E n \in Node : /\ Due(n)
                              /\ \A m \in Node \ {n} : /\ isActive'[m] = isActive[m]
                                                       /\ nextUpdate'[m] = nextUpdate[m]
                              /\ isActive'[n] /\ nextUpdate'[n] = now + PERIOD_INTERVAL
           \/ PassTime
           \/ UNCHANGED timeVars
<1>1. ASSUME NEW n \in Node, SilentUpdate(n) \/ LeaderSendsIGROUP(n) PROVE nodePeriodicUpdate(n)
  BY <1>1 DEF SilentUpdate, LeaderSendsIGROUP, nodePeriodicUpdate
<1>2. ASSUME NEW n \in Node, processIGROUP(n) PROVE UNCHANGED timeVars
  BY <1>2, HandFrame DEF SimTypes, timeVars
<1>3. CASE LeaderHears
  <2>1. ireply.leaderId \in Node
    BY <1>3 DEF LeaderHears, SimTypes, TypeOK, IREPLYMessage
  <2> QED
    BY <1>3, <2>1, ReplyFrame DEF LeaderHears, SimTypes, timeVars, vars
<1>4. ASSUME Elsewhere \/ EndIGROUP \/ EndIREPLY PROVE UNCHANGED timeVars
  BY <1>4 DEF Elsewhere, EndIGROUP, EndIREPLY, vars
<1>5. ASSUME NEW n \in Node, nodePeriodicUpdate(n)
      PROVE  /\ Due(n)
             /\ \A m \in Node \ {n} : /\ isActive'[m] = isActive[m]
                                      /\ nextUpdate'[m] = nextUpdate[m]
             /\ isActive'[n] /\ nextUpdate'[n] = now + PERIOD_INTERVAL
  BY <1>5, UpdateFrame DEF SimTypes
<1> QED
  BY <1>1, <1>2, <1>3, <1>4, <1>5, StepKinds

LEMMA ClockPreserved ==
    ASSUME SimTypes, SimTypes', Clock, [SimNext]_simVars
    PROVE  Clock'
<1>1. /\ now \in Nat /\ now' \in Nat /\ simulationTime \in Nat /\ PERIOD_INTERVAL \in Nat
      /\ nextUpdate \in [Node -> Nat]
  BY TimeAssumption DEF SimTypes, TypeOK
<1>2. CASE UNCHANGED timeVars
  BY <1>2 DEF Clock, timeVars
<1>3. ASSUME NEW n \in Node, Due(n),
             \A m \in Node \ {n} : /\ isActive'[m] = isActive[m]
                                   /\ nextUpdate'[m] = nextUpdate[m],
             nextUpdate'[n] = now + PERIOD_INTERVAL
      PROVE  Clock'
  <2>1. now' = now
    BY <1>3 DEF Due
  <2>2. \A m \in Node : nextUpdate[m] \in Nat
    BY <1>1
  <2> QED
    BY <1>1, <1>3, <2>1, <2>2 DEF Clock
<1>4. CASE PassTime
  <2>1. /\ UNCHANGED <<isActive, nextUpdate>>
        /\ \A n \in Node : nextUpdate[n] = now => now > simulationTime
        /\ now' > now
        /\ \A m \in Node : nextUpdate[m] > now => now' <= nextUpdate[m]
    BY <1>4 DEF PassTime
  <2>2. \A m \in Node : nextUpdate[m] \in Nat
    BY <1>1
  <2>3. ASSUME now' <= simulationTime, NEW m \in Node PROVE now' <= nextUpdate[m]
    BY <1>1, <2>1, <2>2, <2>3 DEF Clock
  <2>4. ASSUME NEW m \in Node, isActive[m] PROVE nextUpdate[m] <= now' + PERIOD_INTERVAL
    BY <1>1, <2>1, <2>2, <2>4 DEF Clock
  <2> QED
    BY <2>1, <2>3, <2>4 DEF Clock
<1> QED
  BY <1>2, <1>3, <1>4, ClockSteps

LEMMA ApartPreserved ==
    ASSUME SimTypes, Apart, [SimNext]_simVars
    PROVE  Apart'
<1>1. PERIOD_INTERVAL \in Nat /\ \A m \in Node : nextUpdate[m] \in Nat
  BY TimeAssumption DEF SimTypes, TypeOK
<1>2. CASE UNCHANGED timeVars \/ PassTime
  BY <1>2 DEF Apart, timeVars, PassTime
<1>3. ASSUME NEW n \in Node, Due(n),
             \A m \in Node \ {n} : nextUpdate'[m] = nextUpdate[m],
             nextUpdate'[n] = now + PERIOD_INTERVAL
      PROVE  Apart'
  <2>1. nextUpdate'[n] = nextUpdate[n] + PERIOD_INTERVAL
    BY <1>3 DEF Due
  <2>2. \A k \in Int : /\ k + 1 \in Int /\ (k + 1) * PERIOD_INTERVAL = k * PERIOD_INTERVAL + PERIOD_INTERVAL
                       /\ k - 1 \in Int /\ (k - 1) * PERIOD_INTERVAL = k * PERIOD_INTERVAL - PERIOD_INTERVAL
                       /\ k * PERIOD_INTERVAL \in Int
    BY <1>1
  <2>3. ASSUME NEW m \in Node \ {n}, NEW k \in Int
        PROVE  /\ nextUpdate'[m] # nextUpdate'[n] + k * PERIOD_INTERVAL
               /\ nextUpdate'[n] # nextUpdate'[m] + k * PERIOD_INTERVAL
    <3>1. /\ nextUpdate[m] # nextUpdate[n] + (k + 1) * PERIOD_INTERVAL
          /\ nextUpdate[n] # nextUpdate[m] + (k - 1) * PERIOD_INTERVAL
      BY <2>2 DEF Apart
    <3>2. PICK c \in Int : c = k * PERIOD_INTERVAL
      BY <2>2
    <3>3. /\ nextUpdate[m] # nextUpdate[n] + (c + PERIOD_INTERVAL)
          /\ nextUpdate[n] # nextUpdate[m] + (c - PERIOD_INTERVAL)
      BY <2>2, <3>1, <3>2
    <3>4. /\ nextUpdate[m] \in Nat /\ nextUpdate[n] \in Nat /\ PERIOD_INTERVAL \in Nat
          /\ nextUpdate'[m] = nextUpdate[m] /\ nextUpdate'[n] = nextUpdate[n] + PERIOD_INTERVAL
      BY <1>1, <1>3, <2>1
    <3>5. nextUpdate'[m] # nextUpdate'[n] + c /\ nextUpdate'[n] # nextUpdate'[m] + c
      BY <3>3, <3>4
    <3> QED
      BY <3>2, <3>5
  <2>4. \A m, q \in Node : m # q => n \in {m, q} \/ (m \in Node \ {n} /\ q \in Node \ {n})
    OBVIOUS
  <2> QED
    BY <1>3, <2>3, <2>4 DEF Apart
<1> QED
  BY <1>2, <1>3, ClockSteps

\* What is used of it: nobody updates when another does, nor a period later.
LEMMA ApartSays ==
    ASSUME SimTypes, Apart, NEW m \in Node, NEW n \in Node, m # n
    PROVE  nextUpdate[m] # nextUpdate[n] /\ nextUpdate[m] # nextUpdate[n] + PERIOD_INTERVAL
<1>1. PERIOD_INTERVAL \in Nat /\ nextUpdate[m] \in Nat /\ nextUpdate[n] \in Nat
  BY TimeAssumption DEF SimTypes, TypeOK
<1>2. 0 \in Int /\ 1 \in Int /\ 0 * PERIOD_INTERVAL = 0 /\ 1 * PERIOD_INTERVAL = PERIOD_INTERVAL
  BY <1>1
<1>3. nextUpdate[m] # nextUpdate[n] + 0 * PERIOD_INTERVAL
  BY <1>2 DEF Apart
<1>4. nextUpdate[m] # nextUpdate[n] + 1 * PERIOD_INTERVAL
  BY <1>2 DEF Apart
<1> QED
  BY <1>1, <1>2, <1>3, <1>4

-----------------------------------------------------------------------------
(* Nodes that stay where they are.                                         *)

Mutual == \A m, n \in Node : Near(m, n) => Near(n, m)

\* No scenario that moves nodes, and no negative coordinates.
Still ==
    /\ ~(config.simScenario = 3 /\ config.numGroups > 1)
    /\ loc \in [Node -> [locX : Nat, locY : Nat]]

LEMMA RangeIsMutual ==
    ASSUME NODE_COVERAGE_AREA \in Nat, Still
    PROVE  Mutual
<1> SUFFICES ASSUME NEW m \in Node, NEW n \in Node, Near(m, n) PROVE Near(n, m)
  BY DEF Mutual
<1>1. /\ loc[m].locX \in Nat /\ loc[m].locY \in Nat
      /\ loc[n].locX \in Nat /\ loc[n].locY \in Nat
  BY DEF Still
<1> QED
  BY <1>1 DEF Near, IG!InRange

LEMMA StaysPut ==
    ASSUME SimTypes, Still, [SimNext]_simVars
    PROVE  loc' = loc /\ Still'
<1>1. config' = config
  BY DEF SimNext, SilentUpdate, LeaderSendsIGROUP, MoveNode, HandIGROUP, SkipIGROUP,
         RelayIGROUP, HandIREPLY, RelayIREPLY, PassTimeTogether, simVars, placeVars
<1>2. ASSUME NEW n \in Node, MoveNode(n) PROVE loc' = loc
  <2>1. loc' = [loc EXCEPT ![n] = Moved(config, loc[n], <<0, 0, 0>>, now)]
    BY <1>2 DEF MoveNode
  <2>2. Moved(config, loc[n], <<0, 0, 0>>, now) = loc[n]
    BY DEF Moved, SimTypes, Still
  <2> QED
    BY <2>1, <2>2 DEF Still
<1>3. ASSUME \/ \E n \in Node : SilentUpdate(n)
             \/ PassTimeTogether
             \/ UNCHANGED simVars
      PROVE  loc' = loc
  BY <1>3 DEF SilentUpdate, PassTimeTogether, simVars, placeVars
<1>4. ASSUME NEW n \in Node, LeaderSendsIGROUP(n) PROVE loc' = loc
  BY <1>4 DEF LeaderSendsIGROUP, IG!evIGROUP
<1>5. ASSUME HandIGROUP \/ SkipIGROUP \/ RelayIGROUP PROVE loc' = loc
  BY <1>5 DEF HandIGROUP, SkipIGROUP, RelayIGROUP, IG!HandDirect, IG!HandRelayed, IG!EndDirect,
              IG!Relay, IG!EndRound, IG!worldVars
<1>6. ASSUME HandIREPLY \/ RelayIREPLY PROVE loc' = loc
  BY <1>6 DEF HandIREPLY, RelayIREPLY, IR!HandOrRelay, IR!EndDirect, IR!Relay, IR!EndRound,
              IR!worldVars
<1> QED
  BY <1>1, <1>2, <1>3, <1>4, <1>5, <1>6 DEF SimNext, Still

LEMMA HopsStay ==
    ASSUME SimTypes, Still, [SimNext]_simVars, oneHop => OneHop
    PROVE  /\ (oneHop => OneHop)'
           /\ oneHop' => oneHop
           /\ OneHop' <=> OneHop
           /\ \A m, n : Near(m, n)' <=> Near(m, n)
<1>1. loc' = loc
  BY StaysPut
<1>2. (OneHop' <=> OneHop) /\ \A m, n : Near(m, n)' <=> Near(m, n)
  BY <1>1 DEF OneHop, IG!InRange, Near
<1>3. ASSUME NEW n \in Node, MoveNode(n) PROVE oneHop' = (oneHop /\ OneHop')
  BY <1>3 DEF MoveNode
<1>4. oneHop' = oneHop \/ \E n \in Node : MoveNode(n)
  BY DEF SimNext, SilentUpdate, LeaderSendsIGROUP, HandIGROUP, SkipIGROUP,
         RelayIGROUP, HandIREPLY, RelayIREPLY, PassTimeTogether, simVars, placeVars
<1>5. oneHop' => oneHop
  BY <1>3, <1>4
<1> QED
  BY <1>2, <1>5

\* What the flood of the IGROUP has done so far.
ServedOnceEach ==
    igroup # None =>
      /\ \A n \in Node : heard[n] <= 1
      /\ \A n \in Node : heard[n] > 0 => isActive[n] /\ Near(igroup.leaderId, n)
      /\ ~IGdirect \/ IGtodo = <<>> =>
           \A n \in Node : isActive[n] /\ Near(igroup.leaderId, n) => heard[n] = 1

LEMMA ServedFacts ==
    ASSUME SimTypes, IGFlood!OneHopIsServed, OneHop
    PROVE  ServedOnceEach
<1> SUFFICES ASSUME igroup # None
             PROVE  /\ \A n \in Node : heard[n] <= 1
                    /\ \A n \in Node : heard[n] > 0 => isActive[n] /\ Near(igroup.leaderId, n)
                    /\ ~IGdirect \/ IGtodo = <<>> =>
                         \A n \in Node : isActive[n] /\ Near(igroup.leaderId, n) => heard[n] = 1
  BY DEF ServedOnceEach
<1>1. IGMessage = [leaderId |-> igroup.leaderId, sequenceNumber |-> igroup.sequenceNumber]
  BY DEF IGMessage
<1>2. IGMessage \in [leaderId : Node, sequenceNumber : Nat]
  BY <1>1 DEF SimTypes, TypeOK, IGROUPMessage
<1>3. IGMessage # None
  BY <1>2, QueueAssumption
<1>4. IGFlood!OneHopRange
  BY DEF OneHop, IGFlood!OneHopRange, IG!InRange, IGFlood!InRange
<1>5. \A n : n \in IGFlood!Area <=> n \in Node /\ isActive[n] /\ Near(igroup.leaderId, n)
  BY <1>1 DEF IGFlood!Area, IGFlood!Active, IGFlood!InRange, IG!InRange, Near
<1>6. /\ \A m \in Node : heard[m] <= 1 /\ (heard[m] > 0 => m \in IGFlood!Area)
      /\ ~IGdirect \/ IGtodo = <<>> => \A m \in IGFlood!Area : heard[m] = 1
  BY <1>3, <1>4 DEF IGFlood!OneHopIsServed
<1> QED
  BY <1>5, <1>6

\* The flood of an IREPLY to a leader in range does not end before it is there.
LEMMA ReplyArrives ==
    ASSUME SimTypes, IRFlood!InRangeIsServed, ireply # None, isActive[ireply.leaderId],
           Near(ireply.nodeId, ireply.leaderId), ~IRdirect \/ IRtodo = <<>>
    PROVE  IRhanded > 0
<1>1. IRMessage = [leaderId |-> ireply.leaderId, nodeId |-> ireply.nodeId,
                   sequenceNumber |-> ireply.sequenceNumber]
  BY DEF IRMessage
<1>2. IRMessage \in [leaderId : Node, nodeId : Node, sequenceNumber : Nat]
  BY <1>1 DEF SimTypes, TypeOK, IREPLYMessage
<1>3. IRMessage # None
  BY <1>2, QueueAssumption
<1>4. IRFlood!LeaderInRange
  BY <1>1, <1>2 DEF IRFlood!LeaderInRange, IRFlood!Active, IRFlood!InRange, IG!InRange, Near
<1>5. IRhanded > 0 \/ (IRdirect /\ IRMessage.leaderId \in IRFlood!ElementsOf(IRtodo))
  BY <1>3, <1>4 DEF IRFlood!InRangeIsServed
<1>6. IRtodo = <<>> => IRFlood!ElementsOf(IRtodo) = {}
  BY DEF IRFlood!ElementsOf
<1> QED
  BY <1>5, <1>6

-----------------------------------------------------------------------------
(* The groups of a network in which nobody relays for anybody.             *)

\* n has heard nobody yet.
Plain(n) ==
    /\ nodeState[n] = "Detached"
    /\ memberList[n] = <<>>
    /\ pendingLeaderList[n] = <<>>

\* H is a set of leaders out of each other's range.
HeadsLead(H) == H \subseteq Leaders /\ \A y, z \in H : ~Near(y, z)

\* Every other node is in the range of one of them, or has heard nobody yet.
Covered(H) == \A n \in Node : n \in H \/ (\E y \in H : Near(y, n)) \/ Plain(n)

\* A node does nothing before its first update.
Asleep == \A n \in Node : ~isActive[n] => Plain(n) /\ ~isbackoffExists[n]

\* Whoever hears one of H is in its group.
Grouped(H) ==
    \A y \in H : \A n \in Node : Near(y, n) /\ isActive[n] => InGroupOf(n, y)

\* A leader in the range of one of H hears from it before its own next update.
HeadsFirst(H) ==
    \A y \in H : \A w \in Leaders :
        Near(y, w) => Waiting(w, y) \/ nextUpdate[y] < nextUpdate[w]

\* Nobody else is listed.
ListsNear(H) ==
    \A y \in H : \A n \in Node : Lists(memberList[y], n) => isActive[n] /\ Near(y, n)

\* The list in an IGROUP says of n what the leader's list says.
Tells(info, list, n) ==
    /\ Lists(info, n) <=> Lists(list, n)
    /\ \A k \in DOMAIN info : info[k].memberId = n =>
         \E j \in DOMAIN list : /\ list[j].memberId = n
                                /\ list[j].memberContrib = info[k].memberContrib
                                /\ list[j].memberLastNonce = info[k].memberLastNonce

\* The IGROUP in flight is of one of H, or of a leader that has just started and
\* has nobody, and says what the leader has.
Sent(H) ==
    igroup # None =>
      LET l == igroup.leaderId
      IN  /\ l \in H \/ (igroup.memberInfoList = <<>> /\ \E y \in H : Near(y, l))
          /\ igroup.sessionId = 0
          /\ now <= simulationTime /\ nextUpdate[l] = now + PERIOD_INTERVAL
          /\ \A n \in Node : heard[n] = 0 => Tells(igroup.memberInfoList, memberList[l], n)

\* An IREPLY in flight answers the IGROUP in flight, and once the leader has been
\* handed it the leader has listed its sender.
Replied ==
    ireply # None =>
      LET l == ireply.leaderId
          n == ireply.nodeId
      IN  /\ igroup # None /\ igroup.leaderId = l /\ heard[n] > 0
          /\ ireply.leaderLastNonce = lastNonce[l]
          /\ ireply.sessionCurrent = sessionCurrent[l]
          /\ ireply.sessionId = 0 /\ IRhanded > 0 =>
               Knows(memberList[l], n, ireply.nodeContrib, ireply.nodeNonce)

\* The groups of H.
Agree(H) ==
    /\ HeadsLead(H) /\ Covered(H) /\ Asleep /\ Grouped(H) /\ HeadsFirst(H)
    /\ ListsNear(H) /\ Sent(H) /\ Replied

-----------------------------------------------------------------------------
(* What the lists of a leader and of its IGROUP say.                       *)

LEMMA KnownIsListed ==
    ASSUME NEW list, NEW n, NEW c, NEW x, Knows(list, n, c, x)
    PROVE  Lists(list, n) /\ Contributed(list, n, c)
  BY DEF Knows, Contributed

\* A list says one thing of a node.
LEMMA KnownOnce ==
    ASSUME NEW list, NEW n, NEW c, NEW x, NEW d, NEW z,
           Knows(list, n, c, x), Knows(list, n, d, z)
    PROVE  c = d /\ x = z
  BY DEF Knows, Lists

LEMMA TellsKnown ==
    ASSUME NEW info, NEW list, NEW n, NEW c, NEW x, Tells(info, list, n), Knows(list, n, c, x)
    PROVE  Knows(info, n, c, x)
<1>1. Lists(info, n)
  BY DEF Tells, Knows
<1>2. ASSUME NEW k \in DOMAIN info, info[k].memberId = n
      PROVE  info[k].memberContrib = c /\ info[k].memberLastNonce = x
  <2>1. PICK j \in DOMAIN list : /\ list[j].memberId = n
                                 /\ list[j].memberContrib = info[k].memberContrib
                                 /\ list[j].memberLastNonce = info[k].memberLastNonce
    BY <1>2 DEF Tells
  <2> QED
    BY <2>1 DEF Knows
<1> QED
  BY <1>1, <1>2 DEF Knows

\* The same when only the leader's list has changed, and not about n.
LEMMA TellsKept ==
    ASSUME NEW info, NEW a, NEW b, NEW n, Tells(info, a, n), SameFor(a, b, n)
    PROVE  Tells(info, b, n)
<1>1. Lists(b, n) <=> Lists(a, n)
  BY SameForSays
<1>2. ASSUME NEW k \in DOMAIN info, info[k].memberId = n
      PROVE  \E j \in DOMAIN b : /\ b[j].memberId = n
                                 /\ b[j].memberContrib = info[k].memberContrib
                                 /\ b[j].memberLastNonce = info[k].memberLastNonce
  <2>1. PICK j \in DOMAIN a : /\ a[j].memberId = n
                              /\ a[j].memberContrib = info[k].memberContrib
                              /\ a[j].memberLastNonce = info[k].memberLastNonce
    BY <1>2 DEF Tells
  <2>2. j \in DOMAIN b /\ b[j].memberId = n
    BY <2>1 DEF SameFor
  <2>3. b[j].memberContrib = a[j].memberContrib /\ b[j].memberLastNonce = a[j].memberLastNonce
    BY <2>2 DEF SameFor
  <2> QED
    BY <2>1, <2>2, <2>3
<1> QED
  BY <1>1, <1>2 DEF Tells

LEMMA InfoKnown ==
    ASSUME TypeOK, GroupIsASet, igroup # None, NEW n, NEW c, NEW x,
           Knows(igroup.memberInfoList, n, c, x)
    PROVE  Listed(n) /\ InfoOf(n).memberContrib = c /\ InfoOf(n).memberLastNonce = x
<1>1. PICK k \in DOMAIN igroup.memberInfoList : igroup.memberInfoList[k].memberId = n
  BY DEF Knows, Lists
<1>2. igroup \in IGROUPMessage
  BY DEF TypeOK
<1>3. InfoOf(n) = igroup.memberInfoList[k]
  BY <1>1, <1>2, InfoIsEntry
<1>4. Listed(n)
  BY <1>1 DEF Listed
<1>5. /\ igroup.memberInfoList[k].memberContrib = c
      /\ igroup.memberInfoList[k].memberLastNonce = x
  BY <1>1 DEF Knows
<1> QED
  BY <1>3, <1>4, <1>5

\* What a leader takes over from an IREPLY.
LEMMA RenewedList ==
    ASSUME TypeOK, NEW l \in Node, processIREPLY(l)
    PROVE  /\ Knows(memberList'[l], ireply.nodeId, ireply.nodeContrib, ireply.nodeNonce)
           /\ HeardSince(memberList'[l], ireply.nodeId, now)
           /\ \A m : m # ireply.nodeId => SameFor(memberList[l], memberList'[l], m)
           /\ compGroupChange[l] \/ ~Lists(memberList[l], ireply.nodeId) => compGroupChange'[l]
<1> DEFINE list == memberList[l]
           n == ireply.nodeId
           entries == EntryOf(l, n)
           renewed(m) == [m EXCEPT !.memberLastNonce = ireply.nodeNonce,
                                   !.memberContrib = ireply.nodeContrib,
                                   !.memberLastIREPLYTime = now]
           new == Member(n, ireply.nodeContrib, ireply.nodeNonce, now)
           updated == [i \in DOMAIN list |-> IF i \in entries THEN renewed(list[i]) ELSE list[i]]
<1>1. list \in Seq(MemberRecord) /\ now \in Nat
  BY DEF TypeOK
<1>2. /\ memberList'[l] = IF entries = {} THEN Append(list, new) ELSE updated
      /\ compGroupChange[l] \/ entries = {} => compGroupChange'[l]
  BY DEF processIREPLY, TypeOK
<1>3. entries = {} <=> ~Lists(list, n)
  BY DEF EntryOf, Lists
<1>4. /\ new.memberId = n /\ new.memberContrib = ireply.nodeContrib
      /\ new.memberLastNonce = ireply.nodeNonce /\ new.memberLastIREPLYTime = now
  BY DEF Member
<1>5. \A i \in DOMAIN list :
        i \in entries <=> list[i].memberId = n
  BY DEF EntryOf
<1>6. \A i \in DOMAIN list : list[i] \in MemberRecord
  BY <1>1, ElementOfSeq, LenProperties
<1>7. \A r \in MemberRecord :
        /\ renewed(r).memberId = r.memberId /\ renewed(r).memberContrib = ireply.nodeContrib
        /\ renewed(r).memberLastNonce = ireply.nodeNonce
        /\ renewed(r).memberLastIREPLYTime = now
  BY DEF MemberRecord
<1>8. CASE entries = {}
  <2>1. /\ memberList'[l] = Append(list, new)
        /\ DOMAIN list = 1..Len(list) /\ Len(list) \in Nat
        /\ DOMAIN memberList'[l] = 1..Len(list) + 1
        /\ \A i \in 1..Len(list) : memberList'[l][i] = list[i]
        /\ memberList'[l][Len(list) + 1] = new
    BY <1>1, <1>2, <1>8, LenProperties
  <2> HIDE DEF new, list
  <2>2. PICK k : /\ k \notin DOMAIN list /\ k \in DOMAIN memberList'[l] /\ memberList'[l][k] = new
                 /\ \A i \in DOMAIN memberList'[l] : i \in DOMAIN list \/ i = k
                 /\ \A i \in DOMAIN list : i \in DOMAIN memberList'[l] /\ memberList'[l][i] = list[i]
    <3>1. Len(list) + 1 \notin 1..Len(list) /\ Len(list) + 1 \in 1..Len(list) + 1
      BY <2>1
    <3>2. \A i \in 1..Len(list) + 1 : i \in 1..Len(list) \/ i = Len(list) + 1
      BY <2>1
    <3>3. \A i \in 1..Len(list) : i \in 1..Len(list) + 1
      BY <2>1
    <3> QED
      BY <2>1, <3>1, <3>2, <3>3
  <2> HIDE DEF entries
  <2>3. \A i \in DOMAIN list : list[i].memberId # n
    BY <1>5, <1>8
  <2>4. Knows(memberList'[l], n, ireply.nodeContrib, ireply.nodeNonce)
    BY <1>4, <2>2, <2>3 DEF Knows, Lists
  <2>5. HeardSince(memberList'[l], n, now)
    BY <1>1, <1>4, <2>2, <2>3 DEF HeardSince
  <2>6. \A m : m # n => SameFor(list, memberList'[l], m)
    BY <1>4, <2>2 DEF SameFor
  <2> QED
    BY <1>2, <1>3, <2>4, <2>5, <2>6 DEF list
<1>9. CASE entries # {}
  <2>1. memberList'[l] = updated /\ DOMAIN memberList'[l] = DOMAIN list
    BY <1>2, <1>9
  <2>2. \A i \in DOMAIN list :
          memberList'[l][i] = IF list[i].memberId = n THEN renewed(list[i]) ELSE list[i]
    BY <1>5, <2>1
  <2> HIDE DEF updated, list, renewed, entries
  <2>3. \A i \in DOMAIN list :
          /\ memberList'[l][i].memberId = list[i].memberId
          /\ list[i].memberId # n => memberList'[l][i] = list[i]
          /\ list[i].memberId = n => /\ memberList'[l][i].memberContrib = ireply.nodeContrib
                                     /\ memberList'[l][i].memberLastNonce = ireply.nodeNonce
                                     /\ memberList'[l][i].memberLastIREPLYTime = now
    BY <1>6, <1>7, <2>2
  <2>4. Knows(memberList'[l], n, ireply.nodeContrib, ireply.nodeNonce)
    BY <1>3, <1>9, <2>1, <2>3 DEF Knows, Lists
  <2>5. HeardSince(memberList'[l], n, now)
    BY <1>1, <2>1, <2>3 DEF HeardSince
  <2>6. \A m : m # n => SameFor(list, memberList'[l], m)
    BY <2>1, <2>3 DEF SameFor
  <2> QED
    BY <1>2, <1>3, <2>4, <2>5, <2>6 DEF list
<1> QED
  BY <1>8, <1>9

\* A new secret changes the responses and nothing else of the list.
LEMMA RekeyedList ==
    ASSUME TypeOK, NEW n \in Node, NEW session, NEW position,
           Rekey(n, memberList[n], session, position)
    PROVE  \A m : SameFor(memberList[n], memberList'[n], m)
<1> DEFINE list == memberList[n]
<1>1. \A i \in DOMAIN list : list[i] \in MemberRecord
  BY ElementOfSeq, LenProperties DEF TypeOK
<1>2. memberList'[n] = [i \in DOMAIN list |-> [list[i] EXCEPT !.leaderReply =
                          computeBlindedResponse(list[i].memberContrib, secrets + 1)]]
  BY DEF Rekey, TypeOK
<1> HIDE DEF list
<1>3. \A i \in DOMAIN list :
        /\ memberList'[n][i].memberId = list[i].memberId
        /\ memberList'[n][i].memberContrib = list[i].memberContrib
        /\ memberList'[n][i].memberLastNonce = list[i].memberLastNonce
        /\ memberList'[n][i].memberLastIREPLYTime = list[i].memberLastIREPLYTime
  BY <1>1, <1>2 DEF MemberRecord
<1>4. \A m : SameFor(list, memberList'[n], m)
  BY <1>2, <1>3 DEF SameFor
<1> QED
  BY <1>4 DEF list

LEMMA SameForItself ==
    ASSUME NEW list
    PROVE  \A m : SameFor(list, list, m)
  BY DEF SameFor

LEMMA SentList ==
    ASSUME NEW n, SendIGROUP(n)
    PROVE  /\ igroup'.leaderId = n /\ igroup'.sessionId = 0
           /\ \A m : Tells(igroup'.memberInfoList, memberList'[n], m)
           /\ DOMAIN igroup'.memberInfoList = DOMAIN memberList'[n]
<1> DEFINE list == memberList'[n]
           info == [i \in DOMAIN list |->
                      [memberId |-> list[i].memberId,
                       memberLastNonce |-> list[i].memberLastNonce,
                       memberContrib |-> list[i].memberContrib,
                       leaderReply |-> list[i].leaderReply]]
<1>1. igroup'.leaderId = n /\ igroup'.sessionId = 0 /\ igroup'.memberInfoList = info
  BY DEF SendIGROUP
<1>2. /\ DOMAIN info = DOMAIN list
      /\ \A i \in DOMAIN list : /\ info[i].memberId = list[i].memberId
                                /\ info[i].memberLastNonce = list[i].memberLastNonce
                                /\ info[i].memberContrib = list[i].memberContrib
  OBVIOUS
<1> HIDE DEF info, list
<1>3. \A m : Tells(info, list, m)
  BY <1>2 DEF Tells, Lists
<1> QED
  BY <1>1, <1>2, <1>3 DEF list

\* A leader that is itself listed does not take the IGROUP's group for its own.
LEMMA NotMyGroup ==
    ASSUME TypeOK, GroupIsASet, igroup # None, NEW n \in Leaders, Listed(n)
    PROVE  ~SameMembers(n)
<1> DEFINE a == memberList[n]
           b == igroup.memberInfoList
           pairs == {p \in (DOMAIN a) \X (DOMAIN b) : a[p[1]].memberId = b[p[2]].memberId}
           f == [p \in pairs |-> p[2]]
<1> SUFFICES ASSUME Len(a) = Len(b), Len(a) = Cardinality(pairs) PROVE FALSE
  BY DEF SameMembers, SameLength
<1>1. PICK k \in DOMAIN b : b[k].memberId = n
  BY DEF Listed
<1>2. /\ \A i, j \in DOMAIN a : /\ a[i].memberId # n
                                /\ a[i].memberId = a[j].memberId => i = j
      /\ DOMAIN b = 1..Len(b) /\ Len(b) \in Nat
  <2>1. b \in Seq(MemberInfo)
    BY DEF TypeOK, IGROUPMessage
  <2> QED
    BY <2>1, LenProperties DEF GroupIsASet
<1> HIDE DEF a, b
<1>3. f \in [pairs -> (DOMAIN b) \ {k}]
  BY <1>1, <1>2
<1>4. ASSUME NEW p \in pairs, NEW q \in pairs, f[p] = f[q] PROVE p = q
  <2>1. p = <<p[1], p[2]>> /\ q = <<q[1], q[2]>> /\ p[2] = q[2]
    BY <1>4
  <2>2. p[1] = q[1]
    BY <1>2, <1>4
  <2> QED
    BY <2>1, <2>2
<1> HIDE DEF pairs, f
<1>5. f \in Injection(pairs, (DOMAIN b) \ {k})
  BY <1>3, <1>4 DEF Injection, IsInjective
<1>6. /\ IsFiniteSet(DOMAIN b) /\ Cardinality(DOMAIN b) = Len(b)
      /\ IsFiniteSet((DOMAIN b) \ {k}) /\ Cardinality((DOMAIN b) \ {k}) = Len(b) - 1
  <2>1. IsFiniteSet(DOMAIN b) /\ Cardinality(DOMAIN b) = Len(b)
    BY <1>2, FS_Interval
  <2> QED
    BY <1>1, <2>1, FS_RemoveElement
<1>7. Cardinality(pairs) <= Len(b) - 1
  BY <1>5, <1>6, FS_Injection
<1> QED
  BY <1>2, <1>7

-----------------------------------------------------------------------------
(* Each step keeps the groups.                                             *)

\* What has been proved of the protocol, the clock, places and floods.
Settled ==
    /\ SimTypes /\ GroupInv /\ KeyInv /\ Numbers /\ Clock /\ Apart
    /\ Mutual /\ OneHop /\ ServedOnceEach
    /\ IRFlood!InRangeIsServed

\* Nobody moves.
NearStays == \A m, n : Near(m, n)' <=> Near(m, n)

\* All that nodes know, without the messages in flight.
nodeVars ==
    <<nodeState, isbackoffExists, backoffTime, lastIGROUPMsgTime, leaderId, leaderLastNonce,
      sessionCurrent, sessionNext, nodeSecret, nodeContrib, lastNonce, key, memberList,
      compGroupChange, pendingLeaderList, isActive, nextUpdate>>

LEMMA HeadFacts ==
    ASSUME Settled, NEW H, HeadsLead(H), Asleep
    PROVE  /\ \A y \in H : y \in Leaders
           /\ \A w \in Leaders : w \in Node /\ nodeState[w] = "Leader" /\ isActive[w]
           /\ \A y, z \in H : \A n \in Node : Near(y, n) /\ Near(z, n) => y = z
           /\ \A y \in H : \A n \in Node : Near(y, n) => n \notin H /\ n # y
<1>1. \A y \in H : y \in Leaders
  BY DEF HeadsLead
<1>2. \A w \in Leaders : w \in Node /\ nodeState[w] = "Leader" /\ isActive[w]
  BY DEF Leaders, Asleep, Plain
<1>3. ASSUME NEW y \in H, NEW z \in H, NEW n \in Node, Near(y, n), Near(z, n) PROVE y = z
  <2>1. y \in Node /\ z \in Node /\ Near(n, z)
    BY <1>1, <1>2, <1>3 DEF Settled, Mutual
  <2>2. y # z => Near(y, z)
    BY <1>3, <2>1 DEF Settled, OneHop, Near
  <2> QED
    BY <2>2 DEF HeadsLead
<1>4. ASSUME NEW y \in H, NEW n \in Node, Near(y, n) PROVE n \notin H /\ n # y
  BY <1>4 DEF HeadsLead
<1> QED
  BY <1>1, <1>2, <1>3, <1>4

LEMMA NodesRest ==
    ASSUME UNCHANGED nodeVars, NearStays, NEW H,
           HeadsLead(H), Covered(H), Asleep, ListsNear(H)
    PROVE  /\ Leaders' = Leaders
           /\ HeadsLead(H)' /\ Covered(H)' /\ Asleep' /\ ListsNear(H)'
           /\ \A n \in Node : KeepsNode(n)
           /\ \A y \in Node : \A n \in Node : KeepsFor(y, n)
<1>1. Leaders' = Leaders
  BY DEF Leaders, nodeVars
<1>2. \A n : Plain(n)' <=> Plain(n)
  BY DEF Plain, nodeVars
<1>3. HeadsLead(H)' /\ Covered(H)'
  BY <1>1, <1>2 DEF HeadsLead, Covered, NearStays
<1>4. Asleep'
  BY <1>2 DEF Asleep, nodeVars
<1>5. ListsNear(H)'
  BY DEF ListsNear, nodeVars, NearStays
<1>6. \A n \in Node : KeepsNode(n)
  BY DEF KeepsNode, nodeVars
<1>7. \A y \in Node : \A n \in Node : KeepsFor(y, n)
  <2>1. UNCHANGED <<memberList, nodeSecret, lastNonce, key, sessionCurrent, sessionNext,
                    compGroupChange, nextUpdate>>
    BY DEF nodeVars
  <2> QED
    BY <2>1, SameForItself DEF KeepsFor
<1> QED
  BY <1>1, <1>3, <1>4, <1>5, <1>6, <1>7

LEMMA GroupedRest ==
    ASSUME NearStays, NEW H, Grouped(H), H \subseteq Node,
           \A n \in Node : KeepsNode(n) /\ isActive'[n] = isActive[n],
           \A y \in H : \A n \in Node :
             Near(y, n) /\ isActive[n] => KeepsFor(y, n) /\ KeepsMessages(n, y)
    PROVE  Grouped(H)'
<1> SUFFICES ASSUME NEW y \in H, NEW n \in Node, Near(y, n), isActive[n]
             PROVE  InGroupOf(n, y)'
  BY DEF Grouped, NearStays
<1>1. InGroupOf(n, y)
  BY DEF Grouped
<1> QED
  BY <1>1, InGroupKept

LEMMA ElsewhereAgrees ==
    ASSUME Settled, Elsewhere, NearStays, NEW H, Agree(H)
    PROVE  Agree(H)'
<1>1. UNCHANGED nodeVars /\ UNCHANGED <<igroup, heard, ireply, IRhanded, now>>
  BY DEF Elsewhere, vars, roleVars, sessionVars, secretVars, groupVars, timeVars, netVars,
         nodeVars
<1>2. /\ Leaders' = Leaders
      /\ HeadsLead(H)' /\ Covered(H)' /\ Asleep' /\ ListsNear(H)'
      /\ \A n \in Node : KeepsNode(n)
      /\ \A y \in Node : \A n \in Node : KeepsFor(y, n)
  BY <1>1, NodesRest DEF Agree
<1>3. \A y, n : /\ Waiting(n, y)' <=> Waiting(n, y)
                /\ KeepsMessages(n, y)
  BY <1>1 DEF KeepsMessages, Waiting, Served, ReplyingTo
<1>4. H \subseteq Node
  BY DEF Agree, HeadsLead, Leaders
<1>5. Grouped(H)'
  <2>1. \A n \in Node : isActive'[n] = isActive[n]
    BY <1>1 DEF nodeVars
  <2> QED
    BY <1>2, <1>3, <1>4, <2>1, GroupedRest DEF Agree
<1>6. HeadsFirst(H)'
  <2>1. nextUpdate' = nextUpdate /\ HeadsFirst(H)
    BY <1>1 DEF nodeVars, Agree
  <2> QED
    BY <1>2, <1>3, <2>1 DEF HeadsFirst, NearStays
<1>7. Sent(H)' /\ Replied'
  <2>1. UNCHANGED <<nextUpdate, memberList, lastNonce, sessionCurrent>>
    BY <1>1 DEF nodeVars
  <2> QED
    BY <1>1, <2>1 DEF Agree, Sent, Replied, NearStays
<1> QED
  BY <1>2, <1>5, <1>6, <1>7 DEF Agree

LEMMA TimeAgrees ==
    ASSUME Settled, PassTime, NearStays, NEW H, Agree(H)
    PROVE  Agree(H)'
<1>1. /\ UNCHANGED nodeVars /\ UNCHANGED <<igroup, heard, ireply>>
      /\ igroup = None /\ ireply = None
  BY DEF PassTime, Quiet, StateVars, roleVars, sessionVars, secretVars, groupVars, netVars,
         nodeVars
<1>2. /\ Leaders' = Leaders
      /\ HeadsLead(H)' /\ Covered(H)' /\ Asleep' /\ ListsNear(H)'
      /\ \A n \in Node : KeepsNode(n)
      /\ \A y \in Node : \A n \in Node : KeepsFor(y, n)
  BY <1>1, NodesRest DEF Agree
<1>3. \A y, n : /\ Waiting(n, y)' <=> Waiting(n, y)
                /\ KeepsMessages(n, y)
  BY <1>1 DEF KeepsMessages, Waiting, Served, ReplyingTo
<1>4. H \subseteq Node
  BY DEF Agree, HeadsLead, Leaders
<1>5. Grouped(H)'
  <2>1. \A n \in Node : isActive'[n] = isActive[n]
    BY <1>1 DEF nodeVars
  <2> QED
    BY <1>2, <1>3, <1>4, <2>1, GroupedRest DEF Agree
<1>6. HeadsFirst(H)'
  <2>1. nextUpdate' = nextUpdate /\ HeadsFirst(H)
    BY <1>1 DEF nodeVars, Agree
  <2> QED
    BY <1>2, <1>3, <2>1 DEF HeadsFirst, NearStays
<1>7. Sent(H)' /\ Replied'
  BY <1>1 DEF Sent, Replied
<1> QED
  BY <1>2, <1>5, <1>6, <1>7 DEF Agree

\* When the flood of an IGROUP ends everybody in range has been handed it.
LEMMA FloodEndAgrees ==
    ASSUME Settled, EndIGROUP, ~IGdirect \/ IGtodo = <<>>, NearStays, NEW H, Agree(H)
    PROVE  Agree(H)'
<1> DEFINE l == igroup.leaderId
<1>1. /\ UNCHANGED nodeVars /\ igroup' = None /\ igroup # None
      /\ ireply = None /\ ireply' = None
  BY DEF EndIGROUP, StateVars, roleVars, sessionVars, secretVars, groupVars, timeVars,
         nodeVars
<1>2. /\ Leaders' = Leaders
      /\ HeadsLead(H)' /\ Covered(H)' /\ Asleep' /\ ListsNear(H)'
      /\ \A n \in Node : KeepsNode(n)
      /\ \A y \in Node : \A n \in Node : KeepsFor(y, n)
  BY <1>1, NodesRest DEF Agree
<1>3. H \subseteq Node
  BY DEF Agree, HeadsLead, Leaders
<1>4. \A n \in Node : isActive[n] /\ Near(l, n) => heard[n] = 1
  BY <1>1 DEF Settled, ServedOnceEach
<1>5. \A y, n : ~Waiting(n, y)' /\ ~Served(n, y)' /\ ~ReplyingTo(n, y)' /\ ~ReplyingTo(n, y)
  BY <1>1 DEF Waiting, Served, ReplyingTo
<1>6. \A y, n \in Node : Near(y, n) /\ isActive[n] => ~Waiting(n, y)
  BY <1>4 DEF Waiting
<1> HIDE DEF l
<1>7. Grouped(H)'
  <2> SUFFICES ASSUME NEW y \in H, NEW n \in Node, Near(y, n), isActive[n]
               PROVE  InGroupOf(n, y)'
    BY <1>1 DEF Grouped, NearStays, nodeVars
  <2>1. InGroupOf(n, y) /\ ~Waiting(n, y) /\ KeepsNode(n) /\ KeepsFor(y, n) /\ y \in Node
    BY <1>2, <1>3, <1>6 DEF Agree, Grouped
  <2>2. CASE Served(n, y)
    <3>1. LastUpdate(y)' = LastUpdate(y) /\ Requests(n)' = Requests(n)
      BY <1>1 DEF LastUpdate, Requests, nodeVars
    <3>2. Asked(n, y) \/ Confirmed(n, y)
      BY <2>1, <2>2 DEF InGroupOf, Fresh
    <3>3. UNCHANGED nodeVars /\ memberList' = memberList /\ pendingLeaderList' = pendingLeaderList
      BY <1>1 DEF nodeVars
    <3>4. Asked(n, y) => Asked(n, y)'
      <4>1. \A p : Request(n, y, p) => Request(n, y, p)'
        BY <1>5, <2>1, <3>1, <3>3 DEF Request, nodeVars
      <4>2. Pends(n, y)' <=> Pends(n, y)
        BY <3>1 DEF Pends
      <4> QED
        BY <1>5, <2>1, <3>1, <3>3, <4>1, <4>2 DEF Asked, nodeVars
    <3>5. Confirmed(n, y) => Confirmed(n, y)'
      BY <1>5, <2>1, <3>1, <3>3 DEF Confirmed, InStep, nodeVars
    <3> QED
      BY <3>2, <3>4, <3>5 DEF InGroupOf
  <2>3. CASE ~Served(n, y)
    <3>1. KeepsMessages(n, y)
      BY <1>5, <2>1, <2>3 DEF KeepsMessages
    <3> QED
      BY <2>1, <3>1, InGroupKept
  <2> QED
    BY <2>2, <2>3
<1>8. HeadsFirst(H)'
  <2>1. nextUpdate' = nextUpdate /\ HeadsFirst(H)
    BY <1>1 DEF nodeVars, Agree
  <2>2. \A w \in Leaders : w \in Node /\ isActive[w]
    BY HeadFacts DEF Agree
  <2> QED
    BY <1>2, <1>3, <1>6, <2>1, <2>2 DEF HeadsFirst, NearStays
<1>9. Sent(H)' /\ Replied'
  BY <1>1 DEF Sent, Replied
<1> QED
  BY <1>2, <1>7, <1>8, <1>9 DEF Agree

\* When the flood of an IREPLY ends its leader has been handed it.
LEMMA ReplyEndAgrees ==
    ASSUME Settled, EndIREPLY, ~IRdirect \/ IRtodo = <<>>, NearStays, NEW H, Agree(H)
    PROVE  Agree(H)'
<1>1. /\ UNCHANGED nodeVars /\ UNCHANGED <<igroup, heard, now>>
      /\ ireply # None /\ ireply' = None
  BY DEF EndIREPLY, StateVars, roleVars, sessionVars, secretVars, groupVars, timeVars,
         nodeVars
<1>2. /\ Leaders' = Leaders
      /\ HeadsLead(H)' /\ Covered(H)' /\ Asleep' /\ ListsNear(H)'
      /\ \A n \in Node : KeepsNode(n)
      /\ \A y \in Node : \A n \in Node : KeepsFor(y, n)
  BY <1>1, NodesRest DEF Agree
<1>3. H \subseteq Node
  BY DEF Agree, HeadsLead, Leaders
<1>4. IRhanded > 0
  <2>1. /\ igroup # None /\ igroup.leaderId = ireply.leaderId /\ heard[ireply.nodeId] > 0
        /\ ireply.nodeId \in Node /\ ireply.leaderId \in Node
    BY <1>1 DEF Agree, Replied, Settled, SimTypes, TypeOK, IREPLYMessage
  <2>2. Near(ireply.leaderId, ireply.nodeId)
    BY <2>1 DEF Settled, ServedOnceEach
  <2>3. Near(ireply.nodeId, ireply.leaderId)
    BY <2>1, <2>2 DEF Settled, Mutual
  <2>4. ireply.leaderId \in Leaders
    BY <2>1 DEF Settled, GroupInv, LeaderSends
  <2>5. isActive[ireply.leaderId]
    BY <2>4, HeadFacts DEF Agree
  <2> QED
    BY <1>1, <2>3, <2>5, ReplyArrives DEF Settled
<1>5. IRhanded \in Nat
  BY DEF Settled, SimTypes, IRFlood!TypeOK
<1>6. \A y, n : /\ Waiting(n, y)' <=> Waiting(n, y)
                /\ KeepsMessages(n, y)
  BY <1>1, <1>4, <1>5 DEF KeepsMessages, Waiting, Served, ReplyingTo
<1>7. Grouped(H)'
  <2>1. \A n \in Node : isActive'[n] = isActive[n]
    BY <1>1 DEF nodeVars
  <2> QED
    BY <1>2, <1>3, <1>6, <2>1, GroupedRest DEF Agree
<1>8. HeadsFirst(H)'
  <2>1. nextUpdate' = nextUpdate /\ HeadsFirst(H)
    BY <1>1 DEF nodeVars, Agree
  <2> QED
    BY <1>2, <1>6, <2>1 DEF HeadsFirst, NearStays
<1>9. Sent(H)' /\ Replied'
  <2>1. UNCHANGED <<nextUpdate, memberList>>
    BY <1>1 DEF nodeVars
  <2> QED
    BY <1>1, <2>1 DEF Agree, Sent, Replied, NearStays
<1> QED
  BY <1>2, <1>7, <1>8, <1>9 DEF Agree

\* An update that sends nothing draws a backoff, leaves a silent leader, or
\* does nothing.
LEMMA SilentFrame ==
    ASSUME Settled, NEW n \in Node, SilentUpdate(n)
    PROVE  /\ Quiet /\ nextUpdate[n] = now /\ now <= simulationTime
           /\ nodeState[n] # "Leader" /\ nodeState'[n] \in {nodeState[n], "Detached"}
           /\ UNCHANGED <<lastIGROUPMsgTime, leaderId, leaderLastNonce, sessionCurrent,
                          sessionNext, nodeSecret, nodeContrib, lastNonce, key, memberList,
                          compGroupChange, pendingLeaderList, igroup, ireply, heard, IRhanded>>
           /\ \A m \in Node \ {n} : /\ KeepsNode(m)
                                    /\ isActive'[m] = isActive[m]
                                    /\ nextUpdate'[m] = nextUpdate[m]
           /\ isActive'[n] /\ nextUpdate'[n] = now + PERIOD_INTERVAL
           /\ isbackoffExists'[n] =>
                \/ isbackoffExists[n] /\ backoffTime'[n] = backoffTime[n]
                \/ backoffTime'[n] >= now + PERIOD_INTERVAL
           /\ ~LeaderSilent(n) => KeepsNode(n)
<1>1. nodePeriodicUpdate(n) /\ TypeOK
  BY DEF SilentUpdate, nodePeriodicUpdate, Settled, SimTypes
<1>2. /\ Due(n)
      /\ \A m \in Node \ {n} : /\ KeepsNode(m)
                               /\ isActive'[m] = isActive[m]
                               /\ nextUpdate'[m] = nextUpdate[m]
      /\ isActive'[n] /\ nextUpdate'[n] = now + PERIOD_INTERVAL
  BY <1>1, UpdateFrame
<1>3. Quiet /\ nextUpdate[n] = now /\ now <= simulationTime
  BY <1>2 DEF Due
<1>4. UNCHANGED <<lastIGROUPMsgTime, leaderId, leaderLastNonce, sessionCurrent,
                  sessionNext, nodeSecret, nodeContrib, lastNonce, key, memberList,
                  compGroupChange, pendingLeaderList, igroup, ireply, heard, IRhanded>>
  BY DEF SilentUpdate, DrawBackoff, DetachFromLeader, IdleUpdate, sessionVars, secretVars,
         groupVars, netVars, IRvars
<1>5. /\ nodeState \in [Node -> Role] /\ isbackoffExists \in [Node -> BOOLEAN]
      /\ backoffTime \in [Node -> Nat] /\ now \in Nat
  BY <1>1 DEF TypeOK
<1>6. CASE DrawBackoff(n)
  <2>1. /\ nodeState[n] # "Leader" /\ LeaderSilent(n)
        /\ nodeState' = [nodeState EXCEPT ![n] = "Detached"]
    BY <1>6 DEF DrawBackoff
  <2>2. PICK b \in Backoffs :
          backoffTime' = [backoffTime EXCEPT ![n] = b * PERIOD_INTERVAL + now]
    BY <1>6 DEF DrawBackoff
  <2>3. b * PERIOD_INTERVAL >= PERIOD_INTERVAL /\ b * PERIOD_INTERVAL \in Nat
    <3>1. PERIOD_INTERVAL \in Nat
      BY TimeAssumption
    <3>2. PICK c \in Nat : b = c + 1
      <4>1. b - 1 \in Nat /\ b = (b - 1) + 1
        BY TimeAssumption
      <4> QED
        BY <4>1
    <3>3. c * PERIOD_INTERVAL \in Nat /\ (c + 1) * PERIOD_INTERVAL = c * PERIOD_INTERVAL + PERIOD_INTERVAL
      BY <3>1
    <3>4. PICK d \in Nat : d = c * PERIOD_INTERVAL
      BY <3>3
    <3>5. b * PERIOD_INTERVAL = d + PERIOD_INTERVAL
      BY <3>2, <3>3, <3>4
    <3> QED
      BY <3>1, <3>4, <3>5
  <2>4. backoffTime'[n] >= now + PERIOD_INTERVAL
    <3>1. PICK e \in Nat : e = b * PERIOD_INTERVAL
      BY <2>3
    <3>2. backoffTime'[n] = e + now /\ e >= PERIOD_INTERVAL
      BY <1>5, <2>2, <2>3, <3>1
    <3> QED
      BY <1>5, <3>2, TimeAssumption
  <2>5. nodeState'[n] = "Detached"
    BY <1>5, <2>1
  <2> QED
    BY <1>2, <1>3, <1>4, <2>1, <2>4, <2>5
<1>7. CASE DetachFromLeader(n)
  <2>1. /\ nodeState[n] # "Leader" /\ LeaderSilent(n)
        /\ nodeState' = [nodeState EXCEPT ![n] = "Detached"]
        /\ UNCHANGED <<isbackoffExists, backoffTime>>
    BY <1>7 DEF DetachFromLeader
  <2>2. nodeState'[n] = "Detached"
    BY <1>5, <2>1
  <2> QED
    BY <1>2, <1>3, <1>4, <2>1, <2>2
<1>8. CASE IdleUpdate(n)
  <2>1. nodeState[n] # "Leader" /\ UNCHANGED <<nodeState, isbackoffExists, backoffTime>>
    BY <1>8 DEF IdleUpdate, roleVars
  <2>2. KeepsNode(n)
    BY <1>4, <2>1 DEF KeepsNode
  <2> QED
    BY <1>2, <1>3, <1>4, <2>1, <2>2
<1> QED
  BY <1>6, <1>7, <1>8 DEF SilentUpdate

LEMMA SilentAgrees ==
    ASSUME Settled, NEW n \in Node, SilentUpdate(n), NearStays, NEW H, Agree(H),
           LEADER_LAST_TIME >= PERIOD_INTERVAL
    PROVE  Agree(H)'
<1>1. /\ igroup = None /\ ireply = None /\ nextUpdate[n] = now /\ now <= simulationTime
      /\ nodeState[n] # "Leader" /\ nodeState'[n] \in {nodeState[n], "Detached"}
      /\ UNCHANGED <<lastIGROUPMsgTime, leaderId, leaderLastNonce, sessionCurrent,
                     sessionNext, nodeSecret, nodeContrib, lastNonce, key, memberList,
                     compGroupChange, pendingLeaderList, igroup, ireply, heard, IRhanded>>
      /\ isActive'[n] /\ nextUpdate'[n] = now + PERIOD_INTERVAL
  BY SilentFrame DEF Quiet
<1>2. \A m \in Node \ {n} : /\ KeepsNode(m)
                            /\ isActive'[m] = isActive[m]
                            /\ nextUpdate'[m] = nextUpdate[m]
  BY SilentFrame
<1>3. Leaders' = Leaders
  BY <1>1, <1>2 DEF Leaders, KeepsNode
<1>4. n \notin Leaders /\ H \subseteq Leaders /\ \A w \in Leaders : w \in Node \ {n} /\ isActive[w]
  BY <1>1, HeadFacts DEF Leaders, Agree, HeadsLead
<1>5. \A m \in Node : Plain(m) => Plain(m)'
  BY <1>1, <1>2 DEF Plain, KeepsNode
<1>6. HeadsLead(H)' /\ Covered(H)'
  BY <1>3, <1>5 DEF Agree, HeadsLead, Covered, NearStays
<1>7. Asleep'
  BY <1>1, <1>2, <1>5 DEF Agree, Asleep, KeepsNode
<1>8. ListsNear(H)'
  BY <1>1, <1>2 DEF Agree, ListsNear, NearStays
<1>9. HeadsFirst(H)'
  <2>1. \A y, w : ~Waiting(w, y) /\ ~Waiting(w, y)'
    BY <1>1 DEF Waiting
  <2> QED
    BY <1>2, <1>3, <1>4, <2>1 DEF Agree, HeadsFirst, NearStays
<1>10. Sent(H)' /\ Replied'
  BY <1>1 DEF Sent, Replied
<1>11. \A y, m : /\ KeepsMessages(m, y)
                 /\ ~Waiting(m, y) /\ ~Waiting(m, y)' /\ ~Served(m, y) /\ ~Served(m, y)'
                 /\ ~ReplyingTo(m, y) /\ ~ReplyingTo(m, y)'
  BY <1>1 DEF KeepsMessages, Waiting, Served, ReplyingTo
<1>12. \A y \in H : \A m \in Node : KeepsFor(y, m) /\ nextUpdate'[y] = nextUpdate[y]
  BY <1>1, <1>2, <1>4, SameForItself DEF KeepsFor
<1>13. ASSUME NEW y \in H, Near(y, n) PROVE InGroupOf(n, y)'
  <2>1. /\ memberList' = memberList /\ LastUpdate(y)' = LastUpdate(y) /\ Requests(n)' = Requests(n)
        /\ y \in Node /\ y # n /\ isActive[y]
    BY <1>1, <1>4, <1>12 DEF LastUpdate, Requests
  <2>2. /\ nextUpdate[y] \in Nat /\ now \in Nat /\ PERIOD_INTERVAL \in Nat /\ LEADER_LAST_TIME \in Nat
        /\ lastIGROUPMsgTime[n] \in Nat
    BY <2>1, TimeAssumption DEF Settled, SimTypes, TypeOK
  <2>3. now <= nextUpdate[y] /\ nextUpdate[y] < now + PERIOD_INTERVAL
    <3>1. nextUpdate[y] # nextUpdate[n] + PERIOD_INTERVAL
      BY <2>1, ApartSays DEF Settled
    <3> QED
      BY <1>1, <2>1, <2>2, <3>1 DEF Settled, Clock
  <2>4. ASSUME Fresh(n, y) \/ ~isActive[n] PROVE Fresh(n, y)'
    <3>1. /\ nodeState[n] = "Detached" /\ memberList[n] = <<>> /\ ~Pends(n, y)
          /\ ~Lists(memberList[y], n)
          /\ isbackoffExists[n] => backoffTime[n] > nextUpdate[y]
      <4>1. CASE Fresh(n, y)
        BY <1>11, <4>1 DEF Fresh
      <4>2. CASE ~isActive[n]
        <5>1. Plain(n) /\ ~isbackoffExists[n]
          BY <4>2 DEF Agree, Asleep
        <5>2. ~Lists(memberList[y], n)
          BY <4>2 DEF Agree, ListsNear
        <5>3. ~Pends(n, y)
          BY <5>1, NoElements DEF Plain, Pends, Requests
        <5> QED
          BY <5>1, <5>2, <5>3 DEF Plain
      <4> QED
        BY <2>4, <4>1, <4>2
    <3>2. isbackoffExists'[n] => backoffTime'[n] > nextUpdate[y]
      <4>1. isbackoffExists'[n] => \/ isbackoffExists[n] /\ backoffTime'[n] = backoffTime[n]
                                   \/ backoffTime'[n] >= now + PERIOD_INTERVAL
        BY SilentFrame
      <4>2. CASE backoffTime'[n] >= now + PERIOD_INTERVAL
        <5>1. PICK b : b = backoffTime'[n]
          OBVIOUS
        <5>2. b \in Nat
          <6>1. TypeOK'
            BY TypesPreserved, SimProtocolSteps DEF Settled, SimTypes, SimNext
          <6> QED
            BY <5>1, <6>1 DEF TypeOK
        <5> QED
          BY <2>2, <2>3, <4>2, <5>1, <5>2
      <4> QED
        BY <3>1, <4>1, <4>2
    <3>3. ~Pends(n, y)'
      BY <2>1, <3>1 DEF Pends
    <3> QED
      BY <1>1, <1>11, <1>12, <2>1, <3>1, <3>2, <3>3 DEF Fresh
  <2>5. ASSUME Asked(n, y) PROVE Asked(n, y)'
    <3>1. \A p : Request(n, y, p) => Request(n, y, p)'
      BY <1>1, <1>11, <2>1 DEF Request
    <3>2. Pends(n, y)' <=> Pends(n, y)
      BY <2>1 DEF Pends
    <3>3. nodeState[n] = "Detached" /\ nodeState'[n] = "Detached"
      BY <1>1, <2>5 DEF Asked
    <3> QED
      BY <1>1, <1>11, <2>1, <2>5, <3>1, <3>2, <3>3 DEF Asked
  <2>6. ASSUME Confirmed(n, y) PROVE InGroupOf(n, y)'
    <3>1. lastIGROUPMsgTime[n] >= nextUpdate[y] - PERIOD_INTERVAL
      BY <1>11, <2>6 DEF Confirmed, LastUpdate
    <3>2. ~LeaderSilent(n)
      BY <2>2, <2>3, <3>1 DEF LeaderSilent
    <3>3. KeepsNode(n)
      BY <3>2, SilentFrame
    <3> QED
      BY <1>11, <1>12, <2>1, <2>6, <3>3, InGroupKept DEF InGroupOf
  <2>7. isActive[n] => InGroupOf(n, y)
    BY <1>13 DEF Agree, Grouped
  <2>8. (~isActive[n] \/ Fresh(n, y)) \/ Asked(n, y) \/ Confirmed(n, y)
    BY <2>7 DEF InGroupOf
  <2> QED
    BY <2>4, <2>5, <2>6, <2>8 DEF InGroupOf
<1>14. Grouped(H)'
  <2> SUFFICES ASSUME NEW y \in H, NEW m \in Node, Near(y, m), isActive'[m]
               PROVE  InGroupOf(m, y)'
    BY DEF Grouped, NearStays
  <2>1. CASE m = n
    BY <1>13, <2>1
  <2>2. CASE m # n
    <3>1. InGroupOf(m, y)
      BY <1>2, <2>2 DEF Agree, Grouped
    <3> QED
      BY <1>2, <1>4, <1>11, <1>12, <2>2, <3>1, InGroupKept
  <2> QED
    BY <2>1, <2>2
<1> QED
  BY <1>6, <1>7, <1>8, <1>9, <1>10, <1>14 DEF Agree

\* An update that sends an IGROUP.
LEMMA SendFrame ==
    ASSUME Settled, NEW n \in Node, LeaderSendsIGROUP(n)
    PROVE  /\ igroup = None /\ ireply = None /\ ireply' = None /\ now' = now
           /\ nextUpdate[n] = now /\ now <= simulationTime
           /\ nodeState' = [nodeState EXCEPT ![n] = "Leader"]
           /\ isActive'[n] /\ nextUpdate'[n] = now + PERIOD_INTERVAL
           /\ \A m \in Node \ {n} : /\ KeepsNode(m)
                                    /\ isActive'[m] = isActive[m]
                                    /\ nextUpdate'[m] = nextUpdate[m]
           /\ \A m \in Node : heard'[m] = 0
           /\ pendingLeaderList' = pendingLeaderList
           /\ igroup' # None /\ igroup'.leaderId = n /\ igroup'.sessionId = 0
           /\ \A m : Tells(igroup'.memberInfoList, memberList'[n], m)
           /\ DOMAIN igroup'.memberInfoList = DOMAIN memberList'[n]
<1>1. nodePeriodicUpdate(n) /\ TypeOK
  BY DEF LeaderSendsIGROUP, nodePeriodicUpdate, Settled, SimTypes
<1>2. /\ Due(n)
      /\ \A m \in Node \ {n} : /\ KeepsNode(m)
                               /\ isActive'[m] = isActive[m]
                               /\ nextUpdate'[m] = nextUpdate[m]
      /\ isActive'[n] /\ nextUpdate'[n] = now + PERIOD_INTERVAL
  BY <1>1, UpdateFrame
<1>3. Quiet /\ nextUpdate[n] = now /\ now <= simulationTime /\ now' = now
  BY <1>2 DEF Due
<1>4. SendIGROUP(n) /\ pendingLeaderList' = pendingLeaderList
  BY DEF LeaderSendsIGROUP, BecomeLeader, LeaderUpdate
<1>5. ireply' = ireply /\ \A m \in Node : heard'[m] = 0
  BY <1>4 DEF SendIGROUP
<1>6. nodeState' = [nodeState EXCEPT ![n] = "Leader"]
  <2>1. CASE BecomeLeader(n)
    BY <2>1 DEF BecomeLeader
  <2>2. CASE LeaderUpdate(n)
    BY <1>1, <2>2 DEF LeaderUpdate, roleVars, TypeOK
  <2> QED
    BY <2>1, <2>2 DEF LeaderSendsIGROUP
<1>7. igroup' # None
  <2>1. IGMessage' = [leaderId |-> n, sequenceNumber |-> IGmessageCount]
    BY DEF LeaderSendsIGROUP, IG!evIGROUP
  <2>2. IGMessage' \in [leaderId : Node, sequenceNumber : Nat]
    BY <1>1, <2>1 DEF TypeOK
  <2> QED
    BY <2>2, QueueAssumption DEF IGMessage
<1> QED
  BY <1>2, <1>3, <1>4, <1>5, <1>6, <1>7, SentList DEF Quiet

\* A leader none of whose members is too old keeps the list, and what it told
\* them unless the group has changed.
LEMMA LeaderKeepsList ==
    ASSUME TypeOK, NEW n \in Node, LeaderUpdate(n),
           \A k \in DOMAIN memberList[n] :
             now - memberList[n][k].memberLastIREPLYTime < IREPLY_EXPIRE_TIME
    PROVE  /\ \A m : SameFor(memberList[n], memberList'[n], m)
           /\ \/ /\ ~compGroupChange[n]
                 /\ UNCHANGED <<nodeSecret, lastNonce, key, sessionCurrent, sessionNext>>
              \/ /\ nodeSecret'[n] = secrets + 1 /\ lastNonce'[n] = rng + 1
                 /\ sessionCurrent'[n] = sessionNext[n]
<1> DEFINE old == {i \in DOMAIN memberList[n] :
                     now - memberList[n][i].memberLastIREPLYTime >= IREPLY_EXPIRE_TIME}
<1>1. PICK list \in Swept(memberList[n], old) :
        IF \/ old # {}
           \/ compGroupChange[n]
           \/ now - lastTimeSecret[n] > SECRET_EXPIRE_TIME
        THEN Rekey(n, list, sessionNext[n], rng)
        ELSE /\ memberList' = [memberList EXCEPT ![n] = list]
             /\ UNCHANGED <<secretVars, compGroupChange, sessionCurrent,
                            sessionNext, randomVars>>
  BY DEF LeaderUpdate
<1>2. memberList[n] \in Seq(MemberRecord) /\ now \in Nat /\ IREPLY_EXPIRE_TIME \in Nat
  BY TimeAssumption DEF TypeOK
<1>3. old = {}
  <2>1. \A k \in DOMAIN memberList[n] : memberList[n][k].memberLastIREPLYTime \in Nat
    <3>1. \A k \in DOMAIN memberList[n] : memberList[n][k] \in MemberRecord
      BY <1>2, ElementOfSeq, LenProperties
    <3> QED
      BY <3>1 DEF MemberRecord
  <2> QED
    BY <1>2, <2>1
<1> HIDE DEF old
<1>4. list = memberList[n]
  BY <1>1, <1>2, <1>3, SweptNothing
<1>5. CASE Rekey(n, memberList[n], sessionNext[n], rng)
  <2>1. \A m : SameFor(memberList[n], memberList'[n], m)
    BY <1>5, RekeyedList
  <2>2. /\ nodeSecret'[n] = secrets + 1 /\ lastNonce'[n] = rng + 1
        /\ sessionCurrent'[n] = sessionNext[n]
    BY <1>5 DEF Rekey, TypeOK, DrawnAt
  <2> QED
    BY <2>1, <2>2
<1>6. CASE /\ ~compGroupChange[n]
           /\ memberList' = [memberList EXCEPT ![n] = memberList[n]]
           /\ UNCHANGED <<secretVars, compGroupChange, sessionCurrent, sessionNext>>
  <2>1. memberList' = memberList
    BY <1>6 DEF TypeOK
  <2> QED
    BY <1>6, <2>1, SameForItself DEF secretVars
<1> QED
  BY <1>1, <1>4, <1>5, <1>6

\* A list without positions.
LEMMA EmptyList ==
    ASSUME NEW S, NEW list \in Seq(S), DOMAIN list = {}
    PROVE  list = <<>>
<1>1. PICK k : k = Len(list)
  OBVIOUS
<1>2. k \in Nat /\ DOMAIN list = 1..k
  BY <1>1, LenProperties
<1>3. 1 \notin 1..k
  BY <1>2
<1>4. Len(list) = 0
  BY <1>1, <1>2, <1>3
<1> QED
  BY <1>4

\* What is left to show of such an update: its own group.
LEMMA SendAgrees ==
    ASSUME Settled, NEW n \in Node, LeaderSendsIGROUP(n), NearStays, NEW H, Agree(H),
           NEW K, H \subseteq K, K \subseteq H \cup {n},
           n \in K \/ (memberList'[n] = <<>> /\ \E y \in H : Near(y, n)),
           n \in K => /\ \A y \in H : ~Near(y, n)
                      /\ \A m \in Node : Near(n, m) /\ isActive[m] => InGroupOf(m, n)'
                      /\ \A m \in Node : Lists(memberList'[n], m) => isActive[m] /\ Near(n, m),
           \A y \in H : Near(y, n) => InGroupOf(n, y)'
    PROVE  Agree(K)'
<1>1. /\ igroup = None /\ ireply = None /\ ireply' = None /\ now' = now
      /\ nextUpdate[n] = now /\ now <= simulationTime
      /\ nodeState' = [nodeState EXCEPT ![n] = "Leader"]
      /\ isActive'[n] /\ nextUpdate'[n] = now + PERIOD_INTERVAL
      /\ \A m \in Node : heard'[m] = 0
      /\ igroup' # None /\ igroup'.leaderId = n /\ igroup'.sessionId = 0
      /\ \A m : Tells(igroup'.memberInfoList, memberList'[n], m)
      /\ DOMAIN igroup'.memberInfoList = DOMAIN memberList'[n]
  BY SendFrame
<1>2. \A m \in Node \ {n} : /\ KeepsNode(m)
                            /\ isActive'[m] = isActive[m]
                            /\ nextUpdate'[m] = nextUpdate[m]
  BY SendFrame
<1>3. Leaders' = Leaders \cup {n} /\ H \subseteq Node /\ K \subseteq Node
  <2>1. nodeState \in [Node -> Role]
    BY DEF Settled, SimTypes, TypeOK
  <2> QED
    BY <1>1, <2>1 DEF Leaders, Agree, HeadsLead
<1>4. /\ \A y \in H : y \in Leaders
      /\ \A w \in Leaders : w \in Node /\ isActive[w]
      /\ \A y \in H : \A m \in Node : Near(y, m) => m \notin H /\ m # y
  BY HeadFacts DEF Agree
<1>5. \A y, m \in Node : Near(y, m) => Near(m, y)
  BY DEF Settled, Mutual
<1>6. ~Near(n, n)
  BY DEF Near, IG!InRange
<1>7. HeadsLead(K)'
  <2>1. K \subseteq Leaders'
    BY <1>3, <1>4
  <2>2. \A y, z \in K : ~Near(y, z)
    <3>1. \A y, z \in H : ~Near(y, z)
      BY DEF Agree, HeadsLead
    <3>2. n \in K => \A y \in H : ~Near(y, n) /\ ~Near(n, y)
      BY <1>3, <1>5
    <3> QED
      BY <1>6, <3>1, <3>2
  <2> QED
    BY <2>1, <2>2 DEF HeadsLead, NearStays
<1>8. Covered(K)'
  <2>1. \A m \in Node \ {n} : Plain(m) => Plain(m)'
    BY <1>2 DEF Plain, KeepsNode
  <2>2. n \in K \/ \E y \in K : Near(y, n)
    OBVIOUS
  <2>3. \A m \in Node : m \in K \/ (\E y \in K : Near(y, m)) \/ Plain(m)'
    BY <2>1, <2>2 DEF Agree, Covered
  <2> QED
    BY <2>3 DEF Covered, NearStays
<1>9. Asleep'
  BY <1>1, <1>2 DEF Agree, Asleep, Plain, KeepsNode
<1>10. ListsNear(K)'
  <2>1. \A y \in K \ {n} : memberList'[y] = memberList[y]
    BY <1>2, <1>3 DEF KeepsNode
  <2>2. \A y \in K \ {n} : \A m \in Node : Lists(memberList[y], m) => isActive[m] /\ Near(y, m)
    BY DEF Agree, ListsNear
  <2>3. \A m \in Node : isActive[m] => isActive'[m]
    BY <1>1, <1>2
  <2>4. \A y \in K : \A m \in Node : Lists(memberList'[y], m) => isActive'[m] /\ Near(y, m)
    BY <2>1, <2>2, <2>3
  <2> QED
    BY <2>4 DEF ListsNear, Lists, NearStays
<1>11. HeadsFirst(K)'
  <2>1. \A y, w : ~Waiting(w, y)
    BY <1>1 DEF Waiting
  <2>2. ASSUME NEW y \in K, NEW w \in Leaders \cup {n}, Near(y, w)
        PROVE  Waiting(w, y)' \/ nextUpdate'[y] < nextUpdate'[w]
    <3>1. w \in Node /\ y \in Node
      BY <1>3, <1>4, <2>2
    <3>2. CASE y = n
      BY <1>1, <3>1, <3>2 DEF Waiting
    <3>3. CASE y # n /\ w # n
      <4>1. nextUpdate[y] < nextUpdate[w]
        BY <2>1, <2>2, <3>3 DEF Agree, HeadsFirst
      <4> QED
        BY <1>2, <3>1, <3>3, <4>1
    <3>4. CASE y # n /\ w = n
      <4>1. nextUpdate[y] <= now + PERIOD_INTERVAL
        BY <1>4, <3>4 DEF Settled, Clock
      <4>2. nextUpdate[y] # now + PERIOD_INTERVAL
        BY <1>1, <3>1, <3>4, ApartSays DEF Settled
      <4>3. nextUpdate'[y] = nextUpdate[y] /\ nextUpdate'[w] = now + PERIOD_INTERVAL
        BY <1>1, <1>2, <3>1, <3>4
      <4>4. nextUpdate[y] \in Nat /\ now \in Nat /\ PERIOD_INTERVAL \in Nat
        BY <3>1, TimeAssumption DEF Settled, SimTypes, TypeOK
      <4> QED
        BY <4>1, <4>2, <4>3, <4>4
    <3> QED
      BY <3>2, <3>3, <3>4
  <2> QED
    BY <1>3, <2>2 DEF HeadsFirst, NearStays
<1>12. Sent(K)'
  <2>1. n \in K \/ (igroup'.memberInfoList = <<>> /\ \E y \in K : Near(y, n))
    <3>1. CASE n \in K
      BY <3>1
    <3>2. CASE memberList'[n] = <<>> /\ \E y \in H : Near(y, n)
      <4>1. igroup'.memberInfoList \in Seq(MemberInfo)
        <5>1. TypeOK'
          BY SimProtocolSteps, TypesPreserved DEF Settled, SimTypes, SimNext
        <5> QED
          BY <1>1, <5>1 DEF TypeOK, IGROUPMessage
      <4>2. DOMAIN igroup'.memberInfoList = {}
        BY <1>1, <3>2
      <4> QED
        BY <3>2, <4>1, <4>2, EmptyList
    <3> QED
      BY <3>1, <3>2
  <2> QED
    BY <1>1, <2>1 DEF Sent, NearStays
<1>13. Replied'
  BY <1>1 DEF Replied
<1>14. Grouped(K)'
  <2> SUFFICES ASSUME NEW y \in K, NEW m \in Node, Near(y, m), isActive'[m]
               PROVE  InGroupOf(m, y)'
    BY DEF Grouped, NearStays
  <2>1. CASE y = n
    <3>1. m # n
      BY <1>6, <2>1
    <3> QED
      BY <1>2, <2>1, <3>1
  <2>2. CASE y # n /\ m = n
    BY <2>2
  <2>3. CASE y # n /\ m # n
    <3>1. y \in H /\ y \in Node /\ y # n /\ isActive[m]
      BY <1>2, <1>3, <2>3
    <3>2. InGroupOf(m, y)
      BY <3>1 DEF Agree, Grouped
    <3>3. KeepsMessages(m, y)
      BY <1>1, <3>1 DEF KeepsMessages, Waiting, Served, ReplyingTo
    <3>4. KeepsFor(y, m)
      BY <1>2, <3>1, SameForItself DEF KeepsFor, KeepsNode
    <3> QED
      BY <1>2, <2>3, <3>1, <3>2, <3>3, <3>4, InGroupKept
  <2> QED
    BY <2>1, <2>2, <2>3
<1> QED
  BY <1>7, <1>8, <1>9, <1>10, <1>11, <1>12, <1>13, <1>14 DEF Agree

\* A leader's update: everybody in range is to be handed the IGROUP.
LEMMA HeadSends ==
    ASSUME Settled, NEW n \in Node, LeaderUpdate(n), LeaderSendsIGROUP(n), NEW H, Agree(H),
           n \in H, IREPLY_EXPIRE_TIME > 2 * PERIOD_INTERVAL
    PROVE  /\ \A m \in Node : Lists(memberList'[n], m) => isActive[m] /\ Near(n, m)
           /\ \A m \in Node : Near(n, m) /\ isActive[m] => InGroupOf(m, n)'
<1>1. /\ igroup = None /\ ireply = None /\ ireply' = None
      /\ nextUpdate[n] = now
      /\ nextUpdate'[n] = now + PERIOD_INTERVAL
      /\ \A m \in Node : heard'[m] = 0
      /\ igroup' # None /\ igroup'.leaderId = n
      /\ pendingLeaderList' = pendingLeaderList
      /\ \A m \in Node \ {n} : KeepsNode(m)
  BY SendFrame
<1>2. /\ TypeOK /\ now \in Nat /\ PERIOD_INTERVAL \in Nat /\ IREPLY_EXPIRE_TIME \in Nat
      /\ memberList[n] \in Seq(MemberRecord)
  BY TimeAssumption DEF Settled, SimTypes, TypeOK
<1>3. LastUpdate(n) = now - PERIOD_INTERVAL /\ LastUpdate(n)' - PERIOD_INTERVAL = LastUpdate(n)
  BY <1>1, <1>2 DEF LastUpdate
<1>4. \A m : ~Waiting(m, n) /\ ~Served(m, n) /\ ~ReplyingTo(m, n)
  BY <1>1 DEF Waiting, Served, ReplyingTo
<1>5. \A m \in Node : Waiting(m, n)' /\ ~Served(m, n)' /\ ~ReplyingTo(m, n)'
  BY <1>1 DEF Waiting, Served, ReplyingTo
<1>6. \A k \in DOMAIN memberList[n] :
        now - memberList[n][k].memberLastIREPLYTime < IREPLY_EXPIRE_TIME
  <2> SUFFICES ASSUME NEW k \in DOMAIN memberList[n]
               PROVE  now - memberList[n][k].memberLastIREPLYTime < IREPLY_EXPIRE_TIME
    OBVIOUS
  <2>1. PICK m : m = memberList[n][k].memberId
    OBVIOUS
  <2>2. memberList[n][k] \in MemberRecord
    BY <1>2, ElementOfSeq, LenProperties
  <2>3. m \in Node /\ memberList[n][k].memberLastIREPLYTime \in Nat
    BY <2>1, <2>2 DEF MemberRecord
  <2>4. Lists(memberList[n], m)
    BY <2>1 DEF Lists
  <2>5. InGroupOf(m, n)
    BY <2>3, <2>4 DEF Agree, ListsNear, Grouped
  <2>6. \/ HeardSince(memberList[n], m, LastUpdate(n))
        \/ HeardSince(memberList[n], m, LastUpdate(n) - PERIOD_INTERVAL)
    BY <1>4, <2>4, <2>5 DEF InGroupOf, Fresh, Asked, Confirmed
  <2>7. \/ memberList[n][k].memberLastIREPLYTime >= LastUpdate(n)
        \/ memberList[n][k].memberLastIREPLYTime >= LastUpdate(n) - PERIOD_INTERVAL
    BY <2>1, <2>6 DEF HeardSince
  <2> QED
    BY <1>2, <1>3, <2>3, <2>7
<1>7. /\ \A m : SameFor(memberList[n], memberList'[n], m)
      /\ \/ /\ ~compGroupChange[n]
            /\ UNCHANGED <<nodeSecret, lastNonce, key, sessionCurrent, sessionNext>>
         \/ /\ nodeSecret'[n] = secrets + 1 /\ lastNonce'[n] = rng + 1
            /\ sessionCurrent'[n] = sessionNext[n]
  BY <1>2, <1>6, LeaderKeepsList
<1>8. \A m : /\ Lists(memberList'[n], m) <=> Lists(memberList[n], m)
             /\ \A c, x : Knows(memberList'[n], m, c, x) <=> Knows(memberList[n], m, c, x)
             /\ \A c : Contributed(memberList'[n], m, c) <=> Contributed(memberList[n], m, c)
             /\ \A t : HeardSince(memberList'[n], m, t) <=> HeardSince(memberList[n], m, t)
  BY <1>7, SameForSays
<1>9. ASSUME NEW m \in Node, Near(n, m), isActive[m] PROVE InGroupOf(m, n)'
  <2>1. InGroupOf(m, n) /\ m # n /\ KeepsNode(m)
    BY <1>1, <1>9 DEF Agree, Grouped, Near, IG!InRange
  <2>2. Requests(m)' = Requests(m)
    BY <1>1 DEF Requests
  <2>3. Pends(m, n)' <=> Pends(m, n)
    BY <2>2 DEF Pends
  <2>4. ASSUME Fresh(m, n) PROVE Fresh(m, n)'
    BY <1>5, <1>8, <2>1, <2>3, <2>4 DEF Fresh, KeepsNode
  <2>5. NumbersOf(m) /\ NumbersOf(n)
    BY DEF Settled, Numbers
  <2>6. nodeSecret[m] \in Nat /\ nodeSecret[n] \in Nat /\ secrets \in Nat /\ rng \in Nat
    BY <1>2 DEF TypeOK
  <2>7. ASSUME Asked(m, n) PROVE Asked(m, n)'
    <3>1. /\ \A p \in Requests(m) : p.pendingLeaderId = n => Request(m, n, p)
          /\ HeardSince(memberList[n], m, LastUpdate(n)) /\ compGroupChange[n]
      BY <1>4, <2>7 DEF Asked
    <3>2. nodeSecret'[n] = secrets + 1 /\ lastNonce'[n] = rng + 1
      BY <1>7, <3>1
    <3>3. \A p \in Requests(m) : p.nodeSecret # nodeSecret'[n] /\ p.pendingLeaderNonce # lastNonce'[n]
      <4>1. \A p \in Requests(m) : p.nodeSecret \in Nat /\ p.pendingLeaderNonce \in Nat
        BY <1>2, RequestTypes, PendingFields
      <4>2. \A p \in Requests(m) : p.nodeSecret <= secrets /\ p.pendingLeaderNonce <= rng
        BY <2>5 DEF NumbersOf
      <4> QED
        BY <2>6, <3>2, <4>1, <4>2
    <3>4. \A p \in Requests(m) : p.pendingLeaderId = n => Request(m, n, p)'
      BY <1>4, <1>5, <1>8, <3>1, <3>3 DEF Request
    <3>5. HeardSince(memberList'[n], m, LastUpdate(n)' - PERIOD_INTERVAL)
      BY <1>3, <1>8, <3>1
    <3> QED
      BY <1>5, <2>1, <2>2, <2>3, <2>7, <3>3, <3>4, <3>5 DEF Asked, KeepsNode
  <2>8. ASSUME Confirmed(m, n) PROVE Confirmed(m, n)'
    <3>1. /\ nodeState[m] = "Member" /\ leaderId[m] = n
          /\ nodeContrib[m] = computeBlindedSecret(nodeSecret[m])
          /\ nodeSecret[m] # nodeSecret[n]
          /\ Lists(memberList[n], m) /\ Contributed(memberList[n], m, nodeContrib[m])
          /\ Knows(memberList[n], m, nodeContrib[m], lastNonce[m])
          /\ InStep(m, n)
      BY <1>4, <2>8 DEF Confirmed
    <3>2. nodeSecret'[m] # nodeSecret'[n]
      <4>1. nodeSecret[m] <= secrets /\ nodeSecret'[m] = nodeSecret[m]
        BY <2>1, <2>5 DEF NumbersOf, KeepsNode
      <4> QED
        BY <1>7, <2>6, <3>1, <4>1
    <3>3. \/ InStep(m, n)'
          \/ /\ sessionNext'[m] = sessionCurrent'[n]
             /\ sessionCurrent'[m] # sessionCurrent'[n]
      <4>1. CASE UNCHANGED <<nodeSecret, lastNonce, key, sessionCurrent, sessionNext>>
        BY <2>1, <3>1, <4>1 DEF InStep, KeepsNode
      <4>2. CASE sessionCurrent'[n] = sessionNext[n]
        <5>1. sessionCurrent[n] < sessionNext[n] /\ sessionCurrent[n] \in Nat /\ sessionNext[n] \in Nat
          <6>1. n \in Leaders
            BY HeadFacts DEF Agree
          <6> QED
            BY <1>2, <2>5, <6>1 DEF NumbersOf, Leaders, TypeOK
        <5>2. /\ sessionCurrent'[m] = sessionCurrent[n] /\ sessionNext'[m] = sessionNext[n]
          BY <2>1, <3>1 DEF InStep, KeepsNode
        <5> QED
          BY <4>2, <5>1, <5>2
      <4> QED
        BY <1>7, <4>1, <4>2
    <3> QED
      BY <1>5, <1>8, <2>1, <3>1, <3>2, <3>3 DEF Confirmed, KeepsNode
  <2> QED
    BY <2>1, <2>4, <2>7, <2>8 DEF InGroupOf
<1> QED
  BY <1>8, <1>9 DEF Agree, ListsNear

\* A node in the range of a head becomes a leader before the head has answered
\* its request; one that is in nobody's range becomes a head.
LEMMA NewLeader ==
    ASSUME Settled, NEW n \in Node, BecomeLeader(n), LeaderSendsIGROUP(n), NearStays,
           NEW H, Agree(H)
    PROVE  \E K \in SUBSET Node : Agree(K)'
<1>1. /\ igroup = None /\ ireply = None /\ ireply' = None
      /\ nextUpdate[n] = now /\ now <= simulationTime
      /\ nodeState' = [nodeState EXCEPT ![n] = "Leader"]
      /\ \A m \in Node : heard'[m] = 0
      /\ igroup' # None /\ igroup'.leaderId = n
      /\ pendingLeaderList' = pendingLeaderList
      /\ \A m \in Node \ {n} : KeepsNode(m) /\ nextUpdate'[m] = nextUpdate[m]
  BY SendFrame
<1>2. TypeOK /\ TypeOK' /\ nodeState \in [Node -> Role]
  BY SimProtocolSteps, TypesPreserved DEF Settled, SimTypes, SimNext, TypeOK
<1>3. nodeState[n] = "Detached" /\ isbackoffExists[n] /\ backoffTime[n] <= now
  BY DEF BecomeLeader, BackoffOver
<1>4. nodeState'[n] = "Leader"
  BY <1>1, <1>2
<1>5. n \notin Leaders /\ H \subseteq Leaders /\ H \subseteq Node /\ isActive[n]
  BY <1>3 DEF Leaders, Agree, HeadsLead, Asleep
<1>6. memberList'[n] = <<>>
  <2>1. DOMAIN memberList'[n] = {}
    BY <1>2 DEF BecomeLeader, Rekey, TypeOK
  <2>2. memberList'[n] \in Seq(MemberRecord)
    BY <1>2 DEF TypeOK
  <2> QED
    BY <2>1, <2>2, EmptyList
<1>7. \A y, m : ~Waiting(m, y) /\ ~Served(m, y) /\ ~ReplyingTo(m, y) /\ ~ReplyingTo(m, y)'
  BY <1>1 DEF Waiting, Served, ReplyingTo
<1>8. \A m \in Node : Waiting(m, n)' /\ ~Served(m, n)'
  BY <1>1 DEF Waiting, Served
<1>9. ASSUME NEW y \in H, Near(y, n) PROVE InGroupOf(n, y)'
  <2>1. InGroupOf(n, y) /\ y # n /\ y \in Node
    BY <1>5, <1>9 DEF Agree, Grouped
  <2>2. KeepsNode(y) /\ nextUpdate'[y] = nextUpdate[y] /\ Requests(n)' = Requests(n)
    BY <1>1, <2>1 DEF Requests
  <2>3. ~Waiting(n, y)' /\ LastUpdate(y)' = LastUpdate(y)
    BY <1>1, <2>1, <2>2 DEF Waiting, LastUpdate
  <2>4. ~Confirmed(n, y)
    BY <1>3 DEF Confirmed
  <2>5. ~Fresh(n, y)
    <3>1. now <= nextUpdate[y]
      BY <1>1, <2>1 DEF Settled, Clock
    <3>2. backoffTime[n] \in Nat /\ nextUpdate[y] \in Nat /\ now \in Nat
      BY <1>2, <2>1 DEF TypeOK
    <3>3. ~(backoffTime[n] > nextUpdate[y])
      BY <1>3, <3>1, <3>2
    <3> QED
      BY <1>3, <1>7, <3>3 DEF Fresh
  <2>6. Asked(n, y)
    BY <2>1, <2>4, <2>5 DEF InGroupOf
  <2>7. Pends(n, y)' <=> Pends(n, y)
    BY <2>2 DEF Pends
  <2>8. \A p : Request(n, y, p) => Request(n, y, p)'
    BY <1>7, <2>2, <2>3 DEF Request, KeepsNode
  <2>9. Asked(n, y)'
    BY <1>4, <1>7, <2>2, <2>3, <2>6, <2>7, <2>8 DEF Asked, KeepsNode
  <2> QED
    BY <2>9 DEF InGroupOf
<1>10. CASE \E y \in H : Near(y, n)
  <2>1. Agree(H)'
    BY <1>5, <1>6, <1>9, <1>10, SendAgrees
  <2> QED
    BY <1>5, <2>1
<1>11. CASE \A y \in H : ~Near(y, n)
  <2>1. \A m \in Node : ~Lists(memberList'[n], m)
    BY <1>6 DEF Lists
  <2>2. ASSUME NEW m \in Node, Near(n, m), isActive[m] PROVE InGroupOf(m, n)'
    <3>1. m # n /\ Near(m, n)
      BY <2>2 DEF Near, IG!InRange, Settled, Mutual
    <3>2. m \notin H
      BY <1>11, <3>1
    <3>3. ASSUME NEW y \in H, Near(y, m) PROVE FALSE
      <4>1. y # n /\ y \in Node
        BY <1>5
      <4>2. Near(y, n)
        BY <3>1, <3>3, <4>1 DEF Settled, OneHop, Near
      <4> QED
        BY <1>11, <4>2
    <3>4. Plain(m)
      BY <3>2, <3>3 DEF Agree, Covered
    <3>5. KeepsNode(m)
      BY <1>1, <3>1
    <3>6. nodeState'[m] = "Detached" /\ memberList'[m] = <<>> /\ Requests(m)' = {}
      BY <3>4, <3>5, NoElements DEF Plain, KeepsNode, Requests
    <3>7. Fresh(m, n)'
      BY <1>8, <2>1, <3>6 DEF Fresh, Pends
    <3> QED
      BY <3>7 DEF InGroupOf
  <2>3. Agree(H \cup {n})'
    <3> DEFINE K == H \cup {n}
    <3>1. H \subseteq K /\ K \subseteq H \cup {n} /\ n \in K
      OBVIOUS
    <3> HIDE DEF K
    <3>2. Agree(K)'
      BY <1>9, <1>11, <2>1, <2>2, <3>1, SendAgrees
    <3> QED
      BY <3>2 DEF K
  <2>4. H \cup {n} \in SUBSET Node
    BY <1>5
  <2> QED
    BY <2>3, <2>4
<1> QED
  BY <1>10, <1>11

LEMMA LeaderSendsAgrees ==
    ASSUME Settled, NEW n \in Node, LeaderSendsIGROUP(n), NearStays, NEW H, Agree(H),
           IREPLY_EXPIRE_TIME > 2 * PERIOD_INTERVAL
    PROVE  \E K \in SUBSET Node : Agree(K)'
<1>1. CASE BecomeLeader(n)
  BY <1>1, NewLeader
<1>2. CASE LeaderUpdate(n)
  <2>1. n \in Leaders
    BY <1>2 DEF LeaderUpdate, Leaders
  <2>2. igroup = None /\ nextUpdate[n] = now /\ now <= simulationTime
    BY SendFrame
  <2>3. /\ \A y \in H : \A m \in Node : Near(y, m) => m \notin H /\ m # y
        /\ H \subseteq Node
    BY HeadFacts DEF Agree, HeadsLead, Leaders
  <2>4. ASSUME NEW y \in H, Near(y, n) PROVE FALSE
    <3>1. nextUpdate[y] < nextUpdate[n]
      BY <2>1, <2>2, <2>4 DEF Agree, HeadsFirst, Waiting
    <3>2. now <= nextUpdate[y] /\ y \in Node
      BY <2>2, <2>3 DEF Settled, Clock
    <3>3. nextUpdate[y] \in Nat /\ now \in Nat
      BY <3>2 DEF Settled, SimTypes, TypeOK
    <3> QED
      BY <2>2, <3>1, <3>2, <3>3
  <2>5. n \in H
    <3>1. ~Plain(n)
      BY <2>1 DEF Plain, Leaders
    <3> QED
      BY <2>4, <3>1 DEF Agree, Covered
  <2>6. /\ \A m \in Node : Lists(memberList'[n], m) => isActive[m] /\ Near(n, m)
        /\ \A m \in Node : Near(n, m) /\ isActive[m] => InGroupOf(m, n)'
    BY <1>2, <2>5, HeadSends
  <2>7. Agree(H)'
    BY <2>4, <2>5, <2>6, SendAgrees
  <2> QED
    BY <2>3, <2>7
<1> QED
  BY <1>1, <1>2 DEF LeaderSendsIGROUP

-----------------------------------------------------------------------------
(* The leader is handed the IREPLY.                                        *)

\* What is known of the IREPLY, and what its handling changes.
LEMMA HearsFrame ==
    ASSUME Settled, LeaderHears, NEW H, Agree(H), NEW l, NEW n,
           l = ireply.leaderId, n = ireply.nodeId
    PROVE  /\ l \in Leaders /\ n \in Node /\ n # l /\ Near(l, n) /\ isActive[n] /\ isActive[l]
           /\ igroup # None /\ igroup.leaderId = l /\ heard[n] > 0
           /\ IRhanded \in Nat /\ IRhanded' = IRhanded + 1
           /\ UNCHANGED <<isActive, nextUpdate, now, igroup, ireply, heard>>
           /\ UNCHANGED <<nodeState, isbackoffExists, backoffTime, lastIGROUPMsgTime,
                          leaderId, leaderLastNonce, sessionCurrent, sessionNext,
                          nodeSecret, nodeContrib, lastNonce, key, pendingLeaderList>>
           /\ \A m \in Node \ {l} : KeepsNode(m)
           /\ \A m : m # n => SameFor(memberList[l], memberList'[l], m)
           /\ compGroupChange[l] => compGroupChange'[l]
           /\ IF ireply.sessionId = 0
              THEN /\ Knows(memberList'[l], n, ireply.nodeContrib, ireply.nodeNonce)
                   /\ HeardSince(memberList'[l], n, now)
                   /\ ~Lists(memberList[l], n) => compGroupChange'[l]
              ELSE SameFor(memberList[l], memberList'[l], n)
<1>1. TypeOK /\ IRhanded \in Nat /\ GroupInv
  BY DEF Settled, SimTypes, IRFlood!TypeOK
<1>2. ireply # None /\ IRhanded' = IRhanded + 1
  BY DEF LeaderHears
<1>3. l \in Node /\ n \in Node /\ n # l
  BY <1>1, <1>2 DEF TypeOK, IREPLYMessage, GroupInv, OthersReply
<1>4. /\ igroup # None /\ igroup.leaderId = l /\ heard[n] > 0
      /\ ireply.leaderLastNonce = lastNonce[l] /\ ireply.sessionCurrent = sessionCurrent[l]
  BY <1>2 DEF Agree, Replied
<1>5. l \in Leaders
  BY <1>1, <1>4 DEF GroupInv, LeaderSends
<1>6. Near(l, n) /\ isActive[n] /\ isActive[l]
  <2>1. isActive[l]
    BY <1>5, HeadFacts DEF Agree
  <2> QED
    BY <1>3, <1>4, <2>1 DEF Settled, ServedOnceEach
<1>7. Accepts(l) <=> ireply.sessionId = 0
  BY <1>4, <1>5 DEF Accepts, Leaders
<1>8. CASE processIREPLY(l)
  <2>1. ireply.sessionId = 0
    BY <1>7, <1>8 DEF processIREPLY
  <2>2. /\ UNCHANGED <<isActive, nextUpdate, now, igroup, ireply, heard>>
        /\ UNCHANGED <<nodeState, isbackoffExists, backoffTime, lastIGROUPMsgTime,
                       leaderId, leaderLastNonce, sessionCurrent, sessionNext,
                       nodeSecret, nodeContrib, lastNonce, key, pendingLeaderList>>
        /\ \A m \in Node \ {l} : KeepsNode(m)
    BY <1>1, <1>3, <1>8, ReplyFrame
  <2>3. /\ Knows(memberList'[l], n, ireply.nodeContrib, ireply.nodeNonce)
        /\ HeardSince(memberList'[l], n, now)
        /\ \A m : m # n => SameFor(memberList[l], memberList'[l], m)
        /\ compGroupChange[l] \/ ~Lists(memberList[l], n) => compGroupChange'[l]
    BY <1>1, <1>3, <1>8, RenewedList
  <2> QED
    BY <1>1, <1>2, <1>3, <1>4, <1>5, <1>6, <2>1, <2>2, <2>3
<1>9. CASE ~Accepts(l) /\ UNCHANGED vars
  <2>1. ireply.sessionId # 0
    BY <1>7, <1>9
  <2>2. /\ UNCHANGED <<isActive, nextUpdate, now, igroup, ireply, heard>>
        /\ UNCHANGED <<nodeState, isbackoffExists, backoffTime, lastIGROUPMsgTime,
                       leaderId, leaderLastNonce, sessionCurrent, sessionNext,
                       nodeSecret, nodeContrib, lastNonce, key, pendingLeaderList>>
        /\ UNCHANGED <<memberList, compGroupChange>>
    BY <1>9 DEF vars, roleVars, sessionVars, secretVars, groupVars, timeVars, netVars
  <2>3. \A m \in Node \ {l} : KeepsNode(m)
    BY <2>2 DEF KeepsNode
  <2>4. \A m : SameFor(memberList[l], memberList'[l], m)
    BY <2>2, SameForItself
  <2> QED
    BY <1>1, <1>2, <1>3, <1>4, <1>5, <1>6, <2>1, <2>2, <2>3, <2>4
<1> QED
  BY <1>8, <1>9 DEF LeaderHears

\* The leader now knows what the sender contributes.
LEMMA SenderIsKnown ==
    ASSUME Settled, TypeOK', LeaderHears, NEW H, Agree(H), NEW l \in H, NEW n,
           l = ireply.leaderId, n = ireply.nodeId
    PROVE  InGroupOf(n, l)'
<1>1. /\ l \in Leaders /\ n \in Node /\ n # l /\ Near(l, n) /\ isActive[n]
      /\ igroup # None /\ igroup.leaderId = l /\ heard[n] > 0
      /\ IRhanded \in Nat /\ IRhanded' = IRhanded + 1
      /\ UNCHANGED <<nextUpdate, now, igroup, ireply, heard>>
      /\ UNCHANGED <<nodeState, isbackoffExists, backoffTime, lastIGROUPMsgTime,
                     leaderId, leaderLastNonce, sessionCurrent, sessionNext,
                     nodeSecret, nodeContrib, lastNonce, key, pendingLeaderList>>
      /\ memberList'[n] = memberList[n]
      /\ compGroupChange[l] => compGroupChange'[l]
      /\ IF ireply.sessionId = 0
         THEN /\ Knows(memberList'[l], n, ireply.nodeContrib, ireply.nodeNonce)
              /\ HeardSince(memberList'[l], n, now)
              /\ ~Lists(memberList[l], n) => compGroupChange'[l]
         ELSE SameFor(memberList[l], memberList'[l], n)
  BY HearsFrame DEF KeepsNode
<1>2. heard[n] \in Nat /\ now \in Nat /\ PERIOD_INTERVAL \in Nat /\ l \in Node
  BY <1>1, TimeAssumption DEF Settled, SimTypes, TypeOK, Leaders
<1>3. InGroupOf(n, l) /\ Served(n, l) /\ ~Waiting(n, l) /\ ~Waiting(n, l)' /\ ireply # None
  BY <1>1, <1>2 DEF Agree, Grouped, Served, Waiting, LeaderHears
<1>4. ReplyingTo(n, l) <=> IRhanded = 0
  BY <1>3 DEF ReplyingTo
<1>5. ~ReplyingTo(n, l)'
  BY <1>1 DEF ReplyingTo
<1>6. LastUpdate(l) = now /\ LastUpdate(l)' = now
  <2>1. nextUpdate[l] = now + PERIOD_INTERVAL
    BY <1>1 DEF Agree, Sent
  <2> QED
    BY <1>1, <1>2, <2>1 DEF LastUpdate
<1>7. ASSUME ~ReplyingTo(n, l), ireply.sessionId = 0, NEW c, NEW x, Knows(memberList[l], n, c, x)
      PROVE  c = ireply.nodeContrib /\ x = ireply.nodeNonce
  <2>1. IRhanded > 0
    BY <1>1, <1>4, <1>7
  <2>2. Knows(memberList[l], n, ireply.nodeContrib, ireply.nodeNonce)
    BY <1>3, <1>7, <2>1 DEF Agree, Replied
  <2> QED
    BY <1>7, <2>2, KnownOnce
<1>8. CASE ireply.sessionId # 0
  <2>1. /\ Lists(memberList'[l], n) <=> Lists(memberList[l], n)
        /\ \A c, x : Knows(memberList'[l], n, c, x) <=> Knows(memberList[l], n, c, x)
        /\ \A c : Contributed(memberList'[l], n, c) <=> Contributed(memberList[l], n, c)
        /\ \A t : HeardSince(memberList'[l], n, t) <=> HeardSince(memberList[l], n, t)
    BY <1>1, <1>8, SameForSays
  <2>2. Requests(n)' = Requests(n) /\ (Pends(n, l)' <=> Pends(n, l))
    BY <1>1 DEF Requests, Pends
  <2>3. ASSUME Asked(n, l) PROVE Asked(n, l)'
    <3>1. ~ReplyingTo(n, l)
      BY <1>8, <2>3 DEF Asked, Request, Pends
    <3>2. \A p : Request(n, l, p) => Request(n, l, p)'
      BY <1>1, <1>3, <1>5, <1>6, <2>1, <3>1 DEF Request
    <3> QED
      BY <1>1, <1>3, <1>5, <1>6, <2>1, <2>2, <2>3, <3>1, <3>2 DEF Asked
  <2>4. ASSUME Confirmed(n, l) PROVE Confirmed(n, l)'
    <3>1. InStep(n, l)' <=> InStep(n, l)
      BY <1>1 DEF InStep
    <3> QED
      BY <1>1, <1>3, <1>5, <1>6, <1>8, <2>1, <2>4, <3>1 DEF Confirmed
  <2> QED
    BY <1>3, <2>3, <2>4 DEF InGroupOf, Fresh
<1>9. CASE ireply.sessionId = 0
  <2>1. /\ Knows(memberList'[l], n, ireply.nodeContrib, ireply.nodeNonce)
        /\ HeardSince(memberList'[l], n, now)
        /\ Lists(memberList'[l], n) /\ Contributed(memberList'[l], n, ireply.nodeContrib)
    BY <1>1, <1>9, KnownIsListed
  <2>2. Requests(n)' = Requests(n) /\ (Pends(n, l)' <=> Pends(n, l))
    BY <1>1 DEF Requests, Pends
  <2>3. ASSUME Asked(n, l) PROVE Asked(n, l)'
    <3>1. \A p : Request(n, l, p) =>
             /\ computeBlindedSecret(p.nodeSecret) = ireply.nodeContrib
             /\ p.lastNonce = ireply.nodeNonce
      BY <1>7, <1>9 DEF Request
    <3>2. \A p : Request(n, l, p) => Request(n, l, p)'
      BY <1>1, <1>3, <1>5, <1>6, <2>1, <3>1 DEF Request
    <3>3. compGroupChange'[l]
      BY <1>1, <1>3, <1>9, <2>3 DEF Asked
    <3> QED
      BY <1>1, <1>3, <1>5, <1>6, <2>1, <2>2, <2>3, <3>2, <3>3 DEF Asked
  <2>4. ASSUME Confirmed(n, l) PROVE Confirmed(n, l)'
    <3>1. InStep(n, l)' <=> InStep(n, l)
      BY <1>1 DEF InStep
    <3>2. nodeContrib[n] = ireply.nodeContrib /\ lastNonce[n] = ireply.nodeNonce
      BY <1>7, <1>9, <2>4 DEF Confirmed
    <3>3. HeardSince(memberList'[l], n, now - PERIOD_INTERVAL)
      <4>1. \A k \in DOMAIN memberList'[l] : memberList'[l][k].memberLastIREPLYTime \in Nat
        <5>1. memberList'[l] \in Seq(MemberRecord)
          BY <1>2 DEF TypeOK
        <5>2. \A k \in DOMAIN memberList'[l] : memberList'[l][k] \in MemberRecord
          BY <5>1, ElementOfSeq, LenProperties
        <5> QED
          BY <5>2 DEF MemberRecord
      <4> QED
        BY <1>2, <2>1, <4>1 DEF HeardSince
    <3> QED
      BY <1>1, <1>3, <1>5, <1>6, <2>1, <2>4, <3>1, <3>2, <3>3 DEF Confirmed
  <2> QED
    BY <1>3, <2>3, <2>4 DEF InGroupOf, Fresh
<1> QED
  BY <1>8, <1>9

LEMMA LeaderHearsAgrees ==
    ASSUME Settled, TypeOK', LeaderHears, NearStays, NEW H, Agree(H)
    PROVE  Agree(H)'
<1>1. PICK l, n : l = ireply.leaderId /\ n = ireply.nodeId
  OBVIOUS
<1>2. /\ l \in Leaders /\ n \in Node /\ n # l /\ Near(l, n) /\ isActive[n] /\ isActive[l]
      /\ igroup # None /\ igroup.leaderId = l /\ heard[n] > 0
      /\ IRhanded \in Nat /\ IRhanded' = IRhanded + 1
      /\ UNCHANGED <<isActive, nextUpdate, now, igroup, ireply, heard>>
      /\ UNCHANGED <<nodeState, isbackoffExists, backoffTime, lastIGROUPMsgTime,
                     leaderId, leaderLastNonce, sessionCurrent, sessionNext,
                     nodeSecret, nodeContrib, lastNonce, key, pendingLeaderList>>
      /\ \A m \in Node \ {l} : KeepsNode(m)
      /\ \A m : m # n => SameFor(memberList[l], memberList'[l], m)
      /\ compGroupChange[l] => compGroupChange'[l]
      /\ ireply.sessionId = 0 =>
           Knows(memberList'[l], n, ireply.nodeContrib, ireply.nodeNonce)
  BY <1>1, HearsFrame
<1>3. l \in Node /\ nodeState[l] = "Leader" /\ heard[n] \in Nat /\ ireply # None
  BY <1>2 DEF Leaders, Settled, SimTypes, TypeOK, LeaderHears
<1>4. Leaders' = Leaders /\ H \subseteq Leaders /\ H \subseteq Node
  BY <1>2 DEF Leaders, Agree, HeadsLead
<1>5. \A m \in Node : Plain(m) => Plain(m)'
  <2>1. ~Plain(l)
    BY <1>3 DEF Plain
  <2> QED
    BY <1>2, <2>1 DEF Plain, KeepsNode
<1>6. HeadsLead(H)' /\ Covered(H)'
  BY <1>4, <1>5 DEF Agree, HeadsLead, Covered, NearStays
<1>7. Asleep'
  BY <1>2, <1>5 DEF Agree, Asleep
<1>8. ListsNear(H)'
  <2>1. \A y \in H \ {l} : memberList'[y] = memberList[y]
    BY <1>2, <1>4 DEF KeepsNode
  <2>2. \A m : m # n => (Lists(memberList'[l], m) <=> Lists(memberList[l], m))
    BY <1>2, SameForSays
  <2>3. \A y \in H : \A m \in Node : Lists(memberList[y], m) => isActive[m] /\ Near(y, m)
    BY DEF Agree, ListsNear
  <2>4. \A y \in H : \A m \in Node : Lists(memberList'[y], m) => isActive[m] /\ Near(y, m)
    BY <1>2, <2>1, <2>2, <2>3
  <2> QED
    BY <1>2, <2>4 DEF ListsNear, Lists, NearStays
<1>9. \A y, m : /\ Waiting(m, y)' <=> Waiting(m, y)
                /\ Served(m, y)' <=> Served(m, y)
                /\ ~ReplyingTo(m, y)'
                /\ m # n \/ y # l => ~ReplyingTo(m, y)
                /\ y # l => ~Waiting(m, y)
  BY <1>1, <1>2 DEF Waiting, Served, ReplyingTo
<1>10. HeadsFirst(H)'
  BY <1>2, <1>4, <1>9 DEF Agree, HeadsFirst, NearStays
<1>11. Sent(H)'
  <2>1. \A m \in Node : heard[m] = 0 =>
          Tells(igroup.memberInfoList, memberList[l], m) /\ m # n
    BY <1>2, <1>3 DEF Agree, Sent
  <2>2. ASSUME NEW m \in Node, heard[m] = 0 PROVE Tells(igroup.memberInfoList, memberList'[l], m)
    <3>1. SameFor(memberList[l], memberList'[l], m)
      BY <1>2, <2>1, <2>2
    <3> QED
      BY <2>1, <2>2, <3>1, TellsKept
  <2> QED
    BY <1>2, <2>2 DEF Agree, Sent, NearStays, Tells, Lists
<1>12. Replied'
  BY <1>1, <1>2, <1>3 DEF Agree, Replied, Knows, Lists
<1>13. Grouped(H)'
  <2> SUFFICES ASSUME NEW y \in H, NEW m \in Node, Near(y, m), isActive[m]
               PROVE  InGroupOf(m, y)'
    BY <1>2 DEF Grouped, NearStays
  <2>1. InGroupOf(m, y) /\ y \in Node /\ y # m
    BY <1>4 DEF Agree, Grouped, Near, IG!InRange
  <2>2. CASE y = l /\ m = n
    BY <1>1, <2>2, SenderIsKnown
  <2>3. CASE y = l /\ m # n
    <3>1. KeepsNode(m)
      BY <1>2, <2>1, <2>3
    <3>2. KeepsFor(y, m)
      BY <1>2, <2>3 DEF KeepsFor
    <3>3. KeepsMessages(m, y)
      BY <1>9, <2>3 DEF KeepsMessages
    <3> QED
      BY <2>1, <3>1, <3>2, <3>3, InGroupKept
  <2>4. CASE y # l
    <3>1. KeepsNode(y)
      BY <1>2, <2>1, <2>4
    <3>2. KeepsFor(y, m)
      BY <1>2, <3>1, SameForItself DEF KeepsFor, KeepsNode
    <3>3. KeepsMessages(m, y)
      BY <1>9, <2>4 DEF KeepsMessages
    <3>4. CASE m # l
      BY <1>2, <2>1, <3>2, <3>3, <3>4, InGroupKept
    <3>5. CASE m = l
      <4>1. Asked(l, y) /\ nodeState'[l] = "Leader"
        BY <1>2, <1>3, <2>1, <3>5 DEF InGroupOf, Fresh, Confirmed
      <4>2. Requests(l)' = Requests(l) /\ LastUpdate(y)' = LastUpdate(y)
        BY <1>2 DEF Requests, LastUpdate
      <4>3. Pends(l, y)' <=> Pends(l, y)
        BY <4>2 DEF Pends
      <4>4. \A p : Request(l, y, p) => Request(l, y, p)'
        BY <1>9, <2>4, <3>1, <4>2 DEF Request, KeepsNode
      <4>5. Asked(l, y)'
        BY <1>9, <2>4, <3>1, <4>1, <4>2, <4>3, <4>4 DEF Asked, KeepsNode
      <4> QED
        BY <3>5, <4>5 DEF InGroupOf
    <3> QED
      BY <3>4, <3>5
  <2> QED
    BY <2>2, <2>3, <2>4
<1> QED
  BY <1>6, <1>7, <1>8, <1>10, <1>11, <1>12, <1>13 DEF Agree

-----------------------------------------------------------------------------
(* A node is handed the IGROUP.                                            *)

\* The reply, if there is one.
Answers(n, nonce, contrib, id) ==
    /\ ireply' # None /\ ireply'.nodeId = n /\ ireply'.leaderId = igroup.leaderId
    /\ ireply'.leaderLastNonce = igroup.leaderLastNonce
    /\ ireply'.sessionCurrent = igroup.sessionCurrent
    /\ ireply'.nodeNonce = nonce /\ ireply'.nodeContrib = contrib /\ ireply'.sessionId = id

LEMMA ReplyAnswers ==
    ASSUME TypeOK, NEW n \in Node, igroup # None, NEW nonce \in Nat, NEW contrib \in Elem,
           NEW id \in Int,
           Reply(n, igroup.leaderId, igroup.leaderLastNonce, igroup.sessionCurrent,
                 nonce, contrib, id)
    PROVE  Answers(n, nonce, contrib, id)
<1>1. igroup \in IGROUPMessage
  BY DEF TypeOK
<1>2. ireply' \in IREPLYMessage
  BY <1>1, IGROUPFields, ReplyTypes
<1>3. ireply' # None
  BY <1>2, QueueAssumption
<1> QED
  BY <1>3 DEF Answers, Reply

LEMMA JoinSays ==
    ASSUME TypeOK, NEW n \in Node, JoinLeader(n)
    PROVE  /\ Answers(n, rng + 1, computeBlindedSecret(secrets + 1), igroup.sessionId)
           /\ UNCHANGED <<nodeState, isbackoffExists, backoffTime, lastIGROUPMsgTime, leaderId,
                          leaderLastNonce, sessionCurrent, sessionNext, nodeSecret, nodeContrib,
                          lastNonce, key, memberList, compGroupChange>>
           /\ \E new \in PendingLeader :
                /\ new.pendingLeaderId = igroup.leaderId /\ new.lastNonce = rng + 1
                /\ new.nodeSecret = secrets + 1 /\ new.pendingLeaderLastIGROUPTime = now
                /\ new \in Requests(n)' /\ Requests(n)' \subseteq Requests(n) \cup {new}
                /\ \A p \in Requests(n) :
                     now - p.pendingLeaderLastIGROUPTime < LEADER_LAST_TIME => p \in Requests(n)'
<1> DEFINE old == {i \in DOMAIN pendingLeaderList[n] :
                     now - pendingLeaderList[n][i].pendingLeaderLastIGROUPTime
                       >= LEADER_LAST_TIME}
           new == pendingLeader(igroup.leaderId, igroup.leaderLastNonce,
                                igroup.sessionCurrent, DrawnAt(rng), secrets + 1, now)
<1>1. igroup # None /\ igroup \in IGROUPMessage /\ rng \in Nat /\ secrets \in Nat /\ now \in Nat
  BY DEF JoinLeader, Receives, TypeOK
<1>2. /\ igroup.leaderId \in Node /\ igroup.sessionId \in Int /\ rng + 1 \in Nat
      /\ secrets + 1 \in Nat /\ igroup.leaderLastNonce \in Nat /\ igroup.sessionCurrent \in Nat
  BY <1>1, IGROUPFields
<1>3. Answers(n, rng + 1, computeBlindedSecret(secrets + 1), igroup.sessionId)
  <2>1. Reply(n, igroup.leaderId, igroup.leaderLastNonce, igroup.sessionCurrent, rng + 1,
              computeBlindedSecret(secrets + 1), igroup.sessionId)
    BY DEF JoinLeader, DrawnAt
  <2>2. computeBlindedSecret(secrets + 1) \in Elem
    BY <1>2, CryptoTypes
  <2> QED
    BY <1>1, <1>2, <2>1, <2>2, ReplyAnswers
<1>4. UNCHANGED <<nodeState, isbackoffExists, backoffTime, lastIGROUPMsgTime, leaderId,
                  leaderLastNonce, sessionCurrent, sessionNext, nodeSecret, nodeContrib,
                  lastNonce, key, memberList, compGroupChange>>
  BY DEF JoinLeader, roleVars, sessionVars, secretVars, groupVars
<1>5. PICK list \in Swept(pendingLeaderList[n], old) :
        pendingLeaderList' = [pendingLeaderList EXCEPT ![n] = Append(list, new)]
  BY Zenon DEF JoinLeader
<1>6. pendingLeaderList'[n] = Append(list, new)
  BY <1>5 DEF TypeOK
<1>7. /\ new \in PendingLeader
      /\ new.pendingLeaderId = igroup.leaderId /\ new.lastNonce = rng + 1
      /\ new.nodeSecret = secrets + 1 /\ new.pendingLeaderLastIGROUPTime = now
  BY <1>1, <1>2 DEF pendingLeader, DrawnAt, PendingLeader
<1>8. pendingLeaderList[n] \in Seq(PendingLeader)
  BY DEF TypeOK
<1> HIDE DEF new, old
<1>9. /\ new \in Requests(n)' /\ Requests(n)' \subseteq Requests(n) \cup {new}
      /\ \A k \in DOMAIN pendingLeaderList[n] :
           k \notin old => pendingLeaderList[n][k] \in Requests(n)'
  <2>1. /\ Append(list, new) \in Seq(PendingLeader)
        /\ new \in ElementsOf(Append(list, new))
        /\ ElementsOf(Append(list, new)) \subseteq ElementsOf(pendingLeaderList[n]) \cup {new}
        /\ \A k \in DOMAIN pendingLeaderList[n] :
             k \notin old => pendingLeaderList[n][k] \in ElementsOf(Append(list, new))
    <3>1. list \in Swept(pendingLeaderList[n], old) /\ new \in PendingLeader
      BY <1>5, <1>7
    <3> QED
      BY <1>8, <3>1, RequestsSwept
  <2> QED
    BY <1>6, <2>1 DEF Requests
<1>10. ASSUME NEW p \in Requests(n), now - p.pendingLeaderLastIGROUPTime < LEADER_LAST_TIME
       PROVE  p \in Requests(n)'
  <2>1. PICK k \in DOMAIN pendingLeaderList[n] : p = pendingLeaderList[n][k]
    BY <1>8, LenProperties DEF Requests, ElementsOf
  <2>2. p.pendingLeaderLastIGROUPTime \in Nat
    BY RequestTypes, PendingFields
  <2>3. k \notin old
    BY <1>1, <1>10, <2>1, <2>2, TimeAssumption DEF old
  <2> QED
    BY <1>9, <2>1, <2>3
<1> QED
  <2>1. \A p \in Requests(n) :
          now - p.pendingLeaderLastIGROUPTime < LEADER_LAST_TIME => p \in Requests(n)'
    BY <1>10
  <2>2. /\ new \in Requests(n)' /\ Requests(n)' \subseteq Requests(n) \cup {new}
    BY <1>9
  <2> QED
    BY <1>3, <1>4, <1>7, <2>1, <2>2

LEMMA MemberSays ==
    ASSUME TypeOK, NEW n \in Node, BecomeMember(n)
    PROVE  /\ nodeState'[n] = "Member" /\ leaderId'[n] = igroup.leaderId
           /\ lastIGROUPMsgTime'[n] = now /\ leaderLastNonce'[n] = igroup.leaderLastNonce
           /\ sessionCurrent'[n] = igroup.sessionCurrent /\ sessionNext'[n] = igroup.sessionNext
           /\ Listed(n) /\ ~AnswersPending(n)
           /\ \E p \in Requests(n) :
                /\ p.pendingLeaderId = igroup.leaderId
                /\ nodeSecret'[n] = p.nodeSecret /\ lastNonce'[n] = p.lastNonce
                /\ nodeContrib'[n] = computeBlindedSecret(p.nodeSecret)
                /\ ComputeKey(n, p.nodeSecret, FALSE)
                /\ Answers(n, p.lastNonce, computeBlindedSecret(p.nodeSecret), sessionId[n])
<1>1. /\ nodeState'[n] = "Member" /\ leaderId'[n] = igroup.leaderId
      /\ lastIGROUPMsgTime'[n] = now /\ leaderLastNonce'[n] = igroup.leaderLastNonce
      /\ sessionCurrent'[n] = igroup.sessionCurrent /\ sessionNext'[n] = igroup.sessionNext
      /\ Listed(n) /\ ~AnswersPending(n)
  BY DEF BecomeMember, TypeOK
<1>2. PICK k \in PendingWith(n, igroup.leaderId) :
        /\ lastNonce' = [lastNonce EXCEPT ![n] = pendingLeaderList[n][k].lastNonce]
        /\ nodeSecret' = [nodeSecret EXCEPT ![n] = pendingLeaderList[n][k].nodeSecret]
        /\ nodeContrib' = [nodeContrib EXCEPT ![n] =
                             computeBlindedSecret(pendingLeaderList[n][k].nodeSecret)]
        /\ ComputeKey(n, pendingLeaderList[n][k].nodeSecret, FALSE)
  BY DEF BecomeMember
<1>3. PICK p : p = pendingLeaderList[n][k]
  OBVIOUS
<1>4. p \in Requests(n) /\ p.pendingLeaderId = igroup.leaderId
  <2>1. k \in DOMAIN pendingLeaderList[n] /\ pendingLeaderList[n] \in Seq(PendingLeader)
    BY RequestTypes DEF PendingWith
  <2> QED
    BY <1>2, <1>3, <2>1, LenProperties DEF Requests, ElementsOf, PendingWith
<1>5. /\ nodeSecret'[n] = p.nodeSecret /\ lastNonce'[n] = p.lastNonce
      /\ nodeContrib'[n] = computeBlindedSecret(p.nodeSecret)
  BY <1>2, <1>3 DEF TypeOK
<1>6. Answers(n, p.lastNonce, computeBlindedSecret(p.nodeSecret), sessionId[n])
  <2>1. Reply(n, igroup.leaderId, igroup.leaderLastNonce, igroup.sessionCurrent,
              lastNonce'[n], nodeContrib'[n], sessionId[n]) /\ igroup # None
    BY DEF BecomeMember, Receives
  <2>2. p.lastNonce \in Nat /\ p.nodeSecret \in Nat
    BY <1>4, RequestTypes, PendingFields
  <2>3. computeBlindedSecret(p.nodeSecret) \in Elem /\ sessionId[n] \in Int
    BY <2>2, CryptoTypes DEF TypeOK
  <2>4. Reply(n, igroup.leaderId, igroup.leaderLastNonce, igroup.sessionCurrent,
              p.lastNonce, computeBlindedSecret(p.nodeSecret), sessionId[n])
    BY <1>5, <2>1
  <2> QED
    BY <2>1, <2>2, <2>3, <2>4, ReplyAnswers
<1> QED
  BY <1>1, <1>2, <1>3, <1>4, <1>5, <1>6

LEMMA AcceptSays ==
    ASSUME TypeOK, NEW n \in Node, AcceptFromLeader(n), TRUE \notin LastSecretExpired
    PROVE  /\ nodeState[n] = "Member" /\ leaderId[n] = igroup.leaderId /\ Listed(n)
           /\ UNCHANGED <<nodeState, isbackoffExists, backoffTime, leaderId, nodeSecret,
                          nodeContrib, pendingLeaderList>>
           /\ lastIGROUPMsgTime'[n] = now /\ lastNonce'[n] = rng + 1
           /\ ComputeKey(n, nodeSecret[n], SessionMoves(n))
           /\ InfoOf(n).memberContrib = nodeContrib[n]
           /\ IF SessionMoves(n)
              THEN /\ sessionNext'[n] = igroup.sessionNext
                   /\ sessionCurrent'[n] = igroup.sessionCurrent
                   /\ leaderLastNonce'[n] = igroup.leaderLastNonce
              ELSE /\ UNCHANGED <<sessionNext, sessionCurrent, leaderLastNonce>>
                   /\ sessionCurrent[n] = igroup.sessionCurrent
                   /\ leaderLastNonce[n] = igroup.leaderLastNonce
           /\ Answers(n, rng + 1, nodeContrib[n], igroup.sessionId)
<1>1. /\ nodeState[n] = "Member" /\ leaderId[n] = igroup.leaderId /\ Listed(n)
      /\ InfoOf(n).memberContrib = nodeContrib[n]
      /\ ComputeKey(n, nodeSecret[n], SessionMoves(n))
      /\ igroup # None /\ igroup \in IGROUPMessage /\ AdoptSession(n) /\ ConfirmsMember(n)
  BY DEF AcceptFromLeader, FromMyLeader, ConfirmsMember, Receives, TypeOK
<1>2. /\ UNCHANGED <<nodeState, isbackoffExists, backoffTime, leaderId,
                     nodeContrib, pendingLeaderList>>
      /\ lastIGROUPMsgTime'[n] = now /\ lastNonce'[n] = rng + 1
  BY DEF AcceptFromLeader, roleVars, TypeOK, DrawnAt
<1>3. /\ nodeSecret' = nodeSecret
      /\ Reply(n, leaderId[n], leaderLastNonce'[n], sessionCurrent'[n],
               DrawnAt(rng), nodeContrib[n], igroup.sessionId)
  <2>1. PICK expired \in LastSecretExpired :
          /\ ~expired => nodeSecret' = nodeSecret
          /\ Reply(n, leaderId[n], leaderLastNonce'[n],
                   IF expired THEN sessionNext'[n] ELSE sessionCurrent'[n],
                   DrawnAt(rng), nodeContrib[n], igroup.sessionId)
    BY DEF AcceptFromLeader
  <2>2. expired = FALSE
    BY ChoiceAssumption
  <2> QED
    BY <2>1, <2>2
<1>4. IF SessionMoves(n)
      THEN /\ sessionNext'[n] = igroup.sessionNext
           /\ sessionCurrent'[n] = igroup.sessionCurrent
           /\ leaderLastNonce'[n] = igroup.leaderLastNonce
      ELSE /\ UNCHANGED <<sessionNext, sessionCurrent, leaderLastNonce>>
           /\ sessionCurrent[n] = igroup.sessionCurrent
           /\ leaderLastNonce[n] = igroup.leaderLastNonce
  <2>1. ASSUME SessionMoves(n)
        PROVE  /\ sessionNext'[n] = igroup.sessionNext
               /\ sessionCurrent'[n] = igroup.sessionCurrent
               /\ leaderLastNonce'[n] = igroup.leaderLastNonce
    BY <1>1, <2>1 DEF AdoptSession, TypeOK
  <2>2. ASSUME ~SessionMoves(n)
        PROVE  /\ UNCHANGED <<sessionNext, sessionCurrent, leaderLastNonce>>
               /\ sessionCurrent[n] = igroup.sessionCurrent
               /\ leaderLastNonce[n] = igroup.leaderLastNonce
    BY <1>1, <2>2 DEF AdoptSession, ConfirmsMember, sessionVars
  <2> QED
    BY <2>1, <2>2
<1>5. Answers(n, rng + 1, nodeContrib[n], igroup.sessionId)
  <2>1. sessionCurrent'[n] = igroup.sessionCurrent /\ leaderLastNonce'[n] = igroup.leaderLastNonce
    BY <1>4
  <2>2. Reply(n, igroup.leaderId, igroup.leaderLastNonce, igroup.sessionCurrent,
              rng + 1, nodeContrib[n], igroup.sessionId)
    BY <1>1, <1>3, <2>1 DEF DrawnAt
  <2>3. rng + 1 \in Nat /\ nodeContrib[n] \in Elem
    BY DEF TypeOK
  <2>4. igroup.sessionId \in Int
    BY <1>1, IGROUPFields
  <2> QED
    BY <1>1, <2>2, <2>3, <2>4, ReplyAnswers
<1> QED
  BY <1>1, <1>2, <1>3, <1>4, <1>5

IsHanded(n) ==
    /\ processIGROUP(n) /\ ireply = None
    /\ ireply' # None => IRhanded' = 0

LEMMA HandFacts ==
    ASSUME Settled, ServedOnceEach', NearStays, NEW n \in Node, IsHanded(n), NEW H, Agree(H),
           NEW l, l = igroup.leaderId
    PROVE  /\ igroup # None /\ igroup' = igroup /\ igroup.sessionId = 0
           /\ l \in Leaders /\ l \in Node /\ l # n /\ Near(l, n) /\ isActive[n]
           /\ igroup.sessionCurrent = sessionCurrent[l] /\ igroup.sessionNext = sessionNext[l]
           /\ igroup.leaderLastNonce = lastNonce[l]
           /\ heard[n] = 0 /\ heard'[n] = 1
           /\ \A m \in Node \ {n} : heard'[m] = heard[m]
           /\ now <= simulationTime /\ nextUpdate[l] = now + PERIOD_INTERVAL
           /\ LastUpdate(l) = now
           /\ UNCHANGED <<isActive, nextUpdate, now, compGroupChange>>
           /\ \A m \in Node \ {n} : KeepsNode(m)
           /\ Tells(igroup.memberInfoList, memberList[l], n)
<1>1. /\ Receives(n)
      /\ UNCHANGED <<isActive, nextUpdate, now, compGroupChange>>
      /\ \A m \in Node \ {n} : KeepsNode(m)
  BY HandFrame DEF Settled, SimTypes, IsHanded
<1>2. /\ igroup # None /\ igroup' = igroup /\ l # n /\ isActive[n]
      /\ heard' = [heard EXCEPT ![n] = @ + 1]
  BY <1>1 DEF Receives
<1>3. /\ l \in Leaders /\ l \in Node
      /\ igroup.sessionCurrent = sessionCurrent[l] /\ igroup.sessionNext = sessionNext[l]
      /\ igroup.leaderLastNonce = lastNonce[l]
  BY <1>2 DEF Settled, GroupInv, LeaderSends, Leaders
<1>4. /\ heard[n] \in Nat /\ heard'[n] = heard[n] + 1
      /\ \A m \in Node \ {n} : heard'[m] = heard[m]
  BY <1>2 DEF Settled, SimTypes, TypeOK
<1>5. heard'[n] <= 1 /\ (heard'[n] > 0 => Near(l, n))
  BY <1>2 DEF ServedOnceEach, NearStays
<1>6. heard[n] = 0 /\ heard'[n] = 1 /\ Near(l, n)
  BY <1>4, <1>5
<1>7. /\ igroup.sessionId = 0
      /\ now <= simulationTime /\ nextUpdate[l] = now + PERIOD_INTERVAL
      /\ Tells(igroup.memberInfoList, memberList[l], n)
  BY <1>2, <1>6 DEF Agree, Sent
<1>8. LastUpdate(l) = now
  BY <1>7, TimeAssumption DEF LastUpdate, Settled, SimTypes, TypeOK
<1> QED
  BY <1>1, <1>2, <1>3, <1>4, <1>6, <1>7, <1>8

\* Whatever the node does, a reply says what the leader has sent.
LEMMA HandReplies ==
    ASSUME Settled, ServedOnceEach', NearStays, NEW n \in Node, IsHanded(n), NEW H, Agree(H),
           TRUE \notin LastSecretExpired
    PROVE  /\ ireply' = None \/ \E nonce, contrib, id : Answers(n, nonce, contrib, id)
           /\ Replied'
<1>1. PICK l : l = igroup.leaderId
  OBVIOUS
<1>2. /\ igroup # None /\ igroup' = igroup
      /\ l \in Node /\ l # n
      /\ igroup.sessionCurrent = sessionCurrent[l]
      /\ igroup.leaderLastNonce = lastNonce[l]
      /\ heard'[n] = 1
      /\ KeepsNode(l)
  BY <1>1, HandFacts
<1>3. TypeOK
  BY DEF Settled, SimTypes
<1>4. ireply' = None \/ \E nonce, contrib, id : Answers(n, nonce, contrib, id)
  <2>1. CASE AcceptFromLeader(n)
    BY <1>3, <2>1, AcceptSays
  <2>2. CASE JoinLeader(n)
    BY <1>3, <2>2, JoinSays
  <2>3. CASE BecomeMember(n)
    BY <1>3, <2>3, MemberSays
  <2>4. CASE RejectFromLeader(n) \/ IgnoreIGROUP(n)
    BY <2>4 DEF RejectFromLeader, IgnoreIGROUP, IsHanded
  <2> QED
    BY <2>1, <2>2, <2>3, <2>4 DEF IsHanded, processIGROUP
<1>5. ASSUME NEW nonce, NEW contrib, NEW id, Answers(n, nonce, contrib, id) PROVE Replied'
  <2>1. /\ ireply' # None /\ ireply'.nodeId = n /\ ireply'.leaderId = l
        /\ ireply'.leaderLastNonce = lastNonce[l]
        /\ ireply'.sessionCurrent = sessionCurrent[l]
    BY <1>1, <1>2, <1>5 DEF Answers
  <2>2. IRhanded' = 0
    BY <2>1 DEF IsHanded
  <2> QED
    BY <1>1, <1>2, <2>1, <2>2 DEF Replied, KeepsNode
<1> QED
  BY <1>4, <1>5 DEF Replied

\* One that has not asked yet asks.
LEMMA FreshAsks ==
    ASSUME Settled, ServedOnceEach', NearStays, NEW n \in Node, IsHanded(n), NEW H, Agree(H),
           NEW l, l = igroup.leaderId, Fresh(n, l)
    PROVE  nodeState'[n] # "Leader" /\ Asked(n, l)'
<1>1. /\ igroup # None /\ igroup' = igroup /\ igroup.sessionId = 0
      /\ l \in Node /\ l # n
      /\ heard'[n] = 1 /\ LastUpdate(l) = now
      /\ nextUpdate' = nextUpdate
      /\ KeepsNode(l)
      /\ Tells(igroup.memberInfoList, memberList[l], n)
  BY HandFacts
<1>2. TypeOK /\ NumbersOf(l) /\ nodeSecret[l] \in Nat /\ secrets \in Nat
  BY <1>1 DEF Settled, SimTypes, Numbers, TypeOK
<1>3. nodeState[n] = "Detached" /\ ~Listed(n)
  BY <1>1 DEF Fresh, Tells, Listed, Lists
<1>4. JoinLeader(n)
  BY <1>3 DEF IsHanded, processIGROUP, AcceptFromLeader, RejectFromLeader, BecomeMember,
              IgnoreIGROUP, FromMyLeader, Prefers
<1>5. /\ Answers(n, rng + 1, computeBlindedSecret(secrets + 1), 0)
      /\ UNCHANGED <<nodeState, memberList>>
  BY <1>1, <1>2, <1>4, JoinSays
<1>6. PICK new \in PendingLeader :
        /\ new.pendingLeaderId = l /\ new.lastNonce = rng + 1
        /\ new.nodeSecret = secrets + 1 /\ new.pendingLeaderLastIGROUPTime = now
        /\ new \in Requests(n)' /\ Requests(n)' \subseteq Requests(n) \cup {new}
  BY <1>2, <1>4, JoinSays
<1>7. ~Lists(memberList'[l], n) /\ nodeSecret'[l] = nodeSecret[l] /\ LastUpdate(l)' = now
  BY <1>1 DEF Fresh, KeepsNode, LastUpdate
<1>8. /\ ReplyingTo(n, l)' /\ ~Waiting(n, l)' /\ ireply'.sessionId = 0
      /\ ireply'.nodeContrib = computeBlindedSecret(new.nodeSecret)
      /\ ireply'.nodeNonce = new.lastNonce
  BY <1>1, <1>5, <1>6 DEF Answers, ReplyingTo, Waiting, IsHanded
<1>9. Request(n, l, new)'
  <2>1. nodeSecret[l] <= secrets
    BY <1>2 DEF NumbersOf
  <2>2. secrets + 1 # nodeSecret[l]
    BY <1>2, <2>1
  <2>3. now \in Nat
    BY <1>2 DEF TypeOK
  <2>4. now >= now
    BY <2>3
  <2> QED
    BY <2>2, <2>4, <1>6, <1>7, <1>8, <2>1 DEF Request
<1>10. \A p \in Requests(n)' : p.pendingLeaderId = l => p = new
  BY <1>6 DEF Fresh, Pends
<1>11. Asked(n, l)'
  <2>1. nodeState'[n] = "Detached" /\ memberList'[n] = <<>>
    BY <1>3, <1>5 DEF Fresh
  <2>2. Pends(n, l)'
    BY <1>6 DEF Pends
  <2>3. HeardSince(memberList'[l], n, LastUpdate(l)')
    BY <1>7 DEF HeardSince, Lists
  <2> QED
    BY <1>7, <1>8, <1>9, <1>10, <2>1, <2>2, <2>3 DEF Asked
<1> QED
  BY <1>3, <1>5, <1>11

\* One that has asked becomes a member, with the key of the leader.
LEMMA AskedJoins ==
    ASSUME Settled, ServedOnceEach', NearStays, NEW n \in Node, IsHanded(n), NEW H, Agree(H),
           NEW l, l = igroup.leaderId, Asked(n, l)
    PROVE  nodeState'[n] # "Leader" /\ Confirmed(n, l)'
<1>1. /\ igroup # None /\ igroup' = igroup
      /\ l \in Node /\ l # n
      /\ igroup.sessionCurrent = sessionCurrent[l] /\ igroup.sessionNext = sessionNext[l]
      /\ igroup.leaderLastNonce = lastNonce[l]
      /\ heard[n] = 0 /\ heard'[n] = 1 /\ LastUpdate(l) = now
      /\ nextUpdate' = nextUpdate
      /\ KeepsNode(l)
      /\ Tells(igroup.memberInfoList, memberList[l], n)
  BY HandFacts
<1>2. TypeOK /\ GroupIsASet /\ KeyInv /\ now \in Nat
  BY DEF Settled, SimTypes, GroupInv, TypeOK
<1>3. Waiting(n, l) /\ ~ReplyingTo(n, l)
  BY <1>1 DEF Waiting, ReplyingTo, IsHanded
<1>4. /\ nodeState[n] \in {"Detached", "Leader"}
      /\ nodeState[n] = "Detached" => memberList[n] = <<>>
      /\ Pends(n, l)
      /\ \A p \in Requests(n) :
           /\ p.pendingLeaderId = l => /\ Knows(memberList[l], n, computeBlindedSecret(p.nodeSecret),
                                                p.lastNonce)
                                       /\ p.nodeSecret # nodeSecret[l]
           /\ p.pendingLeaderNonce # lastNonce[l]
      /\ HeardSince(memberList[l], n, LastUpdate(l) - PERIOD_INTERVAL)
  BY <1>3 DEF Asked, Request
<1>5. \A p \in Requests(n) : p.pendingLeaderId = l =>
         Listed(n) /\ InfoOf(n).memberContrib = computeBlindedSecret(p.nodeSecret)
  <2> SUFFICES ASSUME NEW p \in Requests(n), p.pendingLeaderId = l
               PROVE  Listed(n) /\ InfoOf(n).memberContrib = computeBlindedSecret(p.nodeSecret)
    OBVIOUS
  <2>1. Knows(igroup.memberInfoList, n, computeBlindedSecret(p.nodeSecret), p.lastNonce)
    BY <1>1, <1>4, TellsKnown
  <2> QED
    BY <1>1, <1>2, <2>1, InfoKnown
<1>6. Listed(n)
  BY <1>4, <1>5 DEF Pends
<1>7. ~AnswersPending(n) /\ PendingWith(n, l) # {}
  <2>1. pendingLeaderList[n] \in Seq(PendingLeader)
    BY <1>2, RequestTypes
  <2>2. \A k \in DOMAIN pendingLeaderList[n] : pendingLeaderList[n][k] \in Requests(n)
    BY <2>1, LenProperties DEF Requests, ElementsOf
  <2>3. \A p \in Requests(n) : \E k \in DOMAIN pendingLeaderList[n] : pendingLeaderList[n][k] = p
    BY <2>1, LenProperties DEF Requests, ElementsOf
  <2>4. ~AnswersPending(n)
    BY <1>1, <1>4, <2>2 DEF AnswersPending
  <2>5. PendingWith(n, l) # {}
    BY <1>4, <2>3 DEF PendingWith, Pends
  <2> QED
    BY <2>4, <2>5
<1>8. BecomeMember(n)
  <2>1. ~FromMyLeader(n)
    BY <1>4 DEF FromMyLeader
  <2> QED
    BY <1>6, <1>7, <2>1 DEF IsHanded, processIGROUP, AcceptFromLeader, RejectFromLeader,
                            JoinLeader, IgnoreIGROUP
<1>9. /\ nodeState'[n] = "Member" /\ leaderId'[n] = l
      /\ lastIGROUPMsgTime'[n] = now /\ leaderLastNonce'[n] = lastNonce[l]
      /\ sessionCurrent'[n] = sessionCurrent[l] /\ sessionNext'[n] = sessionNext[l]
  BY <1>1, <1>2, <1>8, MemberSays
<1>10. PICK p \in Requests(n) :
         /\ p.pendingLeaderId = l
         /\ nodeSecret'[n] = p.nodeSecret /\ lastNonce'[n] = p.lastNonce
         /\ nodeContrib'[n] = computeBlindedSecret(p.nodeSecret)
         /\ ComputeKey(n, p.nodeSecret, FALSE)
         /\ Answers(n, p.lastNonce, computeBlindedSecret(p.nodeSecret), sessionId[n])
  BY <1>2, <1>8, MemberSays
<1>11. key'[n] = key[l]
  <2>1. ~SameMembers(n)
    <3>1. CASE nodeState[n] = "Detached"
      BY <1>4, <3>1 DEF SameMembers, SameLength
    <3>2. CASE nodeState[n] = "Leader"
      BY <1>1, <1>2, <1>6, <3>2, NotMyGroup DEF Leaders
    <3> QED
      BY <1>4, <3>1, <3>2
  <2>2. InfoOf(n).memberContrib = computeBlindedSecret(p.nodeSecret) /\ p.nodeSecret # nodeSecret[l]
    BY <1>4, <1>5, <1>10
  <2> QED
    BY <1>1, <1>2, <1>6, <1>10, <2>1, <2>2, ComputesLeadersKey
<1>12. Knows(memberList[l], n, nodeContrib'[n], lastNonce'[n])
  BY <1>4, <1>10
<1>13. /\ memberList'[l] = memberList[l] /\ nodeSecret'[l] = nodeSecret[l] /\ key'[l] = key[l]
       /\ sessionCurrent'[l] = sessionCurrent[l] /\ sessionNext'[l] = sessionNext[l]
       /\ lastNonce'[l] = lastNonce[l] /\ LastUpdate(l)' = LastUpdate(l)
  BY <1>1 DEF KeepsNode, LastUpdate
<1>14. ~Waiting(n, l)' /\ InStep(n, l)'
  BY <1>1, <1>9, <1>11, <1>13 DEF Waiting, InStep
<1>15. ireply'.nodeContrib = nodeContrib'[n] /\ ireply'.nodeNonce = lastNonce'[n]
  BY <1>10 DEF Answers
<1>16. Lists(memberList'[l], n) /\ Contributed(memberList'[l], n, nodeContrib'[n])
  BY <1>12, <1>13, KnownIsListed
<1>17. nodeSecret'[n] # nodeSecret'[l] /\ nodeContrib'[n] = computeBlindedSecret(nodeSecret'[n])
  BY <1>4, <1>10, <1>13
<1>18. lastIGROUPMsgTime'[n] >= LastUpdate(l)'
  BY <1>1, <1>2, <1>9, <1>13
<1>19. /\ Knows(memberList'[l], n, nodeContrib'[n], lastNonce'[n])
       /\ HeardSince(memberList'[l], n, LastUpdate(l)' - PERIOD_INTERVAL)
  BY <1>4, <1>12, <1>13
<1> QED
  BY <1>9, <1>14, <1>15, <1>16, <1>17, <1>18, <1>19 DEF Confirmed

\* A member follows its leader.
LEMMA ConfirmedFollows ==
    ASSUME Settled, ServedOnceEach', NearStays, NEW n \in Node, IsHanded(n), NEW H, Agree(H),
           NEW l, l = igroup.leaderId, Confirmed(n, l), TRUE \notin LastSecretExpired
    PROVE  nodeState'[n] # "Leader" /\ Confirmed(n, l)'
<1>1. /\ igroup # None /\ igroup' = igroup /\ igroup.sessionId = 0
      /\ l \in Node /\ l # n
      /\ igroup.sessionCurrent = sessionCurrent[l] /\ igroup.sessionNext = sessionNext[l]
      /\ igroup.leaderLastNonce = lastNonce[l]
      /\ heard[n] = 0 /\ heard'[n] = 1 /\ LastUpdate(l) = now
      /\ nextUpdate' = nextUpdate
      /\ KeepsNode(l)
      /\ Tells(igroup.memberInfoList, memberList[l], n)
  BY HandFacts
<1>2. TypeOK /\ GroupIsASet /\ KeyInv /\ now \in Nat
  BY DEF Settled, SimTypes, GroupInv, TypeOK
<1>3. Waiting(n, l) /\ ~ReplyingTo(n, l)
  BY <1>1 DEF Waiting, ReplyingTo, IsHanded
<1>4. /\ nodeState[n] = "Member" /\ leaderId[n] = l
      /\ nodeContrib[n] = computeBlindedSecret(nodeSecret[n])
      /\ nodeSecret[n] # nodeSecret[l]
      /\ Lists(memberList[l], n) /\ Contributed(memberList[l], n, nodeContrib[n])
      /\ Knows(memberList[l], n, nodeContrib[n], lastNonce[n])
      /\ InStep(n, l) \/ sessionNext[n] = sessionCurrent[l]
  BY <1>3 DEF Confirmed
<1>5. Listed(n) /\ InfoOf(n).memberContrib = nodeContrib[n] /\ InfoOf(n).memberLastNonce = lastNonce[n]
  <2>1. Knows(igroup.memberInfoList, n, nodeContrib[n], lastNonce[n])
    BY <1>1, <1>4, TellsKnown
  <2> QED
    BY <1>1, <1>2, <2>1, InfoKnown
<1>6. FromMyLeader(n) /\ ConfirmsMember(n)
  BY <1>1, <1>4, <1>5 DEF FromMyLeader, ConfirmsMember, SessionMoves, InStep
<1>7. AcceptFromLeader(n)
  BY <1>6 DEF IsHanded, processIGROUP, RejectFromLeader, JoinLeader, BecomeMember, IgnoreIGROUP
<1>8. /\ UNCHANGED <<nodeState, leaderId, nodeSecret, nodeContrib>>
      /\ lastIGROUPMsgTime'[n] = now /\ lastNonce'[n] = rng + 1
      /\ ComputeKey(n, nodeSecret[n], SessionMoves(n))
      /\ IF SessionMoves(n)
         THEN /\ sessionNext'[n] = igroup.sessionNext
              /\ sessionCurrent'[n] = igroup.sessionCurrent
              /\ leaderLastNonce'[n] = igroup.leaderLastNonce
         ELSE UNCHANGED <<sessionNext, sessionCurrent, leaderLastNonce>>
      /\ Answers(n, rng + 1, nodeContrib[n], igroup.sessionId)
  BY <1>2, <1>7, AcceptSays
<1>9. /\ memberList'[l] = memberList[l] /\ nodeSecret'[l] = nodeSecret[l] /\ key'[l] = key[l]
      /\ sessionCurrent'[l] = sessionCurrent[l] /\ sessionNext'[l] = sessionNext[l]
      /\ lastNonce'[l] = lastNonce[l] /\ LastUpdate(l)' = LastUpdate(l)
  BY <1>1 DEF KeepsNode, LastUpdate
<1>10. /\ sessionNext'[n] = sessionNext[l] /\ sessionCurrent'[n] = sessionCurrent[l]
       /\ leaderLastNonce'[n] = lastNonce[l]
  <2>1. CASE SessionMoves(n)
    BY <1>1, <1>8, <2>1
  <2>2. CASE ~SessionMoves(n)
    <3>1. InStep(n, l)
      BY <1>1, <1>4, <2>2 DEF SessionMoves
    <3> QED
      BY <1>8, <2>2, <3>1 DEF InStep
  <2> QED
    BY <2>1, <2>2
<1>11. key'[n] = key[l]
  <2>1. CASE ~SameMembers(n) \/ SessionMoves(n)
    BY <1>1, <1>2, <1>4, <1>5, <1>8, <2>1, ComputesLeadersKey
  <2>2. CASE SameMembers(n) /\ ~SessionMoves(n)
    <3>1. InStep(n, l)
      BY <1>1, <1>4, <2>2 DEF SessionMoves
    <3>2. key'[n] = key[n]
      BY <1>2, <1>8, <2>2 DEF ComputeKey, TypeOK
    <3> QED
      BY <3>1, <3>2 DEF InStep
  <2> QED
    BY <2>1, <2>2
<1>12. InStep(n, l)' /\ ~Waiting(n, l)'
  BY <1>1, <1>9, <1>10, <1>11 DEF InStep, Waiting
<1>13. /\ ReplyingTo(n, l)' /\ ireply'.sessionId = 0
       /\ ireply'.nodeContrib = nodeContrib'[n] /\ ireply'.nodeNonce = lastNonce'[n]
  BY <1>1, <1>8 DEF Answers, ReplyingTo, IsHanded
<1>14. lastIGROUPMsgTime'[n] >= LastUpdate(l)'
  BY <1>1, <1>2, <1>8, <1>9
<1>15. /\ nodeState'[n] = "Member" /\ leaderId'[n] = l
       /\ nodeContrib'[n] = computeBlindedSecret(nodeSecret'[n])
       /\ nodeSecret'[n] # nodeSecret'[l]
       /\ Lists(memberList'[l], n) /\ Contributed(memberList'[l], n, nodeContrib'[n])
  BY <1>4, <1>8, <1>9
<1> QED
  BY <1>12, <1>13, <1>14, <1>15 DEF Confirmed

\* The IGROUP is in the hands of n alone, and so is the reply.
LEMMA HandMessages ==
    ASSUME Settled, ServedOnceEach', NearStays, NEW n \in Node, IsHanded(n), NEW H, Agree(H),
           NEW l, l = igroup.leaderId, TRUE \notin LastSecretExpired
    PROVE  \A m \in Node : \A y : m # n \/ y # l => KeepsMessages(m, y)
<1>1. /\ igroup # None /\ igroup' = igroup
      /\ \A m \in Node \ {n} : heard'[m] = heard[m]
  BY HandFacts
<1>2. ireply' = None \/ (ireply'.nodeId = n /\ ireply'.leaderId = l)
  BY HandReplies DEF Answers
<1>3. \A m \in Node : \A y : m # n \/ y # l => ~ReplyingTo(m, y) /\ ~ReplyingTo(m, y)'
  BY <1>2 DEF ReplyingTo, IsHanded
<1>4. \A m \in Node : \A y : m # n \/ y # l =>
        (Waiting(m, y)' <=> Waiting(m, y)) /\ (Served(m, y)' <=> Served(m, y))
  BY <1>1 DEF Waiting, Served
<1> QED
  BY <1>3, <1>4 DEF KeepsMessages

\* In the range of one of H n is in its group, and stays.
LEMMA HeadIsHeard ==
    ASSUME Settled, ServedOnceEach', NearStays, NEW n \in Node, IsHanded(n), NEW H, Agree(H),
           NEW l, l = igroup.leaderId, TRUE \notin LastSecretExpired, l \in H
    PROVE  /\ n \notin H /\ nodeState'[n] # "Leader"
           /\ \A y \in H : Near(y, n) => InGroupOf(n, y)'
<1>1. Near(l, n) /\ isActive[n]
  BY HandFacts
<1>2. n \notin H /\ \A y \in H : Near(y, n) => y = l
  BY <1>1, HeadFacts DEF Agree
<1>3. InGroupOf(n, l)
  BY <1>1 DEF Agree, Grouped
<1>4. nodeState'[n] # "Leader" /\ InGroupOf(n, l)'
  <2>1. CASE Fresh(n, l)
    BY <2>1, FreshAsks DEF InGroupOf
  <2>2. CASE Asked(n, l)
    BY <2>2, AskedJoins DEF InGroupOf
  <2>3. CASE Confirmed(n, l)
    BY <2>3, ConfirmedFollows DEF InGroupOf
  <2> QED
    BY <1>3, <2>1, <2>2, <2>3 DEF InGroupOf
<1> QED
  BY <1>2, <1>4

\* A leader in the range of one of H is asked at most.
LEMMA OtherIsAsked ==
    ASSUME Settled, ServedOnceEach', NearStays, NEW n \in Node, IsHanded(n), NEW H, Agree(H),
           NEW l, l = igroup.leaderId, l \notin H
    PROVE  /\ n \in H \/ \E y \in H : Near(y, n)
           /\ UNCHANGED <<nodeState, isbackoffExists, backoffTime, lastIGROUPMsgTime, leaderId,
                          leaderLastNonce, sessionCurrent, sessionNext, nodeSecret, nodeContrib,
                          lastNonce, key, memberList, compGroupChange>>
           /\ \A p \in Requests(n)' : p \in Requests(n) \/ p.pendingLeaderId = l
           /\ \A p \in Requests(n) :
                now - p.pendingLeaderLastIGROUPTime < LEADER_LAST_TIME => p \in Requests(n)'
<1>1. /\ igroup # None /\ l \in Node /\ l # n /\ Near(l, n) /\ isActive[n]
  BY HandFacts
<1>2. PICK y \in H : igroup.memberInfoList = <<>> /\ Near(y, l)
  BY <1>1 DEF Agree, Sent
<1>3. y \in Node /\ nodeState[y] = "Leader"
  BY HeadFacts DEF Agree
<1>4. n # y => Near(y, n)
  BY <1>1, <1>2, <1>3 DEF Settled, OneHop, Near
<1>5. ~FromMyLeader(n)
  <2>1. CASE n = y
    BY <1>3, <2>1 DEF FromMyLeader
  <2>2. CASE n # y
    <3>1. InGroupOf(n, y)
      BY <1>1, <1>4, <2>2 DEF Agree, Grouped
    <3>2. y # l
      BY <1>2
    <3> QED
      BY <3>1, <3>2 DEF InGroupOf, Fresh, Asked, Confirmed, FromMyLeader
  <2> QED
    BY <2>1, <2>2
<1>6. ~Listed(n)
  BY <1>2 DEF Listed
<1>7. CASE JoinLeader(n)
  <2>1. TypeOK
    BY DEF Settled, SimTypes
  <2>2. /\ UNCHANGED <<nodeState, isbackoffExists, backoffTime, lastIGROUPMsgTime, leaderId,
                       leaderLastNonce, sessionCurrent, sessionNext, nodeSecret, nodeContrib,
                       lastNonce, key, memberList, compGroupChange>>
        /\ \E new \in PendingLeader :
             /\ new.pendingLeaderId = igroup.leaderId
             /\ Requests(n)' \subseteq Requests(n) \cup {new}
             /\ \A p \in Requests(n) :
                  now - p.pendingLeaderLastIGROUPTime < LEADER_LAST_TIME => p \in Requests(n)'
    BY <1>7, <2>1, JoinSays
  <2> QED
    BY <1>2, <1>4, <2>2
<1>8. CASE IgnoreIGROUP(n)
  <2>1. UNCHANGED <<nodeState, isbackoffExists, backoffTime, lastIGROUPMsgTime, leaderId,
                    leaderLastNonce, sessionCurrent, sessionNext, nodeSecret, nodeContrib,
                    lastNonce, key, memberList, compGroupChange, pendingLeaderList>>
    BY <1>8 DEF IgnoreIGROUP, roleVars, sessionVars, secretVars, groupVars
  <2>2. Requests(n)' = Requests(n)
    BY <2>1 DEF Requests
  <2> QED
    BY <1>2, <1>4, <2>1, <2>2
<1> QED
  BY <1>5, <1>6, <1>7, <1>8 DEF IsHanded, processIGROUP, AcceptFromLeader, RejectFromLeader,
                                BecomeMember

LEMMA OtherIsHeard ==
    ASSUME Settled, ServedOnceEach', NearStays, NEW n \in Node, IsHanded(n), NEW H, Agree(H),
           NEW l, l = igroup.leaderId, l \notin H, NEW y \in H, Near(y, n),
           TRUE \notin LastSecretExpired, LEADER_LAST_TIME >= PERIOD_INTERVAL
    PROVE  InGroupOf(n, y)'
<1>1. /\ l \in Node /\ isActive[n] /\ igroup # None /\ igroup' = igroup
      /\ now <= simulationTime /\ nextUpdate[l] = now + PERIOD_INTERVAL
      /\ UNCHANGED <<nextUpdate, compGroupChange>>
  BY HandFacts
<1>2. /\ UNCHANGED <<nodeState, isbackoffExists, backoffTime, lastIGROUPMsgTime, leaderId,
                     leaderLastNonce, sessionCurrent, sessionNext, nodeSecret, nodeContrib,
                     lastNonce, key, memberList, compGroupChange>>
      /\ \A p \in Requests(n)' : p \in Requests(n) \/ p.pendingLeaderId = l
      /\ \A p \in Requests(n) :
           now - p.pendingLeaderLastIGROUPTime < LEADER_LAST_TIME => p \in Requests(n)'
  BY OtherIsAsked
<1>3. y \in Node /\ y # l /\ InGroupOf(n, y)
  BY <1>1, HeadFacts DEF Agree, Grouped
<1>4. KeepsMessages(n, y)
  BY <1>3, HandMessages
<1>5. ~Waiting(n, y) /\ ~Waiting(n, y)' /\ ~Served(n, y)'
      /\ ~ReplyingTo(n, y) /\ ~ReplyingTo(n, y)'
  BY <1>1, <1>3, <1>4 DEF Waiting, Served, ReplyingTo, IsHanded, KeepsMessages
<1>6. LastUpdate(y)' = LastUpdate(y)
  BY <1>1 DEF LastUpdate
<1>7. InStep(n, y)' <=> InStep(n, y)
  BY <1>2 DEF InStep
<1>8. CASE Fresh(n, y)
  <2>1. ~Pends(n, y)'
    BY <1>2, <1>3, <1>8 DEF Fresh, Pends
  <2> QED
    BY <1>1, <1>2, <1>5, <1>8, <2>1 DEF Fresh, InGroupOf
<1>9. CASE Asked(n, y)
  <2>1. \A p \in Requests(n) : p.pendingLeaderId = y => p \in Requests(n)'
    <3> SUFFICES ASSUME NEW p \in Requests(n), p.pendingLeaderId = y PROVE p \in Requests(n)'
      OBVIOUS
    <3>1. p.pendingLeaderLastIGROUPTime >= nextUpdate[y] - PERIOD_INTERVAL
      BY <1>5, <1>9 DEF Asked, Request, LastUpdate
    <3>2. /\ now \in Nat /\ nextUpdate[y] \in Nat /\ nextUpdate[l] \in Nat /\ PERIOD_INTERVAL \in Nat
          /\ LEADER_LAST_TIME \in Nat /\ p.pendingLeaderLastIGROUPTime \in Nat
      BY <1>1, <1>3, RequestTypes, PendingFields, TimeAssumption DEF Settled, SimTypes, TypeOK
    <3>3. now <= nextUpdate[y]
      BY <1>1, <1>3 DEF Settled, Clock
    <3>4. nextUpdate[l] # nextUpdate[y] + PERIOD_INTERVAL
      BY <1>1, <1>3, ApartSays DEF Settled
    <3>5. now - p.pendingLeaderLastIGROUPTime < LEADER_LAST_TIME
      BY <1>1, <3>1, <3>2, <3>3, <3>4
    <3> QED
      BY <1>2, <3>5
  <2>2. \A p \in Requests(n)' : p.pendingLeaderId = y => p \in Requests(n)
    BY <1>2, <1>3
  <2>3. Pends(n, y)'
    BY <1>9, <2>1 DEF Asked, Pends
  <2>4. \A p : Request(n, y, p) => Request(n, y, p)'
    BY <1>2, <1>5, <1>6 DEF Request
  <2>5. Asked(n, y)'
    BY <1>2, <1>5, <1>6, <1>9, <2>2, <2>3, <2>4 DEF Asked
  <2> QED
    BY <2>5 DEF InGroupOf
<1>10. CASE Confirmed(n, y)
  BY <1>2, <1>5, <1>6, <1>7, <1>10 DEF Confirmed, InGroupOf
<1> QED
  BY <1>3, <1>8, <1>9, <1>10 DEF InGroupOf

LEMMA HandAgrees ==
    ASSUME Settled, ServedOnceEach', NearStays, NEW n \in Node, IsHanded(n), NEW H, Agree(H),
           TRUE \notin LastSecretExpired, LEADER_LAST_TIME >= PERIOD_INTERVAL
    PROVE  Agree(H)'
<1>1. PICK l : l = igroup.leaderId
  OBVIOUS
<1>2. /\ igroup # None /\ igroup' = igroup
      /\ l \in Leaders /\ l \in Node /\ l # n /\ Near(l, n) /\ isActive[n]
      /\ heard[n] = 0 /\ heard'[n] = 1
      /\ \A m \in Node \ {n} : heard'[m] = heard[m]
      /\ UNCHANGED <<isActive, nextUpdate, now, compGroupChange>>
      /\ \A m \in Node \ {n} : KeepsNode(m)
  BY <1>1, HandFacts
<1>3. H \subseteq Leaders /\ H \subseteq Node
  BY DEF Agree, HeadsLead, Leaders
<1>4. /\ l \in H => n \notin H /\ nodeState'[n] # "Leader"
      /\ nodeState'[n] # "Leader" \/ nodeState'[n] = nodeState[n]
      /\ n \in H => /\ nodeState'[n] = nodeState[n] /\ memberList'[n] = memberList[n]
                    /\ nodeSecret'[n] = nodeSecret[n] /\ lastNonce'[n] = lastNonce[n]
                    /\ key'[n] = key[n] /\ sessionCurrent'[n] = sessionCurrent[n]
                    /\ sessionNext'[n] = sessionNext[n]
      /\ n \in H \/ \E y \in H : Near(y, n)
      /\ \A y \in H : Near(y, n) => InGroupOf(n, y)'
  <2>1. CASE l \in H
    BY <1>1, <1>2, <2>1, HeadIsHeard
  <2>2. CASE l \notin H
    <3>1. /\ UNCHANGED <<nodeState, memberList, nodeSecret, lastNonce, key, sessionCurrent,
                         sessionNext>>
          /\ n \in H \/ \E y \in H : Near(y, n)
      BY <1>1, <2>2, OtherIsAsked
    <3>2. \A y \in H : Near(y, n) => InGroupOf(n, y)'
      BY <1>1, <2>2, OtherIsHeard
    <3> QED
      BY <2>2, <3>1, <3>2
  <2> QED
    BY <2>1, <2>2
<1>5. Leaders' \subseteq Leaders /\ H \subseteq Leaders'
  <2>1. \A m \in Node : nodeState'[m] = "Leader" => nodeState[m] = "Leader"
    BY <1>2, <1>4 DEF KeepsNode
  <2>2. \A y \in H : nodeState'[y] = nodeState[y]
    BY <1>2, <1>3, <1>4 DEF KeepsNode
  <2> QED
    BY <1>3, <2>1, <2>2 DEF Leaders
<1>6. \A m \in Node \ {n} : Plain(m)' <=> Plain(m)
  BY <1>2 DEF Plain, KeepsNode
<1>7. HeadsLead(H)' /\ Covered(H)'
  BY <1>4, <1>5, <1>6 DEF Agree, HeadsLead, Covered, NearStays
<1>8. Asleep'
  BY <1>2, <1>6 DEF Agree, Asleep, KeepsNode
<1>9. \A m \in Node : \A y : m # n \/ y # l => KeepsMessages(m, y)
  BY <1>1, HandMessages
<1>10. \A y \in H : \A m \in Node : KeepsFor(y, m)
  <2>1. \A y \in H : /\ memberList'[y] = memberList[y]
                     /\ nodeSecret'[y] = nodeSecret[y] /\ lastNonce'[y] = lastNonce[y]
                     /\ key'[y] = key[y] /\ sessionCurrent'[y] = sessionCurrent[y]
                     /\ sessionNext'[y] = sessionNext[y]
    BY <1>2, <1>3, <1>4 DEF KeepsNode
  <2> QED
    BY <1>2, <2>1, SameForItself DEF KeepsFor
<1>11. Grouped(H)'
  <2> SUFFICES ASSUME NEW y \in H, NEW m \in Node, Near(y, m), isActive[m]
               PROVE  InGroupOf(m, y)'
    BY <1>2 DEF Grouped, NearStays
  <2>1. CASE m = n
    BY <1>4, <2>1
  <2>2. CASE m # n
    <3>1. InGroupOf(m, y) /\ KeepsNode(m) /\ KeepsFor(y, m) /\ KeepsMessages(m, y) /\ y \in Node
      BY <1>2, <1>3, <1>9, <1>10, <2>2 DEF Agree, Grouped
    <3> QED
      BY <3>1, InGroupKept
  <2> QED
    BY <2>1, <2>2
<1>12. HeadsFirst(H)'
  <2> SUFFICES ASSUME NEW y \in H, NEW w \in Leaders', Near(y, w)
               PROVE  Waiting(w, y)' \/ nextUpdate[y] < nextUpdate[w]
    BY <1>2 DEF HeadsFirst, NearStays
  <2>1. w \in Leaders /\ w \in Node /\ (Waiting(w, y) \/ nextUpdate[y] < nextUpdate[w])
    BY <1>5 DEF Agree, HeadsFirst, Leaders
  <2>2. w # n \/ y # l
    BY <1>4 DEF Leaders
  <2> QED
    BY <1>9, <2>1, <2>2 DEF KeepsMessages
<1>13. ListsNear(H)'
  <2>1. \A y \in H : memberList'[y] = memberList[y]
    BY <1>2, <1>3, <1>4 DEF KeepsNode
  <2>2. \A y \in H : \A m \in Node : Lists(memberList[y], m) => isActive[m] /\ Near(y, m)
    BY DEF Agree, ListsNear
  <2> QED
    BY <1>2, <2>1, <2>2 DEF ListsNear, NearStays
<1>14. Sent(H)'
  <2>1. memberList'[l] = memberList[l]
    BY <1>2 DEF KeepsNode
  <2>2. \A m \in Node : heard'[m] = 0 => heard[m] = 0
    BY <1>2
  <2> QED
    BY <1>1, <1>2, <2>1, <2>2 DEF Agree, Sent, NearStays
<1>15. Replied'
  BY HandReplies
<1> QED
  BY <1>7, <1>8, <1>11, <1>12, <1>13, <1>14, <1>15 DEF Agree

-----------------------------------------------------------------------------
(* The groups from the start.                                              *)

\* What the scenario and the clock give, and the groups they allow.
OneHopGroups ==
    /\ Numbers /\ Clock /\ Apart /\ Still
    /\ oneHop => OneHop
    /\ oneHop => \E H \in SUBSET Node : Agree(H)

\* What a flood owes where nobody relays.
ServedIfOneHop == OneHop => ServedOnceEach

LEMMA NobodyAtFirst ==
    ASSUME SimInit, Apart,
           \A s \in Setups : /\ ~(s.simScenario = 3 /\ s.numGroups > 1)
                             /\ s.loc \in [Node -> [locX : Nat, locY : Nat]]
    PROVE  OneHopGroups
<1>1. Init /\ TypeOK /\ oneHop = OneHop
  BY SimInitTypes DEF SimInit, SimTypes
<1>2. Numbers
  BY <1>1 DEF Numbers, NumbersOf, Requests, ElementsOf, Init
<1>3. Clock
  <2>1. \A n \in Node : nextUpdate[n] \in Nat
    BY <1>1 DEF TypeOK
  <2>2. now = 0 /\ \A n \in Node : ~isActive[n]
    BY <1>1 DEF Init
  <2> QED
    BY <2>1, <2>2 DEF Clock
<1>4. Still
  <2>1. PICK s \in Setups : /\ config.simScenario = s.simScenario
                            /\ config.numGroups = s.numGroups
                            /\ loc = s.loc
    BY DEF SimInit
  <2> QED
    BY <2>1 DEF Still
<1>5. Agree({})
  <2>1. \A n \in Node : Plain(n) /\ ~isbackoffExists[n]
    BY <1>1 DEF Plain, Init
  <2>2. igroup = None /\ ireply = None
    BY <1>1 DEF Init
  <2> QED
    BY <2>1, <2>2 DEF Agree, HeadsLead, Covered, Asleep, Grouped, HeadsFirst, ListsNear, Sent,
                      Replied
<1> QED
  BY <1>1, <1>2, <1>3, <1>4, <1>5 DEF OneHopGroups

LEMMA GroupsPreserved ==
    ASSUME SimTypes, SimTypes', GroupInv, KeyInv, ServedIfOneHop, ServedIfOneHop',
           IRFlood!InRangeIsServed, OneHopGroups, [SimNext]_simVars,
           TRUE \notin LastSecretExpired, LEADER_LAST_TIME >= PERIOD_INTERVAL,
           IREPLY_EXPIRE_TIME > 2 * PERIOD_INTERVAL, NODE_COVERAGE_AREA \in Nat
    PROVE  OneHopGroups'
<1>1. Numbers /\ Clock /\ Apart /\ Still /\ (oneHop => OneHop)
  BY DEF OneHopGroups
<1>2. Numbers'
  BY <1>1, NumbersPreserved DEF GroupInv
<1>3. Clock' /\ Apart'
  BY <1>1, ClockPreserved, ApartPreserved
<1>4. Still'
  BY <1>1, StaysPut
<1>5. (oneHop => OneHop)' /\ (oneHop' => oneHop) /\ (OneHop' <=> OneHop) /\ NearStays
  BY <1>1, HopsStay DEF NearStays
<1>6. ASSUME oneHop' PROVE \E H \in SUBSET Node : Agree(H)'
  <2>1. oneHop /\ OneHop /\ OneHop'
    BY <1>1, <1>5, <1>6
  <2>2. Settled
    BY <1>1, <2>1, RangeIsMutual DEF Settled, ServedIfOneHop
  <2>3. ServedOnceEach'
    BY <2>1 DEF ServedIfOneHop
  <2>4. PICK H \in SUBSET Node : Agree(H)
    BY <2>1 DEF OneHopGroups
  <2>5. TypeOK'
    BY DEF SimTypes
  <2>6. ASSUME NEW n \in Node, SilentUpdate(n) PROVE Agree(H)'
    BY <1>5, <2>2, <2>4, <2>6, SilentAgrees
  <2>7. ASSUME NEW n \in Node, LeaderSendsIGROUP(n) PROVE \E K \in SUBSET Node : Agree(K)'
    BY <1>5, <2>2, <2>4, <2>7, LeaderSendsAgrees
  <2>8. ASSUME Handed \in Node, processIGROUP(Handed), ireply = None,
               ireply' # None => IRhanded' = 0
        PROVE  Agree(H)'
    <3>1. IsHanded(Handed)
      BY <2>8 DEF IsHanded
    <3> QED
      BY <1>5, <2>2, <2>3, <2>4, <2>8, <3>1, HandAgrees
  <2>9. ASSUME Elsewhere PROVE Agree(H)'
    BY <1>5, <2>2, <2>4, <2>9, ElsewhereAgrees
  <2>10. ASSUME EndIGROUP, ~IGdirect \/ IGtodo = <<>> PROVE Agree(H)'
    BY <1>5, <2>2, <2>4, <2>10, FloodEndAgrees
  <2>11. ASSUME EndIREPLY, ~IRdirect \/ IRtodo = <<>> PROVE Agree(H)'
    BY <1>5, <2>2, <2>4, <2>11, ReplyEndAgrees
  <2>12. ASSUME LeaderHears PROVE Agree(H)'
    BY <1>5, <2>2, <2>4, <2>5, <2>12, LeaderHearsAgrees
  <2>13. ASSUME PassTime PROVE Agree(H)'
    BY <1>5, <2>2, <2>4, <2>13, TimeAgrees
  <2> QED
    BY <2>4, <2>6, <2>7, <2>8, <2>9, <2>10, <2>11, <2>12, <2>13, StepKinds
<1> QED
  BY <1>2, <1>3, <1>4, <1>5, <1>6 DEF OneHopGroups

LEMMA GroupsAgree ==
    ASSUME NEW H, Agree(H)
    PROVE  KeyAgreement
<1> SUFFICES ASSUME NEW n \in Node, NEW l \in Node, InGroup(n, l) PROVE key[n] = key[l]
  BY DEF KeyAgreement
<1>1. /\ nodeState[n] = "Member" /\ leaderId[n] = l
      /\ sessionCurrent[n] = sessionCurrent[l]
  BY DEF InGroup, Members
<1>2. isActive[n] /\ ~Plain(n) /\ n \notin H
  BY <1>1 DEF Agree, Asleep, Plain, HeadsLead, Leaders
<1>3. PICK y \in H : Near(y, n)
  BY <1>2 DEF Agree, Covered
<1>4. Confirmed(n, y)
  BY <1>1, <1>2, <1>3 DEF Agree, Grouped, InGroupOf, Fresh, Asked
<1>5. y = l
  BY <1>1, <1>4 DEF Confirmed
<1>6. InStep(n, l)
  BY <1>1, <1>4, <1>5 DEF Confirmed
<1> QED
  BY <1>6 DEF InStep

\* In the simulation a node in range of the sender is handed an IGROUP once
\* where nobody needs a relay, and an IREPLY gets to a leader in range of its
\* sender, whatever else is in flight.
THEOREM SimulationServesInRange ==
    SimSpec => []IGFlood!OneHopIsServed /\ []IRFlood!InRangeIsServed
<1>1. IGFlood!NodeAssumption /\ IRFlood!NodeAssumption
  BY FloodAssumptions
<1>2. IGFlood!Init /\ [][IGFlood!Next]_(IGFlood!vars) => []IGFlood!OneHopIsServed
  BY <1>1, IGFlood!StepsAreSafe, PTL
<1>3. IRFlood!Init /\ [][IRFlood!Next]_(IRFlood!vars) => []IRFlood!InRangeIsServed
  BY <1>1, IRFlood!StepsAreSafe, PTL
<1> QED
  BY <1>2, <1>3, SimulationRunsFloods, PTL

\* Where nobody moves or relays, a member that is in the session of its leader
\* and that the leader lists has the leader's key, also while groups merge and
\* while the leader renews its secret: the code answers an IGROUP before the
\* next update of its leader, and lists the member before it sends the next.
THEOREM KeyAgreementOneHopHolds ==
    ASSUME TRUE \notin LastSecretExpired, LEADER_LAST_TIME >= PERIOD_INTERVAL,
           IREPLY_EXPIRE_TIME > 2 * PERIOD_INTERVAL, NODE_COVERAGE_AREA \in Nat,
           \A s \in Setups : /\ ~(s.simScenario = 3 /\ s.numGroups > 1)
                             /\ s.loc \in [Node -> [locX : Nat, locY : Nat]]
    PROVE  SimSpec /\ Apart => []KeyAgreementOneHop
<1>1. SimInit /\ Apart => OneHopGroups
  BY NobodyAtFirst
<1>2. SimTypes /\ SimTypes' /\ GroupInv /\ KeyInv /\ ServedIfOneHop /\ ServedIfOneHop'
        /\ IRFlood!InRangeIsServed /\ OneHopGroups /\ [SimNext]_simVars
      => OneHopGroups'
  BY GroupsPreserved
<1>3. OneHopGroups => KeyAgreementOneHop
  BY GroupsAgree DEF OneHopGroups, KeyAgreementOneHop
<1>4. SimTypes /\ IGFlood!OneHopIsServed => ServedIfOneHop
  BY ServedFacts DEF ServedIfOneHop
<1>5. SimSpec => []SimTypes /\ []GroupInv /\ []KeyInv
  BY SimTypesAlways, SimulationRunsProtocol, SimulationKeepsGroups, IGROUPCarriesKey, PTL
<1>6. SimSpec => []IGFlood!OneHopIsServed /\ []IRFlood!InRangeIsServed
  BY SimulationServesInRange
<1> QED
  BY <1>1, <1>2, <1>3, <1>4, <1>5, <1>6, PTL DEF SimSpec

\* So too while the program counts what it reports.
THEOREM ProgramAgrees ==
    ASSUME TRUE \notin LastSecretExpired, LEADER_LAST_TIME >= PERIOD_INTERVAL,
           IREPLY_EXPIRE_TIME > 2 * PERIOD_INTERVAL, NODE_COVERAGE_AREA \in Nat,
           \A s \in Setups : /\ ~(s.simScenario = 3 /\ s.numGroups > 1)
                             /\ s.loc \in [Node -> [locX : Nat, locY : Nat]]
    PROVE  MainSpec /\ Apart => []KeyAgreementOneHop
<1>1. SimSpec /\ Apart => []KeyAgreementOneHop
  BY KeyAgreementOneHopHolds
<1> QED
  BY <1>1, ProgramSimulates, PTL

=============================================================================
