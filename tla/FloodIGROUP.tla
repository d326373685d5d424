---------------------------- MODULE FloodIGROUP ----------------------------
(***************************************************************************)
(* The flood of an IGROUP message: GKASimul::evIGROUP and                  *)
(* GKASimul::ReTxIGROUPMessage, one iteration of their loops per step.     *)
(*                                                                         *)
(* The leader hands the message to the active nodes in range, in the order *)
(* of their identifiers; then, round by round, every node reached in the   *)
(* round before relays it unless it remembers having done so.  Handing a   *)
(* message runs the receiver's protocol (GKAInstance), which changes       *)
(* nothing here.  Between two floods time passes, nodes become active and  *)
(* move.                                                                   *)
(***************************************************************************)
EXTENDS Radio

CONSTANTS
    Node,                \* indices of nodeQueue
    LEADER_LAST_TIME,    \* age at which a relay forgets a message
    Sources,             \* nodes that may be leaders
    Gaps,                \* how much time may pass between two floods
    Layouts,             \* where the nodes may be
    Times, Numbers,      \* bounds: the clock's times, the messages' numbers
    None                 \* no message in flight

Message == [leaderId : Node, sequenceNumber : Nat]
Location == [locX : Int, locY : Int]

ASSUME NodeAssumption ==
    /\ Node \subseteq Nat
    /\ IsFiniteSet(Node)
    /\ Sources \subseteq Node
    /\ Gaps \subseteq Nat
    /\ Layouts \subseteq [Node -> Location]
    /\ LEADER_LAST_TIME \in Nat
    /\ None \notin Message \cup Node

VARIABLES
    loc, isActive, now,
    IGmessageCount,      \* one counter for all the nodes
    message,             \* the IGROUP in flight
    direct,              \* evIGROUP's own loop is running
    todo,                \* receivers left in the inner loop
    IGReTxnodesList, tempIGRxTxnodelist,
    i, isReTx, processed,
    RxIG,                \* RxIGnodes, RxIGNumber, RxIGTime of every node
    handed,              \* history: how often each node has got the message
    forgot               \* history: a sweep has left a relay without records

worldVars == <<loc, isActive, now, IGmessageCount>>
loopVars == <<message, direct, todo, IGReTxnodesList, tempIGRxTxnodelist,
              i, isReTx, processed>>
vars == <<worldVars, loopVars, RxIG, handed, forgot>>

Active == {n \in Node : isActive[n]}

Init ==
    /\ loc \in Layouts
    /\ isActive = [n \in Node |-> FALSE]
    /\ now = 0
    /\ IGmessageCount = 1
    /\ message = None
    /\ direct = FALSE
    /\ todo = <<>>
    /\ IGReTxnodesList = <<>>
    /\ tempIGRxTxnodelist = <<>>
    /\ i = 1
    /\ isReTx = FALSE
    /\ processed = FALSE
    /\ RxIG = [n \in Node |-> <<>>]
    /\ handed = [n \in Node |-> 0]
    /\ forgot = FALSE

-----------------------------------------------------------------------------
(* evIGROUP.                                                               *)

\* A leader sends, in its periodic update.
evIGROUP(n) ==
    /\ message = None
    /\ isActive[n]
    /\ message' = [leaderId |-> n, sequenceNumber |-> IGmessageCount]
    /\ IGmessageCount' = IGmessageCount + 1
    /\ IGReTxnodesList' = <<>>
    /\ direct' = TRUE
    /\ todo' \in Receivers(loc, n, Active)
    /\ handed' = [m \in Node |-> 0]
    /\ forgot' = FALSE
    /\ UNCHANGED <<loc, isActive, now, tempIGRxTxnodelist, i, isReTx, processed, RxIG>>

Hand(m) == handed' = [handed EXCEPT ![m] = @ + 1]

HandDirect ==
    /\ message # None
    /\ direct
    /\ todo # <<>>
    /\ Hand(Head(todo))
    /\ IGReTxnodesList' = Append(IGReTxnodesList, Head(todo))
    /\ todo' = Tail(todo)
    /\ UNCHANGED <<worldVars, message, direct, tempIGRxTxnodelist, i, isReTx,
                   processed, RxIG, forgot>>

\* Slip: the loop over the relays starts at 0.
Round_FromZero(relays) ==
    IF relays = <<>>
    THEN /\ message' = None
         /\ handed' = [m \in Node |-> 0]
         /\ UNCHANGED <<IGReTxnodesList, tempIGRxTxnodelist, i, isReTx, processed>>
    ELSE /\ tempIGRxTxnodelist' = relays
         /\ IGReTxnodesList' = <<>>
         /\ i' = 0
         /\ isReTx' = FALSE
         /\ processed' = FALSE
         /\ UNCHANGED <<message, handed>>

\* ReTxIGROUPMessage is called, and calls itself, while there are new relays.
Round(relays) ==
    IF relays = <<>>
    THEN /\ message' = None
         /\ handed' = [m \in Node |-> 0]
         /\ UNCHANGED <<IGReTxnodesList, tempIGRxTxnodelist, i, isReTx, processed>>
    ELSE /\ tempIGRxTxnodelist' = relays
         /\ IGReTxnodesList' = <<>>
         /\ i' = 1
         /\ isReTx' = FALSE
         /\ processed' = FALSE
         /\ UNCHANGED <<message, handed>>

Remember(n, records) ==
    RxIG' = [RxIG EXCEPT ![n] =
               Append(records, Record(message.leaderId, message.sequenceNumber, now))]

EndDirect ==
    /\ message # None
    /\ direct
    /\ todo = <<>>
    /\ Remember(message.leaderId, RxIG[message.leaderId])
    /\ direct' = FALSE
    /\ Round(IGReTxnodesList)
    /\ UNCHANGED <<worldVars, todo, forgot>>

-----------------------------------------------------------------------------
(* ReTxIGROUPMessage.                                                      *)

\* Slip: the leader is not left out of the receivers.
Relay_ToLeader ==
    /\ message # None
    /\ ~direct
    /\ todo = <<>>
    /\ i <= Len(tempIGRxTxnodelist)
    /\ LET n == tempIGRxTxnodelist[i]
       IN  \E kept \in Remembered(RxIG[n], now, LEADER_LAST_TIME) :
           /\ isReTx' = Repeated(RxIG[n], kept, message.leaderId,
                                 message.sequenceNumber, isReTx)
           /\ forgot' = (forgot \/ (RxIG[n] # <<>> /\ kept = <<>>))
           /\ IF isReTx'
              THEN /\ RxIG' = [RxIG EXCEPT ![n] = kept]
                   /\ UNCHANGED todo
              ELSE /\ Remember(n, kept)
                   /\ todo' \in Receivers(loc, n, Active)
    /\ i' = i + 1
    /\ UNCHANGED <<worldVars, message, direct, IGReTxnodesList,
                   tempIGRxTxnodelist, processed, handed>>

\* The body of the outer loop, up to the loop over the receivers.
Relay ==
    /\ message # None
    /\ ~direct
    /\ todo = <<>>
    /\ i <= Len(tempIGRxTxnodelist)
    /\ LET n == tempIGRxTxnodelist[i]
       IN  \E kept \in Remembered(RxIG[n], now, LEADER_LAST_TIME) :
           /\ isReTx' = Repeated(RxIG[n], kept, message.leaderId,
                                 message.sequenceNumber, isReTx)
           /\ forgot' = (forgot \/ (RxIG[n] # <<>> /\ kept = <<>>))
           /\ IF isReTx'
              THEN /\ RxIG' = [RxIG EXCEPT ![n] = kept]
                   /\ UNCHANGED todo
              ELSE /\ Remember(n, kept)
                   /\ todo' \in Receivers(loc, n, Active \ {message.leaderId})
    /\ i' = i + 1
    /\ UNCHANGED <<worldVars, message, direct, IGReTxnodesList,
                   tempIGRxTxnodelist, processed, handed>>

\* Slip: a receiver that has relayed any message is taken for a relay of this.
HandRelayed_AnyRecord ==
    LET m == Head(todo)
        met == processed \/ RxIG[m] # <<>>
    IN  /\ message # None
        /\ ~direct
        /\ todo # <<>>
        /\ processed' = met
        /\ IF met THEN UNCHANGED handed ELSE Hand(m)
        /\ IGReTxnodesList' = Append(IGReTxnodesList, m)
        /\ todo' = Tail(todo)
        /\ UNCHANGED <<worldVars, message, direct, tempIGRxTxnodelist, i,
                       isReTx, RxIG, forgot>>

\* The inner loop.  `processed' says that a receiver was itself a relay of
\* this round; it is never reset, so the receivers after it, of this relay and
\* of the next ones, are not handed the message.  They relay it all the same.
HandRelayed ==
    LET m == Head(todo)
        met == processed \/ \E j \in DOMAIN tempIGRxTxnodelist : tempIGRxTxnodelist[j] = m
    IN  /\ message # None
        /\ ~direct
        /\ todo # <<>>
        /\ processed' = met
        /\ IF met THEN UNCHANGED handed ELSE Hand(m)
        /\ IGReTxnodesList' = Append(IGReTxnodesList, m)
        /\ todo' = Tail(todo)
        /\ UNCHANGED <<worldVars, message, direct, tempIGRxTxnodelist, i,
                       isReTx, RxIG, forgot>>

RoundOver == message # None /\ ~direct /\ todo = <<>> /\ i > Len(tempIGRxTxnodelist)

EndRound ==
    /\ RoundOver
    /\ Round(IGReTxnodesList)
    /\ UNCHANGED <<worldVars, direct, todo, RxIG, forgot>>

-----------------------------------------------------------------------------
(* Between two floods.                                                     *)

nodePeriodicUpdate(n) ==
    /\ message = None
    /\ ~isActive[n]
    /\ isActive' = [isActive EXCEPT ![n] = TRUE]
    /\ UNCHANGED <<loc, now, IGmessageCount, loopVars, RxIG, handed, forgot>>

nodeMovementUpdate ==
    /\ message = None
    /\ loc' \in Layouts \ {loc}
    /\ UNCHANGED <<isActive, now, IGmessageCount, loopVars, RxIG, handed, forgot>>

PassTime ==
    /\ message = None
    /\ \E gap \in Gaps : now' = now + gap
    /\ now' \in Times
    /\ UNCHANGED <<loc, isActive, IGmessageCount, loopVars, RxIG, handed, forgot>>

Flooding == HandDirect \/ EndDirect \/ Relay \/ HandRelayed \/ EndRound

Next ==
    \/ \E n \in Sources : IGmessageCount \in Numbers /\ evIGROUP(n)
    \/ \E n \in Node : nodePeriodicUpdate(n)
    \/ Flooding
    \/ nodeMovementUpdate
    \/ PassTime

\* A flood is a call: it runs to its end.
Spec == Init /\ [][Next]_vars /\ WF_vars(Flooding)

-----------------------------------------------------------------------------
(* Properties.                                                             *)

\* Every variable has the type of the program's variable.
TypeOK ==
    /\ loc \in [Node -> Location]
    /\ isActive \in [Node -> BOOLEAN]
    /\ now \in Nat
    /\ IGmessageCount \in Nat
    /\ message \in Message \cup {None}
    /\ direct \in BOOLEAN
    /\ todo \in Seq(Node)
    /\ IGReTxnodesList \in Seq(Node)
    /\ tempIGRxTxnodelist \in Seq(Node)
    /\ i \in 1..Len(tempIGRxTxnodelist) + 1
    /\ isReTx \in BOOLEAN
    /\ processed \in BOOLEAN
    /\ RxIG \in [Node -> Seq([from : Node, number : Nat, time : Nat])]
    /\ handed \in [Node -> Nat]
    /\ forgot \in BOOLEAN

\* How often n has relayed, or sent, the message in flight.
Relays(n) ==
    Cardinality({k \in DOMAIN RxIG[n] : /\ RxIG[n][k].from = message.leaderId
                                        /\ RxIG[n][k].number = message.sequenceNumber})

\* Nobody relays a message twice, although a relay compares only the last
\* record it has, and sweeps records while the flood is going on.
RelaysOnce == message # None => \A n \in Node : Relays(n) <= 1

\* The active nodes a message of n gets to if all of them relay.
Connected(n) ==
    LET reach[k \in Nat] ==
          IF k = 0 THEN {n}
          ELSE reach[k-1] \cup {m \in Active : \E s \in reach[k-1] : InRange(loc, s, m)}
    IN  reach[Cardinality(Node)]

Ending == RoundOver /\ IGReTxnodesList = <<>>

\* The flood ends only when every node it can get to has relayed the message,
\* unless a relay without records took over another's isReTx.
EverybodyRelays ==
    Ending /\ ~forgot => \A n \in Connected(message.leaderId) : Relays(n) = 1

\* Range is mutual, and no two nodes in range of each other are as many hops
\* away from a third.
Bipartite ==
    \E A \in SUBSET Active :
        \A s, m \in Active :
            InRange(loc, s, m) => InRange(loc, m, s) /\ (s \in A <=> m \notin A)

\* In a chain, or any network without odd cycles, every node is handed the
\* message: there the receivers of a relay are never relays of its round, and
\* `processed' stays FALSE.  With a triangle nodes may be left out.
ChainsAreServed ==
    Ending /\ ~forgot /\ Bipartite =>
        \A n \in Connected(message.leaderId) \ {message.leaderId} : handed[n] > 0

\* The flood is the broadcast GKAInstance assumes: at most one copy from every
\* node but the receiver, none to the leader, and an end.
Copies == Cardinality(Node) - 1
Sender == IF message = None THEN None ELSE message.leaderId
Abstract == INSTANCE Broadcast WITH
              sender <- Sender, active <- Active, MaxCopies <- Copies
IsBroadcast == Abstract!Spec

=============================================================================
