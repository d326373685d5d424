---------------------------- MODULE FloodIREPLY ----------------------------
(***************************************************************************)
(* The flood of an IREPLY message: GKASimul::evIREPLY and                  *)
(* GKASimul::ReTxIREPLYMessage, one iteration of their loops per step.     *)
(*                                                                         *)
(* As the flood of an IGROUP, except that only the leader the reply is for *)
(* is handed the message, and that the leader does not relay it.  Nothing  *)
(* marks a receiver that is a relay of the same round.                     *)
(***************************************************************************)
EXTENDS Radio

CONSTANTS
    Node,                \* indices of nodeQueue
    IREPLY_EXPIRE_TIME,  \* age at which a relay forgets a message
    Replies,             \* pairs of a node and the leader it replies to
    Gaps,                \* how much time may pass between two floods
    Layouts,             \* where the nodes may be
    Times, Numbers,      \* bounds: the clock's times, the messages' numbers
    None                 \* no message in flight

Message == [leaderId : Node, nodeId : Node, sequenceNumber : Nat]
Location == [locX : Int, locY : Int]

ASSUME NodeAssumption ==
    /\ Node \subseteq Nat
    /\ IsFiniteSet(Node)
    /\ Replies \subseteq {p \in Node \X Node : p[1] # p[2]}
    /\ Gaps \subseteq Nat
    /\ Layouts \subseteq [Node -> Location]
    /\ IREPLY_EXPIRE_TIME \in Nat
    /\ None \notin Message

VARIABLES
    loc, isActive, now,
    IRmessageCount,      \* one counter for all the nodes
    message,             \* the IREPLY in flight
    direct,              \* evIREPLY's own loop is running
    todo,                \* receivers left in the inner loop
    IRReTxnodesList, tempIRRxTxnodelist,
    i, isReTx,
    RxIR,                \* RxIRnodes, RxIRNumber, RxIRTime of every node
    handed,              \* history: how often the leader has got the message
    forgot               \* history: a sweep has left a relay without records

worldVars == <<loc, isActive, now, IRmessageCount>>
loopVars == <<message, direct, todo, IRReTxnodesList, tempIRRxTxnodelist, i, isReTx>>
vars == <<worldVars, loopVars, RxIR, handed, forgot>>

Active == {n \in Node : isActive[n]}

Init ==
    /\ loc \in Layouts
    /\ isActive = [n \in Node |-> FALSE]
    /\ now = 0
    /\ IRmessageCount = 1
    /\ message = None
    /\ direct = FALSE
    /\ todo = <<>>
    /\ IRReTxnodesList = <<>>
    /\ tempIRRxTxnodelist = <<>>
    /\ i = 1
    /\ isReTx = FALSE
    /\ RxIR = [n \in Node |-> <<>>]
    /\ handed = 0
    /\ forgot = FALSE

-----------------------------------------------------------------------------
(* evIREPLY.                                                               *)

\* A node that handles an IGROUP replies to its leader.
evIREPLY(n, leader) ==
    /\ message = None
    /\ isActive[n]
    /\ isActive[leader]
    /\ message' = [leaderId |-> leader, nodeId |-> n, sequenceNumber |-> IRmessageCount]
    /\ IRmessageCount' = IRmessageCount + 1
    /\ IRReTxnodesList' = <<>>
    /\ direct' = TRUE
    /\ todo' \in Receivers(loc, n, Active)
    /\ handed' = 0
    /\ forgot' = FALSE
    /\ UNCHANGED <<loc, isActive, now, tempIRRxTxnodelist, i, isReTx, RxIR>>

\* Slip: the leader relays the reply it was handed.
HandOrRelay_LeaderToo ==
    LET m == Head(todo)
    IN  /\ message # None
        /\ todo # <<>>
        /\ todo' = Tail(todo)
        /\ handed' = IF m = message.leaderId THEN handed + 1 ELSE handed
        /\ IRReTxnodesList' = Append(IRReTxnodesList, m)
        /\ UNCHANGED <<worldVars, message, direct, tempIRRxTxnodelist, i,
                       isReTx, RxIR, forgot>>

\* The inner loops: the leader processes the message, the others relay it.
HandOrRelay ==
    LET m == Head(todo)
    IN  /\ message # None
        /\ todo # <<>>
        /\ todo' = Tail(todo)
        /\ IF m = message.leaderId
           THEN /\ handed' = handed + 1
                /\ UNCHANGED IRReTxnodesList
           ELSE /\ IRReTxnodesList' = Append(IRReTxnodesList, m)
                /\ UNCHANGED handed
        /\ UNCHANGED <<worldVars, message, direct, tempIRRxTxnodelist, i,
                       isReTx, RxIR, forgot>>

\* Slip: the loop over the relays starts at 0.
Round_FromZero(relays) ==
    IF relays = <<>>
    THEN /\ message' = None
         /\ handed' = 0
         /\ UNCHANGED <<IRReTxnodesList, tempIRRxTxnodelist, i, isReTx>>
    ELSE /\ tempIRRxTxnodelist' = relays
         /\ IRReTxnodesList' = <<>>
         /\ i' = 0
         /\ isReTx' = FALSE
         /\ UNCHANGED <<message, handed>>

\* ReTxIREPLYMessage is called, and calls itself, while there are new relays.
Round(relays) ==
    IF relays = <<>>
    THEN /\ message' = None
         /\ handed' = 0
         /\ UNCHANGED <<IRReTxnodesList, tempIRRxTxnodelist, i, isReTx>>
    ELSE /\ tempIRRxTxnodelist' = relays
         /\ IRReTxnodesList' = <<>>
         /\ i' = 1
         /\ isReTx' = FALSE
         /\ UNCHANGED <<message, handed>>

Remember(n, records) ==
    RxIR' = [RxIR EXCEPT ![n] =
               Append(records, Record(message.nodeId, message.sequenceNumber, now))]

EndDirect ==
    /\ message # None
    /\ direct
    /\ todo = <<>>
    /\ Remember(message.nodeId, RxIR[message.nodeId])
    /\ direct' = FALSE
    /\ Round(IRReTxnodesList)
    /\ UNCHANGED <<worldVars, todo, forgot>>

-----------------------------------------------------------------------------
(* ReTxIREPLYMessage.                                                      *)

\* Slip: i is incremented only by relays that have not relayed before.
Relay_Waits ==
    /\ message # None
    /\ ~direct
    /\ todo = <<>>
    /\ i <= Len(tempIRRxTxnodelist)
    /\ LET n == tempIRRxTxnodelist[i]
       IN  \E kept \in Remembered(RxIR[n], now, IREPLY_EXPIRE_TIME) :
           /\ isReTx' = Repeated(RxIR[n], kept, message.nodeId,
                                 message.sequenceNumber, isReTx)
           /\ forgot' = (forgot \/ (RxIR[n] # <<>> /\ kept = <<>>))
           /\ IF isReTx'
              THEN /\ RxIR' = [RxIR EXCEPT ![n] = kept]
                   /\ UNCHANGED <<todo, i>>
              ELSE /\ Remember(n, kept)
                   /\ todo' \in Receivers(loc, n, Active)
                   /\ i' = i + 1
    /\ UNCHANGED <<worldVars, message, direct, IRReTxnodesList,
                   tempIRRxTxnodelist, handed>>

\* The body of the outer loop, up to the loop over the receivers.
Relay ==
    /\ message # None
    /\ ~direct
    /\ todo = <<>>
    /\ i <= Len(tempIRRxTxnodelist)
    /\ LET n == tempIRRxTxnodelist[i]
       IN  \E kept \in Remembered(RxIR[n], now, IREPLY_EXPIRE_TIME) :
           /\ isReTx' = Repeated(RxIR[n], kept, message.nodeId,
                                 message.sequenceNumber, isReTx)
           /\ forgot' = (forgot \/ (RxIR[n] # <<>> /\ kept = <<>>))
           /\ IF isReTx'
              THEN /\ RxIR' = [RxIR EXCEPT ![n] = kept]
                   /\ UNCHANGED todo
              ELSE /\ Remember(n, kept)
                   /\ todo' \in Receivers(loc, n, Active)
    /\ i' = i + 1
    /\ UNCHANGED <<worldVars, message, direct, IRReTxnodesList,
                   tempIRRxTxnodelist, handed>>

RoundOver == message # None /\ ~direct /\ todo = <<>> /\ i > Len(tempIRRxTxnodelist)

EndRound ==
    /\ RoundOver
    /\ Round(IRReTxnodesList)
    /\ UNCHANGED <<worldVars, direct, todo, RxIR, forgot>>

-----------------------------------------------------------------------------
(* Between two floods.                                                     *)

nodePeriodicUpdate(n) ==
    /\ message = None
    /\ ~isActive[n]
    /\ isActive' = [isActive EXCEPT ![n] = TRUE]
    /\ UNCHANGED <<loc, now, IRmessageCount, loopVars, RxIR, handed, forgot>>

nodeMovementUpdate ==
    /\ message = None
    /\ loc' \in Layouts \ {loc}
    /\ UNCHANGED <<isActive, now, IRmessageCount, loopVars, RxIR, handed, forgot>>

PassTime ==
    /\ message = None
    /\ \E gap \in Gaps : now' = now + gap
    /\ now' \in Times
    /\ UNCHANGED <<loc, isActive, IRmessageCount, loopVars, RxIR, handed, forgot>>

Flooding == HandOrRelay \/ EndDirect \/ Relay \/ EndRound

Next ==
    \/ \E r \in Replies : IRmessageCount \in Numbers /\ evIREPLY(r[1], r[2])
    \/ \E n \in Node : nodePeriodicUpdate(n)
    \/ Flooding
    \/ nodeMovementUpdate
    \/ PassTime

\* A flood is a call: it runs to its end.
Spec == Init /\ [][Next]_vars /\ WF_vars(Flooding)

-----------------------------------------------------------------------------
(* Properties.                                                             *)

\* Every variable has the type of the program's variable.
TypeOK ==
    /\ loc \in [Node -> Location]
    /\ isActive \in [Node -> BOOLEAN]
    /\ now \in Nat
    /\ IRmessageCount \in Nat
    /\ message \in Message \cup {None}
    /\ direct \in BOOLEAN
    /\ todo \in Seq(Node)
    /\ IRReTxnodesList \in Seq(Node)
    /\ tempIRRxTxnodelist \in Seq(Node)
    /\ i \in 1..Len(tempIRRxTxnodelist) + 1
    /\ isReTx \in BOOLEAN
    /\ RxIR \in [Node -> Seq([from : Node, number : Nat, time : Nat])]
    /\ handed \in Nat
    /\ forgot \in BOOLEAN

\* How often n has relayed, or sent, the message in flight.
Relays(n) ==
    Cardinality({k \in DOMAIN RxIR[n] : /\ RxIR[n][k].from = message.nodeId
                                        /\ RxIR[n][k].number = message.sequenceNumber})

\* Nobody relays a reply twice, and the node that replies does not relay its
\* own when its neighbours relay it back, although it then compares only the
\* last record it has.
RelaysOnce ==
    message # None => /\ \A n \in Node : Relays(n) <= 1
                      /\ Relays(message.leaderId) = 0

\* The active nodes a reply of n gets to when the leader does not relay it.
Connected(n, leader) ==
    LET reach[k \in Nat] ==
          IF k = 0 THEN {n}
          ELSE reach[k-1] \cup
                 {m \in Active : \E s \in reach[k-1] \ {leader} : InRange(loc, s, m)}
    IN  reach[Cardinality(Node)]

Ending == RoundOver /\ IRReTxnodesList = <<>>

\* A reply gets to its leader over any number of hops, unless a relay without
\* records took over another's isReTx; and to nobody else.
LeaderIsReached ==
    Ending /\ ~forgot =>
        (handed > 0 <=> message.leaderId \in Connected(message.nodeId, message.leaderId))

\* The recursion of ReTxIREPLYMessage ends.
FloodEnds == message # None ~> message = None

=============================================================================
