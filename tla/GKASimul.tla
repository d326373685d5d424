------------------------------ MODULE GKASimul ------------------------------
(***************************************************************************)
(* The simulation: the protocol of GKAInstance over the floods of          *)
(* FloodIGROUP and FloodIREPLY, among nodes that have a place.             *)
(*                                                                         *)
(* One action is one step of a flood together with the call it makes: a    *)
(* step that hands the IGROUP runs processIGROUP, which may start the      *)
(* flood of an IREPLY; that flood runs to its end, and hands the IREPLY to *)
(* the leader, before the flood of the IGROUP goes on.                     *)
(***************************************************************************)
EXTENDS GKAInstance, Places

CONSTANTS
    NODE_COVERAGE_AREA,
    Setups               \* scenarios, each with the places of the nodes

Location == [locX : Int, locY : Int]

\* The scenarios that draw random steps are in Movement.
ASSUME SetupAssumption ==
    \A s \in Setups : /\ s.simScenario \in Nat \ {1, 2}
                      /\ s.numGroups \in Nat
                      /\ s.loc \in [Node -> Location]

\* nodeQueue is an array, and no message is mistaken for none.
ASSUME QueueAssumption ==
    /\ IsFiniteSet(Node)
    /\ None \notin [leaderId : Node, sequenceNumber : Nat]
    /\ None \notin [leaderId : Node, nodeId : Node, sequenceNumber : Nat]
    /\ None \notin IREPLYMessage

VARIABLES
    config,              \* the GKAConfig of the simulation
    loc,
    nextMovement,        \* when nodeMovementUpdate runs next
    oneHop,              \* history: no message has ever needed a relay
    \* The flood of the IGROUP.
    IGdirect, IGtodo, IGReTxnodesList, tempIGRxTxnodelist, IGi, IGisReTx,
    processed, RxIG, IGforgot,
    \* The flood of the IREPLY.
    IRdirect, IRtodo, IRReTxnodesList, tempIRRxTxnodelist, IRi, IRisReTx,
    RxIR, IRhanded, IRforgot

placeVars == <<config, loc, nextMovement, oneHop>>
IGvars == <<IGdirect, IGtodo, IGReTxnodesList, tempIGRxTxnodelist, IGi,
            IGisReTx, processed, RxIG, IGforgot>>
IRvars == <<IRdirect, IRtodo, IRReTxnodesList, tempIRRxTxnodelist, IRi,
            IRisReTx, RxIR, IRhanded, IRforgot>>
simVars == <<vars, placeVars, IGvars, IRvars>>

\* What the floods know of the messages.
IGMessage ==
    IF igroup = None THEN None
    ELSE [leaderId |-> igroup.leaderId, sequenceNumber |-> igroup.sequenceNumber]

IRMessage ==
    IF ireply = None THEN None
    ELSE [leaderId |-> ireply.leaderId, nodeId |-> ireply.nodeId,
          sequenceNumber |-> ireply.sequenceNumber]

IG == INSTANCE FloodIGROUP WITH
        Sources <- Node, Gaps <- Nat, Layouts <- [Node -> Location],
        Times <- Nat, Numbers <- Nat,
        message <- IGMessage, direct <- IGdirect, todo <- IGtodo, i <- IGi,
        isReTx <- IGisReTx, handed <- heard, forgot <- IGforgot

IR == INSTANCE FloodIREPLY WITH
        Replies <- {p \in Node \X Node : p[1] # p[2]}, Gaps <- Nat,
        Layouts <- [Node -> Location], Times <- Nat, Numbers <- Nat,
        message <- IRMessage, direct <- IRdirect, todo <- IRtodo, i <- IRi,
        isReTx <- IRisReTx, handed <- IRhanded, forgot <- IRforgot

-----------------------------------------------------------------------------
\* Nodes that a message gets to are in range of its sender.
OneHop ==
    \A l, m, n \in Node :
        IG!InRange(loc, l, m) /\ IG!InRange(loc, m, n) /\ l # n => IG!InRange(loc, l, n)

\* GKAInit.  The movement that follows a node's first update is the first.
SimInit ==
    /\ Init
    /\ \E s \in Setups :
         /\ config = [simScenario |-> s.simScenario, numGroups |-> s.numGroups,
                      simulationTime |-> simulationTime]
         /\ loc = s.loc
    /\ oneHop = OneHop
    /\ nextMovement = [n \in Node |-> nextUpdate[n] + PERIOD_INTERVAL]
    /\ IG!Init
    /\ IR!Init

-----------------------------------------------------------------------------
(* The periodic update.                                                    *)

\* An update that sends nothing.
SilentUpdate(n) ==
    /\ DrawBackoff(n) \/ DetachFromLeader(n) \/ IdleUpdate(n)
    /\ UNCHANGED <<placeVars, IGvars, IRvars>>

\* A leader's update ends with the call of evIGROUP.
LeaderSendsIGROUP(n) ==
    /\ BecomeLeader(n) \/ LeaderUpdate(n)
    /\ IG!evIGROUP(n)
    /\ UNCHANGED <<config, nextMovement, oneHop, IRvars>>

-----------------------------------------------------------------------------
(* The flood of the IGROUP.                                                *)

\* The call of evIREPLY with which processIGROUP ends, if it does.
RepliesIfAsked(m) ==
    \/ ireply' = None /\ UNCHANGED IRvars
    \/ ireply' # None /\ IR!evIREPLY(m, ireply'.leaderId)

\* The next receiver is handed the IGROUP.
HandIGROUP ==
    /\ ireply = None
    /\ IGtodo # <<>>
    /\ processIGROUP(Head(IGtodo))
    /\ RepliesIfAsked(Head(IGtodo))
    /\ IG!HandDirect \/ IG!HandRelayed
    /\ UNCHANGED <<config, nextMovement, oneHop>>

\* The next receiver is not, because of `processed'.
SkipIGROUP ==
    /\ ireply = None
    /\ UNCHANGED vars
    /\ IG!HandRelayed
    /\ UNCHANGED <<config, nextMovement, oneHop, IRvars>>

\* The steps between, the last of which ends the leader's update.
RelayIGROUP ==
    /\ ireply = None
    /\ UNCHANGED vars \/ EndIGROUP
    /\ IG!EndDirect \/ IG!Relay \/ IG!EndRound
    /\ UNCHANGED <<config, nextMovement, oneHop, IRvars>>

-----------------------------------------------------------------------------
(* The flood of the IREPLY.                                                *)

\* The next receiver is handed the IREPLY if it is the leader, which ignores
\* it unless it accepts it.
HandIREPLY ==
    /\ ireply # None
    /\ IRtodo # <<>>
    /\ LET m == Head(IRtodo)
       IN  \/ m = ireply.leaderId /\ processIREPLY(m)
           \/ m = ireply.leaderId /\ ~Accepts(m) /\ UNCHANGED vars
           \/ m # ireply.leaderId /\ UNCHANGED vars
    /\ IR!HandOrRelay
    /\ UNCHANGED <<config, nextMovement, oneHop, IGvars>>

\* The steps between, the last of which ends the call of processIGROUP.
RelayIREPLY ==
    /\ ireply # None
    /\ UNCHANGED vars \/ EndIREPLY
    /\ IR!EndDirect \/ IR!Relay \/ IR!EndRound
    /\ UNCHANGED <<config, nextMovement, oneHop, IGvars>>

-----------------------------------------------------------------------------
(* Movement and time.                                                      *)

\* None of these scenarios uses the numbers drawn.
MoveNode(n) ==
    /\ Quiet
    /\ nextMovement[n] = now
    /\ loc' = [loc EXCEPT ![n] = Moved(config, @, <<0, 0, 0>>, now)]
    /\ nextMovement' = [nextMovement EXCEPT ![n] = now + PERIOD_INTERVAL]
    /\ oneHop' = (oneHop /\ OneHop')
    /\ UNCHANGED <<vars, config, IGvars, IRvars>>

PassTimeTogether ==
    /\ PassTime
    /\ \A n \in Node : nextMovement[n] # now
    /\ UNCHANGED <<placeVars, IGvars, IRvars>>

SimNext ==
    \/ \E n \in Node : SilentUpdate(n) \/ LeaderSendsIGROUP(n) \/ MoveNode(n)
    \/ HandIGROUP
    \/ SkipIGROUP
    \/ RelayIGROUP
    \/ HandIREPLY
    \/ RelayIREPLY
    \/ PassTimeTogether

SimSpec == SimInit /\ [][SimNext]_simVars

-----------------------------------------------------------------------------
(* Properties.                                                             *)

\* The leader of n lists n, and they are in the same session.
InGroup(n, l) ==
    /\ n \in Members
    /\ l \in Leaders
    /\ leaderId[n] = l
    /\ EntryOf(l, n) # {}
    /\ sessionCurrent[n] = sessionCurrent[l]

\* A member that is in the session of its leader, and that the leader lists,
\* has computed the key the leader has.
KeyAgreement ==
    \A n, l \in Node : InGroup(n, l) => key[n] = key[l]

\* Where no message has needed a relay, keys agree at every moment: also while
\* groups merge, and while the leader renews its secret.  (A node that is
\* handed the same IGROUP by two relays asks twice for membership, and then
\* may take the secret of the wrong request.)
KeyAgreementOneHop == oneHop => KeyAgreement

\* One leader, and every other node is in its group with its key.
OneGroup ==
    \E l \in Leaders : \A n \in Node \ {l} : InGroup(n, l) /\ key[n] = key[l]

\* The election ends and the key is distributed, over any number of hops and
\* after groups have met: from some time on all the nodes are one group
\* whenever no message is in flight.
Converges == <>[](Quiet => OneGroup)

=============================================================================
