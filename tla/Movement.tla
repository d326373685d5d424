------------------------------ MODULE Movement ------------------------------
(***************************************************************************)
(* The places of the nodes in the scenarios of protocol-test: their        *)
(* set-up by GKAInit, the movement each periodic update schedules, and the *)
(* end of both (gka-simul-base.cc, gka-protocol.cc).                       *)
(*                                                                         *)
(* nodeMovementUpdate seeds rand() with the time of day in seconds: every  *)
(* node that moves within the same second of the day draws the same        *)
(* numbers, `dice', however much simulated time passes.                    *)
(***************************************************************************)
EXTENDS Places, Radio

CONSTANTS
    Node,                \* indices of nodeQueue
    PERIOD_INTERVAL,     \* between two periodic updates of a node
    Configs,             \* the GKAConfigs
    StartTimes,          \* when a node may become active
    Draws,               \* what rand() gives GKAInit after srand
    Dice,                \* what rand() gives nodeMovementUpdate after srand
    Uninitialised        \* what the coordinates of a new GKANode may be

GKAConfig == [simScenario : Nat, numGroups : Nat, simulationTime : Nat]
Location == [locX : Int, locY : Int]

ASSUME ConfigAssumption ==
    /\ Node \subseteq Nat
    /\ NODE_COVERAGE_AREA = 300
    /\ PERIOD_INTERVAL \in Nat \ {0}
    /\ Configs \subseteq GKAConfig
    /\ StartTimes \subseteq Nat
    /\ Draws \subseteq Nat \X Nat
    /\ Dice \subseteq Nat \X Nat \X Nat
    /\ Uninitialised \subseteq Location

\* The coordinates GKAInit gives to nodes without groups.
Grid == 1..1000

VARIABLES
    config, loc, now,
    updates,             \* when the periodic update of a node runs next
    movements,           \* when the movements of a node run
    dice,                \* what srand(time(0)) makes rand() give at present
    sector,              \* history: selectSector; 0 when there are no groups
    ticked               \* history: the nodes with a tick between their two draws

vars == <<config, loc, now, updates, movements, dice, sector, ticked>>

\* GKAInit, and makeInstance, which schedules the first update.
Init ==
    /\ config \in Configs
    /\ now = 0
    /\ \E first, second \in [Node -> Draws] :
         /\ sector = [n \in Node |->
              IF config.numGroups = 0 THEN 0 ELSE Sector(config.numGroups, first[n])]
         /\ ticked = {n \in Node : second[n] # first[n]}
         /\ LET PlacesOf(n) ==
                  Placed(config.numGroups, first[n], second[n], Uninitialised)
            IN  loc \in {f \in [Node -> UNION {PlacesOf(n) : n \in Node}] :
                            \A n \in Node : f[n] \in PlacesOf(n)}
    /\ \E start \in [Node -> StartTimes] : updates = [n \in Node |-> {start[n]}]
    /\ movements = [n \in Node |-> {}]
    /\ dice \in Dice

\* Slip: the movement is put off by one more period.
nodePeriodicUpdate_Late(n) ==
    /\ now \in updates[n]
    /\ updates' = [updates EXCEPT ![n] =
         IF now + PERIOD_INTERVAL <= config.simulationTime
         THEN {now + PERIOD_INTERVAL} ELSE {}]
    /\ movements' = [movements EXCEPT ![n] = @ \cup {now + 2 * PERIOD_INTERVAL}]
    /\ UNCHANGED <<config, loc, now, dice, sector, ticked>>

\* The scheduling at the end of nodePeriodicUpdate.
nodePeriodicUpdate(n) ==
    /\ now \in updates[n]
    /\ updates' = [updates EXCEPT ![n] =
         IF now + PERIOD_INTERVAL <= config.simulationTime
         THEN {now + PERIOD_INTERVAL} ELSE {}]
    /\ movements' = [movements EXCEPT ![n] = @ \cup {now + PERIOD_INTERVAL}]
    /\ UNCHANGED <<config, loc, now, dice, sector, ticked>>

nodeMovementUpdate(n) ==
    /\ now \in movements[n]
    /\ movements' = [movements EXCEPT ![n] = @ \ {now}]
    /\ loc' = [loc EXCEPT ![n] = Moved(config, @, dice, now)]
    /\ UNCHANGED <<config, now, updates, dice, sector, ticked>>

\* The events of this instant run before those of the next.
Scheduled == UNION {updates[n] \cup movements[n] : n \in Node}

PassTime ==
    /\ now \notin Scheduled
    /\ \E t \in Scheduled :
         /\ \A u \in Scheduled : t <= u
         /\ now' = t
    /\ UNCHANGED <<config, loc, updates, movements, dice, sector, ticked>>

\* The next second of the day begins.
Tick ==
    /\ dice' \in Dice
    /\ UNCHANGED <<config, loc, now, updates, movements, sector, ticked>>

Next ==
    \/ \E n \in Node : nodePeriodicUpdate(n) \/ nodeMovementUpdate(n)
    \/ PassTime
    \/ Tick

Spec == Init /\ [][Next]_vars

\* The scheduler runs what is scheduled.
RunEvent == PassTime \/ \E n \in Node : nodePeriodicUpdate(n) \/ nodeMovementUpdate(n)

FairSpec == Spec /\ WF_vars(RunEvent)

-----------------------------------------------------------------------------
(* Properties.                                                             *)

\* Every variable has its type, no event is left behind by the clock, and a
\* node never has more than this movement and the next one to come.
TypeOK ==
    /\ config \in GKAConfig
    /\ loc \in [Node -> Location]
    /\ now \in Nat
    /\ updates \in [Node -> SUBSET Nat]
    /\ movements \in [Node -> SUBSET Nat]
    /\ \A n \in Node : \A t \in updates[n] \cup movements[n] : t >= now
    /\ \A n \in Node : \A s, t \in movements[n] : t - s <= PERIOD_INTERVAL
    /\ dice \in Nat \X Nat \X Nat
    /\ sector \in [Node -> Nat]
    /\ ticked \subseteq Node

Merging == config.simScenario = 3 /\ config.numGroups > 1

\* Two groups that merge are groups: until half time no node is in range of a
\* node of the other sector.  The sectors are only 300 apart, as far as a
\* message gets.  What keeps nodes off both borders is that the sector and
\* locX are the same number modulo 2 and modulo 300, when both are drawn in
\* the same second.  One such node is enough to keep a pair apart: only two
\* nodes that both had a tick between their draws may hear each other.
GroupsApart ==
    Merging /\ config.numGroups = 2 /\ 2 * now < config.simulationTime =>
        \A m, n \in Node :
            sector[m] # sector[n] /\ InRange(loc, m, n) => {m, n} \subseteq ticked

\* One group is a group: its nodes are all in range of each other.
OneSectorInRange ==
    config.numGroups = 1 => \A m, n \in Node : m # n => InRange(loc, m, n)

\* How far a place is outside the square in the middle of the grid.
Off(c) == IF c > 575 THEN c - 575 ELSE IF c < 425 THEN 425 - c ELSE 0

\* Nodes that merge never go away from the centre, neither by a step that is
\* too long nor by one that is drawn when they have arrived.
Converging ==
    [][config.numGroups > 1 =>
         \A n \in Node : /\ Off(loc'[n].locX) <= Off(loc[n].locX)
                         /\ Off(loc'[n].locY) <= Off(loc[n].locY)]_vars

\* With at most four groups, or one, nodes stay in the grid GKAInit uses.
InGrid ==
    config.numGroups \in 1..4 =>
        \A n \in Node : loc[n].locX \in Grid /\ loc[n].locY \in Grid

\* Scenario 3 ends with all the nodes in one place, those that become active
\* after half time included, wherever they were put.
Merges == Merging ~> [](\A n \in Node : loc[n] = Centre)

=============================================================================
