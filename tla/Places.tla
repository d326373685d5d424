------------------------------- MODULE Places -------------------------------
(***************************************************************************)
(* Where GKAInit puts the nodes and where nodeMovementUpdate takes them.   *)
(*                                                                         *)
(* `drawn' is the sequence of numbers rand() gives after srand.  For a     *)
(* sector and the place in it GKAInit reads the clock and seeds rand()     *)
(* twice: `first' and `second', which are the same unless a second of the  *)
(* day ends between them.                                                  *)
(***************************************************************************)
EXTENDS Integers, Sequences

At(x, y) == [locX |-> x, locY |-> y]

\* The sectors, named by the corner they grow from.
Corner == <<At(1, 1), At(600, 1), At(600, 600), At(1, 600)>>

Sector(numGroups, drawn) == (drawn[1] % numGroups) + 1

\* Slip: rand() is not seeded again, and the place is drawn after the sector.
SectorPlace_DrawnAfter(numGroups, first, second) ==
    LET corner == Corner[Sector(numGroups, first)]
    IN  At((first[2] % 300) + corner.locX, (first[2] % 300) + corner.locY)

\* rand() is seeded again between the sector and the place: in the same
\* second locX comes from the number the sector came from.
SectorPlace(numGroups, first, second) ==
    LET corner == Corner[Sector(numGroups, first)]
    IN  At((second[1] % 300) + corner.locX, (second[2] % 300) + corner.locY)

\* Slip: one group is taken for none.
Placed_OneIsNone(numGroups, first, second, uninitialised) ==
    IF numGroups <= 1
    THEN {At((first[1] % 1000) + 1, (first[2] % 1000) + 1)}
    ELSE IF Sector(numGroups, first) \in DOMAIN Corner
         THEN {SectorPlace(numGroups, first, second)}
         ELSE uninitialised

\* The places a node may get.  Nothing sets its coordinates when there are
\* more than four groups and it is in none of the first four.
Placed(numGroups, first, second, uninitialised) ==
    IF numGroups = 0
    THEN {At((first[1] % 1000) + 1, (first[2] % 1000) + 1)}
    ELSE IF Sector(numGroups, first) \in DOMAIN Corner
         THEN {SectorPlace(numGroups, first, second)}
         ELSE uninitialised

\* Scenario 1: one of eight directions.  Nothing keeps a node in the grid.
Wander(place, drawn) ==
    LET r1 == drawn[2] % 50
        r2 == drawn[3] % 50
        step == <<At(r1, r2), At(0, r1), At(-r1, r2), At(-r2, 0),
                  At(-r1, -r2), At(0, -r1), At(r1, -r2), At(r2, 0)>>
                [(drawn[1] % 8) + 1]
    IN  At(place.locX + step.locX, place.locY + step.locY)

\* Slip: a coordinate left of the centre goes on to the far side of it.
Towards_Far(c, r) ==
    IF c > 575 THEN c - r ELSE c + r

\* Scenario 2: each coordinate moves towards 425..575, where it stays.
Towards(c, r) ==
    IF c > 575 THEN c - r ELSE IF c < 425 THEN c + r ELSE c

Approach(place, drawn) ==
    At(Towards(place.locX, drawn[1] % 11), Towards(place.locY, drawn[2] % 11))

Centre == At(500, 500)

\* Slip: nodes wander off whether they are in groups or not.
Moved_GroupsWander(config, place, drawn, now) ==
    IF config.simScenario = 1 THEN Wander(place, drawn)
    ELSE place

\* Slip: nodes merge at half time, not from then on.
Moved_AtHalfTime(config, place, drawn, now) ==
    IF config.simScenario = 3 /\ config.numGroups > 1 /\ 2 * now = config.simulationTime
    THEN Centre
    ELSE place

\* nodeMovementUpdate, with the GKAConfig of the simulation.
Moved(config, place, drawn, now) ==
    IF config.simScenario = 1 /\ config.numGroups = 0 THEN Wander(place, drawn)
    ELSE IF config.simScenario = 2 /\ config.numGroups > 1 THEN Approach(place, drawn)
    ELSE IF /\ config.simScenario = 3
            /\ config.numGroups > 1
            /\ 2 * now >= config.simulationTime
         THEN Centre
         ELSE place

=============================================================================
