--------------------------- MODULE MovementProofs ---------------------------
(***************************************************************************)
(* Where the nodes are, for any number of them, any numbers drawn and any  *)
(* time of day.                                                            *)
(***************************************************************************)
EXTENDS Movement, TLAPS

\* What `%' gives, for the moduli GKAInit and nodeMovementUpdate use.
LEMMA ModRange ==
    ASSUME NEW a \in Nat
    PROVE  /\ a % 2 \in 0..1
           /\ a % 8 \in 0..7
           /\ a % 11 \in 0..10
           /\ a % 50 \in 0..49
           /\ a % 300 \in 0..299
           /\ a % 1000 \in 0..999
  OBVIOUS

LEMMA SectorRange ==
    ASSUME NEW n \in Nat \ {0}, NEW drawn \in Nat \X Nat
    PROVE  Sector(n, drawn) \in 1..n
<1>1. drawn[1] \in Nat
  OBVIOUS
<1>2. drawn[1] % n \in 0..n-1
  BY <1>1
<1> QED
  BY <1>2 DEF Sector

LEMMA ConfigTypes ==
    ASSUME NEW c \in GKAConfig
    PROVE  c.simScenario \in Nat /\ c.numGroups \in Nat /\ c.simulationTime \in Nat
  BY DEF GKAConfig

-----------------------------------------------------------------------------
(* Where GKAInit puts a node.                                              *)

LEMMA PlacedIsLocation ==
    ASSUME NEW numGroups \in Nat, NEW first \in Nat \X Nat, NEW second \in Nat \X Nat
    PROVE  Placed(numGroups, first, second, Uninitialised) \subseteq Location
<1>1. first[1] \in Nat /\ first[2] \in Nat /\ second[1] \in Nat /\ second[2] \in Nat
  OBVIOUS
<1>2. \A x, y \in Int : At(x, y) \in Location
  BY DEF At, Location
<1>3. /\ first[1] % 1000 \in Int /\ first[2] % 1000 \in Int
      /\ second[1] % 300 \in Int /\ second[2] % 300 \in Int
  BY <1>1, ModRange
<1>4. ASSUME Sector(numGroups, first) \in DOMAIN Corner
      PROVE  SectorPlace(numGroups, first, second) \in Location
  <2>1. \A k \in DOMAIN Corner : Corner[k].locX \in Int /\ Corner[k].locY \in Int
    BY DEF Corner, At
  <2> QED
    BY <1>2, <1>3, <1>4, <2>1 DEF SectorPlace
<1> QED
  BY <1>2, <1>3, <1>4, ConfigAssumption DEF Placed

\* A sector is as wide as what is added to its corner.
Width == 0..299
CornerCoordinate == 1..600
FirstSquare == 1..300

LEMMA InSectorInGrid ==
    ASSUME NEW a \in Width, NEW c \in CornerCoordinate
    PROVE  /\ a + c \in Grid
           /\ c = 1 => a + c \in FirstSquare
  BY SMT DEF Width, CornerCoordinate, FirstSquare, Grid

LEMMA CornerCoordinates ==
    /\ DOMAIN Corner = 1..4
    /\ \A k \in 1..4 : /\ Corner[k].locX \in CornerCoordinate
                       /\ Corner[k].locY \in CornerCoordinate
    /\ Corner[1].locX = 1 /\ Corner[1].locY = 1
  BY SMT DEF Corner, At, CornerCoordinate

\* In one of at most four sectors every coordinate is in the grid, and those
\* of the first are at most 300.
LEMMA PlacedInGrid ==
    ASSUME NEW numGroups \in 1..4, NEW first \in Nat \X Nat, NEW second \in Nat \X Nat,
           NEW p \in Placed(numGroups, first, second, Uninitialised)
    PROVE  /\ p.locX \in Grid /\ p.locY \in Grid
           /\ numGroups = 1 => p.locX \in FirstSquare /\ p.locY \in FirstSquare
<1> DEFINE k == Sector(numGroups, first)
           a == second[1] % 300
           b == second[2] % 300
<1>1. second[1] \in Nat /\ second[2] \in Nat
  OBVIOUS
<1>2. k \in 1..numGroups
  BY SectorRange
<1>3. k \in 1..4 /\ (numGroups = 1 => k = 1)
  <2> HIDE DEF k
  <2> QED
    BY <1>2
<1>4. p = SectorPlace(numGroups, first, second)
  BY <1>3, CornerCoordinates DEF Placed
<1>5. a \in Width /\ b \in Width
  BY <1>1, ModRange, SMT DEF Width
<1>6. p.locX = a + Corner[k].locX /\ p.locY = b + Corner[k].locY
  BY <1>4, SMT DEF SectorPlace, At
<1> HIDE DEF k, a, b
<1>7. Corner[k].locX \in CornerCoordinate /\ Corner[k].locY \in CornerCoordinate
  BY <1>3, CornerCoordinates, Zenon
<1>8. numGroups = 1 => Corner[k].locX = 1 /\ Corner[k].locY = 1
  BY <1>3, CornerCoordinates, Zenon
<1>9. p.locX \in Grid /\ p.locY \in Grid
  BY <1>5, <1>6, <1>7, InSectorInGrid, Zenon
<1>10. numGroups = 1 => p.locX \in FirstSquare /\ p.locY \in FirstSquare
  BY <1>5, <1>6, <1>7, <1>8, InSectorInGrid, Zenon
<1> QED
  BY <1>9, <1>10

\* On which side of the borders, 300 and 600, a node of sector k is: never
\* beyond the border of its sector, and never on it when the sector modulo 2
\* and locX modulo 300 are of one number, that is without a tick.
OnSide(k, x) == k \in 1..2 /\ (k = 1 => x <= 300) /\ (k = 2 => x >= 600)
OffBorder(x) == x \notin {300, 600}

LEMMA PlacedOnSide ==
    ASSUME NEW first \in Nat \X Nat, NEW second \in Nat \X Nat,
           NEW p \in Placed(2, first, second, Uninitialised)
    PROVE  /\ OnSide(Sector(2, first), p.locX)
           /\ second = first => OffBorder(p.locX)
<1>1. first[1] \in Nat /\ second[1] \in Nat
  OBVIOUS
<1>2. Sector(2, first) = (first[1] % 2) + 1
  BY DEF Sector
<1>3. Sector(2, first) \in 1..2
  BY <1>1, <1>2, ModRange
<1>4. p.locX = (second[1] % 300) + Corner[Sector(2, first)].locX
  BY <1>3 DEF Placed, SectorPlace, At, Corner
<1>5. Corner[1].locX = 1 /\ Corner[2].locX = 600
  BY DEF Corner, At
<1>6. second[1] % 300 \in 0..299
  BY <1>1, ModRange
<1>7. /\ first[1] % 2 = 0 => first[1] % 300 # 299
      /\ first[1] % 2 = 1 => first[1] % 300 # 0
  BY <1>1
<1>8. OnSide(Sector(2, first), p.locX)
  BY <1>3, <1>4, <1>5, <1>6, SMT DEF OnSide
<1>9. ASSUME second = first PROVE OffBorder(p.locX)
  <2>1. second[1] = first[1]
    BY <1>9
  <2> QED
    BY <1>1, <1>2, <1>3, <1>4, <1>5, <1>6, <1>7, <2>1, ModRange, SMT DEF OffBorder
<1> QED
  BY <1>8, <1>9

-----------------------------------------------------------------------------
(* Where nodeMovementUpdate takes a node.                                  *)

LEMMA WanderIsLocation ==
    ASSUME NEW place \in Location, NEW drawn \in Nat \X Nat \X Nat
    PROVE  Wander(place, drawn) \in Location
<1> DEFINE r1 == drawn[2] % 50
           r2 == drawn[3] % 50
           steps == <<At(r1, r2), At(0, r1), At(-r1, r2), At(-r2, 0),
                      At(-r1, -r2), At(0, -r1), At(r1, -r2), At(r2, 0)>>
<1>1. drawn[1] \in Nat /\ drawn[2] \in Nat /\ drawn[3] \in Nat
  OBVIOUS
<1>2. r1 \in Int /\ r2 \in Int /\ (drawn[1] % 8) + 1 \in 1..8
  BY <1>1, ModRange
<1> HIDE DEF r1, r2
<1>3. \A k \in 1..8 : steps[k].locX \in Int /\ steps[k].locY \in Int
  BY <1>2 DEF At
<1>4. PICK k \in 1..8 : k = (drawn[1] % 8) + 1
  BY <1>2, Zenon
<1>5. Wander(place, drawn) = At(place.locX + steps[k].locX, place.locY + steps[k].locY)
  BY <1>4, Zenon DEF Wander, r1, r2
<1>6. place.locX \in Int /\ place.locY \in Int
  BY DEF Location
<1> HIDE DEF steps
<1> QED
  BY <1>3, <1>5, <1>6 DEF At, Location

\* A movement of a coordinate that is not away from the centre, nor out of
\* the grid.
Pulls(c, d) ==
    /\ Off(d) <= Off(c)
    /\ c \in Grid => d \in Grid

LEMMA TowardsPulls ==
    ASSUME NEW c \in Int, NEW r \in 0..10
    PROVE  Towards(c, r) \in Int /\ Pulls(c, Towards(c, r))
  BY SMT DEF Towards, Off, Pulls, Grid

LEMMA MovedIsLocation ==
    ASSUME NEW c \in GKAConfig, NEW place \in Location, NEW t \in Nat,
           NEW drawn \in Nat \X Nat \X Nat
    PROVE  Moved(c, place, drawn, t) \in Location
<1>1. drawn[1] % 11 \in 0..10 /\ drawn[2] % 11 \in 0..10
  BY ModRange
<1>2. Approach(place, drawn) \in Location
  BY <1>1, TowardsPulls DEF Approach, At, Location
<1>3. Centre \in Location
  BY DEF Centre, At, Location
<1> QED
  BY <1>2, <1>3, WanderIsLocation DEF Moved

\* With at least one group a movement does not leave the grid, and does not
\* lead away from its centre.
LEMMA MovedConverges ==
    ASSUME NEW c \in GKAConfig, NEW place \in Location, NEW t \in Nat,
           NEW drawn \in Nat \X Nat \X Nat, c.numGroups # 0,
           NEW to, to = Moved(c, place, drawn, t)
    PROVE  Pulls(place.locX, to.locX) /\ Pulls(place.locY, to.locY)
<1>1. PICK r1, r2 \in 0..10 : r1 = drawn[1] % 11 /\ r2 = drawn[2] % 11
  <2>1. drawn[1] % 11 \in 0..10 /\ drawn[2] % 11 \in 0..10
    BY ModRange
  <2> QED
    BY <2>1, Zenon
<1>2. place.locX \in Int /\ place.locY \in Int
  BY DEF Location
<1>3. CASE to = Approach(place, drawn)
  <2>1. to = At(Towards(place.locX, r1), Towards(place.locY, r2))
    BY <1>1, <1>3, Zenon DEF Approach
  <2>2. to.locX = Towards(place.locX, r1) /\ to.locY = Towards(place.locY, r2)
    BY <2>1 DEF At
  <2> QED
    BY <1>2, <2>2, TowardsPulls
<1>4. CASE to = Centre
  <2>1. to.locX = 500 /\ to.locY = 500
    BY <1>4 DEF Centre, At
  <2> QED
    BY <1>2, <2>1, SMT DEF Pulls, Off, Grid
<1>5. CASE to = place
  <2>1. \A x \in Int : Pulls(x, x)
    BY DEF Pulls, Off
  <2> QED
    BY <1>2, <1>5, <2>1
<1>6. to = Approach(place, drawn) \/ to = Centre \/ to = place
  BY Zenon DEF Moved
<1> QED
  BY <1>3, <1>4, <1>5, <1>6

-----------------------------------------------------------------------------
(* Invariants.                                                             *)

\* What the proof of TypeOK needs: no event is more than a period away.
EventsNear ==
    \A n \in Node : \A t \in movements[n] : t <= now + PERIOD_INTERVAL

\* What keeps two sectors apart, which the coordinates keep until half time.
PlacesApart ==
    Merging /\ config.numGroups = 2 /\ 2 * now < config.simulationTime =>
        \A n \in Node : /\ OnSide(sector[n], loc[n].locX)
                        /\ n \notin ticked => OffBorder(loc[n].locX)

\* One group stays where it was put.
FirstSector ==
    config.numGroups = 1 =>
        \A n \in Node : loc[n].locX \in FirstSquare /\ loc[n].locY \in FirstSquare

PlaceInv == TypeOK /\ EventsNear /\ PlacesApart /\ FirstSector /\ InGrid

OnGrid(p) == p.locX \in Grid /\ p.locY \in Grid

LEMMA PullsOnGrid ==
    ASSUME NEW p, NEW q, OnGrid(p), Pulls(p.locX, q.locX), Pulls(p.locY, q.locY)
    PROVE  OnGrid(q)
  BY DEF OnGrid, Pulls

LEMMA InitPlaces == Init => PlaceInv
<1> SUFFICES ASSUME Init PROVE PlaceInv
  OBVIOUS
<1>1. config \in GKAConfig /\ now = 0 /\ dice \in Nat \X Nat \X Nat
  BY ConfigAssumption DEF Init
<1>2. PICK first \in [Node -> Draws], second \in [Node -> Draws] :
        /\ sector = [n \in Node |->
             IF config.numGroups = 0 THEN 0 ELSE Sector(config.numGroups, first[n])]
        /\ ticked = {n \in Node : second[n] # first[n]}
        /\ loc \in [Node -> UNION {Placed(config.numGroups, first[n], second[n],
                                           Uninitialised) : n \in Node}]
        /\ \A n \in Node :
             loc[n] \in Placed(config.numGroups, first[n], second[n], Uninitialised)
  BY Zenon DEF Init
<1>3. \A n \in Node : first[n] \in Nat \X Nat /\ second[n] \in Nat \X Nat
  BY ConfigAssumption
<1>4. config.numGroups \in Nat
  BY <1>1, ConfigTypes
<1>5. loc \in [Node -> Location]
  <2>1. \A n \in Node : loc[n] \in Location
    BY <1>2, <1>3, <1>4, PlacedIsLocation
  <2> QED
    BY <1>2, <2>1
<1>6. sector \in [Node -> Nat] /\ ticked \subseteq Node
  BY <1>2, <1>3, <1>4, SectorRange
<1>7. /\ updates \in [Node -> SUBSET Nat]
      /\ movements = [n \in Node |-> {}]
      /\ \A n \in Node : \A t \in updates[n] : t >= 0
  BY ConfigAssumption DEF Init
<1>8. TypeOK /\ EventsNear
  BY <1>1, <1>5, <1>6, <1>7 DEF TypeOK, EventsNear
<1>9. PlacesApart
  <2> SUFFICES ASSUME config.numGroups = 2, NEW n \in Node
               PROVE  /\ OnSide(sector[n], loc[n].locX)
                      /\ n \notin ticked => OffBorder(loc[n].locX)
    BY DEF PlacesApart
  <2>1. /\ sector[n] = Sector(2, first[n])
        /\ loc[n] \in Placed(2, first[n], second[n], Uninitialised)
        /\ n \notin ticked => second[n] = first[n]
    BY <1>2
  <2> QED
    BY <1>3, <2>1, PlacedOnSide
<1>10. FirstSector /\ InGrid
  BY <1>2, <1>3, <1>4, PlacedInGrid DEF FirstSector, InGrid
<1> QED
  BY <1>8, <1>9, <1>10 DEF PlaceInv

\* What keeps the places: nobody moves.
LEMMA PlacesKept ==
    ASSUME PlaceInv, now' \in Nat, now' >= now, UNCHANGED <<config, loc, sector, ticked>>
    PROVE  PlacesApart' /\ FirstSector' /\ InGrid'
<1>1. now \in Nat /\ config.simulationTime \in Nat
  BY ConfigTypes DEF PlaceInv, TypeOK
<1>2. PlacesApart'
  <2>1. Merging' = Merging
    BY DEF Merging
  <2>2. 2 * now' < config'.simulationTime => 2 * now < config.simulationTime
    BY <1>1
  <2> QED
    BY <2>1, <2>2, Zenon DEF PlaceInv, PlacesApart
<1>3. FirstSector'
  BY DEF PlaceInv, FirstSector
<1>4. InGrid'
  BY DEF PlaceInv, InGrid
<1> QED
  BY <1>2, <1>3, <1>4

LEMMA StillNear ==
    ASSUME NEW t \in Nat, NEW a \in Nat, NEW b \in Nat, NEW p \in Nat,
           t <= a + p, b >= a
    PROVE  t <= b + p
  OBVIOUS

LEMMA PlacesPreserved == PlaceInv /\ [Next]_vars => PlaceInv'
<1> SUFFICES ASSUME PlaceInv, [Next]_vars PROVE PlaceInv'
  OBVIOUS
<1> USE DEF PlaceInv
<1>1. /\ PERIOD_INTERVAL \in Nat \ {0} /\ now \in Nat
      /\ config \in GKAConfig /\ config.numGroups \in Nat
      /\ config.simulationTime \in Nat
  BY ConfigAssumption, ConfigTypes DEF TypeOK
<1>2. ASSUME NEW n \in Node, nodePeriodicUpdate(n) PROVE PlaceInv'
  <2>1. TypeOK'
    <3>1. updates' \in [Node -> SUBSET Nat] /\ movements' \in [Node -> SUBSET Nat]
      BY <1>1, <1>2 DEF nodePeriodicUpdate, TypeOK
    <3>2. \A m \in Node : \A t \in updates'[m] \cup movements'[m] : t >= now'
      BY <1>1, <1>2 DEF nodePeriodicUpdate, TypeOK
    <3>3. \A m \in Node : \A s, t \in movements'[m] : t - s <= PERIOD_INTERVAL
      BY <1>1, <1>2 DEF nodePeriodicUpdate, TypeOK, EventsNear
    <3> QED
      BY <1>2, <3>1, <3>2, <3>3 DEF nodePeriodicUpdate, TypeOK
  <2>2. EventsNear'
    BY <1>1, <1>2 DEF nodePeriodicUpdate, TypeOK, EventsNear
  <2>3. now' = now /\ UNCHANGED <<config, loc, sector, ticked>>
    BY <1>2 DEF nodePeriodicUpdate
  <2>4. PlacesApart' /\ FirstSector' /\ InGrid'
    BY <1>1, <2>3, PlacesKept
  <2> QED
    BY <2>1, <2>2, <2>4
<1>3. ASSUME NEW n \in Node, nodeMovementUpdate(n) PROVE PlaceInv'
  <2> DEFINE to == Moved(config, loc[n], dice, now)
  <2>1. /\ loc[n] \in Location /\ dice \in Nat \X Nat \X Nat
        /\ loc' = [loc EXCEPT ![n] = to] /\ loc \in [Node -> Location]
        /\ UNCHANGED <<config, now, updates, dice, sector, ticked>>
        /\ \A m \in Node : movements'[m] \subseteq movements[m]
        /\ movements' \in [Node -> SUBSET Nat]
    BY <1>3 DEF nodeMovementUpdate, TypeOK
  <2>2. to \in Location
    BY <1>1, <2>1, MovedIsLocation
  <2>3. TypeOK' /\ EventsNear'
    <3>1. loc' \in [Node -> Location]
      BY <2>1, <2>2
    <3> QED
      BY <2>1, <3>1 DEF TypeOK, EventsNear
  <2>4. PlacesApart'
    <3>1. Merging /\ 2 * now < config.simulationTime => to = loc[n]
      BY <1>1 DEF Moved, Merging
    <3> QED
      BY <2>1, <3>1 DEF PlacesApart, Merging
  <2>5. FirstSector'
    <3>1. config.numGroups = 1 => to = loc[n]
      BY DEF Moved
    <3> QED
      BY <2>1, <3>1 DEF FirstSector
  <2>6. InGrid'
    <3>1. config.numGroups # 0 =>
            Pulls(loc[n].locX, to.locX) /\ Pulls(loc[n].locY, to.locY)
      BY <1>1, <2>1, MovedConverges, Zenon
    <3> SUFFICES ASSUME config.numGroups \in 1..4
                 PROVE  \A m \in Node : OnGrid(loc'[m])
      BY <2>1, Zenon DEF InGrid, OnGrid
    <3>2. config.numGroups # 0
      OBVIOUS
    <3>3. \A m \in Node : OnGrid(loc[m])
      BY Zenon DEF InGrid, OnGrid
    <3>4. OnGrid(to)
      <4> HIDE DEF to
      <4>1. OnGrid(loc[n])
        BY <3>3, Zenon
      <4> QED
        BY <3>1, <3>2, <4>1, PullsOnGrid, Zenon
    <3>5. loc'[n] = to /\ \A m \in Node \ {n} : loc'[m] = loc[m]
      BY <2>1
    <3> QED
      BY <3>3, <3>4, <3>5, Zenon
  <2> QED
    BY <2>3, <2>4, <2>5, <2>6
<1>4. CASE PassTime
  <2>1. now' \in Nat /\ now' >= now /\ \A t \in Scheduled : now' <= t
    <3>1. PICK t \in Scheduled : (\A u \in Scheduled : t <= u) /\ now' = t
      BY <1>4 DEF PassTime
    <3>2. PICK n \in Node : t \in updates[n] \cup movements[n]
      BY DEF Scheduled
    <3>3. t \in Nat /\ t >= now
      BY <3>2 DEF TypeOK
    <3> QED
      BY <3>1, <3>3
  <2>2. UNCHANGED <<config, loc, updates, movements, dice, sector, ticked>>
    BY <1>4 DEF PassTime
  <2>3. TypeOK'
    <3>1. \A n \in Node : \A t \in updates[n] \cup movements[n] : now' <= t
      BY <2>1 DEF Scheduled
    <3> QED
      BY <2>1, <2>2, <3>1 DEF TypeOK
  <2>4. EventsNear'
    <3> SUFFICES ASSUME NEW n \in Node, NEW t \in movements[n]
                 PROVE  t <= now' + PERIOD_INTERVAL
      BY <2>2 DEF EventsNear
    <3>1. t \in Nat /\ t <= now + PERIOD_INTERVAL
      BY DEF TypeOK, EventsNear
    <3>2. now \in Nat /\ now' \in Nat /\ now' >= now /\ PERIOD_INTERVAL \in Nat
      BY <1>1, <2>1, Zenon
    <3> QED
      BY <3>1, <3>2, StillNear, Zenon
  <2> QED
    BY <2>1, <2>2, <2>3, <2>4, PlacesKept
<1>5. CASE Tick
  <2>1. /\ dice' \in Nat \X Nat \X Nat
        /\ UNCHANGED <<config, loc, now, updates, movements, sector, ticked>>
    BY <1>5, ConfigAssumption DEF Tick
  <2>2. TypeOK' /\ EventsNear'
    BY <2>1 DEF TypeOK, EventsNear
  <2> QED
    BY <1>1, <2>1, <2>2, PlacesKept
<1>6. CASE UNCHANGED vars
  <2>1. TypeOK' /\ EventsNear'
    BY <1>6 DEF vars, TypeOK, EventsNear
  <2> QED
    BY <1>1, <1>6, <2>1, PlacesKept DEF vars
<1> QED
  BY <1>2, <1>3, <1>4, <1>5, <1>6 DEF Next

LEMMA PlacesAlways == Spec => []PlaceInv
  BY InitPlaces, PlacesPreserved, PTL DEF Spec

-----------------------------------------------------------------------------
(* Theorems.                                                               *)

\* Every variable keeps its type, no event is left behind by the clock, and a
\* node's movements to come are at most a period apart: nodePeriodicUpdate
\* schedules one movement for each update, also for the last one.
THEOREM TypeCorrect == Spec => []TypeOK
  BY PlacesAlways, PTL DEF PlaceInv

\* Two groups of scenario 3 are out of range of each other until half time,
\* whatever rand() gives GKAInit, but for pairs of nodes that both had the
\* second of the day end between the draws of their sector and their place.
THEOREM GroupsApartHolds == Spec => []GroupsApart
<1>1. PlaceInv => GroupsApart
  <2> SUFFICES ASSUME PlaceInv, Merging, config.numGroups = 2,
                      2 * now < config.simulationTime,
                      NEW m \in Node, NEW n \in Node, sector[m] # sector[n],
                      m \notin ticked \/ n \notin ticked
               PROVE  ~InRange(loc, m, n)
    BY DEF GroupsApart
  <2>1. NODE_COVERAGE_AREA = 300
    BY ConfigAssumption
  <2>2. loc[m].locX \in Int /\ loc[n].locX \in Int
    BY DEF PlaceInv, TypeOK, Location
  <2>3. /\ OnSide(sector[m], loc[m].locX) /\ OnSide(sector[n], loc[n].locX)
        /\ OffBorder(loc[m].locX) \/ OffBorder(loc[n].locX)
    BY Zenon DEF PlaceInv, PlacesApart
  <2>4. CASE loc[m].locX <= 300 /\ loc[n].locX >= 600
    BY <2>1, <2>2, <2>3, <2>4, SMT DEF InRange, OffBorder
  <2>5. CASE loc[n].locX <= 300 /\ loc[m].locX >= 600
    BY <2>1, <2>2, <2>3, <2>5, SMT DEF InRange, OffBorder
  <2> QED
    BY <2>3, <2>4, <2>5, SMT DEF OnSide
<1> QED
  BY <1>1, PlacesAlways, PTL

\* The nodes of one group are in range of each other, always: in no scenario
\* does a node of a single group move.
THEOREM OneSectorInRangeHolds == Spec => []OneSectorInRange
<1>1. PlaceInv => OneSectorInRange
  <2> SUFFICES ASSUME PlaceInv, config.numGroups = 1,
                      NEW m \in Node, NEW n \in Node, m # n
               PROVE  InRange(loc, m, n)
    BY DEF OneSectorInRange
  <2>1. NODE_COVERAGE_AREA = 300
    BY ConfigAssumption
  <2>2. /\ loc[m].locX \in FirstSquare /\ loc[m].locY \in FirstSquare
        /\ loc[n].locX \in FirstSquare /\ loc[n].locY \in FirstSquare
    BY Zenon DEF PlaceInv, FirstSector
  <2>3. \A x, y \in FirstSquare : y \in (IF x >= 300 THEN x - 300 ELSE 0)..x + 300
    BY SMT DEF FirstSquare
  <2> QED
    BY <2>1, <2>2, <2>3 DEF InRange
<1> QED
  BY <1>1, PlacesAlways, PTL

\* With one to four groups nodeMovementUpdate keeps every node in the grid.
THEOREM InGridHolds == Spec => []InGrid
  BY PlacesAlways, PTL DEF PlaceInv

\* With groups no movement leads away from the centre.
THEOREM ConvergingHolds == Spec => Converging
<1>1. ASSUME PlaceInv, [Next]_vars
      PROVE  [config.numGroups > 1 =>
                \A n \in Node : /\ Off(loc'[n].locX) <= Off(loc[n].locX)
                                /\ Off(loc'[n].locY) <= Off(loc[n].locY)]_vars
  <2>1. \A x \in Int : Off(x) <= Off(x)
    BY DEF Off
  <2>2. ASSUME loc' = loc, NEW n \in Node
        PROVE  /\ Off(loc'[n].locX) <= Off(loc[n].locX)
               /\ Off(loc'[n].locY) <= Off(loc[n].locY)
    <3>1. loc[n] \in Location
      BY <1>1 DEF PlaceInv, TypeOK
    <3>2. loc[n].locX \in Int /\ loc[n].locY \in Int
      BY <3>1 DEF Location
    <3> QED
      BY <2>1, <2>2, <3>2, Zenon
  <2>3. ASSUME NEW m \in Node, nodeMovementUpdate(m), config.numGroups > 1, NEW n \in Node
        PROVE  /\ Off(loc'[n].locX) <= Off(loc[n].locX)
               /\ Off(loc'[n].locY) <= Off(loc[n].locY)
    <3>1. /\ config \in GKAConfig /\ loc \in [Node -> Location] /\ now \in Nat
          /\ dice \in Nat \X Nat \X Nat
      BY <1>1 DEF PlaceInv, TypeOK
    <3>2. config.numGroups # 0
      BY <2>3, <3>1, ConfigTypes
    <3>3. loc' = [loc EXCEPT ![m] = Moved(config, loc[m], dice, now)]
      BY <2>3 DEF nodeMovementUpdate
    <3>4. CASE n = m
      <4>1. loc'[n] = Moved(config, loc[n], dice, now)
        BY <3>1, <3>3, <3>4
      <4>2. Pulls(loc[n].locX, loc'[n].locX) /\ Pulls(loc[n].locY, loc'[n].locY)
        BY <3>1, <3>2, <4>1, MovedConverges, Zenon
      <4> QED
        BY <4>2, Zenon DEF Pulls
    <3>5. CASE n # m
      <4>1. loc'[n] = loc[n] /\ loc[n].locX \in Int /\ loc[n].locY \in Int
        BY <3>1, <3>3, <3>5 DEF Location
      <4> QED
        BY <2>1, <4>1, Zenon
    <3> QED
      BY <3>4, <3>5
  <2>4. loc' = loc \/ \E m \in Node : nodeMovementUpdate(m)
    BY <1>1 DEF Next, nodePeriodicUpdate, PassTime, Tick, vars
  <2> QED
    BY <2>2, <2>3, <2>4, Zenon
<1> QED
  BY <1>1, PlacesAlways, PTL DEF Spec, Converging

=============================================================================
