-------------------------- MODULE SchedulerProofs --------------------------
(***************************************************************************)
(* The table of slots is a queue, for every size of the table, every set   *)
(* of times and every number of events.                                    *)
(***************************************************************************)
EXTENDS Scheduler, FiniteSetTheorems, WellFoundedInduction, TLAPS

\* A set of natural numbers that is not empty has a least element.
LEMMA LeastExists ==
    ASSUME NEW S, S \subseteq Nat, S # {}
    PROVE  \E m \in S : \A k \in S : m <= k
<1>1. PICK m \in S : \A k \in S : <<k, m>> \notin OpToRel(<, Nat)
  BY NatLessThanWellFounded, WFMin, Zenon
<1>2. ASSUME NEW k \in S PROVE m <= k
  <2>1. <<k, m>> \notin OpToRel(<, Nat)
    BY <1>1
  <2> QED
    BY <2>1 DEF OpToRel
<1> QED
  BY <1>2

-----------------------------------------------------------------------------
(* The choices of the two loops.                                           *)

\* addEventAt takes a slot that is not in use, next to the ones it knows.
LEMMA FreeSlotIsFree ==
    ASSUME TypeOK
    PROVE  /\ FreeSlot \in Nat
           /\ FreeSlot \notin Used
           /\ FreeSlot <= lastEvent + 1
           /\ Free # {} => FreeSlot \in Free
           /\ Free = {} => FreeSlot = lastEvent + 1
<1>1. Free \subseteq Nat /\ \A f \in Free : f <= lastEvent /\ f \notin Used
  BY SchedulerAssumption DEF Free, Known, Slots, TypeOK
<1>2. lastEvent \in Int /\ lastEvent >= -1
  BY SchedulerAssumption DEF TypeOK, Slots
<1>3. CASE Free # {}
  <2>1. \E m \in Free : \A k \in Free : m <= k
    BY <1>1, <1>3, LeastExists
  <2>2. FreeSlot \in Free
    BY <1>3, <2>1 DEF FreeSlot
  <2> QED
    BY <1>1, <1>2, <1>3, <2>2
<1>4. CASE Free = {}
  <2>1. FreeSlot = lastEvent + 1
    BY <1>4 DEF FreeSlot
  <2>2. \A s \in Used : s <= lastEvent /\ s \in Int
    BY SchedulerAssumption DEF Used, Known, Slots
  <2> QED
    BY <1>2, <1>4, <2>1, <2>2
<1> QED
  BY <1>3, <1>4

\* getMinTimeIndex finds an event no other one has to be run before.
LEMMA MinTimeIsMin ==
    ASSUME TypeOK, EventsInUse, Used # {}
    PROVE  /\ getMinTimeIndex \in Used
           /\ \A f \in Used : eventList[getMinTimeIndex].clock <= eventList[f].clock
<1> DEFINE Clocks == {eventList[s].clock : s \in Used}
<1>1. \A s \in Used : eventList[s].clock \in Nat /\ s \in Nat
  <2>1. \A s \in Used : eventList[s].clock \in Nat
    BY SchedulerAssumption DEF EventsInUse
  <2>2. \A s \in Used : s \in Nat
    BY SchedulerAssumption DEF Used, Known, Slots
  <2> QED
    BY <2>1, <2>2
<1>2. PICK t \in Clocks : \A k \in Clocks : t <= k
  <2>1. Clocks \subseteq Nat /\ Clocks # {}
    BY <1>1
  <2> QED
    BY <2>1, LeastExists
<1> DEFINE First == {s \in Used : eventList[s].clock = t}
<1>3. PICK m \in First : \A k \in First : m <= k
  <2>1. First \subseteq Nat /\ First # {}
    BY <1>1, <1>2
  <2> QED
    BY <2>1, LeastExists
<1>4. \A f \in Used : \/ eventList[m].clock < eventList[f].clock
                      \/ eventList[m].clock = eventList[f].clock /\ m <= f
  <2> TAKE f \in Used
  <2>1. eventList[m].clock = t /\ t \in Nat /\ eventList[f].clock \in Nat
    BY <1>1, <1>3
  <2>2. t <= eventList[f].clock
    BY <1>2
  <2>3. CASE eventList[f].clock = t
    BY <1>3, <2>1, <2>3
  <2>4. CASE eventList[f].clock # t
    BY <2>1, <2>2, <2>4
  <2> QED
    BY <2>3, <2>4
<1> DEFINE Best(s) == \A f \in Used : \/ eventList[s].clock < eventList[f].clock
                                      \/ eventList[s].clock = eventList[f].clock /\ s <= f
<1>5. getMinTimeIndex = CHOOSE s \in Used : Best(s)
  BY DEF getMinTimeIndex
<1>6. \E s \in Used : Best(s)
  BY <1>3, <1>4
<1>7. getMinTimeIndex \in Used /\ Best(getMinTimeIndex)
  BY <1>5, <1>6
<1> QED
  BY <1>1, <1>7

\* The slots in use are finitely many.
LEMMA UsedIsFinite ==
    ASSUME TypeOK
    PROVE  IsFiniteSet(Used) /\ Cardinality(Used) \in Nat
<1>1. IsFiniteSet(0..MaxSchedulerEvent - 1)
  BY SchedulerAssumption, FS_Interval
<1>2. Used \subseteq 0..MaxSchedulerEvent - 1
  BY DEF Used, Known, Slots
<1> QED
  BY <1>1, <1>2, FS_Subset, FS_CardinalityType

-----------------------------------------------------------------------------
(* What the steps do to the slots in use.                                  *)

\* An added event takes a slot of the table that was not in use; the events
\* that were in use are where they were.
LEMMA AddTakesASlot ==
    ASSUME TypeOK, NEW t \in Times, addEventAt(t)
    PROVE  /\ FreeSlot \in Slots
           /\ FreeSlot \notin Used
           /\ Known' = Known \cup {FreeSlot}
           /\ Used' = Used \cup {FreeSlot}
           /\ eventList'[FreeSlot] = [clock |-> NotPast(t), callback |-> added + 1]
           /\ \A s \in Slots \ {FreeSlot} : eventList'[s] = eventList[s]
<1>1. FreeSlot \in Slots /\ FreeSlot \notin Used
  BY FreeSlotIsFree, SchedulerAssumption DEF addEventAt, Fits, Slots
<1>2. eventList'[FreeSlot] = [clock |-> NotPast(t), callback |-> added + 1]
  BY <1>1 DEF addEventAt, TypeOK
<1>3. \A s \in Slots \ {FreeSlot} : eventList'[s] = eventList[s]
  BY DEF addEventAt, TypeOK
<1>4. Known' = Known \cup {FreeSlot}
  <2>1. Slots \subseteq Int /\ lastEvent \in Int
    BY SchedulerAssumption DEF Slots, TypeOK
  <2>2. CASE Free = {}
    <3>1. FreeSlot = lastEvent + 1
      BY <2>2, FreeSlotIsFree
    <3>2. lastEvent' = lastEvent + 1
      BY <2>1, <3>1 DEF addEventAt
    <3>3. \A s \in Slots : s <= lastEvent + 1 <=> s <= lastEvent \/ s = FreeSlot
      BY <2>1, <3>1
    <3> QED
      BY <1>1, <3>2, <3>3 DEF Known
  <2>3. CASE Free # {}
    <3>1. FreeSlot \in Known
      BY <2>3, FreeSlotIsFree DEF Free
    <3>2. FreeSlot <= lastEvent
      BY <3>1 DEF Known
    <3>3. lastEvent' = lastEvent
      BY <1>1, <2>1, <3>2 DEF addEventAt
    <3> QED
      BY <3>1, <3>3 DEF Known
  <2> QED
    BY <2>2, <2>3
<1>5. Used' = Used \cup {FreeSlot}
  <2>1. added \in Nat
    BY DEF TypeOK
  <2>2. \A s \in Known \ {FreeSlot} : eventList'[s].callback = eventList[s].callback
    BY <1>3 DEF Known
  <2>3. eventList'[FreeSlot].callback # NULL
    BY <1>2, <2>1 DEF NULL
  <2>4. Used' = {s \in Known \cup {FreeSlot} : eventList'[s].callback # NULL}
    BY <1>4 DEF Used
  <2> QED
    BY <1>1, <2>2, <2>3, <2>4 DEF Used
<1> QED
  BY <1>1, <1>2, <1>3, <1>4, <1>5

\* When a handler has returned its slot alone is free again.
LEMMA ReturnFreesTheSlot ==
    ASSUME TypeOK, EventsInUse, HandlerReturns
    PROVE  /\ running \in Used
           /\ Known' = Known
           /\ Used' = Used \ {running}
           /\ \A s \in Slots \ {running} : eventList'[s] = eventList[s]
<1>1. running \in Used
  BY DEF EventsInUse, HandlerReturns
<1>2. Known' = Known /\ Used \subseteq Known /\ Known \subseteq Slots
  BY DEF HandlerReturns, Known, Used
<1>3. eventList'[running].callback = NULL
  BY <1>1, <1>2 DEF HandlerReturns, TypeOK
<1>4. \A s \in Slots \ {running} : eventList'[s] = eventList[s]
  BY DEF HandlerReturns, TypeOK
<1>5. Used' = {s \in Known : eventList'[s].callback # NULL}
  BY <1>2 DEF Used
<1>6. Used' = Used \ {running}
  BY <1>2, <1>3, <1>4, <1>5 DEF Used
<1> QED
  BY <1>1, <1>2, <1>4, <1>6

\* A step that leaves the table alone leaves the slots in use alone.
LEMMA UsedUnchanged ==
    ASSUME UNCHANGED <<eventList, lastEvent>>
    PROVE  Known' = Known /\ Used' = Used
BY DEF Known, Used

-----------------------------------------------------------------------------
(* Types.                                                                  *)

\* Every step keeps the types; the time of an event is natural because it is
\* one the client used.
LEMMA TypePreserved ==
    ASSUME TypeOK, EventsInUse, [Next]_vars
    PROVE  TypeOK'
<1> USE SchedulerAssumption DEF TypeOK, queueVars, runVars, NotRunning, NoMinTimeIndex
<1>1. ASSUME NEW t \in Times, addEventAt(t) PROVE TypeOK'
  <2>1. FreeSlot \in Slots
    BY <1>1, AddTakesASlot
  <2>2. NotPast(t) \in Int
    BY DEF NotPast
  <2>3. eventList' \in [Slots -> [clock : Int, callback : Int]]
    BY <1>1, <2>1, <2>2 DEF addEventAt
  <2>4. lastEvent' \in {-1} \cup Slots
    BY <1>1, <2>1 DEF addEventAt
  <2>5. peak' \in Nat
    BY <1>1, UsedIsFinite DEF addEventAt
  <2> QED
    BY <1>1, <2>3, <2>4, <2>5 DEF addEventAt
<1>2. ASSUME NEW t \in Times, runUntil(t) PROVE TypeOK'
  BY <1>2 DEF runUntil
<1>3. CASE EventOverflow
  BY <1>3 DEF EventOverflow
<1>4. CASE removeEvent
  BY <1>4 DEF removeEvent
<1>5. CASE HandlerReturns
  BY <1>5 DEF HandlerReturns, NULL
<1>6. CASE runUntilReturns
  BY <1>6 DEF runUntilReturns
<1>7. CASE HandleEvent
  <2>1. getMinTimeIndex \in Used
    BY <1>7, MinTimeIsMin DEF HandleEvent, getMinTimeIndex
  <2>2. /\ getMinTimeIndex \in Slots
        /\ eventList[getMinTimeIndex].clock \in Nat
        /\ eventList[getMinTimeIndex].callback \in Nat
    BY <2>1 DEF Used, Known, EventsInUse
  <2> QED
    BY <1>7, <2>2 DEF HandleEvent
<1>8. CASE UNCHANGED vars
  BY <1>8 DEF vars
<1> QED
  BY <1>1, <1>2, <1>3, <1>4, <1>5, <1>6, <1>7, <1>8 DEF Next

-----------------------------------------------------------------------------
(* The events in use.                                                      *)

\* Initially the table is empty.
LEMMA InitUsesNothing ==
    ASSUME Init
    PROVE  /\ Known = {}
           /\ Used = {}
           /\ Waiting = {}
<1>1. Known = {}
  BY SchedulerAssumption DEF Init, Known, Slots
<1> QED
  BY <1>1 DEF Used, Waiting

\* A running event is in use, so that an idle scheduler has only events that
\* wait.
LEMMA IdleMeansWaiting ==
    ASSUME running = NoMinTimeIndex
    PROVE  Waiting = Used
BY SchedulerAssumption DEF Waiting, Used, Known, Slots, NoMinTimeIndex

\* Every step keeps the events in use apart.
LEMMA EventsPreserved ==
    ASSUME TypeOK, EventsInUse, [Next]_vars
    PROVE  EventsInUse'
<1>1. ASSUME NEW t \in Times, addEventAt(t) PROVE EventsInUse'
  <2>1. /\ added \in Nat /\ added' = added + 1 /\ added' <= MaxEvents
        /\ MaxEvents \in Nat
        /\ UNCHANGED <<done, clock, running>>
    BY <1>1, SchedulerAssumption DEF addEventAt, TypeOK, runVars
  <2>2. /\ Used' = Used \cup {FreeSlot}
        /\ FreeSlot \notin Used
        /\ eventList'[FreeSlot] = [clock |-> NotPast(t), callback |-> added + 1]
        /\ \A s \in Used : eventList'[s] = eventList[s]
    BY <1>1, AddTakesASlot DEF Used, Known
  <2>3. NotPast(t) \in Times
    BY SchedulerAssumption DEF NotPast, EventsInUse
  <2>4. done' \subseteq 1..added'
    BY <2>1 DEF EventsInUse
  <2>5. running' # NoMinTimeIndex => running' \in Used'
    BY <2>1, <2>2 DEF EventsInUse
  <2>6. \A s \in Used' : eventList'[s].callback \in 1..added' /\ eventList'[s].clock \in Times
    BY <2>1, <2>2, <2>3 DEF EventsInUse
  <2>7. \A s, f \in Used' : eventList'[s].callback = eventList'[f].callback => s = f
    <3>1. \A s \in Used : eventList[s].callback # added + 1
      BY <2>1 DEF EventsInUse
    <3> QED
      BY <2>2, <3>1 DEF EventsInUse
  <2>8. \A s \in Waiting' : eventList'[s].callback \notin done'
    <3>1. added + 1 \notin done
      BY <2>1 DEF EventsInUse
    <3>2. Waiting' \subseteq Waiting \cup {FreeSlot}
      BY <2>1, <2>2 DEF Waiting
    <3>3. \A s \in Waiting : eventList'[s].callback \notin done
      BY <2>2 DEF Waiting, EventsInUse
    <3> QED
      BY <2>1, <2>2, <3>1, <3>2, <3>3
  <2> QED
    BY <2>1, <2>4, <2>5, <2>6, <2>7, <2>8 DEF EventsInUse
<1>2. CASE HandleEvent
  <2> DEFINE index == getMinTimeIndex
  <2>1. index \in Used
    BY <1>2, MinTimeIsMin DEF HandleEvent, getMinTimeIndex
  <2>2. /\ clock' = eventList[index].clock
        /\ running' = index
        /\ done' = done \cup {eventList[index].callback}
        /\ UNCHANGED <<eventList, lastEvent, added>>
    BY <1>2 DEF HandleEvent, queueVars
  <2>3. Used' = Used /\ Waiting' = Used \ {index} /\ Waiting = Used
    BY <1>2, <2>2, UsedUnchanged, IdleMeansWaiting DEF HandleEvent, Idle, Waiting
  <2>4. \A s \in Waiting' : eventList'[s].callback \notin done'
    BY <2>1, <2>2, <2>3 DEF EventsInUse
  <2>5. clock' \in Times \cup {0} /\ done' \subseteq 1..added'
    BY <2>1, <2>2 DEF EventsInUse
  <2> QED
    BY <2>1, <2>2, <2>3, <2>4, <2>5 DEF EventsInUse
<1>3. CASE HandlerReturns
  <2>1. /\ Used' = Used \ {running}
        /\ \A s \in Used' : eventList'[s] = eventList[s]
    BY <1>3, ReturnFreesTheSlot DEF Used, Known
  <2>2. running' = NoMinTimeIndex /\ UNCHANGED <<done, clock, added>>
    BY <1>3 DEF HandlerReturns
  <2>3. Waiting' \subseteq Waiting /\ Waiting' \subseteq Used'
    BY <2>1 DEF Waiting
  <2> QED
    BY <2>1, <2>2, <2>3 DEF EventsInUse
<1>4. CASE UNCHANGED <<eventList, lastEvent, added, running, done, clock>>
  <2>1. Used' = Used /\ Waiting' = Waiting
    BY <1>4, UsedUnchanged DEF Waiting
  <2> QED
    BY <1>4, <2>1 DEF EventsInUse
<1> QED
  BY <1>1, <1>2, <1>3, <1>4
     DEF Next, runUntil, EventOverflow, removeEvent, runUntilReturns, vars,
         queueVars, runVars

\* Every variable has its type, and the table holds every event once.
THEOREM TypeCorrect == Spec => [](TypeOK /\ EventsInUse)
<1>1. Init => TypeOK /\ EventsInUse
  <2> SUFFICES ASSUME Init PROVE TypeOK /\ EventsInUse
    OBVIOUS
  <2>1. TypeOK
    <3>1. eventList \in [Slots -> [clock : Int, callback : Int]]
      BY DEF Init, Garbage
    <3>2. /\ lastEvent \in {-1} \cup Slots
          /\ horizon \in Nat \cup {NotRunning}
          /\ running \in Slots \cup {NoMinTimeIndex}
          /\ failed \in BOOLEAN
      BY DEF Init
    <3>3. clock \in Nat /\ added \in Nat /\ done \subseteq Nat /\ peak \in Nat
      BY DEF Init
    <3> QED
      BY <3>1, <3>2, <3>3 DEF TypeOK
  <2>2. EventsInUse
    <3>1. Used = {} /\ Waiting = {}
      BY InitUsesNothing
    <3>2. /\ added <= MaxEvents
          /\ done \subseteq 1..added
          /\ clock \in Times \cup {0}
          /\ ~(running # NoMinTimeIndex)
      BY SchedulerAssumption DEF Init
    <3> QED
      BY <3>1, <3>2 DEF EventsInUse
  <2> QED
    BY <2>1, <2>2
<1>2. TypeOK /\ EventsInUse /\ [Next]_vars => (TypeOK /\ EventsInUse)'
  BY TypePreserved, EventsPreserved
<1> QED
  BY <1>1, <1>2, PTL DEF Spec

-----------------------------------------------------------------------------
(* No event that waits is in the past.                                     *)

\* Every step keeps the events that wait out of the past: an added event is
\* moved to the present, and the event that is run is the first one.
LEMMA NoTimeTravelPreserved ==
    ASSUME TypeOK, EventsInUse, NoTimeTravel, [Next]_vars
    PROVE  NoTimeTravel'
<1>1. ASSUME NEW t \in Times, addEventAt(t) PROVE NoTimeTravel'
  <2>1. /\ Used' = Used \cup {FreeSlot}
        /\ eventList'[FreeSlot] = [clock |-> NotPast(t), callback |-> added + 1]
        /\ \A s \in Used \ {FreeSlot} : eventList'[s] = eventList[s]
    BY <1>1, AddTakesASlot DEF Used, Known
  <2>2. UNCHANGED <<clock, running>>
    BY <1>1 DEF addEventAt, runVars
  <2>3. Waiting' \subseteq Waiting \cup {FreeSlot}
    BY <2>1, <2>2 DEF Waiting
  <2>4. clock <= NotPast(t)
    BY SchedulerAssumption DEF NotPast, TypeOK
  <2>5. \A s \in Waiting \ {FreeSlot} : clock' <= eventList'[s].clock
    BY <2>1, <2>2 DEF NoTimeTravel, Waiting
  <2> QED
    BY <2>1, <2>2, <2>3, <2>4, <2>5 DEF NoTimeTravel
<1>2. CASE HandleEvent
  <2>1. \A f \in Used : eventList[getMinTimeIndex].clock <= eventList[f].clock
    BY <1>2, MinTimeIsMin DEF HandleEvent, getMinTimeIndex
  <2>2. Used' = Used /\ eventList' = eventList /\ clock' = eventList[getMinTimeIndex].clock
    BY <1>2, UsedUnchanged DEF HandleEvent, queueVars
  <2> QED
    BY <2>1, <2>2 DEF NoTimeTravel, Waiting
<1>3. CASE HandlerReturns
  <2>1. /\ Used' = Used \ {running}
        /\ \A s \in Used' : eventList'[s] = eventList[s]
        /\ clock' = clock
    BY <1>3, ReturnFreesTheSlot DEF HandlerReturns, Used, Known
  <2> QED
    BY <2>1 DEF NoTimeTravel, Waiting
<1>4. CASE UNCHANGED <<eventList, lastEvent, running, clock>>
  BY <1>4, UsedUnchanged DEF NoTimeTravel, Waiting
<1> QED
  BY <1>1, <1>2, <1>3, <1>4
     DEF Next, runUntil, EventOverflow, removeEvent, runUntilReturns, vars,
         queueVars, runVars

\* The assertion of runUntil never fails, whatever times the handlers ask for.
THEOREM NoTimeTravelHolds == Spec => []NoTimeTravel
<1>1. Init => NoTimeTravel
  BY InitUsesNothing DEF NoTimeTravel
<1>2. TypeOK /\ EventsInUse /\ NoTimeTravel /\ [Next]_vars => NoTimeTravel'
  BY NoTimeTravelPreserved
<1> QED
  BY <1>1, <1>2, TypeCorrect, PTL DEF Spec

-----------------------------------------------------------------------------
(* The table does not grow without need.                                   *)

\* The slots the loops look at are as many as the last one says.
LEMMA KnownCardinality ==
    ASSUME TypeOK
    PROVE  IsFiniteSet(Known) /\ Cardinality(Known) = lastEvent + 1
<1>1. Known = 0..lastEvent
  BY SchedulerAssumption DEF TypeOK, Known, Slots
<1>2. lastEvent \in Int /\ lastEvent >= -1
  BY SchedulerAssumption DEF TypeOK, Slots
<1> QED
  BY <1>1, <1>2, FS_Interval

\* Every step keeps the table as long as it must be.
LEMMA HighWaterPreserved ==
    ASSUME TypeOK, EventsInUse, HighWater, [Next]_vars
    PROVE  HighWater'
<1>1. ASSUME NEW t \in Times, addEventAt(t) PROVE HighWater'
  <2>1. /\ FreeSlot \in Slots
        /\ Known' = Known \cup {FreeSlot}
        /\ eventList'[FreeSlot] = [clock |-> NotPast(t), callback |-> added + 1]
        /\ \A s \in Slots \ {FreeSlot} : eventList'[s] = eventList[s]
    BY <1>1, AddTakesASlot
  <2>2. \A s \in Known' : eventList'[s] # Garbage
    <3>1. eventList'[FreeSlot].callback # -1
      BY <2>1 DEF TypeOK
    <3>2. \A s \in Known \ {FreeSlot} : eventList'[s] # Garbage
      BY <2>1 DEF HighWater, Known
    <3> QED
      BY <2>1, <3>1, <3>2 DEF Garbage
  <2>3. /\ IsFiniteSet(Known) /\ Cardinality(Known) = lastEvent + 1
        /\ lastEvent \in Int
        /\ Cardinality(Used) \in Nat
    BY KnownCardinality, UsedIsFinite, SchedulerAssumption DEF TypeOK, Slots
  <2>4. lastEvent' + 1 = peak'
    <3>1. CASE Free = {}
      <4>1. Used = Known
        BY <3>1 DEF Free, Used
      <4>2. FreeSlot = lastEvent + 1
        BY <3>1, FreeSlotIsFree
      <4>3. peak = lastEvent + 1
        BY DEF HighWater
      <4>4. lastEvent' = lastEvent + 1
        BY <1>1, <2>3, <4>2 DEF addEventAt
      <4>5. peak' = lastEvent + 2
        BY <1>1, <2>3, <4>1, <4>3 DEF addEventAt
      <4> QED
        BY <2>3, <4>4, <4>5
    <3>2. CASE Free # {}
      <4>1. Used \subseteq Known /\ Used # Known
        BY <3>2 DEF Free, Used
      <4>2. Cardinality(Used) < lastEvent + 1
        BY <2>3, <4>1, FS_Subset
      <4>3. FreeSlot <= lastEvent /\ FreeSlot \in Int
        BY <3>2, FreeSlotIsFree DEF Free, Known
      <4>4. lastEvent' = lastEvent
        BY <1>1, <2>3, <4>3 DEF addEventAt
      <4>5. peak' = peak
        BY <1>1, <4>2 DEF addEventAt, HighWater
      <4> QED
        BY <4>4, <4>5 DEF HighWater
    <3> QED
      BY <3>1, <3>2
  <2> QED
    BY <2>2, <2>4 DEF HighWater
<1>2. CASE HandlerReturns
  <2>1. /\ Known' = Known
        /\ running \in Known
        /\ \A s \in Slots \ {running} : eventList'[s] = eventList[s]
    BY <1>2, ReturnFreesTheSlot DEF Used
  <2>2. eventList'[running].callback = NULL
    BY <1>2, <2>1 DEF HandlerReturns, TypeOK, Known
  <2>3. \A s \in Known' : eventList'[s] # Garbage
    BY <2>1, <2>2 DEF HighWater, Known, Garbage, NULL
  <2> QED
    BY <1>2, <2>3 DEF HighWater, HandlerReturns
<1>3. CASE UNCHANGED <<eventList, lastEvent, peak>>
  BY <1>3, UsedUnchanged DEF HighWater
<1> QED
  BY <1>1, <1>2, <1>3
     DEF Next, runUntil, EventOverflow, removeEvent, HandleEvent,
         runUntilReturns, vars, queueVars

\* The loops look at as many slots as events were ever in use at once, and at
\* none that the constructor left uninitialised.
THEOREM HighWaterHolds == Spec => []HighWater
<1>1. Init => HighWater
  <2> SUFFICES ASSUME Init PROVE HighWater
    OBVIOUS
  <2>1. lastEvent = -1 /\ peak = 0
    BY DEF Init
  <2> QED
    BY <2>1, InitUsesNothing DEF HighWater
<1>2. TypeOK /\ EventsInUse /\ HighWater /\ [Next]_vars => HighWater'
  BY HighWaterPreserved
<1> QED
  BY <1>1, <1>2, TypeCorrect, PTL DEF Spec

-----------------------------------------------------------------------------
(* The table implements the queue.                                         *)

\* The event a slot holds, as the queue sees it.
EventAt(s) == [id |-> eventList[s].callback, time |-> eventList[s].clock]

pendingEvents ==
    {[id |-> eventList[s].callback, time |-> eventList[s].clock] : s \in Waiting}

\* Adding an event adds it to the queue.
LEMMA AddImplementsAdd ==
    ASSUME TypeOK, EventsInUse, NEW t \in Times, addEventAt(t)
    PROVE  Queue!Add
<1> DEFINE new == [id |-> added + 1, time |-> NotPast(t)]
<1>1. /\ Used' = Used \cup {FreeSlot}
      /\ FreeSlot \notin Used
      /\ eventList'[FreeSlot] = [clock |-> NotPast(t), callback |-> added + 1]
      /\ \A s \in Used : eventList'[s] = eventList[s]
  BY AddTakesASlot DEF Used, Known
<1>2. UNCHANGED <<clock, running, done>> /\ added < MaxEvents /\ added \in Nat
  BY DEF addEventAt, runVars, TypeOK
<1>3. running # FreeSlot
  <2>1. running # NoMinTimeIndex => running \in Used
    BY DEF EventsInUse
  <2>2. FreeSlot \in Nat
    BY FreeSlotIsFree
  <2> QED
    BY <1>1, <2>1, <2>2 DEF NoMinTimeIndex
<1>4. Waiting' = Waiting \cup {FreeSlot}
  BY <1>1, <1>2, <1>3 DEF Waiting
<1>5. pendingEvents' = pendingEvents \cup {new}
  <2>1. \A s \in Waiting : eventList'[s] = eventList[s]
    BY <1>1 DEF Waiting
  <2> QED
    BY <1>1, <1>4, <2>1 DEF pendingEvents
<1>6. new \in [id : 1..MaxEvents, time : Times]
  <2>1. added + 1 \in 1..MaxEvents
    BY <1>2, SchedulerAssumption
  <2>2. NotPast(t) \in Times
    BY SchedulerAssumption DEF NotPast, EventsInUse
  <2> QED
    BY <2>1, <2>2
<1>7. new.time >= clock
  BY SchedulerAssumption DEF NotPast, TypeOK
<1>8. new.id \notin done /\ \A e \in pendingEvents : e.id # new.id
  <2>1. added + 1 \notin done
    BY <1>2 DEF EventsInUse
  <2>2. \A s \in Waiting : eventList[s].callback # added + 1
    BY <1>2 DEF EventsInUse, Waiting
  <2> QED
    BY <2>1, <2>2 DEF pendingEvents
<1> QED
  BY <1>2, <1>5, <1>6, <1>7, <1>8 DEF Queue!Add, pendingEvents

\* Running an event takes it from the queue, and no other has to come first.
LEMMA HandleImplementsRun ==
    ASSUME TypeOK, EventsInUse, HandleEvent
    PROVE  Queue!Run
<1> DEFINE index == getMinTimeIndex
           e == EventAt(index)
<1>1. index \in Used /\ \A f \in Used : eventList[index].clock <= eventList[f].clock
  BY MinTimeIsMin DEF HandleEvent, getMinTimeIndex
<1>2. /\ clock' = eventList[index].clock
      /\ running' = index
      /\ done' = done \cup {eventList[index].callback}
      /\ eventList' = eventList
  BY DEF HandleEvent, queueVars
<1>3. Waiting = Used /\ Waiting' = Used \ {index}
  BY <1>2, UsedUnchanged, IdleMeansWaiting DEF HandleEvent, Idle, Waiting, queueVars
<1>4. e \in pendingEvents
  BY <1>1, <1>3 DEF pendingEvents, EventAt
<1>5. \A f \in pendingEvents : e.time <= f.time
  BY <1>1, <1>3 DEF pendingEvents, EventAt
<1>6. pendingEvents' = pendingEvents \ {e}
  <2>1. \A s \in Used \ {index} : eventList[s].callback # eventList[index].callback
    BY <1>1 DEF EventsInUse
  <2>2. pendingEvents' = {EventAt(s) : s \in Used \ {index}}
    BY <1>2, <1>3 DEF pendingEvents, EventAt
  <2>3. pendingEvents = {EventAt(s) : s \in Used}
    BY <1>3 DEF pendingEvents, EventAt
  <2>4. \A s \in Used \ {index} : EventAt(s) # e
    BY <2>1 DEF EventAt
  <2> QED
    BY <1>1, <2>2, <2>3, <2>4
<1> QED
  BY <1>2, <1>4, <1>5, <1>6 DEF Queue!Run, pendingEvents, EventAt

\* SimulationScheduler implements the queue: no event is lost, overwritten,
\* run twice, or run before an earlier one.
THEOREM ImplementsEventQueue == Spec => IsEventQueue
<1>1. Init => Queue!Init
  BY InitUsesNothing DEF Init, Queue!Init
<1>2. TypeOK /\ EventsInUse /\ [Next]_vars => [Queue!Next]_Queue!vars
  <2> SUFFICES ASSUME TypeOK, EventsInUse, [Next]_vars
               PROVE  [Queue!Next]_Queue!vars
    OBVIOUS
  <2>1. ASSUME NEW t \in Times, addEventAt(t) PROVE Queue!Next
    BY <2>1, AddImplementsAdd DEF Queue!Next
  <2>2. CASE HandleEvent
    BY <2>2, HandleImplementsRun DEF Queue!Next
  <2>3. CASE HandlerReturns
    <3>1. /\ Used' = Used \ {running}
          /\ \A s \in Used' : eventList'[s] = eventList[s]
      BY <2>3, ReturnFreesTheSlot DEF Used, Known
    <3>2. running' = NoMinTimeIndex /\ NoMinTimeIndex \notin Used
      BY <2>3, SchedulerAssumption DEF HandlerReturns, Used, Known, Slots, NoMinTimeIndex
    <3>3. Waiting' = Waiting
      BY <3>1, <3>2 DEF Waiting
    <3>4. pendingEvents' = pendingEvents
      BY <3>1, <3>3 DEF pendingEvents, Waiting
    <3> QED
      BY <2>3, <3>4 DEF HandlerReturns, Queue!vars, pendingEvents
  <2>4. CASE UNCHANGED <<eventList, lastEvent, running, clock, done>>
    <3>1. Waiting' = Waiting
      BY <2>4, UsedUnchanged DEF Waiting
    <3> QED
      BY <2>4, <3>1 DEF Queue!vars
  <2> QED
    BY <2>1, <2>2, <2>3, <2>4
       DEF Next, runUntil, EventOverflow, removeEvent, runUntilReturns, vars,
           queueVars, runVars
<1> QED
  BY <1>1, <1>2, TypeCorrect, PTL DEF Spec, IsEventQueue, Queue!Spec

=============================================================================
