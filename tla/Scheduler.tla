----------------------------- MODULE Scheduler -----------------------------
(***************************************************************************)
(* SimulationScheduler (scheduler-core.cc): a table of slots, the slot of  *)
(* an event being free when its callback is NULL.  The client is main,     *)
(* which adds events and calls runUntil, and the events themselves, whose  *)
(* handlers add events while they run.                                     *)
(***************************************************************************)
EXTENDS Integers, FiniteSets

CONSTANTS
    MaxSchedulerEvent,   \* size of the table
    Times,               \* times the client uses
    MaxEvents            \* bound: events added

ASSUME SchedulerAssumption ==
    /\ MaxSchedulerEvent \in Nat
    /\ Times \subseteq Nat
    /\ MaxEvents \in Nat

VARIABLES
    eventList,           \* the table
    lastEvent,           \* greatest slot ever used
    clock,
    horizon,             \* argument of the runUntil that is running
    running,             \* slot of the event whose handler is running
    failed,              \* Fatal has ended the program
    added,               \* history: how many events were added
    done,                \* history: the events that were run
    peak                 \* history: greatest number of slots in use at once

queueVars == <<eventList, lastEvent, added, peak>>
runVars == <<horizon, running, done>>
vars == <<queueVars, runVars, clock, failed>>

Slots == 0..MaxSchedulerEvent - 1
NoMinTimeIndex == -1
NULL == 0                \* an event is named by a positive number
NotRunning == -1

\* What the table holds before anything is written to it: the constructor
\* initialises only the clock and lastEvent.
Garbage == [clock |-> -1, callback |-> -1]

Init ==
    /\ eventList = [s \in Slots |-> Garbage]
    /\ lastEvent = -1
    /\ clock = 0
    /\ horizon = NotRunning
    /\ running = NoMinTimeIndex
    /\ failed = FALSE
    /\ added = 0
    /\ done = {}
    /\ peak = 0

\* The slots the loops look at.
Known == {s \in Slots : s <= lastEvent}
Used == {s \in Known : eventList[s].callback # NULL}

\* Slip: a slot is never used again.
Free_Never == {}

Free == Known \ Used

-----------------------------------------------------------------------------

\* The client runs when the scheduler does not, or when it runs an event.
ClientRuns == ~failed /\ (horizon = NotRunning \/ running # NoMinTimeIndex)

\* The first free slot, or the one after the last.
FreeSlot ==
    IF Free # {} THEN CHOOSE s \in Free : \A f \in Free : s <= f
                 ELSE lastEvent + 1

\* Slip: the table is taken to have one slot more.
Fits_OneMore(slot) == slot <= MaxSchedulerEvent

Fits(slot) == slot < MaxSchedulerEvent

\* Slip: an event of the past is left there.
NotPast_Left(absoluteTime) == absoluteTime

\* An event of the past is moved to the present.
NotPast(absoluteTime) == IF absoluteTime < clock THEN clock ELSE absoluteTime

addEventAt(absoluteTime) ==
    /\ ClientRuns
    /\ added < MaxEvents
    /\ Fits(FreeSlot)
    /\ eventList' = [eventList EXCEPT ![FreeSlot] =
                       [clock |-> NotPast(absoluteTime), callback |-> added + 1]]
    /\ lastEvent' = IF FreeSlot > lastEvent THEN FreeSlot ELSE lastEvent
    /\ added' = added + 1
    /\ peak' = IF Cardinality(Used) < peak THEN peak ELSE Cardinality(Used) + 1
    /\ UNCHANGED <<runVars, clock, failed>>

\* The table is full: Fatal ends the program.
EventOverflow ==
    /\ ClientRuns
    /\ ~Fits(FreeSlot)
    /\ failed' = TRUE
    /\ UNCHANGED <<queueVars, runVars, clock>>

\* removeEvent is not implemented, and ends the program.
removeEvent ==
    /\ ClientRuns
    /\ Used # {}
    /\ failed' = TRUE
    /\ UNCHANGED <<queueVars, runVars, clock>>

\* Slip: the event of the first slot in use is run.
getMinTimeIndex_First ==
    IF Used = {} THEN NoMinTimeIndex
    ELSE CHOOSE s \in Used : \A f \in Used : s <= f

\* Events of the same time are run in the order of their slots.
getMinTimeIndex ==
    IF Used = {} THEN NoMinTimeIndex
    ELSE CHOOSE s \in Used :
           \A f \in Used : \/ eventList[s].clock < eventList[f].clock
                           \/ eventList[s].clock = eventList[f].clock /\ s <= f

runUntil(absoluteTime) ==
    /\ ~failed
    /\ horizon = NotRunning
    /\ horizon' = absoluteTime
    /\ UNCHANGED <<queueVars, running, done, clock, failed>>

Idle == ~failed /\ horizon # NotRunning /\ running = NoMinTimeIndex

\* The assertion of runUntil has not failed when it comes here.
HandleEvent ==
    LET index == getMinTimeIndex
    IN  /\ Idle
        /\ index # NoMinTimeIndex
        /\ eventList[index].clock <= horizon
        /\ clock' = eventList[index].clock
        /\ running' = index
        /\ done' = done \cup {eventList[index].callback}
        /\ UNCHANGED <<queueVars, horizon, failed>>

\* Slip: the slot is not cleared.
HandlerReturns_Kept ==
    /\ ~failed
    /\ running # NoMinTimeIndex
    /\ running' = NoMinTimeIndex
    /\ UNCHANGED <<queueVars, horizon, done, clock, failed>>

\* The slot of an event is in use until its handler has returned.
HandlerReturns ==
    /\ ~failed
    /\ running # NoMinTimeIndex
    /\ eventList' = [eventList EXCEPT ![running].callback = NULL]
    /\ running' = NoMinTimeIndex
    /\ UNCHANGED <<lastEvent, added, peak, horizon, done, clock, failed>>

runUntilReturns ==
    LET index == getMinTimeIndex
    IN  /\ Idle
        /\ index # NoMinTimeIndex => eventList[index].clock > horizon
        /\ horizon' = NotRunning
        /\ UNCHANGED <<queueVars, running, done, clock, failed>>

Next ==
    \/ \E t \in Times : addEventAt(t) \/ runUntil(t)
    \/ EventOverflow
    \/ removeEvent
    \/ HandleEvent
    \/ HandlerReturns
    \/ runUntilReturns

\* The scheduler's loop goes on, and handlers return.
Spec == Init /\ [][Next]_vars /\ WF_vars(HandleEvent \/ HandlerReturns \/ runUntilReturns)

-----------------------------------------------------------------------------
(* Properties.                                                             *)

\* Every variable has the type of the program's variable.
TypeOK ==
    /\ eventList \in [Slots -> [clock : Int, callback : Int]]
    /\ lastEvent \in {-1} \cup Slots
    /\ clock \in Nat
    /\ horizon \in Nat \cup {NotRunning}
    /\ running \in Slots \cup {NoMinTimeIndex}
    /\ failed \in BOOLEAN
    /\ added \in Nat
    /\ done \subseteq Nat
    /\ peak \in Nat

Waiting == Used \ {running}

\* The assertion of runUntil: no event that waits is in the past, whatever
\* times handlers ask for.
NoTimeTravel == \A s \in Waiting : clock <= eventList[s].clock

\* The table grows only when it must: the loops never look at more slots than
\* events were waiting or running at once, and every slot they look at has
\* been written.
HighWater ==
    /\ lastEvent + 1 = peak
    /\ \A s \in Known : eventList[s] # Garbage

\* What the proofs add: the events in use are different events, which were
\* added and, but for the one that runs, not run yet; the clock is a time the
\* client used.
EventsInUse ==
    /\ added <= MaxEvents
    /\ done \subseteq 1..added
    /\ clock \in Times \cup {0}
    /\ running # NoMinTimeIndex => running \in Used
    /\ \A s \in Used : /\ eventList[s].callback \in 1..added
                       /\ eventList[s].clock \in Times
    /\ \A s, f \in Used : eventList[s].callback = eventList[f].callback => s = f
    /\ \A s \in Waiting : eventList[s].callback \notin done

\* The slots implement the queue: no event is lost, overwritten, run twice or
\* run before an earlier one.
Queue == INSTANCE EventQueue WITH
           Ids <- 1..MaxEvents,
           pending <- {[id |-> eventList[s].callback, time |-> eventList[s].clock] :
                         s \in Waiting}
IsEventQueue == Queue!Spec

\* A runUntil comes to its end when the handlers add finitely many events.
RunReturns == horizon # NotRunning ~> (horizon = NotRunning \/ failed)

=============================================================================
