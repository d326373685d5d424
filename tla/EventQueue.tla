----------------------------- MODULE EventQueue -----------------------------
(***************************************************************************)
(* What IScheduler promises (api-scheduler.h): events are run in the order *)
(* of their times, each once, and the clock is the time of the last one.   *)
(***************************************************************************)
EXTENDS Integers

CONSTANTS
    Ids,     \* the events
    Times    \* the times they may be added for, natural numbers

VARIABLES
    clock,
    pending, \* the events that wait, each with its time
    done     \* the events that were run

vars == <<clock, pending, done>>

Init ==
    /\ clock = 0
    /\ pending = {}
    /\ done = {}

\* An event is added, not before the current time.
Add ==
    /\ \E new \in [id : Ids, time : Times] :
         /\ new.time >= clock
         /\ new.id \notin done /\ \A e \in pending : e.id # new.id
         /\ pending' = pending \cup {new}
    /\ UNCHANGED <<clock, done>>

\* An event nothing has to be run before is run.
Run ==
    /\ \E e \in pending :
         /\ \A f \in pending : e.time <= f.time
         /\ clock' = e.time
         /\ pending' = pending \ {e}
         /\ done' = done \cup {e.id}

Next == Add \/ Run

Spec == Init /\ [][Next]_vars

=============================================================================
