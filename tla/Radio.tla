------------------------------- MODULE Radio -------------------------------
(***************************************************************************)
(* Who is in range of whom, and what a node remembers of the messages it   *)
(* has relayed: what evIGROUP, evIREPLY, ReTxIGROUPMessage and             *)
(* ReTxIREPLYMessage (gka-simul-base.cc) have in common.                   *)
(***************************************************************************)
EXTENDS Integers, Sequences, FiniteSets, Sweep

CONSTANT NODE_COVERAGE_AREA    \* half the side of the square a node covers

\* The square around s, cut at 0 on the low side.
InRange(loc, s, m) ==
    LET Low(c) == IF c >= NODE_COVERAGE_AREA THEN c - NODE_COVERAGE_AREA ELSE 0
    IN  /\ m # s
        /\ loc[m].locX \in Low(loc[s].locX)..loc[s].locX + NODE_COVERAGE_AREA
        /\ loc[m].locY \in Low(loc[s].locY)..loc[s].locY + NODE_COVERAGE_AREA

\* The nodes among `nodes' that s reaches, in the order of the loops: a set of
\* one sequence.
Receivers(loc, s, nodes) ==
    LET reached == {m \in nodes : InRange(loc, s, m)}
    IN  {f \in {Ordered(reached)} : Increasing(f, reached)}

\* One entry of RxIGnodes, RxIGNumber and RxIGTime (RxIRnodes, ...).
Record(from, number, time) == [from |-> from, number |-> number, time |-> time]

\* The records of a relay after those older than `age' have been swept, as a
\* set of one sequence.
Remembered(records, now, age) ==
    Swept(records, {k \in DOMAIN records : now - records[k].time > age})

\* Slip: a relay compares the first record it has.
Repeated_First(before, after, from, number, flag) ==
    IF before = <<>> THEN FALSE
    ELSE IF after = <<>> THEN flag
    ELSE after[1].from = from /\ after[1].number = number

\* Slip: a relay without records does not clear the flag.
Repeated_Kept(before, after, from, number, flag) ==
    IF after = <<>> THEN flag
    ELSE after[Len(after)].from = from /\ after[Len(after)].number = number

\* The flag isReTx of a relay.  Every record overwrites the one before, so the
\* last one decides.  A relay without records clears the flag, but one whose
\* records have just been swept leaves the flag of the relay before it.
Repeated(before, after, from, number, flag) ==
    IF before = <<>> THEN FALSE
    ELSE IF after = <<>> THEN flag
    ELSE after[Len(after)].from = from /\ after[Len(after)].number = number

=============================================================================
