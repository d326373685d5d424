----------------------------- MODULE EraseLoop -----------------------------
(***************************************************************************)
(* The erasing loop itself, one iteration per step, on a list whose        *)
(* elements are their original positions: what it leaves is what Sweep     *)
(* says it leaves.                                                         *)
(***************************************************************************)
EXTENDS Sweep

CONSTANT MaxLength    \* bound on the length of the list

ASSUME LengthAssumption == MaxLength \in Nat

VARIABLES
    length, old,      \* the list before the loop, and which of it is too old
    list, i           \* the list so far; i counts from 0

vars == <<length, old, list, i>>

Init ==
    /\ length \in 0..MaxLength
    /\ old \in SUBSET (1..length)
    /\ list = [k \in 1..length |-> k]
    /\ i = 0

Without(l, k) == SubSeq(l, 1, k-1) \o SubSeq(l, k+1, Len(l))

\* The loop with another step after an erased element.
Iterate_Skips(step) ==
    /\ i < Len(list)
    /\ list' = IF list[i+1] \in old THEN Without(list, i+1) ELSE list
    /\ i' = IF list[i+1] \in old THEN i + step ELSE i + 1
    /\ UNCHANGED <<length, old>>

\* Slip: i is incremented where the element is erased and by the loop as well.
Iterate_SkipsTwo == Iterate_Skips(2)

\* The loop as it should be: i stays where it is when an element is erased.
Iterate_SkipsNone == Iterate_Skips(0)

\* The loop body; i is incremented whether or not an element was erased.
Iterate ==
    /\ i < Len(list)
    /\ list' = IF list[i+1] \in old THEN Without(list, i+1) ELSE list
    /\ i' = i + 1
    /\ UNCHANGED <<length, old>>

Next == Iterate

Spec == Init /\ [][Next]_vars /\ WF_vars(Next)

Done == i >= Len(list)

\* The loop leaves exactly what Sweep computes.
LeavesSwept == Done => Swept([k \in 1..length |-> k], old) = {list}

\* However many elements are too old, the loop erases the first of them and at
\* least half of them: a sweep at every update forgets them all in the end.
ErasesHalf ==
    Done => LET left == {k \in 1..Len(list) : list[k] \in old}
            IN  2 * Cardinality(left) <= Cardinality(old)

=============================================================================
