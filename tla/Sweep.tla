------------------------------- MODULE Sweep -------------------------------
(***************************************************************************)
(* What the loops that forget old elements leave of a list: updateState    *)
(* (Algorithm 10), processIGROUP (Algorithm 9), ReTxIGROUPMessage and      *)
(* ReTxIREPLYMessage have the same one.                                    *)
(***************************************************************************)
EXTENDS Integers, Sequences, FiniteSets

\* Slip: the loop starts with the second element.
ErasedAt_FromSecond(old) ==
    {j \in old : \E i \in 2..j : /\ i..j \subseteq old
                                 /\ i = 2 \/ i-1 \notin old
                                 /\ (j-i) % 2 = 0}

\* "Erase the element if it is too old, then i++" skips the element after an
\* erased one: of a run of adjacent old elements the first, the third, ... go.
ErasedAt(old) ==
    {j \in old : \E i \in 1..j : /\ i..j \subseteq old
                                 /\ i-1 \notin old
                                 /\ (j-i) % 2 = 0}

\* The positions kept, in order.  Increasing says of Ordered(kept) what the
\* proofs use.
Ordered(kept) ==
    [k \in 1..Cardinality(kept) |->
        CHOOSE j \in kept : Cardinality({i \in kept : i < j}) = k-1]

Increasing(f, kept) ==
    /\ f \in [1..Cardinality(kept) -> kept]
    /\ \A i, j \in 1..Cardinality(kept) : i < j => f[i] < f[j]

\* The list without its erased elements, as a set of one element (EraseLoop
\* checks that there is one, the list the loop leaves).
Swept(list, old) ==
    LET kept == (1..Len(list)) \ ErasedAt(old)
    IN  {[k \in 1..Cardinality(kept) |-> list[f[k]]] :
            f \in {g \in {Ordered(kept)} : Increasing(g, kept)}}

=============================================================================
