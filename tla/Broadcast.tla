----------------------------- MODULE Broadcast -----------------------------
(***************************************************************************)
(* What GKAInstance relies on when a leader broadcasts: one message at a   *)
(* time, handed to active nodes other than its sender, to each a bounded   *)
(* number of times, until the broadcast is over.                           *)
(***************************************************************************)
EXTENDS Naturals

CONSTANTS Node, MaxCopies, None

VARIABLES sender, active, handed

vars == <<sender, active, handed>>

Init ==
    /\ sender = None
    /\ active = {}
    /\ handed = [n \in Node |-> 0]

Activate ==
    /\ sender = None
    /\ \E n \in Node \ active : active' = active \cup {n}
    /\ UNCHANGED <<sender, handed>>

Send(n) ==
    /\ sender = None
    /\ n \in active
    /\ sender' = n
    /\ handed' = [m \in Node |-> 0]
    /\ UNCHANGED active

Deliver(n) ==
    /\ sender # None
    /\ n \in active \ {sender}
    /\ handed[n] < MaxCopies
    /\ handed' = [handed EXCEPT ![n] = @ + 1]
    /\ UNCHANGED <<sender, active>>

End ==
    /\ sender # None
    /\ sender' = None
    /\ handed' = [n \in Node |-> 0]
    /\ UNCHANGED active

Next ==
    \/ Activate
    \/ \E n \in Node : Send(n) \/ Deliver(n)
    \/ End

Spec == Init /\ [][Next]_vars /\ WF_vars(End)

=============================================================================
