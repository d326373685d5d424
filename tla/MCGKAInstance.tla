--------------------------- MODULE MCGKAInstance ---------------------------
(* GKAInstance on small instances: how many numbers rand() may give out.    *)
(* The disjuncts are those of GKAInstance!Next, so that TLC counts each.    *)
EXTENDS GKAInstance

CONSTANT MaxRng          \* bound on the position in rand()

Bounded == rng' <= MaxRng

MCUpdate(n) ==
    \/ DrawBackoff(n) /\ Bounded
    \/ DetachFromLeader(n)
    \/ IdleUpdate(n)
    \/ BecomeLeader(n) /\ Bounded
    \/ LeaderUpdate(n) /\ Bounded

MCReceive(n) ==
    \/ AcceptFromLeader(n) /\ Bounded
    \/ RejectFromLeader(n)
    \/ JoinLeader(n) /\ Bounded
    \/ BecomeMember(n)
    \/ IgnoreIGROUP(n)

MCNext ==
    \/ \E n \in Node :
         \/ MCUpdate(n)
         \/ MCReceive(n)
         \/ processIREPLY(n)
         \/ nodeMovementUpdate(n)
    \/ EndIREPLY
    \/ EndIGROUP
    \/ PassTime

MCSpec == Init /\ [][MCNext]_vars

=============================================================================
