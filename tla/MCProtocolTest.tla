--------------------------- MODULE MCProtocolTest --------------------------
(* ProtocolTest on three nodes: in range of each other, in a chain, and in two *)
(* groups that merge.                                                      *)
EXTENDS ProtocolTest, TLC

Clique == [simScenario |-> 0, numGroups |-> 0, loc |->
    (0 :> At(100, 100)) @@ (1 :> At(200, 100)) @@ (2 :> At(100, 200))]

Chain == [simScenario |-> 0, numGroups |-> 0, loc |->
    (0 :> At(100, 100)) @@ (1 :> At(400, 100)) @@ (2 :> At(700, 100))]

Merging == [simScenario |-> 3, numGroups |-> 2, loc |->
    (0 :> At(100, 100)) @@ (1 :> At(800, 800)) @@ (2 :> At(700, 700))]

MCSetups == {Clique, Chain, Merging}

TriangleAndTail == [simScenario |-> 0, numGroups |-> 0, loc |->
    (0 :> At(100, 100)) @@ (1 :> At(400, 100)) @@ (2 :> At(350, 300))
       @@ (3 :> At(640, 300))]

\* The times drawn by random() are different.
MCInit == MainInit /\ \A m, n \in Node : m # n => nextUpdate[m] # nextUpdate[n]
MCSpec == MCInit /\ [][MainNext]_mainVars
MCFairSpec == MCSpec /\ WF_mainVars(MainNext)

MCClique == {Clique}
MCChain == {Chain}
MCTriangle == {TriangleAndTail}
MCMerging == {Merging}

=============================================================================
