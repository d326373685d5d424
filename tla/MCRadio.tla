------------------------------ MODULE MCRadio ------------------------------
(* Where four nodes may be: in a chain, in a triangle with a tail, or with *)
(* node 1 moved below 0, where no other node reaches it.                   *)
EXTENDS TLC, Integers

At(x, y) == [locX |-> x, locY |-> y]

Chain == (0 :> At(100, 100)) @@ (1 :> At(400, 100))
            @@ (2 :> At(700, 100)) @@ (3 :> At(1000, 100))

TriangleAndTail == (0 :> At(100, 100)) @@ (1 :> At(400, 100))
                      @@ (2 :> At(350, 300)) @@ (3 :> At(640, 300))

Below == (0 :> At(20, 20)) @@ (1 :> At(-10, 20))
            @@ (2 :> At(300, 300)) @@ (3 :> At(320, 320))

MCLayouts == {Chain, TriangleAndTail, Below}

MCTimes == 0..30

=============================================================================
