---------------------------- MODULE MCStandalone ----------------------------
(* One of what needs no other part of the system to run: the programs      *)
(* crypto-test and tagdh, on a curve of order 7, and the erasing loop.     *)
EXTENDS CryptoTest, Tagdh, EraseLoop

Order == 7
MCScalar == 0..Order - 1
MCAdd(x, y) == (x + y) % Order
MCMul(x, y) == (x * y) % Order

MCInit == TestInit /\ TagdhInit /\ Init

\* Those that do not run have not begun; a list without elements is done.
MCNext ==
    \/ TestNext /\ test = "signature" /\ length = 0 /\ UNCHANGED <<tagdhVars, vars>>
    \/ TagdhNext /\ step = "secrets" /\ length = 0 /\ UNCHANGED <<testVars, vars>>
    \/ Next /\ UNCHANGED <<testVars, tagdhVars>>

MCSpec == MCInit /\ [][MCNext]_<<testVars, tagdhVars, vars>>

=============================================================================
