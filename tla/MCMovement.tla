----------------------------- MODULE MCMovement -----------------------------
(* Movement of two nodes, at the borders of the sectors and elsewhere.     *)
EXTENDS Movement

Config(scenario, groups) ==
    [simScenario |-> scenario, numGroups |-> groups, simulationTime |-> 12]

MCConfigs == {Config(1, 0), Config(1, 2), Config(2, 1), Config(2, 3), Config(2, 5),
              Config(3, 2), Config(3, 4), Config(3, 5)}

\* Both parities, with the least and the greatest coordinates of a sector.
MCDraws == {<<0, 299>>, <<1, 299>>, <<3, 0>>, <<299, 0>>, <<598, 299>>}

\* The longest and the shortest steps, and two directions.
MCDice == {<<4, 10, 7>>, <<10, 49, 0>>}

MCUninitialised == {At(-1000, 5000), At(423, 578)}

=============================================================================
