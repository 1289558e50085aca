-------------------------- MODULE MCThermalLadder --------------------------
EXTENDS ThermalLadder, TLC

CONSTANTS c1, l1, b1

\* A CPU sensor whose chip raises the trigger to 112 and a coolant sensor:
\* below, at and above each threshold.
MCLadderValues == (c1 :> {79, 80, 112} @@ l1 :> {55, 60})
MCLadderCrit == (c1 :> 107)

\* One CPU sensor beside a board sensor: plausible, absurdly low, and hot.
MCBoardValues == (c1 :> {5, 106} @@ b1 :> {30})
MCBoardCrit == (c1 :> NoCrit)

MCTemps == {5, 30, 55, 60, 79, 80, 105, 106, 112}
=============================================================================
