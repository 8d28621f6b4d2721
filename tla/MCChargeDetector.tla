--------------------------- MODULE MCChargeDetector ---------------------------
(* Instance of ChargeDetector for TLC: a device that draws nothing, a trickle   *)
(* (0.5 W) or a real charge (10 W).                                             *)
EXTENDS ChargeDetector

PowersSeen == {0, 10, 200}
StepsTaken == {1, 2}
=============================================================================
