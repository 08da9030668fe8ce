-------------------------- MODULE MCPositionMonitor --------------------------
(* Instances of PositionMonitor for TLC.  The ROI values reach every exit: *)
(* -20 and -10 are losses at or within a limit, 30 arms the trailing stop  *)
(* at 20, 45 raises it to 26, and 80 is the hard cap.                      *)
EXTENDS PositionMonitor

CONSTANTS btc, eth

BothSides == {1, -1}
Loss == {-20}
EveryExit == {-20, -10, 20, 30, 45, 80}
LossAndGain == {-20, 20}
=============================================================================
