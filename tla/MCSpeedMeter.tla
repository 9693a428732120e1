----------------------------- MODULE MCSpeedMeter -----------------------------
(* A small instance of SpeedMeter: no fix, standstill, 3 km/h and 6 km/h.   *)
EXTENDS SpeedMeter

Knots(v, s) == [valid |-> TRUE, speed |-> [value |-> v, scale |-> s]]
MCFrames == {[valid |-> FALSE, speed |-> [value |-> 0, scale |-> 0]],
             Knots(0, 10), Knots(162, 100), Knots(32396, 10000)}
MCLimits == <<3, 6>>
=============================================================================
