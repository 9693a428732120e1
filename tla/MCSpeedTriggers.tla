---------------------------- MODULE MCSpeedTriggers ----------------------------
(* A small instance of SpeedTriggers: two limits, a counter that wraps      *)
(* every few ticks, and one tick that may fall inside a call.               *)
EXTENDS SpeedTriggers

\* 2 and 4 km/h stand for 40 and 60.
MCLimits == <<2, 4>>

\* Standing (below 1 km/h), moving below, between and above the limits.
MCReports == {999, 1000, 2500, 4000}
=============================================================================
