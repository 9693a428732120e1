------------------------------- MODULE LapTimer -------------------------------
(***************************************************************************)
(* What the acceleration timers promise, as one stopwatch with laps.  A    *)
(* standstill arms it, the first moving sample after that starts a run,    *)
(* and each limit's lap is closed by the first later sample that reaches   *)
(* the limit.  Times may be off by Skew ticks and wrap with the counter.   *)
(* A standstill keeps the results, losing the fix erases them.             *)
(***************************************************************************)
EXTENDS Integers

CONSTANTS Trig, Limits, Speeds, TickMod, Skew

VARIABLES
    now,     \* time
    armed,   \* the last sample was a standstill
    open,    \* limits whose lap is being timed
    runAt,   \* when the last run started
    lap      \* lap times on display, 0 when there is none

vars == <<now, armed, open, runAt, lap>>

NoLap == [i \in Trig |-> 0]

Init == now = 0 /\ armed = FALSE /\ open = {} /\ runAt = 0 /\ lap = NoLap

\* Readings a lap closed now may be given.
Readings == {(now - runAt + d) % TickMod : d \in -Skew .. Skew}

Stand == armed' = TRUE /\ open' = {} /\ UNCHANGED <<now, runAt, lap>>

Start(v) ==
    /\ armed /\ v > 0
    /\ armed' = FALSE /\ open' = Trig /\ runAt' = now /\ lap' = NoLap
    /\ UNCHANGED now

Cross(v) ==
    /\ ~armed /\ v > 0
    /\ open' = {i \in open : v < Limits[i]}
    /\ \A i \in open \ open' : lap'[i] \in Readings
    /\ lap' = [i \in Trig |-> IF i \in open \ open' THEN lap'[i] ELSE lap[i]]
    /\ UNCHANGED <<now, armed, runAt>>

LoseFix ==
    /\ armed' = FALSE /\ open' = {} /\ lap' = NoLap
    /\ UNCHANGED <<now, runAt>>

Advance == now' = now + 1 /\ UNCHANGED <<armed, open, runAt, lap>>

Next ==
    \/ Stand
    \/ LoseFix
    \/ Advance
    \/ \E v \in Speeds : Start(v) \/ Cross(v)

Spec == Init /\ [][Next]_vars
=============================================================================
