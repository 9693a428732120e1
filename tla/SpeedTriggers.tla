---------------------------- MODULE SpeedTriggers ----------------------------
(***************************************************************************)
(* The acceleration timers of src/hw/hw_gps.c: four stopwatches            *)
(* (_trig_lim_str) that measure how long the vehicle takes from standstill *)
(* to 40, 60, 80 and 100 km/h.  task_gps runs them once per parsed RMC     *)
(* sentence (_check_and_apply_trigers); each stopwatch reads the RTOS tick *)
(* counter for itself, so the tick interrupt can fall between two of them. *)
(*                                                                         *)
(* The lcd task has a lower priority on the same core, so the only thing   *)
(* that runs during a call is the tick interrupt: a step per stopwatch is  *)
(* the granularity at which the code can be observed.                      *)
(***************************************************************************)
EXTENDS Integers

CONSTANTS
    NTrig,      \* MAX_TRIGGERS
    Limits,     \* Limits[i]: the speed (km/h) stopwatch i waits for
    Reports,    \* values of ext_speed (km/h * 1000) an RMC sentence may give
    TickMod,    \* TickType_t counts modulo this (2^32 in the build)
    MaxSkew,    \* ticks that may elapse while one call executes
    MaxTime     \* bound: the run is observed for this many ticks

Trig == 1 .. NTrig

ASSUME NTrigAssumption == NTrig \in Nat \ {0}
ASSUME LimitsAssumption ==
    /\ Limits \in [Trig -> Nat \ {0}]
    /\ \A i, j \in Trig : i < j => Limits[i] < Limits[j]
ASSUME ReportsAssumption == Reports \subseteq Nat
ASSUME ClockAssumption ==
    TickMod \in Nat \ {0} /\ MaxSkew \in Nat /\ MaxTime \in Nat

VARIABLES
    tick,          \* xTaskGetTickCount()
    trig_lim_str,  \* _trig_lim_str[]
    trigger_ms,    \* trigger_0_ms .. trigger_3_ms, what the lcd task reads
    pc,            \* 0: no call; i: stopwatch i is next in the call
    arg,           \* speed_km_h and __clear of the call
    \* Auxiliary: they are written, never read by the program's steps.
    now,           \* ticks since boot, without wraparound
    begunAt,       \* when the current call was entered
    runAt,         \* when the call that started the current run returned
    startedAt,     \* startedAt[i]: when stopwatch i was last started
    closedAt,      \* closedAt[i]: when it last went from status 2 to 0
    seen           \* what the lcd task could see when the call was entered

aux == <<begunAt, runAt, startedAt, closedAt, seen>>
vars == <<tick, trig_lim_str, trigger_ms, pc, arg, now, aux>>

portTICK_PERIOD_MS == 1

\* Mutant: subtraction in a wider signed type, no wraparound.
TickSub_signed(a, b) == a - b

\* uint32_t subtraction of two tick counts.
TickSub(a, b) == IF a >= b THEN a - b ELSE a - b + TickMod

-----------------------------------------------------------------------------
(* _trig_one_limit: the new value of *str.  The switch on the status runs  *)
(* after the reset that a standstill or a lost fix causes.                 *)

\* Mutants of the switch: the start tick is not stored, the old result stays
\* on display during the run, the stopwatch runs on after its limit.
Switch(str, v, L, started, closed) ==
    CASE str.status = 0 /\ v = 0  -> [str EXCEPT !.status = 1]
      [] str.status = 1 /\ v > 0  -> started
      [] str.status = 2 /\ v >= L -> closed
      [] OTHER -> str

Started(str) == [sys_ticks |-> tick, trigged_ms |-> 0, status |-> 2]
Closed(str) == [sys_ticks |-> str.sys_ticks, status |-> 0,
                trigged_ms |-> TickSub(tick, str.sys_ticks)]

switch_status_oldTick(str, v, L) ==
    Switch(str, v, L, [Started(str) EXCEPT !.sys_ticks = str.sys_ticks],
           Closed(str))

switch_status_oldResult(str, v, L) ==
    Switch(str, v, L, [Started(str) EXCEPT !.trigged_ms = str.trigged_ms],
           Closed(str))

switch_status_runsOn(str, v, L) ==
    Switch(str, v, L, Started(str), [Closed(str) EXCEPT !.status = 2])

switch_status(str, current_speed, trig_speed) ==
    CASE str.status = 0 ->
           IF current_speed = 0 THEN [str EXCEPT !.status = 1] ELSE str
      [] str.status = 1 ->
           IF current_speed > 0
           THEN [sys_ticks |-> tick, trigged_ms |-> 0, status |-> 2]
           ELSE str
      [] str.status = 2 ->
           IF current_speed >= trig_speed
           THEN [sys_ticks |-> str.sys_ticks, status |-> 0, trigged_ms |->
                     TickSub(tick, str.sys_ticks) * portTICK_PERIOD_MS]
           ELSE str
      [] OTHER -> [str EXCEPT !.status = 0]

\* Mutant: a standstill does not reset a stopwatch that is running.
trig_one_limit_noReset(str, v, L, clear) ==
    IF clear THEN [sys_ticks |-> 0, trigged_ms |-> 0, status |-> 0]
             ELSE switch_status(str, v, L)

\* Mutant: losing the fix stops the stopwatch and keeps its result.
trig_one_limit_keepOnClear(str, v, L, clear) ==
    IF clear \/ v = 0
    THEN [sys_ticks |-> 0, trigged_ms |-> str.trigged_ms,
          status |-> IF clear THEN 0 ELSE 1]
    ELSE switch_status(str, v, L)

trig_one_limit(str, current_speed, trig_speed, clear) ==
    IF clear
    THEN [sys_ticks |-> 0, trigged_ms |-> 0, status |-> 0]
    ELSE switch_status(IF current_speed = 0
                       THEN [sys_ticks |-> 0, trigged_ms |-> str.trigged_ms,
                             status |-> 0]
                       ELSE str,
                       current_speed, trig_speed)

-----------------------------------------------------------------------------
\* What an observer at task level (the lcd task) can tell from the timers.
View == [armed |-> {i \in Trig : trig_lim_str[i].status = 1},
         open  |-> {i \in Trig : trig_lim_str[i].status = 2},
         lap   |-> trigger_ms]

Init ==
    /\ tick = 0 /\ now = 0 /\ begunAt = 0 /\ runAt = 0
    /\ trig_lim_str =
         [i \in Trig |-> [sys_ticks |-> 0, trigged_ms |-> 0, status |-> 0]]
    /\ trigger_ms = [i \in Trig |-> 0]
    /\ pc = 0
    /\ arg = [speed |-> 0, clear |-> FALSE]
    /\ startedAt = [i \in Trig |-> 0] /\ closedAt = [i \in Trig |-> 0]
    /\ seen = [armed |-> {}, open |-> {}, lap |-> [i \in Trig |-> 0]]

\* Entry of _check_and_apply_trigers(ext_speed, !gps_valid): ext_speed is 0
\* whenever gps_valid is false.
check_and_apply_trigers(ext_speed, clear) ==
    /\ pc = 0
    /\ pc' = 1
    /\ arg' = [speed |-> ext_speed \div 1000, clear |-> clear]
    /\ begunAt' = now
    /\ seen' = View
    /\ UNCHANGED <<tick, now, runAt, startedAt, closedAt, trig_lim_str,
                   trigger_ms>>

\* One stopwatch of the call: _trig_one_limit, then its result is published.
ApplyOne ==
    /\ pc \in Trig
    /\ LET str == trig_one_limit(trig_lim_str[pc], arg.speed, Limits[pc],
                                 arg.clear)
       IN  /\ trig_lim_str' = [trig_lim_str EXCEPT ![pc] = str]
           /\ trigger_ms' = [trigger_ms EXCEPT ![pc] = str.trigged_ms]
           /\ startedAt' = IF trig_lim_str[pc].status = 1 /\ str.status = 2
                           THEN [startedAt EXCEPT ![pc] = now] ELSE startedAt
           /\ closedAt' = IF trig_lim_str[pc].status = 2 /\ str.status = 0
                          THEN [closedAt EXCEPT ![pc] = now] ELSE closedAt
    /\ pc' = IF pc = NTrig THEN 0 ELSE pc + 1
    /\ runAt' = IF pc = NTrig /\ seen.armed # {} /\ arg.speed > 0 /\ ~arg.clear
                THEN now ELSE runAt
    /\ UNCHANGED <<tick, now, begunAt, arg, seen>>

\* The tick interrupt.
Tick ==
    /\ now < MaxTime
    /\ pc # 0 => now - begunAt < MaxSkew
    /\ now' = now + 1
    /\ tick' = IF tick = TickMod - 1 THEN 0 ELSE tick + 1
    /\ UNCHANGED <<trig_lim_str, trigger_ms, pc, arg, aux>>

Sentence ==
    \/ \E x \in Reports : check_and_apply_trigers(x, FALSE)
    \/ check_and_apply_trigers(0, TRUE)

Next == Sentence \/ ApplyOne \/ Tick

Spec == Init /\ [][Next]_vars

-----------------------------------------------------------------------------
Stopwatch == [sys_ticks : 0 .. TickMod - 1, trigged_ms : 0 .. TickMod - 1,
              status : 0 .. 2]

TypeOK ==
    /\ tick \in 0 .. TickMod - 1
    /\ trig_lim_str \in [Trig -> Stopwatch]
    /\ trigger_ms \in [Trig -> 0 .. TickMod - 1]
    /\ pc \in 0 .. NTrig
    /\ arg \in [speed : Nat, clear : BOOLEAN]
    /\ now \in Nat /\ begunAt \in Nat /\ runAt \in Nat
    /\ startedAt \in [Trig -> Nat] /\ closedAt \in [Trig -> Nat]
    /\ seen \in [armed : SUBSET Trig, open : SUBSET Trig,
                 lap : [Trig -> 0 .. TickMod - 1]]

(* The four stopwatches have a status each and are stepped one by one, but *)
(* between two calls they form one instrument: they are armed all together *)
(* or not at all, and a higher limit is never closed while a lower one is  *)
(* still being timed.                                                      *)
Lockstep ==
    pc = 0 =>
        \/ \A i \in Trig : trig_lim_str[i].status = 1
        \/ \A i, j \in Trig :
             /\ trig_lim_str[i].status \in {0, 2}
             /\ i < j /\ trig_lim_str[i].status = 2
                    => trig_lim_str[j].status = 2

\* The true duration of the lap that stopwatch i closed last.
Duration(i) == closedAt[i] - runAt

(* A time on display belongs to the current run and is its true duration,  *)
(* late by no more than the ticks that pass inside a call, if the run is   *)
(* shorter than the counter's period; wraparound of the counter in the     *)
(* middle of a run does no harm (hw_gps.c:84, :92).                        *)
LapAccurate ==
    pc = 0 => \A i \in Trig :
        trigger_ms[i] # 0 /\ Duration(i) + MaxSkew < TickMod =>
            /\ runAt <= closedAt[i]
            /\ trigger_ms[i] - Duration(i) \in 0 .. MaxSkew

(* Times of one run are ordered like their limits, up to the ticks that    *)
(* pass inside a call: every stopwatch reads the counter for itself.       *)
LapsOrdered ==
    pc = 0 => \A i, j \in Trig :
        i < j /\ trigger_ms[j] # 0 /\ Duration(j) + MaxSkew < TickMod =>
            trigger_ms[i] <= trigger_ms[j] + MaxSkew

(* A published time is never overwritten by another one: a new run or the  *)
(* loss of the fix blanks it first.                                        *)
ResultIsKept ==
    [][\A i \in Trig : trigger_ms[i] # 0 =>
           trigger_ms'[i] \in {0, trigger_ms[i]}]_vars

-----------------------------------------------------------------------------
(* The inductive invariant behind the properties above.                    *)

\* Stopwatches the call has not reached yet.
Waiting(i) == pc = 0 \/ pc <= i

\* The observer's view when the call was entered, or now if there is none.
Before == IF pc = 0 THEN View ELSE seen
WasArmed == Before.armed # {}

\* A stopwatch's status is a function of the view before the call and, once
\* the call has passed it, of the call's arguments.
WaitingStatus(i) == IF WasArmed THEN 1 ELSE IF i \in Before.open THEN 2 ELSE 0

PassedStatus(i) ==
    IF arg.clear THEN 0
    ELSE IF arg.speed = 0 THEN 1
    ELSE IF WasArmed \/ (i \in Before.open /\ arg.speed < Limits[i]) THEN 2
    ELSE 0

Statuses ==
    /\ \A i \in Trig : trig_lim_str[i].status =
           IF Waiting(i) THEN WaitingStatus(i) ELSE PassedStatus(i)
    /\ (Before.armed = Trig /\ Before.open = {}) \/ Before.armed = {}
    /\ \A i, j \in Trig : i < j /\ i \in Before.open => j \in Before.open

\* Times: the clock, running stopwatches, and results that are on display.
Clock ==
    /\ begunAt <= now /\ runAt <= begunAt + MaxSkew /\ runAt <= now
    /\ pc # 0 => now - begunAt <= MaxSkew /\ runAt <= begunAt

\* Started in the run of runAt, or by the current call.
InRun(i) == startedAt[i] <= runAt /\ runAt <= startedAt[i] + MaxSkew

Running ==
    \A i \in Trig : trig_lim_str[i].status = 2 =>
        /\ trig_lim_str[i].trigged_ms = 0
        /\ startedAt[i] <= now
        /\ now - startedAt[i] < TickMod =>
               TickSub(tick, trig_lim_str[i].sys_ticks) = now - startedAt[i]
        /\ WasArmed => begunAt <= startedAt[i]
        /\ ~WasArmed => InRun(i)

Results ==
    \A i \in Trig :
        /\ trigger_ms[i] = trig_lim_str[i].trigged_ms
        /\ closedAt[i] <= now
        /\ trigger_ms[i] # 0 =>
            /\ InRun(i) /\ runAt <= closedAt[i]
            /\ closedAt[i] - startedAt[i] < TickMod =>
                   trigger_ms[i] = closedAt[i] - startedAt[i]
            /\ \A j \in Trig :
                 i < j /\ trigger_ms[j] # 0 => closedAt[i] <= closedAt[j]

IndInv == TypeOK /\ Statuses /\ Clock /\ Running /\ Results

-----------------------------------------------------------------------------
(* Refinement: at task level the timers are the stopwatch with laps of     *)
(* LapTimer.  During a call the observer still sees what it saw before.    *)
Lap == INSTANCE LapTimer WITH
           Speeds <- {x \div 1000 : x \in Reports}, Skew <- MaxSkew,
           armed <- WasArmed, open <- Before.open, lap <- Before.lap

LapTimerSpec == Lap!Spec
=============================================================================
