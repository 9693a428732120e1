------------------------- MODULE SpeedTriggersProofs -------------------------
(***************************************************************************)
(* Proofs about the acceleration timers, for any number of limits, any     *)
(* counter width, any skew and any speeds.                                 *)
(***************************************************************************)
EXTENDS SpeedTriggers, TLAPS

(* Subtraction of tick counts stays in the counter's range.                *)
LEMMA TickSubType ==
    ASSUME NEW a \in 0 .. TickMod - 1, NEW b \in 0 .. TickMod - 1
    PROVE  TickSub(a, b) \in 0 .. TickMod - 1
BY ClockAssumption DEF TickSub

(* The elapsed time grows by one with every tick until it would reach the  *)
(* counter's period, also when the counter wraps.                          *)
LEMMA TickSubStep ==
    ASSUME NEW a \in 0 .. TickMod - 1, NEW b \in 0 .. TickMod - 1,
           TickSub(a, b) + 1 < TickMod
    PROVE  TickSub(IF a = TickMod - 1 THEN 0 ELSE a + 1, b) = TickSub(a, b) + 1
BY ClockAssumption DEF TickSub

(* What the switch in _trig_one_limit does to a stopwatch, by status.      *)
LEMMA SwitchStatus ==
    ASSUME NEW str \in Stopwatch, NEW v \in Nat, NEW L \in Nat \ {0},
           tick \in 0 .. TickMod - 1
    PROVE  LET r == switch_status(str, v, L) IN
           /\ r \in Stopwatch
           /\ str.status = 0 /\ v = 0 =>
                  r.status = 1 /\ r.trigged_ms = str.trigged_ms
           /\ str.status = 0 /\ v > 0 => r = str
           /\ str.status = 1 /\ v > 0 =>
                  r = [sys_ticks |-> tick, trigged_ms |-> 0, status |-> 2]
           /\ str.status = 2 /\ v < L => r = str
           /\ str.status = 2 /\ v >= L =>
                  r.status = 0 /\ r.trigged_ms = TickSub(tick, str.sys_ticks)
<1> DEFINE r == switch_status(str, v, L)
           w == TickSub(tick, str.sys_ticks)
<1>1. /\ str.sys_ticks \in 0 .. TickMod - 1
      /\ str.trigged_ms \in 0 .. TickMod - 1
      /\ str.status \in 0 .. 2
  BY DEF Stopwatch
<1>2. w \in 0 .. TickMod - 1
  BY <1>1, TickSubType
<1>3. w * portTICK_PERIOD_MS = w
  BY <1>2, ClockAssumption DEF portTICK_PERIOD_MS
<1>4. 0 \in 0 .. TickMod - 1
  BY ClockAssumption
<1>5. CASE str.status = 0
  BY <1>5 DEF switch_status, Stopwatch
<1>6. CASE str.status = 1
  BY <1>4, <1>6 DEF switch_status, Stopwatch
<1>7. CASE str.status = 2
  <2> HIDE DEF w
  <2>1. r = IF v >= L
            THEN [sys_ticks |-> str.sys_ticks, status |-> 0,
                  trigged_ms |-> w * portTICK_PERIOD_MS]
            ELSE str
    BY <1>7 DEF switch_status, w
  <2>2. r = IF v >= L
            THEN [sys_ticks |-> str.sys_ticks, status |-> 0, trigged_ms |-> w]
            ELSE str
    BY <1>3, <2>1
  <2>3. CASE v >= L
    <3>1. r \in Stopwatch /\ r.status = 0 /\ r.trigged_ms = w
      <4>1. r = [sys_ticks |-> str.sys_ticks, status |-> 0, trigged_ms |-> w]
        BY <2>2, <2>3
      <4> HIDE DEF r
      <4> QED  BY <1>1, <1>2, <4>1 DEF Stopwatch
    <3> QED  BY <1>7, <2>3, <3>1 DEF w
  <2>4. CASE ~(v >= L)
    BY <1>7, <2>2, <2>4
  <2> QED  BY <2>3, <2>4
<1> QED  BY <1>1, <1>5, <1>6, <1>7

(* What _trig_one_limit does to a stopwatch, by its arguments.             *)
LEMMA OneLimit ==
    ASSUME NEW str \in Stopwatch, NEW v \in Nat, NEW L \in Nat \ {0},
           NEW c \in BOOLEAN, tick \in 0 .. TickMod - 1
    PROVE  LET r == trig_one_limit(str, v, L, c) IN
           /\ r \in Stopwatch
           /\ c => r.status = 0 /\ r.trigged_ms = 0
           /\ ~c /\ v = 0 => r.status = 1 /\ r.trigged_ms = str.trigged_ms
           /\ ~c /\ v > 0 /\ str.status = 0 => r = str
           /\ ~c /\ v > 0 /\ str.status = 1 =>
                  r = [sys_ticks |-> tick, trigged_ms |-> 0, status |-> 2]
           /\ ~c /\ v > 0 /\ str.status = 2 /\ v < L => r = str
           /\ ~c /\ v > 0 /\ str.status = 2 /\ v >= L =>
                  r.status = 0 /\ r.trigged_ms = TickSub(tick, str.sys_ticks)
<1> DEFINE r == trig_one_limit(str, v, L, c)
           s == [sys_ticks |-> 0, trigged_ms |-> str.trigged_ms, status |-> 0]
<1>1. CASE c
  <2>1. r = [sys_ticks |-> 0, trigged_ms |-> 0, status |-> 0]
    BY <1>1 DEF trig_one_limit
  <2>2. r \in Stopwatch /\ r.status = 0 /\ r.trigged_ms = 0
    BY <2>1, ClockAssumption DEF Stopwatch
  <2> QED  BY <1>1, <2>2, Zenon
<1>2. CASE ~c /\ v = 0
  <2>1. s \in Stopwatch /\ s.status = 0 /\ s.trigged_ms = str.trigged_ms
    BY ClockAssumption DEF Stopwatch
  <2>2. r = switch_status(s, v, L)
    <3>1. r = switch_status(IF v = 0 THEN s ELSE str, v, L)
      BY <1>2, Zenon DEF trig_one_limit
    <3>2. (IF v = 0 THEN s ELSE str) = s
      BY <1>2, Zenon
    <3> QED  BY <3>1, <3>2, Zenon
  <2> HIDE DEF s
  <2>3. r \in Stopwatch /\ r.status = 1 /\ r.trigged_ms = str.trigged_ms
    <3> HIDE DEF r
    <3> QED  BY <1>2, <2>1, <2>2, SwitchStatus, SMT
  <2>4. ~(v > 0)
    BY <1>2
  <2> QED  BY <1>2, <2>3, <2>4, Zenon
<1>3. CASE ~c /\ v > 0
  <2>1. r = switch_status(str, v, L)
    BY <1>3 DEF trig_one_limit
  <2>2. ~ (v = 0)
    BY <1>3
  <2> QED  BY <1>3, <2>1, <2>2, SwitchStatus
<1> QED  BY <1>1, <1>2, <1>3

-----------------------------------------------------------------------------
(* The stopwatches start in a state of the invariant.                      *)
LEMMA InitInd == Init => IndInv
<1> SUFFICES ASSUME Init PROVE IndInv
  OBVIOUS
<1>1. 0 \in 0 .. TickMod - 1 /\ 1 \in Trig
  BY ClockAssumption, NTrigAssumption DEF Trig
<1>2. TypeOK
  BY <1>1, NTrigAssumption DEF Init, TypeOK, Stopwatch
<1>3. Before.armed = {} /\ Before.open = {}
  <2>1. \A i \in Trig : trig_lim_str[i].status = 0
    BY DEF Init
  <2>2. View.armed = {} /\ View.open = {}
    BY <2>1 DEF View
  <2> QED  BY <2>2 DEF Init, Before
<1>4. Statuses
  BY <1>1, <1>3 DEF Init, Statuses, WaitingStatus, PassedStatus, WasArmed, Waiting
<1>5. Clock /\ Running
  BY ClockAssumption DEF Init, Clock, Running
<1>6. Results
  BY DEF Init, Results
<1> QED  BY <1>2, <1>4, <1>5, <1>6 DEF IndInv

(* A tick moves only the clock: what a running stopwatch would read grows  *)
(* with the time since it was started.                                     *)
LEMMA TickInd == IndInv /\ Tick => IndInv'
<1> SUFFICES ASSUME IndInv, Tick PROVE IndInv'
  OBVIOUS
<1> USE DEF IndInv
<1>1. TypeOK'
  BY ClockAssumption DEF Tick, TypeOK, aux
<1>2. Before' = Before /\ WasArmed' = WasArmed
  BY DEF Tick, Before, View, WasArmed, aux
<1>3. Statuses'
  BY <1>2 DEF Tick, Statuses, WaitingStatus, PassedStatus, WasArmed, Waiting, aux
<1>4. Clock'
  BY ClockAssumption DEF Tick, Clock, TypeOK, aux
<1>5. Running'
  <2> SUFFICES ASSUME NEW i \in Trig, trig_lim_str[i].status = 2
               PROVE  /\ trig_lim_str[i].trigged_ms = 0
                      /\ startedAt[i] <= now'
                      /\ now' - startedAt[i] < TickMod =>
                           TickSub(tick', trig_lim_str[i].sys_ticks)
                               = now' - startedAt[i]
                      /\ WasArmed => begunAt <= startedAt[i]
                      /\ ~WasArmed => InRun(i)
    <3>1. /\ trig_lim_str' = trig_lim_str /\ begunAt' = begunAt
          /\ runAt' = runAt /\ startedAt' = startedAt
      BY DEF Tick, aux
    <3>2. \A i \in Trig : InRun(i)' <=> InRun(i)
      BY <3>1 DEF InRun
    <3> QED  BY <1>2, <3>1, <3>2 DEF Running
  <2>0. now' = now + 1
    BY DEF Tick
  <2>1. /\ trig_lim_str[i].trigged_ms = 0
        /\ startedAt[i] <= now
        /\ now - startedAt[i] < TickMod =>
               TickSub(tick, trig_lim_str[i].sys_ticks) = now - startedAt[i]
        /\ WasArmed => begunAt <= startedAt[i]
        /\ ~WasArmed => InRun(i)
    BY DEF Running
  <2>2. /\ tick \in 0 .. TickMod - 1 /\ now \in Nat /\ startedAt[i] \in Nat
        /\ trig_lim_str[i].sys_ticks \in 0 .. TickMod - 1
    BY DEF TypeOK, Stopwatch
  <2>3. startedAt[i] <= now'
    BY <2>0, <2>1, <2>2
  <2>4. ASSUME now' - startedAt[i] < TickMod
        PROVE  TickSub(tick', trig_lim_str[i].sys_ticks)
                   = now' - startedAt[i]
    <3>1. TickSub(tick, trig_lim_str[i].sys_ticks) = now - startedAt[i]
      BY <2>0, <2>1, <2>2, <2>4, ClockAssumption
    <3>2. TickSub(tick, trig_lim_str[i].sys_ticks) + 1 < TickMod
      BY <2>0, <2>2, <2>4, <3>1, ClockAssumption
    <3>3. TickSub(tick', trig_lim_str[i].sys_ticks)
              = TickSub(tick, trig_lim_str[i].sys_ticks) + 1
      BY <2>2, <3>2, TickSubStep DEF Tick
    <3> QED  BY <2>0, <2>2, <3>1, <3>3
  <2> QED  BY <2>1, <2>3, <2>4, Zenon
<1>6. Results'
  BY DEF Tick, Results, InRun, TypeOK, aux
<1> QED  BY <1>1, <1>3, <1>4, <1>5, <1>6

(* Entering _check_and_apply_trigers changes no stopwatch.                 *)
LEMMA EnterInd ==
    ASSUME IndInv, NEW x \in Nat, NEW c \in BOOLEAN, check_and_apply_trigers(x, c)
    PROVE  IndInv'
<1> USE DEF IndInv
<1>1. check_and_apply_trigers(x, c)
  OBVIOUS
<1>2. x \div 1000 \in Nat
  OBVIOUS
<1>3. View \in [armed : SUBSET Trig, open : SUBSET Trig,
                lap : [Trig -> 0 .. TickMod - 1]]
  BY DEF View, TypeOK
<1>4. TypeOK'
  BY <1>1, <1>2, <1>3, NTrigAssumption DEF check_and_apply_trigers, TypeOK
<1>5. Before' = Before /\ \A i \in Trig : Waiting(i) /\ Waiting(i)'
  BY <1>1 DEF check_and_apply_trigers, Before, Waiting, Trig, TypeOK
<1>6. Statuses'
  BY <1>1, <1>5 DEF check_and_apply_trigers, Statuses, WaitingStatus, PassedStatus, WasArmed
<1>7. Clock'
  BY <1>1, ClockAssumption DEF check_and_apply_trigers, Clock, TypeOK
<1>8. Running'
  <2>1. ~WasArmed \/ \A i \in Trig : trig_lim_str[i].status # 2
    BY <1>5 DEF Statuses, WaitingStatus, PassedStatus, WasArmed
  <2> QED  BY <1>1, <1>5, <2>1 DEF check_and_apply_trigers, Running, InRun, WasArmed
<1>9. Results'
  BY <1>1 DEF check_and_apply_trigers, Results, InRun
<1> QED  BY <1>4, <1>6, <1>7, <1>8, <1>9

(* A sentence enters it with the speed it reports, or to clear.            *)
LEMMA SentenceInd == IndInv /\ Sentence => IndInv'
<1> SUFFICES ASSUME IndInv, Sentence PROVE IndInv'
  OBVIOUS
<1>1. PICK x \in Nat, c \in BOOLEAN : check_and_apply_trigers(x, c)
  BY ReportsAssumption DEF Sentence
<1> QED  BY <1>1, EnterInd

(* One stopwatch of a call: the facts both the last and the earlier ones   *)
(* have in common.                                                         *)
LEMMA ApplyOneStep ==
    ASSUME IndInv, ApplyOne
    PROVE  /\ pc \in Trig /\ Before = seen
           /\ TypeOK'
           /\ \A i \in Trig : trig_lim_str'[i].status =
                  IF i <= pc THEN PassedStatus(i) ELSE WaitingStatus(i)
           /\ \A i \in Trig \ {pc} :
                /\ trig_lim_str'[i] = trig_lim_str[i]
                /\ trigger_ms'[i] = trigger_ms[i]
                /\ startedAt'[i] = startedAt[i]
                /\ closedAt'[i] = closedAt[i]
           /\ trigger_ms'[pc] = trig_lim_str'[pc].trigged_ms
           /\ \/ /\ trigger_ms'[pc] = 0
                 /\ trig_lim_str'[pc].status # 2
                 /\ startedAt'[pc] = startedAt[pc]
                 /\ closedAt'[pc] \in {now, closedAt[pc]}
              \/ /\ trigger_ms'[pc] = trigger_ms[pc]
                 /\ trig_lim_str'[pc].status # 2
                 /\ startedAt'[pc] = startedAt[pc]
                 /\ closedAt'[pc] = closedAt[pc]
              \/ /\ trig_lim_str'[pc] = trig_lim_str[pc]
                 /\ trigger_ms'[pc] = trigger_ms[pc]
                 /\ startedAt'[pc] = startedAt[pc]
                 /\ closedAt'[pc] = closedAt[pc]
              \/ /\ trigger_ms'[pc] = 0
                 /\ trig_lim_str[pc].status = 1
                 /\ trig_lim_str'[pc].status = 2
                 /\ trig_lim_str'[pc].sys_ticks = tick
                 /\ startedAt'[pc] = now
                 /\ closedAt'[pc] = closedAt[pc]
              \/ /\ trigger_ms'[pc] = TickSub(tick, trig_lim_str[pc].sys_ticks)
                 /\ trig_lim_str[pc].status = 2
                 /\ trig_lim_str'[pc].status = 0
                 /\ startedAt'[pc] = startedAt[pc]
                 /\ closedAt'[pc] = now
<1> USE DEF IndInv
<1> DEFINE str == trig_lim_str[pc]
           r == trig_one_limit(str, arg.speed, Limits[pc], arg.clear)
<1>1. pc \in Trig /\ pc # 0 /\ Before = seen
  BY DEF ApplyOne, Before, Trig
<1>2. /\ str \in Stopwatch /\ arg.speed \in Nat /\ Limits[pc] \in Nat \ {0}
      /\ arg.clear \in BOOLEAN /\ tick \in 0 .. TickMod - 1
  BY <1>1, LimitsAssumption DEF TypeOK
<1>3. /\ r \in Stopwatch
      /\ arg.clear => r.status = 0 /\ r.trigged_ms = 0
      /\ ~arg.clear /\ arg.speed = 0 =>
             r.status = 1 /\ r.trigged_ms = str.trigged_ms
      /\ ~arg.clear /\ arg.speed > 0 /\ str.status = 0 => r = str
      /\ ~arg.clear /\ arg.speed > 0 /\ str.status = 1 =>
             r = [sys_ticks |-> tick, trigged_ms |-> 0, status |-> 2]
      /\ ~arg.clear /\ arg.speed > 0 /\ str.status = 2
             /\ arg.speed < Limits[pc] => r = str
      /\ ~arg.clear /\ arg.speed > 0 /\ str.status = 2
             /\ arg.speed >= Limits[pc] =>
             r.status = 0 /\ r.trigged_ms = TickSub(tick, str.sys_ticks)
  BY <1>2, OneLimit, Zenon
<1>4. /\ trig_lim_str' = [trig_lim_str EXCEPT ![pc] = r]
      /\ trigger_ms' = [trigger_ms EXCEPT ![pc] = r.trigged_ms]
      /\ startedAt' = IF str.status = 1 /\ r.status = 2
                      THEN [startedAt EXCEPT ![pc] = now] ELSE startedAt
      /\ closedAt' = IF str.status = 2 /\ r.status = 0
                     THEN [closedAt EXCEPT ![pc] = now] ELSE closedAt
  BY DEF ApplyOne
<1>5. TypeOK'
  <2> HIDE DEF r
  <2>1. r.trigged_ms \in 0 .. TickMod - 1
    BY <1>3 DEF Stopwatch
  <2>2. trig_lim_str' \in [Trig -> Stopwatch]
    BY <1>1, <1>3, <1>4 DEF TypeOK
  <2>3. trigger_ms' \in [Trig -> 0 .. TickMod - 1]
    BY <1>1, <1>4, <2>1 DEF TypeOK
  <2>4. startedAt' \in [Trig -> Nat] /\ closedAt' \in [Trig -> Nat]
    BY <1>1, <1>4 DEF TypeOK
  <2>5. pc' \in 0 .. NTrig /\ runAt' \in Nat
    BY <1>1, NTrigAssumption DEF ApplyOne, TypeOK, Trig
  <2> QED  BY <2>2, <2>3, <2>4, <2>5 DEF ApplyOne, TypeOK
<1>6. \A i \in Trig \ {pc} :
        /\ trig_lim_str'[i] = trig_lim_str[i]
        /\ trigger_ms'[i] = trigger_ms[i]
        /\ startedAt'[i] = startedAt[i]
        /\ closedAt'[i] = closedAt[i]
  <2> HIDE DEF r
  <2> QED  BY <1>1, <1>4 DEF TypeOK
<1>7. trig_lim_str'[pc] = r
  <2> HIDE DEF r
  <2> QED  BY <1>1, <1>4 DEF TypeOK
<1>8. r.status = PassedStatus(pc)
  <2>1. str.status = WaitingStatus(pc)
    BY <1>1 DEF Statuses, Waiting, Trig
  <2>2. WasArmed => ~(pc \in Before.open)
    BY DEF Statuses, WasArmed
  <2> HIDE DEF r, str
  <2>3. /\ arg.clear => r.status = 0
        /\ ~arg.clear /\ arg.speed = 0 => r.status = 1
        /\ ~arg.clear /\ arg.speed > 0 /\ str.status = 0 => r.status = 0
        /\ ~arg.clear /\ arg.speed > 0 /\ str.status = 1 => r.status = 2
        /\ ~arg.clear /\ arg.speed > 0 /\ str.status = 2 =>
               r.status = IF arg.speed < Limits[pc] THEN 2 ELSE 0
    BY <1>2, <1>3
  <2>4. CASE arg.clear
    BY <2>3, <2>4 DEF PassedStatus
  <2>5. CASE ~arg.clear /\ arg.speed = 0
    BY <2>3, <2>5 DEF PassedStatus
  <2>6. CASE ~arg.clear /\ arg.speed > 0
    BY <1>2, <2>1, <2>2, <2>3, <2>6 DEF PassedStatus, WaitingStatus
  <2> QED  BY <1>2, <2>4, <2>5, <2>6
<1>9. \A i \in Trig : trig_lim_str'[i].status =
          IF i <= pc THEN PassedStatus(i) ELSE WaitingStatus(i)
  <2> SUFFICES ASSUME NEW i \in Trig
               PROVE  trig_lim_str'[i].status =
                        IF i <= pc THEN PassedStatus(i) ELSE WaitingStatus(i)
    OBVIOUS
  <2>1. CASE i = pc
    BY <1>7, <1>8, <2>1 DEF Trig
  <2>2. CASE i # pc
    <3>1. trig_lim_str'[i] = trig_lim_str[i]
      BY <1>6, <2>2
    <3>2. (pc <= i) <=> ~(i <= pc)
      BY <1>1, <2>2 DEF Trig
    <3> QED  BY <1>1, <3>1, <3>2 DEF Statuses, Waiting
  <2> QED  BY <2>1, <2>2
<1>10. /\ trigger_ms'[pc] = trig_lim_str'[pc].trigged_ms
       /\ \/ /\ trigger_ms'[pc] = 0
             /\ trig_lim_str'[pc].status # 2
             /\ startedAt'[pc] = startedAt[pc]
             /\ closedAt'[pc] \in {now, closedAt[pc]}
          \/ /\ trigger_ms'[pc] = trigger_ms[pc]
             /\ trig_lim_str'[pc].status # 2
             /\ startedAt'[pc] = startedAt[pc]
             /\ closedAt'[pc] = closedAt[pc]
          \/ /\ trig_lim_str'[pc] = trig_lim_str[pc]
             /\ trigger_ms'[pc] = trigger_ms[pc]
             /\ startedAt'[pc] = startedAt[pc]
             /\ closedAt'[pc] = closedAt[pc]
          \/ /\ trigger_ms'[pc] = 0
             /\ trig_lim_str[pc].status = 1
             /\ trig_lim_str'[pc].status = 2
             /\ trig_lim_str'[pc].sys_ticks = tick
             /\ startedAt'[pc] = now
             /\ closedAt'[pc] = closedAt[pc]
          \/ /\ trigger_ms'[pc] = TickSub(tick, trig_lim_str[pc].sys_ticks)
             /\ trig_lim_str[pc].status = 2
             /\ trig_lim_str'[pc].status = 0
             /\ startedAt'[pc] = startedAt[pc]
             /\ closedAt'[pc] = now
  <2> HIDE DEF r
  <2>1. /\ trigger_ms'[pc] = r.trigged_ms
        /\ startedAt'[pc] = IF str.status = 1 /\ r.status = 2
                            THEN now ELSE startedAt[pc]
        /\ closedAt'[pc] = IF str.status = 2 /\ r.status = 0
                           THEN now ELSE closedAt[pc]
    BY <1>1, <1>4 DEF TypeOK
  <2>2. trigger_ms[pc] = str.trigged_ms
    BY <1>1 DEF Results
  <2>3. CASE arg.clear
    BY <1>3, <1>7, <2>1, <2>3
  <2>4. CASE ~arg.clear /\ arg.speed = 0
    BY <1>3, <1>7, <2>1, <2>2, <2>4
  <2>5. CASE ~arg.clear /\ arg.speed > 0
    <3>1. CASE str.status = 0
      BY <1>3, <1>7, <2>1, <2>2, <2>5, <3>1
    <3>2. CASE str.status = 1
      BY <1>3, <1>7, <2>1, <2>5, <3>2
    <3>3. CASE str.status = 2 /\ arg.speed < Limits[pc]
      BY <1>3, <1>7, <2>1, <2>2, <2>5, <3>3
    <3>4. CASE str.status = 2 /\ arg.speed >= Limits[pc]
      BY <1>3, <1>7, <2>1, <2>5, <3>4
    <3> QED  BY <1>2, <3>1, <3>2, <3>3, <3>4 DEF Stopwatch
  <2> QED  BY <1>2, <2>3, <2>4, <2>5
<1> QED  BY <1>1, <1>5, <1>6, <1>9, <1>10

(* One stopwatch of a call keeps the invariant.                            *)
LEMMA ApplyOneInd == IndInv /\ ApplyOne => IndInv'
<1> SUFFICES ASSUME IndInv, ApplyOne PROVE IndInv'
  OBVIOUS
<1> USE DEF IndInv
<1> DEFINE Starts == WasArmed /\ arg.speed > 0 /\ ~arg.clear
<1>1. /\ pc \in Trig /\ Before = seen /\ TypeOK'
      /\ \A i \in Trig : trig_lim_str'[i].status =
             IF i <= pc THEN PassedStatus(i) ELSE WaitingStatus(i)
      /\ \A i \in Trig \ {pc} :
           /\ trig_lim_str'[i] = trig_lim_str[i]
           /\ trigger_ms'[i] = trigger_ms[i]
           /\ startedAt'[i] = startedAt[i]
           /\ closedAt'[i] = closedAt[i]
  BY ApplyOneStep
<1>2. /\ pc \in 1 .. NTrig /\ NTrig \in Nat /\ now \in Nat /\ begunAt \in Nat
      /\ runAt \in Nat /\ MaxSkew \in Nat /\ TickMod \in Nat \ {0}
      /\ \A i \in Trig : i \in 1 .. NTrig /\ startedAt[i] \in Nat
                         /\ closedAt[i] \in Nat
      /\ arg.speed \in Nat /\ arg.clear \in BOOLEAN
  BY <1>1, NTrigAssumption, ClockAssumption DEF TypeOK, Trig
<1>3. /\ tick' = tick /\ now' = now /\ begunAt' = begunAt /\ arg' = arg
      /\ seen' = seen
      /\ pc' = IF pc = NTrig THEN 0 ELSE pc + 1
      /\ runAt' = IF pc = NTrig /\ Starts THEN now ELSE runAt
  BY <1>1 DEF ApplyOne, WasArmed
<1>4. \A i \in Trig : trig_lim_str[i].status = 2 =>
         /\ trig_lim_str[i].trigged_ms = 0 /\ startedAt[i] <= now
         /\ now - startedAt[i] < TickMod =>
               TickSub(tick, trig_lim_str[i].sys_ticks) = now - startedAt[i]
         /\ WasArmed => begunAt <= startedAt[i]
         /\ ~WasArmed => InRun(i)
  BY DEF Running
<1>5. trig_lim_str[pc].status = WaitingStatus(pc)
  BY <1>1, <1>2 DEF Statuses, Waiting
<1>6. ASSUME NEW i \in Trig, trig_lim_str'[i].status = 2
      PROVE  /\ trig_lim_str'[i].trigged_ms = 0 /\ startedAt'[i] <= now
             /\ now - startedAt'[i] < TickMod =>
                  TickSub(tick, trig_lim_str'[i].sys_ticks) = now - startedAt'[i]
             /\ WasArmed => begunAt <= startedAt'[i]
             /\ ~WasArmed => InRun(i) /\ startedAt'[i] = startedAt[i]
  <2>1. CASE trig_lim_str'[i] = trig_lim_str[i] /\ startedAt'[i] = startedAt[i]
    BY <1>4, <1>6, <2>1
  <2>2. CASE /\ trig_lim_str[i].status = 1 /\ i = pc /\ startedAt'[i] = now
             /\ trig_lim_str'[i].sys_ticks = tick
             /\ trig_lim_str'[i].trigged_ms = 0
    <3>1. WasArmed
      BY <1>5, <2>2 DEF WaitingStatus
    <3>2. TickSub(tick, tick) = 0
      BY DEF TickSub, TypeOK
    <3>3. begunAt <= now
      BY DEF Clock
    <3> QED  BY <1>2, <2>2, <3>1, <3>2, <3>3
  <2> QED  BY <1>1, <1>6, <2>1, <2>2, ApplyOneStep
<1>7. \A i \in Trig :
        /\ trigger_ms'[i] = trig_lim_str'[i].trigged_ms
        /\ closedAt'[i] <= now
  BY <1>1, <1>2, ApplyOneStep DEF Results
<1>8. ASSUME NEW i \in Trig, trigger_ms'[i] # 0
      PROVE  /\ InRun(i) /\ startedAt'[i] = startedAt[i]
             /\ runAt <= closedAt'[i]
             /\ closedAt'[i] - startedAt[i] < TickMod =>
                    trigger_ms'[i] = closedAt'[i] - startedAt[i]
             /\ \A j \in Trig :
                  i < j /\ trigger_ms'[j] # 0 => closedAt'[i] <= closedAt'[j]
  <2>1. \A j \in Trig : trigger_ms'[j] # 0 =>
            \/ /\ trigger_ms'[j] = trigger_ms[j] /\ closedAt'[j] = closedAt[j]
               /\ startedAt'[j] = startedAt[j]
            \/ /\ j = pc /\ closedAt'[j] = now /\ startedAt'[j] = startedAt[j]
               /\ trig_lim_str[j].status = 2
               /\ trigger_ms'[j] = TickSub(tick, trig_lim_str[j].sys_ticks)
    BY <1>1, ApplyOneStep
  <2>2. CASE /\ trigger_ms'[i] = trigger_ms[i] /\ closedAt'[i] = closedAt[i]
             /\ startedAt'[i] = startedAt[i]
    <3>1. ASSUME NEW j \in Trig, i < j, trigger_ms'[j] # 0
          PROVE  closedAt'[i] <= closedAt'[j]
      BY <1>2, <1>8, <2>1, <2>2, <3>1 DEF Results
    <3> QED  BY <1>8, <2>2, <3>1 DEF Results
  <2>3. CASE /\ i = pc /\ closedAt'[i] = now /\ startedAt'[i] = startedAt[i]
             /\ trig_lim_str[i].status = 2
             /\ trigger_ms'[i] = TickSub(tick, trig_lim_str[i].sys_ticks)
    <3>1. ~WasArmed /\ i \in Before.open
      BY <1>5, <2>3 DEF WaitingStatus
    <3>2. ASSUME NEW j \in Trig, i < j PROVE trigger_ms'[j] = 0
      <4>1. j \in Before.open
        BY <3>1, <3>2 DEF Statuses
      <4>2. Waiting(j) /\ j # pc
        BY <1>2, <2>3, <3>2 DEF Waiting
      <4>3. trig_lim_str[j].status = 2
        BY <3>1, <4>1, <4>2 DEF Statuses, WaitingStatus
      <4> QED  BY <1>1, <1>4, <4>2, <4>3 DEF Results
    <3>3. runAt <= now
      BY DEF Clock
    <3> QED  BY <1>4, <2>3, <3>1, <3>2, <3>3
  <2> QED  BY <1>8, <2>1, <2>2, <2>3
<1>9. CASE pc # NTrig
  <2>1. Before' = Before /\ (WasArmed' <=> WasArmed) /\ pc' = pc + 1
    BY <1>1, <1>2, <1>3, <1>9 DEF Before, WasArmed
  <2>2. \A i \in Trig : Waiting(i)' <=> ~(i <= pc)
    BY <1>2, <2>1 DEF Waiting
  <2>3. \A i \in Trig : /\ PassedStatus(i)' = PassedStatus(i)
                        /\ WaitingStatus(i)' = WaitingStatus(i)
    BY <1>3, <2>1 DEF PassedStatus, WaitingStatus
  <2>4. Statuses'
    BY <1>1, <2>1, <2>2, <2>3 DEF Statuses
  <2>5. Clock'
    BY <1>2, <1>3, <1>9 DEF Clock
  <2>6. runAt' = runAt
    BY <1>3, <1>9
  <2>7. Running'
    BY <1>3, <1>6, <2>1, <2>6 DEF Running, InRun
  <2>8. Results'
    BY <1>3, <1>7, <1>8, <2>6 DEF Results, InRun
  <2> QED  BY <1>1, <2>4, <2>5, <2>7, <2>8
<1>10. CASE pc = NTrig
  <2>1. pc' = 0 /\ \A i \in Trig : Waiting(i)'
    BY <1>3, <1>10 DEF Waiting
  <2>2. \A i \in Trig : trig_lim_str'[i].status = PassedStatus(i)
    BY <1>1, <1>2, <1>10
  <2>3. /\ Before'.armed = {i \in Trig : PassedStatus(i) = 1}
        /\ Before'.open = {i \in Trig : PassedStatus(i) = 2}
    <3>1. Before' = View'
      BY <2>1 DEF Before
    <3> QED  BY <2>2, <3>1 DEF View
  <2>4. Clock'
    BY <1>2, <1>3, <2>1 DEF Clock
  <2>5. CASE ~arg.clear /\ arg.speed = 0
    <3>1. \A i \in Trig : PassedStatus(i) = 1
      BY <2>5 DEF PassedStatus
    <3>2. Before'.armed = Trig /\ Before'.open = {} /\ WasArmed'
      BY <1>1, <2>3, <3>1 DEF WasArmed
    <3>3. Statuses'
      BY <2>1, <2>2, <3>1, <3>2 DEF Statuses, WaitingStatus
    <3>4. Running'
      BY <2>2, <3>1 DEF Running
    <3>5. runAt' = runAt
      BY <1>3, <2>5
    <3>6. Results'
      BY <1>3, <1>7, <1>8, <3>5 DEF Results, InRun
    <3> QED  BY <1>1, <2>4, <3>3, <3>4, <3>6
  <2>6. CASE arg.clear \/ arg.speed > 0
    <3>1. \A i \in Trig : PassedStatus(i) # 1
      BY <2>6 DEF PassedStatus
    <3>2. Before'.armed = {} /\ ~WasArmed'
      BY <2>3, <3>1 DEF WasArmed
    <3>3. \A i \in Trig : PassedStatus(i) \in {0, 2}
      BY <3>1 DEF PassedStatus
    <3>4. ASSUME NEW i \in Trig, NEW j \in Trig, i < j, PassedStatus(i) = 2
          PROVE  PassedStatus(j) = 2
      <4>1. i \in Before.open => j \in Before.open
        BY <3>4 DEF Statuses
      <4>2. Limits[i] < Limits[j] /\ Limits[i] \in Nat /\ Limits[j] \in Nat
        BY <3>4, LimitsAssumption
      <4>3. ~arg.clear /\ arg.speed # 0
            /\ (WasArmed \/ (i \in Before.open /\ arg.speed < Limits[i]))
        BY <3>4 DEF PassedStatus
      <4>4. WasArmed \/ (j \in Before.open /\ arg.speed < Limits[j])
        BY <1>2, <4>1, <4>2, <4>3
      <4> QED  BY <4>3, <4>4 DEF PassedStatus
    <3>5. Statuses'
      BY <2>1, <2>2, <2>3, <3>2, <3>3, <3>4 DEF Statuses, WaitingStatus
    <3>6. CASE Starts
      <4>1. runAt' = now
        BY <1>3, <1>10, <3>6
      <4>2. \A i \in Trig : PassedStatus(i) = 2
        BY <3>6 DEF PassedStatus
      <4>3. \A i \in Trig : trigger_ms'[i] = 0
        BY <1>6, <1>7, <2>2, <4>2
      <4>4. Results'
        BY <1>3, <1>7, <4>3 DEF Results
      <4>5. now - begunAt <= MaxSkew
        BY <1>2 DEF Clock
      <4>6. \A i \in Trig : startedAt'[i] \in Nat
        BY <1>1 DEF TypeOK
      <4>7. Running'
        BY <1>2, <1>3, <1>6, <3>2, <3>6, <4>1, <4>5, <4>6 DEF Running, InRun
      <4> QED  BY <1>1, <2>4, <3>5, <4>4, <4>7
    <3>7. CASE ~Starts
      <4>1. runAt' = runAt
        BY <1>3, <3>7
      <4>2. Results'
        BY <1>3, <1>7, <1>8, <4>1 DEF Results, InRun
      <4>3. \A i \in Trig : PassedStatus(i) = 2 => ~WasArmed
        BY <1>2, <3>7 DEF PassedStatus
      <4>4. Running'
        BY <1>3, <1>6, <2>2, <3>2, <4>1, <4>3 DEF Running, InRun
      <4> QED  BY <1>1, <2>4, <3>5, <4>2, <4>4
    <3> QED  BY <3>6, <3>7
  <2> QED  BY <1>2, <2>5, <2>6
<1> QED  BY <1>9, <1>10

(* The invariant is about the timers' variables only.                      *)
LEMMA UnchangedInd == IndInv /\ UNCHANGED vars => IndInv'
BY DEF vars, aux, IndInv, TypeOK, Statuses, Clock, Running, Results, InRun,
       Before, View, WasArmed, Waiting, WaitingStatus, PassedStatus

(* A step of the timers, or none, keeps the invariant.                     *)
LEMMA NextInd == IndInv /\ [Next]_vars => IndInv'
<1> SUFFICES ASSUME IndInv, [Next]_vars PROVE IndInv'
  OBVIOUS
<1>1. CASE Sentence
  BY <1>1, SentenceInd
<1>2. CASE ApplyOne
  BY <1>2, ApplyOneInd
<1>3. CASE Tick
  BY <1>3, TickInd
<1>4. CASE UNCHANGED vars
  BY <1>4, UnchangedInd
<1> QED  BY <1>1, <1>2, <1>3, <1>4 DEF Next

(* The inductive invariant holds in every reachable state.                 *)
THEOREM Inductive == Spec => []IndInv
BY InitInd, NextInd, PTL DEF Spec

(* The timers' variables keep their types: in particular a result never    *)
(* leaves the counter's range, whatever wraps.                             *)
THEOREM TypeCorrect == Spec => []TypeOK
<1>1. IndInv => TypeOK
  BY DEF IndInv
<1> QED  BY <1>1, Inductive, PTL

(* Between calls the stopwatches of _trig_lim_str are armed together and   *)
(* close in the order of their limits.                                     *)
THEOREM LockstepHolds == Spec => []Lockstep
<1>1. IndInv => Lockstep
  <2> SUFFICES ASSUME IndInv, pc = 0
               PROVE  \/ \A i \in Trig : trig_lim_str[i].status = 1
                      \/ \A i, j \in Trig :
                           /\ trig_lim_str[i].status \in {0, 2}
                           /\ i < j /\ trig_lim_str[i].status = 2
                                  => trig_lim_str[j].status = 2
    BY DEF Lockstep
  <2>1. \A i \in Trig : trig_lim_str[i].status = WaitingStatus(i)
    BY DEF IndInv, Statuses, Waiting
  <2>2. \A i, j \in Trig : i < j /\ i \in Before.open => j \in Before.open
    BY DEF IndInv, Statuses
  <2> QED  BY <2>1, <2>2 DEF WaitingStatus
<1> QED  BY <1>1, Inductive, PTL

(* What the invariant says of a time on display.                           *)
LEMMA AccurateInd == IndInv => LapAccurate
<1> SUFFICES ASSUME IndInv, NEW i \in Trig, trigger_ms[i] # 0,
                    Duration(i) + MaxSkew < TickMod
             PROVE  /\ runAt <= closedAt[i]
                    /\ trigger_ms[i] - Duration(i) \in 0 .. MaxSkew
  BY DEF LapAccurate
<1>1. /\ InRun(i) /\ runAt <= closedAt[i]
      /\ closedAt[i] - startedAt[i] < TickMod =>
             trigger_ms[i] = closedAt[i] - startedAt[i]
  BY DEF IndInv, Results
<1>2. /\ runAt \in Nat /\ closedAt[i] \in Nat /\ startedAt[i] \in Nat
      /\ MaxSkew \in Nat /\ TickMod \in Nat
  BY ClockAssumption DEF IndInv, TypeOK
<1> QED  BY <1>1, <1>2 DEF Duration, InRun

(* A time on display is the true duration of a lap of the current run, off *)
(* by at most the ticks that pass inside a call.                           *)
THEOREM LapAccurateHolds == Spec => []LapAccurate
BY AccurateInd, Inductive, PTL

(* The times of one run are ordered like their limits, up to that skew.    *)
THEOREM LapsOrderedHolds == Spec => []LapsOrdered
<1>1. IndInv => LapsOrdered
  <2> SUFFICES ASSUME IndInv, NEW i \in Trig, NEW j \in Trig, i < j,
                      trigger_ms[j] # 0, Duration(j) + MaxSkew < TickMod
               PROVE  trigger_ms[i] <= trigger_ms[j] + MaxSkew
    BY DEF LapsOrdered
  <2>1. /\ runAt \in Nat /\ MaxSkew \in Nat /\ TickMod \in Nat
        /\ closedAt[i] \in Nat /\ startedAt[i] \in Nat
        /\ closedAt[j] \in Nat /\ startedAt[j] \in Nat
        /\ trigger_ms[i] \in Nat /\ trigger_ms[j] \in Nat
    BY ClockAssumption DEF IndInv, TypeOK
  <2>2. CASE trigger_ms[i] = 0
    BY <2>1, <2>2
  <2>3. CASE trigger_ms[i] # 0
    <3>1. /\ InRun(i) /\ InRun(j) /\ closedAt[i] <= closedAt[j]
          /\ closedAt[i] - startedAt[i] < TickMod =>
                 trigger_ms[i] = closedAt[i] - startedAt[i]
          /\ closedAt[j] - startedAt[j] < TickMod =>
                 trigger_ms[j] = closedAt[j] - startedAt[j]
      BY <2>3 DEF IndInv, Results
    <3> QED  BY <2>1, <3>1 DEF Duration, InRun
  <2> QED  BY <2>2, <2>3
<1> QED  BY <1>1, Inductive, PTL

(* A published time is blanked before another one replaces it.             *)
THEOREM ResultKept == Spec => ResultIsKept
<1>1. ASSUME IndInv, [Next]_vars, NEW i \in Trig, trigger_ms[i] # 0
      PROVE  trigger_ms'[i] \in {0, trigger_ms[i]}
  <2>1. CASE ApplyOne
    <3>1. trig_lim_str[i].status # 2
      BY <1>1 DEF IndInv, Running, Results
    <3> QED  BY <1>1, <2>1, <3>1, ApplyOneStep
  <2>2. CASE Sentence \/ Tick \/ UNCHANGED vars
    BY <2>2 DEF Sentence, check_and_apply_trigers, Tick, vars
  <2> QED  BY <1>1, <2>1, <2>2 DEF Next
<1>2. IndInv /\ [Next]_vars =>
        [\A i \in Trig : trigger_ms[i] # 0 =>
             trigger_ms'[i] \in {0, trigger_ms[i]}]_vars
  BY <1>1
<1> QED  BY <1>2, Inductive, PTL DEF Spec, ResultIsKept
-----------------------------------------------------------------------------
(***************************************************************************)
(* The timers implement LapTimer.  A call is one step of the stopwatch     *)
(* with laps, taken when the last stopwatch has been applied; until then   *)
(* the observer sees what was there before.  So an invariant has to say    *)
(* what the call has made of the results so far.                           *)
(***************************************************************************)

\* Ticks are times modulo the counter's period, also in a run that is longer.
Moduli ==
    /\ tick = now % TickMod
    /\ \A i \in Trig : trig_lim_str[i].status = 2 =>
           trig_lim_str[i].sys_ticks = startedAt[i] % TickMod

\* The laps this call closes.
Closes(i) ==
    ~arg.clear /\ arg.speed > 0 /\ i \in seen.open /\ arg.speed >= Limits[i]

Blanks == arg.clear \/ (arg.speed > 0 /\ seen.armed # {})

PassedLap(i) ==
    /\ Blanks => trigger_ms[i] = 0
    /\ ~Blanks /\ ~Closes(i) => trigger_ms[i] = seen.lap[i]
    /\ ~Blanks /\ Closes(i) =>
           /\ begunAt <= closedAt[i] /\ closedAt[i] <= now /\ InRun(i)
           /\ trigger_ms[i] = (closedAt[i] - startedAt[i]) % TickMod

CallLaps ==
    pc # 0 =>
        /\ arg.clear \/ arg.speed \in {x \div 1000 : x \in Reports}
        /\ \A i \in Trig :
             IF i < pc THEN PassedLap(i) ELSE trigger_ms[i] = seen.lap[i]

LapInv == Moduli /\ CallLaps

(* Remainders of a positive divisor.                                      *)
LEMMA ModUnique ==
    ASSUME NEW M \in Nat \ {0}, NEW n \in Int, NEW q \in Int,
           NEW r \in 0 .. M - 1, n = (q * M) + r
    PROVE  n % M = r
OBVIOUS

(* A number is its quotient times the divisor plus its remainder.          *)
LEMMA ModDef ==
    ASSUME NEW M \in Nat \ {0}, NEW n \in Int
    PROVE  /\ n % M \in 0 .. M - 1 /\ n \div M \in Int
           /\ n = ((n \div M) * M) + (n % M)
OBVIOUS

(* A tick counter that wraps is the time modulo its period.                *)
LEMMA ModStep ==
    ASSUME NEW M \in Nat \ {0}, NEW n \in Int
    PROVE  (n + 1) % M = IF n % M = M - 1 THEN 0 ELSE (n % M) + 1
<1> DEFINE q == n \div M
           r == n % M
           m == n + 1
           t == IF r = M - 1 THEN 0 ELSE r + 1
           u == IF r = M - 1 THEN q + 1 ELSE q
<1>1. q \in Int /\ r \in 0 .. M - 1 /\ n = (q * M) + r
  BY ModDef
<1> HIDE DEF q, r
<1>2. m \in Int /\ u \in Int /\ t \in 0 .. M - 1 /\ m = (u * M) + t
  BY <1>1
<1> HIDE DEF m, t, u
<1>3. m % M = t
  BY <1>2, ModUnique
<1>. QED  BY <1>3 DEF m, t, r

(* Unsigned subtraction of two readings is their distance modulo it.       *)
LEMMA ModSub ==
    ASSUME NEW M \in Nat \ {0}, NEW a \in Int, NEW b \in Int
    PROVE  (a - b) % M = IF a % M >= b % M THEN (a % M) - (b % M)
                                           ELSE (a % M) - (b % M) + M
<1> DEFINE p == a \div M
           r == a % M
           q == b \div M
           s == b % M
           m == a - b
           t == IF r >= s THEN r - s ELSE r - s + M
           u == IF r >= s THEN p - q ELSE p - q - 1
<1>1. p \in Int /\ r \in 0 .. M - 1 /\ a = (p * M) + r
  BY ModDef
<1>2. q \in Int /\ s \in 0 .. M - 1 /\ b = (q * M) + s
  BY ModDef
<1> HIDE DEF p, r, q, s
<1>3. m \in Int /\ u \in Int /\ t \in 0 .. M - 1 /\ m = (u * M) + t
  BY <1>1, <1>2
<1> HIDE DEF m, t, u
<1>4. m % M = t
  BY <1>3, ModUnique
<1>. QED  BY <1>4 DEF m, t, r, s
(* What a call makes of the result of one stopwatch, by its arguments.     *)
LEMMA ApplyOneLap ==
    ASSUME IndInv, ApplyOne
    PROVE  /\ Blanks => trigger_ms'[pc] = 0
           /\ ~Blanks /\ ~Closes(pc) => trigger_ms'[pc] = trigger_ms[pc]
           /\ ~Blanks /\ Closes(pc) =>
                  /\ trig_lim_str[pc].status = 2
                  /\ trigger_ms'[pc] = TickSub(tick, trig_lim_str[pc].sys_ticks)
                  /\ startedAt'[pc] = startedAt[pc] /\ closedAt'[pc] = now
<1> DEFINE str == trig_lim_str[pc]
           r == trig_one_limit(str, arg.speed, Limits[pc], arg.clear)
<1>1. pc \in Trig /\ Before = seen
  BY ApplyOneStep
<1>2. /\ str \in Stopwatch /\ arg.speed \in Nat /\ Limits[pc] \in Nat \ {0}
      /\ arg.clear \in BOOLEAN /\ tick \in 0 .. TickMod - 1
  BY <1>1, LimitsAssumption DEF IndInv, TypeOK
<1>3. /\ r \in Stopwatch
      /\ arg.clear => r.status = 0 /\ r.trigged_ms = 0
      /\ ~arg.clear /\ arg.speed = 0 =>
             r.status = 1 /\ r.trigged_ms = str.trigged_ms
      /\ ~arg.clear /\ arg.speed > 0 /\ str.status = 0 => r = str
      /\ ~arg.clear /\ arg.speed > 0 /\ str.status = 1 =>
             r = [sys_ticks |-> tick, trigged_ms |-> 0, status |-> 2]
      /\ ~arg.clear /\ arg.speed > 0 /\ str.status = 2
             /\ arg.speed < Limits[pc] => r = str
      /\ ~arg.clear /\ arg.speed > 0 /\ str.status = 2
             /\ arg.speed >= Limits[pc] =>
             r.status = 0 /\ r.trigged_ms = TickSub(tick, str.sys_ticks)
  BY <1>2, OneLimit, Zenon
<1>4. /\ trigger_ms'[pc] = r.trigged_ms
      /\ startedAt'[pc] = IF str.status = 1 /\ r.status = 2
                          THEN now ELSE startedAt[pc]
      /\ closedAt'[pc] = IF str.status = 2 /\ r.status = 0
                         THEN now ELSE closedAt[pc]
  <2>1. /\ trigger_ms' = [trigger_ms EXCEPT ![pc] = r.trigged_ms]
        /\ startedAt' = IF str.status = 1 /\ r.status = 2
                        THEN [startedAt EXCEPT ![pc] = now] ELSE startedAt
        /\ closedAt' = IF str.status = 2 /\ r.status = 0
                       THEN [closedAt EXCEPT ![pc] = now] ELSE closedAt
    BY DEF ApplyOne
  <2> HIDE DEF r
  <2>. QED  BY <1>1, <2>1 DEF IndInv, TypeOK
<1>5. trigger_ms[pc] = str.trigged_ms
  BY <1>1 DEF IndInv, Results
<1>6. str.status = IF seen.armed # {} THEN 1
                   ELSE IF pc \in seen.open THEN 2 ELSE 0
  <2>1. Waiting(pc)
    BY <1>1 DEF Waiting, Trig
  <2>2. str.status = WaitingStatus(pc)
    BY <1>1, <2>1 DEF IndInv, Statuses
  <2>. QED  BY <1>1, <2>2 DEF WaitingStatus, WasArmed
<1>7. seen.armed # {} => seen.open = {}
  BY <1>1 DEF IndInv, Statuses
<1> HIDE DEF r, str
<1>8. CASE arg.clear
  BY <1>3, <1>4, <1>8 DEF Blanks
<1>9. CASE ~arg.clear /\ arg.speed = 0
  BY <1>3, <1>4, <1>5, <1>9 DEF Blanks, Closes
<1>10. CASE ~arg.clear /\ arg.speed > 0
  <2>1. CASE seen.armed # {}
    BY <1>3, <1>4, <1>6, <1>10, <2>1 DEF Blanks
  <2>2. CASE seen.armed = {} /\ pc \notin seen.open
    BY <1>3, <1>4, <1>5, <1>6, <1>10, <2>2 DEF Blanks, Closes
  <2>3. CASE seen.armed = {} /\ pc \in seen.open /\ arg.speed < Limits[pc]
    BY <1>2, <1>3, <1>4, <1>5, <1>6, <1>10, <2>3 DEF Blanks, Closes
  <2>4. CASE seen.armed = {} /\ pc \in seen.open /\ arg.speed >= Limits[pc]
    BY <1>3, <1>4, <1>6, <1>10, <2>4 DEF Blanks, Closes, str
  <2>. QED  BY <1>2, <2>1, <2>2, <2>3, <2>4
<1>. QED  BY <1>2, <1>8, <1>9, <1>10

(* A running stopwatch reads the time since its start, modulo the period.  *)
LEMMA RunningReads ==
    ASSUME IndInv, Moduli, NEW i \in Trig, trig_lim_str[i].status = 2
    PROVE  TickSub(tick, trig_lim_str[i].sys_ticks)
               = (now - startedAt[i]) % TickMod
<1>1. now \in Int /\ startedAt[i] \in Int /\ TickMod \in Nat \ {0}
  BY ClockAssumption DEF IndInv, TypeOK
<1>2. tick = now % TickMod /\ trig_lim_str[i].sys_ticks = startedAt[i] % TickMod
  BY DEF Moduli
<1>. QED  BY <1>1, <1>2, ModSub DEF TickSub

(* What one stopwatch of a call leaves behind in it and in those before.   *)
LEMMA LapPassed ==
    ASSUME IndInv, LapInv, ApplyOne, NEW i \in Trig
    PROVE  /\ i <= pc /\ Blanks => trigger_ms'[i] = 0
           /\ i <= pc /\ ~Blanks /\ ~Closes(i) => trigger_ms'[i] = seen.lap[i]
           /\ i <= pc /\ ~Blanks /\ Closes(i) =>
                  /\ begunAt <= closedAt'[i] /\ closedAt'[i] <= now
                  /\ startedAt'[i] <= runAt
                  /\ runAt <= startedAt'[i] + MaxSkew
                  /\ trigger_ms'[i]
                         = (closedAt'[i] - startedAt'[i]) % TickMod
           /\ i > pc => trigger_ms'[i] = seen.lap[i]
<1>0. /\ pc \in Trig /\ pc # 0 /\ pc \in Int /\ i \in Int
      /\ now \in Nat /\ begunAt \in Nat
  BY DEF ApplyOne, IndInv, TypeOK, Trig
<1>1. CASE i # pc
  <2>1. /\ trigger_ms'[i] = trigger_ms[i] /\ startedAt'[i] = startedAt[i]
        /\ closedAt'[i] = closedAt[i]
    BY <1>1, ApplyOneStep
  <2>2. CASE i < pc
    <3>1. PassedLap(i)
      BY <1>0, <2>2 DEF LapInv, CallLaps
    <3>. QED  BY <1>0, <2>1, <2>2, <3>1 DEF PassedLap, InRun
  <2>3. CASE i > pc
    <3>1. trigger_ms[i] = seen.lap[i]
      BY <1>0, <2>3 DEF LapInv, CallLaps
    <3>. QED  BY <1>0, <2>1, <2>3, <3>1
  <2>. QED  BY <1>0, <1>1, <2>2, <2>3
<1>2. CASE i = pc
  <2>0. trigger_ms[i] = seen.lap[i]
    BY <1>0, <1>2 DEF LapInv, CallLaps
  <2>1. CASE Blanks
    BY <1>0, <1>2, <2>1, ApplyOneLap
  <2>2. CASE ~Blanks /\ ~Closes(i)
    BY <1>0, <1>2, <2>0, <2>2, ApplyOneLap
  <2>3. CASE ~Blanks /\ Closes(i)
    <3>1. /\ trig_lim_str[i].status = 2
          /\ trigger_ms'[i] = TickSub(tick, trig_lim_str[i].sys_ticks)
          /\ startedAt'[i] = startedAt[i] /\ closedAt'[i] = now
      BY <1>2, <2>3, ApplyOneLap
    <3>2. trigger_ms'[i] = (now - startedAt[i]) % TickMod
      BY <3>1, RunningReads DEF LapInv
    <3>3. begunAt <= now
      BY DEF IndInv, Clock
    <3>4. Before = seen /\ seen.armed = {}
      BY <2>3, ApplyOneStep DEF Blanks, Closes
    <3>5. InRun(i)
      BY <3>1, <3>4 DEF IndInv, Running, WasArmed
    <3>. QED  BY <1>0, <1>2, <2>3, <3>1, <3>2, <3>3, <3>5 DEF InRun
  <2>. QED  BY <2>1, <2>2, <2>3
<1>. QED  BY <1>1, <1>2

(* Every step of the timers keeps the account of the call.                 *)
LEMMA LapStep ==
    ASSUME IndInv, LapInv, [Next]_vars PROVE LapInv'
<1> USE DEF LapInv
<1>0. /\ now \in Nat /\ TickMod \in Nat \ {0} /\ pc \in 0 .. NTrig
      /\ NTrig \in Nat /\ begunAt \in Nat
  BY ClockAssumption, NTrigAssumption DEF IndInv, TypeOK
<1>1. CASE Tick
  <2>1. UNCHANGED <<trig_lim_str, trigger_ms, pc, arg, aux>>
    BY <1>1 DEF Tick
  <2>2. tick' = now' % TickMod
    <3>1. now' = now + 1
          /\ tick' = IF now % TickMod = TickMod - 1 THEN 0
                     ELSE (now % TickMod) + 1
      BY <1>1 DEF Tick, Moduli
    <3>2. now \in Int
      BY <1>0
    <3>3. (now + 1) % TickMod = IF now % TickMod = TickMod - 1 THEN 0
                                ELSE (now % TickMod) + 1
      BY <1>0, <3>2, ModStep
    <3>. QED  BY <3>1, <3>3
  <2>3. Moduli'
    BY <2>1, <2>2 DEF Moduli, aux
  <2>4. now <= now'
    BY <1>0, <1>1 DEF Tick
  <2>5. \A i \in Trig : PassedLap(i) => PassedLap(i)'
    <3>1. \A i \in Trig : closedAt[i] \in Nat
      BY DEF IndInv, TypeOK
    <3>2. now' \in Nat
      BY <1>0, <1>1 DEF Tick
    <3>. QED
      BY <1>0, <2>1, <2>4, <3>1, <3>2 DEF PassedLap, Blanks, Closes, InRun, aux
  <2>6. CallLaps'
    BY <2>1, <2>5 DEF CallLaps, aux
  <2>. QED  BY <2>3, <2>6
<1>2. CASE Sentence
  <2>1. PICK x, c : /\ check_and_apply_trigers(x, c)
                    /\ c \/ x \in Reports
    BY <1>2 DEF Sentence
  <2>2. Moduli'
    BY <2>1 DEF check_and_apply_trigers, Moduli
  <2>3. pc' = 1 /\ seen'.lap = trigger_ms' /\ arg'.clear = c
        /\ arg'.speed = x \div 1000
    BY <2>1 DEF check_and_apply_trigers, View
  <2>4. \A i \in Trig : ~(i < pc')
    BY <2>3 DEF Trig
  <2>5. CallLaps'
    BY <2>1, <2>3, <2>4 DEF CallLaps
  <2>. QED  BY <2>2, <2>5
<1>3. CASE ApplyOne
  <2>1. /\ pc \in Trig /\ pc # 0 /\ pc \in 1 .. NTrig
        /\ pc' = IF pc = NTrig THEN 0 ELSE pc + 1
        /\ UNCHANGED <<tick, now, begunAt, arg, seen>>
    BY <1>0, <1>3 DEF ApplyOne, Trig
  <2>2. Moduli'
    BY <1>3, <2>1, ApplyOneStep DEF Moduli
  <2>3. CASE pc = NTrig
    BY <2>1, <2>2, <2>3 DEF CallLaps
  <2>4. CASE pc # NTrig
    <3>1. runAt' = runAt /\ pc' = pc + 1
      BY <1>3, <2>1, <2>4 DEF ApplyOne
    <3>2. ASSUME NEW i \in Trig
          PROVE  IF i < pc' THEN PassedLap(i)' ELSE trigger_ms'[i] = seen'.lap[i]
      <4>1. (i < pc' <=> i <= pc) /\ (~(i < pc') <=> i > pc)
        BY <2>1, <3>1 DEF Trig
      <4>2. CASE i <= pc
        <5>1. (Blanks' <=> Blanks) /\ (Closes(i)' <=> Closes(i))
          BY <2>1 DEF Blanks, Closes
        <5>. QED
          BY <1>3, <2>1, <3>1, <4>1, <4>2, <5>1, LapPassed DEF PassedLap, InRun
      <4>3. CASE i > pc
        BY <1>3, <2>1, <4>1, <4>3, LapPassed
      <4>. QED  BY <2>1, <4>2, <4>3 DEF Trig
    <3>. QED  BY <2>1, <2>2, <3>2 DEF CallLaps
  <2>. QED  BY <2>3, <2>4
<1>4. CASE UNCHANGED vars
  BY <1>4 DEF vars, aux, Moduli, CallLaps, PassedLap, Blanks, Closes, InRun
<1>. QED  BY <1>1, <1>2, <1>3, <1>4 DEF Next

(* The timers start with no lap and no call.                               *)
LEMMA LapInit == Init => LapInv
<1> SUFFICES ASSUME Init PROVE LapInv
  OBVIOUS
<1>1. 0 % TickMod = 0
  <2>1. 0 \in Int /\ 0 \in 0 .. TickMod - 1 /\ 0 = (0 * TickMod) + 0
    BY ClockAssumption
  <2>. QED  BY <2>1, ClockAssumption, ModUnique
<1>2. Moduli
  BY <1>1 DEF Init, Moduli
<1>. QED  BY <1>2 DEF Init, LapInv, CallLaps

(* Timers and the account of the call, together.                           *)
THEOREM LapInductive == Spec => [](IndInv /\ LapInv)
<1>1. Init => IndInv /\ LapInv
  BY InitInd, LapInit
<1>2. IndInv /\ LapInv /\ [Next]_vars => (IndInv /\ LapInv)'
  BY NextInd, LapStep
<1>. QED  BY <1>1, <1>2, PTL DEF Spec

(* Until the last stopwatch has been applied the observer's view stands.   *)
LEMMA InsideStutters ==
    ASSUME IndInv, ApplyOne, pc # NTrig PROVE UNCHANGED Lap!vars
<1>1. /\ pc \in 1 .. NTrig /\ pc' = pc + 1 /\ runAt' = runAt /\ now' = now
      /\ seen' = seen /\ NTrig \in Nat
  BY NTrigAssumption DEF ApplyOne, Trig
<1>2. Before = seen /\ Before' = seen'
  BY <1>1 DEF Before
<1>. QED  BY <1>1, <1>2 DEF Lap!vars, WasArmed

(* What the observer sees when the last stopwatch has been applied.        *)
LEMMA CallReturns ==
    ASSUME IndInv, LapInv, ApplyOne, pc = NTrig
    PROVE  /\ Before = seen /\ Before' = View'
           /\ arg.clear => WasArmed' = FALSE /\ Before'.open = {}
           /\ ~arg.clear /\ arg.speed = 0 =>
                  WasArmed' = TRUE /\ Before'.open = {}
           /\ ~arg.clear /\ arg.speed > 0 =>
                  /\ WasArmed' = FALSE
                  /\ Before'.open = IF WasArmed THEN Trig
                        ELSE {i \in Before.open : arg.speed < Limits[i]}
           /\ Before'.lap = trigger_ms' /\ now' = now
<1>0. /\ pc \in Trig /\ pc' = 0 /\ UNCHANGED <<arg, seen, now>>
      /\ arg.speed \in Nat /\ NTrig \in Trig /\ arg.clear \in BOOLEAN
  BY DEF ApplyOne, IndInv, TypeOK
<1>1. Before = seen /\ Before' = View'
  BY <1>0 DEF Before, Trig
<1>2. \A i \in Trig : trig_lim_str'[i].status = PassedStatus(i)
  BY <1>0, NTrigAssumption, ApplyOneStep DEF Trig
<1>3. /\ View'.armed = {i \in Trig : PassedStatus(i) = 1}
      /\ View'.open = {i \in Trig : PassedStatus(i) = 2}
      /\ View'.lap = trigger_ms'
  BY <1>2 DEF View
<1>4. WasArmed' <=> View'.armed # {}
  BY <1>1 DEF WasArmed
<1>5. Before.open \subseteq Trig
  BY <1>1 DEF IndInv, TypeOK
<1>6. CASE arg.clear
  <2>1. \A i \in Trig : PassedStatus(i) = 0
    BY <1>6 DEF PassedStatus
  <2>. QED  BY <1>0, <1>1, <1>3, <1>4, <1>6, <2>1
<1>7. CASE ~arg.clear /\ arg.speed = 0
  <2>1. \A i \in Trig : PassedStatus(i) = 1
    BY <1>7 DEF PassedStatus
  <2>. QED  BY <1>0, <1>1, <1>3, <1>4, <1>7, <2>1
<1>8. CASE ~arg.clear /\ arg.speed > 0
  <2>1. \A i \in Trig : PassedStatus(i) =
          IF WasArmed \/ (i \in Before.open /\ arg.speed < Limits[i])
          THEN 2 ELSE 0
    BY <1>0, <1>8 DEF PassedStatus
  <2>2. View'.armed = {}
    BY <1>3, <2>1
  <2>3. View'.open = IF WasArmed THEN Trig
                     ELSE {i \in Before.open : arg.speed < Limits[i]}
    BY <1>3, <1>5, <2>1
  <2>. QED  BY <1>0, <1>1, <1>3, <1>4, <1>8, <2>2, <2>3
<1>9. arg.speed = 0 \/ arg.speed > 0
  BY <1>0
<1>. QED  BY <1>0, <1>1, <1>3, <1>6, <1>7, <1>8, <1>9

(* A lap the call closed reads the time since the run's start, off by no   *)
(* more than the ticks of two calls: the starting one and this one.        *)
LEMMA ClosedReads ==
    ASSUME IndInv, LapInv, ApplyOne, pc = NTrig, NEW i \in Trig,
           ~Blanks, Closes(i)
    PROVE  trigger_ms'[i] \in Lap!Readings
<1>1. /\ begunAt <= closedAt'[i] /\ closedAt'[i] <= now
      /\ startedAt'[i] <= runAt /\ runAt <= startedAt'[i] + MaxSkew
      /\ trigger_ms'[i] = (closedAt'[i] - startedAt'[i]) % TickMod
  <2>1. i <= pc
    BY NTrigAssumption DEF Trig
  <2>. QED  BY <2>1, LapPassed
<1>2. /\ closedAt'[i] \in Nat /\ startedAt'[i] \in Nat
      /\ now \in Nat /\ runAt \in Nat /\ begunAt \in Nat /\ MaxSkew \in Nat
      /\ now - begunAt <= MaxSkew
  <2>1. TypeOK' /\ pc # 0
    BY ApplyOneStep DEF Trig
  <2>. QED  BY <2>1, ClockAssumption DEF IndInv, TypeOK, Clock
<1> DEFINE d == (closedAt'[i] - now) + (runAt - startedAt'[i])
<1>3. d \in -MaxSkew .. MaxSkew /\ now - runAt + d = closedAt'[i] - startedAt'[i]
  BY <1>1, <1>2
<1> HIDE DEF d
<1>4. trigger_ms'[i] = (now - runAt + d) % TickMod
  BY <1>1, <1>3
<1>. QED  BY <1>3, <1>4 DEF Lap!Readings

(* The return of a call is one step of the stopwatch with laps.            *)
LEMMA ReturnIsStep ==
    ASSUME IndInv, LapInv, ApplyOne, pc = NTrig PROVE Lap!Next
<1>0. /\ pc \in Trig /\ pc # 0 /\ arg.speed \in Nat /\ arg.clear \in BOOLEAN
      /\ \A i \in Trig : i <= pc
      /\ trigger_ms' \in [Trig -> 0 .. TickMod - 1]
      /\ seen.lap \in [Trig -> 0 .. TickMod - 1]
  <2>1. pc \in Trig /\ TypeOK' /\ TypeOK
    BY ApplyOneStep DEF IndInv
  <2>2. trigger_ms' \in [Trig -> 0 .. TickMod - 1]
    BY <2>1 DEF TypeOK
  <2>3. /\ arg.speed \in Nat /\ arg.clear \in BOOLEAN
        /\ seen.lap \in [Trig -> 0 .. TickMod - 1]
    BY <2>1 DEF TypeOK
  <2>4. pc # 0 /\ \A i \in Trig : i <= pc
    BY <2>1, NTrigAssumption DEF Trig
  <2>. QED  BY <2>1, <2>2, <2>3, <2>4
<1>1. /\ Before = seen /\ Before'.lap = trigger_ms' /\ now' = now
  BY CallReturns
<1>2. WasArmed <=> seen.armed # {}
  BY <1>1 DEF WasArmed
<1>3. Blanks => trigger_ms' = Lap!NoLap
  BY <1>0, LapPassed DEF Lap!NoLap
<1>4. arg.clear \/ arg.speed \in {x \div 1000 : x \in Reports}
  BY <1>0 DEF LapInv, CallLaps
<1>5. CASE arg.clear
  <2>1. runAt' = runAt
    BY <1>5 DEF ApplyOne
  <2>2. Lap!LoseFix
    BY <1>1, <1>3, <1>5, <2>1, CallReturns DEF Lap!LoseFix, Blanks
  <2>. QED  BY <2>2 DEF Lap!Next
<1>6. CASE ~arg.clear /\ arg.speed = 0
  <2>1. runAt' = runAt
    BY <1>6 DEF ApplyOne
  <2>2. trigger_ms' = seen.lap
    <3>1. \A i \in Trig : trigger_ms'[i] = seen.lap[i]
      BY <1>0, <1>6, LapPassed DEF Blanks, Closes
    <3>. QED  BY <1>0, <3>1
  <2>3. Lap!Stand
    BY <1>1, <1>6, <2>1, <2>2, CallReturns DEF Lap!Stand
  <2>. QED  BY <2>3 DEF Lap!Next
<1>7. CASE ~arg.clear /\ arg.speed > 0 /\ WasArmed
  <2>1. runAt' = now
    BY <1>2, <1>7 DEF ApplyOne
  <2>2. Lap!Start(arg.speed)
    BY <1>1, <1>2, <1>3, <1>7, <2>1, CallReturns DEF Lap!Start, Blanks
  <2>. QED  BY <1>4, <1>7, <2>2 DEF Lap!Next
<1>8. CASE ~arg.clear /\ arg.speed > 0 /\ ~WasArmed
  <2>1. runAt' = runAt /\ ~Blanks
    BY <1>2, <1>8 DEF ApplyOne, Blanks
  <2>2. /\ WasArmed' = FALSE
        /\ Before'.open = {i \in Before.open : arg.speed < Limits[i]}
    BY <1>8, CallReturns
  <2>3. \A i \in Trig : i \in Before.open \ Before'.open <=> Closes(i)
    BY <1>0, <1>1, <1>8, <2>2, LimitsAssumption DEF Closes
  <2>4. Before.open \subseteq Trig
    BY <1>1 DEF IndInv, TypeOK
  <2>5. \A i \in Before.open \ Before'.open : trigger_ms'[i] \in Lap!Readings
    BY <2>1, <2>3, <2>4, ClosedReads
  <2>6. \A i \in Trig : trigger_ms'[i] =
          IF i \in Before.open \ Before'.open THEN trigger_ms'[i] ELSE Before.lap[i]
    BY <1>0, <1>1, <2>1, <2>3, LapPassed
  <2>7. Lap!Cross(arg.speed)
    <3>1. Before'.lap = [i \in Trig |->
            IF i \in Before.open \ Before'.open THEN Before'.lap[i]
                                               ELSE Before.lap[i]]
      BY <1>0, <1>1, <2>6
    <3>2. \A i \in Before.open \ Before'.open : Before'.lap[i] \in Lap!Readings
      BY <1>1, <2>5
    <3>3. UNCHANGED <<now, WasArmed, runAt>>
      BY <1>1, <1>8, <2>1, <2>2 DEF WasArmed
    <3>4. ~WasArmed /\ arg.speed > 0
      BY <1>8
    <3>. QED  BY <2>2, <3>1, <3>2, <3>3, <3>4, Zenon DEF Lap!Cross
  <2>. QED  BY <1>4, <1>8, <2>7 DEF Lap!Next
<1>. QED  BY <1>0, <1>5, <1>6, <1>7, <1>8

(* Every step of the timers is a step of the stopwatch with laps or none.  *)
LEMMA LapSimulation ==
    ASSUME IndInv, LapInv, [Next]_vars PROVE [Lap!Next]_(Lap!vars)
<1>1. CASE Tick
  <2>1. UNCHANGED <<trig_lim_str, trigger_ms, pc, seen, runAt>> /\ now' = now + 1
    BY <1>1 DEF Tick, aux
  <2>2. Before' = Before /\ (WasArmed' <=> WasArmed)
    BY <2>1 DEF Before, View, WasArmed
  <2>3. Lap!Advance
    BY <2>1, <2>2 DEF Lap!Advance, WasArmed
  <2>. QED  BY <2>3 DEF Lap!Next
<1>2. CASE Sentence
  <2>1. pc = 0 /\ pc' = 1 /\ seen' = View /\ UNCHANGED <<now, runAt>>
    BY <1>2 DEF Sentence, check_and_apply_trigers
  <2>2. Before' = Before
    BY <2>1 DEF Before
  <2>. QED  BY <2>1, <2>2 DEF Lap!vars, WasArmed
<1>3. CASE ApplyOne
  BY <1>3, InsideStutters, ReturnIsStep
<1>4. CASE UNCHANGED vars
  BY <1>4 DEF vars, aux, Before, View, WasArmed, Lap!vars
<1>. QED  BY <1>1, <1>2, <1>3, <1>4 DEF Next

(* The four stopwatches of _trig_lim_str, each with its own status and its *)
(* own reading of the tick counter, implement one stopwatch with laps.     *)
THEOREM ImplementsLapTimer == Spec => LapTimerSpec
<1>1. Init => Lap!Init
  <2> SUFFICES ASSUME Init PROVE Lap!Init
    OBVIOUS
  <2>1. /\ Before = View /\ now = 0 /\ runAt = 0
        /\ \A i \in Trig : trig_lim_str[i].status = 0
        /\ trigger_ms = [i \in Trig |-> 0]
    BY DEF Init, Before
  <2>2. Before.armed = {} /\ Before.open = {} /\ Before.lap = [i \in Trig |-> 0]
    BY <2>1 DEF View
  <2>. QED  BY <2>1, <2>2 DEF Lap!Init, Lap!NoLap, WasArmed
<1>2. IndInv /\ LapInv /\ [Next]_vars => [Lap!Next]_(Lap!vars)
  BY LapSimulation
<1>. QED  BY <1>1, <1>2, LapInductive, PTL DEF Spec, LapTimerSpec, Lap!Spec

=============================================================================
