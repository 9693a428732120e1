--------------------------- MODULE SpeedMeterProofs ---------------------------
(***************************************************************************)
(* The running firmware, for any number of stopwatches, any frames, any    *)
(* integer width and any number of sentences and resets: what the panel    *)
(* shows was published while its picture was made, nothing of it survives  *)
(* a lost fix or a reset, and the timers keep their own invariant.         *)
(***************************************************************************)
EXTENDS SpeedMeter, SpeedTriggersProofs

MeterType ==
    /\ gps_pc \in {"none", "wait", "speed", "mul", "div", "apply", "laps"}
    /\ lcd_pc \in {"none", "init"} \cup Loop
    /\ ext_speed \in Nat /\ gps_valid \in BOOLEAN
    /\ frame \in Frames \cup {NoFrame}
    /\ lcd_i \in Trig /\ speed_triggers \in [Trig -> Nat]

PictureType ==
    [drawn : BOOLEAN, speed : Int, laps : [Trig -> Int], boot : Int]

Pictures == resets \in Nat /\ buffer \in PictureType /\ panel \in PictureType

\* How far the gps task is with a frame, and what that says of what it
\* shares: the speed is half converted only while there is a fix.
InCall == (gps_pc = "laps") <=> (pc # 0)
Erased(i) == trigger_ms[i] = 0 /\ trig_lim_str[i].status = 0

NoFix ==
    /\ gps_pc = "none" => ~gps_valid
    /\ gps_pc = "speed" => frame.valid = gps_valid
    /\ gps_pc \in {"mul", "div"} => gps_valid
    /\ gps_pc \notin {"speed", "mul", "div"} /\ ~gps_valid => ext_speed = 0
    /\ gps_pc = "laps" => arg.clear = ~gps_valid
    /\ gps_pc = "laps" /\ ~gps_valid => \A i \in Trig : i < pc => Erased(i)
    /\ gps_pc \in {"none", "wait"} /\ ~gps_valid => \A i \in Trig : Erased(i)

\* What is in the frame buffer belongs to this life of the program.
Life == buffer.boot = resets /\ PanelOfThisLife

\* Once a picture is begun, what can be seen of the gps task is recorded.
Recorded == lcd_pc \in Loop \ {"clear"} /\ GpsBlocked => Published \in during

\* The laps that were copied so far, those in the buffer, those shown.
FreshLap(i, ms) == \E p \in during : ms = p.laps[i]
FreshDigits(i, d) == \E p \in during : d = LapDigits(p.laps[i])
Laps ==
    /\ lcd_pc = "refresh" =>
           \A i \in Trig : i < lcd_i => FreshLap(i, speed_triggers[i])
    /\ lcd_pc \in {"valid", "speed", "draw"} =>
           \A i \in Trig : FreshLap(i, speed_triggers[i])
    /\ lcd_pc = "update" => \A i \in Trig : FreshDigits(i, buffer.laps[i])
    /\ lcd_pc = "delay" => \A i \in Trig : FreshDigits(i, panel.laps[i])

RealSpeed(d) ==
    \/ \E p \in during : d = ShownSpeed(p)
    \/ d = 0 /\ \E p \in during : ~p.valid
Speed ==
    /\ lcd_pc \in {"refresh", "valid", "speed"} => buffer.speed = NoSpeed
    /\ lcd_pc \in {"draw", "update"} => RealSpeed(buffer.speed)
    /\ lcd_pc = "delay" => RealSpeed(panel.speed)

MeterInv ==
    /\ MeterType /\ Pictures /\ InCall /\ NoFix /\ Life /\ Recorded /\ Laps
    /\ Speed

-----------------------------------------------------------------------------
(* A speed in knots is rescaled to an integer, however it overflows.       *)
LEMMA RescaleType ==
    ASSUME NEW f, f.value \in Int, f.scale \in Nat
    PROVE  minmea_rescale(f, 1000) \in Int
<1> DEFINE h == CDiv(CDiv(Sign(f.value) * f.scale, 1000), 2)
           w == Wrap(f.value + h)
           d == f.scale \div 1000
<1>1. U32 \in Nat \ {0} /\ \A n \in Int : Wrap(n) \in Int
  BY IntMaxAssumption DEF U32, Wrap
<1>2. h \in Int
  <2>1. Sign(f.value) * f.scale \in Int
    BY DEF Sign
  <2>2. \A n \in Int : CDiv(n, 1000) \in Int /\ CDiv(n, 2) \in Int
    BY DEF CDiv
  <2>. QED  BY <2>1, <2>2
<1>3. w \in Int
  <2> HIDE DEF h
  <2>. QED  BY <1>1, <1>2
<1>4. CASE f.scale > 1000
  <2>1. d \in Nat \ {0}
    BY <1>4
  <2>2. \A n \in Int : CDiv(n, d) \in Int
    <3> HIDE DEF d
    <3>. QED  BY <2>1 DEF CDiv
  <2>3. minmea_rescale(f, 1000) = CDiv(w, d)
    BY <1>4 DEF minmea_rescale
  <2> HIDE DEF w, d
  <2>. QED  BY <1>3, <2>2, <2>3
<1>5. CASE f.scale > 0 /\ f.scale < 1000
  <2>1. f.value * (1000 \div f.scale) \in Int
    BY <1>5
  <2>2. minmea_rescale(f, 1000) = Wrap(f.value * (1000 \div f.scale))
    BY <1>5 DEF minmea_rescale
  <2>. QED  BY <1>1, <2>1, <2>2
<1>6. CASE f.scale = 0 \/ f.scale = 1000
  BY <1>6 DEF minmea_rescale
<1>. QED  BY <1>4, <1>5, <1>6

(* Unsigned arithmetic gives a natural number.                             *)
LEMMA UnsignedType ==
    ASSUME NEW n \in Int PROVE n % U32 \in Nat
BY IntMaxAssumption DEF U32

-----------------------------------------------------------------------------
(* After a reset the timers are as at power-up.                            *)
LEMMA ResetTimers == Reset => IndInv'
<1>1. Reset => Init'
  BY DEF Reset, Init
<1>2. Init' => IndInv'
  BY InitInd, PTL
<1>. QED  BY <1>1, <1>2

(* In the running firmware too, every step keeps the timers' invariant:    *)
(* the speed they are given is converted, and a reset starts them anew.    *)
LEMMA TimersStep ==
    ASSUME MeterType, IndInv, [MeterNext]_allVars PROVE IndInv'
<1> USE DEF timers
<1>1. CASE UNCHANGED timers
  BY <1>1, UnchangedInd DEF vars
<1>2. CASE ApplyTriggers
  <2>1. check_and_apply_trigers(ext_speed, ~gps_valid)
    BY <1>2 DEF ApplyTriggers
  <2>2. ext_speed \in Nat /\ (~gps_valid) \in BOOLEAN
    BY DEF MeterType
  <2>. QED  BY <2>1, <2>2, EnterInd
<1>3. CASE ApplyTrigger
  BY <1>3, ApplyOneInd DEF ApplyTrigger
<1>4. CASE TickIntr
  BY <1>4, TickInd DEF TickIntr
<1>5. CASE Reset
  BY <1>5, ResetTimers
<1>6. ASSUME MeterNext, ~ApplyTriggers, ~ApplyTrigger, ~TickIntr, ~Reset
      PROVE  UNCHANGED timers
  BY <1>6 DEF MeterNext, Main, NvsBegin, DisplayInit, GpsInit, SetValid,
              GpsSteps, SetSpeed, MulSpeed, DivSpeed, LcdTask, LcdInit,
              ClearBuffer, RefreshTrigger, ReadValid, ReadSpeed, DrawLaps,
              UpdateDisplay, Delay, Send, LcdOnly
<1>. QED  BY <1>1, <1>2, <1>3, <1>4, <1>5, <1>6 DEF allVars

-----------------------------------------------------------------------------
(* The empty picture, of this life of the program or of another.           *)
LEMMA ClearedType ==
    ASSUME resets \in Int, NEW b \in Int
    PROVE  /\ Cleared \in PictureType /\ Cleared.boot = resets
           /\ Cleared.speed = NoSpeed
           /\ [Cleared EXCEPT !.boot = b] \in PictureType
           /\ [Cleared EXCEPT !.boot = b].boot = b
<1>1. NoSpeed \in Int /\ [i \in Trig |-> NoLap] \in [Trig -> Int]
  BY DEF NoSpeed, NoLap
<1>2. Cleared \in PictureType /\ Cleared.boot = resets /\ Cleared.speed = NoSpeed
  BY <1>1, Zenon DEF Cleared, PictureType
<1>3. /\ [Cleared EXCEPT !.boot = b] \in PictureType
      /\ [Cleared EXCEPT !.boot = b].boot = b
  <2> HIDE DEF Cleared
  <2>. QED  BY <1>2, SMT DEF PictureType
<1>. QED  BY <1>2, <1>3

(* The firmware starts without a fix and with an empty picture.            *)
LEMMA MeterInitInv == MeterInit => MeterInv
<1> SUFFICES ASSUME MeterInit PROVE MeterInv
  OBVIOUS
<1> USE NTrigAssumption DEF MeterInit, Init, Trig, Loop
<1>1. MeterType
  <2>1. gps_valid \in BOOLEAN /\ frame \in Frames \cup {NoFrame}
    OBVIOUS
  <2>2. ext_speed \in Nat /\ lcd_i \in Trig /\ speed_triggers \in [Trig -> Nat]
    OBVIOUS
  <2>. QED  BY <2>1, <2>2 DEF MeterType
<1>2. Pictures
  <2>1. resets \in Int /\ -1 \in Int
    OBVIOUS
  <2>. QED  BY <2>1, ClearedType DEF Pictures
<1>3. InCall     BY DEF InCall
<1>4. NoFix      BY DEF NoFix, Erased
<1>5. Life       BY DEF Life, PanelOfThisLife, Cleared
<1>6. Recorded   BY DEF Recorded
<1>7. Laps       BY DEF Laps
<1>8. Speed      BY DEF Speed
<1>. QED  BY <1>1, <1>2, <1>3, <1>4, <1>5, <1>6, <1>7, <1>8 DEF MeterInv

(* Steps of app_main, the tick interrupt, and none.                        *)
LEMMA MainInv ==
    ASSUME MeterInv, Main \/ TickIntr \/ UNCHANGED allVars PROVE MeterInv'
<1> USE DEF MeterInv, Main, NvsBegin, DisplayInit, GpsInit, MainMayRun,
            LcdBlocked, GpsBlocked, TickIntr, Tick, allVars, timers, aux, shared,
            gps, lcd
<1>1. MeterType'  BY DEF MeterType, Loop
<1>2. Pictures'   BY DEF Pictures, PictureType
<1>3. InCall'     BY DEF InCall
<1>4. NoFix'      BY DEF NoFix, Erased
<1>5. Life'       BY DEF Life, PanelOfThisLife, Loop
<1>6. Recorded'   BY DEF Recorded, Published, Loop
<1>7. Laps'       BY DEF Laps, FreshLap, FreshDigits, MeterType, Loop
<1>8. Speed'      BY DEF Speed, RealSpeed, MeterType, Loop
<1>. QED  BY <1>1, <1>2, <1>3, <1>4, <1>5, <1>6, <1>7, <1>8

(* A frame's fields are what the converter expects.                        *)
LEMMA FrameType ==
    ASSUME MeterType
    PROVE  /\ frame.valid \in BOOLEAN
           /\ frame.speed.value \in Int /\ frame.speed.scale \in Nat
<1>1. CASE frame \in Frames
  BY <1>1, SpeedMeterAssumption
<1>2. CASE frame = NoFrame
  <2>1. frame.valid \in BOOLEAN
    BY <1>2, Zenon DEF NoFrame
  <2>. QED  BY <1>2, <2>1, SMT DEF NoFrame
<1>. QED  BY <1>1, <1>2 DEF MeterType

(* What the gps task publishes during a picture only adds to what the      *)
(* picture may show.                                                       *)
LEMMA MorePublished ==
    ASSUME Laps, Speed, UNCHANGED <<lcd, panel>>, during \subseteq during'
    PROVE  Laps' /\ Speed'
<1>1. Laps'
  BY DEF Laps, FreshLap, FreshDigits, lcd
<1>2. Speed'
  BY DEF Speed, RealSpeed, lcd
<1>. QED  BY <1>1, <1>2

(* The conversion of a frame, up to the call of the timers.                *)
LEMMA FrameInv ==
    ASSUME MeterInv, IndInv,
           SetValid \/ SetSpeed \/ MulSpeed \/ DivSpeed \/ ApplyTriggers
    PROVE  MeterInv'
<1> USE DEF MeterInv, GpsOnly, Gps
<1>1. UNCHANGED <<lcd, panel, during, resets, trig_lim_str, trigger_ms>>
  BY DEF SetValid, SetSpeed, MulSpeed, DivSpeed, ApplyTriggers, timers,
         check_and_apply_trigers
<1>2. MeterType'
  <2>1. ext_speed' \in Nat
    <3>1. minmea_rescale(frame.speed, 1000) % U32 \in Nat
      BY FrameType, RescaleType, UnsignedType
    <3>2. (ext_speed * 1852) % U32 \in Nat /\ ext_speed \div 1000 \in Nat
      BY UnsignedType DEF MeterType
    <3>. QED
      BY <3>1, <3>2 DEF SetValid, SetSpeed, MulSpeed, DivSpeed, ApplyTriggers,
                        shared, MeterType
  <2>2. gps_valid' \in BOOLEAN /\ frame' \in Frames \cup {NoFrame}
    BY SpeedMeterAssumption DEF SetValid, SetSpeed, MulSpeed, DivSpeed,
       ApplyTriggers, shared, MeterType
  <2>3. gps_pc' \in {"speed", "mul", "div", "apply", "laps"}
    BY DEF SetValid, SetSpeed, MulSpeed, DivSpeed, ApplyTriggers
  <2>. QED  BY <1>1, <2>1, <2>2, <2>3 DEF MeterType, lcd
<1>3. Pictures'
  BY <1>1 DEF Pictures, lcd
<1>4. InCall'
  BY DEF InCall, SetValid, SetSpeed, MulSpeed, DivSpeed, ApplyTriggers, timers,
         check_and_apply_trigers
<1>5. NoFix'
  <2>1. CASE SetValid
    BY <2>1 DEF SetValid, NoFix
  <2>2. CASE SetSpeed
    BY <2>2 DEF SetSpeed, NoFix
  <2>3. CASE MulSpeed \/ DivSpeed
    BY <2>3 DEF MulSpeed, DivSpeed, NoFix
  <2>4. CASE ApplyTriggers
    <3>1. pc' = 1 /\ arg'.clear = ~gps_valid
      BY <2>4 DEF ApplyTriggers, check_and_apply_trigers
    <3>2. \A i \in Trig : ~(i < pc')
      BY <3>1 DEF Trig
    <3>. QED  BY <2>4, <3>1, <3>2 DEF ApplyTriggers, NoFix, shared
  <2>. QED  BY <2>1, <2>2, <2>3, <2>4
<1>6. Life'
  BY <1>1 DEF Life, PanelOfThisLife, lcd
<1>7. Recorded'
  BY DEF Recorded, GpsBlocked, SetValid, SetSpeed, MulSpeed, DivSpeed,
         ApplyTriggers
<1>8. Laps' /\ Speed'
  BY <1>1, MorePublished
<1>. QED  BY <1>2, <1>3, <1>4, <1>5, <1>6, <1>7, <1>8

(* A stopwatch of the call.  With the last one the new results are         *)
(* published, and without a fix all of them are erased by then.            *)
LEMMA ApplyInv == ASSUME MeterInv, IndInv, ApplyTrigger PROVE MeterInv'
<1> USE DEF MeterInv, ApplyTrigger
<1>0. /\ ApplyOne /\ pc \in Trig /\ pc \in 1 .. NTrig /\ NTrig \in Nat
      /\ gps_pc = "laps" /\ pc' = IF pc = NTrig THEN 0 ELSE pc + 1
  BY NTrigAssumption DEF ApplyOne, Trig
<1>1. UNCHANGED <<shared, lcd, panel, resets, frame>> /\ during \subseteq during'
  OBVIOUS
<1>2. MeterType'
  BY <1>1 DEF MeterType, shared, lcd
<1>3. Pictures'
  BY <1>1 DEF Pictures, lcd
<1>4. InCall'
  BY <1>0 DEF InCall
<1>5. NoFix'
  <2>1. ASSUME ~gps_valid, NEW i \in Trig, i <= pc
        PROVE  Erased(i)'
    <3>1. arg.clear
      BY <1>0, <2>1 DEF NoFix
    <3>2. trig_lim_str'[i].status = 0
      BY <2>1, <3>1, ApplyOneStep DEF PassedStatus
    <3>3. CASE i = pc
      <4>1. trigger_ms'[pc] = 0
        <5> DEFINE r == trig_one_limit(trig_lim_str[pc], arg.speed, Limits[pc],
                                       arg.clear)
        <5>1. r.trigged_ms = 0
          BY <3>1 DEF trig_one_limit
        <5>2. trigger_ms' = [trigger_ms EXCEPT ![pc] = r.trigged_ms]
          BY <1>0 DEF ApplyOne
        <5> HIDE DEF r
        <5>. QED  BY <1>0, <5>1, <5>2 DEF IndInv, TypeOK
      <4>. QED  BY <3>2, <3>3, <4>1 DEF Erased
    <3>4. CASE i # pc
      <4>1. i < pc
        BY <1>0, <2>1, <3>4 DEF Trig
      <4>2. Erased(i)
        BY <1>0, <2>1, <4>1 DEF NoFix
      <4>3. trigger_ms'[i] = trigger_ms[i]
        BY <1>0, <3>4, ApplyOneStep
      <4>. QED  BY <3>2, <4>2, <4>3 DEF Erased
    <3>. QED  BY <3>3, <3>4
  <2>2. CASE pc = NTrig
    <3>1. gps_pc' = "wait" /\ \A i \in Trig : i <= pc
      BY <1>0, <2>2 DEF Trig
    <3>. QED  BY <1>0, <1>1, <2>1, <3>1 DEF NoFix, shared
  <2>3. CASE pc # NTrig
    <3>1. gps_pc' = "laps" /\ \A i \in Trig : i < pc' => i <= pc
      BY <1>0, <2>3 DEF Trig
    <3>2. arg' = arg
      BY <1>0 DEF ApplyOne
    <3>. QED  BY <1>0, <1>1, <2>1, <3>1, <3>2 DEF NoFix, shared
  <2>. QED  BY <2>2, <2>3
<1>6. Life'
  BY <1>1 DEF Life, PanelOfThisLife, lcd
<1>7. Recorded'
  <2>1. CASE pc = NTrig
    BY <1>1, <2>1 DEF Recorded, Published, shared
  <2>2. CASE pc # NTrig
    BY <2>2 DEF Recorded, GpsBlocked
  <2>. QED  BY <2>1, <2>2
<1>8. Laps' /\ Speed'
  BY <1>1, MorePublished
<1>. QED  BY <1>2, <1>3, <1>4, <1>5, <1>6, <1>7, <1>8

(* A step of the lcd task: what it copies, reads and draws is published at *)
(* that moment, because it runs only while the gps task waits.             *)
LEMMA LcdInv == ASSUME MeterInv, IndInv, LcdTask, ~Reset PROVE MeterInv'
<1> USE DEF MeterInv
<1>0. GpsBlocked
  BY DEF LcdTask, LcdMayRun
<1>1. UNCHANGED <<timers, shared, gps, resets>>
  BY DEF LcdTask, LcdInit, ClearBuffer, RefreshTrigger, ReadValid, ReadSpeed,
         DrawLaps, UpdateDisplay, Delay, Send, LcdOnly
<1>2. InCall' /\ NoFix'
  BY <1>1 DEF InCall, NoFix, Erased, timers, shared, gps
<1>3. /\ ext_speed' \in Nat /\ gps_valid' \in BOOLEAN
      /\ frame' \in Frames \cup {NoFrame}
      /\ gps_pc' \in {"none", "wait", "speed", "mul", "div", "apply", "laps"}
  BY <1>1 DEF MeterType, shared, gps
<1>4. Published' = Published /\ (GpsBlocked' <=> GpsBlocked)
  BY <1>1 DEF Published, GpsBlocked, timers, shared, gps
<1>5. /\ buffer \in PictureType /\ panel \in PictureType /\ resets \in Nat
      /\ buffer.boot = resets /\ lcd_i \in Trig
      /\ speed_triggers \in [Trig -> Nat]
  BY DEF Pictures, Life, MeterType
<1> USE DEF Loop, LcdOnly, Send
<1>6. CASE LcdInit \/ UpdateDisplay \/ Delay
  <2> USE <1>6 DEF LcdInit, UpdateDisplay, Delay
  <2>1. MeterType'  BY <1>3, <1>5 DEF MeterType
  <2>2. Pictures'   BY <1>1, <1>5 DEF Pictures
  <2>3. Life'       BY <1>1, <1>5 DEF Life, PanelOfThisLife
  <2>4. Recorded'   BY <1>4 DEF Recorded
  <2>5. Laps'       BY DEF Laps, FreshLap, FreshDigits
  <2>6. Speed'      BY DEF Speed, RealSpeed
  <2>. QED  BY <1>2, <2>1, <2>2, <2>3, <2>4, <2>5, <2>6
<1>7. CASE ClearBuffer
  <2> USE <1>7 DEF ClearBuffer
  <2>0. Cleared \in PictureType /\ Cleared.boot = resets
        /\ Cleared.speed = NoSpeed
    <3>1. resets \in Int /\ 0 \in Int
      BY <1>5
    <3>. QED  BY <3>1, ClearedType
  <2>1. MeterType'
    BY <1>3, <1>5, NTrigAssumption DEF MeterType, Trig
  <2>2. Pictures'   BY <1>1, <1>5, <2>0 DEF Pictures
  <2>3. Life'       BY <1>1, <1>5, <2>0 DEF Life, PanelOfThisLife
  <2>4. Recorded'   BY <1>4 DEF Recorded
  <2>5. Laps'       BY DEF Laps, Trig
  <2>6. Speed'      BY <2>0 DEF Speed
  <2>. QED  BY <1>2, <2>1, <2>2, <2>3, <2>4, <2>5, <2>6
<1>8. CASE RefreshTrigger
  <2> USE <1>8 DEF RefreshTrigger
  <2>0. Published \in during /\ Published.laps = trigger_ms
    BY <1>0 DEF Recorded, Published
  <2>1. MeterType'
    <3>1. trigger_ms[lcd_i] \in Nat
      BY <1>5, ClockAssumption DEF IndInv, TypeOK
    <3>2. lcd_i' \in Trig
      BY <1>5, NTrigAssumption DEF Trig
    <3>. QED  BY <1>3, <1>5, <3>1, <3>2 DEF MeterType
  <2>2. Pictures'   BY <1>1, <1>5 DEF Pictures
  <2>3. Life'       BY <1>1, <1>5 DEF Life, PanelOfThisLife
  <2>4. Recorded'   BY <1>4 DEF Recorded
  <2>5. Laps'
    <3>1. ASSUME NEW i \in Trig, i <= lcd_i
          PROVE  FreshLap(i, speed_triggers[i])'
      <4>1. CASE i = lcd_i
        BY <1>5, <2>0, <4>1 DEF FreshLap
      <4>2. CASE i # lcd_i
        <5>1. i < lcd_i /\ speed_triggers'[i] = speed_triggers[i]
          BY <1>5, <3>1, <4>2 DEF Trig
        <5>. QED  BY <5>1 DEF Laps, FreshLap
      <4>. QED  BY <4>1, <4>2
    <3>2. CASE lcd_i = NTrig
      <4>1. lcd_pc' = "valid" /\ \A i \in Trig : i <= lcd_i
        BY <1>5, <3>2 DEF Trig
      <4>. QED  BY <3>1, <4>1 DEF Laps
    <3>3. CASE lcd_i # NTrig
      <4>1. lcd_pc' = "refresh" /\ \A i \in Trig : i < lcd_i' => i <= lcd_i
        BY <1>5, <3>3 DEF Trig
      <4>. QED  BY <3>1, <4>1 DEF Laps
    <3>. QED  BY <3>2, <3>3
  <2>6. Speed'      BY DEF Speed
  <2>. QED  BY <1>2, <2>1, <2>2, <2>3, <2>4, <2>5, <2>6
<1>9. CASE ReadValid
  <2> USE <1>9 DEF ReadValid
  <2>1. MeterType'  BY <1>3, <1>5 DEF MeterType
  <2>2. Pictures'   BY <1>1, <1>5 DEF Pictures
  <2>3. Life'       BY <1>1, <1>5 DEF Life, PanelOfThisLife
  <2>4. Recorded'   BY <1>4 DEF Recorded
  <2>5. Laps'       BY DEF Laps, FreshLap
  <2>6. Speed'
    <3>1. ~gps_valid => ShownSpeed(Published) = NoSpeed
      BY DEF ShownSpeed, Published
    <3>2. Published \in during
      BY <1>0 DEF Recorded
    <3>. QED  BY <3>1, <3>2 DEF Speed, RealSpeed
  <2>. QED  BY <1>2, <2>1, <2>2, <2>3, <2>4, <2>5, <2>6
<1>10. CASE ReadSpeed
  <2> USE <1>10 DEF ReadSpeed
  <2>0. /\ SpeedDigits(ext_speed) \in Int /\ SpeedDigits(0) = 0
        /\ buffer'.speed = SpeedDigits(ext_speed)
        /\ buffer' \in PictureType /\ buffer'.boot = buffer.boot
    <3>1. SpeedDigits(ext_speed) \in Int /\ SpeedDigits(0) = 0
      BY DEF SpeedDigits, MeterType
    <3>. QED  BY <1>5, <3>1 DEF PictureType
  <2>1. MeterType'  BY <1>3, <1>5 DEF MeterType
  <2>2. Pictures'   BY <1>1, <1>5, <2>0 DEF Pictures
  <2>3. Life'       BY <1>1, <1>5, <2>0 DEF Life, PanelOfThisLife
  <2>4. Recorded'   BY <1>4 DEF Recorded
  <2>5. Laps'       BY DEF Laps, FreshLap
  <2>6. Speed'
    <3>1. Published \in during /\ Published.valid = gps_valid
          /\ Published.speed = ext_speed
      BY <1>0 DEF Recorded, Published
    <3>2. CASE gps_valid
      <4>1. ShownSpeed(Published) = SpeedDigits(ext_speed)
        BY <3>1, <3>2 DEF ShownSpeed
      <4>. QED  BY <2>0, <3>1, <4>1 DEF Speed, RealSpeed
    <3>3. CASE ~gps_valid
      <4>1. ext_speed = 0
        BY <1>0, <3>3 DEF NoFix, GpsBlocked
      <4>. QED  BY <2>0, <3>1, <3>3, <4>1 DEF Speed, RealSpeed
    <3>. QED  BY <3>2, <3>3
  <2>. QED  BY <1>2, <2>1, <2>2, <2>3, <2>4, <2>5, <2>6
<1>11. CASE DrawLaps
  <2> USE <1>11 DEF DrawLaps
  <2>0. /\ buffer' \in PictureType /\ buffer'.boot = buffer.boot
        /\ buffer'.speed = buffer.speed
        /\ \A i \in Trig : buffer'.laps[i] = LapDigits(speed_triggers[i])
    <3>1. \A ms \in Nat : LapDigits(ms) \in Int
      BY DEF LapDigits, NoLap
    <3>2. [i \in Trig |-> LapDigits(speed_triggers[i])] \in [Trig -> Int]
      BY <1>5, <3>1
    <3>. QED  BY <1>5, <3>2 DEF PictureType
  <2>1. MeterType'  BY <1>3, <1>5 DEF MeterType
  <2>2. Pictures'   BY <1>1, <1>5, <2>0 DEF Pictures
  <2>3. Life'       BY <1>1, <1>5, <2>0 DEF Life, PanelOfThisLife
  <2>4. Recorded'   BY <1>4 DEF Recorded
  <2>5. Laps'       BY <2>0 DEF Laps, FreshLap, FreshDigits
  <2>6. Speed'      BY <2>0 DEF Speed, RealSpeed
  <2>. QED  BY <1>2, <2>1, <2>2, <2>3, <2>4, <2>5, <2>6
<1>. QED  BY <1>6, <1>7, <1>8, <1>9, <1>10, <1>11 DEF LcdTask

(* A reset leaves nothing of the old life but the picture on the panel,    *)
(* which does not count as one of the new life.                            *)
LEMMA ResetInv == ASSUME MeterInv, Reset PROVE MeterInv'
<1> USE DEF MeterInv, Reset
<1>0. /\ resets \in Nat /\ resets' \in Int /\ buffer \in PictureType
      /\ panel \in PictureType
  BY DEF Pictures
<1>1. MeterType'
  <2>1. gps_valid' \in BOOLEAN /\ frame' \in Frames \cup {NoFrame}
    OBVIOUS
  <2>2. ext_speed' \in Nat /\ lcd_i' \in Trig
        /\ speed_triggers' \in [Trig -> Nat]
    BY NTrigAssumption DEF Trig
  <2>. QED  BY <2>1, <2>2 DEF MeterType
<1>2. buffer' \in PictureType /\ buffer'.boot = resets'
  BY <1>0, ClearedType
<1>3. Pictures'
  <2>1. Torn \in PictureType
    BY <1>0, ClearedType DEF Torn
  <2>. QED  BY <1>0, <1>2, <2>1 DEF Pictures
<1>4. InCall'     BY DEF InCall
<1>5. NoFix'      BY DEF NoFix, Erased
<1>6. Life'       BY <1>2 DEF Life, PanelOfThisLife, Loop
<1>7. Recorded'   BY DEF Recorded, Loop
<1>8. Laps'       BY DEF Laps
<1>9. Speed'      BY DEF Speed
<1>. QED  BY <1>1, <1>3, <1>4, <1>5, <1>6, <1>7, <1>8, <1>9

(* Every step of the firmware keeps both invariants.                       *)
LEMMA MeterStep ==
    ASSUME MeterInv, IndInv, [MeterNext]_allVars PROVE MeterInv' /\ IndInv'
<1>1. IndInv'
  BY TimersStep DEF MeterInv
<1>2. MeterInv'
  BY MainInv, FrameInv, ApplyInv, LcdInv, ResetInv DEF MeterNext, GpsSteps
<1>. QED  BY <1>1, <1>2

(* The invariants of the tasks and of the timers hold in the firmware.     *)
THEOREM MeterInductive == MeterSpec => [](MeterInv /\ IndInv)
<1>1. MeterInit => MeterInv /\ IndInv
  BY MeterInitInv, InitInd DEF MeterInit
<1>2. MeterInv /\ IndInv /\ [MeterNext]_allVars => (MeterInv /\ IndInv)'
  BY MeterStep
<1>. QED  BY <1>1, <1>2, PTL DEF MeterSpec

(* task_lcd shows the speed of a sentence published while the picture was  *)
(* made, never one that task_gps has converted in part.                    *)
THEOREM SpeedIsRealHolds == MeterSpec => []SpeedIsReal
<1>1. MeterInv => SpeedIsReal
  BY DEF MeterInv, Speed, RealSpeed, SpeedIsReal
<1>. QED  BY <1>1, MeterInductive, PTL

(* Each lap on the panel was published while its picture was made.         *)
THEOREM LapsAreFreshHolds == MeterSpec => []LapsAreFresh
<1>1. MeterInv => LapsAreFresh
  BY DEF MeterInv, Laps, FreshDigits, LapsAreFresh
<1>. QED  BY <1>1, MeterInductive, PTL

(* When task_gps waits without a fix, speed, laps and stopwatches are all  *)
(* back at zero.                                                           *)
THEOREM NoFixNoResultHolds == MeterSpec => []NoFixNoResult
<1>1. MeterInv => NoFixNoResult
  BY DEF MeterInv, NoFix, Erased, GpsBlocked, NoFixNoResult
<1>. QED  BY <1>1, MeterInductive, PTL

(* No picture of an earlier life is on the panel when task_lcd loops.      *)
THEOREM PanelOfThisLifeHolds == MeterSpec => []PanelOfThisLife
<1>1. MeterInv => PanelOfThisLife
  BY DEF MeterInv, Life
<1>. QED  BY <1>1, MeterInductive, PTL

(* The timers' promise carries over to the firmware with its resets: a     *)
(* published lap is the true duration of the run, whatever is in Frames.   *)
THEOREM MeterLapAccurate == MeterSpec => []LapAccurate
BY AccurateInd, MeterInductive, PTL

=============================================================================
