------------------------------ MODULE SpeedMeter ------------------------------
(***************************************************************************)
(* The running firmware: app_main (src/main.cpp) and hw_board_init         *)
(* (src/hw/hw_board.c) create the lcd task of src/hw/hw_display.c and the  *)
(* gps task of src/hw/hw_gps.c, which share gps_valid, ext_speed and the   *)
(* four lap times without a lock.  Every access of a shared variable is a  *)
(* step of its own; the scheduler of the single core decides who steps.    *)
(* A failing I2C transfer ends in assert(0), which resets the chip: its    *)
(* RAM is lost, the picture in the panel's memory is not.                  *)
(***************************************************************************)
EXTENDS SpeedTriggers, Minmea

CONSTANTS
    Frames,        \* what minmea_parse_rmc may deliver: [valid, speed]
    MaxSentences,  \* bound: RMC sentences received
    MaxResets      \* bound: I2C transfers that fail

ASSUME SpeedMeterAssumption ==
    /\ MaxSentences \in Nat /\ MaxResets \in Nat
    /\ \A f \in Frames : f.valid \in BOOLEAN /\ f.speed.value \in Int
                         /\ f.speed.scale \in Nat

VARIABLES
    main_pc,         \* where app_main is
    gps_valid, ext_speed,
    gps_pc, frame,   \* the gps task, in the handling of a parsed frame
    lcd_pc, lcd_i,   \* the lcd task; index in its loop over the lap times
    speed_triggers,  \* _speed_triggers[].ms
    buffer,          \* the picture in the u8g2 frame buffer
    panel,           \* the picture in the panel's own memory
    sentences, resets,
    \* Auxiliary: what was published since the current picture was begun.
    during

gps == <<gps_pc, frame>>
lcd == <<lcd_pc, lcd_i, speed_triggers, buffer>>
shared == <<gps_valid, ext_speed>>
timers == <<tick, trig_lim_str, trigger_ms, pc, arg, now, aux>>
allVars == <<timers, main_pc, shared, gps, lcd, panel, sentences, resets,
             during>>

-----------------------------------------------------------------------------
(* Pictures.  NoSpeed and NoLap stand for "xxx" and "__.__"; a speed is    *)
(* drawn with three digits and a lap as hundredths of a second.            *)
NoSpeed == -1
NoLap == -1

SpeedDigits(v) == (v \div 1000) % 1000

\* _draw_speed_trigger
LapDigits(ms) ==
    LET out_ms == ms \div 10
    IN  IF ms = 0 THEN NoLap ELSE IF out_ms > 9999 THEN 9999 ELSE out_ms

\* u8g2_ClearBuffer; boot tells in which life of the program it was drawn.
Cleared == [drawn |-> FALSE, speed |-> NoSpeed, laps |-> [i \in Trig |-> NoLap],
            boot |-> resets]

-----------------------------------------------------------------------------
(* The values another task can see; auxiliary.                             *)
Published == [valid |-> gps_valid, speed |-> ext_speed, laps |-> trigger_ms]

NoFrame == [valid |-> FALSE, speed |-> [value |-> 0, scale |-> 0]]

\* The panel powers up with any picture; here: one drawn in no life.
MeterInit ==
    /\ Init
    /\ main_pc = "nvs" /\ gps_pc = "none" /\ lcd_pc = "none"
    /\ gps_valid = FALSE /\ ext_speed = 0
    /\ frame = NoFrame /\ lcd_i = 1 /\ speed_triggers = [i \in Trig |-> 0]
    /\ during = {}
    /\ resets = 0 /\ sentences = 0
    /\ buffer = Cleared
    /\ panel = [Cleared EXCEPT !.boot = -1]

-----------------------------------------------------------------------------
(* The scheduler: CONFIG_FREERTOS_UNICORE, gps above lcd above main.  A    *)
(* task runs only while every task above it is blocked, which the lcd task *)
(* is in vTaskDelay and while the I2C driver transfers.                    *)
GpsBlocked == gps_pc \in {"none", "wait"}
LcdBlocked == lcd_pc \in {"none", "init", "update", "delay"}

\* Mutant: the tasks run on two cores.
LcdMayRun_twoCores == lcd_pc # "none"
LcdMayRun == GpsBlocked
MainMayRun == GpsBlocked /\ LcdBlocked

-----------------------------------------------------------------------------
(* app_main and hw_board_init.  Results are not looked at: NVS.begin may   *)
(* fail, and display_init and gps_init always return 0.                    *)
NvsBegin ==
    /\ main_pc = "nvs" /\ main_pc' = "display"
    /\ UNCHANGED <<timers, shared, gps, lcd, panel, sentences, resets, during>>

DisplayInit ==
    /\ main_pc = "display" /\ main_pc' = "gps"
    /\ lcd_pc' = "init"
    /\ UNCHANGED <<timers, shared, gps, lcd_i, speed_triggers, buffer, panel,
                   sentences, resets, during>>

\* task_gps configures the UART and installs its driver before it waits.
GpsInit ==
    /\ main_pc = "gps" /\ main_pc' = "done"
    /\ gps_pc' = "wait"
    /\ UNCHANGED <<timers, shared, frame, lcd, panel, sentences, resets, during>>

Main == MainMayRun /\ (NvsBegin \/ DisplayInit \/ GpsInit)

-----------------------------------------------------------------------------
(* task_gps from a frame minmea_parse_rmc accepted back to its queue.      *)
Gps(from, to) == gps_pc = from /\ gps_pc' = to
GpsOnly == UNCHANGED <<main_pc, lcd, panel, resets, during>>

SetValid ==
    /\ Gps("wait", "speed")
    /\ sentences < MaxSentences /\ sentences' = sentences + 1
    /\ \E f \in Frames : frame' = f /\ gps_valid' = f.valid
    /\ GpsOnly /\ UNCHANGED <<timers, ext_speed>>

\* Mutant: the speed stays when the fix is lost.
SetSpeed_keep ==
    /\ IF frame.valid
       THEN /\ Gps("speed", "mul")
            /\ ext_speed' = minmea_rescale(frame.speed, 1000) % U32
       ELSE Gps("speed", "apply") /\ UNCHANGED ext_speed
    /\ GpsOnly /\ UNCHANGED <<timers, gps_valid, frame, sentences>>

SetSpeed ==
    /\ IF frame.valid
       THEN /\ Gps("speed", "mul")
            /\ ext_speed' = minmea_rescale(frame.speed, 1000) % U32
       ELSE Gps("speed", "apply") /\ ext_speed' = 0
    /\ GpsOnly /\ UNCHANGED <<timers, gps_valid, frame, sentences>>

MulSpeed ==
    /\ Gps("mul", "div")
    /\ ext_speed' = (ext_speed * 1852) % U32
    /\ GpsOnly /\ UNCHANGED <<timers, gps_valid, frame, sentences>>

DivSpeed ==
    /\ Gps("div", "apply")
    /\ ext_speed' = ext_speed \div 1000
    /\ GpsOnly /\ UNCHANGED <<timers, gps_valid, frame, sentences>>

ApplyTriggers ==
    /\ Gps("apply", "laps")
    /\ check_and_apply_trigers(ext_speed, ~gps_valid)
    /\ GpsOnly /\ UNCHANGED <<shared, frame, sentences>>

ApplyTrigger ==
    /\ gps_pc = "laps" /\ ApplyOne
    /\ gps_pc' = IF pc = NTrig THEN "wait" ELSE "laps"
    /\ during' = IF pc = NTrig
                 THEN during \cup {[Published EXCEPT !.laps = trigger_ms']}
                 ELSE during
    /\ UNCHANGED <<shared, frame, main_pc, lcd, panel, sentences, resets>>

GpsSteps == SetSpeed \/ MulSpeed \/ DivSpeed \/ ApplyTriggers \/ ApplyTrigger

TickIntr == Tick /\ UNCHANGED <<main_pc, shared, gps, lcd, panel, sentences,
                                resets, during>>

-----------------------------------------------------------------------------
(* task_lcd.                                                               *)
LcdOnly == UNCHANGED <<timers, main_pc, shared, gps, sentences>>

\* u8g2_UpdateDisplay.
Send(next) ==
    /\ panel' = buffer /\ lcd_pc' = next
    /\ LcdOnly /\ UNCHANGED <<lcd_i, speed_triggers, buffer, resets, during>>

\* Some rows of a new picture over an older one: of no life as a whole.
Torn == [Cleared EXCEPT !.boot = -1]

\* A transfer fails, before, within or after the picture: assert(0) in
\* ESP_ERROR_CHECK, panic, reboot, and everything in RAM starts anew.
Reset ==
    /\ lcd_pc \in {"init", "update"}
    /\ resets < MaxResets /\ resets' = resets + 1
    /\ panel' \in {panel, buffer, Torn}
    /\ tick' = 0 /\ pc' = 0 /\ arg' = [speed |-> 0, clear |-> FALSE]
    /\ trig_lim_str' =
         [i \in Trig |-> [sys_ticks |-> 0, trigged_ms |-> 0, status |-> 0]]
    /\ now' = 0 /\ begunAt' = 0 /\ runAt' = 0
    /\ startedAt' = [i \in Trig |-> 0] /\ closedAt' = [i \in Trig |-> 0]
    /\ seen' = [armed |-> {}, open |-> {}, lap |-> [i \in Trig |-> 0]]
    /\ gps_valid' = FALSE /\ ext_speed' = 0 /\ trigger_ms' = [i \in Trig |-> 0]
    /\ main_pc' = "nvs" /\ gps_pc' = "none" /\ lcd_pc' = "none"
    /\ frame' = NoFrame /\ lcd_i' = 1 /\ speed_triggers' = [i \in Trig |-> 0]
    /\ buffer' = [Cleared EXCEPT !.boot = resets'] /\ during' = {}
    /\ UNCHANGED sentences

\* Mutant: the cleared buffer is not sent.
LcdInit_noUpdate ==
    /\ lcd_pc = "init" /\ lcd_pc' = "clear" /\ buffer' = Cleared
    /\ LcdOnly /\ UNCHANGED <<lcd_i, speed_triggers, panel, resets, during>>

\* u8g2_InitDisplay, u8g2_SetPowerSave, u8g2_ClearBuffer, u8g2_UpdateDisplay:
\* the buffer is zero anyhow, it is static and not drawn to yet.
LcdInit == lcd_pc = "init" /\ Send("clear")

ClearBuffer ==
    /\ lcd_pc = "clear" /\ lcd_pc' = "refresh"
    /\ buffer' = Cleared /\ lcd_i' = 1
    /\ during' = {Published}
    /\ LcdOnly /\ UNCHANGED <<speed_triggers, panel, resets>>

\* Mutant: the last lap time is not copied.
RefreshTrigger_offByOne ==
    /\ lcd_pc = "refresh"
    /\ speed_triggers' = IF lcd_i = NTrig THEN speed_triggers ELSE
                         [speed_triggers EXCEPT ![lcd_i] = trigger_ms[lcd_i]]
    /\ IF lcd_i = NTrig THEN lcd_pc' = "valid" /\ UNCHANGED lcd_i
                        ELSE lcd_i' = lcd_i + 1 /\ UNCHANGED lcd_pc
    /\ LcdOnly /\ UNCHANGED <<buffer, panel, resets, during>>

\* _refresh_tirgger_list, an assignment at a time
RefreshTrigger ==
    /\ lcd_pc = "refresh"
    /\ speed_triggers' = [speed_triggers EXCEPT ![lcd_i] = trigger_ms[lcd_i]]
    /\ IF lcd_i = NTrig THEN lcd_pc' = "valid" /\ UNCHANGED lcd_i
                        ELSE lcd_i' = lcd_i + 1 /\ UNCHANGED lcd_pc
    /\ LcdOnly /\ UNCHANGED <<buffer, panel, resets, during>>

ReadValid ==
    /\ lcd_pc = "valid"
    /\ lcd_pc' = IF gps_valid THEN "speed" ELSE "draw"
    /\ LcdOnly /\ UNCHANGED <<lcd_i, speed_triggers, buffer, panel, resets, during>>

ReadSpeed ==
    /\ lcd_pc = "speed" /\ lcd_pc' = "draw"
    /\ buffer' = [buffer EXCEPT !.speed = SpeedDigits(ext_speed)]
    /\ LcdOnly /\ UNCHANGED <<lcd_i, speed_triggers, panel, resets, during>>

\* _draw_speed_tirggers_list
DrawLaps ==
    /\ lcd_pc = "draw" /\ lcd_pc' = "update"
    /\ buffer' = [buffer EXCEPT !.drawn = TRUE,
                    !.laps = [i \in Trig |-> LapDigits(speed_triggers[i])]]
    /\ LcdOnly /\ UNCHANGED <<lcd_i, speed_triggers, panel, resets, during>>

UpdateDisplay == lcd_pc = "update" /\ Send("delay")

\* Mutant: the loop is left after a picture.
Delay_once ==
    /\ lcd_pc = "delay" /\ lcd_pc' = "none"
    /\ LcdOnly /\ UNCHANGED <<lcd_i, speed_triggers, buffer, panel, resets, during>>

\* vTaskDelay has expired; how long it takes does not matter here.
Delay ==
    /\ lcd_pc = "delay" /\ lcd_pc' = "clear"
    /\ LcdOnly /\ UNCHANGED <<lcd_i, speed_triggers, buffer, panel, resets, during>>

LcdTask ==
    /\ LcdMayRun
    /\ \/ LcdInit \/ ClearBuffer \/ RefreshTrigger \/ ReadValid \/ ReadSpeed
       \/ DrawLaps \/ UpdateDisplay \/ Delay \/ Reset

MeterNext == Main \/ SetValid \/ GpsSteps \/ TickIntr \/ LcdTask

\* Each task goes on when the scheduler lets it.  main runs in the 50 ms the
\* lcd task sleeps, which is much longer than what main has to do.
MeterSpec ==
    /\ MeterInit /\ [][MeterNext]_allVars
    /\ WF_allVars(GpsSteps) /\ WF_allVars(LcdTask) /\ SF_allVars(Main)

-----------------------------------------------------------------------------
Loop == {"clear", "refresh", "valid", "speed", "draw", "update", "delay"}

(* The digits shown are the speed of a sentence published while the        *)
(* picture was made, never a half converted value of ext_speed; a fix lost *)
(* between the reads of gps_valid and ext_speed shows as 0.                *)
ShownSpeed(p) == IF p.valid THEN SpeedDigits(p.speed) ELSE NoSpeed
SpeedIsReal ==
    lcd_pc = "delay" =>
        \/ \E p \in during : panel.speed = ShownSpeed(p)
        \/ panel.speed = 0 /\ \E p \in during : ~p.valid

(* Each lap shown was published while the picture was made: none is left   *)
(* over from an earlier picture.  Together they may be of two sentences.   *)
LapsAreFresh ==
    lcd_pc = "delay" =>
        \A i \in Trig : \E p \in during : panel.laps[i] = LapDigits(p.laps[i])

(* Without a fix there is neither a speed nor a lap time nor a stopwatch   *)
(* that goes on, whenever another task looks.                              *)
NoFixNoResult ==
    GpsBlocked /\ ~gps_valid =>
        /\ ext_speed = 0
        /\ \A i \in Trig : trigger_ms[i] = 0 /\ trig_lim_str[i].status = 0

(* A result of before a reset is not on the panel once task_lcd has got to *)
(* its loop.                                                               *)
PanelOfThisLife == lcd_pc \in Loop => panel.boot = resets

(* When no more sentences come, the panel ends up with what was published  *)
(* last, however the tasks were interleaved and reset before.              *)
Picture == [drawn |-> TRUE, speed |-> ShownSpeed(Published), boot |-> resets,
            laps |-> [i \in Trig |-> LapDigits(trigger_ms[i])]]
EventuallyShown == <>[](panel = Picture)
=============================================================================
