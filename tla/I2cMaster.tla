------------------------------ MODULE I2cMaster ------------------------------
(***************************************************************************)
(* The master side of the I2C driver, esp-idf/components/driver/i2c.c, as  *)
(* u8g2_esp32_i2c_byte_cb (src/hw/u8g2_esp32_hal.c) uses it: a link of     *)
(* start, bytes and stop is built and i2c_master_cmd_begin sends it, the   *)
(* task waiting on a queue of length 1 while the interrupt handler feeds   *)
(* the controller one byte at a time.  Controller and bus are external and *)
(* may fail: a byte is not acknowledged, SCL is held low, arbitration is   *)
(* lost, or nothing is heard of the controller any more.                   *)
(***************************************************************************)
EXTENDS Naturals

CONSTANTS
    Bytes,              \* bytes of a link, the address included
    I2C_ACKERR_CNT_MAX

ASSUME I2cAssumption ==
    Bytes \in Nat \ {0} /\ I2C_ACKERR_CNT_MAX \in Nat \ {0}

VARIABLES
    task_pc,          \* where the task is in i2c_master_cmd_begin
    evt, ret,         \* its locals
    clear_bus_cnt,
    status,           \* p_i2c->status
    head,             \* p_i2c->cmd_link.head, a position in the link
    cmd_evt_queue,    \* holds one event: "none", "alive" or "done"
    int_ena, int_raw, \* the controller's interrupts: enabled, raised
    isr,              \* i2c_isr_handler_default is running
    hw,               \* the controller: "stopped", "run", "nack" or "dead"
    next, last,       \* the steps of the link in its command registers
    bus_busy,
    sent              \* auxiliary: steps of this link that are on the wire

task == <<task_pc, evt, ret, clear_bus_cnt>>
driver == <<status, head, cmd_evt_queue>>
ints == <<int_ena, int_raw>>
regs == <<hw, next, last>>
vars == <<task, driver, ints, isr, regs, bus_busy, sent>>

(* The link: step 1 is i2c_master_start, the last one i2c_master_stop, and *)
(* between them are the bytes, a node each.                                *)
N == Bytes + 2
Node == 1 .. N
IsByte(i) == i \in 2 .. N - 1

Ints == {"ack_err", "trans_start", "time_out", "trans_complete", "arb_lost",
         "end_detect"}

\* i2c_driver_install and i2c_hw_fsm_reset enable all but end_detect.
IntMask == Ints \ {"end_detect"}

Init ==
    /\ task_pc = "idle" /\ evt = "none" /\ ret = "none" /\ clear_bus_cnt = 0
    /\ status = "idle" /\ head = N + 1 /\ cmd_evt_queue = "none"
    /\ int_ena = IntMask /\ int_raw = {} /\ isr = FALSE
    /\ hw = "stopped" /\ next = 1 /\ last = 0
    /\ bus_busy \in BOOLEAN /\ sent = 0

-----------------------------------------------------------------------------
(* i2c_master_cmd_begin_static with the status st and the interrupts ena   *)
(* and raw its caller left.  The registers take the steps up to the first  *)
(* byte, followed by an END, or the rest of the link.                      *)
BatchEnd(h) == IF h = 1 THEN 2 ELSE h

\* Mutant: the head stays when a byte has been loaded.
Load_headStays(st, ena, raw) ==
    /\ next' = head /\ last' = BatchEnd(head) /\ head' = head
    /\ status' = IF IsByte(BatchEnd(head)) THEN "write" ELSE st
    /\ hw' = "run"
    /\ int_ena' = ena \cup {"end_detect"} /\ int_raw' = raw \ {"end_detect"}
    /\ UNCHANGED cmd_evt_queue

Load(st, ena, raw) ==
    /\ next' = head /\ last' = BatchEnd(head) /\ head' = BatchEnd(head) + 1
    /\ status' = IF IsByte(BatchEnd(head)) THEN "write" ELSE st
    /\ hw' = "run"
    /\ int_ena' = ena \cup {"end_detect"} /\ int_raw' = raw \ {"end_detect"}
    /\ UNCHANGED cmd_evt_queue

Static(st, ena, raw) ==
    \/ /\ st = "done"
       /\ status' = st /\ int_ena' = ena /\ int_raw' = raw
       /\ UNCHANGED <<head, cmd_evt_queue, regs>>
    \/ /\ st \in {"ack_error", "timeout"}
       /\ int_ena' = IF st = "timeout" THEN {} ELSE ena \ {"end_detect"}
       /\ int_raw' = raw \ (IF st = "timeout" THEN {"end_detect", "time_out"}
                                              ELSE {"end_detect"})
       /\ cmd_evt_queue' = "done" /\ status' = st
       /\ UNCHANGED <<head, regs>>
    \/ /\ st \in {"idle", "write"} /\ head = N + 1
       /\ cmd_evt_queue' = "done" /\ status' = "idle"
       /\ int_ena' = ena /\ int_raw' = raw
       /\ UNCHANGED <<head, regs>>
    \/ /\ st \in {"idle", "write"} /\ head \in Node
       /\ Load(st, ena, raw)

-----------------------------------------------------------------------------
(* The controller, external.  It runs beside the program.                  *)
Raise(i) == int_raw' = int_raw \cup {i}

HwOnly == UNCHANGED <<task, driver, int_ena, isr>>

\* The next step in the registers is put on the wire.
HwStep ==
    /\ hw = "run" /\ next <= last
    /\ next' = next + 1
    /\ sent' = IF next = sent + 1 THEN sent + 1 ELSE sent
    /\ \/ next = 1 /\ bus_busy' = TRUE /\ Raise("trans_start") /\ UNCHANGED hw
       \/ IsByte(next) /\ UNCHANGED <<bus_busy, int_raw, hw>>
       \/ next = N /\ bus_busy' = FALSE /\ Raise("trans_complete")
          /\ hw' = "stopped"
    /\ HwOnly /\ UNCHANGED last

HwEnd ==
    /\ hw = "run" /\ next = last + 1
    /\ hw' = "stopped" /\ Raise("end_detect")
    /\ HwOnly /\ UNCHANGED <<next, last, bus_busy, sent>>

\* A byte is not acknowledged; the controller ends the transfer by itself.
HwNack ==
    /\ hw = "run" /\ IsByte(next) /\ next <= last
    /\ hw' = "nack" /\ Raise("ack_err")
    /\ HwOnly /\ UNCHANGED <<next, last, bus_busy, sent>>

HwNackStop ==
    /\ hw = "nack"
    /\ hw' = "stopped" /\ bus_busy' = FALSE /\ Raise("trans_complete")
    /\ HwOnly /\ UNCHANGED <<next, last, sent>>

\* The clock is held low, another master speaks, or the controller is stuck.
HwDie ==
    /\ hw = "run" /\ hw' = "dead"
    /\ Raise("time_out") \/ Raise("arb_lost") \/ UNCHANGED int_raw
    /\ HwOnly /\ UNCHANGED <<next, last, bus_busy, sent>>

Hardware == HwStep \/ HwEnd \/ HwNack \/ HwNackStop \/ HwDie

-----------------------------------------------------------------------------
(* i2c_isr_handler_default: one action per turn of its loop.  The tasks    *)
(* run on one core, so none of them runs before it has returned.           *)
int_status == int_raw \cap int_ena

\* i is handled when nothing the code asks for earlier has been raised.
Handles(i, earlier) ==
    /\ i \in int_status /\ int_status \cap earlier = {}
    /\ isr' = TRUE
    /\ UNCHANGED <<task, bus_busy, sent>>

\* Mutant: the status does not record the missing acknowledge.
IsrAckErr_unrecorded ==
    /\ Handles("ack_err", {})
    /\ Static(status, int_ena \ {"ack_err"}, int_raw \ {"ack_err"})

IsrAckErr ==
    /\ Handles("ack_err", {})
    /\ Static("ack_error", int_ena \ {"ack_err"}, int_raw \ {"ack_err"})

IsrTransStart ==
    /\ Handles("trans_start", {"ack_err"})
    /\ int_raw' = int_raw \ {"trans_start"}
    /\ UNCHANGED <<driver, int_ena, regs>>

IsrTimeOut ==
    /\ Handles("time_out", {"ack_err", "trans_start"})
    /\ Static("timeout", int_ena \ {"time_out"}, int_raw \ {"time_out"})

IsrTransComplete ==
    /\ Handles("trans_complete", {"ack_err", "trans_start", "time_out"})
    /\ \/ /\ status \notin {"ack_error", "idle"}
          /\ Static(status, int_ena, int_raw \ {"trans_complete"})
       \/ /\ status \in {"ack_error", "idle"}
          /\ int_raw' = int_raw \ {"trans_complete"}
          /\ UNCHANGED <<driver, int_ena, regs>>

IsrArbitrationLost ==
    /\ Handles("arb_lost", Ints \ {"arb_lost", "end_detect"})
    /\ Static("timeout", int_ena, int_raw \ {"arb_lost"})

IsrEndDetect ==
    /\ Handles("end_detect", Ints \ {"end_detect"})
    /\ Static(status, int_ena \ {"end_detect"}, int_raw \ {"end_detect"})

\* xQueueSendFromISR does nothing when the queue is full.
IsrReturn ==
    /\ isr /\ int_status = {} /\ isr' = FALSE
    /\ cmd_evt_queue' = IF cmd_evt_queue = "none" THEN "alive"
                                                  ELSE cmd_evt_queue
    /\ UNCHANGED <<task, status, head, ints, regs, bus_busy, sent>>

Isr == IsrAckErr \/ IsrTransStart \/ IsrTimeOut \/ IsrTransComplete
       \/ IsrArbitrationLost \/ IsrEndDetect \/ IsrReturn

-----------------------------------------------------------------------------
(* i2c_master_cmd_begin.  cmd_mux has no other user.                       *)
Task(from, to) ==
    /\ ~isr /\ task_pc = from /\ task_pc' = to
    /\ UNCHANGED isr

FsmReset ==
    /\ hw' = "stopped" /\ int_raw' = {} /\ int_ena' = IntMask
    /\ bus_busy' = FALSE
    /\ UNCHANGED <<next, last>>

Start ==
    /\ Task("idle", "link")
    /\ cmd_evt_queue' = "none" /\ evt' = "none" /\ ret' = "none"
    /\ \/ /\ status = "timeout" \/ bus_busy
          /\ FsmReset /\ clear_bus_cnt' = 0
       \/ /\ status # "timeout" /\ ~bus_busy
          /\ UNCHANGED <<ints, regs, bus_busy, clear_bus_cnt>>
    /\ sent' = 0
    /\ UNCHANGED <<status, head>>

SetLink ==
    /\ Task("link", "load")
    /\ head' = 1 /\ status' = "idle"
    /\ int_ena' = int_ena \cup {"ack_err", "time_out"}
    /\ UNCHANGED <<evt, ret, clear_bus_cnt, cmd_evt_queue, int_raw, regs,
                   bus_busy, sent>>

FirstLoad ==
    /\ Task("load", "wait")
    /\ Static(status, int_ena, int_raw)
    /\ UNCHANGED <<evt, ret, clear_bus_cnt, bus_busy, sent>>

Receive ==
    /\ Task("wait", "woken")
    /\ cmd_evt_queue # "none"
    /\ evt' = cmd_evt_queue /\ cmd_evt_queue' = "none"
    /\ UNCHANGED <<ret, clear_bus_cnt, status, head, ints, regs, bus_busy, sent>>

\* Mutant: the task waits for the event without a limit.
ReceiveTimeout_never == FALSE /\ UNCHANGED vars

\* Nothing was heard of the controller for a second.
ReceiveTimeout ==
    /\ Task("wait", "late")
    /\ cmd_evt_queue = "none"
    /\ UNCHANGED <<evt, ret, clear_bus_cnt, driver, ints, regs, bus_busy, sent>>

Alive ==
    /\ Task("woken", "wait") /\ evt = "alive"
    /\ UNCHANGED <<evt, ret, clear_bus_cnt, driver, ints, regs, bus_busy, sent>>

Done ==
    /\ Task("woken", "return") /\ evt = "done"
    /\ \/ status = "timeout" /\ FsmReset /\ clear_bus_cnt' = 0 /\ ret' = "timeout"
       \/ /\ status = "ack_error" /\ ret' = "fail"
          /\ IF clear_bus_cnt + 1 >= I2C_ACKERR_CNT_MAX
             THEN clear_bus_cnt' = 0 /\ bus_busy' = FALSE
             ELSE clear_bus_cnt' = clear_bus_cnt + 1 /\ UNCHANGED bus_busy
          /\ UNCHANGED <<ints, regs>>
       \/ /\ status \notin {"timeout", "ack_error"} /\ ret' = "ok"
          /\ UNCHANGED <<clear_bus_cnt, ints, regs, bus_busy>>
    /\ UNCHANGED <<evt, driver, sent>>

Late ==
    /\ Task("late", "return")
    /\ ret' = "timeout" /\ clear_bus_cnt' = 0 /\ FsmReset
    /\ UNCHANGED <<evt, driver, sent>>

\* Mutant: the caller does not look at the result.
Return_unchecked ==
    /\ Task("return", "idle")
    /\ status' = "done"
    /\ UNCHANGED <<evt, ret, clear_bus_cnt, head, cmd_evt_queue, ints, regs,
                   bus_busy, sent>>

\* The caller deletes the link, or its ESP_ERROR_CHECK asserts.
Return ==
    /\ \/ ret = "ok" /\ Task("return", "idle")
       \/ ret # "ok" /\ Task("return", "assert")
    /\ status' = "done"
    /\ UNCHANGED <<evt, ret, clear_bus_cnt, head, cmd_evt_queue, ints, regs,
                   bus_busy, sent>>

\* The chip restarts, u8x8_cad_Init installs the driver again.  The bus may
\* be left in the middle of a transfer.
Reboot ==
    /\ Task("assert", "idle")
    /\ evt' = "none" /\ ret' = "none" /\ clear_bus_cnt' = 0
    /\ status' = "idle" /\ head' = N + 1 /\ cmd_evt_queue' = "none"
    /\ int_ena' = IntMask /\ int_raw' = {}
    /\ hw' = "stopped" /\ next' = 1 /\ last' = 0
    /\ bus_busy' \in BOOLEAN /\ sent' = 0

TaskStep == Start \/ SetLink \/ FirstLoad \/ Receive \/ ReceiveTimeout \/ Alive
            \/ Done \/ Late \/ Return \/ Reboot

Next == Hardware \/ Isr \/ TaskStep

\* The interrupt handler runs when it is due, the lcd task when it is ready;
\* xQueueReceive times out for sure.  Of the controller nothing is assumed.
Spec == Init /\ [][Next]_vars /\ WF_vars(Isr) /\ WF_vars(TaskStep)

-----------------------------------------------------------------------------
TaskType ==
    /\ task_pc \in {"idle", "link", "load", "wait", "woken", "late", "return",
                    "assert"}
    /\ evt \in {"none", "alive", "done"}
    /\ ret \in {"none", "ok", "fail", "timeout"}
    /\ clear_bus_cnt \in 0 .. I2C_ACKERR_CNT_MAX - 1
DriverType ==
    /\ status \in {"idle", "write", "ack_error", "timeout", "done"}
    /\ head \in 1 .. N + 1 /\ cmd_evt_queue \in {"none", "alive", "done"}
IntType == int_ena \subseteq Ints /\ int_raw \subseteq Ints
HwType ==
    /\ hw \in {"stopped", "run", "nack", "dead"}
    /\ next \in 1 .. N + 1 /\ last \in 0 .. N /\ sent \in 0 .. N
FlagType == isr \in BOOLEAN /\ bus_busy \in BOOLEAN

TypeOK == TaskType /\ DriverType /\ IntType /\ HwType /\ FlagType

(* ESP_OK is returned only when every byte of the link has been sent and   *)
(* acknowledged and the stop sent, however the interrupts came.            *)
OkMeansSent == ret = "ok" => sent = N

(* The registers are written only when the controller has done all they    *)
(* held: no byte is overwritten, skipped or sent twice.                    *)
LoadedInOrder == hw = "run" => next = sent + 1

(* While the task sets up a link and loads its first step the controller   *)
(* is quiet, so the handler cannot enter i2c_master_cmd_begin_static a     *)
(* second time, nor find the link half set.                                *)
NotReentered ==
    task_pc \in {"idle", "link", "load"} =>
        hw = "stopped" /\ int_raw = {} /\ ~isr

(* The call returns or the program restarts, whatever the bus does.        *)
Returns == task_pc = "wait" ~> task_pc \in {"idle", "assert"}

Transfer == INSTANCE I2cTransfer WITH
    phase <- IF task_pc = "idle" THEN "idle"
             ELSE IF task_pc = "assert" THEN "failed" ELSE "busy"
(* The driver does what I2cTransfer promises.                              *)
Promise == Transfer!Spec
=============================================================================
