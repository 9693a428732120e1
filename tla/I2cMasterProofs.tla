---------------------------- MODULE I2cMasterProofs ----------------------------
(***************************************************************************)
(* The I2C master driver keeps its promise for links of every length.  The *)
(* inductive invariant follows a link from the call that loads its first   *)
(* byte to the event that ends it.                                         *)
(***************************************************************************)
EXTENDS I2cMaster, TLAPS

\* The task waits for the link that was loaded.
Active == task_pc \in {"wait", "woken", "late"}

Failing == {"ack_error", "timeout"}

Quiet == hw = "stopped" /\ int_raw = {} /\ ~isr

Setup ==
    /\ task_pc \in {"link", "load"} =>
           cmd_evt_queue = "none" /\ evt = "none" /\ sent = 0
    /\ task_pc = "load" => status = "idle" /\ head = 1
    /\ task_pc \in {"idle", "link"} => status \in {"idle", "done"}
    /\ task_pc # "idle" /\ task_pc # "return" => ret # "ok"

\* The controller works for a call that waits, or not at all.
Running == hw = "run" => Active /\ status = "write"

\* Where a link is that is neither finished nor known to have failed: being
\* sent; at an END; at its stop; a byte was refused; the bus is dead.
Sending ==
    /\ hw = "run" /\ next = sent + 1
    /\ sent < N /\ sent <= last /\ (sent = last => last < N)
    /\ int_raw \subseteq {"trans_start"}

AtEnd ==
    /\ hw = "stopped" /\ sent = last /\ last < N
    /\ "end_detect" \in int_raw /\ int_raw \subseteq {"trans_start", "end_detect"}

AtStop ==
    /\ hw = "stopped" /\ sent = N /\ head = N + 1
    /\ "trans_complete" \in int_raw
    /\ int_raw \subseteq {"trans_start", "trans_complete"}

Refused ==
    /\ hw \in {"nack", "stopped"} /\ "ack_err" \in int_raw
    /\ int_raw \subseteq {"trans_start", "ack_err", "trans_complete"}

Dead ==
    /\ hw = "dead" /\ int_raw \subseteq {"trans_start", "time_out", "arb_lost"}

Writing ==
    Active /\ status = "write" =>
        /\ head \in 3 .. N + 1 /\ last = head - 1
        /\ evt # "done" /\ cmd_evt_queue # "done"
        /\ Sending \/ AtEnd \/ AtStop \/ Refused \/ Dead

Finished ==
    /\ Active /\ status = "idle" => hw = "stopped" /\ int_raw = {} /\ sent = N
    /\ Active => status # "done"
    /\ ret = "ok" => sent = N

Returned ==
    /\ task_pc = "return" /\ ret = "ok" => status = "idle" /\ Quiet
    /\ task_pc = "return" /\ status \in {"idle", "write"} => Quiet
    /\ task_pc = "return" => status # "done"
    /\ task_pc = "assert" => status \in Failing \cup {"done"}

\* What the handler needs is enabled as long as nothing has failed.
Enabled ==
    (task_pc \notin {"return", "assert"} \/ ret = "ok") /\ status \notin Failing
        => IntMask \subseteq int_ena

LinkInv ==
    /\ NotReentered /\ Setup /\ Running /\ Writing /\ Finished /\ Returned
    /\ Enabled

-----------------------------------------------------------------------------
(* A step of the controller keeps the types.                               *)
LEMMA HardwareTypes == ASSUME TypeOK, Hardware PROVE TypeOK'
<1> USE I2cAssumption DEF TypeOK, TaskType, DriverType, IntType, HwType,
                          FlagType, N, Ints, task, driver, Hardware, HwStep,
                          HwEnd, HwNack, HwNackStop, HwDie, HwOnly, Raise, IsByte
<1>1. TaskType'    OBVIOUS
<1>2. DriverType'  OBVIOUS
<1>3. IntType'     OBVIOUS
<1>4. HwType'      OBVIOUS
<1>5. FlagType'    OBVIOUS
<1>. QED  BY <1>1, <1>2, <1>3, <1>4, <1>5

(* A turn of the interrupt handler keeps the types.                         *)
LEMMA IsrTypes == ASSUME TypeOK, Isr PROVE TypeOK'
<1> USE I2cAssumption DEF TypeOK, TaskType, DriverType, IntType, HwType,
                          FlagType, N, Ints, task, driver, ints, regs, Isr,
                          IsrAckErr, IsrTransStart, IsrTimeOut,
                          IsrTransComplete, IsrArbitrationLost, IsrEndDetect,
                          IsrReturn, Handles, Static, Load, BatchEnd, Node
<1>1. TaskType'    OBVIOUS
<1>2. DriverType'  OBVIOUS
<1>3. IntType'     OBVIOUS
<1>4. HwType'      OBVIOUS
<1>5. FlagType'    OBVIOUS
<1>. QED  BY <1>1, <1>2, <1>3, <1>4, <1>5

(* A step of i2c_master_cmd_begin keeps the types.                         *)
LEMMA TaskTypes == ASSUME TypeOK, TaskStep PROVE TypeOK'
<1> USE I2cAssumption DEF TypeOK, TaskType, DriverType, IntType, HwType,
                          FlagType, N, Ints, IntMask, task, driver, ints, regs,
                          TaskStep, Start, SetLink, FirstLoad, Receive,
                          ReceiveTimeout, Alive, Done, Late, Return, Reboot,
                          Task, FsmReset, Static, Load, BatchEnd, Node
<1>1. TaskType'    OBVIOUS
<1>2. DriverType'  OBVIOUS
<1>3. IntType'     OBVIOUS
<1>4. HwType'      OBVIOUS
<1>5. FlagType'    OBVIOUS
<1>. QED  BY <1>1, <1>2, <1>3, <1>4, <1>5

(* Every variable of the driver and of its model of the controller stays   *)
(* in its type, for links of every length: no position leaves the link.    *)
THEOREM TypeCorrect == Spec => []TypeOK
<1>1. Init => TypeOK
  <2> SUFFICES ASSUME Init PROVE TypeOK
    OBVIOUS
  <2> USE I2cAssumption DEF Init, N
  <2>1. TaskType    BY DEF TaskType
  <2>2. DriverType  BY DEF DriverType
  <2>3. IntType     BY DEF IntType, IntMask, Ints
  <2>4. HwType      BY DEF HwType
  <2>5. FlagType    BY DEF FlagType
  <2>. QED  BY <2>1, <2>2, <2>3, <2>4, <2>5 DEF TypeOK
<1>2. TypeOK /\ [Next]_vars => TypeOK'
  <2>1. TypeOK /\ Next => TypeOK'
    BY HardwareTypes, IsrTypes, TaskTypes DEF Next
  <2>2. TypeOK /\ UNCHANGED vars => TypeOK'
    BY DEF TypeOK, TaskType, DriverType, IntType, HwType, FlagType, vars, task,
           driver, ints, regs
  <2>. QED  BY <2>1, <2>2
<1>. QED  BY <1>1, <1>2, PTL DEF Spec

-----------------------------------------------------------------------------
(* A step of the controller.  Only HwStep, which puts something on the     *)
(* wire, moves a link from one place to the next.                          *)
LEMMA HardwareLink == ASSUME TypeOK, LinkInv, Hardware PROVE LinkInv'
<1> USE I2cAssumption DEF TypeOK, TaskType, DriverType, IntType, HwType, FlagType,
                          LinkInv, NotReentered, Setup, Running, Writing,
                          Finished, Returned, Enabled, Active, Failing, Quiet,
                          Sending, AtEnd, AtStop, Refused, Dead, N, Ints,
                          IntMask, task, driver, ints, regs
<1> USE DEF HwOnly, Raise
<1>1. NotReentered' /\ Setup' /\ Running' /\ Returned' /\ Enabled'
  BY DEF Hardware, HwStep, HwEnd, HwNack, HwNackStop, HwDie
<1>2. Finished'
  BY DEF Hardware, HwStep, HwEnd, HwNack, HwNackStop, HwDie
<1>3. Writing'
  <2>1. CASE HwStep
    <3>1. Active /\ status = "write" /\ Sending /\ next <= last
      BY <2>1 DEF HwStep
    <3>2. sent' = sent + 1 /\ next' = next + 1 /\ UNCHANGED <<head, last>>
      BY <2>1, <3>1 DEF HwStep
    <3>3. CASE next = N
      <4>1. hw' = "stopped" /\ int_raw' = int_raw \cup {"trans_complete"}
        BY <2>1, <3>3 DEF HwStep, IsByte
      <4>2. AtStop'
        BY <3>1, <3>2, <3>3, <4>1
      <4>. QED  BY <2>1, <3>1, <3>2, <4>2 DEF HwStep
    <3>4. CASE next # N
      <4>1. hw' = "run" /\ int_raw' \subseteq int_raw \cup {"trans_start"}
        BY <2>1, <3>1, <3>4 DEF HwStep, IsByte
      <4>2. Sending'
        BY <3>1, <3>2, <3>4, <4>1
      <4>. QED  BY <2>1, <3>1, <3>2, <4>2 DEF HwStep
    <3>. QED  BY <3>3, <3>4
  <2>2. CASE HwEnd
    BY <2>2 DEF HwEnd
  <2>3. CASE HwNack
    BY <2>3 DEF HwNack
  <2>4. CASE HwNackStop
    BY <2>4 DEF HwNackStop
  <2>5. CASE HwDie
    BY <2>5 DEF HwDie
  <2>. QED  BY <2>1, <2>2, <2>3, <2>4, <2>5 DEF Hardware
<1>. QED  BY <1>1, <1>2, <1>3

(* A turn of the interrupt handler.  The END of a batch loads the next one *)
(* and the stop reports the end; every error leaves the status failing.    *)
LEMMA IsrLink == ASSUME TypeOK, LinkInv, Isr PROVE LinkInv'
<1> USE I2cAssumption DEF TypeOK, TaskType, DriverType, IntType, HwType, FlagType,
                          LinkInv, NotReentered, Setup, Running, Writing,
                          Finished, Returned, Enabled, Active, Failing, Quiet,
                          Sending, AtEnd, AtStop, Refused, Dead, N, Ints,
                          IntMask, task, driver, ints, regs
<1>1. NotReentered' /\ Setup' /\ Running' /\ Returned' /\ Enabled'
  BY DEF Isr, IsrAckErr, IsrTransStart, IsrTimeOut, IsrTransComplete,
         IsrArbitrationLost, IsrEndDetect, IsrReturn, Handles, int_status,
         Static, Load, BatchEnd, Node, IsByte
<1>2. Writing' /\ Finished'
  <2>1. CASE IsrAckErr
    BY <2>1 DEF IsrAckErr, Handles, int_status, Static
  <2>2. CASE IsrTransStart
    BY <2>2 DEF IsrTransStart, Handles, int_status
  <2>3. CASE IsrTimeOut
    BY <2>3 DEF IsrTimeOut, Handles, int_status, Static
  <2>4. CASE IsrTransComplete
    <3>1. CASE Active /\ status = "write"
      <4>1. AtStop /\ int_raw = {"trans_complete"}
        BY <2>4, <3>1 DEF IsrTransComplete, Handles, int_status
      <4>2. status' = "idle" /\ int_raw' = {} /\ UNCHANGED <<hw, sent>>
        BY <2>4, <3>1, <4>1 DEF IsrTransComplete, Handles, Static, Node
      <4>. QED  BY <2>4, <4>1, <4>2 DEF IsrTransComplete, Handles
    <3>2. CASE ~(Active /\ status = "write")
      BY <2>4, <3>2 DEF IsrTransComplete, Handles, int_status, Static
    <3>. QED  BY <3>1, <3>2
  <2>5. CASE IsrArbitrationLost
    BY <2>5 DEF IsrArbitrationLost, Handles, int_status, Static
  <2>6. CASE IsrEndDetect
    <3>1. CASE Active /\ status = "write"
      <4>0. "end_detect" \in int_raw /\ int_raw \cap IntMask = {}
        BY <2>6, <3>1 DEF IsrEndDetect, Handles, int_status
      <4>1. AtEnd /\ head \in Node /\ head # 1 /\ int_raw = {"end_detect"}
        <5>1. AtEnd
          BY <3>1, <4>0
        <5>2. int_raw = {"end_detect"}
          BY <4>0, <5>1
        <5>3. head \in Node /\ head # 1
          BY <3>1, <5>1 DEF Node
        <5>. QED  BY <5>1, <5>2, <5>3
      <4>2. /\ status' = "write" /\ hw' = "run" /\ int_raw' = {}
            /\ next' = head /\ last' = head /\ head' = head + 1
            /\ UNCHANGED <<cmd_evt_queue, sent, evt, ret, task_pc>>
        BY <2>6, <3>1, <4>1 DEF IsrEndDetect, Handles, Static, Load, BatchEnd, Node
      <4>3. Sending'
        <5>1. sent = head - 1 /\ head \in 3 .. N
          BY <3>1, <4>1 DEF Node
        <5>2. next' = sent' + 1 /\ sent' < N /\ sent' < last'
          BY <4>2, <5>1
        <5>. QED  BY <4>2, <5>2
      <4>. QED  BY <3>1, <4>1, <4>2, <4>3 DEF Node
    <3>2. CASE ~(Active /\ status = "write")
      BY <2>6, <3>2 DEF IsrEndDetect, Handles, int_status, Static
    <3>. QED  BY <3>1, <3>2
  <2>7. CASE IsrReturn
    BY <2>7 DEF IsrReturn, int_status
  <2>. QED  BY <2>1, <2>2, <2>3, <2>4, <2>5, <2>6, <2>7 DEF Isr
<1>. QED  BY <1>1, <1>2

(* A step of the task.  FirstLoad begins a link, Done and Late end it.     *)
LEMMA TaskLink == ASSUME TypeOK, LinkInv, TaskStep PROVE LinkInv'
<1> USE I2cAssumption DEF TypeOK, TaskType, DriverType, IntType, HwType, FlagType,
                          LinkInv, NotReentered, Setup, Running, Writing,
                          Finished, Returned, Enabled, Active, Failing, Quiet,
                          Sending, AtEnd, AtStop, Refused, Dead, N, Ints,
                          IntMask, task, driver, ints, regs
<1> USE DEF Task
<1>1. NotReentered' /\ Setup' /\ Running' /\ Enabled'
  <2> USE DEF TaskStep, Start, SetLink, FirstLoad, Receive, ReceiveTimeout,
              Alive, Done, Late, Return, Reboot, FsmReset, Static, Load,
              BatchEnd, Node, IsByte
  <2>1. NotReentered'  OBVIOUS
  <2>2. Setup'         OBVIOUS
  <2>3. Running'       OBVIOUS
  <2>4. Enabled'       OBVIOUS
  <2>. QED  BY <2>1, <2>2, <2>3, <2>4
<1>2. Writing' /\ Finished' /\ Returned'
  <2>1. CASE Start \/ SetLink \/ Return \/ Reboot
    BY <2>1 DEF Start, SetLink, Return, Reboot, FsmReset
  <2>2. CASE FirstLoad
    <3>1. head = 1 /\ status = "idle" /\ int_raw = {} /\ sent = 0
          /\ cmd_evt_queue = "none" /\ evt = "none" /\ ret # "ok"
      BY <2>2 DEF FirstLoad
    <3>2. /\ status' = "write" /\ hw' = "run" /\ int_raw' = {}
          /\ next' = 1 /\ last' = 2 /\ head' = 3 /\ task_pc' = "wait"
          /\ UNCHANGED <<cmd_evt_queue, sent, evt, ret>>
      BY <2>2, <3>1 DEF FirstLoad, Static, Load, BatchEnd, Node, IsByte
    <3>3. Sending'
      BY <3>1, <3>2
    <3>. QED  BY <3>1, <3>2, <3>3
  <2>3. CASE Receive \/ ReceiveTimeout \/ Alive
    BY <2>3 DEF Receive, ReceiveTimeout, Alive
  <2>4. CASE Done
    BY <2>4 DEF Done, FsmReset
  <2>5. CASE Late
    BY <2>5 DEF Late, FsmReset
  <2>. QED  BY <2>1, <2>2, <2>3, <2>4, <2>5 DEF TaskStep
<1>. QED  BY <1>1, <1>2

(* The link invariant, the strengthening that the theorems below share.     *)
LEMMA LinkInduction == ASSUME TypeOK, LinkInv, [Next]_vars PROVE LinkInv'
<1>1. CASE Next
  BY <1>1, HardwareLink, IsrLink, TaskLink DEF Next
<1>2. CASE UNCHANGED vars
  <2> USE <1>2 DEF LinkInv, vars, task, driver, ints, regs
  <2>1. NotReentered'  BY DEF NotReentered
  <2>2. Setup'         BY DEF Setup
  <2>3. Running'       BY DEF Running, Active
  <2>4. Writing'
    BY DEF Writing, Active, Sending, AtEnd, AtStop, Refused, Dead, N
  <2>5. Finished'      BY DEF Finished, Active, N
  <2>6. Returned'      BY DEF Returned, Quiet, Failing
  <2>7. Enabled'       BY DEF Enabled, Failing
  <2>. QED  BY <2>1, <2>2, <2>3, <2>4, <2>5, <2>6, <2>7
<1>. QED  BY <1>1, <1>2

(* At every moment of a transfer the driver, its interrupts and the        *)
(* controller agree on where the link is.                                  *)
THEOREM LinkSound == Spec => []LinkInv
<1>1. Init => LinkInv
  <2> SUFFICES ASSUME Init PROVE LinkInv
    OBVIOUS
  <2> USE DEF Init
  <2>1. NotReentered  BY DEF NotReentered
  <2>2. Setup         BY DEF Setup
  <2>3. Running       BY DEF Running
  <2>4. Writing       BY DEF Writing
  <2>5. Finished      BY DEF Finished, Active
  <2>6. Returned      BY DEF Returned
  <2>7. Enabled       BY DEF Enabled
  <2>. QED  BY <2>1, <2>2, <2>3, <2>4, <2>5, <2>6, <2>7 DEF LinkInv
<1>2. TypeOK /\ LinkInv /\ [Next]_vars => LinkInv'
  BY LinkInduction
<1>. QED  BY <1>1, <1>2, TypeCorrect, PTL DEF Spec

(* A batch of bytes is loaded only when the last one is on the wire: none  *)
(* is overwritten, skipped or sent twice, in links of every length.        *)
THEOREM LoadedInOrderHolds == Spec => []LoadedInOrder
<1>1. LinkInv => LoadedInOrder
  BY DEF LinkInv, LoadedInOrder, Running, Writing, Sending, AtEnd, AtStop,
         Refused, Dead
<1>. QED  BY <1>1, LinkSound, PTL

(* The handler never enters i2c_master_cmd_begin_static while the task sets *)
(* a link up or is in it.                                                  *)
THEOREM NotReenteredHolds == Spec => []NotReentered
<1>1. LinkInv => NotReentered
  BY DEF LinkInv
<1>. QED  BY <1>1, LinkSound, PTL

(* i2c_master_cmd_begin answers ESP_OK only for a link sent to its stop.   *)
THEOREM OkMeansSentHolds == Spec => []OkMeansSent
<1>1. LinkInv => OkMeansSent
  BY DEF LinkInv, Finished, OkMeansSent
<1>. QED  BY <1>1, LinkSound, PTL

-----------------------------------------------------------------------------
(* Every step of the driver is a step of the promise or leaves it alone.   *)
LEMMA StepPromised ==
    ASSUME TypeOK, LinkInv, [Next]_vars
    PROVE  [Transfer!Next]_(Transfer!vars)
<1> USE DEF Transfer!Next, Transfer!vars, Transfer!Begin, Transfer!Send,
            Transfer!Succeed, Transfer!Fail, Transfer!Reboot
<1>1. CASE HwStep
  <2>1. Active /\ next = sent + 1 /\ sent < N
    BY <1>1 DEF HwStep, LinkInv, Running, Writing, Sending, AtEnd, AtStop,
               Refused, Dead
  <2>2. sent' = sent + 1 /\ task_pc' = task_pc
    BY <1>1, <2>1 DEF HwStep, HwOnly, task
  <2>. QED  BY <2>1, <2>2 DEF Active
<1>2. CASE HwEnd \/ HwNack \/ HwNackStop \/ HwDie
  BY <1>2 DEF HwEnd, HwNack, HwNackStop, HwDie, HwOnly, task
<1>3. CASE Isr
  BY <1>3 DEF Isr, IsrAckErr, IsrTransStart, IsrTimeOut, IsrTransComplete,
             IsrArbitrationLost, IsrEndDetect, IsrReturn, Handles, task
<1>4. CASE Start
  BY <1>4 DEF Start, Task
<1>5. CASE SetLink \/ FirstLoad \/ Receive \/ ReceiveTimeout \/ Alive \/ Done
           \/ Late
  BY <1>5 DEF SetLink, FirstLoad, Receive, ReceiveTimeout, Alive, Done, Late,
             Task
<1>6. CASE Return
  BY <1>6 DEF Return, Task, LinkInv, Finished
<1>7. CASE Reboot
  BY <1>7 DEF Reboot, Task
<1>8. CASE UNCHANGED vars
  BY <1>8 DEF vars, task
<1>. QED
  BY <1>1, <1>2, <1>3, <1>4, <1>5, <1>6, <1>7, <1>8 DEF Next, Hardware, TaskStep

(* The driver with its interrupts implements the abstract transfer: what   *)
(* is sent of a link is always a first part of it, and a call that returns *)
(* ESP_OK sent all of it.                                                  *)
THEOREM Implements == Spec => Promise
<1>1. Init => Transfer!Init
  BY DEF Init, Transfer!Init
<1>2. TypeOK /\ LinkInv /\ [Next]_vars => [Transfer!Next]_(Transfer!vars)
  BY StepPromised
<1>. QED
  BY <1>1, <1>2, TypeCorrect, LinkSound, PTL DEF Spec, Promise, Transfer!Spec

=============================================================================
