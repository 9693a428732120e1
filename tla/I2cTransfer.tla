----------------------------- MODULE I2cTransfer -----------------------------
(***************************************************************************)
(* What i2c_master_cmd_begin (esp-idf/components/driver/i2c.c) promises    *)
(* the display's byte callback: the steps of a command link go on the wire *)
(* in their order, ESP_OK is returned only when all of them have, and a    *)
(* call that fails has put some first part of them there.                  *)
(***************************************************************************)
EXTENDS Naturals

CONSTANT N          \* steps of a link: start, bytes, stop

VARIABLES
    phase,          \* "idle", "busy": in the call, "failed": it asserted
    sent            \* how many steps of the link are on the wire

vars == <<phase, sent>>

Init == phase = "idle" /\ sent = 0

Begin == phase = "idle" /\ phase' = "busy" /\ sent' = 0

Send ==
    /\ phase = "busy" /\ sent < N
    /\ sent' = sent + 1 /\ UNCHANGED phase

Succeed == phase = "busy" /\ sent = N /\ phase' = "idle" /\ UNCHANGED sent

Fail == phase = "busy" /\ phase' = "failed" /\ UNCHANGED sent

\* ESP_ERROR_CHECK ends in a panic and a reboot.
Reboot == phase = "failed" /\ phase' = "idle" /\ sent' = 0

Next == Begin \/ Send \/ Succeed \/ Fail \/ Reboot

Spec == Init /\ [][Next]_vars
=============================================================================
