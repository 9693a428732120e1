---------------------------- MODULE SettingStore -----------------------------
(***************************************************************************)
(* What the settings store promises whoever keeps a value in it            *)
(* (ArduinoNvs over nvs_flash): a value changes only as a call asks for,   *)
(* a call that returns true has changed all it was asked to, and the power *)
(* may go at any moment without another value being lost.                  *)
(***************************************************************************)
EXTENDS Naturals

CONSTANTS
    AllKeys,        \* every key in the partition
    Namespace,      \* the key that is there once the namespace was opened
    None            \* no value

VARIABLES
    store,          \* the value of each key
    open,           \* begin has succeeded since the power came on
    req             \* the changes <<key, value>> the running call may make

vars == <<store, open, req>>

Init == store \in [AllKeys -> Nat] /\ open = FALSE /\ req = {}

Call == req = {} /\ req' # {} /\ UNCHANGED <<store, open>>

(* Before the namespace is open only begin may change something: it        *)
(* creates the namespace or, if it was never there, erases the partition.  *)
Maintains ==
    /\ store[Namespace] = None
    /\ \/ \A c \in req : c[1] = Namespace
       \/ \A c \in req : c[2] = None

Change ==
    /\ \E new \in {store'}, was \in {store} :
        /\ DOMAIN new = AllKeys
        /\ \A k \in AllKeys : new[k] # was[k] =>
              <<k, new[k]>> \in req /\ (open \/ Maintains)
    /\ UNCHANGED <<open, req>>

Succeed ==
    /\ \A c \in req : store[c[1]] = c[2]
    /\ req' = {} /\ open' \in {open, TRUE}
    /\ UNCHANGED store

Fail == req' = {} /\ UNCHANGED <<store, open>>

\* close, or the power goes.
Leave == req' = {} /\ open' = FALSE /\ UNCHANGED store

Next == Call \/ Change \/ Succeed \/ Fail \/ Leave

Spec == Init /\ [][Next]_vars
=============================================================================
