---------------------------- MODULE PanelPicture ----------------------------
(***************************************************************************)
(* What u8g2_UpdateDisplay promises its caller: the cells of the panel     *)
(* take the picture of the frame buffer one after the other, a picture is  *)
(* begun only when the last one is complete, and a restart, which may come *)
(* at any cell, begins with the blank one.                                 *)
(***************************************************************************)
EXTENDS Naturals

CONSTANTS
    M,              \* cells of the panel
    Pictures, Blank,
    Content(_, _)   \* Content(p, i): what cell i shows of picture p

VARIABLES screen, pic, done

vars == <<screen, pic, done>>

Cells == 0 .. M - 1

Overlay(n) == [i \in Cells |-> IF i < n THEN Content(pic, i) ELSE screen[i]]

\* What the panel holds at power-up is not known.
Init == DOMAIN screen = Cells /\ pic = Blank /\ done = 0

Write == \E n \in done + 1 .. M :
    screen' = Overlay(n) /\ done' = n /\ UNCHANGED pic

NewPicture ==
    /\ done = M
    /\ pic' \in Pictures /\ done' = 0 /\ UNCHANGED screen

Restart == \E n \in done .. M :
    screen' = Overlay(n) /\ pic' = Blank /\ done' = 0

Next == Write \/ NewPicture \/ Restart

Spec == Init /\ [][Next]_vars
=============================================================================
