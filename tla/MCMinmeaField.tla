---------------------------- MODULE MCMinmeaField ----------------------------
(* All fields of up to MaxLen characters of an alphabet whose digits 0, 1   *)
(* and 9 make numbers on both sides of the bound IntMax = 108 (101, 109).   *)
EXTENDS MinmeaField

CONSTANT MaxLen
Alphabet == {Plus, Minus, Dot, Space, 48, 49, 57, 120}
MCTexts == UNION {[1 .. n -> Alphabet] : n \in 0 .. MaxLen}
=============================================================================
