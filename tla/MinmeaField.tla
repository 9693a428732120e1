------------------------------ MODULE MinmeaField ------------------------------
(***************************************************************************)
(* The scanner of a fractional field, case 'f' of minmea_scan in           *)
(* libs/minmea/minmea.c, a character per step.  It is what stands between  *)
(* the text of the speed in an RMC sentence and the number the firmware    *)
(* works with.  Characters are their ASCII codes.                          *)
(***************************************************************************)
EXTENDS Minmea, Sequences, FiniteSets

CONSTANT
    Texts       \* the fields to scan, without the comma that ends them

\* Characters minmea_isfield accepts.
FieldChars == (32 .. 126) \ {42, 44}

ASSUME FieldAssumption ==
    Texts \subseteq Seq(FieldChars)

VARIABLES
    field,      \* the text
    pos,        \* the character *field is at
    sign, value, scale,
    st          \* "scan", "end" (the loop is left), "ok", "error"

vars == <<field, pos, sign, value, scale, st>>

Plus == 43
Minus == 45
Dot == 46
Space == 32
isdigit(c) == c \in 48 .. 57

Init ==
    /\ field \in Texts /\ pos = 1
    /\ sign = 0 /\ value = -1 /\ scale = 0 /\ st = "scan"

At(c) == st = "scan" /\ pos <= Len(field) /\ field[pos] = c

Fail == st' = "error" /\ UNCHANGED <<field, pos, sign, value, scale>>

-----------------------------------------------------------------------------
SignAllowed == sign = 0 /\ value = -1

ScanSign ==
    /\ At(Plus) \/ At(Minus)
    /\ IF SignAllowed
       THEN /\ sign' = IF field[pos] = Plus THEN 1 ELSE -1
            /\ pos' = pos + 1
            /\ UNCHANGED <<field, value, scale, st>>
       ELSE Fail

\* A value without digits so far counts as 0.
Digits == IF value = -1 THEN 0 ELSE value

\* Mutant: the test ignores the digit.
RanOut_noDigit(d) == Digits > IntMax \div 10
RanOut(d) == Digits > (IntMax - d) \div 10

Accept(d, scaled) ==
    /\ value' = 10 * Digits + d
    /\ scale' = scaled
    /\ pos' = pos + 1
    /\ UNCHANGED <<field, sign, st>>

\* Out of bits: the rest of the fraction is dropped, an integer is refused.
StopAt ==
    IF scale # 0
    THEN st' = "end" /\ value' = Digits /\ UNCHANGED <<field, pos, sign, scale>>
    ELSE Fail

\* Mutant: the point does not start the scaling.
ScanDigit_scaleLate ==
    /\ st = "scan" /\ pos <= Len(field) /\ isdigit(field[pos])
    /\ LET d == field[pos] - 48
       IN  IF RanOut(d) THEN StopAt
           ELSE Accept(d, IF scale > 1 THEN Wrap(10 * scale) ELSE scale)

\* scale *= 10 is not tested for overflow.
ScanDigit ==
    /\ st = "scan" /\ pos <= Len(field) /\ isdigit(field[pos])
    /\ LET d == field[pos] - 48
       IN  IF RanOut(d) THEN StopAt
           ELSE Accept(d, IF scale # 0 THEN Wrap(10 * scale) ELSE 0)

ScanDot ==
    /\ At(Dot)
    /\ IF scale = 0
       THEN scale' = 1 /\ pos' = pos + 1 /\ UNCHANGED <<field, sign, value, st>>
       ELSE Fail

\* Mutant: spaces are skipped anywhere.
ScanSpace_anywhere ==
    /\ At(Space)
    /\ pos' = pos + 1 /\ UNCHANGED <<field, sign, value, scale, st>>

\* Spaces are allowed at the start of the field.
ScanSpace ==
    /\ At(Space)
    /\ IF sign # 0 \/ value # -1 \/ scale # 0 THEN Fail
       ELSE pos' = pos + 1 /\ UNCHANGED <<field, sign, value, scale, st>>

ScanOther ==
    /\ st = "scan" /\ pos <= Len(field)
    /\ ~isdigit(field[pos]) /\ field[pos] \notin {Plus, Minus, Dot, Space}
    /\ Fail

EndOfField ==
    /\ st = "scan" /\ pos > Len(field)
    /\ st' = "end" /\ UNCHANGED <<field, pos, sign, value, scale>>

\* After the loop.
Finish ==
    /\ st = "end"
    /\ IF (sign # 0 \/ scale # 0) /\ value = -1 THEN Fail
       ELSE /\ value' = IF value = -1 THEN 0
                        ELSE IF sign = 0 THEN value ELSE value * sign
            /\ scale' = IF value = -1 THEN 0
                        ELSE IF scale = 0 THEN 1 ELSE scale
            /\ st' = "ok"
            /\ UNCHANGED <<field, pos, sign>>

Next ==
    \/ ScanSign \/ ScanDigit \/ ScanDot \/ ScanSpace \/ ScanOther
    \/ EndOfField \/ Finish

Spec == Init /\ [][Next]_vars

-----------------------------------------------------------------------------
(* The reference: what decimal number the first k characters of t are.     *)

\* Their digits read as one number, the other characters left out.
Number(t, k) ==
    LET n[j \in 0 .. Len(t)] ==
          IF j = 0 THEN 0
          ELSE IF isdigit(t[j]) THEN 10 * n[j - 1] + (t[j] - 48) ELSE n[j - 1]
    IN  n[k]

Has(t, k, S) == \E j \in 1 .. k : t[j] \in S
Signs == {Plus, Minus}
DigitChars == 48 .. 57

Decimals(t, k) ==
    Cardinality({j \in 1 .. k : t[j] \in DigitChars /\ Has(t, j, {Dot})})

Power10[n \in Nat] == IF n = 0 THEN 1 ELSE 10 * Power10[n - 1]

\* Spaces, then digits with at most one point and one sign; the sign is before
\* every digit (the scanner lets a point precede it).
InOrder(t, k) ==
    /\ \A i \in 1 .. k : t[i] \in DigitChars \cup Signs \cup {Dot, Space}
    /\ \A i, j \in 1 .. k :
         /\ t[i] = Space /\ t[j] # Space => i < j
         /\ t[i] \in Signs /\ t[j] \in DigitChars => i < j
         /\ t[i] \in Signs /\ t[j] \in Signs => i = j
         /\ t[i] = Dot /\ t[j] = Dot => i = j

WellFormed(t, k) ==
    /\ InOrder(t, k)
    /\ Has(t, k, Signs \cup {Dot}) => Has(t, k, DigitChars)

\* How much of the text fits: all before the digit that would exceed IntMax.
Fits(t, k) == \A j \in 0 .. k : Number(t, j) <= IntMax
Kept(t) == CHOOSE k \in 0 .. Len(t) : Fits(t, k) /\ (k = Len(t) \/ ~Fits(t, k + 1))

Representable(t, k) == Power10[Decimals(t, k)] <= IntMax
ScaleRepresentable == Representable(field, Kept(field))

-----------------------------------------------------------------------------
(* The value never overflows: the test against (INT_LEAST32_MAX-digit)/10  *)
(* is exact, whatever digits follow.                                       *)
ValueFits == value \in -IntMax .. IntMax

(* A field is accepted exactly if what fits of it is a decimal number, and *)
(* only digits after the point may be dropped.                             *)
Accepted ==
    LET k == Kept(field)
    IN  st \in {"ok", "error"} /\ ScaleRepresentable =>
          (st = "ok" <=> WellFormed(field, k)
                         /\ (k = Len(field) \/ Has(field, k, {Dot})))

(* An accepted field is the number it says: value / scale, the dropped     *)
(* digits aside; an empty field has scale 0.                               *)
Decoded ==
    LET k == Kept(field)
    IN  st = "ok" /\ ScaleRepresentable =>
          /\ value = (IF Has(field, k, {Minus}) THEN -Number(field, k)
                                              ELSE Number(field, k))
          /\ scale = (IF Has(field, k, DigitChars) THEN Power10[Decimals(field, k)]
                                                 ELSE 0)

(* "truncate extra precision": the scale stays an int_least32_t too.       *)
ScaleFits == st = "ok" => ScaleRepresentable
=============================================================================
