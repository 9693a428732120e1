---------------------------- MODULE SpeedConversion ----------------------------
(***************************************************************************)
(* From the speed of an RMC sentence, a fixed-point number of knots, to    *)
(* ext_speed, thousandths of km/h (src/hw/hw_gps.c), from one sentence to  *)
(* the next.                                                               *)
(***************************************************************************)
EXTENDS Minmea

CONSTANT
    Speeds      \* frame.speed of the sentences

ASSUME SpeedsAssumption ==
    \A f \in Speeds : f.value \in Int /\ f.scale \in Nat

VARIABLES speed, ext_speed

Rescaled(f) == minmea_rescale(f, 1000)

\* Mutant: the division comes first.
Convert_divFirst(f) == (((Rescaled(f) % U32) \div 1000) * 1852) % U32

\* Mutant: the product is kept in half the bits.
Convert_narrow(f) == (((Rescaled(f) % U32) * 1852) % (U32 \div 2)) \div 1000

\* ext_speed = minmea_rescale(&frame.speed, 1000), then *= 1852 and /= 1000
Convert(f) == (((Rescaled(f) % U32) * 1852) % U32) \div 1000

FirstSentence == speed \in Speeds /\ ext_speed = Convert(speed)

Sentence == \E f \in Speeds : speed' = f /\ ext_speed' = Convert(f)

Conversions == FirstSentence /\ [][Sentence]_<<speed, ext_speed>>

-----------------------------------------------------------------------------
Abs(n) == IF n < 0 THEN -n ELSE n
Faster(f, g) == g.value * f.scale > f.value * g.scale

\* minmea_scan multiplies a scale of 1 by 10 for each decimal, so that 1000 and
\* the scale divide one another, as long as it has not overflowed.
DecimalScale(s) == s \in {1, 10, 100} \/ (s > 0 /\ s % 1000 = 0)

\* No intermediate result of minmea_rescale overflows.
Rescalable(f) ==
    /\ DecimalScale(f.scale)
    /\ IF f.scale > 1000 THEN Abs(f.value) + f.scale \div 2000 <= IntMax
                         ELSE Abs(f.value) * (1000 \div f.scale) <= IntMax

\* The product with 1852 stays below 2^32 up to about 2319 knots.
InRange(f) == Rescalable(f) /\ f.value >= 0 /\ Rescaled(f) * 1852 < U32

(* minmea_rescale gives the nearest multiple of 1/new_scale: for -123.456  *)
(* and scale 10 the README of libs/minmea says -1235 (the comment above    *)
(* the function, "Rounds towards zero", is not right).                     *)
Nearest == Rescalable(speed) =>
    2 * Abs(Rescaled(speed) * speed.scale - speed.value * 1000) <= speed.scale

(* The two roundings and the unsigned arithmetic cost less than two        *)
(* thousandths of a km/h.                                                  *)
KmhAccurate == InRange(speed) =>
    Abs(ext_speed * speed.scale - speed.value * 1852) < 2 * speed.scale

(* A sentence with a higher speed never makes ext_speed smaller, whatever  *)
(* number of decimals the two have.                                        *)
Monotone == [][InRange(speed) /\ InRange(speed') /\ Faster(speed, speed')
                 => ext_speed' >= ext_speed]_<<speed, ext_speed>>
=============================================================================
