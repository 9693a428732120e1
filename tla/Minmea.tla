-------------------------------- MODULE Minmea --------------------------------
(***************************************************************************)
(* The fixed-point numbers of libs/minmea: a pair [value, scale] stands    *)
(* for value / scale, and scale = 0 for a field that was empty.            *)
(***************************************************************************)
EXTENDS Integers

CONSTANT IntMax     \* INT_LEAST32_MAX

ASSUME IntMaxAssumption == IntMax \in Nat /\ IntMax >= 10

\* uint32_t counts modulo this.
U32 == 2 * (IntMax + 1)

\* Signed arithmetic that overflows wraps around in the build.
Wrap(n) == IF n % U32 > IntMax THEN (n % U32) - U32 ELSE n % U32

\* Division of C: towards zero, for a positive divisor.
CDiv(a, b) == IF a >= 0 THEN a \div b ELSE -((-a) \div b)

Sign(a) == IF a > 0 THEN 1 ELSE IF a < 0 THEN -1 ELSE 0

\* Mutant: half of the divisor is not added before dividing.
minmea_rescale_truncate(f, new_scale) ==
    IF f.scale = 0 THEN 0
    ELSE IF f.scale > new_scale THEN CDiv(f.value, f.scale \div new_scale)
    ELSE Wrap(f.value * (new_scale \div f.scale))

\* The multiplication by the sign binds to f.scale before the two divisions.
minmea_rescale(f, new_scale) ==
    IF f.scale = 0 THEN 0
    ELSE IF f.scale = new_scale THEN f.value
    ELSE IF f.scale > new_scale
    THEN CDiv(Wrap(f.value + CDiv(CDiv(Sign(f.value) * f.scale, new_scale), 2)),
              f.scale \div new_scale)
    ELSE Wrap(f.value * (new_scale \div f.scale))
=============================================================================
