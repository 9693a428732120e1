--------------------------- MODULE MCSpeedConversion ---------------------------
(* Speeds with no to five decimals, negative ones too, whose last digits     *)
(* cover every remainder of the divisions by 10 and some of those by 100.    *)
EXTENDS SpeedConversion

Values == (-20 .. 60) \cup {945, 949, 950, 951, 1049, 1050, 1051, 9999,
                          IntMax - 30, IntMax}
MCSpeeds == {[value |-> v, scale |-> 10 ^ k] : v \in Values, k \in 0 .. 5}
            \cup {[value |-> 0, scale |-> 0]}
=============================================================================
