---------------------------- MODULE MCMinmeaScan ----------------------------
(* A sentence of each kind as in the comments of minmea.c, each with no,   *)
(* one or all fields but the first empty, with a further field, and then   *)
(* whole, with a wrong checksum, or cut anywhere.                          *)
EXTENDS MinmeaScan

Sample(kind) ==
    CASE kind = "RMC" -> <<"id", "sixfrac", "chr", "dec", "dir", "dec", "dir",
                           "dec", "dec", "six", "dec", "dir">>
      [] kind = "GGA" -> <<"id", "six", "dec", "dir", "dec", "dir", "int",
                           "int", "dec", "dec", "chr", "dec", "chr", "int",
                           "int">>
      [] kind = "GSA" -> <<"id", "chr">> \o Times(13, "int") \o Times(3, "dec")
      [] kind = "GLL" -> <<"id", "dec", "dir", "dec", "dir", "sixfrac", "chr",
                           "chr">>
      [] kind = "GST" -> <<"id", "sixfrac">> \o Times(7, "dec")
      [] kind = "GSV" -> <<"id">> \o Times(11, "int")
      [] kind = "VTG" -> <<"id", "dec", "chr", "dec", "chr", "dec", "dir",
                           "dec", "chr", "chr">>
      [] kind = "TXT" -> <<"id", "int", "chr", "sign", "huge">>

Whole(cs) == [i \in 1 .. Len(cs) |-> [cls |-> cs[i], src |-> i]]

\* One field, or all but the first, without text; one field too many.
Variants(cs) ==
    {cs, cs \o <<"chr">>,
     [i \in 1 .. Len(cs) |-> IF i = 1 THEN cs[1] ELSE "empty"]}
    \cup {[cs EXCEPT ![j] = "empty"] : j \in 2 .. Len(cs)}

Sent(kind) == {Whole(cs) : cs \in Variants(Sample(kind))}

\* What is left when the line ends in field j.
Ends(fs) ==
    UNION {{SubSeq(fs, 1, j - 1) \o <<[cls |-> c, src |-> Cut]>>
              : c \in CutTo(fs[j].cls)} : j \in 1 .. Len(fs)}

AllLines ==
    UNION {{[kind |-> kd, fields |-> fs, star |-> s]
               : fs \in Sent(kd), s \in {"good", "bad", "part", "none"}}
           \cup {[kind |-> kd, fields |-> e, star |-> "none"]
               : e \in UNION {Ends(fs) : fs \in Sent(kd)}}
           : kd \in Kinds \cup {"TXT"}}
=============================================================================
