------------------------------ MODULE MinmeaScan ------------------------------
(***************************************************************************)
(* The NMEA parser, libs/minmea/minmea.c, from a line to a frame:          *)
(* minmea_check, minmea_sentence_id, and minmea_scan under one of the      *)
(* minmea_parse functions, a field per step.  A field is the class of its  *)
(* text and the number of the field the receiver sent, or Cut: task_gps    *)
(* takes what one interrupt of the UART delivered for a line, so that a    *)
(* sentence may end anywhere, its checksum not yet there.                  *)
(***************************************************************************)
EXTENDS Naturals, Sequences

CONSTANT Lines      \* the lines to parse: [kind, fields, star]

-----------------------------------------------------------------------------
(* Texts: no character; up to five digits; six; six and a fraction; more   *)
(* digits than an int32 holds; a number with a point; a sign alone; one of *)
(* N, E, S, W; other text; "$", talker and kind.                           *)
Classes == {"empty", "int", "six", "sixfrac", "huge", "dec", "sign", "dir",
            "chr", "id"}

\* The classes of what may be left of a text whose end is missing.
CutTo(c) ==
    CASE c \in {"int"}      -> {"empty", "int"}
      [] c \in {"six"}      -> {"empty", "int"}
      [] c \in {"sixfrac"}  -> {"empty", "int", "six", "sixfrac"}
      [] c \in {"huge"}     -> {"empty", "int", "six", "huge"}
      [] c \in {"dec"}      -> {"empty", "int", "sign", "dec"}
      [] c \in {"id"}       -> {"empty", "chr"}
      [] OTHER              -> {"empty"}

Cut == 0            \* the source of a field whose end is missing
Absent == 1000      \* the source of an output no field was there for

ASSUME LinesAssumption ==
    \A l \in Lines :
        /\ l.star \in {"none", "part", "bad", "good"}
        /\ l.fields \in Seq([cls : Classes, src : Nat]) /\ l.fields # <<>>
        /\ \A i \in DOMAIN l.fields :
             \/ l.fields[i].src = i
             \/ l.fields[i].src = Cut /\ i = Len(l.fields) /\ l.star = "none"

-----------------------------------------------------------------------------
(* The formats the minmea_parse functions hand to minmea_scan.  The types  *)
(* behind "semi", a ';', are optional; "skip" is a '_'.                    *)
Times(n, t) == [i \in 1 .. n |-> t]

Kinds == {"RMC", "GGA", "GSA", "GLL", "GST", "GSV", "VTG"}

format(kind) ==
    CASE kind = "RMC" -> <<"t","T","c","f","d","f","d","f","f","D","f","d">>
      [] kind = "GGA" -> <<"t","T","f","d","f","d","i","i","f","f","c","f",
                           "c","i","skip">>
      [] kind = "GSA" -> <<"t","c">> \o Times(13, "i") \o Times(3, "f")
      [] kind = "GLL" -> <<"t","f","d","f","d","T","c","semi","c">>
      [] kind = "GST" -> <<"t","T">> \o Times(7, "f")
      [] kind = "GSV" -> <<"t","i","i","i","semi">> \o Times(16, "i")
      [] kind = "VTG" -> <<"t","f","c","f","c","f","c","f","c","semi","c">>

\* The texts each case of the switch takes.
Numbers == {"int", "six", "sixfrac", "dec"}
Accepts(type) ==
    CASE type \in {"c", "skip"} -> Classes
      [] type = "d"          -> {"empty", "dir"}
      [] type = "f"          -> {"empty"} \cup Numbers
      [] type = "i"          -> {"empty", "int", "six", "huge"}
      [] type = "t"          -> {"id"}
      [] type \in {"D", "T"} -> {"empty", "six", "sixfrac", "huge"}

-----------------------------------------------------------------------------
VARIABLES
    line,
    st,         \* "check", "id", "scan", "ok", "unknown" or "error"
    parser,     \* the minmea_parse function that was called
    fpos,       \* how far minmea_scan is in the format
    field,      \* the field it is at; past the last one: NULL
    optional,
    out         \* sources of the outputs written so far

vars == <<line, st, parser, fpos, field, optional, out>>

Init ==
    /\ line \in Lines /\ st = "check" /\ parser = "RMC"
    /\ fpos = 1 /\ field = 1 /\ optional = FALSE /\ out = <<>>

Fields == line.fields
NFields == Len(Fields)
Goto(s) == st' = s
ScanOnly == UNCHANGED <<line, parser>>

\* Neither overlong nor unprintable lines are looked at.
minmea_check(strict) ==
    /\ line.star \notin {"part", "bad"}
    /\ strict => line.star # "none"

\* minmea_sentence_id(line, false)
Check ==
    /\ st = "check"
    /\ IF minmea_check(FALSE) THEN Goto("id") ELSE Goto("error")
    /\ ScanOnly /\ UNCHANGED <<fpos, field, optional, out>>

\* Any parser may be called; a firmware calls the one for the kind.
SentenceId ==
    /\ st = "id"
    /\ IF Fields[1].cls # "id" THEN Goto("error") /\ UNCHANGED parser
       ELSE IF line.kind \notin Kinds THEN Goto("unknown") /\ UNCHANGED parser
       ELSE Goto("scan") /\ parser' \in Kinds
    /\ UNCHANGED <<line, fpos, field, optional, out>>

-----------------------------------------------------------------------------
(* minmea_scan.                                                            *)
AtType == st = "scan" /\ fpos <= Len(format(parser))
type == format(parser)[fpos]
Present == field <= NFields

Optional ==
    /\ AtType /\ type = "semi"
    /\ optional' = TRUE /\ fpos' = fpos + 1
    /\ ScanOnly /\ UNCHANGED <<st, field, out>>

Bails == AtType /\ type # "semi" /\ ~Present /\ (~optional \/ type = "t")

OutOfInput ==
    /\ Bails /\ Goto("error")
    /\ ScanOnly /\ UNCHANGED <<fpos, field, optional, out>>

BadField ==
    /\ AtType /\ type # "semi" /\ Present
    /\ Fields[field].cls \notin Accepts(type)
    /\ Goto("error")
    /\ ScanOnly /\ UNCHANGED <<fpos, field, optional, out>>

\* Mutant: fields without text are passed over.
next_field_skipsEmpty ==
    field' = IF field < NFields /\ Fields[field + 1].cls = "empty"
             THEN field + 2 ELSE field + 1

\* NULL stays NULL: the sentence is at its end.
next_field == field' = IF Present THEN field + 1 ELSE field

\* Mutant: missing fields get their defaults, as behind a ';'.
Convert_lenient ==
    /\ AtType /\ type # "semi"
    /\ Present => Fields[field].cls \in Accepts(type)
    /\ out' = Append(out, IF Present THEN Fields[field].src ELSE Absent)
    /\ fpos' = fpos + 1 /\ next_field
    /\ ScanOnly /\ UNCHANGED <<st, optional>>

Convert ==
    /\ AtType /\ type # "semi" /\ ~Bails
    /\ Present => Fields[field].cls \in Accepts(type)
    /\ out' = Append(out, IF Present THEN Fields[field].src ELSE Absent)
    /\ fpos' = fpos + 1 /\ next_field
    /\ ScanOnly /\ UNCHANGED <<st, optional>>

\* minmea_parse_vtg compares the four units: each field is there and whole.
Units == {3, 5, 7, 9}
UnitsOk == \A i \in Units : out[i] = i /\ Fields[i].cls \in {"chr", "dir"}

ParseOk == parser = line.kind /\ (parser = "VTG" => UnitsOk)

Finish ==
    /\ st = "scan" /\ fpos = Len(format(parser)) + 1
    /\ IF ParseOk THEN Goto("ok") ELSE Goto("error")
    /\ ScanOnly /\ UNCHANGED <<fpos, field, optional, out>>

Next == Check \/ SentenceId \/ Optional \/ OutOfInput \/ BadField \/ Convert
        \/ Finish

Spec == Init /\ [][Next]_vars

-----------------------------------------------------------------------------
(* The description of a format, without its scanner.                       *)

\* Type i stands behind the ';', which is for no field.
Behind(kind, i) == \E j \in 1 .. i - 1 : format(kind)[j] = "semi"
FieldOf(kind, i) == IF Behind(kind, i) THEN i - 1 ELSE i
TypesOf(kind) == {i \in DOMAIN format(kind) : format(kind)[i] # "semi"}

\* Type i reads its field, or may do without.
Reads(kind, i) ==
    LET n == FieldOf(kind, i)
    IN  IF n <= NFields THEN Fields[n].cls \in Accepts(format(kind)[i])
        ELSE Behind(kind, i)

-----------------------------------------------------------------------------
(* What a parser accepts is what was sent: a line of its kind without a    *)
(* wrong checksum or a part of one, every output written, each from its    *)
(* own field; only the last field there is may lack its end, and only when *)
(* no checksum came with it.                                               *)
AcceptedAsSent ==
    st = "ok" =>
        /\ line.star \in {"good", "none"} /\ line.kind = parser
        /\ DOMAIN out = {FieldOf(parser, i) : i \in TypesOf(parser)}
        /\ \A i \in DOMAIN out :
            \/ out[i] = i
            \/ out[i] = Absent /\ i > NFields
            \/ out[i] = Cut /\ i = NFields /\ line.star = "none"

(* What task_gps uses of an RMC sentence, the validity and the speed, is   *)
(* what the receiver sent, wherever the line was cut, although task_gps    *)
(* asks for no checksum.                                                   *)
RmcUsedIntact ==
    st = "ok" /\ parser = "RMC" =>
        Len(out) = 12 /\ \A i \in 1 .. 11 : out[i] = i

(* The scanner decides as the description of the format does: a field for  *)
(* every type before the ';', and all of them readable.                    *)
Readable(kind) == \A i \in TypesOf(kind) : Reads(kind, i)
DecidesAsFormat ==
    /\ st = "ok" => Readable(parser)
    /\ st = "error" /\ minmea_check(FALSE) /\ Fields[1].cls = "id"
          /\ line.kind = parser /\ parser # "VTG" => ~Readable(parser)
=============================================================================
