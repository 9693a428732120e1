--------------------------- MODULE MinmeaScanProofs ---------------------------
(***************************************************************************)
(* What the parser accepts, for every line: any number of fields, any      *)
(* texts in them, cut anywhere, under any of the minmea_parse functions.   *)
(***************************************************************************)
EXTENDS MinmeaScan, TLAPS

-----------------------------------------------------------------------------
(* The formats.                                                            *)

\* What the proofs need to know of a format.
SoundFormat(F) ==
    /\ Len(F) \in Nat /\ DOMAIN F = 1 .. Len(F) /\ Len(F) > 0 /\ F[1] # "semi"
    /\ \A i, j \in DOMAIN F : F[i] = "semi" /\ F[j] = "semi" => i = j
    /\ \A i \in DOMAIN F : F[i] = "t" => i = 1

(* Every format has one ';' at most, and the only 't' comes first.         *)
LEMMA Formats == \A kind \in Kinds : SoundFormat(format(kind))
<1>1. SoundFormat(format("RMC"))
  <2>1. format("RMC") = <<"t","T","c","f","d","f","d","f","f","D","f","d">>
    BY DEF format
  <2>. QED  BY <2>1 DEF SoundFormat
<1>2. SoundFormat(format("GGA"))
  <2>1. format("GGA") = <<"t","T","f","d","f","d","i","i","f","f","c","f",
                          "c","i","skip">>
    BY DEF format
  <2>. QED  BY <2>1 DEF SoundFormat
<1>3. SoundFormat(format("GSA"))
  <2>1. format("GSA") = <<"t","c">> \o Times(13, "i") \o Times(3, "f")
    BY DEF format
  <2>2. Len(format("GSA")) = 18 /\ DOMAIN format("GSA") = 1 .. 18
    BY <2>1 DEF Times
  <2>3. \A i \in 1 .. 18 : format("GSA")[i] # "semi"
    BY <2>1 DEF Times
  <2>4. \A i \in 1 .. 18 : format("GSA")[i] = "t" => i = 1
    BY <2>1 DEF Times
  <2> DEFINE F == format("GSA")
  <2>5. F[1] # "semi"
    BY <2>3
  <2>6. \A i, j \in DOMAIN F : F[i] = "semi" /\ F[j] = "semi" => i = j
    BY <2>2, <2>3
  <2>7. \A i \in DOMAIN F : F[i] = "t" => i = 1
    BY <2>2, <2>4
  <2> HIDE DEF F
  <2>. QED  BY <2>2, <2>5, <2>6, <2>7 DEF SoundFormat, F
<1>4. SoundFormat(format("GLL"))
  <2>1. format("GLL") = <<"t","f","d","f","d","T","c","semi","c">>
    BY DEF format
  <2>. QED  BY <2>1 DEF SoundFormat
<1>5. SoundFormat(format("GST"))
  <2>1. format("GST") = <<"t","T">> \o Times(7, "f")
    BY DEF format
  <2>2. Len(format("GST")) = 9 /\ DOMAIN format("GST") = 1 .. 9
    BY <2>1 DEF Times
  <2>3. \A i \in 1 .. 9 : format("GST")[i] # "semi"
    BY <2>1 DEF Times
  <2>4. \A i \in 1 .. 9 : format("GST")[i] = "t" => i = 1
    BY <2>1 DEF Times
  <2> DEFINE F == format("GST")
  <2>5. F[1] # "semi"
    BY <2>3
  <2>6. \A i, j \in DOMAIN F : F[i] = "semi" /\ F[j] = "semi" => i = j
    BY <2>2, <2>3
  <2>7. \A i \in DOMAIN F : F[i] = "t" => i = 1
    BY <2>2, <2>4
  <2> HIDE DEF F
  <2>. QED  BY <2>2, <2>5, <2>6, <2>7 DEF SoundFormat, F
<1>6. SoundFormat(format("GSV"))
  <2>1. format("GSV") = <<"t","i","i","i","semi">> \o Times(16, "i")
    BY DEF format
  <2>2. Len(format("GSV")) = 21 /\ DOMAIN format("GSV") = 1 .. 21
    BY <2>1 DEF Times
  <2>3. \A i \in 1 .. 21 : format("GSV")[i] = "semi" => i = 5
    BY <2>1 DEF Times
  <2>4. \A i \in 1 .. 21 : format("GSV")[i] = "t" => i = 1
    BY <2>1 DEF Times
  <2> DEFINE F == format("GSV")
  <2>5. F[1] # "semi"
    BY <2>3
  <2>6. \A i, j \in DOMAIN F : F[i] = "semi" /\ F[j] = "semi" => i = j
    BY <2>2, <2>3
  <2>7. \A i \in DOMAIN F : F[i] = "t" => i = 1
    BY <2>2, <2>4
  <2> HIDE DEF F
  <2>. QED  BY <2>2, <2>5, <2>6, <2>7 DEF SoundFormat, F
<1>7. SoundFormat(format("VTG"))
  <2>1. format("VTG") = <<"t","f","c","f","c","f","c","f","c","semi","c">>
    BY DEF format
  <2>. QED  BY <2>1 DEF SoundFormat
<1>. QED  BY <1>1, <1>2, <1>3, <1>4, <1>5, <1>6, <1>7 DEF Kinds

(* RMC has twelve types and no ';'.                                        *)
LEMMA RmcFormat ==
    Len(format("RMC")) = 12 /\ \A i \in 1 .. 12 : format("RMC")[i] # "semi"
<1>1. format("RMC") = <<"t","T","c","f","d","f","d","f","f","D","f","d">>
  BY DEF format
<1>. QED  BY <1>1

-----------------------------------------------------------------------------
(* The inductive invariant.                                                *)

\* How far the format, the fields and the outputs are: they go together, but
\* for the ';' and the fields that are not there.
Position ==
    /\ line \in Lines /\ parser \in Kinds
    /\ st \in {"check", "id", "scan", "ok", "unknown", "error"}
    /\ fpos \in 1 .. Len(format(parser)) + 1
    /\ st \in {"check", "id"} => fpos = 1
    /\ optional \in BOOLEAN /\ (optional <=> Behind(parser, fpos))
    /\ out \in Seq(Nat) /\ Len(out) + 1 = FieldOf(parser, fpos)
    /\ field = IF Len(out) < NFields THEN Len(out) + 1 ELSE NFields + 1

\* Where the output for field i may come from.
FromField(i, src) ==
    \/ src = i
    \/ src = Absent /\ i > NFields
    \/ src = Cut /\ i = NFields /\ line.star = "none"

Sources == \A i \in 1 .. Len(out) : FromField(i, out[i])

\* The types that were scanned have read their fields.
Passed == \A i \in 1 .. fpos - 1 : i \in TypesOf(parser) => Reads(parser, i)

\* What each outcome says of the line.
Verdict ==
    /\ st \notin {"check", "error"} => minmea_check(FALSE)
    /\ st = "ok" => fpos = Len(format(parser)) + 1 /\ line.kind = parser
    /\ st = "error" =>
         \/ ~minmea_check(FALSE) \/ Fields[1].cls # "id"
         \/ line.kind # parser \/ parser = "VTG" \/ ~Readable(parser)

ScanInv == Position /\ Sources /\ Passed /\ Verdict

(* The lines minmea_sentence_id is given.                                  *)
LEMMA LineIs ==
    ASSUME line \in Lines
    PROVE  /\ NFields \in Nat /\ NFields > 0
           /\ \A i \in 1 .. NFields : Fields[i].src \in Nat
                                      /\ FromField(i, Fields[i].src)
           /\ line.star \in {"none", "part", "bad", "good"}
<1>1. line.fields \in Seq([cls : Classes, src : Nat]) /\ line.fields # <<>>
  BY LinesAssumption
<1>2. NFields \in Nat /\ NFields > 0 /\ DOMAIN Fields = 1 .. NFields
  BY <1>1 DEF NFields, Fields
<1>3. ASSUME NEW i \in 1 .. NFields PROVE Fields[i].src \in Nat
  <2> DEFINE S == [cls : Classes, src : Nat]
  <2>1. line.fields \in Seq(S) /\ i \in 1 .. Len(line.fields)
    BY <1>1 DEF NFields, Fields
  <2> HIDE DEF S
  <2>2. line.fields[i] \in S
    BY <2>1
  <2>. QED  BY <2>2 DEF S, Fields
<1>4. \A i \in DOMAIN line.fields :
          \/ line.fields[i].src = i
          \/ line.fields[i].src = Cut /\ i = Len(line.fields) /\ line.star = "none"
  BY LinesAssumption
<1>5. \A i \in 1 .. NFields : FromField(i, Fields[i].src)
  BY <1>2, <1>4 DEF FromField, NFields, Fields
<1>6. line.star \in {"none", "part", "bad", "good"}
  BY LinesAssumption
<1>. QED  BY <1>2, <1>3, <1>5, <1>6

(* From one type of a format to the next.                                  *)
LEMMA NextType ==
    ASSUME NEW kind \in Kinds, NEW p \in 1 .. Len(format(kind))
    PROVE  /\ Len(format(kind)) \in Nat /\ Len(format(kind)) > 0
           /\ ~Behind(kind, 1) /\ FieldOf(kind, 1) = 1
           /\ FieldOf(kind, p) \in Nat /\ FieldOf(kind, p) > 0
           /\ p \in TypesOf(kind) <=> format(kind)[p] # "semi"
           /\ format(kind)[p] = "t" => p = 1
           /\ format(kind)[p] = "semi" =>
                Behind(kind, p + 1) /\ FieldOf(kind, p + 1) = FieldOf(kind, p)
           /\ format(kind)[p] # "semi" =>
                /\ Behind(kind, p + 1) <=> Behind(kind, p)
                /\ FieldOf(kind, p + 1) = FieldOf(kind, p) + 1
<1> DEFINE F == format(kind)
<1>0. SoundFormat(F)
  BY Formats
<1> HIDE DEF F
<1>1. /\ Len(F) \in Nat /\ DOMAIN F = 1 .. Len(F) /\ Len(F) > 0
      /\ \A i, j \in DOMAIN F : F[i] = "semi" /\ F[j] = "semi" => i = j
      /\ \A i \in DOMAIN F : F[i] = "t" => i = 1
  BY <1>0 DEF SoundFormat
<1>2. p \in 1 .. Len(F)
  BY DEF F
<1>3. Behind(kind, p) <=> \E j \in 1 .. p - 1 : F[j] = "semi"
  BY DEF Behind, F
<1>4. Behind(kind, p + 1) <=> \E j \in 1 .. p : F[j] = "semi"
  <2>1. p + 1 - 1 = p
    BY <1>1, <1>2
  <2>. QED  BY <2>1 DEF Behind, F
<1>5. ~Behind(kind, 1) /\ FieldOf(kind, 1) = 1
  BY DEF Behind, FieldOf
<1>6. FieldOf(kind, p) \in Nat /\ FieldOf(kind, p) > 0
  <2>1. Behind(kind, p) => p > 1
    BY <1>1, <1>2, <1>3
  <2>. QED  BY <1>1, <1>2, <2>1 DEF FieldOf
<1>7. p \in TypesOf(kind) <=> F[p] # "semi"
  BY <1>1, <1>2 DEF TypesOf, F
<1>8. ASSUME F[p] = "semi"
      PROVE  Behind(kind, p + 1) /\ FieldOf(kind, p + 1) = FieldOf(kind, p)
  <2>1. ~Behind(kind, p)
    <3> SUFFICES ASSUME NEW j \in 1 .. p - 1, F[j] = "semi" PROVE FALSE
      BY <1>3
    <3>1. j \in DOMAIN F /\ p \in DOMAIN F /\ j # p
      BY <1>1, <1>2
    <3>. QED  BY <1>1, <1>8, <3>1
  <2>2. Behind(kind, p + 1)
    BY <1>1, <1>2, <1>4, <1>8
  <2>. QED  BY <1>1, <1>2, <2>1, <2>2 DEF FieldOf
<1>9. ASSUME F[p] # "semi"
      PROVE  /\ Behind(kind, p + 1) <=> Behind(kind, p)
             /\ FieldOf(kind, p + 1) = FieldOf(kind, p) + 1
  <2>1. \A j \in 1 .. p : j = p \/ j \in 1 .. p - 1
    BY <1>1, <1>2
  <2>2. \A j \in 1 .. p - 1 : j \in 1 .. p
    BY <1>1, <1>2
  <2>3. Behind(kind, p + 1) <=> Behind(kind, p)
    BY <1>3, <1>4, <1>9, <2>1, <2>2
  <2>. QED  BY <1>1, <1>2, <2>3 DEF FieldOf
<1>. QED  BY <1>1, <1>2, <1>5, <1>6, <1>7, <1>8, <1>9 DEF F

(* What is said of the line stays true while the line stays.               *)
LEMMA SameLine ==
    ASSUME UNCHANGED <<line, parser>>
    PROVE  /\ NFields' = NFields /\ Fields' = Fields
           /\ \A i : Reads(parser, i)' <=> Reads(parser, i)
           /\ \A i, x : FromField(i, x)' <=> FromField(i, x)
           /\ minmea_check(FALSE)' <=> minmea_check(FALSE)
           /\ Readable(parser)' <=> Readable(parser)
BY DEF NFields, Fields, Reads, FromField, minmea_check, Readable

(* A type that is accepted, or read over, is one more that has passed.     *)
LEMMA ConvertInv == ASSUME ScanInv, Convert PROVE ScanInv'
<1> USE DEF ScanInv
<1> DEFINE n == FieldOf(parser, fpos)
           x == IF Present THEN Fields[field].src ELSE Absent
<1>0. /\ st = "scan" /\ fpos <= Len(format(parser)) /\ type # "semi" /\ ~Bails
      /\ Present => Fields[field].cls \in Accepts(type)
      /\ out' = Append(out, x) /\ fpos' = fpos + 1 /\ next_field
      /\ UNCHANGED <<line, parser, st, optional>>
  BY DEF Convert, AtType, ScanOnly
<1>1. /\ line \in Lines /\ parser \in Kinds /\ optional \in BOOLEAN
      /\ fpos \in 1 .. Len(format(parser)) + 1
      /\ (optional <=> Behind(parser, fpos))
      /\ out \in Seq(Nat) /\ Len(out) + 1 = n
      /\ field = IF Len(out) < NFields THEN Len(out) + 1 ELSE NFields + 1
  BY DEF Position
<1>2. Len(format(parser)) \in Nat /\ fpos \in 1 .. Len(format(parser))
  <2>1. SoundFormat(format(parser))
    BY <1>1, Formats
  <2>2. Len(format(parser)) \in Nat
    BY <2>1 DEF SoundFormat
  <2>. QED  BY <1>0, <1>1, <2>2
<1>3. /\ n \in Nat /\ n > 0 /\ fpos \in TypesOf(parser)
      /\ (Behind(parser, fpos + 1) <=> Behind(parser, fpos))
      /\ FieldOf(parser, fpos + 1) = n + 1
  BY <1>0, <1>1, <1>2, NextType DEF type
<1> HIDE DEF n
<1>4. /\ NFields \in Nat /\ NFields > 0
      /\ \A i \in 1 .. NFields : Fields[i].src \in Nat
                                 /\ FromField(i, Fields[i].src)
  BY <1>1, LineIs
<1>5. Len(out) \in Nat /\ Len(out) = n - 1
  BY <1>1, <1>3
<1>6. (Present <=> n <= NFields) /\ (Present => field = n)
  BY <1>1, <1>3, <1>4, <1>5 DEF Present
<1>7. x \in Nat /\ FromField(n, x)
  <2>1. CASE Present
    <3>1. n \in 1 .. NFields /\ x = Fields[n].src
      BY <1>3, <1>4, <1>6, <2>1
    <3>. QED  BY <1>4, <3>1
  <2>2. CASE ~Present
    <3>1. n > NFields /\ x = Absent /\ Absent \in Nat
      BY <1>3, <1>4, <1>6, <2>2 DEF Absent
    <3>. QED  BY <3>1 DEF FromField
  <2>. QED  BY <2>1, <2>2
<1> HIDE DEF x
<1>8. /\ out' \in Seq(Nat) /\ Len(out') = n /\ out'[n] = x
      /\ \A i \in 1 .. n - 1 : out'[i] = out[i]
  BY <1>0, <1>1, <1>3, <1>5, <1>7
<1>9. Position'
  <2>1. field' = IF Len(out') < NFields THEN Len(out') + 1 ELSE NFields + 1
    BY <1>0, <1>1, <1>3, <1>4, <1>5, <1>6, <1>8 DEF next_field
  <2>2. NFields' = NFields
    BY <1>0, SameLine
  <2>3. /\ fpos' \in 1 .. Len(format(parser')) + 1 /\ parser' = parser
        /\ Len(out') + 1 = FieldOf(parser', fpos')
        /\ optional' \in BOOLEAN
    BY <1>0, <1>1, <1>2, <1>3, <1>8
  <2>4. optional' <=> Behind(parser', fpos')
    BY <1>0, <1>1, <1>3
  <2>5. line' \in Lines /\ parser' \in Kinds /\ st' = "scan"
    BY <1>0, <1>1
  <2>. QED  BY <1>8, <2>1, <2>2, <2>3, <2>4, <2>5 DEF Position
<1>10. Sources'
  <2>1. \A i \in 1 .. Len(out) : FromField(i, out[i])
    BY DEF Sources
  <2>2. ASSUME NEW i \in 1 .. Len(out') PROVE FromField(i, out'[i])
    <3>1. i = n \/ i \in 1 .. n - 1
      BY <1>3, <1>8
    <3>2. 1 .. Len(out) = 1 .. n - 1
      BY <1>5
    <3>. QED  BY <1>7, <1>8, <2>1, <3>1, <3>2
  <2>3. \A i, y : FromField(i, y)' <=> FromField(i, y)
    BY <1>0, SameLine
  <2>4. ASSUME NEW i \in 1 .. Len(out') PROVE FromField(i, out[i])'
    BY <2>2, <1>0 DEF FromField, NFields, Fields
  <2>. QED  BY <2>4 DEF Sources
<1>11. Passed'
  <2>1. Reads(parser, fpos)
    <3>1. CASE Present
      BY <1>0, <1>6, <3>1 DEF Reads, n, type
    <3>2. CASE ~Present
      <4>1. optional
        BY <1>0, <3>2 DEF Bails, AtType
      <4>2. ~(n <= NFields)
        BY <1>6, <3>2
      <4>. QED  BY <1>1, <4>1, <4>2 DEF Reads, n
    <3>. QED  BY <3>1, <3>2
  <2>2. ASSUME NEW i \in 1 .. fpos' - 1, i \in TypesOf(parser)
        PROVE  Reads(parser, i)
    <3>1. i = fpos \/ i \in 1 .. fpos - 1
      BY <1>0, <1>2
    <3>. QED  BY <2>1, <2>2, <3>1 DEF Passed
  <2>3. ASSUME NEW i \in 1 .. fpos' - 1, i \in TypesOf(parser')
        PROVE  Reads(parser, i)'
    BY <1>0, <2>2, <2>3, SameLine
  <2>. QED  BY <2>3 DEF Passed
<1>12. Verdict'
  <2>1. st' = "scan" /\ (minmea_check(FALSE)' <=> minmea_check(FALSE))
    BY <1>0, SameLine
  <2>2. minmea_check(FALSE)
    BY <1>0 DEF Verdict
  <2>. QED  BY <2>1, <2>2 DEF Verdict
<1>. QED  BY <1>9, <1>10, <1>11, <1>12

(* The ';' makes the types behind it optional and reads no field.          *)
LEMMA OptionalInv == ASSUME ScanInv, Optional PROVE ScanInv'
<1> USE DEF ScanInv
<1>0. /\ st = "scan" /\ fpos <= Len(format(parser)) /\ type = "semi"
      /\ optional' = TRUE /\ fpos' = fpos + 1
      /\ UNCHANGED <<line, parser, st, field, out>>
  BY DEF Optional, AtType, ScanOnly
<1>1. /\ line \in Lines /\ parser \in Kinds
      /\ fpos \in 1 .. Len(format(parser)) + 1
      /\ out \in Seq(Nat) /\ Len(out) + 1 = FieldOf(parser, fpos)
      /\ field = IF Len(out) < NFields THEN Len(out) + 1 ELSE NFields + 1
  BY DEF Position
<1>2. Len(format(parser)) \in Nat /\ fpos \in 1 .. Len(format(parser))
  <2>1. SoundFormat(format(parser))
    BY <1>1, Formats
  <2>2. Len(format(parser)) \in Nat
    BY <2>1 DEF SoundFormat
  <2>. QED  BY <1>0, <1>1, <2>2
<1>3. /\ fpos \notin TypesOf(parser) /\ Behind(parser, fpos + 1)
      /\ FieldOf(parser, fpos + 1) = FieldOf(parser, fpos)
  BY <1>0, <1>1, <1>2, NextType DEF type
<1>4. Position'
  <2>1. NFields' = NFields
    BY <1>0, SameLine
  <2>2. /\ fpos' \in 1 .. Len(format(parser')) + 1 /\ parser' \in Kinds
        /\ Len(out') + 1 = FieldOf(parser', fpos') /\ Behind(parser', fpos')
    BY <1>0, <1>1, <1>2, <1>3
  <2>. QED  BY <1>0, <1>1, <2>1, <2>2 DEF Position
<1>5. Sources'
  BY <1>0 DEF Sources, FromField, NFields, Fields
<1>6. Passed'
  <2>1. ASSUME NEW i \in 1 .. fpos' - 1, i \in TypesOf(parser')
        PROVE  Reads(parser, i)'
    <3>1. i \in 1 .. fpos - 1
      <4>1. i = fpos \/ i \in 1 .. fpos - 1
        BY <1>0, <1>2
      <4>. QED  BY <1>0, <1>3, <2>1, <4>1
    <3>2. Reads(parser, i)
      BY <1>0, <2>1, <3>1 DEF Passed
    <3>. QED  BY <1>0, <3>2, SameLine
  <2>. QED  BY <2>1 DEF Passed
<1>7. Verdict'
  <2>1. st' = "scan" /\ (minmea_check(FALSE)' <=> minmea_check(FALSE))
    BY <1>0, SameLine
  <2>2. minmea_check(FALSE)
    BY <1>0 DEF Verdict
  <2>. QED  BY <2>1, <2>2 DEF Verdict
<1>. QED  BY <1>4, <1>5, <1>6, <1>7

(* A step that only gives a verdict keeps the positions.                   *)
LEMMA SamePlace ==
    ASSUME ScanInv, UNCHANGED <<line, parser, fpos, field, optional, out>>,
           st' \in {"id", "scan", "ok", "unknown", "error"},
           st' = "id" => fpos = 1
    PROVE  Position' /\ Sources' /\ Passed'
<1>1. NFields' = NFields
  BY SameLine
<1>2. Position'
  BY <1>1 DEF ScanInv, Position
<1>3. Sources'
  BY DEF ScanInv, Sources, FromField, NFields, Fields
<1>4. Passed'
  BY SameLine DEF ScanInv, Passed
<1>. QED  BY <1>2, <1>3, <1>4

(* A type that cannot have its field is one the format does not allow.     *)
LEMMA NotReadable ==
    ASSUME ScanInv, AtType, type # "semi",
           IF Present THEN Fields[field].cls \notin Accepts(type) ELSE Bails
    PROVE  ~Readable(parser)
<1> DEFINE n == FieldOf(parser, fpos)
<1>1. /\ line \in Lines /\ parser \in Kinds
      /\ fpos \in 1 .. Len(format(parser)) + 1 /\ fpos <= Len(format(parser))
      /\ (optional <=> Behind(parser, fpos))
      /\ out \in Seq(Nat) /\ Len(out) + 1 = n
      /\ field = IF Len(out) < NFields THEN Len(out) + 1 ELSE NFields + 1
  BY DEF ScanInv, Position, AtType
<1>2. fpos \in 1 .. Len(format(parser))
  <2>1. SoundFormat(format(parser))
    BY <1>1, Formats
  <2>2. Len(format(parser)) \in Nat
    BY <2>1 DEF SoundFormat
  <2>. QED  BY <1>1, <2>2
<1>3. /\ n \in Nat /\ n > 0 /\ fpos \in TypesOf(parser) /\ ~Behind(parser, 1)
      /\ type = "t" => fpos = 1
  BY <1>1, <1>2, NextType DEF type
<1> HIDE DEF n
<1>4. NFields \in Nat
  BY <1>1, LineIs
<1>5. Len(out) \in Nat /\ Len(out) = n - 1
  BY <1>1, <1>3
<1>6. (Present <=> n <= NFields) /\ (Present => field = n)
  BY <1>1, <1>3, <1>4, <1>5 DEF Present
<1>7. ~Reads(parser, fpos)
  <2>1. CASE Present
    BY <1>6, <2>1 DEF Reads, n, type
  <2>2. CASE ~Present
    <3>1. ~Behind(parser, fpos)
      <4>1. ~optional \/ type = "t"
        BY <2>2 DEF Bails
      <4>. QED  BY <1>1, <1>3, <4>1
    <3>2. ~(n <= NFields)
      BY <1>6, <2>2
    <3>. QED  BY <3>1, <3>2 DEF Reads, n
  <2>. QED  BY <2>1, <2>2
<1>. QED  BY <1>3, <1>7 DEF Readable

(* Every step keeps the invariant.                                         *)
LEMMA ScanStep == ASSUME ScanInv, [Next]_vars PROVE ScanInv'
<1>1. CASE Check
  <2>1. /\ st = "check" /\ UNCHANGED <<line, parser, fpos, field, optional, out>>
        /\ IF minmea_check(FALSE) THEN st' = "id" ELSE st' = "error"
    BY <1>1 DEF Check, Goto, ScanOnly
  <2>2. fpos = 1
    BY <2>1 DEF ScanInv, Position
  <2>3. Position' /\ Sources' /\ Passed'
    BY <2>1, <2>2, SamePlace
  <2>4. Verdict'
    BY <2>1, SameLine DEF Verdict
  <2>. QED  BY <2>3, <2>4 DEF ScanInv
<1>2. CASE SentenceId
  <2>1. /\ st = "id" /\ UNCHANGED <<line, fpos, field, optional, out>>
        /\ \/ Fields[1].cls # "id" /\ st' = "error" /\ parser' = parser
           \/ st' = "unknown" /\ parser' = parser
           \/ st' = "scan" /\ parser' \in Kinds
    BY <1>2 DEF SentenceId, Goto
  <2>2. /\ fpos = 1 /\ minmea_check(FALSE) /\ parser \in Kinds /\ line \in Lines
        /\ out \in Seq(Nat) /\ Len(out) + 1 = FieldOf(parser, 1)
        /\ field = IF Len(out) < NFields THEN Len(out) + 1 ELSE NFields + 1
        /\ optional \in BOOLEAN /\ (optional <=> Behind(parser, 1))
    BY <2>1 DEF ScanInv, Position, Verdict
  <2>3. \A kind \in Kinds : ~Behind(kind, 1) /\ FieldOf(kind, 1) = 1
    BY DEF Behind, FieldOf
  <2>4. CASE parser' = parser
    <3>1. Position' /\ Sources' /\ Passed'
      BY <2>1, <2>2, <2>4, SamePlace
    <3>2. Verdict'
      <4>1. UNCHANGED <<line, parser>> /\ st' \in {"error", "unknown", "scan"}
            /\ (st' = "error" => Fields[1].cls # "id")
        BY <2>1, <2>4
      <4>2. Fields' = Fields /\ minmea_check(FALSE)'
        BY <2>2, <4>1, SameLine
      <4>. QED  BY <4>1, <4>2 DEF Verdict
    <3>. QED  BY <3>1, <3>2 DEF ScanInv
  <2>5. CASE st' = "scan" /\ parser' \in Kinds
    <3>1. Len(format(parser')) \in Nat /\ 1 \in 1 .. Len(format(parser')) + 1
      <4>1. SoundFormat(format(parser'))
        BY <2>5, Formats
      <4>2. Len(format(parser')) \in Nat
        BY <4>1 DEF SoundFormat
      <4>. QED  BY <4>2
    <3>2. Position'
      <4>1. NFields' = NFields
        BY <2>1 DEF NFields, Fields
      <4>2. fpos' \in 1 .. Len(format(parser')) + 1
        BY <2>1, <2>2, <3>1
      <4>3. optional' \in BOOLEAN /\ (optional' <=> Behind(parser', fpos'))
        BY <2>1, <2>2, <2>3, <2>5
      <4>4. Len(out') + 1 = FieldOf(parser', fpos')
        BY <2>1, <2>2, <2>3, <2>5
      <4>. QED  BY <2>1, <2>2, <2>5, <4>1, <4>2, <4>3, <4>4 DEF Position
    <3>3. Sources'
      BY <2>1 DEF ScanInv, Sources, FromField, NFields, Fields
    <3>4. Passed'
      BY <2>1, <2>2 DEF Passed
    <3>5. Verdict'
      BY <2>1, <2>2, <2>5 DEF Verdict, minmea_check
    <3>. QED  BY <3>2, <3>3, <3>4, <3>5 DEF ScanInv
  <2>. QED  BY <2>1, <2>4, <2>5
<1>3. CASE OutOfInput \/ BadField
  <2>1. /\ AtType /\ type # "semi" /\ st' = "error"
        /\ UNCHANGED <<line, parser, fpos, field, optional, out>>
        /\ IF Present THEN Fields[field].cls \notin Accepts(type) ELSE Bails
    BY <1>3 DEF OutOfInput, BadField, Bails, Goto, ScanOnly
  <2>2. ~Readable(parser)
    BY <2>1, NotReadable
  <2>3. Position' /\ Sources' /\ Passed'
    BY <2>1, SamePlace
  <2>4. Verdict'
    BY <2>1, <2>2, SameLine DEF Verdict
  <2>. QED  BY <2>3, <2>4 DEF ScanInv
<1>4. CASE Finish
  <2>1. /\ st = "scan" /\ fpos = Len(format(parser)) + 1
        /\ UNCHANGED <<line, parser, fpos, field, optional, out>>
        /\ \/ st' = "ok" /\ parser = line.kind
           \/ st' = "error" /\ (parser # line.kind \/ parser = "VTG")
    BY <1>4 DEF Finish, ParseOk, Goto, ScanOnly
  <2>2. minmea_check(FALSE)'
    BY <2>1, SameLine DEF ScanInv, Verdict
  <2>3. Position' /\ Sources' /\ Passed'
    BY <2>1, SamePlace
  <2>4. Verdict'
    BY <2>1, <2>2 DEF Verdict
  <2>. QED  BY <2>3, <2>4 DEF ScanInv
<1>5. CASE UNCHANGED vars
  BY <1>5 DEF vars, ScanInv, Position, Sources, FromField, Passed, Reads,
              Verdict, minmea_check, Readable, NFields, Fields
<1>. QED  BY <1>1, <1>2, <1>3, <1>4, <1>5, ConvertInv, OptionalInv DEF Next

(* The invariant of the parser.                                            *)
THEOREM ScanInductive == Spec => []ScanInv
<1>1. Init => ScanInv
  <2> SUFFICES ASSUME Init PROVE ScanInv
    OBVIOUS
  <2>1. /\ line \in Lines /\ st = "check" /\ parser = "RMC" /\ fpos = 1
        /\ field = 1 /\ optional = FALSE /\ out = <<>>
    BY DEF Init
  <2>2. NFields \in Nat /\ NFields > 0
    BY <2>1, LineIs
  <2>3. ~Behind(parser, 1) /\ FieldOf(parser, 1) = 1 /\ parser \in Kinds
    BY <2>1 DEF Behind, FieldOf, Kinds
  <2>4. 1 \in 1 .. Len(format(parser)) + 1
    BY <2>1, RmcFormat
  <2>5. out \in Seq(Nat) /\ Len(out) = 0
    BY <2>1
  <2>6. Position
    <3>1. Len(out) + 1 = FieldOf(parser, fpos)
      BY <2>1, <2>3, <2>5
    <3>2. field = IF Len(out) < NFields THEN Len(out) + 1 ELSE NFields + 1
      BY <2>1, <2>2, <2>5
    <3>3. optional \in BOOLEAN /\ (optional <=> Behind(parser, fpos))
      BY <2>1, <2>3
    <3>. QED  BY <2>1, <2>3, <2>4, <2>5, <3>1, <3>2, <3>3 DEF Position
  <2>7. Sources /\ Passed
    BY <2>1, <2>5 DEF Sources, Passed
  <2>8. Verdict
    BY <2>1 DEF Verdict
  <2>. QED  BY <2>6, <2>7, <2>8 DEF ScanInv
<1>2. ScanInv /\ [Next]_vars => ScanInv'
  BY ScanStep
<1>. QED  BY <1>1, <1>2, PTL DEF Spec

-----------------------------------------------------------------------------
(* The fields of a format are numbered without a gap.                      *)
LEMMA FieldNumbers ==
    ASSUME NEW kind \in Kinds
    PROVE  {FieldOf(kind, i) : i \in TypesOf(kind)}
             = 1 .. FieldOf(kind, Len(format(kind)) + 1) - 1
<1> DEFINE F == format(kind)
           L == Len(F)
<1>1. /\ L \in Nat /\ DOMAIN F = 1 .. L
      /\ \A i, j \in 1 .. L : F[i] = "semi" /\ F[j] = "semi" => i = j
  <2>1. SoundFormat(F)
    BY Formats
  <2>. QED  BY <2>1 DEF SoundFormat
<1>2. TypesOf(kind) = {i \in 1 .. L : F[i] # "semi"}
  BY <1>1 DEF TypesOf
<1>3. \A i : Behind(kind, i) <=> \E j \in 1 .. i - 1 : F[j] = "semi"
  BY DEF Behind
<1>4. L + 1 - 1 = L
  BY <1>1
<1> HIDE DEF F, L
<1>5. CASE \A i \in 1 .. L : F[i] # "semi"
  <2>1. TypesOf(kind) = 1 .. L
    BY <1>2, <1>5
  <2>2. \A i \in 1 .. L + 1 : ~Behind(kind, i)
    BY <1>1, <1>3, <1>5
  <2>3. \A i \in 1 .. L + 1 : FieldOf(kind, i) = i
    BY <2>2 DEF FieldOf
  <2>4. FieldOf(kind, L + 1) - 1 = L
    BY <1>1, <2>3
  <2>5. {FieldOf(kind, i) : i \in TypesOf(kind)} = 1 .. L
    <3>1. \A i \in 1 .. L : FieldOf(kind, i) = i
      BY <1>1, <2>3
    <3>. QED  BY <2>1, <3>1
  <2>. QED  BY <2>4, <2>5 DEF L, F
<1>6. ASSUME NEW k \in 1 .. L, F[k] = "semi"
      PROVE  {FieldOf(kind, i) : i \in TypesOf(kind)}
               = 1 .. FieldOf(kind, L + 1) - 1
  <2>1. \A i \in 1 .. L : F[i] = "semi" <=> i = k
    BY <1>1, <1>6
  <2>2. \A i \in 1 .. L + 1 : Behind(kind, i) <=> i > k
    <3> SUFFICES ASSUME NEW i \in 1 .. L + 1 PROVE Behind(kind, i) <=> i > k
      OBVIOUS
    <3>1. \A j \in 1 .. i - 1 : j \in 1 .. L /\ j < i
      BY <1>1
    <3>2. i > k => k \in 1 .. i - 1
      BY <1>1
    <3>. QED  BY <1>3, <1>6, <2>1, <3>1, <3>2
  <2>3. \A i \in 1 .. L + 1 : FieldOf(kind, i) = IF i > k THEN i - 1 ELSE i
    BY <2>2 DEF FieldOf
  <2>4. FieldOf(kind, L + 1) - 1 = L - 1
    <3>1. L + 1 \in 1 .. L + 1 /\ L + 1 > k
      BY <1>1
    <3>. QED  BY <1>1, <2>3, <3>1
  <2>5. TypesOf(kind) = (1 .. L) \ {k}
    BY <1>2, <2>1
  <2>6. ASSUME NEW i \in TypesOf(kind) PROVE FieldOf(kind, i) \in 1 .. L - 1
    BY <1>1, <2>3, <2>5
  <2>7. ASSUME NEW n \in 1 .. L - 1
        PROVE  \E i \in TypesOf(kind) : n = FieldOf(kind, i)
    <3>1. CASE n < k
      <4>1. n \in TypesOf(kind) /\ n = FieldOf(kind, n)
        BY <1>1, <2>3, <2>5, <3>1
      <4>. QED  BY <4>1
    <3>2. CASE ~(n < k)
      <4>1. n + 1 \in TypesOf(kind) /\ n = FieldOf(kind, n + 1)
        BY <1>1, <2>3, <2>5, <3>2
      <4>. QED  BY <4>1
    <3>. QED  BY <3>1, <3>2
  <2>. QED  BY <2>4, <2>6, <2>7
<1>. QED  BY <1>5, <1>6 DEF L, F

(* What a parser accepts is what was sent, each output from its own field. *)
THEOREM AcceptedAsSentHolds == Spec => []AcceptedAsSent
<1>1. ScanInv => AcceptedAsSent
  <2> SUFFICES ASSUME ScanInv, st = "ok" PROVE AcceptedAsSent
    BY DEF AcceptedAsSent
  <2>1. /\ fpos = Len(format(parser)) + 1 /\ line.kind = parser
        /\ minmea_check(FALSE) /\ line \in Lines /\ parser \in Kinds
        /\ out \in Seq(Nat) /\ Len(out) + 1 = FieldOf(parser, fpos)
    BY DEF ScanInv, Verdict, Position
  <2>2. line.star \in {"good", "none"}
    BY <2>1, LineIs DEF minmea_check
  <2>3. DOMAIN out = 1 .. Len(out) /\ Len(out) \in Nat
    BY <2>1
  <2>4. FieldOf(parser, fpos) - 1 = Len(out)
    BY <2>1, <2>3
  <2>5. DOMAIN out = {FieldOf(parser, i) : i \in TypesOf(parser)}
    BY <2>1, <2>3, <2>4, FieldNumbers
  <2>6. \A i \in DOMAIN out : FromField(i, out[i])
    BY <2>3 DEF ScanInv, Sources
  <2>. QED  BY <2>1, <2>2, <2>5, <2>6 DEF AcceptedAsSent, FromField
<1>. QED  BY <1>1, ScanInductive, PTL

(* The validity and the speed of an accepted RMC sentence are those that   *)
(* the receiver sent.                                                      *)
THEOREM RmcUsedIntactHolds == Spec => []RmcUsedIntact
<1>1. ScanInv => RmcUsedIntact
  <2> SUFFICES ASSUME ScanInv, st = "ok", parser = "RMC"
               PROVE  Len(out) = 12 /\ \A i \in 1 .. 11 : out[i] = i
    BY DEF RmcUsedIntact
  <2>0. Len(format(parser)) = 12
        /\ \A i \in 1 .. 12 : format(parser)[i] # "semi"
    BY RmcFormat, Zenon
  <2>1. fpos = 13 /\ line \in Lines /\ out \in Seq(Nat)
        /\ Len(out) + 1 = FieldOf(parser, 13)
    <3>1. fpos = Len(format(parser)) + 1
      BY DEF ScanInv, Verdict
    <3>2. fpos = 13
      BY <2>0, <3>1
    <3>. QED  BY <3>2 DEF ScanInv, Position
  <2>2. \A i \in 1 .. 13 : ~Behind(parser, i)
    BY <2>0 DEF Behind
  <2>3. Len(out) = 12
    <3>1. FieldOf(parser, 13) = 13
      BY <2>2 DEF FieldOf
    <3>2. Len(out) \in Nat
      BY <2>1
    <3>3. Len(out) + 1 = 13
      BY <2>1, <3>1, Zenon
    <3> DEFINE m == Len(out)
    <3>4. m \in Nat /\ m + 1 = 13
      BY <3>2, <3>3
    <3> HIDE DEF m
    <3>5. m = 12
      BY <3>4
    <3>. QED  BY <3>5 DEF m
  <2>4. 12 <= NFields
    <3>1. SoundFormat(format(parser))
      BY Formats DEF Kinds
    <3>2. 12 \in TypesOf(parser)
      BY <2>0, <3>1 DEF TypesOf, SoundFormat
    <3>3. Reads(parser, 12)
      BY <2>1, <3>2 DEF ScanInv, Passed
    <3>4. FieldOf(parser, 12) = 12 /\ ~Behind(parser, 12)
      BY <2>2 DEF FieldOf
    <3>. QED  BY <3>3, <3>4 DEF Reads
  <2>5. NFields \in Nat
    BY <2>1, LineIs
  <2>6. ASSUME NEW i \in 1 .. 11 PROVE out[i] = i
    <3>1. FromField(i, out[i])
      BY <2>3 DEF ScanInv, Sources
    <3>2. ~(i > NFields) /\ i # NFields
      BY <2>4, <2>5
    <3>. QED  BY <3>1, <3>2 DEF FromField
  <2>. QED  BY <2>3, <2>6
<1>. QED  BY <1>1, ScanInductive, PTL

(* The scanner accepts what the description of the format does, and        *)
(* nothing else.                                                           *)
THEOREM DecidesAsFormatHolds == Spec => []DecidesAsFormat
<1>1. ScanInv => DecidesAsFormat
  <2> SUFFICES ASSUME ScanInv PROVE DecidesAsFormat
    OBVIOUS
  <2>1. ASSUME st = "ok" PROVE Readable(parser)
    <3>1. fpos = Len(format(parser)) + 1 /\ parser \in Kinds
      BY <2>1 DEF ScanInv, Verdict, Position
    <3>2. SoundFormat(format(parser))
      BY <3>1, Formats
    <3>3. Len(format(parser)) \in Nat
          /\ DOMAIN format(parser) = 1 .. Len(format(parser))
      BY <3>2 DEF SoundFormat
    <3>4. fpos - 1 = Len(format(parser))
      BY <3>1, <3>3
    <3>. QED  BY <3>3, <3>4 DEF ScanInv, Passed, Readable, TypesOf
  <2>2. st = "error" /\ minmea_check(FALSE) /\ Fields[1].cls = "id"
          /\ line.kind = parser /\ parser # "VTG" => ~Readable(parser)
    BY DEF ScanInv, Verdict
  <2>. QED  BY <2>1, <2>2 DEF DecidesAsFormat
<1>. QED  BY <1>1, ScanInductive, PTL
=============================================================================
