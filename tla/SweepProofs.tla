----------------------------- MODULE SweepProofs -----------------------------
(***************************************************************************)
(* Sweep keeps its types, and no value of a parameter other than the frame *)
(* size is left out of a finished file, for every range and every number   *)
(* of kills.  The invariant that carries NothingSkipped says what the last *)
(* line of a file stands for: every value up to its mark is shown.         *)
(***************************************************************************)
EXTENDS Sweep, SequenceTheorems, FiniteSetTheorems, TLAPS

Min6(n) == IF n <= Columns THEN n ELSE Columns

------------------------------------------------------------------------------
(* Lines and files                                                           *)

\* The first six of the fields of a line and new ones.
LEMMA KeptFields ==
  ASSUME NEW all \in Seq(Field)
  PROVE  LET kept == SubSeq(all, 1, Min6(Len(all)))
         IN  /\ kept \in Seq(Field) /\ Len(kept) = Min6(Len(all))
             /\ \A c \in 1..Min6(Len(all)) : kept[c] = all[c]
<1>. DEFINE n == Min6(Len(all))
            kept == SubSeq(all, 1, n)
<1>1. n \in Nat /\ n <= Len(all)
  BY DEF Min6, Columns
<1>2. \A c \in 1..n : all[c] \in Field
  BY <1>1
<1>. HIDE DEF n
<1>3. /\ kept \in Seq(Field) /\ Len(kept) = IF 1 <= n THEN n - 1 + 1 ELSE 0
      /\ \A c \in 1..(n - 1 + 1) : kept[c] = all[1 + c - 1]
  BY <1>1, <1>2, SubSeqProperties
<1>. HIDE DEF kept
<1>4. Len(kept) = n /\ \A c \in 1..n : kept[c] = all[c]
  BY <1>1, <1>3
<1>. QED  BY <1>3, <1>4 DEF n, kept

\* What Extended changes in a line, and what it keeps.
LEMMA ExtendedLine ==
  ASSUME NEW line \in Line, NEW fields \in Seq(Field), NEW of \in SUBSET Nat
  PROVE  LET new == Extended(line, fields, of)
         IN  /\ new \in Line
             /\ new.of = line.of \cup of /\ new.ended = line.ended
             /\ new.rows = line.rows /\ new.timed = line.timed
             /\ Len(new.fields) = Min6(Len(line.fields) + Len(fields))
             /\ \A c \in 1..Len(new.fields) :
                  new.fields[c] = IF c <= Len(line.fields) THEN line.fields[c]
                                  ELSE fields[c - Len(line.fields)]
<1>. DEFINE all == line.fields \o fields
            kept == SubSeq(all, 1, Min6(Len(all)))
            new == Extended(line, fields, of)
<1>1. line.fields \in Seq(Field) /\ line.of \in SUBSET Nat
  BY DEF Line
<1>2. /\ all \in Seq(Field) /\ Len(all) = Len(line.fields) + Len(fields)
      /\ \A c \in 1..(Len(line.fields) + Len(fields)) :
           all[c] = IF c <= Len(line.fields) THEN line.fields[c] ELSE fields[c - Len(line.fields)]
  BY <1>1, ConcatProperties
<1>3. /\ kept \in Seq(Field) /\ Len(kept) = Min6(Len(all))
      /\ \A c \in 1..Min6(Len(all)) : kept[c] = all[c]
  BY <1>2, KeptFields
<1>4. new = [line EXCEPT !.fields = kept, !.of = line.of \cup of]
  BY DEF Extended, Min6
<1>. HIDE DEF all, kept
<1>5. /\ new.fields = kept /\ new.of = line.of \cup of /\ new.ended = line.ended
      /\ new.rows = line.rows /\ new.timed = line.timed
  BY <1>4 DEF Line
<1>6. new \in Line
  BY <1>1, <1>3, <1>4 DEF Line
<1>. HIDE DEF new
<1>7. Min6(Len(all)) \in Nat /\ Min6(Len(all)) <= Len(all)
  BY <1>2 DEF Min6, Columns
<1>8. \A c \in 1..Len(new.fields) :
        new.fields[c] = IF c <= Len(line.fields) THEN line.fields[c]
                        ELSE fields[c - Len(line.fields)]
  <2>. TAKE c \in 1..Len(new.fields)
  <2>1. c \in 1..Min6(Len(all)) /\ c \in 1..(Len(line.fields) + Len(fields))
    BY <1>2, <1>3, <1>5, <1>7
  <2>2. new.fields[c] = all[c]
    BY <1>3, <1>5, <2>1
  <2>. QED  BY <1>2, <2>1, <2>2
<1>. QED  BY <1>2, <1>3, <1>5, <1>6, <1>8 DEF new

FilesOK == file \in [Sweep -> Seq(Line)]

\* The last line of a file is replaced by one that shows at least as much.
LEMMA LineReplaced ==
  ASSUME FilesOK, NEW i \in Sweep, file[i] # << >>, NEW line \in Line,
         file' = [file EXCEPT ![i][Len(file[i])] = line]
  PROVE  /\ FilesOK' /\ file'[i] # << >> /\ LastLine(i)' = line
         /\ \A j \in Sweep : j # i => file'[j] = file[j]
         /\ LastLine(i).of \subseteq line.of => Shown(i)' = Shown(i) \cup line.of
         /\ (line.timed => LastLine(i).timed) => (Timed(i)' => Timed(i))
<1>. DEFINE s == file[i]
            n == Len(s)
            t == [s EXCEPT ![n] = line]
<1>1. s \in Seq(Line) /\ n \in 1..Len(s)
  BY DEF FilesOK
<1>2. file' = [file EXCEPT ![i] = t]
  OBVIOUS
<1>3. t \in Seq(Line) /\ Len(t) = Len(s)
      /\ \A j \in 1..Len(s) : t[j] = IF j = n THEN line ELSE s[j]
  BY <1>1, ExceptSeq
<1>. HIDE DEF t
<1>4. FilesOK' /\ file'[i] = t /\ \A j \in Sweep : j # i => file'[j] = file[j]
  BY <1>2, <1>3 DEF FilesOK
<1>5. t # << >> /\ t[Len(t)] = line /\ DOMAIN t = 1..n /\ DOMAIN s = 1..n
  BY <1>1, <1>3
<1>6. LastLine(i) = s[n] /\ LastLine(i)' = line
  BY <1>4, <1>5 DEF LastLine
<1>7. ASSUME LastLine(i).of \subseteq line.of  PROVE Shown(i)' = Shown(i) \cup line.of
  <2>1. Shown(i) = UNION {s[j].of : j \in 1..n} /\ Shown(i)' = UNION {t[j].of : j \in 1..n}
    BY <1>4, <1>5 DEF Shown
  <2>2. ASSUME NEW v \in Shown(i)'  PROVE v \in Shown(i) \cup line.of
    BY <1>3, <1>1, <2>1, <2>2
  <2>3. ASSUME NEW v \in Shown(i) \cup line.of  PROVE v \in Shown(i)'
    <3>1. CASE v \in line.of
      BY <1>1, <1>3, <2>1, <3>1
    <3>2. CASE v \in Shown(i) /\ v \notin line.of
      BY <1>1, <1>3, <1>6, <1>7, <2>1, <3>2
    <3>. QED  BY <2>3, <3>1, <3>2
  <2>. QED  BY <2>2, <2>3
<1>8. ASSUME line.timed => LastLine(i).timed, Timed(i)'  PROVE Timed(i)
  <2>1. \A j \in 1..n : t[j].timed
    BY <1>4, <1>5, <1>8 DEF Timed
  <2>2. \A j \in 1..n : s[j].timed
    BY <1>1, <1>3, <1>6, <1>8, <2>1
  <2>. QED  BY <1>5, <2>2 DEF Timed
<1>. QED  BY <1>4, <1>5, <1>6, <1>7, <1>8

\* A line is added to a file.
LEMMA LineAdded ==
  ASSUME FilesOK, NEW i \in Sweep, NEW line \in Line,
         file' = [file EXCEPT ![i] = Append(@, line)]
  PROVE  /\ FilesOK' /\ file'[i] # << >> /\ LastLine(i)' = line
         /\ \A j \in Sweep : j # i => file'[j] = file[j]
         /\ Shown(i)' = Shown(i) \cup line.of
         /\ Timed(i)' => Timed(i) /\ line.timed
<1>. DEFINE s == file[i]
            n == Len(s)
            t == Append(s, line)
<1>1. s \in Seq(Line) /\ n \in Nat
  BY DEF FilesOK
<1>2. file' = [file EXCEPT ![i] = t]
  OBVIOUS
<1>3. /\ t \in Seq(Line) /\ t # << >> /\ Len(t) = n + 1
      /\ \A j \in 1..n : t[j] = s[j]
      /\ t[n + 1] = line
  BY <1>1, AppendProperties
<1>. HIDE DEF t, n
<1>4. FilesOK' /\ file'[i] = t /\ \A j \in Sweep : j # i => file'[j] = file[j]
  BY <1>2, <1>3 DEF FilesOK
<1>5. t[Len(t)] = line /\ DOMAIN t = 1..(n + 1) /\ DOMAIN s = 1..n
  <2>1. t[Len(t)] = line
    BY <1>3
  <2>2. DOMAIN t = 1..Len(t) /\ DOMAIN s = 1..Len(s)
    BY <1>1, <1>3
  <2>. QED  BY <1>3, <2>1, <2>2 DEF n
<1>6. LastLine(i)' = line
  BY <1>4, <1>5 DEF LastLine
<1>7. Shown(i)' = Shown(i) \cup line.of
  <2>1. Shown(i) = UNION {s[j].of : j \in 1..n} /\ Shown(i)' = UNION {t[j].of : j \in 1..(n + 1)}
    BY <1>4, <1>5 DEF Shown
  <2>2. ASSUME NEW v \in Shown(i)'  PROVE v \in Shown(i) \cup line.of
    <3>1. PICK j \in 1..(n + 1) : v \in t[j].of
      BY <2>1, <2>2
    <3>2. CASE j = n + 1
      <4>1. t[j] = line
        BY <1>3, <3>2
      <4>. QED  BY <3>1, <4>1
    <3>3. CASE j \in 1..n
      BY <1>3, <2>1, <3>1, <3>3
    <3>. QED  BY <1>1, <3>2, <3>3
  <2>3. ASSUME NEW v \in Shown(i) \cup line.of  PROVE v \in Shown(i)'
    <3>1. n + 1 \in 1..(n + 1) /\ 1..n \subseteq 1..(n + 1)
      BY <1>1
    <3>2. CASE v \in line.of
      <4>1. v \in t[n + 1].of
        BY <1>3, <3>2
      <4>. QED  BY <2>1, <3>1, <4>1
    <3>3. CASE v \in Shown(i)
      <4>1. PICK j \in 1..n : v \in s[j].of
        BY <2>1, <3>3
      <4>2. v \in t[j].of
        BY <1>3, <4>1
      <4>. QED  BY <2>1, <3>1, <4>2
    <3>. QED  BY <2>3, <3>2, <3>3
  <2>. QED  BY <2>2, <2>3
<1>8. Timed(i)' => Timed(i) /\ line.timed
  BY <1>1, <1>3, <1>4, <1>5 DEF Timed
<1>. QED  BY <1>3, <1>4, <1>6, <1>7, <1>8

------------------------------------------------------------------------------
(* Types                                                                     *)

LEMMA FieldTypes ==
  /\ Word \in Field /\ \A n \in Nat : Number(n) \in Field
  /\ << >> \in Seq(Field) /\ <<Word>> \in Seq(Field) /\ <<Word, Word>> \in Seq(Field)
  /\ Header \in Line /\ NewLine \in Line
<1>1. Word \in Field /\ \A n \in Nat : Number(n) \in Field
  BY DEF Word, Number, Field
<1>2. << >> \in Seq(Field) /\ <<Word>> \in Seq(Field) /\ <<Word, Word>> \in Seq(Field)
  BY <1>1
<1>3. [c \in 1..Columns |-> Word] \in Seq(Field)
  <2>1. Columns \in Nat
    BY DEF Columns
  <2>. QED  BY <1>1, <2>1
<1>4. Header \in Line
  BY <1>3 DEF Header, Line
<1>5. NewLine \in Line
  BY <1>2 DEF NewLine, Line
<1>. QED  BY <1>1, <1>2, <1>4, <1>5

\* The fields that name the parameters.
LEMMA ParamTypes ==
  ASSUME NEW i \in Sweep, NEW v \in Nat, v <= LastOf[i]
  PROVE  /\ Params(i, v) \in Seq(Field) /\ Len(Params(i, v)) = 3
         /\ \A p \in 1..3 : p = i /\ i # FrameSize => Params(i, v)[p] = Number(v)
         /\ ListSize(i, v) \in Seq(Field) /\ Len(ListSize(i, v)) = 1
         /\ i = 4 => ListSize(i, v)[1] = Number(v)
<1>1. Setting(i, v) \in Nat
  <2>1. CASE i # FrameSize
    BY <2>1 DEF Setting
  <2>2. CASE i = FrameSize
    <3>1. v \in 0..24
      <4>1. LastOf[i] \in Nat /\ LastOf[i] <= 24
        BY <2>2, SweepAssumption
      <4>. QED  BY <4>1
    <3>2. 2^v \in Nat \ {0}
      BY <3>1, SweepAssumption
    <3>3. 2^v - 1 \in Nat
      BY <3>2
    <3>. QED  BY <2>2, <3>2, <3>3 DEF Setting
  <2>. QED  BY <2>1, <2>2
<1>2. \A p \in 1..3 : Default[p] \in Nat
  BY DEF Default
<1>3. \A p \in 1..3 : Number(IF p = i THEN Setting(i, v) ELSE Default[p]) \in Field
  BY <1>1, <1>2, FieldTypes
<1>5. Params(i, v) \in Seq(Field) /\ Len(Params(i, v)) = 3
  BY <1>3 DEF Params
<1>6. ASSUME NEW p \in 1..3, p = i, i # FrameSize  PROVE Params(i, v)[p] = Number(v)
  BY <1>6 DEF Params, Setting
<1>7. ListSize(i, v) \in Seq(Field) /\ Len(ListSize(i, v)) = 1
  BY FieldTypes DEF ListSize
<1>8. i = 4 => ListSize(i, v)[1] = Number(v)
  BY DEF ListSize
<1>. QED  BY <1>5, <1>6, <1>7, <1>8

\* What a line looks like after one of the commands that append to it.
Grown(i, fields, of) ==
  /\ file'[i] # << >>
  /\ LastLine(i)'.fields = Extended(LastLine(i), fields, of).fields
  /\ Shown(i)' = Shown(i) \cup of
  /\ Timed(i)' => Timed(i)
  /\ \A j \in Sweep : j # i => file'[j] = file[j]

LEMMA PrintStep ==
  ASSUME TypeOK, NEW i \in Sweep, i = at, NEW from \in Writing, NEW to \in Writing,
         NEW fields \in Seq(Field), NEW of \in SUBSET Nat, Printf(from, to, fields, of)
  PROVE  TypeOK' /\ Grown(i, fields, of)
<1>1. /\ FilesOK /\ file[i] # << >> /\ pc = from
      /\ pc' = to /\ UNCHANGED <<at, value, start, kills, untimed>>
      /\ value <= LastOf[i]
  BY DEF TypeOK, Printf, FilesOK
<1>. DEFINE line == LastLine(i)
            new == Extended(line, fields, of)
<1>2. line \in Line
  BY <1>1 DEF FilesOK, LastLine
<1>3. new \in Line /\ new.of = line.of \cup of /\ new.timed = line.timed
  BY <1>2, ExtendedLine
<1>4. file' = [file EXCEPT ![i][Len(file[i])] = new]
  BY DEF Printf, ReplaceLast
<1>. HIDE DEF new
<1>5. /\ FilesOK' /\ file'[i] # << >> /\ LastLine(i)' = new
      /\ \A j \in Sweep : j # i => file'[j] = file[j]
      /\ line.of \subseteq new.of => Shown(i)' = Shown(i) \cup new.of
      /\ (new.timed => line.timed) => (Timed(i)' => Timed(i))
  BY <1>1, <1>3, <1>4, LineReplaced
<1>6. TypeOK'
  BY <1>1, <1>5 DEF TypeOK, FilesOK, Writing
<1>7. line.of \subseteq Shown(i)
  BY <1>1 DEF Shown, LastLine, FilesOK
<1>8. Shown(i)' = Shown(i) \cup of
  BY <1>3, <1>5, <1>7
<1>. QED  BY <1>3, <1>5, <1>6, <1>8 DEF Grown, new

\* The two ways to write the times: into a line of their own, or into the line that
\* an earlier script left.
LEMMA TimesStep ==
  ASSUME TypeOK, NEW i \in Sweep, i = at, WriteTimes
  PROVE  /\ TypeOK' /\ file'[i] # << >> /\ Shown(i)' = Shown(i)
         /\ Timed(i)' => Timed(i)
         /\ \A j \in Sweep : j # i => file'[j] = file[j]
         /\ LastLine(i).ended /\ Timed(i)' => Len(LastLine(i)'.fields) = 2
         /\ ~LastLine(i).ended => \E fields \in Seq(Field) :
              LastLine(i)'.fields = Extended(LastLine(i), fields, {}).fields
<1>. PICK times \in {<< >>, <<Word>>, <<Word, Word>>} :
       /\ untimed' = IF Len(times) = 2 THEN untimed ELSE untimed + 1
       /\ untimed' <= MaxUntimed
       /\ IF LastLine(at).ended
          THEN file' = [file EXCEPT ![at] = Append(@, RowBegun(NewLine, times))]
          ELSE ReplaceLast(RowBegun(LastLine(at), times))
  BY DEF WriteTimes
<1>1. /\ FilesOK /\ file[i] # << >> /\ LastLine(i) \in Line
      /\ pc' = "params" /\ UNCHANGED <<at, value, start, kills>>
      /\ value <= LastOf[i]
  BY DEF TypeOK, WriteTimes, FilesOK, LastLine, Writing
<1>2. untimed' \in 0..MaxUntimed
  BY DEF TypeOK
<1>3. times \in Seq(Field)
  BY FieldTypes
<1>4. ASSUME NEW line \in Line
      PROVE  /\ RowBegun(line, times) \in Line /\ RowBegun(line, times).of = line.of
             /\ RowBegun(line, times).fields = Extended(line, times, {}).fields
             /\ RowBegun(line, times).timed => line.timed /\ Len(times) = 2
  <2>. DEFINE new == Extended(line, times, {})
              row == RowBegun(line, times)
              both == Len(times) = 2
  <2>1. {} \in SUBSET Nat
    OBVIOUS
  <2>2. new \in Line /\ new.of = line.of \cup {} /\ new.timed = line.timed
    BY <1>3, <2>1, ExtendedLine
  <2>3. row = [new EXCEPT !.rows = new.rows + 1, !.timed = new.timed /\ both]
    BY DEF RowBegun
  <2>. HIDE DEF new, row, both
  <2>4. row.of = new.of /\ row.fields = new.fields /\ row.timed = (new.timed /\ both)
    BY <2>2, <2>3 DEF Line
  <2>5. (new.timed /\ both) \in BOOLEAN /\ new.rows + 1 \in Nat
    BY <2>2 DEF Line
  <2>6. row \in Line
    BY <2>2, <2>3, <2>5 DEF Line
  <2>7. row.timed => line.timed /\ both
    BY <2>2, <2>4
  <2>. QED  BY <2>2, <2>4, <2>6, <2>7 DEF new, row, both
<1>5. CASE LastLine(i).ended
  <2>. DEFINE new == RowBegun(NewLine, times)
  <2>1. new \in Line /\ new.of = {} /\ new.fields = Extended(NewLine, times, {}).fields
        /\ (new.timed => Len(times) = 2)
    <3>1. NewLine \in Line /\ NewLine.of = {}
      BY FieldTypes DEF NewLine
    <3>. QED  BY <1>4, <3>1
  <2>2. Len(Extended(NewLine, times, {}).fields) = Min6(Len(times))
    <3>1. NewLine \in Line /\ Len(NewLine.fields) = 0 /\ {} \in SUBSET Nat
      BY FieldTypes DEF NewLine
    <3>2. Len(Extended(NewLine, times, {}).fields) = Min6(Len(NewLine.fields) + Len(times))
      BY <1>3, <3>1, ExtendedLine
    <3>. QED  BY <1>3, <3>1, <3>2
  <2>3. file' = [file EXCEPT ![i] = Append(@, new)]
    BY <1>5
  <2>. HIDE DEF new
  <2>4. /\ FilesOK' /\ file'[i] # << >> /\ LastLine(i)' = new
        /\ \A j \in Sweep : j # i => file'[j] = file[j]
        /\ Shown(i)' = Shown(i) \cup new.of
        /\ Timed(i)' => Timed(i) /\ new.timed
    BY <1>1, <2>1, <2>3, LineAdded
  <2>5. TypeOK'
    BY <1>1, <1>2, <2>4 DEF TypeOK, FilesOK, Writing
  <2>6. Timed(i)' => Len(LastLine(i)'.fields) = 2
    <3>1. Min6(2) = 2
      BY DEF Min6, Columns
    <3>. QED  BY <2>1, <2>2, <2>4, <3>1
  <2>. QED  BY <1>5, <2>1, <2>4, <2>5, <2>6
<1>6. CASE ~LastLine(i).ended
  <2>. DEFINE new == RowBegun(LastLine(i), times)
  <2>1. new \in Line /\ new.of = LastLine(i).of /\ (new.timed => LastLine(i).timed)
        /\ new.fields = Extended(LastLine(i), times, {}).fields
    BY <1>1, <1>4
  <2>2. file' = [file EXCEPT ![i][Len(file[i])] = new]
    BY <1>6 DEF ReplaceLast
  <2>. HIDE DEF new
  <2>3. /\ FilesOK' /\ file'[i] # << >> /\ LastLine(i)' = new
        /\ \A j \in Sweep : j # i => file'[j] = file[j]
        /\ Shown(i)' = Shown(i) \cup new.of
        /\ Timed(i)' => Timed(i)
    BY <1>1, <2>1, <2>2, LineReplaced
  <2>4. TypeOK'
    BY <1>1, <1>2, <2>3 DEF TypeOK, FilesOK, Writing
  <2>5. LastLine(i).of \subseteq Shown(i)
    BY <1>1 DEF Shown, LastLine, FilesOK
  <2>. QED  BY <1>3, <1>6, <2>1, <2>3, <2>4, <2>5
<1>. QED  BY <1>5, <1>6

LEMMA NewlineStep ==
  ASSUME TypeOK, NEW i \in Sweep, i = at, WriteNewline
  PROVE  /\ TypeOK' /\ file'[i] # << >> /\ Shown(i)' = Shown(i)
         /\ Timed(i)' => Timed(i)
         /\ \A j \in Sweep : j # i => file'[j] = file[j]
         /\ LastLine(i)'.fields = LastLine(i).fields /\ LastLine(i)'.ended
<1>. DEFINE new == [LastLine(i) EXCEPT !.ended = TRUE]
<1>1. /\ FilesOK /\ file[i] # << >> /\ LastLine(i) \in Line
      /\ pc' = "loop" /\ value' = value + 1 /\ UNCHANGED <<at, start, kills, untimed>>
      /\ file' = [file EXCEPT ![i][Len(file[i])] = new]
  BY DEF TypeOK, WriteNewline, ReplaceLast, FilesOK, LastLine, Writing
<1>2. /\ new \in Line /\ new.of = LastLine(i).of /\ new.timed = LastLine(i).timed
      /\ new.fields = LastLine(i).fields /\ new.ended
  BY <1>1 DEF Line
<1>. HIDE DEF new
<1>3. /\ FilesOK' /\ file'[i] # << >> /\ LastLine(i)' = new
      /\ \A j \in Sweep : j # i => file'[j] = file[j]
      /\ Shown(i)' = Shown(i) \cup new.of
      /\ Timed(i)' => Timed(i)
  BY <1>1, <1>2, LineReplaced
<1>4. LastLine(i).of \subseteq Shown(i)
  BY <1>1 DEF Shown, LastLine, FilesOK
<1>5. TypeOK'
  BY <1>1, <1>3 DEF TypeOK, FilesOK, Writing
<1>. QED  BY <1>2, <1>3, <1>4, <1>5

\* The results of the client and of the server, as WriteTotals and WriteLoads print
\* them: some fields, and no value of a parameter.
LEMMA ResultFields ==
  /\ WriteTotals => \E fields \in Seq(Field) : Printf("totals", "loads", fields, {})
  /\ WriteLoads => \E fields \in Seq(Field) : Printf("loads", "newline", fields, {})
<1>1. ASSUME WriteTotals  PROVE \E fields \in Seq(Field) : Printf("totals", "loads", fields, {})
  <2>1. CASE Printf("totals", "loads", << >>, {})
    BY <2>1, FieldTypes
  <2>2. ASSUME NEW total \in 0..Requests, NEW success \in 0..total,
               Printf("totals", "loads", <<Number(total), Number(success)>>, {})
        PROVE  \E fields \in Seq(Field) : Printf("totals", "loads", fields, {})
    <3>1. total \in Nat /\ success \in Nat
      BY SweepAssumption
    <3>2. <<Number(total), Number(success)>> \in Seq(Field)
      BY <3>1, FieldTypes
    <3>. QED  BY <2>2, <3>2
  <2>. QED  BY <1>1, <2>1, <2>2 DEF WriteTotals
<1>2. ASSUME WriteLoads  PROVE \E fields \in Seq(Field) : Printf("loads", "newline", fields, {})
  <2>1. PICK load \in {Word, Number(0)} : Printf("loads", "newline", <<load, load>>, {})
    BY <1>2 DEF WriteLoads
  <2>2. <<load, load>> \in Seq(Field)
    BY FieldTypes
  <2>. QED  BY <2>1, <2>2
<1>. QED  BY <1>1, <1>2

\* Each of the commands before the newline prints some fields.
LEMMA PrintsFields ==
  ASSUME TypeOK, WriteParams \/ WriteListSize \/ WriteTotals \/ WriteLoads
  PROVE  \E from \in Writing, to \in Writing, fields \in Seq(Field), of \in SUBSET Nat :
           Printf(from, to, fields, of)
<1>1. /\ value \in Nat /\ value <= LastOf[at] /\ at \in Sweep
  BY DEF WriteParams, WriteListSize, WriteTotals, WriteLoads, Printf, TypeOK, Writing
<1>2. Params(at, value) \in Seq(Field) /\ ListSize(at, value) \in Seq(Field)
  BY <1>1, ParamTypes
<1>3. (IF at = 4 THEN {} ELSE {value}) \in SUBSET Nat /\ {value} \in SUBSET Nat
      /\ {} \in SUBSET Nat
  BY <1>1
<1>4. CASE WriteParams
  BY <1>2, <1>3, <1>4 DEF WriteParams, Writing
<1>5. CASE WriteListSize
  BY <1>2, <1>3, <1>5 DEF WriteListSize, Writing
<1>6. CASE WriteTotals
  BY <1>3, <1>6, ResultFields DEF Writing
<1>7. CASE WriteLoads
  BY <1>3, <1>7, ResultFields DEF Writing
<1>. QED  BY <1>4, <1>5, <1>6, <1>7

\* The value in the last line, if it is a mark, is a number.
LEMMA MarkType ==
  ASSUME FilesOK, NEW i \in Sweep, Marked(i)  PROVE Mark(i) \in Nat
<1>1. LastLine(i) \in Line
  BY DEF FilesOK, Marked, LastLine
<1>2. Column(i) \in 1..Len(LastLine(i).fields)
  BY <1>1 DEF Marked, Column, Sweep, Line
<1>3. LastLine(i).fields \in Seq(Field)
  BY <1>1 DEF Line
<1>4. LastLine(i).fields[Column(i)] \in Field
  BY <1>2, <1>3
<1>. QED  BY <1>4 DEF Mark, Field

\* What every action does to the types.
LEMMA TypeStep ==
  ASSUME TypeOK, [Next]_vars  PROVE TypeOK'
<1>. PICK i \in Sweep : i = at
  BY DEF TypeOK
<1>1. CASE Start
  BY <1>1 DEF Start, TypeOK, Writing, Sweep
<1>2. CASE Killed
  <2>1. kills' \in 0..MaxKills
    BY <1>2, SweepAssumption DEF Killed, TypeOK
  <2>. QED  BY <1>2, <2>1 DEF Killed, TypeOK, Writing, Sweep
<1>3. CASE Resume
  <2>1. Mark(i) \in Nat /\ file[i] # << >>
    BY <1>3, MarkType DEF Resume, TypeOK, FilesOK, Marked
  <2>2. FirstOf[i] \in Nat
    BY SweepAssumption
  <2>. QED  BY <1>3, <2>1, <2>2 DEF Resume, TypeOK, Writing
<1>4. CASE StartOver
  <2>1. <<Header>> \in Seq(Line) /\ <<Header>> # << >> /\ FirstOf[i] \in Nat
    BY FieldTypes, SweepAssumption
  <2>2. /\ file' = [file EXCEPT ![i] = <<Header>>] /\ pc' = "loop"
        /\ start' = FirstOf[i] /\ value' = FirstOf[i] /\ UNCHANGED <<at, kills, untimed>>
    BY <1>4 DEF StartOver
  <2>3. file' \in [Sweep -> Seq(Line)] /\ file'[i] # << >>
    BY <2>1, <2>2 DEF TypeOK
  <2>. QED  BY <2>1, <2>2, <2>3 DEF TypeOK, Writing
<1>5. CASE Skip
  BY <1>5 DEF Skip, TypeOK, Writing
<1>6. CASE RunExperiment
  BY <1>6 DEF RunExperiment, TypeOK, Writing
<1>7. CASE NextSweep
  <2>1. at' \in Sweep /\ pc' \in {"begin", "done"} /\ UNCHANGED <<file, value, start, kills, untimed>>
    BY <1>7 DEF NextSweep, TypeOK, Sweep
  <2>. QED  BY <2>1 DEF TypeOK, Writing
<1>8. CASE WriteTimes
  BY <1>8, TimesStep
<1>9. CASE WriteParams
  <2>1. value \in Nat /\ value <= LastOf[i]
    BY <1>9 DEF WriteParams, Printf, TypeOK, Writing
  <2>2. Params(i, value) \in Seq(Field) /\ (IF i = 4 THEN {} ELSE {value}) \in SUBSET Nat
    BY <2>1, ParamTypes
  <2>. QED  BY <1>9, <2>2, PrintStep DEF WriteParams, Writing
<1>10. CASE WriteListSize
  <2>1. value \in Nat /\ value <= LastOf[i]
    BY <1>10 DEF WriteListSize, Printf, TypeOK, Writing
  <2>2. ListSize(i, value) \in Seq(Field) /\ {value} \in SUBSET Nat
    BY <2>1, ParamTypes
  <2>. QED  BY <1>10, <2>2, PrintStep DEF WriteListSize, Writing
<1>11. CASE WriteTotals
  <2>1. PICK fields \in Seq(Field) : Printf("totals", "loads", fields, {})
    BY <1>11, ResultFields
  <2>. QED  BY <2>1, PrintStep DEF Writing
<1>12. CASE WriteLoads
  <2>1. PICK fields \in Seq(Field) : Printf("loads", "newline", fields, {})
    BY <1>12, ResultFields
  <2>. QED  BY <2>1, PrintStep DEF Writing
<1>13. CASE WriteNewline
  BY <1>13, NewlineStep
<1>14. CASE UNCHANGED vars
  BY <1>14 DEF vars, script, TypeOK
<1>. QED  BY <1>1, <1>2, <1>3, <1>4, <1>5, <1>6, <1>7, <1>8, <1>9, <1>10, <1>11, <1>12,
             <1>13, <1>14 DEF Next

LEMMA TypeInit == Init => TypeOK
<1>1. [i \in Sweep |-> << >>] \in [Sweep -> Seq(Line)]
  OBVIOUS
<1>. QED  BY <1>1, SweepAssumption DEF Init, TypeOK, Writing, Sweep

\* Sweep keeps its types: a running script always has a file to append to.
THEOREM TypeCorrect == Spec => []TypeOK
BY TypeInit, TypeStep, PTL DEF Spec

------------------------------------------------------------------------------
(* Nothing is skipped                                                        *)

Upto(i, n) == FirstOf[i]..n \subseteq Shown(i)

\* The mark of a file stands for every value up to it.
MarkOK(i) == Timed(i) /\ Marked(i) => Upto(i, Mark(i))

\* A file that is finished shows every value.
DoneOK(i) == Finished(i) /\ Timed(i) => Values(i) \subseteq Shown(i)

\* What the running script has done of its sweep, and where the mark will be: in a
\* line of its own, of 2 fields after the times and 5 after the parameters, or in the
\* unfinished line it found, which has one already.
LoopOK(i) ==
  i = at /\ Timed(i) =>
    /\ pc \in Writing \cup {"loop"} => Upto(i, value - 1) /\ Upto(i, start - 1)
    /\ pc \in {"loop", "times"} => LastLine(i).ended \/ Marked(i)
    /\ pc = "params" => Marked(i) \/ Len(LastLine(i).fields) = 2
    /\ pc = "listsize" => Marked(i) \/ (i = 4 /\ Len(LastLine(i).fields) = 5)
    /\ pc \in {"totals", "loads", "newline"} => Marked(i)
    /\ pc \in {"totals", "loads", "newline"} \/ (pc = "listsize" /\ i # 4) => value \in Shown(i)

SweepOK == \A i \in Sweep \ {FrameSize} : MarkOK(i) /\ DoneOK(i) /\ LoopOK(i)

\* A line that has its mark keeps it when fields are added.
LEMMA MarkStays ==
  ASSUME FilesOK, NEW i \in Sweep, Marked(i), NEW fields \in Seq(Field), NEW of \in SUBSET Nat,
         file'[i] # << >>, LastLine(i)'.fields = Extended(LastLine(i), fields, of).fields
  PROVE  Marked(i)' /\ Mark(i)' = Mark(i)
<1>1. LastLine(i) \in Line
  BY DEF FilesOK, Marked, LastLine
<1>. DEFINE old == LastLine(i).fields
            new == LastLine(i)'.fields
<1>2. /\ Len(new) = Min6(Len(old) + Len(fields))
      /\ \A c \in 1..Len(new) : new[c] = IF c <= Len(old) THEN old[c] ELSE fields[c - Len(old)]
  BY <1>1, ExtendedLine
<1>3. Column(i) \in 1..Len(old) /\ Column(i) <= Columns /\ old \in Seq(Field)
  BY <1>1 DEF Marked, Column, Columns, Sweep, Line
<1>4. Column(i) \in 1..Len(new)
  BY <1>2, <1>3 DEF Min6, Columns
<1>5. new[Column(i)] = old[Column(i)]
  BY <1>2, <1>3, <1>4
<1>. QED  BY <1>4, <1>5 DEF Marked, Mark

\* A line of n fields that has no mark yet, and the fields that are added.
LEMMA MarkComes ==
  ASSUME FilesOK, NEW i \in Sweep, file[i] # << >>, NEW fields \in Seq(Field),
         NEW of \in SUBSET Nat, NEW n \in {2, 5}, Len(LastLine(i).fields) = n,
         n + Len(fields) <= Columns, file'[i] # << >>,
         LastLine(i)'.fields = Extended(LastLine(i), fields, of).fields
  PROVE  /\ Len(LastLine(i)'.fields) = n + Len(fields)
         /\ Column(i) \in (n + 1)..(n + Len(fields)) =>
              /\ fields[Column(i) - n].number => Marked(i)' /\ Mark(i)' = fields[Column(i) - n].value
              /\ Marked(i)' => fields[Column(i) - n].number
         /\ Column(i) > n + Len(fields) => ~Marked(i)'
<1>1. LastLine(i) \in Line
  BY DEF FilesOK, LastLine
<1>. DEFINE old == LastLine(i).fields
            new == LastLine(i)'.fields
<1>2. /\ Len(new) = Min6(Len(old) + Len(fields))
      /\ \A c \in 1..Len(new) : new[c] = IF c <= Len(old) THEN old[c] ELSE fields[c - Len(old)]
  BY <1>1, ExtendedLine
<1>3. Len(new) = n + Len(fields)
  BY <1>2 DEF Min6
<1>4. ASSUME Column(i) \in (n + 1)..(n + Len(fields))
      PROVE  Column(i) \in 1..Len(new) /\ new[Column(i)] = fields[Column(i) - n]
  <2>1. Column(i) \in 1..Len(new) /\ ~(Column(i) <= Len(old))
    BY <1>3, <1>4
  <2>. QED  BY <1>2, <2>1
<1>5. Column(i) > n + Len(fields) => ~Marked(i)'
  BY <1>3 DEF Marked, Column, Sweep
<1>6. ASSUME Column(i) \in (n + 1)..(n + Len(fields))
      PROVE  /\ fields[Column(i) - n].number =>
                  Marked(i)' /\ Mark(i)' = fields[Column(i) - n].value
             /\ Marked(i)' => fields[Column(i) - n].number
  <2>1. Column(i) <= Len(new) /\ new[Column(i)] = fields[Column(i) - n]
    BY <1>4, <1>6
  <2>. QED  BY <2>1 DEF Marked, Mark
<1>. QED  BY <1>3, <1>5, <1>6

\* A file that is not written to.
LEMMA FileStays ==
  ASSUME NEW i \in Sweep, file'[i] = file[i]
  PROVE  /\ Timed(i)' = Timed(i) /\ Marked(i)' = Marked(i) /\ Mark(i)' = Mark(i)
         /\ Shown(i)' = Shown(i) /\ LastLine(i)' = LastLine(i)
<1>1. LastLine(i)' = LastLine(i)
  BY DEF LastLine
<1>. QED  BY <1>1 DEF Timed, Marked, Mark, Shown

LEMMA SweepInit == Init => SweepOK
<1>. SUFFICES ASSUME Init, NEW i \in Sweep  PROVE MarkOK(i) /\ DoneOK(i) /\ LoopOK(i)
  BY DEF SweepOK
<1>1. pc = "off" /\ file[i] = << >>
  BY DEF Init
<1>. QED  BY <1>1 DEF MarkOK, Marked, DoneOK, Finished, LoopOK, Writing

\* A file that is not written to, of a sweep that no script is in.
LEMMA SweepStays ==
  ASSUME NEW i \in Sweep, MarkOK(i), DoneOK(i), file'[i] = file[i],
         Finished(i)' => Finished(i), i # at' \/ pc' \notin Writing \cup {"loop"}
  PROVE  MarkOK(i)' /\ DoneOK(i)' /\ LoopOK(i)'
<1>1. MarkOK(i)' /\ DoneOK(i)'
  BY FileStays DEF MarkOK, DoneOK, Upto
<1>2. LoopOK(i)'
  BY DEF LoopOK, Writing
<1>. QED  BY <1>1, <1>2

\* The commands that append to the line, before and after the mark is there.
LEMMA SweepPrints ==
  ASSUME TypeOK, NEW i \in Sweep \ {FrameSize}, i = at, MarkOK(i), LoopOK(i),
         WriteParams \/ WriteListSize \/ WriteTotals \/ WriteLoads
  PROVE  MarkOK(i)' /\ LoopOK(i)'
<1>. SUFFICES ASSUME Timed(i)'  PROVE MarkOK(i)' /\ LoopOK(i)'
  BY DEF MarkOK, LoopOK
<1>. DEFINE v == value
<1>1. FilesOK /\ file[i] # << >> /\ v \in Nat /\ v <= LastOf[i] /\ pc \in Writing /\ at \in Sweep
  BY DEF TypeOK, FilesOK, WriteParams, WriteListSize, WriteTotals, WriteLoads, Printf, Writing
<1>2. UNCHANGED <<at, value, start>>
  BY DEF WriteParams, WriteListSize, WriteTotals, WriteLoads, Printf
<1>3. FirstOf[i] \in Nat /\ start \in Nat
  BY <1>1, SweepAssumption DEF TypeOK
<1>4. ASSUME NEW from \in Writing, NEW to \in Writing, NEW fields \in Seq(Field),
             NEW of \in SUBSET Nat, Printf(from, to, fields, of)
      PROVE  /\ Timed(i) /\ pc = from /\ pc' = to /\ Shown(i)' = Shown(i) \cup of
             /\ file'[i] # << >>
             /\ LastLine(i)'.fields = Extended(LastLine(i), fields, of).fields
             /\ Upto(i, v - 1)' /\ Upto(i, start - 1)'
             /\ v \in Shown(i)' => Upto(i, v)'
             /\ Marked(i) => Marked(i)' /\ Upto(i, Mark(i))'
  <2>1. Grown(i, fields, of) /\ pc = from /\ pc' = to
    BY <1>4, PrintStep DEF Printf
  <2>2. /\ Timed(i) /\ Shown(i)' = Shown(i) \cup of /\ file'[i] # << >>
        /\ LastLine(i)'.fields = Extended(LastLine(i), fields, of).fields
    BY <2>1 DEF Grown
  <2>3. Upto(i, v - 1) /\ Upto(i, start - 1)
    BY <2>1, <2>2 DEF LoopOK
  <2>4. FirstOf[i]..(v - 1) \subseteq Shown(i)' /\ FirstOf[i]..(start - 1) \subseteq Shown(i)'
    BY <2>2, <2>3 DEF Upto
  <2>5. v \in Shown(i)' => FirstOf[i]..v \subseteq Shown(i)'
    BY <1>1, <1>3, <2>4
  <2>6. ASSUME Marked(i)  PROVE Marked(i)' /\ Upto(i, Mark(i))'
    <3>1. Marked(i)' /\ Mark(i)' = Mark(i)
      BY <1>1, <2>2, <2>6, MarkStays
    <3>2. FirstOf[i]..Mark(i) \subseteq Shown(i)
      BY <2>2, <2>6 DEF MarkOK, Upto
    <3>. QED  BY <2>2, <3>1, <3>2 DEF Upto
  <2>. QED  BY <1>2, <2>1, <2>2, <2>4, <2>5, <2>6 DEF Upto
<1>5. CASE WriteParams
  <2>. DEFINE of == IF i = 4 THEN {} ELSE {v}
  <2>1. /\ Params(i, v) \in Seq(Field) /\ Len(Params(i, v)) = 3 /\ of \in SUBSET Nat
        /\ i # 4 => Params(i, v)[i] = Number(v)
    BY <1>1, ParamTypes DEF Sweep, FrameSize
  <2>2. /\ Timed(i) /\ pc = "params" /\ pc' = "listsize" /\ Shown(i)' = Shown(i) \cup of
        /\ file'[i] # << >>
        /\ LastLine(i)'.fields = Extended(LastLine(i), Params(i, v), of).fields
        /\ Upto(i, v - 1)' /\ Upto(i, start - 1)'
        /\ v \in Shown(i)' => Upto(i, v)'
        /\ Marked(i) => Marked(i)' /\ Upto(i, Mark(i))'
    BY <1>4, <1>5, <2>1 DEF WriteParams, Writing
  <2>3. i # 4 => v \in Shown(i)'
    BY <2>2
  <2>4. CASE Marked(i)
    BY <1>2, <2>2, <2>3, <2>4 DEF MarkOK, LoopOK, Writing
  <2>5. CASE ~Marked(i)
    <3>1. Len(LastLine(i).fields) = 2
      BY <2>2, <2>5 DEF LoopOK
    <3>2. /\ Len(LastLine(i)'.fields) = 2 + 3
          /\ Column(i) \in (2 + 1)..(2 + 3) =>
               /\ Params(i, v)[Column(i) - 2].number =>
                    Marked(i)' /\ Mark(i)' = Params(i, v)[Column(i) - 2].value
               /\ Marked(i)' => Params(i, v)[Column(i) - 2].number
          /\ Column(i) > 2 + 3 => ~Marked(i)'
      <4>. DEFINE fields == Params(i, v)
      <4>1. /\ FilesOK /\ file[i] # << >> /\ file'[i] # << >> /\ Len(fields) = 3
            /\ LastLine(i)'.fields = Extended(LastLine(i), fields, of).fields
        BY <1>1, <2>1, <2>2
      <4>2. i \in Sweep /\ fields \in Seq(Field) /\ of \in SUBSET Nat
        BY <2>1
      <4>. HIDE DEF fields, of
      <4>3. 2 \in {2, 5} /\ 2 + Len(fields) <= Columns
        BY <4>1 DEF Columns
      <4>4. /\ Len(LastLine(i)'.fields) = 2 + Len(fields)
            /\ Column(i) \in (2 + 1)..(2 + Len(fields)) =>
                 /\ fields[Column(i) - 2].number =>
                      Marked(i)' /\ Mark(i)' = fields[Column(i) - 2].value
                 /\ Marked(i)' => fields[Column(i) - 2].number
            /\ Column(i) > 2 + Len(fields) => ~Marked(i)'
        BY <3>1, <4>1, <4>2, <4>3, MarkComes
      <4>. QED  BY <4>1, <4>4 DEF fields
    <3>3. CASE i = 4
      <4>1. ~Marked(i)' /\ Len(LastLine(i)'.fields) = 5
        BY <3>2, <3>3 DEF Column
      <4>. QED  BY <1>2, <2>2, <3>3, <4>1 DEF MarkOK, LoopOK, Writing
    <3>4. CASE i # 4
      <4>1. Column(i) \in (2 + 1)..(2 + 3) /\ Column(i) - 2 = i
        BY <3>4 DEF Column, Sweep, FrameSize
      <4>2. Params(i, v)[Column(i) - 2] = Number(v)
        BY <2>1, <3>4, <4>1
      <4>3. Marked(i)' /\ Mark(i)' = v
        BY <3>2, <4>1, <4>2 DEF Number
      <4>4. Upto(i, v)' /\ v \in Shown(i)'
        BY <2>2, <2>3, <3>4
      <4>5. MarkOK(i)'
        BY <1>2, <4>3, <4>4 DEF MarkOK, Upto
      <4>. QED  BY <1>2, <2>2, <4>3, <4>4, <4>5 DEF LoopOK, Writing
    <3>. QED  BY <3>3, <3>4
  <2>. QED  BY <2>4, <2>5
<1>6. CASE WriteListSize
  <2>1. /\ ListSize(i, v) \in Seq(Field) /\ Len(ListSize(i, v)) = 1 /\ {v} \in SUBSET Nat
        /\ i = 4 => ListSize(i, v)[1] = Number(v)
    BY <1>1, ParamTypes
  <2>2. /\ Timed(i) /\ pc = "listsize" /\ pc' = "totals" /\ Shown(i)' = Shown(i) \cup {v}
        /\ file'[i] # << >>
        /\ LastLine(i)'.fields = Extended(LastLine(i), ListSize(i, v), {v}).fields
        /\ Upto(i, v - 1)' /\ Upto(i, start - 1)'
        /\ v \in Shown(i)' => Upto(i, v)'
        /\ Marked(i) => Marked(i)' /\ Upto(i, Mark(i))'
    BY <1>4, <1>6, <2>1 DEF WriteListSize, Writing
  <2>3. CASE Marked(i)
    BY <1>2, <2>2, <2>3 DEF MarkOK, LoopOK, Writing
  <2>4. CASE ~Marked(i)
    <3>1. i = 4 /\ Len(LastLine(i).fields) = 5
      BY <2>2, <2>4 DEF LoopOK
    <3>2. Column(i) \in (5 + 1)..(5 + 1) /\ Column(i) - 5 = 1
      BY <3>1 DEF Column
    <3>3. /\ Column(i) \in (5 + 1)..(5 + 1) =>
               /\ ListSize(i, v)[Column(i) - 5].number =>
                    Marked(i)' /\ Mark(i)' = ListSize(i, v)[Column(i) - 5].value
      <4>1. 5 \in {2, 5} /\ 5 + Len(ListSize(i, v)) <= Columns
        BY <2>1 DEF Columns
      <4>. QED  BY <1>1, <2>1, <2>2, <3>1, <4>1, MarkComes
    <3>4. Marked(i)' /\ Mark(i)' = v
      BY <2>1, <3>1, <3>2, <3>3 DEF Number
    <3>5. MarkOK(i)'
      BY <1>2, <2>2, <3>4 DEF MarkOK, Upto
    <3>. QED  BY <1>2, <2>2, <3>4, <3>5 DEF LoopOK, Writing
  <2>. QED  BY <2>3, <2>4
<1>7. ASSUME NEW from \in {"totals", "loads"}, NEW to \in {"loads", "newline"},
             NEW fields \in Seq(Field), Printf(from, to, fields, {})
      PROVE  MarkOK(i)' /\ LoopOK(i)'
  <2>1. {} \in SUBSET Nat /\ from \in Writing /\ to \in Writing
    BY DEF Writing
  <2>2. /\ Timed(i) /\ pc = from /\ pc' = to /\ Shown(i)' = Shown(i)
        /\ Upto(i, v - 1)' /\ Upto(i, start - 1)'
        /\ Marked(i) => Marked(i)' /\ Upto(i, Mark(i))'
    BY <1>4, <1>7, <2>1
  <2>3. Marked(i) /\ v \in Shown(i)
    BY <2>2 DEF LoopOK
  <2>. QED  BY <1>2, <2>2, <2>3 DEF MarkOK, LoopOK, Writing
<1>. QED  BY <1>5, <1>6, <1>7, ResultFields

LEMMA SweepStep ==
  ASSUME TypeOK, SweepOK, [Next]_vars  PROVE SweepOK'
<1>. SUFFICES ASSUME NEW i \in Sweep \ {FrameSize}  PROVE MarkOK(i)' /\ DoneOK(i)' /\ LoopOK(i)'
  BY DEF SweepOK
<1>1. /\ MarkOK(i) /\ DoneOK(i) /\ LoopOK(i) /\ FilesOK /\ at \in Sweep /\ i \in Sweep
      /\ value \in Nat /\ start \in Nat /\ FirstOf[i] \in Nat /\ LastOf[i] \in Nat
  BY SweepAssumption DEF SweepOK, TypeOK, FilesOK
<1>2. CASE Start
  <2>1. file'[i] = file[i] /\ pc' \notin Writing \cup {"loop"} /\ ~Finished(i)'
    BY <1>2 DEF Start, Finished, Writing, Sweep
  <2>. QED  BY <1>1, <2>1, SweepStays
<1>3. CASE Killed
  <2>1. file'[i] = file[i] /\ pc' \notin Writing \cup {"loop"} /\ ~Finished(i)'
    BY <1>3 DEF Killed, Finished, Writing
  <2>. QED  BY <1>1, <2>1, SweepStays
<1>4. CASE Resume
  <2>1. /\ file' = file /\ at' = at /\ pc = "begin" /\ pc' = "loop"
        /\ value' = FirstOf[at] /\ start' = Mark(at) + 1 /\ Marked(at)
    BY <1>4 DEF Resume
  <2>2. Finished(i)' => Finished(i)
    BY <2>1 DEF Finished
  <2>3. CASE i # at
    BY <1>1, <2>1, <2>2, <2>3, SweepStays
  <2>4. CASE i = at
    <3>1. /\ Timed(i)' = Timed(i) /\ Marked(i)' = Marked(i) /\ Mark(i)' = Mark(i)
          /\ Shown(i)' = Shown(i) /\ LastLine(i)' = LastLine(i)
      BY <2>1, FileStays
    <3>2. MarkOK(i)' /\ DoneOK(i)'
      BY <1>1, <2>2, <3>1 DEF MarkOK, DoneOK, Upto
    <3>3. Mark(i) \in Nat /\ (Mark(i) + 1) - 1 = Mark(i) /\ FirstOf[i]..(FirstOf[i] - 1) = {}
      BY <1>1, <2>1, <2>4, MarkType
    <3>4. Timed(i) => FirstOf[i]..((Mark(i) + 1) - 1) \subseteq Shown(i)
      BY <1>1, <2>1, <2>4, <3>3 DEF MarkOK, Upto
    <3>. QED  BY <2>1, <2>4, <3>1, <3>2, <3>3, <3>4 DEF LoopOK, Upto, Writing
  <2>. QED  BY <2>3, <2>4
<1>5. CASE StartOver
  <2>1. /\ file' = [file EXCEPT ![at] = <<Header>>] /\ at' = at /\ pc = "begin" /\ pc' = "loop"
        /\ value' = FirstOf[at] /\ start' = FirstOf[at]
    BY <1>5 DEF StartOver
  <2>2. Finished(i)' => Finished(i)
    BY <2>1 DEF Finished
  <2>3. CASE i # at
    BY <1>1, <2>1, <2>2, <2>3, SweepStays DEF FilesOK
  <2>4. CASE i = at
    <3>1. file'[i] = <<Header>>
      BY <1>1, <2>1, <2>4 DEF FilesOK
    <3>2. LastLine(i)' = Header
      BY <3>1 DEF LastLine
    <3>3. ~Marked(i)' /\ Header.ended
      <4>1. ~Header.fields[Column(i)].number \/ ~(Column(i) <= Len(Header.fields))
        <5>1. Column(i) \in 1..Columns
          BY <1>1 DEF Column, Columns, Sweep
        <5>. QED  BY <5>1 DEF Header, Word
      <4>. QED  BY <3>2, <4>1 DEF Marked, Header
    <3>4. ~Finished(i)'
      BY <1>1, <2>1, <2>4 DEF Finished, Sweep
    <3>5. FirstOf[i]..(FirstOf[i] - 1) = {}
      BY <1>1
    <3>. QED  BY <2>1, <2>4, <3>2, <3>3, <3>4, <3>5 DEF MarkOK, DoneOK, LoopOK, Upto, Writing
  <2>. QED  BY <2>3, <2>4
<1>6. CASE Skip
  <2>1. /\ file' = file /\ at' = at /\ pc = "loop" /\ pc' = "loop"
        /\ value < start /\ value' = value + 1 /\ start' = start
    BY <1>6 DEF Skip
  <2>2. Finished(i)' => Finished(i)
    BY <2>1 DEF Finished
  <2>3. CASE i # at
    BY <1>1, <2>1, <2>2, <2>3, SweepStays
  <2>4. CASE i = at
    <3>1. /\ Timed(i)' = Timed(i) /\ Marked(i)' = Marked(i) /\ Mark(i)' = Mark(i)
          /\ Shown(i)' = Shown(i) /\ LastLine(i)' = LastLine(i)
      BY <2>1, FileStays
    <3>2. MarkOK(i)' /\ DoneOK(i)'
      BY <1>1, <2>2, <3>1 DEF MarkOK, DoneOK, Upto
    <3>3. FirstOf[i]..((value + 1) - 1) \subseteq FirstOf[i]..(start - 1)
      BY <1>1, <2>1
    <3>4. Timed(i) => FirstOf[i]..(start - 1) \subseteq Shown(i)
      BY <1>1, <2>1, <2>4 DEF LoopOK, Upto
    <3>. QED  BY <1>1, <2>1, <2>4, <3>1, <3>2, <3>3, <3>4 DEF LoopOK, Upto, Writing
  <2>. QED  BY <2>3, <2>4
<1>7. CASE RunExperiment
  <2>1. /\ file' = file /\ at' = at /\ pc = "loop" /\ pc' = "times"
        /\ value' = value /\ start' = start
    BY <1>7 DEF RunExperiment
  <2>2. Finished(i)' => Finished(i)
    BY <2>1 DEF Finished
  <2>3. CASE i # at
    BY <1>1, <2>1, <2>2, <2>3, SweepStays
  <2>4. CASE i = at
    <3>1. /\ Timed(i)' = Timed(i) /\ Marked(i)' = Marked(i) /\ Mark(i)' = Mark(i)
          /\ Shown(i)' = Shown(i) /\ LastLine(i)' = LastLine(i)
      BY <2>1, FileStays
    <3>2. MarkOK(i)' /\ DoneOK(i)'
      BY <1>1, <2>2, <3>1 DEF MarkOK, DoneOK, Upto
    <3>. QED  BY <1>1, <2>1, <2>4, <3>1, <3>2 DEF LoopOK, Upto, Writing
  <2>. QED  BY <2>3, <2>4
<1>8. CASE NextSweep
  <2>1. /\ file' = file /\ pc = "loop" /\ value > LastOf[at]
        /\ pc' \notin Writing \cup {"loop"}
    BY <1>8 DEF NextSweep, Writing
  <2>2. CASE i # at
    <3>1. Finished(i)' => Finished(i)
      BY <1>1, <1>8, <2>2 DEF NextSweep, Finished, Sweep
    <3>. QED  BY <1>1, <2>1, <3>1, SweepStays
  <2>3. CASE i = at
    <3>1. Timed(i)' = Timed(i) /\ Shown(i)' = Shown(i) /\ MarkOK(i)'
      BY <1>1, <2>1, FileStays DEF MarkOK, Upto
    <3>2. Timed(i) => Values(i) \subseteq Shown(i)
      <4>1. Values(i) \subseteq FirstOf[i]..(value - 1)
        BY <1>1, <2>1, <2>3 DEF Values
      <4>. QED  BY <1>1, <2>1, <2>3, <4>1 DEF LoopOK, Upto
    <3>3. DoneOK(i)'
      BY <3>1, <3>2 DEF DoneOK, Values
    <3>. QED  BY <2>1, <3>1, <3>3 DEF LoopOK, Writing
  <2>. QED  BY <2>2, <2>3
<1>9. CASE WriteTimes
  <2>1. pc = "times" /\ pc' = "params" /\ UNCHANGED <<at, value, start>>
    BY <1>9 DEF WriteTimes
  <2>2. Finished(i)' => Finished(i)
    BY <2>1 DEF Finished
  <2>3. PICK j \in Sweep : j = at
    BY <1>1
  <2>4. /\ file'[j] # << >> /\ Shown(j)' = Shown(j) /\ (Timed(j)' => Timed(j))
        /\ \A k \in Sweep : k # j => file'[k] = file[k]
        /\ LastLine(j).ended /\ Timed(j)' => Len(LastLine(j)'.fields) = 2
        /\ ~LastLine(j).ended => \E fields \in Seq(Field) :
              LastLine(j)'.fields = Extended(LastLine(j), fields, {}).fields
    BY <1>9, <2>3, TimesStep
  <2>5. CASE i # at
    BY <1>1, <2>1, <2>2, <2>3, <2>4, <2>5, SweepStays
  <2>6. CASE i = at
    <3>. SUFFICES ASSUME Timed(i)'  PROVE MarkOK(i)' /\ DoneOK(i)' /\ LoopOK(i)'
      BY DEF MarkOK, DoneOK, LoopOK
    <3>1. Timed(i) /\ Shown(i)' = Shown(i) /\ j = i
      BY <2>3, <2>4, <2>6
    <3>2. Upto(i, value - 1)' /\ Upto(i, start - 1)' /\ DoneOK(i)'
      BY <1>1, <2>1, <2>2, <2>6, <3>1 DEF LoopOK, DoneOK, Upto, Writing
    <3>3. CASE LastLine(i).ended
      <4>1. Len(LastLine(i)'.fields) = 2
        BY <2>4, <3>1, <3>3
      <4>2. ~Marked(i)'
        BY <1>1, <4>1 DEF Marked, Column, Sweep
      <4>. QED  BY <2>1, <3>2, <4>1, <4>2 DEF MarkOK, LoopOK, Writing
    <3>4. CASE ~LastLine(i).ended
      <4>1. Marked(i)
        BY <1>1, <2>1, <2>6, <3>1, <3>4 DEF LoopOK
      <4>2. PICK fields \in Seq(Field) :
              LastLine(i)'.fields = Extended(LastLine(i), fields, {}).fields
        BY <2>4, <3>1, <3>4
      <4>3. Marked(i)' /\ Mark(i)' = Mark(i)
        <5>1. {} \in SUBSET Nat /\ file'[i] # << >>
          BY <2>4, <3>1
        <5>. QED  BY <1>1, <4>1, <4>2, <5>1, MarkStays
      <4>4. MarkOK(i)'
        BY <1>1, <3>1, <4>1, <4>3 DEF MarkOK, Upto
      <4>. QED  BY <2>1, <3>2, <4>3, <4>4 DEF LoopOK, Writing
    <3>. QED  BY <3>3, <3>4
  <2>. QED  BY <2>5, <2>6
<1>10. CASE WriteParams \/ WriteListSize \/ WriteTotals \/ WriteLoads
  <2>1. PICK from \in Writing, to \in Writing, fields \in Seq(Field), of \in SUBSET Nat :
          Printf(from, to, fields, of)
    BY <1>10, PrintsFields
  <2>2. pc \in Writing /\ pc' \in Writing /\ UNCHANGED <<at, value, start>>
    BY <2>1 DEF Printf
  <2>3. Finished(i)' => Finished(i)
    BY <2>2 DEF Finished, Writing
  <2>4. PICK j \in Sweep : j = at
    BY <1>1
  <2>5. Grown(j, fields, of)
    BY <2>1, <2>4, PrintStep
  <2>6. CASE i # at
    <3>1. file'[i] = file[i]
      BY <1>1, <2>4, <2>5, <2>6 DEF Grown
    <3>. QED  BY <1>1, <2>2, <2>3, <2>6, <3>1, SweepStays
  <2>7. CASE i = at
    <3>1. MarkOK(i)' /\ LoopOK(i)'
      BY <1>1, <1>10, <2>7, SweepPrints
    <3>2. DoneOK(i)'
      BY <1>1, <2>2, <2>7 DEF DoneOK, Finished, Writing, Sweep
    <3>. QED  BY <3>1, <3>2
  <2>. QED  BY <2>6, <2>7
<1>11. CASE WriteNewline
  <2>1. /\ pc = "newline" /\ pc' = "loop" /\ value' = value + 1 /\ UNCHANGED <<at, start>>
    BY <1>11 DEF WriteNewline
  <2>2. Finished(i)' => Finished(i)
    BY <2>1 DEF Finished
  <2>3. PICK j \in Sweep : j = at
    BY <1>1
  <2>4. /\ file'[j] # << >> /\ Shown(j)' = Shown(j) /\ (Timed(j)' => Timed(j))
        /\ \A k \in Sweep : k # j => file'[k] = file[k]
        /\ LastLine(j)'.fields = LastLine(j).fields /\ LastLine(j)'.ended
    BY <1>11, <2>3, NewlineStep
  <2>5. CASE i # at
    BY <1>1, <2>1, <2>2, <2>3, <2>4, <2>5, SweepStays
  <2>6. CASE i = at
    <3>. SUFFICES ASSUME Timed(i)'  PROVE MarkOK(i)' /\ DoneOK(i)' /\ LoopOK(i)'
      BY DEF MarkOK, DoneOK, LoopOK
    <3>1. Timed(i) /\ Shown(i)' = Shown(i) /\ j = i
      BY <2>3, <2>4, <2>6
    <3>2. Upto(i, value - 1) /\ Upto(i, start - 1) /\ value \in Shown(i) /\ Marked(i)
      BY <1>1, <2>1, <2>6, <3>1 DEF LoopOK, Writing
    <3>3. FirstOf[i]..((value + 1) - 1) \subseteq Shown(i)
      BY <1>1, <3>2 DEF Upto
    <3>4. Marked(i)' /\ Mark(i)' = Mark(i)
      BY <2>4, <3>1, <3>2 DEF Marked, Mark
    <3>5. MarkOK(i)' /\ DoneOK(i)'
      BY <1>1, <2>2, <3>1, <3>2, <3>4 DEF MarkOK, DoneOK, Upto
    <3>. QED  BY <2>1, <3>1, <3>2, <3>3, <3>4, <3>5 DEF LoopOK, Upto, Writing
  <2>. QED  BY <2>5, <2>6
<1>12. CASE UNCHANGED vars
  <2>1. file' = file /\ UNCHANGED <<pc, at, value, start>>
    BY <1>12 DEF vars, script
  <2>2. /\ Timed(i)' = Timed(i) /\ Marked(i)' = Marked(i) /\ Mark(i)' = Mark(i)
        /\ Shown(i)' = Shown(i) /\ LastLine(i)' = LastLine(i)
    BY <2>1, FileStays
  <2>3. Finished(i)' = Finished(i)
    BY <2>1 DEF Finished
  <2>. QED  BY <1>1, <2>1, <2>2, <2>3 DEF MarkOK, DoneOK, LoopOK, Upto
<1>. QED  BY <1>2, <1>3, <1>4, <1>5, <1>6, <1>7, <1>8, <1>9, <1>10, <1>11, <1>12 DEF Next

(***************************************************************************)
(* However often the scripts are killed, a finished file in which each row *)
(* has its times shows every value of its range, frame sizes apart.        *)
(***************************************************************************)
THEOREM AllValuesShown == Spec => []NothingSkipped
<1>1. Init => TypeOK /\ SweepOK
  BY TypeInit, SweepInit
<1>2. TypeOK /\ SweepOK /\ [Next]_vars => TypeOK' /\ SweepOK'
  BY TypeStep, SweepStep
<1>3. SweepOK => NothingSkipped
  BY DEF SweepOK, DoneOK, NothingSkipped
<1>. QED  BY <1>1, <1>2, <1>3, PTL DEF Spec

------------------------------------------------------------------------------
(* Only broken lines cost the file                                           *)

\* The lines of a file after the last one was replaced, or a line was added.
LEMMA LinesReplaced ==
  ASSUME FilesOK, NEW i \in Sweep, file[i] # << >>, NEW line \in Line,
         file' = [file EXCEPT ![i][Len(file[i])] = line]
  PROVE  /\ Len(file[i]) \in Nat \ {0} /\ Len(file'[i]) = Len(file[i])
         /\ DOMAIN file[i] = 1..Len(file[i]) /\ DOMAIN file'[i] = 1..Len(file[i])
         /\ \A n \in 1..Len(file[i]) :
              file'[i][n] = IF n = Len(file[i]) THEN line ELSE file[i][n]
<1>. DEFINE s == file[i]
            n == Len(s)
            t == [s EXCEPT ![n] = line]
<1>1. s \in Seq(Line) /\ n \in 1..Len(s) /\ n \in Nat \ {0}
  BY DEF FilesOK
<1>2. file'[i] = t
  BY DEF FilesOK
<1>3. t \in Seq(Line) /\ Len(t) = Len(s)
      /\ \A j \in 1..Len(s) : t[j] = IF j = n THEN line ELSE s[j]
  BY <1>1, ExceptSeq
<1>. HIDE DEF t
<1>. QED  BY <1>1, <1>2, <1>3

LEMMA LinesAdded ==
  ASSUME FilesOK, NEW i \in Sweep, NEW line \in Line,
         file' = [file EXCEPT ![i] = Append(@, line)]
  PROVE  /\ Len(file[i]) \in Nat /\ Len(file'[i]) = Len(file[i]) + 1
         /\ DOMAIN file[i] = 1..Len(file[i]) /\ DOMAIN file'[i] = 1..(Len(file[i]) + 1)
         /\ \A n \in 1..Len(file[i]) : file'[i][n] = file[i][n]
<1>. DEFINE s == file[i]
            t == Append(s, line)
<1>1. s \in Seq(Line) /\ file'[i] = t
  BY DEF FilesOK
<1>2. /\ t \in Seq(Line) /\ Len(t) = Len(s) + 1 /\ Len(s) \in Nat
      /\ \A n \in 1..Len(s) : t[n] = s[n]
  BY <1>1, AppendProperties
<1>. HIDE DEF t
<1>3. DOMAIN s = 1..Len(s) /\ DOMAIN t = 1..Len(t)
  BY <1>1, <1>2
<1>. QED  BY <1>1, <1>2, <1>3

\* What Printf does to the line and to the file.
LEMMA PrintLine ==
  ASSUME TypeOK, NEW i \in Sweep, i = at, NEW from \in Writing, NEW to \in Writing,
         NEW fields \in Seq(Field), NEW of \in SUBSET Nat, Printf(from, to, fields, of)
  PROVE  /\ pc = from /\ pc' = to /\ UNCHANGED <<at, value, start, kills, untimed>>
         /\ FilesOK /\ file[i] # << >> /\ file'[i] # << >> /\ LastLine(i) \in Line
         /\ LastLine(i)' = Extended(LastLine(i), fields, of) /\ LastLine(i)' \in Line
         /\ file' = [file EXCEPT ![i][Len(file[i])] = LastLine(i)']
         /\ Len(file'[i]) = Len(file[i])
         /\ Timed(i)' => Timed(i)
         /\ \A j \in Sweep : j # i => file'[j] = file[j]
<1>. DEFINE new == Extended(LastLine(i), fields, of)
<1>1. /\ FilesOK /\ file[i] # << >> /\ pc = from /\ pc' = to
      /\ UNCHANGED <<at, value, start, kills, untimed>> /\ LastLine(i) \in Line
  BY DEF TypeOK, Printf, FilesOK, LastLine
<1>2. new \in Line /\ new.timed = LastLine(i).timed
  BY <1>1, ExtendedLine
<1>3. file' = [file EXCEPT ![i][Len(file[i])] = new]
  BY DEF Printf, ReplaceLast
<1>. HIDE DEF new
<1>4. LastLine(i)' = new /\ file'[i] # << >> /\ \A j \in Sweep : j # i => file'[j] = file[j]
  BY <1>1, <1>2, <1>3, LineReplaced
<1>5. Timed(i)' => Timed(i)
  BY <1>1, <1>2, <1>3, LineReplaced
<1>6. Len(file'[i]) = Len(file[i])
  BY <1>1, <1>2, <1>3, LinesReplaced
<1>. QED  BY <1>1, <1>2, <1>3, <1>4, <1>5, <1>6 DEF new

\* The line in which WriteTimes begins a row: a new one, or the unfinished one.
RowLine(i) == IF LastLine(i).ended THEN NewLine ELSE LastLine(i)

LEMMA TimesLine ==
  ASSUME TypeOK, NEW i \in Sweep, i = at, WriteTimes
  PROVE  /\ pc = "times" /\ pc' = "params" /\ UNCHANGED <<at, value, start, kills>>
         /\ FilesOK /\ file[i] # << >> /\ LastLine(i) \in Line /\ RowLine(i) \in Line
         /\ file'[i] # << >> /\ LastLine(i)' \in Line
         /\ LastLine(i)'.of = RowLine(i).of /\ ~LastLine(i)'.ended
         /\ LastLine(i)'.rows = RowLine(i).rows + 1
         /\ LastLine(i)'.timed => RowLine(i).timed
         /\ \E times \in Seq(Field) :
              /\ LastLine(i)'.fields = Extended(RowLine(i), times, {}).fields
              /\ LastLine(i)'.timed => Len(times) = 2
         /\ IF LastLine(i).ended
            THEN file' = [file EXCEPT ![i] = Append(@, LastLine(i)')]
            ELSE file' = [file EXCEPT ![i][Len(file[i])] = LastLine(i)']
         /\ Timed(i)' => Timed(i) /\ LastLine(i)'.timed
         /\ \A j \in Sweep : j # i => file'[j] = file[j]
<1>0. PICK times \in {<< >>, <<Word>>, <<Word, Word>>} :
        IF LastLine(at).ended
        THEN file' = [file EXCEPT ![at] = Append(@, RowBegun(NewLine, times))]
        ELSE ReplaceLast(RowBegun(LastLine(at), times))
  BY DEF WriteTimes
<1>1. /\ FilesOK /\ file[i] # << >> /\ LastLine(i) \in Line /\ RowLine(i) \in Line
      /\ pc = "times" /\ pc' = "params" /\ UNCHANGED <<at, value, start, kills>>
  BY FieldTypes DEF TypeOK, WriteTimes, FilesOK, LastLine, Writing, RowLine
<1>2. times \in Seq(Field) /\ {} \in SUBSET Nat
  BY FieldTypes
<1>. DEFINE line == RowLine(i)
            new == Extended(line, times, {})
            both == Len(times) = 2
            row == RowBegun(line, times)
<1>3. /\ new \in Line /\ new.of = line.of \cup {} /\ new.timed = line.timed
      /\ new.rows = line.rows /\ new.ended = line.ended
  <2>1. line \in Line
    BY <1>1
  <2>. HIDE DEF line
  <2>. QED  BY <1>2, <2>1, ExtendedLine
<1>4. row = [new EXCEPT !.rows = new.rows + 1, !.timed = new.timed /\ both]
  BY DEF RowBegun
<1>5. ~line.ended
  BY DEF RowLine, NewLine
<1>6. IF LastLine(i).ended THEN file' = [file EXCEPT ![i] = Append(@, row)]
                           ELSE file' = [file EXCEPT ![i][Len(file[i])] = row]
  BY <1>0 DEF RowLine, ReplaceLast
<1>. HIDE DEF new, line, row, both
<1>7. /\ row.of = line.of /\ row.fields = new.fields /\ row.ended = line.ended
      /\ row.rows = line.rows + 1 /\ row.timed = (new.timed /\ both)
  BY <1>3, <1>4 DEF Line
<1>8. row \in Line /\ (row.timed => line.timed /\ both)
  <2>1. (new.timed /\ both) \in BOOLEAN /\ new.rows + 1 \in Nat
    BY <1>3 DEF Line
  <2>. QED  BY <1>3, <1>4, <1>7, <2>1 DEF Line
<1>9. /\ LastLine(i)' = row /\ file'[i] # << >> /\ (Timed(i)' => Timed(i) /\ row.timed)
      /\ \A j \in Sweep : j # i => file'[j] = file[j]
  <2>1. CASE LastLine(i).ended
    BY <1>1, <1>6, <1>8, <2>1, LineAdded
  <2>2. CASE ~LastLine(i).ended
    <3>1. line = LastLine(i)
      BY <2>2 DEF line, RowLine
    <3>2. /\ LastLine(i)' = row /\ file'[i] # << >>
          /\ \A j \in Sweep : j # i => file'[j] = file[j]
          /\ (row.timed => LastLine(i).timed) => (Timed(i)' => Timed(i))
      BY <1>1, <1>6, <1>8, <2>2, LineReplaced
    <3>3. Timed(i)' => LastLine(i)'.timed
      BY <1>1, <1>6, <1>8, <2>2, <3>2, LinesReplaced DEF Timed
    <3>. QED  BY <1>8, <3>1, <3>2, <3>3
  <2>. QED  BY <2>1, <2>2
<1>. QED  BY <1>1, <1>2, <1>5, <1>6, <1>7, <1>8, <1>9 DEF new, line, both

\* What WriteNewline does.
LEMMA NewlineLine ==
  ASSUME TypeOK, NEW i \in Sweep, i = at, WriteNewline
  PROVE  /\ pc = "newline" /\ pc' = "loop" /\ value' = value + 1 /\ UNCHANGED <<at, start, kills>>
         /\ FilesOK /\ file[i] # << >> /\ file'[i] # << >> /\ LastLine(i) \in Line
         /\ LastLine(i)' = [LastLine(i) EXCEPT !.ended = TRUE] /\ LastLine(i)' \in Line
         /\ file' = [file EXCEPT ![i][Len(file[i])] = LastLine(i)']
         /\ Len(file'[i]) = Len(file[i])
         /\ Timed(i)' => Timed(i)
         /\ \A j \in Sweep : j # i => file'[j] = file[j]
<1>. DEFINE new == [LastLine(i) EXCEPT !.ended = TRUE]
<1>1. /\ FilesOK /\ file[i] # << >> /\ LastLine(i) \in Line
      /\ pc = "newline" /\ pc' = "loop" /\ value' = value + 1 /\ UNCHANGED <<at, start, kills>>
      /\ file' = [file EXCEPT ![i][Len(file[i])] = new]
  BY DEF TypeOK, WriteNewline, ReplaceLast, FilesOK, LastLine, Writing
<1>2. new \in Line /\ new.timed = LastLine(i).timed
  BY <1>1 DEF Line
<1>. HIDE DEF new
<1>3. LastLine(i)' = new /\ file'[i] # << >> /\ \A j \in Sweep : j # i => file'[j] = file[j]
  BY <1>1, <1>2, LineReplaced
<1>4. Timed(i)' => Timed(i)
  BY <1>1, <1>2, LineReplaced
<1>5. Len(file'[i]) = Len(file[i])
  BY <1>1, <1>2, LinesReplaced
<1>. QED  BY <1>1, <1>2, <1>3, <1>4, <1>5 DEF new

\* A last line that is ended and has its times has a mark, unless it is the first;
\* and what the running script has written of it yet.
BrokenOK(i) ==
  Len(file[i]) > 1 /\ LastLine(i).timed =>
    /\ LastLine(i).ended => Marked(i)
    /\ i = at =>
        /\ pc \in {"loop", "times"} => Marked(i)
        /\ pc = "params" => Marked(i) \/ Len(LastLine(i).fields) = 2
        /\ pc = "listsize" => Marked(i) \/ (i = 4 /\ Len(LastLine(i).fields) = 5)
        /\ pc \in {"totals", "loads", "newline"} => Marked(i)

BrokenInv == \A i \in Sweep : BrokenOK(i)

\* A sweep's own parameter is printed as a number.
LEMMA OwnNumber ==
  ASSUME NEW v
  PROVE  /\ \A i \in 1..3 : Params(i, v)[i].number
         /\ ListSize(4, v)[1].number
BY DEF Params, ListSize, Number

LEMMA BrokenStays ==
  ASSUME NEW i \in Sweep, BrokenOK(i), file'[i] = file[i],
         \/ i # at'
         \/ pc' \in {"off", "done", "begin"}
         \/ pc' \in {"loop", "times"} /\ Marked(i)
         \/ pc' \in {"loop", "times"} /\ pc \in {"loop", "times"} /\ at' = at
  PROVE  BrokenOK(i)'
<1>1. LastLine(i)' = LastLine(i) /\ Marked(i)' = Marked(i)
  BY FileStays
<1>. QED  BY <1>1 DEF BrokenOK

\* Fields are added to a line of the running sweep.
LEMMA BrokenPrints ==
  ASSUME TypeOK, NEW i \in Sweep, i = at, BrokenOK(i),
         NEW from \in Writing \ {"times"}, NEW to \in Writing \ {"times"},
         NEW fields \in Seq(Field), NEW of \in SUBSET Nat, Printf(from, to, fields, of),
         \/ from = "params" /\ to = "listsize" /\ fields = Params(i, value)
         \/ from = "listsize" /\ to = "totals" /\ fields = ListSize(i, value)
         \/ from \in {"totals", "loads"} /\ to \in {"loads", "newline"}
  PROVE  BrokenOK(i)'
<1>. SUFFICES ASSUME Len(file'[i]) > 1, LastLine(i)'.timed
              PROVE  /\ LastLine(i)'.ended => Marked(i)'
                     /\ pc' = "listsize" => Marked(i)' \/ (i = 4 /\ Len(LastLine(i)'.fields) = 5)
                     /\ pc' \in {"totals", "loads", "newline"} => Marked(i)'
                     /\ pc' \in Writing \ {"times", "params"}
  BY DEF BrokenOK, Writing
<1>1. /\ pc = from /\ pc' = to /\ FilesOK /\ file[i] # << >> /\ file'[i] # << >>
      /\ LastLine(i) \in Line /\ LastLine(i)' = Extended(LastLine(i), fields, of)
      /\ Len(file'[i]) = Len(file[i])
  BY PrintLine
<1>2. LastLine(i)'.timed = LastLine(i).timed /\ LastLine(i)'.ended = LastLine(i).ended
  <2>. DEFINE new == Extended(LastLine(i), fields, of)
  <2>1. new.timed = LastLine(i).timed /\ new.ended = LastLine(i).ended
    BY <1>1, ExtendedLine
  <2>. QED  BY <1>1, <2>1
<1>3. Marked(i) => Marked(i)'
  BY <1>1, MarkStays
<1>4. /\ LastLine(i).ended => Marked(i)
      /\ pc = "params" => Marked(i) \/ Len(LastLine(i).fields) = 2
      /\ pc = "listsize" => Marked(i) \/ (i = 4 /\ Len(LastLine(i).fields) = 5)
      /\ pc \in {"totals", "loads", "newline"} => Marked(i)
  BY <1>1, <1>2 DEF BrokenOK
<1>5. CASE Marked(i)
  BY <1>1, <1>3, <1>5
<1>6. CASE ~Marked(i) /\ from = "params"
  <2>1. /\ to = "listsize" /\ fields = Params(i, value) /\ Len(fields) = 3
        /\ Len(LastLine(i).fields) = 2
    BY <1>1, <1>4, <1>6 DEF Params
  <2>2. 2 \in {2, 5} /\ 2 + Len(fields) <= Columns
    BY <2>1 DEF Columns
  <2>3. /\ Len(LastLine(i)'.fields) = 2 + Len(fields)
        /\ Column(i) \in (2 + 1)..(2 + Len(fields)) => (fields[Column(i) - 2].number => Marked(i)')
    <3>1. Len(LastLine(i).fields) = 2 /\ file[i] # << >> /\ file'[i] # << >>
      BY <1>1, <2>1
    <3>. QED  BY <1>1, <2>2, <3>1, MarkComes
  <2>4. CASE i = 4
    BY <1>1, <1>2, <1>4, <1>6, <2>1, <2>3, <2>4 DEF Writing
  <2>5. CASE i \in 1..3
    <3>1. Column(i) \in (2 + 1)..(2 + Len(fields)) /\ Column(i) - 2 = i
      BY <2>1, <2>5 DEF Column
    <3>2. fields[i].number
      BY <2>1, <2>5, OwnNumber
    <3>. QED  BY <1>1, <2>1, <2>3, <3>1, <3>2 DEF Writing
  <2>. QED  BY <2>4, <2>5 DEF Sweep
<1>7. CASE ~Marked(i) /\ from = "listsize"
  <2>0. Len(fields) = 1 /\ i = 4
    BY <1>1, <1>4, <1>7 DEF ListSize
  <2>1. /\ to = "totals" /\ fields = ListSize(4, value) /\ Len(LastLine(i).fields) = 5
    BY <1>1, <1>4, <1>7
  <2>2. 5 \in {2, 5} /\ 5 + Len(fields) <= Columns
    BY <2>0 DEF Columns
  <2>3. Column(i) \in (5 + 1)..(5 + Len(fields)) => (fields[Column(i) - 5].number => Marked(i)')
    BY <1>1, <2>1, <2>2, MarkComes
  <2>4. Column(i) \in (5 + 1)..(5 + Len(fields)) /\ Column(i) - 5 = 1
    BY <2>0 DEF Column
  <2>5. fields[1].number
    BY <2>1, OwnNumber
  <2>. QED  BY <1>1, <2>0, <2>1, <2>3, <2>4, <2>5 DEF Writing
<1>. QED  BY <1>1, <1>4, <1>5, <1>6, <1>7

LEMMA BrokenStep ==
  ASSUME TypeOK, BrokenInv, [Next]_vars  PROVE BrokenInv'
<1>. SUFFICES ASSUME NEW i \in Sweep  PROVE BrokenOK(i)'
  BY DEF BrokenInv
<1>1. BrokenOK(i) /\ FilesOK /\ at \in Sweep /\ value \in Nat
  BY DEF BrokenInv, TypeOK, FilesOK
<1>2. CASE Start \/ Killed \/ NextSweep
  <2>1. file' = file /\ pc' \in {"off", "done", "begin"}
    BY <1>2 DEF Start, Killed, NextSweep
  <2>. QED  BY <1>1, <2>1, BrokenStays
<1>3. CASE Resume
  <2>1. file' = file /\ at' = at /\ pc' = "loop" /\ Marked(at)
    BY <1>3 DEF Resume
  <2>. QED  BY <1>1, <2>1, BrokenStays
<1>4. CASE StartOver
  <2>1. file' = [file EXCEPT ![at] = <<Header>>] /\ at' = at
    BY <1>4 DEF StartOver
  <2>2. CASE i = at
    <3>1. Len(file'[i]) = 1
      BY <1>1, <2>1, <2>2 DEF FilesOK
    <3>. QED  BY <3>1 DEF BrokenOK
  <2>3. CASE i # at
    BY <1>1, <2>1, <2>3, BrokenStays DEF FilesOK
  <2>. QED  BY <2>2, <2>3
<1>5. CASE Skip \/ RunExperiment
  <2>1. file' = file /\ at' = at /\ pc = "loop" /\ pc' \in {"loop", "times"}
    BY <1>5 DEF Skip, RunExperiment
  <2>. QED  BY <1>1, <2>1, BrokenStays
<1>6. CASE i # at /\ (WriteTimes \/ WriteParams \/ WriteListSize \/ WriteTotals
                         \/ WriteLoads \/ WriteNewline)
  <2>1. at' = at
    BY <1>6 DEF WriteTimes, WriteParams, WriteListSize, WriteTotals, WriteLoads, WriteNewline, Printf
  <2>2. file'[i] = file[i]
    <3>1. ASSUME NEW line, ReplaceLast(line)  PROVE file'[i] = file[i]
      BY <1>1, <1>6, <3>1 DEF ReplaceLast, FilesOK
    <3>2. CASE WriteTimes
      <4>1. PICK j \in Sweep : j = at
        BY <1>1
      <4>. QED  BY <1>6, <3>2, <4>1, TimesLine
    <3>3. CASE WriteNewline
      BY <3>1, <3>3 DEF WriteNewline
    <3>4. CASE WriteParams \/ WriteListSize \/ WriteTotals \/ WriteLoads
      BY <3>1, <3>4 DEF WriteParams, WriteListSize, WriteTotals, WriteLoads, Printf
    <3>. QED  BY <1>6, <3>2, <3>3, <3>4
  <2>. QED  BY <1>1, <1>6, <2>1, <2>2, BrokenStays
<1>7. CASE i = at /\ WriteTimes
  <2>1. /\ pc = "times" /\ pc' = "params" /\ at' = at /\ file[i] # << >> /\ file'[i] # << >>
        /\ RowLine(i) \in Line /\ LastLine(i)' \in Line
        /\ ~LastLine(i)'.ended /\ (LastLine(i)'.timed => RowLine(i).timed)
        /\ IF LastLine(i).ended
           THEN file' = [file EXCEPT ![i] = Append(@, LastLine(i)')]
           ELSE file' = [file EXCEPT ![i][Len(file[i])] = LastLine(i)']
    BY <1>7, TimesLine
  <2>2. PICK times \in Seq(Field) :
          /\ LastLine(i)'.fields = Extended(RowLine(i), times, {}).fields
          /\ LastLine(i)'.timed => Len(times) = 2
    BY <1>7, TimesLine
  <2>. SUFFICES ASSUME Len(file'[i]) > 1, LastLine(i)'.timed
                PROVE  Marked(i)' \/ Len(LastLine(i)'.fields) = 2
    BY <2>1 DEF BrokenOK
  <2>3. {} \in SUBSET Nat
    OBVIOUS
  <2>4. CASE LastLine(i).ended
    <3>1. RowLine(i) = NewLine /\ NewLine \in Line /\ Len(NewLine.fields) = 0
      BY <2>4, FieldTypes DEF RowLine, NewLine
    <3>2. Len(Extended(NewLine, times, {}).fields) = Min6(Len(NewLine.fields) + Len(times))
      <4>. DEFINE new == Extended(NewLine, times, {})
      <4>1. Len(new.fields) = Min6(Len(NewLine.fields) + Len(times))
        BY <2>3, <3>1, ExtendedLine
      <4>. QED  BY <4>1
    <3>3. Min6(0 + 2) = 2
      BY DEF Min6, Columns
    <3>. QED  BY <2>2, <3>1, <3>2, <3>3
  <2>5. CASE ~LastLine(i).ended
    <3>1. RowLine(i) = LastLine(i) /\ Len(file'[i]) = Len(file[i])
      BY <1>1, <2>1, <2>5, LinesReplaced DEF RowLine
    <3>2. Marked(i)
      BY <1>1, <1>7, <2>1, <3>1 DEF BrokenOK
    <3>. QED  BY <1>1, <2>1, <2>2, <2>3, <3>1, <3>2, MarkStays
  <2>. QED  BY <2>4, <2>5
<1>8. CASE i = at /\ (WriteParams \/ WriteListSize \/ WriteTotals \/ WriteLoads)
  <2>1. CASE WriteParams
    <3>1. Params(i, value) \in Seq(Field) /\ (IF i = 4 THEN {} ELSE {value}) \in SUBSET Nat
      BY <1>1, <1>8, <2>1, ParamTypes DEF WriteParams, Printf, TypeOK, Writing
    <3>. QED  BY <1>1, <1>8, <2>1, <3>1, BrokenPrints DEF WriteParams, Writing
  <2>2. CASE WriteListSize
    <3>1. ListSize(i, value) \in Seq(Field) /\ {value} \in SUBSET Nat
      BY <1>1, <1>8, <2>2, ParamTypes DEF WriteListSize, Printf, TypeOK, Writing
    <3>. QED  BY <1>1, <1>8, <2>2, <3>1, BrokenPrints DEF WriteListSize, Writing
  <2>3. CASE WriteTotals \/ WriteLoads
    <3>1. PICK from \in {"totals", "loads"}, to \in {"loads", "newline"}, fields \in Seq(Field) :
            Printf(from, to, fields, {})
      BY <2>3, ResultFields
    <3>2. {} \in SUBSET Nat
      OBVIOUS
    <3>. QED  BY <1>1, <1>8, <3>1, <3>2, BrokenPrints DEF Writing
  <2>. QED  BY <1>8, <2>1, <2>2, <2>3
<1>9. CASE i = at /\ WriteNewline
  <2>1. /\ pc = "newline" /\ pc' = "loop" /\ at' = at /\ LastLine(i) \in Line
        /\ LastLine(i)' = [LastLine(i) EXCEPT !.ended = TRUE]
        /\ Len(file'[i]) = Len(file[i]) /\ file'[i] # << >>
    BY <1>9, NewlineLine
  <2>2. LastLine(i)'.fields = LastLine(i).fields /\ LastLine(i)'.timed = LastLine(i).timed
    BY <2>1 DEF Line
  <2>3. Marked(i) => Marked(i)'
    BY <2>1, <2>2 DEF Marked
  <2>. QED  BY <1>1, <1>9, <2>1, <2>2, <2>3 DEF BrokenOK
<1>10. CASE UNCHANGED vars
  <2>1. file' = file /\ UNCHANGED <<pc, at>>
    BY <1>10 DEF vars, script
  <2>2. LastLine(i)' = LastLine(i) /\ Marked(i)' = Marked(i)
    BY <2>1, FileStays
  <2>. QED  BY <1>1, <2>1, <2>2 DEF BrokenOK
<1>. QED  BY <1>2, <1>3, <1>4, <1>5, <1>6, <1>7, <1>8, <1>9, <1>10 DEF Next

\* A step that leaves a file with fewer lines begins it again.
LEMMA FewerLines ==
  ASSUME TypeOK, BrokenInv, [Next]_vars, NEW i \in Sweep, Len(file'[i]) < Len(file[i])
  PROVE  ~LastLine(i).ended \/ ~LastLine(i).timed
<1>1. BrokenOK(i) /\ FilesOK /\ at \in Sweep /\ Len(file[i]) \in Nat
  BY DEF BrokenInv, TypeOK, FilesOK
<1>2. CASE StartOver
  <2>1. i = at /\ Len(file'[i]) = 1 /\ ~Marked(i)
    BY <1>1, <1>2 DEF StartOver, FilesOK
  <2>. QED  BY <1>1, <2>1 DEF BrokenOK
<1>3. CASE UNCHANGED file
  BY <1>1, <1>3
<1>4. ASSUME NEW line \in Line,
             \/ file' = [file EXCEPT ![at] = Append(@, line)]
             \/ file[at] # << >> /\ file' = [file EXCEPT ![at][Len(file[at])] = line]
      PROVE  FALSE
  <2>1. CASE i # at
    BY <1>1, <1>4, <2>1 DEF FilesOK
  <2>2. CASE i = at
    <3>1. CASE file' = [file EXCEPT ![i] = Append(@, line)]
      <4>1. Len(file'[i]) = Len(file[i]) + 1
        BY <1>1, <3>1, LinesAdded
      <4>. QED  BY <1>1, <4>1
    <3>2. CASE file[i] # << >> /\ file' = [file EXCEPT ![i][Len(file[i])] = line]
      <4>1. Len(file'[i]) = Len(file[i])
        BY <1>1, <3>2, LinesReplaced
      <4>. QED  BY <1>1, <4>1
    <3>. QED  BY <1>4, <2>2, <3>1, <3>2
  <2>. QED  BY <2>1, <2>2
<1>. PICK j \in Sweep : j = at
  BY <1>1
<1>5. CASE WriteTimes
  <2>1. /\ file[j] # << >> /\ LastLine(j)' \in Line
        /\ IF LastLine(j).ended
           THEN file' = [file EXCEPT ![j] = Append(@, LastLine(j)')]
           ELSE file' = [file EXCEPT ![j][Len(file[j])] = LastLine(j)']
    BY <1>5, TimesLine
  <2>. QED  BY <1>4, <2>1
<1>6. CASE WriteNewline
  <2>1. /\ file[j] # << >> /\ LastLine(j)' \in Line
        /\ file' = [file EXCEPT ![j][Len(file[j])] = LastLine(j)']
    BY <1>6, NewlineLine
  <2>. QED  BY <1>4, <2>1
<1>7. ASSUME NEW from \in Writing, NEW to \in Writing, NEW fields \in Seq(Field),
             NEW of \in SUBSET Nat, Printf(from, to, fields, of)
      PROVE  FALSE
  <2>1. /\ file[j] # << >> /\ LastLine(j)' \in Line
        /\ file' = [file EXCEPT ![j][Len(file[j])] = LastLine(j)']
    BY <1>7, PrintLine
  <2>. QED  BY <1>4, <2>1
<1>8. CASE WriteParams \/ WriteListSize \/ WriteTotals \/ WriteLoads
  BY <1>7, <1>8, PrintsFields
<1>. QED  BY <1>2, <1>3, <1>5, <1>6, <1>8
     DEF Next, vars, Start, Killed, Resume, Skip, RunExperiment, NextSweep

(***************************************************************************)
(* A script begins a file again, and loses what was measured, only if the  *)
(* last line of it was left unfinished or lacks a time: for every range of *)
(* the parameters, every number of kills and of servers without times      *)
(* (run_experiment.sh).                                                    *)
(***************************************************************************)
THEOREM FilesKept == Spec => OnlyBrokenLinesCostTheFile
<1>1. Init => TypeOK /\ BrokenInv
  <2>1. Init => BrokenInv
    BY DEF Init, BrokenInv, BrokenOK
  <2>. QED  BY <2>1, TypeInit
<1>2. TypeOK /\ BrokenInv /\ [Next]_vars => TypeOK' /\ BrokenInv'
  BY TypeStep, BrokenStep
<1>3. TypeOK /\ BrokenInv /\ [Next]_vars =>
        [\A i \in Sweep :
           Len(file'[i]) < Len(file[i]) => ~LastLine(i).ended \/ ~LastLine(i).timed]_vars
  BY FewerLines
<1>. QED  BY <1>1, <1>2, <1>3, PTL DEF Spec, OnlyBrokenLinesCostTheFile

------------------------------------------------------------------------------
(* A kill costs at most two values                                           *)

Appending == Writing \ {"times"}
Within(i) == i = at /\ pc \in Writing \cup {"loop"}

(***************************************************************************)
(* The value w of sweep i will not be written any more by a script that    *)
(* runs, or by the next one: what this one is past, or what the mark of    *)
(* the file says.  The value that is written into an unfinished line is    *)
(* counted already when it is left behind.                                 *)
(***************************************************************************)
Passed(i, w) ==
  \/ Finished(i)
  \/ /\ Within(i)
     /\ \/ w < value \/ w < start
        \/ w = start /\ pc \in {"loop", "times"} /\ ~LastLine(i).ended
        \/ w = value /\ pc \in Appending /\ LastLine(i).rows # 1
  \/ /\ ~Within(i) /\ Marked(i)
     /\ w <= Mark(i) \/ (w = Mark(i) + 1 /\ ~LastLine(i).ended)

Costly(i, w) == Timed(i) /\ w \in Values(i) /\ Passed(i, w) /\ ~OwnLine(i, w)

Costs == {p \in (Sweep \ {FrameSize}) \X Nat : Costly(p[1], p[2])}

CostOK == IsFiniteSet(Costs) /\ Cardinality(Costs) <= 2 * kills

\* The unfinished line of a script: with one row it is that of its value, with more
\* it has the mark of an earlier one.
RowOK(i) ==
  LET line == LastLine(i) IN
  /\ file[i] # << >> /\ ~line.ended => line.rows # 0
  /\ Within(i) => FirstOf[i] <= value
  /\ Timed(i) /\ Marked(i) => FirstOf[i] <= Mark(i)
  /\ i = at /\ Timed(i) =>
     /\ pc \in {"loop", "times"} =>
          /\ Marked(i) => Mark(i) < start \/ Mark(i) < value
          /\ ~line.ended => Marked(i) /\ value <= start
     /\ pc \in Writing => start <= value
     /\ pc \in Appending => ~line.ended
     /\ pc \in Appending /\ line.rows # 1 => Marked(i) /\ Mark(i) < value
     /\ pc \in Appending /\ line.rows = 1 =>
         /\ pc = "params" => Len(line.fields) = 2 /\ line.of = {}
         /\ pc = "listsize" /\ i = 4 => Len(line.fields) = 5 /\ line.of = {}
         /\ pc \in {"totals", "loads", "newline"} \/ (pc = "listsize" /\ i # 4) =>
              line.of = {value} /\ Marked(i) /\ Mark(i) = value

RowInv == \A i \in Sweep \ {FrameSize} : RowOK(i)

\* A line of its own stays, when the unfinished line is replaced or a line is added;
\* and an unfinished line with one row becomes its value's own when it is ended.
LEMMA OwnLinesKept ==
  ASSUME FilesOK, NEW i \in Sweep, file[i] # << >>, NEW line \in Line,
         \/ ~LastLine(i).ended /\ file' = [file EXCEPT ![i][Len(file[i])] = line]
         \/ file' = [file EXCEPT ![i] = Append(@, line)],
         NEW v, OwnLine(i, v)
  PROVE  OwnLine(i, v)'
<1>1. PICK n \in DOMAIN file[i] :
        file[i][n].of = {v} /\ file[i][n].rows = 1 /\ file[i][n].ended
  BY DEF OwnLine
<1>2. CASE ~LastLine(i).ended /\ file' = [file EXCEPT ![i][Len(file[i])] = line]
  <2>1. /\ DOMAIN file'[i] = DOMAIN file[i] /\ n # Len(file[i])
        /\ \A m \in DOMAIN file[i] : m # Len(file[i]) => file'[i][m] = file[i][m]
    BY <1>1, <1>2, LinesReplaced DEF LastLine
  <2>. QED  BY <1>1, <2>1 DEF OwnLine
<1>3. CASE file' = [file EXCEPT ![i] = Append(@, line)]
  <2>1. n \in DOMAIN file'[i] /\ file'[i][n] = file[i][n]
    BY <1>1, <1>3, LinesAdded
  <2>. QED  BY <1>1, <2>1 DEF OwnLine
<1>. QED  BY <1>2, <1>3

LEMMA OwnLineEnded ==
  ASSUME FilesOK, NEW i \in Sweep, file[i] # << >>, NEW line \in Line,
         file' = [file EXCEPT ![i][Len(file[i])] = line],
         NEW v, line.of = {v}, line.rows = 1, line.ended
  PROVE  OwnLine(i, v)'
<1>1. Len(file[i]) \in DOMAIN file'[i] /\ file'[i][Len(file[i])] = line
  <2>. DEFINE n == Len(file[i])
  <2>1. /\ n \in Nat \ {0} /\ DOMAIN file'[i] = 1..n
        /\ \A m \in 1..n : file'[i][m] = IF m = n THEN line ELSE file[i][m]
    BY LinesReplaced
  <2>. HIDE DEF n
  <2>2. n \in 1..n
    BY <2>1
  <2>. QED  BY <2>1, <2>2 DEF n
<1>. QED  BY <1>1 DEF OwnLine

LEMMA RowStays ==
  ASSUME NEW i \in Sweep, RowOK(i), file'[i] = file[i],
         i # at' \/ pc' \notin Writing \cup {"loop"}
  PROVE  RowOK(i)'
<1>1. /\ Timed(i)' = Timed(i) /\ Marked(i)' = Marked(i) /\ Mark(i)' = Mark(i)
      /\ LastLine(i)' = LastLine(i)
  BY FileStays
<1>. QED  BY <1>1 DEF RowOK, Within, Writing, Appending

\* The commands that append to the line: the row stays the value's, or is another's.
LEMMA RowPrints ==
  ASSUME TypeOK, NEW i \in Sweep \ {FrameSize}, i = at, RowOK(i),
         NEW from \in Appending, NEW to \in Appending,
         NEW fields \in Seq(Field), NEW of \in SUBSET Nat, Printf(from, to, fields, of),
         \/ /\ from = "params" /\ to = "listsize" /\ fields = Params(i, value)
            /\ of = IF i = 4 THEN {} ELSE {value}
         \/ /\ from = "listsize" /\ to = "totals" /\ fields = ListSize(i, value)
            /\ of = {value}
         \/ from \in {"totals", "loads"} /\ to \in {"loads", "newline"} /\ of = {}
  PROVE  RowOK(i)'
<1>. DEFINE line == LastLine(i)
            v == value
<1>1. /\ pc = from /\ pc' = to /\ UNCHANGED <<at, value, start>>
      /\ FilesOK /\ file[i] # << >> /\ file'[i] # << >> /\ line \in Line
      /\ LastLine(i)' = Extended(line, fields, of) /\ LastLine(i)' \in Line
      /\ (Timed(i)' => Timed(i))
  BY PrintLine DEF Appending
<1>2. LastLine(i)'.of = line.of \cup of /\ LastLine(i)'.ended = line.ended
      /\ LastLine(i)'.rows = line.rows
  <2>. DEFINE new == Extended(line, fields, of)
  <2>1. new.of = line.of \cup of /\ new.ended = line.ended /\ new.rows = line.rows
    BY <1>1, ExtendedLine
  <2>. QED  BY <1>1, <2>1
<1>3. v \in Nat /\ v <= LastOf[i] /\ i \in Sweep /\ pc \in Writing /\ pc' \in Writing
  BY <1>1 DEF TypeOK, Appending, Writing
<1>4. Marked(i) => Marked(i)' /\ Mark(i)' = Mark(i)
  BY <1>1, <1>3, MarkStays
<1>5. FirstOf[i] <= v /\ (~LastLine(i)'.ended => LastLine(i)'.rows # 0)
  BY <1>1, <1>2, <1>3 DEF RowOK, Within
<1>. SUFFICES ASSUME Timed(i)'
              PROVE  /\ Marked(i)' => FirstOf[i] <= Mark(i)'
                     /\ start <= v /\ ~LastLine(i)'.ended
                     /\ line.rows # 1 => Marked(i)' /\ Mark(i)' < v
                     /\ line.rows = 1 =>
                          /\ to = "listsize" /\ i = 4 =>
                               Len(LastLine(i)'.fields) = 5 /\ LastLine(i)'.of = {}
                          /\ to \in {"totals", "loads", "newline"} \/ (to = "listsize" /\ i # 4) =>
                               LastLine(i)'.of = {v} /\ Marked(i)' /\ Mark(i)' = v
  <2>1. ~Timed(i)' => RowOK(i)'
    BY <1>1, <1>5 DEF RowOK
  <2>2. pc' \notin {"loop", "times", "params"} /\ pc' \in Appending
    BY <1>1
  <2>. QED  BY <1>1, <1>2, <1>5, <2>1, <2>2 DEF RowOK
<1>6. /\ Timed(i) /\ start <= v /\ ~LastLine(i)'.ended
      /\ line.rows # 1 => Marked(i) /\ Mark(i) < v
      /\ line.rows = 1 =>
           /\ from = "params" => Len(line.fields) = 2 /\ line.of = {}
           /\ from = "listsize" /\ i = 4 => Len(line.fields) = 5 /\ line.of = {}
           /\ from \in {"totals", "loads", "newline"} \/ (from = "listsize" /\ i # 4) =>
                line.of = {v} /\ Marked(i) /\ Mark(i) = v
      /\ Marked(i) => FirstOf[i] <= Mark(i)
  BY <1>1, <1>2, <1>3 DEF RowOK
<1>7. CASE Marked(i) /\ ~(line.rows = 1 /\ (from = "params" \/ (from = "listsize" /\ i = 4)))
  <2>1. line.rows = 1 => of \subseteq {v}
    BY <1>7
  <2>2. line.rows = 1 => LastLine(i)'.of = {v} /\ Mark(i) = v /\ to # "listsize"
    BY <1>1, <1>2, <1>6, <1>7, <2>1 DEF Appending, Writing
  <2>. QED  BY <1>4, <1>6, <1>7, <2>2
<1>8. CASE line.rows = 1 /\ from = "params"
  <2>1. /\ to = "listsize" /\ fields = Params(i, v) /\ of = IF i = 4 THEN {} ELSE {v}
        /\ Len(line.fields) = 2 /\ line.of = {}
    BY <1>6, <1>8
  <2>2. Len(fields) = 3 /\ (i # 4 => fields[i] = Number(v))
    BY <1>3, <2>1, ParamTypes DEF Sweep, FrameSize
  <2>3. 2 \in {2, 5} /\ 2 + Len(fields) <= Columns
    BY <2>2 DEF Columns
  <2>4. /\ Len(LastLine(i)'.fields) = 2 + Len(fields)
        /\ Column(i) \in (2 + 1)..(2 + Len(fields)) =>
             (fields[Column(i) - 2].number => Marked(i)' /\ Mark(i)' = fields[Column(i) - 2].value)
        /\ Column(i) > 2 + Len(fields) => ~Marked(i)'
    BY <1>1, <1>3, <2>1, <2>3, MarkComes
  <2>5. CASE i = 4
    <3>1. Column(i) > 2 + Len(fields)
      BY <2>2, <2>5 DEF Column
    <3>2. ~Marked(i)' /\ Len(LastLine(i)'.fields) = 5 /\ LastLine(i)'.of = {}
      BY <1>2, <2>1, <2>2, <2>4, <2>5, <3>1
    <3>. QED  BY <1>6, <1>8, <2>1, <2>5, <3>2
  <2>6. CASE i # 4
    <3>1. Column(i) \in (2 + 1)..(2 + Len(fields)) /\ Column(i) - 2 = i
      BY <1>3, <2>2, <2>6 DEF Column, Sweep, FrameSize
    <3>2. Marked(i)' /\ Mark(i)' = v
      BY <2>2, <2>4, <2>6, <3>1 DEF Number
    <3>3. LastLine(i)'.of = {v}
      BY <1>2, <2>1, <2>6
    <3>. QED  BY <1>5, <1>6, <1>8, <2>1, <2>6, <3>2, <3>3
  <2>. QED  BY <2>5, <2>6
<1>9. CASE line.rows = 1 /\ from = "listsize" /\ i = 4
  <2>1. /\ to = "totals" /\ fields = ListSize(4, v) /\ of = {v}
        /\ Len(line.fields) = 5 /\ line.of = {}
    BY <1>6, <1>9
  <2>2. Len(fields) = 1 /\ fields[1] = Number(v)
    BY <1>3, <1>9, <2>1, ParamTypes
  <2>3. 5 \in {2, 5} /\ 5 + Len(fields) <= Columns
    BY <2>2 DEF Columns
  <2>4. Column(i) \in (5 + 1)..(5 + Len(fields)) =>
             (fields[Column(i) - 5].number => Marked(i)' /\ Mark(i)' = fields[Column(i) - 5].value)
    BY <1>1, <1>3, <2>1, <2>3, MarkComes
  <2>5. Column(i) \in (5 + 1)..(5 + Len(fields)) /\ Column(i) - 5 = 1
    BY <1>9, <2>2 DEF Column
  <2>6. Marked(i)' /\ Mark(i)' = v
    BY <2>2, <2>4, <2>5 DEF Number
  <2>7. LastLine(i)'.of = {v}
    BY <1>2, <2>1
  <2>. QED  BY <1>5, <1>6, <1>9, <2>1, <2>6, <2>7
<1>10. CASE ~Marked(i) /\ line.rows # 1
  BY <1>6, <1>10
<1>11. CASE ~Marked(i) /\ line.rows = 1 /\ ~(from = "params" \/ (from = "listsize" /\ i = 4))
  BY <1>6, <1>11
<1>. QED  BY <1>7, <1>8, <1>9, <1>10, <1>11

LEMMA RowStep ==
  ASSUME TypeOK, RowInv, [Next]_vars  PROVE RowInv'
<1>. SUFFICES ASSUME NEW i \in Sweep \ {FrameSize}  PROVE RowOK(i)'
  BY DEF RowInv
<1>1. /\ RowOK(i) /\ FilesOK /\ at \in Sweep /\ i \in Sweep /\ value \in Nat /\ start \in Nat
      /\ FirstOf[i] \in Nat
  BY SweepAssumption DEF RowInv, TypeOK, FilesOK
<1>2. CASE Start \/ Killed \/ NextSweep
  <2>1. file' = file /\ pc' \notin Writing \cup {"loop"}
    BY <1>2 DEF Start, Killed, NextSweep, Writing
  <2>. QED  BY <1>1, <2>1, RowStays
<1>3. CASE UNCHANGED file /\ i # at' /\ at' = at
  BY <1>1, <1>3, RowStays
<1>4. CASE i = at /\ Resume
  <2>1. /\ file' = file /\ at' = at /\ pc' = "loop" /\ Marked(i)
        /\ start' = Mark(i) + 1 /\ value' = FirstOf[i]
    BY <1>4 DEF Resume
  <2>2. /\ Timed(i)' = Timed(i) /\ Marked(i)' = Marked(i) /\ Mark(i)' = Mark(i)
        /\ LastLine(i)' = LastLine(i) /\ Mark(i) \in Nat
    BY <1>1, <2>1, FileStays, MarkType
  <2>3. Timed(i) => Mark(i) < start' /\ value' <= start'
    BY <1>1, <2>1, <2>2 DEF RowOK
  <2>. QED  BY <1>1, <1>4, <2>1, <2>2, <2>3 DEF RowOK, Within, Writing, Appending
<1>5. CASE StartOver
  <2>1. /\ file' = [file EXCEPT ![at] = <<Header>>] /\ at' = at /\ pc' = "loop"
        /\ value' = FirstOf[at]
    BY <1>5 DEF StartOver
  <2>2. CASE i # at
    BY <1>1, <2>1, <2>2, RowStays DEF FilesOK
  <2>3. CASE i = at
    <3>1. file'[i] = <<Header>> /\ LastLine(i)' = Header
      BY <1>1, <2>1, <2>3 DEF FilesOK, LastLine
    <3>2. ~Marked(i)' /\ Header.ended
      <4>1. Column(i) \in 1..Columns
        BY <1>1 DEF Column, Columns, Sweep
      <4>. QED  BY <3>1, <4>1 DEF Marked, Header, Word
    <3>. QED  BY <1>1, <2>1, <2>3, <3>1, <3>2 DEF RowOK, Within, Writing, Appending
  <2>. QED  BY <2>2, <2>3
<1>6. CASE i = at /\ (Skip \/ RunExperiment)
  <2>1. /\ file' = file /\ at' = at /\ pc = "loop" /\ start' = start
        /\ \/ pc' = "loop" /\ value < start /\ value' = value + 1
           \/ pc' = "times" /\ start <= value /\ value' = value
    BY <1>1, <1>6 DEF Skip, RunExperiment
  <2>2. /\ Timed(i)' = Timed(i) /\ Marked(i)' = Marked(i) /\ Mark(i)' = Mark(i)
        /\ LastLine(i)' = LastLine(i) /\ (Marked(i) => Mark(i) \in Nat)
    BY <1>1, <2>1, FileStays, MarkType
  <2>3. /\ FirstOf[i] <= value'
        /\ Timed(i) /\ Marked(i) => Mark(i) < start' \/ Mark(i) < value'
        /\ Timed(i) /\ ~LastLine(i).ended => Marked(i) /\ value' <= start'
        /\ pc' \in Writing => start' <= value'
    BY <1>1, <1>6, <2>1, <2>2 DEF RowOK, Within, Writing
  <2>. QED  BY <1>1, <1>6, <2>1, <2>2, <2>3 DEF RowOK, Within, Writing, Appending
<1>7. CASE i # at /\ (WriteTimes \/ WriteParams \/ WriteListSize \/ WriteTotals
                         \/ WriteLoads \/ WriteNewline)
  <2>1. PICK j \in Sweep : j = at
    BY <1>1
  <2>2. CASE WriteTimes
    BY <1>1, <1>7, <2>1, <2>2, TimesLine, RowStays
  <2>3. CASE WriteNewline
    BY <1>1, <1>7, <2>1, <2>3, NewlineLine, RowStays
  <2>4. CASE WriteParams \/ WriteListSize \/ WriteTotals \/ WriteLoads
    <3>1. PICK from \in Writing, to \in Writing, fields \in Seq(Field), of \in SUBSET Nat :
            Printf(from, to, fields, of)
      BY <2>4, PrintsFields
    <3>. QED  BY <1>1, <1>7, <2>1, <3>1, PrintLine, RowStays
  <2>. QED  BY <1>7, <2>2, <2>3, <2>4
<1>8. CASE i = at /\ WriteTimes
  <2>1. /\ pc = "times" /\ pc' = "params" /\ UNCHANGED <<at, value, start>>
        /\ file[i] # << >> /\ file'[i] # << >> /\ LastLine(i) \in Line
        /\ LastLine(i)'.of = RowLine(i).of /\ ~LastLine(i)'.ended
        /\ LastLine(i)'.rows = RowLine(i).rows + 1
        /\ (Timed(i)' => Timed(i) /\ LastLine(i)'.timed)
    BY <1>8, TimesLine
  <2>2. PICK times \in Seq(Field) :
          /\ LastLine(i)'.fields = Extended(RowLine(i), times, {}).fields
          /\ LastLine(i)'.timed => Len(times) = 2
    BY <1>8, TimesLine
  <2>3. {} \in SUBSET Nat /\ LastLine(i).rows \in Nat /\ FirstOf[i] <= value
    BY <1>1, <1>8, <2>1 DEF Line, RowOK, Within, Writing
  <2>4. CASE LastLine(i).ended
    <3>1. /\ RowLine(i) = NewLine /\ NewLine \in Line /\ Len(NewLine.fields) = 0
          /\ NewLine.rows = 0 /\ NewLine.of = {}
      BY <2>4, FieldTypes DEF RowLine, NewLine
    <3>2. Len(LastLine(i)'.fields) = Min6(0 + Len(times))
      <4>. DEFINE new == Extended(NewLine, times, {})
      <4>1. Len(new.fields) = Min6(Len(NewLine.fields) + Len(times))
        BY <2>3, <3>1, ExtendedLine
      <4>. QED  BY <2>2, <3>1, <4>1
    <3>3. Min6(0 + 2) = 2
      BY DEF Min6, Columns
    <3>4. Timed(i)' => Len(LastLine(i)'.fields) = 2 /\ ~Marked(i)'
      <4>1. Timed(i)' => Len(LastLine(i)'.fields) = 2
        BY <2>1, <2>2, <3>2, <3>3
      <4>. QED  BY <1>1, <4>1 DEF Marked, Column, Sweep
    <3>5. LastLine(i)'.rows = 1 /\ LastLine(i)'.of = {}
      BY <2>1, <3>1
    <3>6. Timed(i)' => start <= value
      BY <1>1, <1>8, <2>1 DEF RowOK, Writing
    <3>. QED  BY <1>1, <1>8, <2>1, <2>3, <3>4, <3>5, <3>6 DEF RowOK, Within, Writing, Appending
  <2>5. CASE ~LastLine(i).ended
    <3>1. RowLine(i) = LastLine(i) /\ LastLine(i).rows # 0
      BY <1>1, <2>1, <2>5 DEF RowLine, RowOK
    <3>2. LastLine(i)'.rows # 1 /\ LastLine(i)'.rows # 0
      BY <2>1, <2>3, <3>1
    <3>3. ASSUME Timed(i)'
          PROVE  /\ Marked(i)' /\ Mark(i)' < value /\ FirstOf[i] <= Mark(i)' /\ start <= value
      <4>1. Marked(i) /\ FirstOf[i] <= Mark(i) /\ start <= value
            /\ (Mark(i) < start \/ Mark(i) < value)
        BY <1>1, <1>8, <2>1, <2>5, <3>3 DEF RowOK, Writing
      <4>2. Marked(i)' /\ Mark(i)' = Mark(i) /\ Mark(i) \in Nat
        BY <1>1, <2>1, <2>2, <2>3, <3>1, <4>1, MarkStays, MarkType
      <4>. QED  BY <1>1, <4>1, <4>2
    <3>. QED  BY <1>1, <1>8, <2>1, <2>3, <3>2, <3>3 DEF RowOK, Within, Writing, Appending
  <2>. QED  BY <2>4, <2>5
<1>9. CASE i = at /\ (WriteParams \/ WriteListSize \/ WriteTotals \/ WriteLoads)
  <2>1. CASE WriteParams
    <3>. DEFINE of == IF i = 4 THEN {} ELSE {value}
    <3>1. Params(i, value) \in Seq(Field) /\ of \in SUBSET Nat
      BY <1>1, <1>9, <2>1, ParamTypes DEF WriteParams, Printf, TypeOK, Writing
    <3>2. Printf("params", "listsize", Params(i, value), of)
      BY <1>9, <2>1 DEF WriteParams
    <3>. QED  BY <1>1, <1>9, <3>1, <3>2, RowPrints DEF Writing, Appending
  <2>2. CASE WriteListSize
    <3>1. ListSize(i, value) \in Seq(Field) /\ {value} \in SUBSET Nat
      BY <1>1, <1>9, <2>2, ParamTypes DEF WriteListSize, Printf, TypeOK, Writing
    <3>. QED  BY <1>1, <1>9, <2>2, <3>1, RowPrints DEF WriteListSize, Writing, Appending
  <2>3. CASE WriteTotals \/ WriteLoads
    <3>1. PICK from \in {"totals", "loads"}, to \in {"loads", "newline"}, fields \in Seq(Field) :
            Printf(from, to, fields, {})
      BY <2>3, ResultFields
    <3>2. {} \in SUBSET Nat
      OBVIOUS
    <3>. QED  BY <1>1, <1>9, <3>1, <3>2, RowPrints DEF Writing, Appending
  <2>. QED  BY <1>9, <2>1, <2>2, <2>3
<1>10. CASE i = at /\ WriteNewline
  <2>1. /\ pc = "newline" /\ pc' = "loop" /\ value' = value + 1 /\ UNCHANGED <<at, start>>
        /\ file[i] # << >> /\ file'[i] # << >> /\ LastLine(i) \in Line
        /\ LastLine(i)' = [LastLine(i) EXCEPT !.ended = TRUE] /\ (Timed(i)' => Timed(i))
    BY <1>10, NewlineLine
  <2>2. LastLine(i)'.fields = LastLine(i).fields /\ LastLine(i)'.ended
    BY <2>1 DEF Line
  <2>3. Marked(i)' = Marked(i) /\ Mark(i)' = Mark(i) /\ (Marked(i) => Mark(i) \in Nat)
    BY <1>1, <2>1, <2>2, MarkType DEF Marked, Mark
  <2>4. FirstOf[i] <= value'
    BY <1>1, <1>10, <2>1 DEF RowOK, Within, Writing
  <2>5. ASSUME Timed(i)', Marked(i)'  PROVE FirstOf[i] <= Mark(i)' /\ Mark(i)' < value'
    BY <1>1, <1>10, <2>1, <2>3, <2>5 DEF RowOK, Writing, Appending
  <2>. QED  BY <1>10, <2>1, <2>2, <2>4, <2>5 DEF RowOK, Within, Writing, Appending
<1>11. CASE UNCHANGED vars
  <2>1. file' = file /\ UNCHANGED <<pc, at, value, start>>
    BY <1>11 DEF vars, script
  <2>2. /\ Timed(i)' = Timed(i) /\ Marked(i)' = Marked(i) /\ Mark(i)' = Mark(i)
        /\ LastLine(i)' = LastLine(i)
    BY <2>1, FileStays
  <2>. QED  BY <1>1, <2>1, <2>2 DEF RowOK, Within
<1>12. CASE i # at /\ (Resume \/ Skip \/ RunExperiment)
  BY <1>3, <1>12 DEF Resume, Skip, RunExperiment
<1>. QED  BY <1>2, <1>4, <1>5, <1>6, <1>7, <1>8, <1>9, <1>10, <1>11, <1>12 DEF Next

\* A value becomes a cost only if a script is killed while it writes it, or the one
\* before it.
LEMMA CostlyBefore ==
  ASSUME TypeOK, RowInv, [Next]_vars, NEW i \in Sweep \ {FrameSize}, NEW w \in Nat, Costly(i, w)'
  PROVE  Costly(i, w) \/ (Killed /\ i = at /\ w \in {value, value + 1})
<1>1. /\ RowOK(i) /\ FilesOK /\ at \in Sweep /\ i \in Sweep /\ value \in Nat /\ start \in Nat
      /\ FirstOf[i] \in Nat /\ LastOf[i] \in Nat
      /\ pc \in {"off", "done", "begin", "loop"} \cup Writing
  BY SweepAssumption DEF RowInv, TypeOK, FilesOK
<1>2. Timed(i)' /\ w \in Values(i) /\ Passed(i, w)' /\ ~OwnLine(i, w)'
  BY DEF Costly, Values
<1>3. FirstOf[i] <= w /\ w <= LastOf[i]
  BY <1>1, <1>2 DEF Values
<1>4. ASSUME file'[i] = file[i]
      PROVE  /\ Timed(i) /\ ~OwnLine(i, w)
             /\ Marked(i)' = Marked(i) /\ Mark(i)' = Mark(i) /\ LastLine(i)' = LastLine(i)
  BY <1>2, <1>4, FileStays DEF OwnLine
<1>5. ASSUME file'[i] = file[i], ~Within(i), ~Within(i)', Finished(i)' => Finished(i)
      PROVE  Costly(i, w)
  BY <1>2, <1>4, <1>5 DEF Costly, Passed
<1>6. CASE Start
  <2>1. file' = file /\ ~Within(i) /\ ~Within(i)' /\ ~Finished(i)'
    BY <1>1, <1>6 DEF Start, Within, Finished, Writing, Sweep
  <2>. QED  BY <1>5, <2>1
<1>7. CASE Killed
  <2>1. file' = file /\ ~Within(i)' /\ ~Finished(i)'
    BY <1>7 DEF Killed, Within, Finished, Writing
  <2>2. CASE ~Within(i)
    BY <1>5, <2>1, <2>2
  <2>3. CASE Within(i)
    <3>1. /\ Timed(i) /\ ~OwnLine(i, w) /\ Marked(i) /\ Mark(i) \in Nat
          /\ w <= Mark(i) \/ (w = Mark(i) + 1 /\ ~LastLine(i).ended)
      BY <1>1, <1>2, <1>4, <2>1, MarkType DEF Passed
    <3>2. CASE pc \in {"loop", "times"}
      <4>1. (Mark(i) < start \/ Mark(i) < value) /\ (~LastLine(i).ended => value <= start)
        BY <1>1, <2>3, <3>1, <3>2 DEF RowOK, Within
      <4>2. w < value \/ w < start \/ (w = start /\ ~LastLine(i).ended)
        BY <1>1, <3>1, <4>1
      <4>3. Passed(i, w)
        BY <2>3, <3>2, <4>2 DEF Passed
      <4>. QED  BY <1>2, <3>1, <4>3 DEF Costly
    <3>3. CASE pc \in Appending /\ LastLine(i).rows # 1
      <4>1. Mark(i) < value
        BY <1>1, <2>3, <3>1, <3>3 DEF RowOK, Within
      <4>2. w < value \/ w = value
        BY <1>1, <3>1, <4>1
      <4>3. Passed(i, w)
        BY <2>3, <3>3, <4>2 DEF Passed
      <4>. QED  BY <1>2, <3>1, <4>3 DEF Costly
    <3>4. CASE pc \in Appending /\ LastLine(i).rows = 1
      <4>1. Mark(i) = value
        <5>1. LastLine(i) \in Line
          BY <1>1, <3>1 DEF FilesOK, Marked, LastLine
        <5>2. pc \notin {"params"} /\ ~(pc = "listsize" /\ i = 4)
          <6>0. i \in 1..4 /\ i = at /\ Timed(i) /\ Marked(i) /\ RowOK(i)
            BY <1>1, <2>3, <3>1, <3>4 DEF Within, Sweep
          <6>1. pc = "params" => Len(LastLine(i).fields) = 2
            BY <3>4, <6>0 DEF RowOK
          <6>2. pc = "listsize" /\ i = 4 => Len(LastLine(i).fields) = 5
            BY <3>4, <6>0 DEF RowOK
          <6>. QED  BY <6>0, <6>1, <6>2 DEF Marked, Column
        <5>3. pc \in {"totals", "loads", "newline"} \/ (pc = "listsize" /\ i # 4)
          BY <3>4, <5>2 DEF Appending, Writing
        <5>4. i = at /\ Timed(i)
          BY <1>1, <2>3, <3>1, <3>4 DEF Within
        <5>. QED  BY <1>1, <2>3, <3>1, <3>4, <5>3, <5>4 DEF RowOK
      <4>2. w < value \/ w \in {value, value + 1}
        BY <1>1, <3>1, <4>1
      <4>3. w < value => Passed(i, w)
        BY <2>3 DEF Passed
      <4>. QED  BY <1>2, <1>7, <2>3, <3>1, <4>2, <4>3 DEF Costly, Within
    <3>. QED  BY <2>3, <3>2, <3>3, <3>4 DEF Within, Appending
  <2>. QED  BY <2>2, <2>3
<1>8. CASE i = at /\ Resume
  <2>1. /\ file' = file /\ at' = at /\ pc = "begin" /\ pc' = "loop" /\ Marked(i)
        /\ start' = Mark(i) + 1 /\ value' = FirstOf[i]
    BY <1>8 DEF Resume
  <2>2. ~Finished(i)' /\ Within(i)' /\ ~Within(i) /\ Mark(i) \in Nat
    BY <1>1, <1>8, <2>1, MarkType DEF Finished, Within, Writing, Sweep
  <2>3. w < start' \/ (w = start' /\ ~LastLine(i)'.ended)
    BY <1>1, <1>2, <1>3, <2>1, <2>2 DEF Passed, Appending, Writing
  <2>4. w <= Mark(i) \/ (w = Mark(i) + 1 /\ ~LastLine(i).ended)
    BY <1>4, <2>1, <2>2, <2>3
  <2>. QED  BY <1>2, <1>4, <2>1, <2>2, <2>4 DEF Costly, Passed
<1>9. CASE i = at /\ StartOver
  <2>1. /\ file'[i] = <<Header>> /\ at' = at /\ pc' = "loop"
        /\ value' = FirstOf[i] /\ start' = FirstOf[i]
    BY <1>1, <1>9 DEF StartOver, FilesOK
  <2>2. LastLine(i)'.ended /\ ~Finished(i)' /\ Within(i)'
    BY <1>1, <1>9, <2>1 DEF LastLine, Header, Finished, Within, Sweep
  <2>. QED  BY <1>1, <1>2, <1>3, <2>1, <2>2 DEF Passed, Appending, Writing
<1>10. CASE i # at /\ (Resume \/ StartOver \/ Skip \/ RunExperiment)
  <2>1. /\ file'[i] = file[i] /\ at' = at /\ pc \in {"begin", "loop"}
        /\ pc' \in {"loop", "times"}
    BY <1>1, <1>10 DEF Resume, StartOver, Skip, RunExperiment, FilesOK
  <2>2. ~Within(i) /\ ~Within(i)' /\ (Finished(i)' => Finished(i))
    BY <1>10, <2>1 DEF Within, Finished
  <2>. QED  BY <1>5, <2>1, <2>2
<1>11. CASE i = at /\ (Skip \/ RunExperiment)
  <2>1. /\ file' = file /\ at' = at /\ pc = "loop" /\ start' = start
        /\ \/ pc' = "loop" /\ value < start /\ value' = value + 1
           \/ pc' = "times" /\ value' = value
    BY <1>11 DEF Skip, RunExperiment
  <2>2. ~Finished(i)' /\ Within(i)' /\ Within(i)
    BY <1>1, <1>11, <2>1 DEF Finished, Within, Writing, Sweep
  <2>3. w < value' \/ w < start \/ (w = start /\ ~LastLine(i).ended)
    BY <1>2, <1>4, <2>1, <2>2 DEF Passed, Appending, Writing
  <2>4. w < value \/ w < start \/ (w = start /\ ~LastLine(i).ended)
    BY <1>1, <2>1, <2>3
  <2>. QED  BY <1>2, <1>4, <2>1, <2>2, <2>4 DEF Costly, Passed
<1>12. CASE NextSweep
  <2>1. /\ file' = file /\ pc = "loop" /\ value > LastOf[at] /\ ~Within(i)'
        /\ IF at = 4 THEN at' = at /\ pc' = "done" ELSE at' = at + 1 /\ pc' = "begin"
    BY <1>12 DEF NextSweep, Within, Writing
  <2>2. CASE i # at
    <3>1. ~Within(i) /\ (Finished(i)' => Finished(i))
      BY <1>1, <2>1, <2>2 DEF Within, Finished, Sweep
    <3>. QED  BY <1>5, <2>1, <3>1
  <2>3. CASE i = at
    <3>1. w < value /\ Within(i)
      BY <1>1, <1>3, <2>1, <2>3 DEF Within
    <3>. QED  BY <1>2, <1>4, <2>1, <3>1 DEF Costly, Passed
  <2>. QED  BY <2>2, <2>3
<1>13. CASE i # at /\ (WriteTimes \/ WriteParams \/ WriteListSize \/ WriteTotals
                         \/ WriteLoads \/ WriteNewline)
  <2>1. PICK j \in Sweep : j = at
    BY <1>1
  <2>2. at' = at /\ pc \in Writing /\ pc' \in Writing \cup {"loop"} /\ file'[i] = file[i]
    <3>1. CASE WriteTimes
      BY <1>13, <2>1, <3>1, TimesLine DEF Writing
    <3>2. CASE WriteNewline
      BY <1>13, <2>1, <3>2, NewlineLine DEF Writing
    <3>3. CASE WriteParams \/ WriteListSize \/ WriteTotals \/ WriteLoads
      <4>1. PICK from \in Writing, to \in Writing, fields \in Seq(Field), of \in SUBSET Nat :
              Printf(from, to, fields, of)
        BY <3>3, PrintsFields
      <4>. QED  BY <1>13, <2>1, <4>1, PrintLine
    <3>. QED  BY <1>13, <3>1, <3>2, <3>3
  <2>3. ~Within(i) /\ ~Within(i)' /\ (Finished(i)' => Finished(i))
    BY <1>13, <2>2 DEF Within, Finished, Writing
  <2>. QED  BY <1>5, <2>2, <2>3
<1>14. CASE i = at /\ WriteTimes
  <2>1. /\ pc = "times" /\ pc' = "params" /\ UNCHANGED <<at, value, start>>
        /\ file[i] # << >> /\ LastLine(i)' \in Line /\ Timed(i)
        /\ LastLine(i)'.rows = RowLine(i).rows + 1
        /\ IF LastLine(i).ended
           THEN file' = [file EXCEPT ![i] = Append(@, LastLine(i)')]
           ELSE file' = [file EXCEPT ![i][Len(file[i])] = LastLine(i)']
    BY <1>2, <1>14, TimesLine
  <2>2. ~OwnLine(i, w)
    BY <1>1, <1>2, <2>1, OwnLinesKept
  <2>3. ~Finished(i)' /\ Within(i)' /\ Within(i)
    BY <1>1, <1>14, <2>1 DEF Finished, Within, Writing, Sweep
  <2>4. w < value \/ w < start \/ (w = value /\ LastLine(i)'.rows # 1)
    BY <1>2, <2>1, <2>3 DEF Passed
  <2>5. LastLine(i)'.rows # 1 => ~LastLine(i).ended
    BY <2>1 DEF RowLine, NewLine
  <2>6. start <= value /\ (~LastLine(i).ended => value <= start)
    BY <1>1, <1>14, <2>1 DEF RowOK, Writing
  <2>7. w < value \/ w < start \/ (w = start /\ ~LastLine(i).ended)
    BY <1>1, <2>4, <2>5, <2>6
  <2>. QED  BY <1>2, <2>1, <2>2, <2>3, <2>7 DEF Costly, Passed
<1>15. CASE i = at /\ (WriteParams \/ WriteListSize \/ WriteTotals \/ WriteLoads)
  <2>1. PICK from \in Appending, to \in Appending, fields \in Seq(Field), of \in SUBSET Nat :
          Printf(from, to, fields, of)
    <3>1. PICK from \in Writing, to \in Writing, fields \in Seq(Field), of \in SUBSET Nat :
            Printf(from, to, fields, of)
      BY <1>15, PrintsFields
    <3>2. from \in Appending /\ to \in Appending
      BY <1>15, <3>1 DEF WriteParams, WriteListSize, WriteTotals, WriteLoads, Printf, Appending, Writing
    <3>. QED  BY <3>1, <3>2
  <2>2. /\ pc = from /\ pc' = to /\ UNCHANGED <<at, value, start>>
        /\ file[i] # << >> /\ LastLine(i) \in Line /\ LastLine(i)' \in Line /\ Timed(i)
        /\ LastLine(i)' = Extended(LastLine(i), fields, of)
        /\ file' = [file EXCEPT ![i][Len(file[i])] = LastLine(i)']
    BY <1>2, <1>15, <2>1, PrintLine DEF Appending
  <2>3. LastLine(i)'.rows = LastLine(i).rows
    <3>. DEFINE new == Extended(LastLine(i), fields, of)
    <3>1. new.rows = LastLine(i).rows
      BY <2>2, ExtendedLine
    <3>. QED  BY <2>2, <3>1
  <2>4. ~LastLine(i).ended
    BY <1>1, <1>15, <2>2 DEF RowOK
  <2>5. ~OwnLine(i, w)
    BY <1>1, <1>2, <2>2, <2>4, OwnLinesKept
  <2>6. ~Finished(i)' /\ Within(i)' /\ Within(i)
    BY <1>1, <1>15, <2>2 DEF Finished, Within, Writing, Appending, Sweep
  <2>7. w < value \/ w < start \/ (w = value /\ LastLine(i).rows # 1)
    BY <1>2, <2>2, <2>3, <2>6 DEF Passed, Appending, Writing
  <2>. QED  BY <1>2, <2>2, <2>5, <2>6, <2>7 DEF Costly, Passed
<1>16. CASE i = at /\ WriteNewline
  <2>1. /\ pc = "newline" /\ pc' = "loop" /\ value' = value + 1 /\ UNCHANGED <<at, start>>
        /\ file[i] # << >> /\ LastLine(i) \in Line /\ LastLine(i)' \in Line /\ Timed(i)
        /\ LastLine(i)' = [LastLine(i) EXCEPT !.ended = TRUE]
        /\ file' = [file EXCEPT ![i][Len(file[i])] = LastLine(i)']
    BY <1>2, <1>16, NewlineLine
  <2>2. /\ LastLine(i)'.of = LastLine(i).of /\ LastLine(i)'.rows = LastLine(i).rows
        /\ LastLine(i)'.ended
    BY <2>1 DEF Line
  <2>3. ~LastLine(i).ended /\ start <= value /\ (LastLine(i).rows = 1 => LastLine(i).of = {value})
    BY <1>1, <1>16, <2>1 DEF RowOK, Writing, Appending
  <2>4. ~OwnLine(i, w)
    BY <1>1, <1>2, <2>1, <2>3, OwnLinesKept
  <2>5. LastLine(i).rows = 1 /\ w = value => OwnLine(i, w)'
    BY <1>1, <2>1, <2>2, <2>3, OwnLineEnded
  <2>6. ~Finished(i)' /\ Within(i)' /\ Within(i)
    BY <1>1, <1>16, <2>1 DEF Finished, Within, Writing, Sweep
  <2>7. w < value + 1 \/ w < start
    BY <1>2, <2>1, <2>2, <2>6 DEF Passed, Appending, Writing
  <2>8. w < value \/ w < start \/ (w = value /\ LastLine(i).rows # 1)
    BY <1>1, <1>2, <2>5, <2>7
  <2>. QED  BY <1>2, <2>1, <2>4, <2>6, <2>8 DEF Costly, Passed, Appending, Writing
<1>17. CASE UNCHANGED vars
  <2>1. file' = file /\ UNCHANGED <<pc, at, value, start>>
    BY <1>17 DEF vars, script
  <2>2. Finished(i)' = Finished(i) /\ Within(i)' = Within(i)
    BY <2>1 DEF Finished, Within
  <2>. QED  BY <1>2, <1>4, <2>1, <2>2 DEF Costly, Passed
<1>. QED  BY <1>6, <1>7, <1>8, <1>9, <1>10, <1>11, <1>12, <1>13, <1>14, <1>15, <1>16, <1>17 DEF Next

LEMMA CostStep ==
  ASSUME TypeOK, RowInv, CostOK, [Next]_vars  PROVE CostOK'
<1>1. IsFiniteSet(Costs) /\ Cardinality(Costs) <= 2 * kills /\ kills \in Nat
      /\ Cardinality(Costs) \in Nat
  BY FS_CardinalityType, SweepAssumption DEF CostOK, TypeOK
<1>2. CASE Killed
  <2>. DEFINE this == <<at, value>>
              next == <<at, value + 1>>
              one == Costs \cup {this}
              two == one \cup {next}
  <2>0. ASSUME NEW S, IsFiniteSet(S), NEW x
        PROVE  /\ IsFiniteSet(S \cup {x}) /\ Cardinality(S \cup {x}) <= Cardinality(S) + 1
               /\ Cardinality(S \cup {x}) \in Nat
    <3>1. Cardinality(S) \in Nat
      BY <2>0, FS_CardinalityType
    <3>. QED  BY <2>0, <3>1, FS_AddElement
  <2>. HIDE DEF this, next
  <2>1. IsFiniteSet(one) /\ Cardinality(one) <= Cardinality(Costs) + 1 /\ Cardinality(one) \in Nat
    BY <1>1, <2>0
  <2>. HIDE DEF one
  <2>2. IsFiniteSet(two) /\ Cardinality(two) <= Cardinality(one) + 1 /\ Cardinality(two) \in Nat
    BY <2>0, <2>1
  <2>3. Costs' \subseteq two
    <3>1. ASSUME NEW p \in Costs'  PROVE p \in two
      <4>1. p \in (Sweep \ {FrameSize}) \X Nat /\ Costly(p[1], p[2])' /\ p = <<p[1], p[2]>>
        BY <3>1 DEF Costs
      <4>2. Costly(p[1], p[2]) \/ (p[1] = at /\ p[2] \in {value, value + 1})
        BY <4>1, CostlyBefore
      <4>. QED  BY <4>1, <4>2 DEF Costs, one, this, next
    <3>. QED  BY <3>1
  <2>. HIDE DEF two
  <2>4. IsFiniteSet(Costs') /\ Cardinality(Costs') <= Cardinality(two)
    BY <2>2, <2>3, FS_Subset
  <2>5. kills' = kills + 1 /\ Cardinality(Costs') \in Nat
    BY <1>2, <2>4, FS_CardinalityType DEF Killed
  <2>. QED  BY <1>1, <2>1, <2>2, <2>4, <2>5 DEF CostOK
<1>3. CASE ~Killed
  <2>1. Costs' \subseteq Costs
    <3>1. ASSUME NEW p \in Costs'  PROVE p \in Costs
      <4>1. p \in (Sweep \ {FrameSize}) \X Nat /\ Costly(p[1], p[2])'
        BY <3>1 DEF Costs
      <4>2. Costly(p[1], p[2])
        BY <1>3, <4>1, CostlyBefore
      <4>. QED  BY <4>1, <4>2 DEF Costs
    <3>. QED  BY <3>1
  <2>2. IsFiniteSet(Costs') /\ Cardinality(Costs') <= Cardinality(Costs) /\ Cardinality(Costs') \in Nat
    BY <1>1, <2>1, FS_Subset, FS_CardinalityType
  <2>3. kills' = kills
    BY <1>3 DEF Next, vars, Start, Resume, StartOver, Skip, RunExperiment, NextSweep, WriteTimes,
                WriteParams, WriteListSize, WriteTotals, WriteLoads, WriteNewline, Printf
  <2>. QED  BY <1>1, <2>2, <2>3 DEF CostOK
<1>. QED  BY <1>2, <1>3

\* The values without a line of their own in the finished files are costs.
LEMMA CostsCount ==
  ASSUME TypeOK, CostOK  PROVE KillsCostLittle
<1>. DEFINE through == {i \in Sweep \ {FrameSize} : Finished(i) /\ Timed(i)}
            costs == UNION {{<<i, v>> : v \in {w \in Values(i) : ~OwnLine(i, w)}} : i \in through}
<1>1. costs \subseteq Costs
  <2>1. ASSUME NEW p \in costs  PROVE p \in Costs
    <3>1. PICK i \in through : p \in {<<i, v>> : v \in {w \in Values(i) : ~OwnLine(i, w)}}
      BY <2>1
    <3>2. PICK v \in {w \in Values(i) : ~OwnLine(i, w)} : p = <<i, v>>
      BY <3>1
    <3>3. v \in Nat /\ Costly(i, v)
      BY <3>1, <3>2, SweepAssumption DEF Costly, Passed, Values
    <3>. QED  BY <3>1, <3>2, <3>3 DEF Costs
  <2>. QED  BY <2>1
<1>. HIDE DEF costs
<1>2. IsFiniteSet(Costs) /\ Cardinality(Costs) <= 2 * kills /\ kills \in Nat
  BY SweepAssumption DEF CostOK, TypeOK
<1>3. Cardinality(costs) <= Cardinality(Costs) /\ Cardinality(costs) \in Nat
      /\ Cardinality(Costs) \in Nat
  BY <1>1, <1>2, FS_Subset, FS_CardinalityType
<1>4. Cardinality(costs) <= 2 * kills
  BY <1>2, <1>3
<1>. QED  BY <1>4 DEF KillsCostLittle, costs

(***************************************************************************)
(* However many scripts are killed, and wherever, a kill costs the         *)
(* finished files at most two values that have no line of their own; for   *)
(* every range of the parameters, frame sizes apart (run_experiment.sh).   *)
(***************************************************************************)
THEOREM TwoLinesAKill == Spec => []KillsCostLittle
<1>1. Init => TypeOK /\ RowInv /\ CostOK
  <2>. SUFFICES ASSUME Init  PROVE TypeOK /\ RowInv /\ CostOK
    OBVIOUS
  <2>1. /\ pc = "off" /\ \A i \in Sweep : file[i] = << >>
    BY DEF Init
  <2>2. RowInv
    BY <2>1 DEF RowInv, RowOK, Within, Marked, Writing, Appending
  <2>3. Costs = {}
    BY <2>1 DEF Costs, Costly, Passed, Finished, Within, Marked, Writing
  <2>4. CostOK
    BY <2>3, FS_EmptySet DEF CostOK, Init
  <2>. QED  BY <2>2, <2>4, TypeInit
<1>2. TypeOK /\ RowInv /\ CostOK /\ [Next]_vars => TypeOK' /\ RowInv' /\ CostOK'
  BY TypeStep, RowStep, CostStep
<1>3. TypeOK /\ CostOK => KillsCostLittle
  BY CostsCount
<1>. QED  BY <1>1, <1>2, <1>3, PTL DEF Spec
==============================================================================
