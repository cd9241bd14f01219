-------------------------------- MODULE Sweep --------------------------------
(***************************************************************************)
(* The parameter sweeps of run_experiment.sh.  One script after another    *)
(* runs the same four sweeps; each sweep appends to a result file of its   *)
(* own, a line for a value of its parameter, and the last line of that     *)
(* file is the only thing a script knows of the scripts before it.  A line *)
(* is written by six commands, and the script may die between any two.     *)
(***************************************************************************)
EXTENDS Integers, Sequences, FiniteSets

CONSTANTS
  FirstOf, LastOf,  \* the range of each sweep: the parameters' *_RANGE
  Requests,         \* bound: requests that a client reports
  MaxKills,         \* bound: scripts that are killed
  MaxUntimed        \* bound: servers that leave a time unreported

Sweep == 1..4  \* header_table_size, window_bits, max_frame_size, max_header_list_size
FrameSize == 3

ASSUME SweepAssumption ==
  /\ FirstOf \in [Sweep -> Nat] /\ LastOf \in [Sweep -> Nat]
  /\ LastOf[FrameSize] <= 24 /\ \A n \in 0..24 : 2^n \in Nat \ {0}
  /\ Requests \in Nat /\ MaxKills \in Nat /\ MaxUntimed \in Nat

Values(i) == FirstOf[i]..LastOf[i]

VARIABLES
  file,    \* each sweep's result file: its lines, or no line if there is no file
  pc,      \* "off", or what the running script does next
  at,      \* the sweep it is in
  value,   \* the loop variable of the sweep
  start,   \* the first value that the loop does not skip
  kills,   \* history: scripts killed so far
  untimed  \* history: experiments without both times so far

script == <<pc, at, value, start>>
vars   == <<file, script, kills, untimed>>

(***************************************************************************)
(* A line as tail and awk see it: its fields, of which only the first six  *)
(* are ever looked at, and whether the newline is there.  Three histories: *)
(* the values whose parameters it shows, how many rows were begun in it,   *)
(* and whether each of them has its times.                                 *)
(***************************************************************************)
Word      == [number |-> FALSE, value |-> 0]   \* not of the form ^[0-9]+$
Number(n) == [number |-> TRUE,  value |-> n]
Columns   == 6

Header == [fields |-> [c \in 1..Columns |-> Word], ended |-> TRUE,
           of |-> {}, rows |-> 0, timed |-> TRUE]

NewLine == [fields |-> << >>, ended |-> FALSE, of |-> {}, rows |-> 0, timed |-> TRUE]

Init ==
  /\ file = [i \in Sweep |-> << >>]
  /\ pc = "off" /\ at = 1 /\ value = 0 /\ start = 0 /\ kills = 0 /\ untimed = 0

------------------------------------------------------------------------------
(* Where to go on                                                            *)

\* A bug for OnlyBrokenLinesCostTheFile: the column of the next parameter.
ColumnOneOff(i) == i + 3

\* The field of a line that says how far sweep i is.
Column(i) == i + 2

LastLine(i) == file[i][Len(file[i])]

Marked(i) ==
  /\ file[i] # << >> /\ Column(i) <= Len(LastLine(i).fields)
  /\ LastLine(i).fields[Column(i)].number

Mark(i) == LastLine(i).fields[Column(i)].value

\* test_<parameter>: go on after the value in the last line of the file.
Resume ==
  /\ pc = "begin" /\ Marked(at)
  /\ start' = Mark(at) + 1 /\ value' = FirstOf[at] /\ pc' = "loop"
  /\ UNCHANGED <<file, at, kills, untimed>>

\* Or begin a new file, whatever the old one held.
StartOver ==
  /\ pc = "begin" /\ ~Marked(at)
  /\ file' = [file EXCEPT ![at] = <<Header>>]
  /\ start' = FirstOf[at] /\ value' = FirstOf[at] /\ pc' = "loop"
  /\ UNCHANGED <<at, kills, untimed>>

------------------------------------------------------------------------------
(* The loop                                                                  *)

\* A bug for NothingSkipped: -le for -lt.
SkipAtStart ==
  /\ pc = "loop" /\ value <= LastOf[at] /\ value <= start
  /\ value' = value + 1
  /\ UNCHANGED <<file, pc, at, start, kills, untimed>>

Skip ==
  /\ pc = "loop" /\ value <= LastOf[at] /\ value < start
  /\ value' = value + 1
  /\ UNCHANGED <<file, pc, at, start, kills, untimed>>

\* run_experiment up to its results: the server and the clients run and end, the
\* clients when they are done or time out, the server within 5 seconds or by force.
RunExperiment ==
  /\ pc = "loop" /\ value <= LastOf[at] /\ value >= start
  /\ pc' = "times"
  /\ UNCHANGED <<file, at, value, start, kills, untimed>>

\* A bug for TypeOK: there is a fifth sweep.
NextSweepAfterLast ==
  /\ pc = "loop" /\ value > LastOf[at]
  /\ at' = at + 1 /\ pc' = "begin"
  /\ UNCHANGED <<file, value, start, kills, untimed>>

NextSweep ==
  /\ pc = "loop" /\ value > LastOf[at]
  /\ IF at = 4 THEN at' = at     /\ pc' = "done"
               ELSE at' = at + 1 /\ pc' = "begin"
  /\ UNCHANGED <<file, value, start, kills, untimed>>

------------------------------------------------------------------------------
(* The results of an experiment: appended by six commands                    *)

\* What run_experiment gets for each parameter: a frame size is a power of 2.
Setting(i, v) == IF i # FrameSize THEN v ELSE IF v = 24 THEN 2^v - 1 ELSE 2^v
Default == <<4096, 16, 16384>>

Params(i, v) == [p \in 1..3 |-> Number(IF p = i THEN Setting(i, v) ELSE Default[p])]
ListSize(i, v) == <<IF i = 4 THEN Number(v) ELSE Word>>

\* line with more fields, which show the values of.
Extended(line, fields, of) ==
  LET all == line.fields \o fields
  IN  [line EXCEPT !.fields = SubSeq(all, 1, IF Len(all) <= Columns THEN Len(all) ELSE Columns),
                   !.of = @ \cup of]

ReplaceLast(line) == file' = [file EXCEPT ![at][Len(file[at])] = line]

Printf(from, to, fields, of) ==
  /\ pc = from /\ pc' = to
  /\ ReplaceLast(Extended(LastLine(at), fields, of))
  /\ UNCHANGED <<at, value, start, kills, untimed>>

\* A line in which a row begins, with the times as the server's output has them.
RowBegun(line, times) ==
  [Extended(line, times, {}) EXCEPT !.rows = @ + 1, !.timed = @ /\ Len(times) = 2]

\* The row gets a line of its own, unless an earlier script left one without newline.
WriteTimes ==
  /\ pc = "times" /\ pc' = "params"
  /\ \E times \in {<< >>, <<Word>>, <<Word, Word>>} :
       /\ untimed' = IF Len(times) = 2 THEN untimed ELSE untimed + 1
       /\ untimed' <= MaxUntimed
       /\ IF LastLine(at).ended
          THEN file' = [file EXCEPT ![at] = Append(@, RowBegun(NewLine, times))]
          ELSE ReplaceLast(RowBegun(LastLine(at), times))
  /\ UNCHANGED <<at, value, start, kills>>

WriteParams == Printf("params", "listsize", Params(at, value),
                      IF at = 4 THEN {} ELSE {value})

WriteListSize == Printf("listsize", "totals", ListSize(at, value), {value})

\* summarize-client-totals.awk: requests and successes, then what no column of a
\* parameter can hold, or nothing if no client reported.
WriteTotals ==
  \/ Printf("totals", "loads", << >>, {})
  \/ \E total \in 0..Requests : \E success \in 0..total :
       Printf("totals", "loads", <<Number(total), Number(success)>>, {})

\* nghttpd.awk and consumption.awk: averages, or zeros if there are no samples.
WriteLoads ==
  \E load \in {Word, Number(0)} : Printf("loads", "newline", <<load, load>>, {})

\* A bug for KillsCostLittle: the newline is forgotten.
WriteNewlineNot ==
  /\ pc = "newline" /\ pc' = "loop"
  /\ value' = value + 1
  /\ UNCHANGED <<file, at, start, kills, untimed>>

WriteNewline ==
  /\ pc = "newline" /\ pc' = "loop"
  /\ ReplaceLast([LastLine(at) EXCEPT !.ended = TRUE])
  /\ value' = value + 1
  /\ UNCHANGED <<at, start, kills, untimed>>

------------------------------------------------------------------------------
(* Scripts come and go                                                       *)

Start ==
  /\ pc \in {"off", "done"} /\ pc' = "begin"
  /\ at' = 1 /\ value' = 0 /\ start' = 0
  /\ UNCHANGED <<file, kills, untimed>>

\* finish, or no trap at all: the files stay as they are.
Killed ==
  /\ pc \notin {"off", "done"} /\ kills < MaxKills /\ kills' = kills + 1
  /\ pc' = "off" /\ at' = 1 /\ value' = 0 /\ start' = 0
  /\ UNCHANGED <<file, untimed>>

Next ==
  \/ Start \/ Killed \/ Resume \/ StartOver
  \/ Skip \/ RunExperiment \/ NextSweep
  \/ WriteTimes \/ WriteParams \/ WriteListSize \/ WriteTotals \/ WriteLoads \/ WriteNewline

Spec == Init /\ [][Next]_vars

------------------------------------------------------------------------------
(* Properties                                                                *)

Writing == {"times", "params", "listsize", "totals", "loads", "newline"}

Field == [number : BOOLEAN, value : Nat]

Line == [fields : Seq(Field), ended : BOOLEAN, of : SUBSET Nat, rows : Nat, timed : BOOLEAN]

TypeOK ==
  /\ file \in [Sweep -> Seq(Line)]
  /\ pc \in {"off", "done", "begin", "loop"} \cup Writing
  /\ at \in Sweep /\ value \in Nat /\ start \in Nat
  /\ kills \in 0..MaxKills /\ untimed \in 0..MaxUntimed
  /\ pc \in Writing \cup {"loop"} => file[at] # << >>
  /\ pc \in Writing => value <= LastOf[at]

\* The running script, or the one that ended last, is through with sweep i.
Finished(i) == pc = "done" \/ (pc # "off" /\ i < at)

\* Every row in the file has its times.
Timed(i) == \A n \in DOMAIN file[i] : file[i][n].timed

Shown(i) == UNION {file[i][n].of : n \in DOMAIN file[i]}

(***************************************************************************)
(* However often scripts are killed, and wherever: when one is through     *)
(* with a sweep, the file shows every value of the range.  Not so for the  *)
(* frame size, and not if a server left a time unreported: the columns     *)
(* after it move, and the next script reads another number for the mark.   *)
(***************************************************************************)
NothingSkipped ==
  \A i \in Sweep \ {FrameSize} : Finished(i) /\ Timed(i) => Values(i) \subseteq Shown(i)

(***************************************************************************)
(* A value that a killed script was writing is not measured again, and the *)
(* next one is written into the same line: a kill costs at most these two, *)
(* every other value has a line of its own.                                *)
(***************************************************************************)
OwnLine(i, v) == \E n \in DOMAIN file[i] :
  LET line == file[i][n] IN line.of = {v} /\ line.rows = 1 /\ line.ended

KillsCostLittle ==
  LET through == {i \in Sweep \ {FrameSize} : Finished(i) /\ Timed(i)}
      costs   == UNION {{<<i, v>> : v \in {w \in Values(i) : ~OwnLine(i, w)}} : i \in through}
  IN  Cardinality(costs) <= 2 * kills

(***************************************************************************)
(* A file is begun again, and what was measured is lost, only if its last  *)
(* line was left unfinished or lacks a time.                               *)
(***************************************************************************)
OnlyBrokenLinesCostTheFile ==
  [][\A i \in Sweep :
       Len(file'[i]) < Len(file[i]) => ~LastLine(i).ended \/ ~LastLine(i).timed]_vars

(***************************************************************************)
(* TROUBLESHOOT.md:20: if the file exists the script tries to start again  *)
(* from the point given, for each of the four files.  The frame size is    *)
(* written as 2^n and compared with n: what is left of the range is        *)
(* skipped.                                                                *)
(***************************************************************************)
FrameSizesResume ==
  Finished(FrameSize) /\ Timed(FrameSize) => Values(FrameSize) \subseteq Shown(FrameSize)
==============================================================================
