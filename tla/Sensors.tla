------------------------------ MODULE Sensors ------------------------------
(***************************************************************************)
(* The sensor readings of the radio.  The sky radio's send                 *)
(* (slip-radio-sky-sensors.c) prints a temperature and a humidity, both in *)
(* hundredths, as "!Dtemp=21.50;hum=48.07", every three seconds; the       *)
(* bridge's slip_bridge_set_sensors (slip-bridge.c) cuts what it gets at   *)
(* each ';' and keeps the pieces in fixed entries, which hold what is left *)
(* of longer texts behind the new end.  The web page prints an entry up to *)
(* its NUL.                                                                *)
(*                                                                         *)
(* Texts are sequences of characters, with one letter for each name.  When *)
(* the line loses the bytes between two reports, they arrive as one.       *)
(***************************************************************************)
EXTENDS Startup, SequencesExt

CONSTANTS
  MAX_SENSORS,   \* the entries
  EntryLength,   \* the characters of an entry
  Readings,      \* temperatures and humidities the sensor may measure
  MaxReports     \* bound: reports that arrive

\* An entry has room for a letter, three digits with their sign, the point and two
\* more digits, and the NUL.
ASSUME SensorsAssumption ==
  MAX_SENSORS \in Nat /\ MAX_SENSORS >= 2 /\ EntryLength \in Nat /\ EntryLength > 8

\* What the 14 bits of the temperature and the 12 of the humidity can mean, which
\* an int of 16 bits holds too.
Temperatures == -3970..12413
Humidities   == -204..14823

ASSUME ReadingsAssumption == Readings \subseteq [temp : Temperatures, hum : Humidities]

VARIABLES
  sensors,       \* the entries, character by character
  sensor_count,  \* the entries in use
  reported,      \* history: the readings in the last report
  reports        \* history: reports so far

readings == <<sensors, sensor_count, reported, reports>>

NUL == "NUL"

SensorsInit ==
  /\ sensors = [k \in 1..MAX_SENSORS |-> [i \in 1..EntryLength |-> NUL]]
  /\ sensor_count = 0 /\ reported = << >> /\ reports = 0

------------------------------------------------------------------------------
(* The radio: send                                                           *)

Digit(n) == << <<"0", "1", "2", "3", "4", "5", "6", "7", "8", "9">>[n + 1] >>

\* printf's %d for a number that is not negative and below 1000, and %02d.
TwoDigits(n) == Digit(n \div 10) \o Digit(n % 10)
Decimal(n)   == IF n < 10 THEN Digit(n)
                ELSE IF n < 100 THEN TwoDigits(n)
                ELSE Digit(n \div 100) \o TwoDigits(n % 100)

Abs(n) == IF n < 0 THEN -n ELSE n

\* C's / and %, which round towards zero.
Quotient(n)  == IF n < 0 THEN -(Abs(n) \div 100) ELSE n \div 100
Remainder(n) == n - 100 * Quotient(n)

\* A number between -100 and 0 loses its sign: its quotient is 0.
write_percent_float(n) ==
  (IF Quotient(n) < 0 THEN <<"-">> ELSE << >>)
    \o Decimal(Abs(Quotient(n))) \o <<".">> \o TwoDigits(Abs(Remainder(n)))

send(reading) ==
  <<"t">> \o write_percent_float(reading.temp)
    \o <<";", "h">> \o write_percent_float(reading.hum)

------------------------------------------------------------------------------
(* The bridge: slip_bridge_set_sensors                                       *)

\* The text between two semicolons, or one and an end of the data.
Pieces(data) ==
  LET cuts[i \in 0..Len(data)] ==
        IF i = 0 THEN <<0>> ELSE cuts[i - 1] \o (IF data[i] = ";" THEN <<i>> ELSE << >>)
      ends == Append(cuts[Len(data)], Len(data) + 1)
  IN  [k \in 1..(Len(ends) - 1) |-> SubSeq(data, ends[k] + 1, ends[k + 1] - 1)]

\* A bug for ShownAsMeasured: a text is copied without its end.
EntryNoEnd(entry, text) ==
  [i \in 1..EntryLength |-> IF i <= Len(text) THEN text[i] ELSE entry[i]]

\* What an entry holds after a text and its NUL were written into it. A text that
\* is longer than the entry would go on in the next; those of the sky radio are not
\* (SensorsAssumption).
Entry(entry, text) ==
  [i \in 1..EntryLength |-> IF i <= Len(text) THEN text[i]
                           ELSE IF i = Len(text) + 1 THEN NUL ELSE entry[i]]

\* The loop returns once all entries are used.
set_sensors(data) ==
  LET texts == Pieces(data)
      sc    == IF Len(texts) < MAX_SENSORS THEN Len(texts) ELSE MAX_SENSORS
  IN  /\ sensors' = [k \in 1..MAX_SENSORS |->
                       IF k <= sc THEN Entry(sensors[k], texts[k]) ELSE sensors[k]]
      /\ sensor_count' = sc

\* A report arrives, or two as one.
SensorData ==
  /\ pc \in {"asking", "running"}
  /\ reports < MaxReports /\ reports' = reports + 1
  /\ \/ \E r \in Readings : reported' = <<r>> /\ set_sensors(send(r))
     \/ \E r1, r2 \in Readings :
          /\ reported' = <<r1, r2>>
          /\ set_sensors(send(r1) \o <<"!", "D">> \o send(r2))

\* The program starts again with no entry in use.
SensorsRestart ==
  /\ sensors' = [k \in 1..MAX_SENSORS |-> [i \in 1..EntryLength |-> NUL]]
  /\ sensor_count' = 0 /\ reported' = << >> /\ UNCHANGED reports

------------------------------------------------------------------------------

\* What the page prints of an entry: up to its NUL.
Printed(entry) == SubSeq(entry, 1, SelectInSeq(entry, LAMBDA c : c = NUL) - 1)

Shown(k) == Printed(sensors[k])

\* A number in hundredths as it should be read.
Hundredths(n) ==
  (IF n < 0 THEN <<"-">> ELSE << >>)
    \o Decimal(Abs(n) \div 100) \o <<".">> \o TwoDigits(Abs(n) % 100)

(***************************************************************************)
(* The page shows the temperature that was measured last, and the humidity *)
(* too unless it ran into the next report, whatever longer or shorter text *)
(* its entries held before; except that the sign is lost of a number       *)
(* between -1 and 0 (slip-radio-sky-sensors.c:51).                         *)
(***************************************************************************)
ShownAsMeasured ==
  reported # << >> =>
    LET first == reported[1]
    IN  /\ sensor_count >= 1
        /\ first.temp \in -99..-1 \/ Shown(1) = <<"t">> \o Hundredths(first.temp)
        /\ Len(reported) = 1 =>
             /\ sensor_count = 2
             /\ first.hum \in -99..-1 \/ Shown(2) = <<"h">> \o Hundredths(first.hum)
==============================================================================
