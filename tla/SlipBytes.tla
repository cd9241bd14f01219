------------------------------ MODULE SlipBytes ------------------------------
(***************************************************************************)
(* The byte stuffing both ends of the serial line use.  A byte is one of   *)
(* the four values the protocol gives a meaning to, or a member of Data:   *)
(* nothing else about a byte matters to the framing.                       *)
(***************************************************************************)
EXTENDS Integers, Sequences, SequencesExt

CONSTANT Data  \* the byte values that SLIP does not treat specially

END     == "END"      \* SLIP_END     0300
ESC     == "ESC"      \* SLIP_ESC     0333
ESC_END == "ESC_END"  \* SLIP_ESC_END 0334
ESC_ESC == "ESC_ESC"  \* SLIP_ESC_ESC 0335

Special == {END, ESC, ESC_END, ESC_ESC}
Byte    == Data \cup Special

ASSUME SlipBytesAssumption == Data \cap Special = {}

\* Seeded fault: ESC is sent as it is.
EscapeEndOnly(b) == IF b = END THEN <<ESC, ESC_END>> ELSE <<b>>

\* What the sender's switch puts on the line for one payload byte.
Escape(b) == CASE b = END -> <<ESC, ESC_END>>
               [] b = ESC -> <<ESC, ESC_ESC>>
               [] OTHER   -> <<b>>

\* A whole payload, escaped, without a delimiter.
Escaped(payload) == FlattenSeq([i \in DOMAIN payload |-> Escape(payload[i])])

\* The receiver's inner switch: what the byte after an ESC stands for.
Unescape(b) == CASE b = ESC_END -> END
                 [] b = ESC_ESC -> ESC
                 [] OTHER       -> b

(***************************************************************************)
(* A receiver that sees the whole line: it collects bytes up to an END,    *)
(* undoes the escapes and ignores empty frames.  It stands for Contiki's   *)
(* slip.c in the radio, which is not part of this repository, and is the   *)
(* reference the bridge's own decoder is compared with.                    *)
(***************************************************************************)
Receive(r, b) ==
  IF r.escaping
  THEN [r EXCEPT !.partial = Append(@, Unescape(b)), !.escaping = FALSE]
  ELSE CASE b = END -> [r EXCEPT !.partial = << >>,
                                 !.frames = IF r.partial = << >> THEN @
                                            ELSE Append(@, r.partial)]
         [] b = ESC -> [r EXCEPT !.escaping = TRUE]
         [] OTHER   -> [r EXCEPT !.partial = Append(@, b)]

Received(line) ==
  FoldLeft(Receive, [frames |-> << >>, partial |-> << >>, escaping |-> FALSE], line)

FramesOf(line) == Received(line).frames
==============================================================================
