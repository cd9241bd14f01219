------------------------------- MODULE SlipIn --------------------------------
(***************************************************************************)
(* The serial line from the radio to the bridge.  The radio writes packets *)
(* (slip_send_packet) and debug lines (putchar) to its UART byte by byte;  *)
(* bytes may be lost on the way; the bridge's serial_input collects what   *)
(* arrives in inbuf and hands each frame to the handler its bytes ask for. *)
(*                                                                         *)
(* A byte that matters beyond SLIP is one of: the marks '!' and '?', the   *)
(* debug marker '\r', the line end '\n', another byte that may be part of  *)
(* a string (text) or one that may not (bin, and the four SLIP bytes).     *)
(***************************************************************************)
EXTENDS SlipBytes, FiniteSets

CONSTANTS
  InBufSize,    \* sizeof(inbuf)
  Frames,       \* the packets slip_send_packet is given: records of who is to
                \* get them ("cmd" or "packet") and their bytes
  Verbosities,  \* the values slip_config_verbose may have
  MaxSent,      \* bound: packets sent in a behaviour
  MaxDebug,     \* bound: characters printed in a behaviour
  MaxWire,      \* bound: bytes on their way at a time
  MaxLost       \* bound: kinds of bytes lost (a member of lost each)

Bang == "bang"   Ask == "ask"   CR == "cr"   NL == "nl"
Printable == {Bang, Ask, "text"}
Chars     == {"text", NL}  \* what the radio prints

ASSUME SlipInAssumption ==
  /\ Data = {Bang, Ask, CR, NL, "text", "bin"}
  /\ InBufSize \in Nat \ {0}
  /\ \A f \in Frames : /\ f.to \in {"cmd", "packet"}
                       /\ f.data \in Seq(Byte) /\ f.data # << >>
  /\ Verbosities \subseteq 0..6
  /\ MaxSent \in Nat /\ MaxDebug \in Nat /\ MaxWire \in Nat /\ MaxLost \in Nat

VARIABLES
  sending,      \* what the radio has still to write, byte by byte
  debug_frame,  \* putchar is in the middle of a line
  wire,         \* the bytes on their way
  inbuf,        \* the bytes collected: inbuf[0 .. inbufptr)
  verbose,      \* slip_config_verbose
  exited,       \* err(1, ..) was called
  sent,         \* history: the packets given to slip_send_packet
  printed,      \* history: how many characters putchar was given
  lost,         \* history: the parts of packets of which a byte was lost
  handled       \* history: the frames that were handed to a handler, to which,
                \* and the part of which packet the END was that closed them

vars == <<sending, debug_frame, wire, inbuf, verbose, exited,
          sent, printed, lost, handled>>

Init ==
  /\ sending = << >> /\ debug_frame = FALSE
  /\ wire = << >> /\ inbuf = << >>
  /\ verbose \in Verbosities /\ exited = FALSE
  /\ sent = << >> /\ printed = 0 /\ lost = {} /\ handled = << >>

------------------------------------------------------------------------------
(* The radio runs slip_send_packet and putchar to their end, one             *)
(* slip_arch_writeb after the other.  An item is a byte on the line with the *)
(* packet and the part of it ("open", "body", "close" or "debug") it is of.  *)

Part    == {"open", "body", "close", "debug"}
Item    == [byte : Byte, frame : 0..MaxSent, part : Part]

Items(bytes, n, part) ==
  [i \in DOMAIN bytes |-> [byte |-> bytes[i], frame |-> n, part |-> part]]

\* Seeded fault: no leading END, as in the bridge's own write_to_serial.
SlipSendPacketNoLead(f) ==
  /\ sending = << >> /\ Len(sent) < MaxSent
  /\ sent' = Append(sent, f)
  /\ LET n == Len(sent) + 1
     IN  sending' = Items(Escaped(f.data), n, "body") \o Items(<<END>>, n, "close")
  /\ UNCHANGED <<debug_frame, wire, inbuf, verbose, exited, printed, lost, handled>>

SlipSendPacket(f) ==
  /\ sending = << >> /\ Len(sent) < MaxSent
  /\ sent' = Append(sent, f)
  /\ LET n == Len(sent) + 1
     IN  sending' = Items(<<END>>, n, "open") \o Items(Escaped(f.data), n, "body")
                      \o Items(<<END>>, n, "close")
  /\ UNCHANGED <<debug_frame, wire, inbuf, verbose, exited, printed, lost, handled>>

\* A line of debug output is a frame that starts with '\r' and ends after '\n';
\* packets may be sent in the middle of it.
Putchar(c) ==
  /\ sending = << >> /\ printed < MaxDebug
  /\ printed' = printed + 1
  /\ sending' = Items((IF debug_frame THEN << >> ELSE <<END, CR>>) \o <<c>>
                        \o (IF c = NL THEN <<END>> ELSE << >>), 0, "debug")
  /\ debug_frame' = (c # NL)
  /\ UNCHANGED <<wire, inbuf, verbose, exited, sent, lost, handled>>

\* slip_arch_writeb: the byte gets on the line ..
Writeb ==
  /\ sending # << >> /\ Len(wire) < MaxWire
  /\ wire' = Append(wire, Head(sending))
  /\ sending' = Tail(sending)
  /\ UNCHANGED <<debug_frame, inbuf, verbose, exited, sent, printed, lost, handled>>

\* .. and may get lost on it.
Lose ==
  /\ sending # << >>
  /\ lost' = lost \cup {<<Head(sending).frame, Head(sending).part>>}
  /\ Cardinality(lost') <= MaxLost
  /\ sending' = Tail(sending)
  /\ UNCHANGED <<debug_frame, wire, inbuf, verbose, exited, sent, printed, handled>>

------------------------------------------------------------------------------
(* The bridge.  serial_input reads until nothing is left to read, which it   *)
(* may find after any byte, so that each turn of its loop is a step.         *)

\* The string looks printable; its first byte is not looked at.
IsSensibleString(s) == \A i \in 2..Len(s) : s[i] \in Printable \cup {CR, NL}

Handler(s) == CASE s[1] = Bang -> "cmd"
                [] s[1] = Ask  -> "ignored"
                [] s[1] = CR   -> "debug"
                [] OTHER       -> IF IsSensibleString(s) THEN "text" ELSE "packet"

\* A line is echoed when its '\n' arrives, unless verbose is 4 or below 2.
Echoes(s) == /\ verbose >= 2 /\ verbose # 4
             /\ s[Len(s)] = NL /\ IsSensibleString(s)

\* Seeded faults: the test for room is one byte late; it is one byte early.
StoreLate(c) ==
  LET s == Append(inbuf, c)
  IN  /\ inbuf' = IF Echoes(s) \/ Len(s) > InBufSize THEN << >> ELSE s
      /\ UNCHANGED handled
StoreEarly(c) ==
  LET s == Append(inbuf, c)
  IN  /\ inbuf' = IF Echoes(s) \/ Len(s) >= InBufSize - 1 THEN << >> ELSE s
      /\ UNCHANGED handled

\* inbuf[inbufptr++] = c, then the echo, then the test for room at read_more.
Store(c) ==
  LET s == Append(inbuf, c)
  IN  /\ inbuf' = IF Echoes(s) \/ Len(s) >= InBufSize THEN << >> ELSE s
      /\ UNCHANGED handled

\* An END: the frame goes to its handler, an empty one to none.
EndOfFrame(item) ==
  /\ inbuf' = << >>
  /\ handled' = IF inbuf = << >> THEN handled
                ELSE Append(handled, [to |-> Handler(inbuf), data |-> inbuf,
                                      frame |-> item.frame, part |-> item.part])

ReadByte ==
  /\ ~exited /\ wire # << >> /\ Head(wire).byte # ESC
  /\ wire' = Tail(wire)
  /\ \/ Head(wire).byte = END /\ EndOfFrame(Head(wire))
     \/ Head(wire).byte # END /\ Store(Head(wire).byte)
  /\ UNCHANGED <<sending, debug_frame, verbose, exited, sent, printed, lost>>

\* An ESC waits (it is put back) until the byte after it can be read too.
ReadEscape ==
  /\ ~exited /\ Len(wire) >= 2 /\ Head(wire).byte = ESC
  /\ wire' = Tail(Tail(wire))
  /\ Store(Unescape(wire[2].byte))
  /\ UNCHANGED <<sending, debug_frame, verbose, exited, sent, printed, lost>>

\* The first read after select fails or finds the end of the file.
ReadFails ==
  /\ ~exited /\ exited' = TRUE
  /\ UNCHANGED <<sending, debug_frame, wire, inbuf, verbose, sent, printed, lost, handled>>

Next ==
  \/ \E f \in Frames : SlipSendPacket(f)
  \/ \E c \in Chars : Putchar(c)
  \/ Writeb \/ Lose \/ ReadByte \/ ReadEscape \/ ReadFails

Spec == Init /\ [][Next]_vars

\* The radio writes what it started, and select reports bytes that arrived.
Fairness == WF_vars(Writeb) /\ WF_vars(ReadByte \/ ReadEscape)

FairSpec == Spec /\ Fairness

------------------------------------------------------------------------------
(* Properties                                                                *)

Record == [to : {"cmd", "ignored", "debug", "text", "packet"},
           data : Seq(Byte), frame : 0..MaxSent, part : Part]

\* inbufptr stays within inbuf, among the types: the room is tested after the
\* byte is stored, so that the store itself never finds a full buffer.
TypeOK ==
  /\ sending \in Seq(Item) /\ wire \in Seq(Item)
  /\ inbuf \in Seq(Byte) /\ Len(inbuf) < InBufSize
  /\ debug_frame \in BOOLEAN /\ exited \in BOOLEAN
  /\ verbose \in Verbosities
  /\ sent \in Seq(Frames) /\ Len(sent) <= MaxSent
  /\ printed \in 0..MaxDebug
  /\ lost \subseteq (0..MaxSent) \X Part
  /\ handled \in Seq(Record)

Fits(f) == Len(f.data) < InBufSize

\* Some prefix of the packet is taken for a line and echoed.
Echoed(f) == \E k \in DOMAIN f.data : Echoes(SubSeq(f.data, 1, k))

\* Everything of packet n has been written, and all that arrived was read.
Over(n) == /\ n \in DOMAIN sent
           /\ \A i \in DOMAIN sending : sending[i].frame # n
           /\ \A i \in DOMAIN wire : wire[i].frame # n

\* The frames closed by packet n's own last END.
ClosedBy(n) == {i \in DOMAIN handled : handled[i].frame = n /\ handled[i].part = "close"}

Handled(n) ==
  \E i \in ClosedBy(n) : /\ ClosedBy(n) = {i}
                         /\ handled[i].data = sent[n].data
                         /\ handled[i].to = sent[n].to

\* Nothing of packet n is lost, nor the END right before it, if there is one.
Intact(n) == /\ {n} \X Part \cap lost = {}
             /\ <<n - 1, "close">> \notin lost

(***************************************************************************)
(* The decoder recovers: a packet of which nothing is lost reaches its     *)
(* handler whole and once, whatever bytes were lost, left over from a      *)
(* packet longer than inbuf, or printed before it.  It takes both ENDs     *)
(* between two packets: an ESC whose partner is lost swallows the first.   *)
(***************************************************************************)
IntactHandled ==
  \A n \in DOMAIN sent :
    Over(n) /\ Intact(n) /\ Fits(sent[n]) /\ ~Echoed(sent[n]) => Handled(n)

(***************************************************************************)
(* While nothing is lost, all packets fit and none is echoed, what the     *)
(* commands and the network stack get is what was sent, in that order:     *)
(* debug output between the packets, whole lines or parts, gets to         *)
(* neither.                                                                *)
(***************************************************************************)
ForUs == SelectSeq(handled, LAMBDA r : r.to \in {"cmd", "packet"})

Pipe == INSTANCE PacketPipe WITH
  Packets   <- Frames,
  accepted  <- sent,
  delivered <- [i \in DOMAIN ForUs |-> [to |-> ForUs[i].to, data |-> ForUs[i].data]]

Undisturbed ==
  lost = {} /\ \A i \in DOMAIN sent : Fits(sent[i]) /\ ~Echoed(sent[i])

IsPacketPipe ==
  Pipe!Init /\ [][Undisturbed' => Pipe!Next \/ UNCHANGED Pipe!vars]_vars

(***************************************************************************)
(* slip-dev.c:265 says "Echo lines as they are received for                *)
(* verbose=2,3,5+", and the usage text of slip-config.c that -v2 prints    *)
(* strings after they are received: an echo takes nothing away, so a       *)
(* packet is handled at any verbosity.                                     *)
(***************************************************************************)
EchoTakesNothing ==
  \A n \in DOMAIN sent : Over(n) /\ Intact(n) /\ Fits(sent[n]) => Handled(n)

(***************************************************************************)
(* A packet that is written without loss is handled in the end, unless the *)
(* bridge exits: no byte stays behind in the decoder.                      *)
(***************************************************************************)
EventuallyHandled ==
  \A n \in 1..MaxSent :
    (n \in DOMAIN sent) ~>
       \/ exited
       \/ n \in DOMAIN sent /\ Intact(n) /\ Fits(sent[n]) /\ ~Echoed(sent[n]) => Handled(n)
==============================================================================
