------------------------------- MODULE SlipOut -------------------------------
(***************************************************************************)
(* The bridge's serial output queue (slip-dev.c): packets are escaped into *)
(* slip_buf by write_to_serial, and the select loop drains the first of    *)
(* them with non-blocking writes, one packet at a time, pausing send_delay *)
(* before the next one when more is queued.                                *)
(*                                                                         *)
(* slip_buf is the sequence of its first slip_end bytes, so slip_end is    *)
(* its length.  slip_begin is the number of its bytes already written and  *)
(* slip_packet_end the (1-based) position of the END that closes the first *)
(* packet, or 0: the same numbers as in the C code.                        *)
(***************************************************************************)
EXTENDS SlipBytes, FiniteSets

CONSTANTS
  BufSize,     \* sizeof(slip_buf)
  Payloads,    \* the payloads write_to_slip may be given
  MaxPackets,  \* bound: how many packets are queued in a behaviour
  CopyOrders   \* the orders in which this build's memcpy may copy an overlap

ASSUME SlipOutAssumption ==
  /\ BufSize \in Nat \ {0}
  /\ \A p \in Payloads : p \in Seq(Byte) /\ p # << >>
  /\ MaxPackets \in Nat
  /\ CopyOrders \subseteq {"forward", "backward"}

VARIABLES
  slip_buf,          \* slip_buf[0 .. slip_end)
  slip_begin,        \* bytes of slip_buf already written
  slip_packet_end,   \* end of the first packet, 0 if no packet is complete
  slip_packet_count, \* complete packets in the buffer
  delaying,          \* send_delay_timer runs
  pc,                \* "select": in the event loop; "write": in
                     \* write_to_serial; "exited": err(1, ..) was called
  todo,              \* the payload bytes write_to_serial still has to escape
  stream,            \* history: all bytes put in slip_buf since slip_init
  line,              \* history: all bytes the serial device accepted
  accepted,          \* history: the packets queued, in order
  recent,            \* history: less than send_delay since a packet's end was
                     \* written
  scrambled          \* history: memcpy copied an overlap from the last byte down

queue == <<slip_buf, slip_begin, slip_packet_end, slip_packet_count>>
history == <<stream, line, accepted, recent, scrambled>>
vars  == <<queue, delaying, pc, todo, history>>

slip_end   == Len(slip_buf)
slip_empty == slip_packet_end = 0

\* slip_init queues a lone END and sets a timer that has already expired.
Init ==
  /\ slip_buf = <<END>> /\ slip_begin = 0
  /\ slip_packet_end = 1 /\ slip_packet_count = 1
  /\ delaying = FALSE /\ recent = FALSE
  /\ pc = "select" /\ todo = << >>
  /\ stream = <<END>> /\ line = << >> /\ accepted = << >> /\ scrambled = FALSE

------------------------------------------------------------------------------
(* write_to_serial: the loop runs to its end before the select loop goes on. *)

\* Seeded fault: the overflow test lets one byte too many in.
RoomOffByOne(bytes) == slip_end + Len(bytes) <= BufSize + 1

Room(bytes) == slip_end + Len(bytes) <= BufSize

\* slip_send of each of the bytes.  Only an END completes a packet.
SlipSend(bytes) ==
  /\ slip_buf' = slip_buf \o bytes
  /\ stream' = stream \o bytes
  /\ IF bytes = <<END>>
     THEN /\ slip_packet_count' = slip_packet_count + 1
          /\ slip_packet_end' = IF slip_packet_end = 0 THEN slip_end + 1
                                                       ELSE slip_packet_end
     ELSE UNCHANGED <<slip_packet_count, slip_packet_end>>
  /\ UNCHANGED slip_begin

\* slip-dev.c asks whether the device is open first (slipfd > 0): it is, from
\* slip_init on, for as long as the process runs.
WriteToSlip(payload) ==
  /\ pc = "select" /\ Len(accepted) < MaxPackets
  /\ pc' = "write" /\ todo' = payload
  /\ accepted' = Append(accepted, payload)
  /\ UNCHANGED <<queue, delaying, stream, line, recent, scrambled>>

PutByte ==
  /\ pc = "write" /\ todo # << >> /\ Room(Escape(Head(todo)))
  /\ SlipSend(Escape(Head(todo)))
  /\ todo' = Tail(todo)
  /\ UNCHANGED <<delaying, pc, line, accepted, recent, scrambled>>

EndPacket ==
  /\ pc = "write" /\ todo = << >> /\ Room(<<END>>)
  /\ SlipSend(<<END>>)
  /\ pc' = "select"
  /\ UNCHANGED <<delaying, todo, line, accepted, recent, scrambled>>

\* slip_send overflow: err(1) ends the process, whatever is still queued (the
\* ESC of a pair that half fits is stored first, for nobody to see).
Overflow ==
  /\ pc = "write"
  /\ ~Room(IF todo = << >> THEN <<END>> ELSE Escape(Head(todo)))
  /\ pc' = "exited"
  /\ UNCHANGED <<queue, delaying, todo, history>>

------------------------------------------------------------------------------
(* The select loop: set_fd asks for writability unless the timer runs, and   *)
(* handle_fd then calls slip_flushbuf.                                       *)

MayFlush == pc = "select" /\ ~slip_empty /\ ~delaying

\* write() accepts n bytes, fewer than the rest of the packet (none: EAGAIN).
ShortWrite(n) ==
  /\ MayFlush
  /\ slip_begin + n < slip_packet_end
  /\ slip_begin' = slip_begin + n
  /\ line' = line \o SubSeq(slip_buf, slip_begin + 1, slip_begin + n)
  /\ UNCHANGED <<slip_buf, slip_packet_end, slip_packet_count, delaying, pc,
                 todo, stream, accepted, recent, scrambled>>

(***************************************************************************)
(* memcpy(slip_buf, slip_buf + k, slip_end - k).  The areas overlap when   *)
(* the rest is longer than the packet before it, which memcpy does not     *)
(* allow: a copy that runs from the first byte up still moves the rest,    *)
(* one that runs from the last byte down reads bytes it has overwritten,   *)
(* so that each byte gets the last one, k apart, that was in the buffer.   *)
(***************************************************************************)
MovedUp(k) == SubSeq(slip_buf, k + 1, slip_end)
MovedDown(k) ==
  [i \in 1..(slip_end - k) |-> slip_buf[i + k * ((slip_end - i) \div k)]]

Overlap(k) == slip_end - k > k

MoveRest(k) ==
  \/ /\ Overlap(k) => "forward" \in CopyOrders
     /\ slip_buf' = MovedUp(k)
     /\ UNCHANGED scrambled
  \/ /\ Overlap(k) /\ "backward" \in CopyOrders
     /\ slip_buf' = MovedDown(k)
     /\ scrambled' = TRUE

\* Seeded faults: the search stops one byte early; it forgets to step past the END.
NextPacketEndStopsEarly(buf) ==
  {n \in 2..(Len(buf) - 1) : buf[n] = END /\ \A m \in 2..(n-1) : buf[m] # END}
    \cup {n \in {0} : \A m \in 2..(Len(buf) - 1) : buf[m] # END}
NextPacketEndAtEnd(buf) ==
  {n \in 1..(Len(buf) - 1) : buf[n+1] = END /\ \A m \in 2..n : buf[m] # END}
    \cup {n \in {0} : \A m \in 2..Len(buf) : buf[m] # END}

\* The search for the next END starts at index 1: the one element of this set.
NextPacketEnd(buf) ==
  {n \in 2..Len(buf) : buf[n] = END /\ \A m \in 2..(n-1) : buf[m] # END}
    \cup {n \in {0} : \A m \in 2..Len(buf) : buf[m] # END}

\* Seeded fault: slip_begin is not reset with the buffer.
PacketWrittenKeepsBegin ==
  /\ MayFlush
  /\ line' = line \o SubSeq(slip_buf, slip_begin + 1, slip_packet_end)
  /\ slip_packet_count' = slip_packet_count - 1
  /\ MoveRest(slip_packet_end)
  /\ slip_packet_end' \in NextPacketEnd(slip_buf')
  /\ delaying' = (slip_buf' # << >>)
  /\ recent' = TRUE
  /\ UNCHANGED <<slip_begin, pc, todo, stream, accepted>>

\* write() accepts the rest of the packet: what follows moves to the front.
PacketWritten ==
  /\ MayFlush
  /\ line' = line \o SubSeq(slip_buf, slip_begin + 1, slip_packet_end)
  /\ slip_begin' = 0
  /\ slip_packet_count' = slip_packet_count - 1
  /\ MoveRest(slip_packet_end)
  /\ slip_packet_end' \in NextPacketEnd(slip_buf')
  /\ delaying' = (slip_buf' # << >>)
  /\ recent' = TRUE
  /\ UNCHANGED <<pc, todo, stream, accepted>>

\* write() fails with an error other than EAGAIN.
WriteFails ==
  /\ MayFlush
  /\ pc' = "exited"
  /\ UNCHANGED <<queue, delaying, todo, history>>

\* send_delay passes after the end of a packet; the select loop polls the timer.
DelayElapses ==
  /\ pc = "select" /\ recent
  /\ recent' = FALSE /\ delaying' = FALSE
  /\ UNCHANGED <<queue, pc, todo, stream, line, accepted, scrambled>>

Next ==
  \/ \E p \in Payloads : WriteToSlip(p)
  \/ PutByte \/ EndPacket \/ Overflow
  \/ \E n \in 0..BufSize : ShortWrite(n)
  \/ PacketWritten \/ WriteFails \/ DelayElapses

Spec == Init /\ [][Next]_vars

\* The loop of write_to_serial runs, the serial line keeps taking bytes, and the
\* event loop polls the timer.
Write == (\E n \in 1..BufSize : ShortWrite(n)) \/ PacketWritten

Fairness == /\ WF_vars(PutByte \/ EndPacket \/ Overflow)
            /\ WF_vars(Write)
            /\ WF_vars(DelayElapses)

FairSpec == Spec /\ Fairness

------------------------------------------------------------------------------
(* Properties                                                                *)

TypeOK ==
  /\ slip_buf \in Seq(Byte) /\ slip_end <= BufSize
  /\ slip_packet_end \in 0..slip_end
  /\ slip_begin \in 0..slip_packet_end
  /\ slip_packet_count \in Int
  /\ delaying \in BOOLEAN /\ recent \in BOOLEAN /\ scrambled \in BOOLEAN
  /\ pc \in {"select", "write", "exited"}
  /\ todo \in Seq(Byte)
  /\ stream \in Seq(Byte) /\ line \in Seq(Byte)
  /\ accepted \in Seq(Payloads)

Ends(buf) == {n \in 1..Len(buf) : buf[n] = END}

(***************************************************************************)
(* slip_packet_end is kept up to date by three separate pieces of code     *)
(* (slip_send, the search of slip_flushbuf and slip_init): it is always    *)
(* the end of the first packet in the buffer, slip_packet_count is the     *)
(* number of packets, and nothing waits in the buffer of an idle bridge    *)
(* without slip_empty() being false, so that no packet is stranded.        *)
(***************************************************************************)
BufferOK ==
  ~scrambled =>
    /\ slip_empty => Ends(slip_buf) = {}
    /\ ~slip_empty => /\ slip_packet_end \in Ends(slip_buf)
                      /\ \A n \in Ends(slip_buf) : slip_packet_end <= n
    /\ slip_packet_count = Cardinality(Ends(slip_buf))
    /\ pc = "select" /\ slip_empty => slip_buf = << >>

(***************************************************************************)
(* Short writes, EAGAIN, packets appended while another is half written    *)
(* and the move of the rest to the front lose, repeat and reorder nothing: *)
(* the line has got exactly the bytes queued before those still unwritten. *)
(***************************************************************************)
InOrder ==
  ~scrambled => line \o SubSeq(slip_buf, slip_begin + 1, slip_end) = stream

(***************************************************************************)
(* What the queue promises: packets come out at the radio whole, once and  *)
(* in the order in which write_to_slip was given them.                     *)
(***************************************************************************)
Pipe == INSTANCE PacketPipe WITH Packets <- Payloads, delivered <- FramesOf(line)

IsPacketPipe ==
  Pipe!Init /\ [][~scrambled' => Pipe!Next \/ UNCHANGED Pipe!vars]_vars

(***************************************************************************)
(* Every byte queued is written in the end, unless the process exits: the  *)
(* pause between packets and the search for the next END never leave a     *)
(* packet behind.                                                          *)
(***************************************************************************)
EverySent ==
  \A k \in 1..(MaxPackets * BufSize) :
    (Len(stream) >= k) ~> (Len(line) >= k \/ pc = "exited" \/ scrambled)

(***************************************************************************)
(* slip-dev.c:346 says "a delay between slip packets to avoid losing       *)
(* data": no packet starts within send_delay of the end of the one before. *)
(***************************************************************************)
DelayBetweenPackets ==
  [][line' # line /\ slip_begin = 0 /\ FramesOf(line) # << >> => ~recent]_vars
==============================================================================
