---------------------------- MODULE SlipOutProofs ----------------------------
(***************************************************************************)
(* Proofs about the output queue, for every buffer size, every set of      *)
(* payloads, every number of packets and either order of memcpy.           *)
(***************************************************************************)
EXTENDS SlipOut, TLAPS, SequenceTheorems, FiniteSetTheorems

------------------------------------------------------------------------------
(* The escapes of one byte.                                                  *)

\* Escaping one byte (write_to_serial) gives bytes and never a delimiter.
LEMMA EscapeOK ==
  ASSUME NEW b \in Byte
  PROVE  /\ Escape(b) \in Seq(Byte)
         /\ \A i \in 1..Len(Escape(b)) : Escape(b)[i] # END
<1>1. CASE b = END
  BY <1>1 DEF Escape, Byte, Special, END, ESC, ESC_END, ESC_ESC
<1>2. CASE b = ESC
  BY <1>2 DEF Escape, Byte, Special, END, ESC, ESC_END, ESC_ESC
<1>3. CASE b # END /\ b # ESC
  BY <1>3 DEF Escape
<1>. QED  BY <1>1, <1>2, <1>3

\* The bytes from position m on of a sequence that bytes are added to.
LEMMA SuffixOfConcat ==
  ASSUME NEW s \in Seq(Byte), NEW t \in Seq(Byte), NEW m \in 1..(Len(s) + 1)
  PROVE  SubSeq(s \o t, m, Len(s \o t)) = SubSeq(s, m, Len(s)) \o t
<1>. DEFINE st  == s \o t
            lhs == SubSeq(st, m, Len(st))
            u   == SubSeq(s, m, Len(s))
            rhs == u \o t
<1>1. /\ st \in Seq(Byte)
      /\ Len(st) = Len(s) + Len(t)
      /\ \A i \in 1..(Len(s) + Len(t)) :
           st[i] = IF i <= Len(s) THEN s[i] ELSE t[i - Len(s)]
  BY ConcatProperties
<1>. HIDE DEF st
<1>2. /\ lhs \in Seq(Byte)
      /\ Len(lhs) = Len(s) + Len(t) - m + 1
      /\ \A i \in 1..Len(lhs) : lhs[i] = st[m + i - 1]
  <2>1. m \in 1..(Len(st) + 1)
    BY <1>1
  <2>2. /\ lhs \in Seq(Byte)
        /\ Len(lhs) = Len(st) - m + 1
        /\ \A i \in 1..(Len(st) - m + 1) : lhs[i] = st[m + i - 1]
    BY <1>1, <2>1
  <2>. HIDE DEF lhs
  <2>. QED  BY <1>1, <2>2
<1>3. /\ u \in Seq(Byte)
      /\ Len(u) = Len(s) - m + 1
      /\ \A i \in 1..(Len(s) - m + 1) : u[i] = s[m + i - 1]
  OBVIOUS
<1>. HIDE DEF u
<1>4. /\ rhs \in Seq(Byte)
      /\ Len(rhs) = Len(u) + Len(t)
      /\ \A i \in 1..(Len(u) + Len(t)) :
           rhs[i] = IF i <= Len(u) THEN u[i] ELSE t[i - Len(u)]
  BY <1>3, ConcatProperties
<1>. HIDE DEF lhs, rhs
<1>5. /\ rhs \in Seq(Byte)
      /\ Len(rhs) = Len(s) - m + 1 + Len(t)
      /\ \A i \in 1..Len(rhs) :
           rhs[i] = IF i <= Len(s) - m + 1 THEN s[m + i - 1] ELSE t[i - (Len(s) - m + 1)]
  BY <1>3, <1>4
<1>6. Len(lhs) = Len(rhs) /\ Len(lhs) \in Nat
  BY <1>2, <1>5
<1>7. ASSUME NEW i \in 1..Len(lhs) PROVE lhs[i] = rhs[i]
  <2>1. m + i - 1 \in 1..(Len(s) + Len(t)) /\ i \in 1..Len(rhs)
    BY <1>2, <1>6
  <2>2. lhs[i] = IF m + i - 1 <= Len(s) THEN s[m + i - 1] ELSE t[m + i - 1 - Len(s)]
    <3>. DEFINE j == m + i - 1
    <3>1. lhs[i] = st[j]
      BY <1>2
    <3>2. j \in 1..(Len(s) + Len(t))
      BY <2>1
    <3>. HIDE DEF j
    <3>3. st[j] = IF j <= Len(s) THEN s[j] ELSE t[j - Len(s)]
      BY <1>1, <3>2
    <3>4. lhs[i] = IF j <= Len(s) THEN s[j] ELSE t[j - Len(s)]
      BY <3>1, <3>3
    <3>. QED  BY <3>4 DEF j
  <2>3. m + i - 1 <= Len(s) <=> i <= Len(s) - m + 1
    OBVIOUS
  <2>4. m + i - 1 - Len(s) = i - (Len(s) - m + 1)
    OBVIOUS
  <2>. QED  BY <1>5, <2>1, <2>2, <2>3, <2>4
<1>8. lhs = rhs
  BY <1>2, <1>5, <1>6, <1>7, SeqEqual
<1>. QED  BY <1>8 DEF lhs, rhs, u, st

\* A suffix of a sequence in two parts.
LEMMA SplitSuffix ==
  ASSUME NEW s \in Seq(Byte), NEW b \in 0..Len(s), NEW k \in b..Len(s)
  PROVE  SubSeq(s, b + 1, Len(s)) = SubSeq(s, b + 1, k) \o SubSeq(s, k + 1, Len(s))
<1>. DEFINE m == b + 1
<1>1. m \in 1..(Len(s) + 1) /\ k \in (m - 1)..Len(s) /\ Len(s) \in k..Len(s)
  OBVIOUS
<1>. HIDE DEF m
<1>2. SubSeq(s, m, k) \o SubSeq(s, k + 1, Len(s)) = SubSeq(s, m, Len(s))
  BY <1>1, ConcatAdjacentSubSeq
<1>. QED  BY <1>2 DEF m

\* The index MovedDown reads from stays in the buffer.
LEMMA StrideInRange ==
  ASSUME NEW a \in Nat, NEW k \in Nat \ {0}
  PROVE  k * (a \div k) \in 0..a
  OBVIOUS

\* Either order of the copy leaves the bytes of the rest of the buffer, none more.
LEMMA MovedOK ==
  ASSUME slip_buf \in Seq(Byte), NEW k \in 1..slip_end
  PROVE  /\ MovedUp(k) \in Seq(Byte) /\ Len(MovedUp(k)) = slip_end - k
         /\ MovedDown(k) \in Seq(Byte) /\ Len(MovedDown(k)) = slip_end - k
<1>1. MovedUp(k) \in Seq(Byte) /\ Len(MovedUp(k)) = slip_end - k
  BY DEF MovedUp, slip_end
<1>2. ASSUME NEW i \in 1..(slip_end - k)
      PROVE  slip_buf[i + k * ((slip_end - i) \div k)] \in Byte
  <2>1. k * ((slip_end - i) \div k) \in 0..(slip_end - i)
    BY StrideInRange DEF slip_end
  <2>. QED  BY <2>1 DEF slip_end
<1>. QED  BY <1>1, <1>2 DEF MovedDown, slip_end

------------------------------------------------------------------------------
(* Types                                                                     *)

\* slip_send of some bytes that fit (slip-dev.c:289) keeps the queue well formed.
LEMMA SlipSendTypeOK ==
  ASSUME TypeOK, NEW bytes \in Seq(Byte), Room(bytes), SlipSend(bytes)
  PROVE  /\ slip_buf' \in Seq(Byte) /\ slip_end' <= BufSize
         /\ slip_packet_end' \in 0..slip_end'
         /\ slip_begin' \in 0..slip_packet_end'
         /\ slip_packet_count' \in Int
         /\ stream' \in Seq(Byte)
<1>1. slip_buf' \in Seq(Byte) /\ Len(slip_buf') = Len(slip_buf) + Len(bytes)
  BY ConcatProperties DEF TypeOK, SlipSend
<1>2. slip_end' = slip_end + Len(bytes) /\ slip_end \in Nat /\ Len(bytes) \in Nat
  BY <1>1 DEF slip_end, TypeOK
<1>3. CASE bytes = <<END>>
  <2>1. slip_end' = slip_end + 1
    BY <1>2, <1>3
  <2>. QED  BY <1>1, <1>2, <2>1, <1>3 DEF TypeOK, SlipSend, Room
<1>4. CASE bytes # <<END>>
  BY <1>1, <1>2, <1>4 DEF TypeOK, SlipSend, Room
<1>. QED  BY <1>3, <1>4

\* Every variable keeps its type, the indices of slip_buf stay in their order
\* slip_begin <= slip_packet_end <= slip_end, and slip_end within the array
\* (slip-dev.c:283-353), whichever way memcpy copies.
THEOREM TypeCorrect == Spec => []TypeOK
<1>1. Init => TypeOK
  <2>. SUFFICES ASSUME Init  PROVE TypeOK
    OBVIOUS
  <2>1. slip_buf \in Seq(Byte) /\ stream \in Seq(Byte) /\ slip_end = 1
    BY DEF Init, slip_end, Byte, Special
  <2>2. /\ delaying \in BOOLEAN /\ recent \in BOOLEAN /\ scrambled \in BOOLEAN
        /\ pc \in {"select", "write", "exited"}
    BY DEF Init
  <2>3. /\ slip_end <= BufSize /\ slip_packet_count \in Int
        /\ slip_packet_end \in 0..slip_end /\ slip_begin \in 0..slip_packet_end
    BY <2>1, SlipOutAssumption DEF Init
  <2>4. todo \in Seq(Byte) /\ line \in Seq(Byte) /\ accepted \in Seq(Payloads)
    BY DEF Init
  <2>. QED  BY <2>1, <2>2, <2>3, <2>4 DEF TypeOK
<1>2. TypeOK /\ [Next]_vars => TypeOK'
  <2>. SUFFICES ASSUME TypeOK, [Next]_vars  PROVE TypeOK'
    OBVIOUS
  <2>1. ASSUME NEW p \in Payloads, WriteToSlip(p)  PROVE TypeOK'
    <3>1. p \in Seq(Byte) /\ accepted' \in Seq(Payloads)
      BY <2>1, SlipOutAssumption DEF WriteToSlip, TypeOK
    <3>. QED  BY <2>1, <3>1 DEF WriteToSlip, TypeOK, queue, slip_end
  <2>2. CASE PutByte
    <3>1. Head(todo) \in Byte /\ Tail(todo) \in Seq(Byte)
      BY <2>2, HeadTailProperties DEF PutByte, TypeOK
    <3>2. Escape(Head(todo)) \in Seq(Byte)
      BY <3>1, EscapeOK
    <3>. QED  BY <2>2, <3>1, <3>2, SlipSendTypeOK DEF PutByte, TypeOK
  <2>3. CASE EndPacket
    <3>1. <<END>> \in Seq(Byte)
      BY DEF Byte, Special
    <3>. QED  BY <2>3, <3>1, SlipSendTypeOK DEF EndPacket, TypeOK
  <2>4. CASE Overflow
    BY <2>4 DEF Overflow, TypeOK, queue, history, slip_end
  <2>5. ASSUME NEW n \in 0..BufSize, ShortWrite(n)  PROVE TypeOK'
    <3>1. SubSeq(slip_buf, slip_begin + 1, slip_begin + n) \in Seq(Byte)
      BY <2>5, SlipOutAssumption DEF ShortWrite, TypeOK, slip_end
    <3>2. line' \in Seq(Byte)
      BY <2>5, <3>1, ConcatProperties DEF ShortWrite, TypeOK
    <3>. QED  BY <2>5, <3>2, SlipOutAssumption DEF ShortWrite, TypeOK, slip_end
  <2>6. CASE PacketWritten
    <3>1. slip_packet_end \in 1..slip_end
      BY <2>6 DEF PacketWritten, MayFlush, slip_empty, TypeOK, slip_end
    <3>2. SubSeq(slip_buf, slip_begin + 1, slip_packet_end) \in Seq(Byte)
      BY <3>1 DEF TypeOK, slip_end
    <3>3. line' \in Seq(Byte)
      BY <2>6, <3>2, ConcatProperties DEF PacketWritten, TypeOK
    <3>4. slip_buf' \in Seq(Byte) /\ Len(slip_buf') = slip_end - slip_packet_end
      BY <2>6, <3>1, MovedOK DEF PacketWritten, MoveRest, TypeOK
    <3>5. slip_packet_end' \in 0..slip_end'
      BY <2>6, <3>4 DEF PacketWritten, NextPacketEnd, slip_end
    <3>6. /\ scrambled' \in BOOLEAN /\ delaying' \in BOOLEAN
          /\ recent' \in BOOLEAN
      BY <2>6 DEF PacketWritten, MoveRest, TypeOK
    <3>7. slip_end' <= BufSize
      BY <3>1, <3>4, SlipOutAssumption DEF TypeOK, slip_end
    <3>8. /\ slip_begin' \in 0..slip_packet_end' /\ slip_packet_count' \in Int
          /\ UNCHANGED <<pc, todo, stream, accepted>>
      BY <2>6, <3>5 DEF PacketWritten, TypeOK, slip_end
    <3>. QED  BY <3>3, <3>4, <3>5, <3>6, <3>7, <3>8 DEF TypeOK
  <2>7. CASE WriteFails
    BY <2>7 DEF WriteFails, TypeOK, queue, history, slip_end
  <2>8. CASE DelayElapses
    BY <2>8 DEF DelayElapses, TypeOK, queue, slip_end
  <2>9. CASE UNCHANGED vars
    BY <2>9 DEF vars, TypeOK, queue, history, slip_end
  <2>. QED  BY <2>1, <2>2, <2>3, <2>4, <2>5, <2>6, <2>7, <2>8, <2>9 DEF Next
<1>. QED  BY <1>1, <1>2, PTL DEF Spec

------------------------------------------------------------------------------
(* No byte is lost, repeated or reordered.                                   *)

\* slip_send adds the bytes to the unwritten part of the buffer and to stream.
LEMMA SlipSendInOrder ==
  ASSUME TypeOK, InOrder, NEW bytes \in Seq(Byte), SlipSend(bytes),
         UNCHANGED <<line, scrambled>>
  PROVE  InOrder'
<1>1. /\ slip_buf' = slip_buf \o bytes /\ stream' = stream \o bytes
      /\ slip_begin' = slip_begin
  BY DEF SlipSend
<1>2. slip_begin + 1 \in 1..(Len(slip_buf) + 1)
  BY DEF TypeOK, slip_end
<1>3. SubSeq(slip_buf', slip_begin' + 1, slip_end')
        = SubSeq(slip_buf, slip_begin + 1, slip_end) \o bytes
  BY <1>1, <1>2, SuffixOfConcat DEF TypeOK, slip_end
<1>4. SubSeq(slip_buf, slip_begin + 1, slip_end) \in Seq(Byte)
  <2>1. slip_begin + 1 \in Int /\ slip_end \in Int
    BY DEF TypeOK, slip_end
  <2>2. \A i \in (slip_begin + 1)..slip_end : slip_buf[i] \in Byte
    BY DEF TypeOK, slip_end
  <2>. QED  BY <2>1, <2>2, SubSeqProperties
<1>. DEFINE rest == SubSeq(slip_buf, slip_begin + 1, slip_end)
<1>5. line \in Seq(Byte) /\ rest \in Seq(Byte)
  BY <1>4 DEF TypeOK
<1>. HIDE DEF rest
<1>6. line \o (rest \o bytes) = (line \o rest) \o bytes
  BY <1>5, ConcatAssociative
<1>7. ~scrambled => line \o rest = stream
  BY DEF InOrder, rest
<1>8. ~scrambled' => line' \o (rest \o bytes) = stream'
  BY <1>1, <1>6, <1>7
<1>. QED  BY <1>3, <1>8 DEF InOrder, rest, slip_end

\* slip_flushbuf (slip-dev.c:322-335): the bytes written are the first unwritten.
LEMMA WrittenInOrder ==
  ASSUME TypeOK, NEW k \in slip_begin..slip_end
  PROVE  line \o SubSeq(slip_buf, slip_begin + 1, slip_end)
           = (line \o SubSeq(slip_buf, slip_begin + 1, k)) \o SubSeq(slip_buf, k + 1, slip_end)
<1>. DEFINE all == SubSeq(slip_buf, slip_begin + 1, slip_end)
            now == SubSeq(slip_buf, slip_begin + 1, k)
            left == SubSeq(slip_buf, k + 1, slip_end)
<1>1. line \in Seq(Byte) /\ now \in Seq(Byte) /\ left \in Seq(Byte)
  BY DEF TypeOK, slip_end
<1>2. slip_buf \in Seq(Byte) /\ slip_begin \in 0..Len(slip_buf) /\ k \in slip_begin..Len(slip_buf)
  BY DEF TypeOK, slip_end
<1>3. all = now \o left
  BY <1>2, SplitSuffix DEF slip_end
<1>. HIDE DEF all, now, left
<1>4. line \o (now \o left) = (line \o now) \o left
  BY <1>1, ConcatAssociative
<1>5. line \o all = (line \o now) \o left
  BY <1>3, <1>4
<1>. QED  BY <1>5 DEF all, now, left

\* As long as no overlapping memcpy ran downwards, the line and the unwritten
\* part of slip_buf are together what was queued (slip-dev.c:289-353).
THEOREM BytesInOrder == Spec => []InOrder
<1>1. Init => InOrder
  <2>. SUFFICES ASSUME Init  PROVE InOrder
    OBVIOUS
  <2>1. SubSeq(slip_buf, slip_begin + 1, slip_end) = <<END>>
    <3>1. SubSeq(<<END>>, 1, Len(<<END>>)) = <<END>>
      BY <<END>> \in Seq({END}), SubSeqFull
    <3>. QED  BY <3>1 DEF Init, slip_end
  <2>2. <<END>> \in Seq(Byte)
    BY DEF Byte, Special
  <2>3. line \o <<END>> = <<END>>
    BY <2>2, ConcatEmptySeq DEF Init
  <2>. QED  BY <2>1, <2>3 DEF Init, InOrder
<1>2. TypeOK /\ TypeOK' /\ InOrder /\ [Next]_vars => InOrder'
  <2>. SUFFICES ASSUME TypeOK, TypeOK', InOrder, [Next]_vars  PROVE InOrder'
    OBVIOUS
  <2>1. ASSUME NEW p \in Payloads, WriteToSlip(p)  PROVE InOrder'
    BY <2>1 DEF WriteToSlip, InOrder, queue, slip_end
  <2>2. CASE PutByte
    <3>1. Escape(Head(todo)) \in Seq(Byte)
      BY <2>2, HeadTailProperties, EscapeOK DEF PutByte, TypeOK
    <3>. QED  BY <2>2, <3>1, SlipSendInOrder DEF PutByte
  <2>3. CASE EndPacket
    <3>1. <<END>> \in Seq(Byte)
      BY DEF Byte, Special
    <3>. QED  BY <2>3, <3>1, SlipSendInOrder DEF EndPacket
  <2>4. CASE Overflow
    BY <2>4 DEF Overflow, InOrder, queue, history, slip_end
  <2>5. ASSUME NEW n \in 0..BufSize, ShortWrite(n)  PROVE InOrder'
    <3>1. slip_begin + n \in slip_begin..slip_end
      BY <2>5, SlipOutAssumption DEF ShortWrite, TypeOK, slip_end
    <3>2. /\ line' = line \o SubSeq(slip_buf, slip_begin + 1, slip_begin + n)
          /\ slip_begin' = slip_begin + n
          /\ UNCHANGED <<slip_buf, stream, scrambled>>
      BY <2>5 DEF ShortWrite
    <3>. QED  BY <3>1, <3>2, WrittenInOrder DEF InOrder, slip_end
  <2>6. CASE PacketWritten
    <3>1. slip_packet_end \in slip_begin..slip_end /\ slip_packet_end \in 1..slip_end
      BY <2>6 DEF PacketWritten, MayFlush, slip_empty, TypeOK, slip_end
    <3>. SUFFICES ASSUME ~scrambled'
                  PROVE  line' \o SubSeq(slip_buf', slip_begin' + 1, slip_end') = stream'
      BY DEF InOrder, slip_end
    <3>2. ~scrambled /\ slip_buf' = SubSeq(slip_buf, slip_packet_end + 1, slip_end)
      BY <2>6 DEF PacketWritten, MoveRest, MovedUp
    <3>3. SubSeq(slip_buf', slip_begin' + 1, slip_end') = slip_buf'
      BY <2>6 DEF PacketWritten, TypeOK, slip_end
    <3>4. /\ line' = line \o SubSeq(slip_buf, slip_begin + 1, slip_packet_end)
          /\ stream' = stream
      BY <2>6 DEF PacketWritten
    <3>. QED  BY <3>1, <3>2, <3>3, <3>4, WrittenInOrder DEF InOrder
  <2>7. CASE WriteFails
    BY <2>7 DEF WriteFails, InOrder, queue, history, slip_end
  <2>8. CASE DelayElapses
    BY <2>8 DEF DelayElapses, InOrder, queue, slip_end
  <2>9. CASE UNCHANGED vars
    BY <2>9 DEF vars, InOrder, queue, history, slip_end
  <2>. QED  BY <2>1, <2>2, <2>3, <2>4, <2>5, <2>6, <2>7, <2>8, <2>9 DEF Next
<1>. QED  BY <1>1, <1>2, TypeCorrect, PTL DEF Spec

------------------------------------------------------------------------------
(* No packet is stranded.  BufferOK is not inductive: that the search from   *)
(* index 1 finds the first END needs that a packet never starts with one.    *)

FrameShape ==
  ~scrambled =>
    /\ \A n \in 1..(slip_end - 1) : slip_buf[n] = END => slip_buf[n + 1] # END
    /\ pc = "select" /\ slip_buf # << >> => slip_buf[slip_end] = END
    /\ pc = "write" /\ todo = << >> => slip_buf # << >> /\ slip_buf[slip_end] # END

\* The delimiters of a buffer are finitely many.
LEMMA EndsFinite ==
  ASSUME NEW s \in Seq(Byte)
  PROVE  IsFiniteSet(Ends(s)) /\ Cardinality(Ends(s)) \in Nat
<1>1. Ends(s) \in SUBSET (1..Len(s)) /\ IsFiniteSet(1..Len(s))
  BY FS_Interval DEF Ends
<1>. QED  BY <1>1, FS_Subset, FS_CardinalityType

\* slip_send of bytes other than END adds no delimiter.
LEMMA EndsOfOthers ==
  ASSUME NEW s \in Seq(Byte), NEW t \in Seq(Byte), \A i \in 1..Len(t) : t[i] # END
  PROVE  Ends(s \o t) = Ends(s)
BY ConcatProperties DEF Ends

\* slip_send of an END adds the last position.
LEMMA EndsOfEnd ==
  ASSUME NEW s \in Seq(Byte)
  PROVE  /\ Ends(s \o <<END>>) = Ends(s) \cup {Len(s) + 1}
         /\ Cardinality(Ends(s \o <<END>>)) = Cardinality(Ends(s)) + 1
<1>1. <<END>> \in Seq(Byte)
  BY DEF Byte, Special
<1>2. /\ Len(s \o <<END>>) = Len(s) + 1
      /\ \A i \in 1..(Len(s) + 1) : (s \o <<END>>)[i] = IF i <= Len(s) THEN s[i] ELSE END
  BY <1>1, ConcatProperties
<1>3. Ends(s \o <<END>>) = Ends(s) \cup {Len(s) + 1}
  BY <1>2 DEF Ends
<1>4. Len(s) + 1 \notin Ends(s)
  BY DEF Ends
<1>. QED  BY <1>3, <1>4, EndsFinite, FS_AddElement

\* slip_flushbuf drops the first packet: one delimiter less.
LEMMA EndsOfRest ==
  ASSUME NEW s \in Seq(Byte), NEW k \in Ends(s), \A n \in Ends(s) : k <= n
  PROVE  Cardinality(Ends(SubSeq(s, k + 1, Len(s)))) = Cardinality(Ends(s)) - 1
<1>. DEFINE rest == SubSeq(s, k + 1, Len(s))
            others == Ends(s) \ {k}
            shift == [n \in Ends(rest) |-> n + k]
<1>1. k \in 1..Len(s)
  BY DEF Ends
<1>2. /\ rest \in Seq(Byte) /\ Len(rest) = Len(s) - k
      /\ \A i \in 1..(Len(s) - k) : rest[i] = s[i + k]
  BY <1>1
<1>. HIDE DEF rest
<1>3. IsFiniteSet(Ends(rest)) /\ IsFiniteSet(Ends(s))
  BY <1>2, EndsFinite
<1>4. shift \in [Ends(rest) -> others]
  <2>1. ASSUME NEW n \in Ends(rest)  PROVE n + k \in others
    BY <1>1, <1>2 DEF Ends
  <2>. QED  BY <2>1
<1>5. \A a, b \in Ends(rest) : shift[a] = shift[b] => a = b
  BY DEF Ends
<1>6. ASSUME NEW n \in others  PROVE \E a \in Ends(rest) : shift[a] = n
  <2>1. n \in 1..Len(s) /\ s[n] = END /\ k < n
    BY <1>1 DEF Ends
  <2>2. n - k \in Ends(rest) /\ (n - k) + k = n
    BY <1>1, <1>2, <2>1 DEF Ends
  <2>. QED  BY <2>2
<1>7. shift \in Bijection(Ends(rest), others)
  BY <1>4, <1>5, <1>6 DEF Bijection, Injection, Surjection, IsInjective
<1>8. Cardinality(others) = Cardinality(Ends(rest))
  BY <1>3, <1>7, FS_Bijection DEF ExistsBijection
<1>9. Cardinality(others) = Cardinality(Ends(s)) - 1
  BY <1>3, FS_RemoveElement
<1>. QED  BY <1>8, <1>9 DEF rest

\* After PutByte: the escape of a byte holds no delimiter (slip-dev.c:384-397).
LEMMA PutByteShape ==
  ASSUME TypeOK, FrameShape, BufferOK, PutByte
  PROVE  FrameShape' /\ BufferOK'
<1>. DEFINE e == Escape(Head(todo))
<1>1. e \in Seq(Byte) /\ (\A i \in 1..Len(e) : e[i] # END) /\ e # <<END>> /\ Len(e) > 0
  <2>1. Head(todo) \in Byte
    BY HeadTailProperties DEF PutByte, TypeOK
  <2>2. e \in Seq(Byte) /\ \A i \in 1..Len(e) : e[i] # END
    BY <2>1, EscapeOK
  <2>3. Len(e) > 0
    BY DEF Escape
  <2>. QED  BY <2>2, <2>3
<1>2. /\ slip_buf' = slip_buf \o e /\ pc' = "write" /\ pc = "write"
      /\ UNCHANGED <<slip_packet_end, slip_packet_count, scrambled>>
  BY <1>1 DEF PutByte, SlipSend
<1>. HIDE DEF e
<1>3. /\ slip_buf' \in Seq(Byte) /\ Len(slip_buf') = Len(slip_buf) + Len(e)
      /\ \A i \in 1..(Len(slip_buf) + Len(e)) :
           slip_buf'[i] = IF i <= Len(slip_buf) THEN slip_buf[i] ELSE e[i - Len(slip_buf)]
  BY <1>1, <1>2, ConcatProperties DEF TypeOK
<1>4. Ends(slip_buf') = Ends(slip_buf)
  BY <1>1, <1>2, EndsOfOthers DEF TypeOK
<1>5. BufferOK'
  BY <1>2, <1>4 DEF BufferOK, slip_empty
<1>6. FrameShape'
  BY <1>1, <1>2, <1>3 DEF FrameShape, TypeOK, slip_end
<1>. QED  BY <1>5, <1>6

\* After EndPacket: the first packet's end is set when there was none.
LEMMA EndPacketShape ==
  ASSUME TypeOK, FrameShape, BufferOK, EndPacket
  PROVE  FrameShape' /\ BufferOK'
<1>1. /\ slip_buf' = slip_buf \o <<END>> /\ pc = "write" /\ pc' = "select" /\ todo = << >>
      /\ slip_packet_count' = slip_packet_count + 1
      /\ slip_packet_end' = IF slip_packet_end = 0 THEN Len(slip_buf) + 1 ELSE slip_packet_end
      /\ scrambled' = scrambled
  BY DEF EndPacket, SlipSend, slip_end
<1>2. <<END>> \in Seq(Byte)
  BY DEF Byte, Special
<1>3. /\ slip_buf' \in Seq(Byte) /\ Len(slip_buf') = Len(slip_buf) + 1
      /\ \A i \in 1..(Len(slip_buf) + 1) :
           slip_buf'[i] = IF i <= Len(slip_buf) THEN slip_buf[i] ELSE END
  BY <1>1, <1>2, ConcatProperties DEF TypeOK
<1>4. /\ Ends(slip_buf') = Ends(slip_buf) \cup {Len(slip_buf) + 1}
      /\ Cardinality(Ends(slip_buf')) = Cardinality(Ends(slip_buf)) + 1
  BY <1>1, EndsOfEnd DEF TypeOK
<1>5. BufferOK'
  <2>. SUFFICES ASSUME ~scrambled'
                PROVE  /\ slip_packet_end' # 0
                       /\ slip_packet_end' \in Ends(slip_buf')
                       /\ \A n \in Ends(slip_buf') : slip_packet_end' <= n
                       /\ slip_packet_count' = Cardinality(Ends(slip_buf'))
    BY DEF BufferOK, slip_empty
  <2>1. \A n \in Ends(slip_buf) : n \in 1..Len(slip_buf)
    BY DEF Ends
  <2>2. CASE slip_packet_end = 0
    <3>1. Ends(slip_buf) = {} /\ slip_packet_count = Cardinality(Ends(slip_buf))
      BY <2>2, <1>1 DEF BufferOK, slip_empty
    <3>2. Ends(slip_buf') = {Len(slip_buf) + 1} /\ slip_packet_end' = Len(slip_buf) + 1
      BY <2>2, <3>1, <1>1, <1>4
    <3>3. Len(slip_buf) \in Nat
      BY DEF TypeOK
    <3>4. slip_packet_count' = Cardinality(Ends(slip_buf'))
      BY <3>1, <1>1, <1>4
    <3>5. slip_packet_end' \in Ends(slip_buf') /\ slip_packet_end' # 0
      BY <3>2, <3>3
    <3>. QED  BY <3>2, <3>3, <3>4, <3>5
  <2>3. CASE slip_packet_end # 0
    <3>1. /\ slip_packet_end \in Ends(slip_buf)
          /\ \A n \in Ends(slip_buf) : slip_packet_end <= n
          /\ slip_packet_count = Cardinality(Ends(slip_buf))
      BY <2>3, <1>1 DEF BufferOK, slip_empty
    <3>2. slip_packet_end' = slip_packet_end /\ slip_packet_end' # 0
      BY <2>3, <1>1
    <3>3. slip_packet_end' \in Ends(slip_buf')
      BY <3>1, <3>2, <1>4
    <3>4. slip_packet_end \in 1..Len(slip_buf) /\ Len(slip_buf) \in Nat
      BY <2>1, <3>1 DEF TypeOK
    <3>5. ASSUME NEW n \in Ends(slip_buf')  PROVE slip_packet_end' <= n
      <4>1. n \in Ends(slip_buf) \/ n = Len(slip_buf) + 1
        BY <1>4
      <4>. QED  BY <4>1, <3>1, <3>2, <3>4
    <3>6. slip_packet_count' = Cardinality(Ends(slip_buf'))
      BY <3>1, <1>1, <1>4
    <3>. QED  BY <3>2, <3>3, <3>5, <3>6
  <2>. QED  BY <2>2, <2>3
<1>6. FrameShape'
  BY <1>1, <1>3 DEF FrameShape, TypeOK, slip_end
<1>. QED  BY <1>5, <1>6

\* After PacketWritten: the search of slip-dev.c:340 finds the first delimiter.
LEMMA PacketWrittenShape ==
  ASSUME TypeOK, FrameShape, BufferOK, PacketWritten
  PROVE  FrameShape' /\ BufferOK'
<1>. SUFFICES ASSUME ~scrambled'  PROVE FrameShape' /\ BufferOK'
  BY DEF FrameShape, BufferOK
<1>. DEFINE k == slip_packet_end
<1>1. ~scrambled /\ slip_buf' = SubSeq(slip_buf, k + 1, slip_end)
  BY DEF PacketWritten, MoveRest, MovedUp
<1>2. /\ k \in Ends(slip_buf) /\ \A n \in Ends(slip_buf) : k <= n
      /\ slip_packet_count = Cardinality(Ends(slip_buf))
  BY <1>1 DEF PacketWritten, MayFlush, BufferOK, slip_empty
<1>3. k \in 1..Len(slip_buf) /\ slip_buf[k] = END
  BY <1>2 DEF Ends
<1>4. /\ slip_buf' \in Seq(Byte) /\ Len(slip_buf') = Len(slip_buf) - k
      /\ \A i \in 1..(Len(slip_buf) - k) : slip_buf'[i] = slip_buf[i + k]
  BY <1>1, <1>3 DEF TypeOK, slip_end
<1>5. pc = "select" /\ pc' = "select"
  BY DEF PacketWritten, MayFlush
<1>6. /\ \A n \in 1..(Len(slip_buf) - 1) : slip_buf[n] = END => slip_buf[n + 1] # END
      /\ slip_buf[Len(slip_buf)] = END
      /\ Len(slip_buf) \in Nat
  BY <1>1, <1>3, <1>5 DEF FrameShape, TypeOK, slip_end
<1>7. \A n \in 1..(Len(slip_buf') - 1) : slip_buf'[n] = END => slip_buf'[n + 1] # END
  <2>. SUFFICES ASSUME NEW n \in 1..(Len(slip_buf) - k - 1), slip_buf'[n] = END
                PROVE  slip_buf'[n + 1] # END
    BY <1>4
  <2>1. slip_buf'[n] = slip_buf[n + k] /\ slip_buf'[n + 1] = slip_buf[n + 1 + k]
    BY <1>3, <1>4, <1>6
  <2>2. n + k \in 1..(Len(slip_buf) - 1) /\ (n + k) + 1 = n + 1 + k
    BY <1>3, <1>6
  <2>. QED  BY <1>6, <2>1, <2>2
<1>8. Len(slip_buf') > 0 => slip_buf'[1] # END /\ slip_buf'[Len(slip_buf')] = END
  <2>. SUFFICES ASSUME Len(slip_buf) - k > 0
                PROVE  slip_buf'[1] # END /\ slip_buf'[Len(slip_buf')] = END
    BY <1>4
  <2>1. slip_buf'[1] = slip_buf[k + 1] /\ k \in 1..(Len(slip_buf) - 1)
    BY <1>3, <1>4, <1>6
  <2>2. slip_buf'[Len(slip_buf')] = slip_buf[Len(slip_buf)]
    BY <1>3, <1>4, <1>6
  <2>. QED  BY <1>3, <1>6, <2>1, <2>2
<1>9. FrameShape'
  <2>1. slip_buf' # << >> => Len(slip_buf') > 0
    BY <1>4
  <2>. QED  BY <2>1, <1>5, <1>8, <1>7 DEF FrameShape, slip_end
<1>10. slip_packet_end' \in NextPacketEnd(slip_buf')
  BY DEF PacketWritten
<1>11. slip_packet_count' = Cardinality(Ends(slip_buf'))
  <2>1. slip_packet_count' = slip_packet_count - 1
    BY DEF PacketWritten
  <2>. QED  BY <2>1, <1>1, <1>2, EndsOfRest DEF TypeOK, slip_end
<1>12. slip_packet_end' = 0 => Ends(slip_buf') = {} /\ slip_buf' = << >>
  BY <1>4, <1>8, <1>10 DEF NextPacketEnd, Ends
<1>13. slip_packet_end' # 0 => /\ slip_packet_end' \in Ends(slip_buf')
                              /\ \A n \in Ends(slip_buf') : slip_packet_end' <= n
  BY <1>4, <1>8, <1>10 DEF NextPacketEnd, Ends
<1>14. BufferOK'
  BY <1>11, <1>12, <1>13 DEF BufferOK, slip_empty
<1>. QED  BY <1>9, <1>14

\* slip_packet_end is always the end of the first packet queued, the counter
\* counts the packets, and an idle queue that looks empty is empty.
THEOREM NothingStranded == Spec => []BufferOK
<1>1. Init => FrameShape /\ BufferOK
  <2>. SUFFICES ASSUME Init  PROVE FrameShape /\ BufferOK
    OBVIOUS
  <2>1. slip_buf = <<END>> /\ Len(slip_buf) = 1 /\ slip_buf[1] = END /\ pc = "select"
    BY DEF Init
  <2>2. Ends(slip_buf) = {1} /\ Cardinality(Ends(slip_buf)) = 1
    BY <2>1, FS_Singleton DEF Ends
  <2>. QED  BY <2>1, <2>2 DEF Init, FrameShape, BufferOK, slip_empty, slip_end
<1>2. TypeOK /\ FrameShape /\ BufferOK /\ [Next]_vars => FrameShape' /\ BufferOK'
  <2>. SUFFICES ASSUME TypeOK, FrameShape, BufferOK, [Next]_vars
                PROVE  FrameShape' /\ BufferOK'
    OBVIOUS
  <2>1. ASSUME NEW p \in Payloads, WriteToSlip(p)  PROVE FrameShape' /\ BufferOK'
    BY <2>1, SlipOutAssumption
       DEF WriteToSlip, FrameShape, BufferOK, queue, slip_end, slip_empty
  <2>2. CASE PutByte
    BY <2>2, PutByteShape
  <2>3. CASE EndPacket
    BY <2>3, EndPacketShape
  <2>4. CASE Overflow
    BY <2>4 DEF Overflow, FrameShape, BufferOK, queue, history, slip_end, slip_empty
  <2>5. ASSUME NEW n \in 0..BufSize, ShortWrite(n)  PROVE FrameShape' /\ BufferOK'
    BY <2>5 DEF ShortWrite, FrameShape, BufferOK, slip_end, slip_empty
  <2>6. CASE PacketWritten
    BY <2>6, PacketWrittenShape
  <2>7. CASE WriteFails
    BY <2>7 DEF WriteFails, FrameShape, BufferOK, queue, history, slip_end, slip_empty
  <2>8. CASE DelayElapses
    BY <2>8 DEF DelayElapses, FrameShape, BufferOK, queue, slip_end, slip_empty
  <2>9. CASE UNCHANGED vars
    BY <2>9 DEF vars, FrameShape, BufferOK, queue, history, slip_end, slip_empty
  <2>. QED  BY <2>1, <2>2, <2>3, <2>4, <2>5, <2>6, <2>7, <2>8, <2>9 DEF Next
<1>. QED  BY <1>1, <1>2, TypeCorrect, PTL DEF Spec
==============================================================================
