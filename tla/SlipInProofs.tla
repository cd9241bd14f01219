----------------------------- MODULE SlipInProofs ----------------------------
(***************************************************************************)
(* Proofs about the input decoder, for every size of inbuf, every set of   *)
(* packets and every number of packets, printed characters and losses.     *)
(***************************************************************************)
EXTENDS SlipIn, ListFacts

------------------------------------------------------------------------------
(* Escaping (slip-net.c:56-66)                                               *)

\* One byte's escapes.
LEMMA EscapeType ==
  ASSUME NEW b \in Byte
  PROVE  /\ Escape(b) \in Seq(Byte)
         /\ \/ Len(Escape(b)) = 1 /\ Escape(b)[1] = b /\ b # END /\ b # ESC
            \/ /\ Len(Escape(b)) = 2 /\ Escape(b)[1] = ESC /\ Unescape(Escape(b)[2]) = b
<1>1. b \in Byte /\ ESC \in Byte /\ ESC_END \in Byte /\ ESC_ESC \in Byte
  BY DEF Byte, Special
<1>. QED  BY <1>1 DEF Escape, Unescape, END, ESC, ESC_END, ESC_ESC

\* Where the escapes of each byte of d end in Escaped(d).
Cuts(c, d) ==
  /\ c \in [0..Len(d) -> Nat] /\ c[0] = 0 /\ c[Len(d)] = Len(Escaped(d))
  /\ \A k \in 1..Len(d) :
       /\ c[k] = c[k - 1] + Len(Escape(d[k])) /\ c[k] <= Len(Escaped(d))
       /\ \A j \in 1..Len(Escape(d[k])) : Escaped(d)[c[k - 1] + j] = Escape(d[k])[j]

Cut(d) == CHOOSE c : Cuts(c, d)

LEMMA EscapedCuts ==
  ASSUME NEW d \in Seq(Byte), d # << >>
  PROVE  Escaped(d) \in Seq(Byte) /\ Cuts(Cut(d), d)
<1>. DEFINE s == [i \in DOMAIN d |-> Escape(d[i])]
            m == Len(d)
<1>1. m \in Nat /\ m # 0 /\ Len(s) = m /\ DOMAIN d = 1..m
  BY EmptySeq, LenProperties
<1>2. \A i \in 1..m : d[i] \in Byte /\ s[i] = Escape(d[i])
  BY <1>1
<1>3. \A i \in 1..m : s[i] \in Seq(Byte)
  BY <1>2, EscapeType
<1>15. s \in Seq(Seq(Byte))
  <2>1. s = [i \in 1..m |-> Escape(d[i])] /\ \A i \in 1..m : Escape(d[i]) \in Seq(Byte)
    BY <1>1, <1>2, EscapeType
  <2>. QED  BY <1>1, <2>1
<1>4. Escaped(d) = FlattenSeq(s)
  BY DEF Escaped
<1>. HIDE DEF s
<1>5. PICK f : Flattens(f, s, m) /\ FlattenSeq(s) = f[m]
  BY <1>1, FlattenedSeq
<1>6. \A j \in 1..m :
        /\ f[j] \in Seq(Byte)
        /\ \A k \in 1..j : /\ f[k] \in Seq(Byte) /\ Len(f[k]) <= Len(f[j])
                           /\ \A i \in 1..Len(f[k]) : f[j][i] = f[k][i]
  BY <1>1, <1>5, <1>15, FlattenedGrows
<1>7. \A i \in 1..m : f[i] = IF i = 1 THEN s[i] ELSE f[i - 1] \o s[i]
  BY <1>5 DEF Flattens
<1>. DEFINE e == Escaped(d)
            c == [k \in 0..m |-> IF k = 0 THEN 0 ELSE Len(f[k])]
<1>8. m \in 1..m /\ e = f[m]
  BY <1>1, <1>4, <1>5
<1>9. e \in Seq(Byte) /\ \A k \in 1..m : /\ f[k] \in Seq(Byte) /\ Len(f[k]) <= Len(e)
                                         /\ \A i \in 1..Len(f[k]) : e[i] = f[k][i]
  BY <1>6, <1>8
<1>10. \A k \in 1..m : Len(f[k]) \in Nat
  BY <1>9, LenProperties
<1>11. c \in [0..m -> Nat] /\ c[0] = 0 /\ c[m] = Len(e) /\ \A k \in 1..m : c[k] = Len(f[k])
  BY <1>1, <1>8, <1>10
<1>. HIDE DEF e, c
<1>12. ASSUME NEW k \in 1..m
       PROVE  /\ c[k] = c[k - 1] + Len(Escape(d[k])) /\ c[k] <= Len(e)
              /\ \A j \in 1..Len(Escape(d[k])) : e[c[k - 1] + j] = Escape(d[k])[j]
  <2>. DEFINE x == Escape(d[k])  new == f[k]
  <2>1. x = s[k] /\ x \in Seq(Byte) /\ Len(x) \in Nat
    BY <1>2, <1>3, LenProperties
  <2>2. new \in Seq(Byte) /\ c[k] = Len(new) /\ Len(new) <= Len(e) /\ \A i \in 1..Len(new) : e[i] = new[i]
    BY <1>9, <1>11
  <2>3. CASE k = 1
    <3>1. new = x /\ c[k - 1] = 0
      BY <1>7, <1>11, <2>1, <2>3
    <3>. HIDE DEF x, new
    <3>2. \A j \in 1..Len(x) : 0 + j = j
      BY <2>1
    <3>3. Len(x) = 0 + Len(x)
      BY <2>1
    <3>. QED  BY <2>1, <2>2, <3>1, <3>2, <3>3 DEF x
  <2>4. CASE k # 1
    <3>. DEFINE old == f[k - 1]
    <3>1. k - 1 \in 1..m
      BY <1>1, <2>4
    <3>2. new = old \o x /\ old \in Seq(Byte) /\ c[k - 1] = Len(old)
      BY <1>7, <1>9, <1>11, <2>1, <2>4, <3>1
    <3>. HIDE DEF x, new, old
    <3>3. /\ Len(new) = Len(old) + Len(x) /\ Len(old) \in Nat
          /\ \A j \in 1..Len(x) : new[Len(old) + j] = x[j]
      BY <2>1, <3>2
    <3>4. \A j \in 1..Len(x) : Len(old) + j \in 1..Len(new)
      BY <2>1, <3>3
    <3>5. \A j \in 1..Len(x) : e[Len(old) + j] = x[j]
      BY <2>2, <3>3, <3>4
    <3>. QED  BY <2>2, <3>2, <3>3, <3>5 DEF x
  <2>. QED  BY <2>3, <2>4
<1>13. Cuts(c, d)
  BY <1>11, <1>12 DEF Cuts, e
<1>14. Cuts(Cut(d), d)
  BY <1>13 DEF Cut
<1>. QED  BY <1>9, <1>14 DEF e

------------------------------------------------------------------------------
(* The types                                                                 *)

\* Tagging bytes with their packet keeps them a sequence (slip-net.c:50-69).
LEMMA ItemsType ==
  ASSUME NEW bytes \in Seq(Byte), NEW n \in 0..MaxSent, NEW part \in Part
  PROVE  Items(bytes, n, part) \in Seq(Item)
<1>1. /\ DOMAIN bytes = 1..Len(bytes) /\ Len(bytes) \in Nat
      /\ \A i \in 1..Len(bytes) : bytes[i] \in Byte
  OBVIOUS
<1>2. \A i \in 1..Len(bytes) : [byte |-> bytes[i], frame |-> n, part |-> part] \in Item
  BY <1>1 DEF Item
<1>. QED  BY <1>1, <1>2 DEF Items

\* The bytes the source names are bytes.
LEMMA KnownBytes ==
  /\ END \in Byte /\ ESC \in Byte /\ CR \in Byte /\ NL \in Byte
  /\ Chars \subseteq Byte
  /\ \A b \in Byte : Unescape(b) \in Byte
BY SlipInAssumption DEF Byte, Special, Chars, CR, NL, Unescape

\* The handlers of serial_input are the five of Record (slip-dev.c:210-242).
LEMMA HandlerType ==
  ASSUME NEW s
  PROVE  Handler(s) \in {"cmd", "ignored", "debug", "text", "packet"}
BY DEF Handler

\* A store leaves room in inbuf, a frame leaves it empty (slip-dev.c:189-194,
\* 262): inbufptr never reaches the size of the array.
LEMMA StoreType ==
  ASSUME inbuf \in Seq(Byte), Len(inbuf) < InBufSize, NEW c \in Byte, Store(c)
  PROVE  inbuf' \in Seq(Byte) /\ Len(inbuf') < InBufSize /\ handled' = handled
<1>. DEFINE s == Append(inbuf, c)
<1>1. s \in Seq(Byte) /\ Len(s) = Len(inbuf) + 1 /\ Len(inbuf) \in Nat
  BY AppendProperties
<1>2. inbuf' = << >> \/ (inbuf' = s /\ ~(Len(s) >= InBufSize))
  BY DEF Store
<1>3. handled' = handled
  BY DEF Store
<1>. HIDE DEF s
<1>4. << >> \in Seq(Byte) /\ Len(<< >>) < InBufSize
  BY SlipInAssumption
<1>5. CASE inbuf' = << >>
  <2>1. inbuf' \in Seq(Byte) /\ Len(inbuf') < InBufSize
    BY <1>4, <1>5
  <2>. QED  BY <1>3, <2>1
<1>6. CASE inbuf' = s /\ ~(Len(s) >= InBufSize)
  <2>1. Len(s) < InBufSize
    BY <1>1, <1>6, SlipInAssumption
  <2>. QED  BY <1>1, <1>3, <1>6, <2>1
<1>. QED  BY <1>2, <1>5, <1>6

\* Every variable keeps its type and inbuf is never full, whatever the radio
\* sends and the line loses.
THEOREM TypeCorrect == Spec => []TypeOK
<1>1. Init => TypeOK
  <2>. SUFFICES ASSUME Init  PROVE TypeOK
    OBVIOUS
  <2>1. /\ sending \in Seq(Item) /\ wire \in Seq(Item) /\ inbuf \in Seq(Byte)
        /\ sent \in Seq(Frames) /\ handled \in Seq(Record)
    BY DEF Init
  <2>2. Len(inbuf) < InBufSize /\ Len(sent) <= MaxSent /\ printed \in 0..MaxDebug
    BY SlipInAssumption DEF Init
  <2>3. /\ debug_frame \in BOOLEAN /\ exited \in BOOLEAN /\ verbose \in Verbosities
        /\ lost \subseteq (0..MaxSent) \X Part
    BY DEF Init
  <2>. QED  BY <2>1, <2>2, <2>3 DEF TypeOK
<1>2. TypeOK /\ [Next]_vars => TypeOK'
  <2>. SUFFICES ASSUME TypeOK, [Next]_vars  PROVE TypeOK'
    OBVIOUS
  <2>1. ASSUME NEW f \in Frames, SlipSendPacket(f)  PROVE TypeOK'
    <3>. DEFINE n == Len(sent) + 1
                first == Items(<<END>>, n, "open")
                second == Items(Escaped(f.data), n, "body")
                third == Items(<<END>>, n, "close")
    <3>1. n \in 0..MaxSent /\ sent' \in Seq(Frames) /\ Len(sent') = n
      BY <2>1, SlipInAssumption DEF SlipSendPacket, TypeOK
    <3>2. <<END>> \in Seq(Byte) /\ Escaped(f.data) \in Seq(Byte)
      BY KnownBytes, EscapedCuts, SlipInAssumption
    <3>3. first \in Seq(Item) /\ second \in Seq(Item) /\ third \in Seq(Item)
      BY <3>1, <3>2, ItemsType DEF Part
    <3>4. sending' = first \o second \o third
      BY <2>1 DEF SlipSendPacket
    <3>. HIDE DEF first, second, third
    <3>5. sending' \in Seq(Item)
      BY <3>3, <3>4, ConcatProperties
    <3>6. UNCHANGED <<debug_frame, wire, inbuf, verbose, exited, printed, lost, handled>>
      BY <2>1 DEF SlipSendPacket
    <3>. QED  BY <3>1, <3>5, <3>6 DEF TypeOK
  <2>2. ASSUME NEW c \in Chars, Putchar(c)  PROVE TypeOK'
    <3>. DEFINE start == IF debug_frame THEN << >> ELSE <<END, CR>>
                stop == IF c = NL THEN <<END>> ELSE << >>
    <3>1. start \in Seq(Byte) /\ <<c>> \in Seq(Byte) /\ stop \in Seq(Byte)
      BY KnownBytes
    <3>2. start \o <<c>> \o stop \in Seq(Byte)
      BY <3>1, ConcatProperties
    <3>3. sending' = Items(start \o <<c>> \o stop, 0, "debug")
      BY <2>2 DEF Putchar
    <3>. HIDE DEF start, stop
    <3>4. sending' \in Seq(Item)
      <4>. DEFINE bytes == start \o <<c>> \o stop
      <4>1. 0 \in 0..MaxSent /\ "debug" \in Part
        BY SlipInAssumption DEF Part
      <4>2. bytes \in Seq(Byte)
        BY <3>2
      <4>. HIDE DEF bytes
      <4>3. Items(bytes, 0, "debug") \in Seq(Item)
        BY <4>1, <4>2, ItemsType
      <4>. QED  BY <3>3, <4>3 DEF bytes
    <3>5. printed' \in 0..MaxDebug
      BY <2>2, SlipInAssumption DEF Putchar, TypeOK
    <3>6. debug_frame' \in BOOLEAN
      BY <2>2 DEF Putchar
    <3>. QED  BY <2>2, <3>4, <3>5, <3>6 DEF Putchar, TypeOK
  <2>3. CASE Writeb
    <3>1. Head(sending) \in Item /\ Tail(sending) \in Seq(Item)
      BY <2>3, HeadTailProperties DEF Writeb, TypeOK
    <3>2. wire' \in Seq(Item)
      BY <2>3, <3>1, AppendProperties DEF Writeb, TypeOK
    <3>. QED  BY <2>3, <3>1, <3>2 DEF Writeb, TypeOK
  <2>4. CASE Lose
    <3>1. Head(sending) \in Item /\ Tail(sending) \in Seq(Item)
      BY <2>4, HeadTailProperties DEF Lose, TypeOK
    <3>2. lost' \subseteq (0..MaxSent) \X Part
      BY <2>4, <3>1 DEF Lose, TypeOK, Item
    <3>. QED  BY <2>4, <3>1, <3>2 DEF Lose, TypeOK
  <2>5. CASE ReadByte
    <3>1. Head(wire) \in Item /\ Tail(wire) \in Seq(Item)
      BY <2>5, HeadTailProperties DEF ReadByte, TypeOK
    <3>2. Head(wire).byte \in Byte
      BY <3>1 DEF Item
    <3>3. /\ wire' = Tail(wire)
          /\ UNCHANGED <<sending, debug_frame, verbose, exited, sent, printed, lost>>
      BY <2>5 DEF ReadByte
    <3>4. ASSUME EndOfFrame(Head(wire))
          PROVE  inbuf' \in Seq(Byte) /\ Len(inbuf') < InBufSize /\ handled' \in Seq(Record)
      <4>. DEFINE r == [to |-> Handler(inbuf), data |-> inbuf,
                        frame |-> Head(wire).frame, part |-> Head(wire).part]
      <4>1. r \in Record
        BY <3>1, HandlerType DEF Record, Item, TypeOK
      <4>2. handled' = handled \/ handled' = Append(handled, r)
        BY <3>4 DEF EndOfFrame
      <4>. HIDE DEF r
      <4>3. handled' \in Seq(Record)
        <5>1. handled \in Seq(Record)
          BY DEF TypeOK
        <5>2. Append(handled, r) \in Seq(Record)
          BY <4>1, <5>1, AppendProperties
        <5>. QED  BY <4>2, <5>1, <5>2
      <4>4. inbuf' = << >>
        BY <3>4 DEF EndOfFrame
      <4>. QED  BY <4>3, <4>4, SlipInAssumption
    <3>5. ASSUME Store(Head(wire).byte)
          PROVE  inbuf' \in Seq(Byte) /\ Len(inbuf') < InBufSize /\ handled' \in Seq(Record)
      BY <3>2, <3>5, StoreType DEF TypeOK
    <3>6. inbuf' \in Seq(Byte) /\ Len(inbuf') < InBufSize /\ handled' \in Seq(Record)
      BY <2>5, <3>4, <3>5 DEF ReadByte
    <3>. QED  BY <3>1, <3>3, <3>6 DEF TypeOK
  <2>6. CASE ReadEscape
    <3>1. wire # << >> /\ Tail(wire) # << >> /\ wire[2] \in Item
      <4>1. wire \in Seq(Item) /\ Len(wire) >= 2
        BY <2>6 DEF ReadEscape, TypeOK
      <4>2. Len(Tail(wire)) = Len(wire) - 1 /\ 2 \in 1..Len(wire)
        BY <4>1
      <4>. QED  BY <4>1, <4>2, ElementOfSeq
    <3>2. Tail(Tail(wire)) \in Seq(Item)
      BY <3>1, HeadTailProperties DEF TypeOK
    <3>3. Unescape(wire[2].byte) \in Byte
      BY <3>1, KnownBytes DEF Item
    <3>4. inbuf' \in Seq(Byte) /\ Len(inbuf') < InBufSize /\ handled' = handled
      BY <2>6, <3>3, StoreType DEF ReadEscape, TypeOK
    <3>. QED  BY <2>6, <3>2, <3>4 DEF ReadEscape, TypeOK
  <2>7. CASE ReadFails
    BY <2>7 DEF ReadFails, TypeOK
  <2>8. CASE UNCHANGED vars
    BY <2>8 DEF vars, TypeOK
  <2>. QED  BY <2>1, <2>2, <2>3, <2>4, <2>5, <2>6, <2>7, <2>8 DEF Next
<1>. QED  BY <1>1, <1>2, PTL DEF Spec

------------------------------------------------------------------------------
(* The items of a packet, and where they are on the line                     *)

Whole(f, n) == Items(<<END>>, n, "open") \o Items(Escaped(f.data), n, "body")
                 \o Items(<<END>>, n, "close")

LEMMA FrameType ==
  ASSUME NEW f \in Frames
  PROVE  /\ f.data \in Seq(Byte) /\ f.data # << >> /\ Len(f.data) \in Nat \ {0}
         /\ Escaped(f.data) \in Seq(Byte) /\ Len(Escaped(f.data)) \in Nat
         /\ Cuts(Cut(f.data), f.data)
<1>1. f.data \in Seq(Byte) /\ f.data # << >>
  BY SlipInAssumption
<1>2. Len(f.data) \in Nat \ {0}
  BY <1>1, LenProperties, EmptySeq
<1>3. Escaped(f.data) \in Seq(Byte) /\ Cuts(Cut(f.data), f.data)
  BY <1>1, EscapedCuts
<1>. QED  BY <1>1, <1>2, <1>3, LenProperties

LEMMA Joined ==
  ASSUME NEW u \in Seq(Item), NEW v \in Seq(Item)
  PROVE  /\ u \o v \in Seq(Item) /\ Len(u \o v) = Len(u) + Len(v)
         /\ Len(u) \in Nat /\ Len(v) \in Nat
         /\ \A j \in 1..Len(u) : (u \o v)[j] = u[j]
         /\ \A j \in 1..Len(v) : (u \o v)[Len(u) + j] = v[j]
OBVIOUS

LEMMA WholeItems ==
  ASSUME NEW f \in Frames, NEW n \in 0..MaxSent
  PROVE  LET w == Whole(f, n)  e == Escaped(f.data)
         IN  /\ w \in Seq(Item) /\ Len(w) = Len(e) + 2
             /\ w[1] = [byte |-> END, frame |-> n, part |-> "open"]
             /\ \A j \in 1..Len(e) : w[j + 1] = [byte |-> e[j], frame |-> n, part |-> "body"]
             /\ w[Len(e) + 2] = [byte |-> END, frame |-> n, part |-> "close"]
<1>. DEFINE e == Escaped(f.data)
            first == Items(<<END>>, n, "open")
            second == Items(e, n, "body")
            third == Items(<<END>>, n, "close")
<1>1. e \in Seq(Byte) /\ Len(e) \in Nat /\ <<END>> \in Seq(Byte)
  BY FrameType, KnownBytes
<1>2. /\ Whole(f, n) = first \o second \o third
  BY DEF Whole
<1>. HIDE DEF e
<1>3. first \in Seq(Item) /\ second \in Seq(Item) /\ third \in Seq(Item)
  BY <1>1, ItemsType DEF Part
<1>4. /\ Len(first) = 1 /\ first[1] = [byte |-> END, frame |-> n, part |-> "open"]
      /\ Len(third) = 1 /\ third[1] = [byte |-> END, frame |-> n, part |-> "close"]
  BY DEF Items
<1>5. /\ Len(second) = Len(e)
      /\ \A j \in 1..Len(e) : second[j] = [byte |-> e[j], frame |-> n, part |-> "body"]
  BY <1>1 DEF Items
<1>. HIDE DEF first, second, third
<1>. DEFINE u == first \o second
<1>6. /\ u \in Seq(Item) /\ Len(u) = Len(e) + 1 /\ u[1] = first[1]
      /\ \A j \in 1..Len(e) : u[j + 1] = second[j]
  <2>1. /\ u \in Seq(Item) /\ Len(u) = Len(first) + Len(second)
        /\ \A j \in 1..Len(first) : u[j] = first[j]
        /\ \A j \in 1..Len(second) : u[Len(first) + j] = second[j]
    BY <1>3, Joined
  <2>. HIDE DEF u
  <2>2. \A j \in 1..Len(e) : 1 + j = j + 1
    BY <1>1
  <2>. QED  BY <1>1, <1>4, <1>5, <2>1, <2>2
<1>. HIDE DEF u
<1>. DEFINE w == u \o third
<1>7. /\ w \in Seq(Item) /\ Len(w) = Len(e) + 2 /\ w[Len(e) + 2] = third[1]
      /\ \A j \in 1..Len(u) : w[j] = u[j]
  <2>1. /\ w \in Seq(Item) /\ Len(w) = Len(u) + Len(third)
        /\ \A j \in 1..Len(u) : w[j] = u[j]
        /\ \A j \in 1..Len(third) : w[Len(u) + j] = third[j]
    BY <1>3, <1>6, Joined
  <2>. HIDE DEF w
  <2>2. Len(u) + 1 = Len(e) + 2
    BY <1>1, <1>6
  <2>. QED  BY <1>1, <1>4, <1>6, <2>1, <2>2
<1>8. /\ 1 \in 1..Len(u) /\ \A j \in 1..Len(e) : j + 1 \in 1..Len(u)
  BY <1>1, <1>6
<1>9. w = Whole(f, n)
  BY <1>2 DEF u
<1>. HIDE DEF w
<1>10. w[1] = [byte |-> END, frame |-> n, part |-> "open"]
  BY <1>4, <1>6, <1>7, <1>8
<1>11. \A j \in 1..Len(e) : w[j + 1] = [byte |-> e[j], frame |-> n, part |-> "body"]
  BY <1>5, <1>6, <1>7, <1>8
<1>12. w[Len(e) + 2] = [byte |-> END, frame |-> n, part |-> "close"]
  BY <1>4, <1>7
<1>. QED  BY <1>7, <1>9, <1>10, <1>11, <1>12 DEF e

\* Every item of a packet is its own.
LEMMA WholeFrame ==
  ASSUME NEW f \in Frames, NEW n \in 0..MaxSent
  PROVE  \A j \in 1..Len(Whole(f, n)) :
           /\ Whole(f, n)[j].frame = n
           /\ Whole(f, n)[j].byte = ESC => j < Len(Whole(f, n))
<1>. DEFINE w == Whole(f, n)  e == Escaped(f.data)
<1>1. Len(e) \in Nat
  BY FrameType
<1>2. /\ Len(w) = Len(e) + 2
      /\ w[1] = [byte |-> END, frame |-> n, part |-> "open"]
      /\ \A j \in 1..Len(e) : w[j + 1] = [byte |-> e[j], frame |-> n, part |-> "body"]
      /\ w[Len(e) + 2] = [byte |-> END, frame |-> n, part |-> "close"]
  BY WholeItems
<1>. HIDE DEF w, e
<1>3. ASSUME NEW j \in 1..Len(w)  PROVE w[j].frame = n /\ (w[j].byte = ESC => j < Len(w))
  <2>1. CASE j = 1
    BY <1>1, <1>2, <2>1
  <2>2. CASE j = Len(e) + 2
    BY <1>1, <1>2, <2>2 DEF END, ESC
  <2>3. CASE j # 1 /\ j # Len(e) + 2
    <3>1. j - 1 \in 1..Len(e) /\ j - 1 + 1 = j /\ j < Len(w)
      BY <1>1, <1>2, <2>3
    <3>2. w[j - 1 + 1] = [byte |-> e[j - 1], frame |-> n, part |-> "body"]
      BY <1>2, <3>1
    <3>3. w[j].frame = n
      BY <3>1, <3>2
    <3>. QED  BY <3>1, <3>3
  <2>. QED  BY <2>1, <2>2, <2>3
<1>. QED  BY <1>3 DEF w

\* The items of the k-th byte of the packet.
LEMMA WholeByte ==
  ASSUME NEW f \in Frames, NEW n \in 0..MaxSent, NEW k \in Nat, k + 1 \in 1..Len(f.data)
  PROVE  LET w == Whole(f, n)  c == Cut(f.data)  x == Escape(f.data[k + 1])
         IN  /\ c[k] \in Nat /\ c[k + 1] = c[k] + Len(x) /\ 1 + c[k + 1] < Len(w)
             /\ \A j \in 1..Len(x) : w[1 + c[k] + j].byte = x[j]
<1>. DEFINE w == Whole(f, n)  e == Escaped(f.data)  d == f.data
            c == Cut(d)  x == Escape(d[k + 1])
<1>1. d \in Seq(Byte) /\ Len(d) \in Nat /\ Len(e) \in Nat /\ Cuts(c, d)
  BY FrameType
<1>2. /\ Len(w) = Len(e) + 2
      /\ \A j \in 1..Len(e) : w[j + 1] = [byte |-> e[j], frame |-> n, part |-> "body"]
  BY WholeItems
<1>3. k + 1 - 1 = k /\ k \in 0..Len(d) /\ k + 1 \in 0..Len(d) /\ k + 1 \in 1..Len(d)
  BY <1>1
<1>4. d[k + 1] \in Byte
  BY <1>1, <1>3
<1>5. Len(x) \in Nat
  BY <1>4, EscapeType, LenProperties
<1>. HIDE DEF w, e, c, x
<1>6. /\ c \in [0..Len(d) -> Nat]
      /\ c[k + 1] = c[k] + Len(x) /\ c[k + 1] <= Len(e)
      /\ \A j \in 1..Len(x) : e[c[k] + j] = x[j]
  <2>1. \A i \in 1..Len(d) :
          /\ c[i] = c[i - 1] + Len(Escape(d[i])) /\ c[i] <= Len(e)
          /\ \A j \in 1..Len(Escape(d[i])) : e[c[i - 1] + j] = Escape(d[i])[j]
    BY <1>1 DEF Cuts, e
  <2>2. /\ c[k + 1] = c[k + 1 - 1] + Len(Escape(d[k + 1])) /\ c[k + 1] <= Len(e)
        /\ \A j \in 1..Len(Escape(d[k + 1])) : e[c[k + 1 - 1] + j] = Escape(d[k + 1])[j]
    BY <1>3, <2>1
  <2>3. c \in [0..Len(d) -> Nat]
    BY <1>1 DEF Cuts
  <2>. QED  BY <1>3, <2>2, <2>3 DEF x
<1>7. c[k] \in Nat /\ c[k + 1] \in Nat
  BY <1>3, <1>6
<1>8. ASSUME NEW j \in 1..Len(x)  PROVE w[1 + c[k] + j].byte = x[j]
  <2>1. c[k] + j \in 1..Len(e) /\ c[k] + j + 1 = 1 + c[k] + j
    <3>. DEFINE y == c[k]  z == c[k + 1]  v == Len(e)  u == Len(x)
    <3>1. y \in Nat /\ v \in Nat /\ u \in Nat /\ z = y + u /\ z <= v /\ j \in 1..u
      BY <1>1, <1>5, <1>6, <1>7
    <3>. HIDE DEF y, z, v, u
    <3>2. y + j \in 1..v /\ y + j + 1 = 1 + y + j
      BY <3>1
    <3>. QED  BY <3>2 DEF y, v
  <2>2. w[c[k] + j + 1] = [byte |-> e[c[k] + j], frame |-> n, part |-> "body"]
    BY <1>2, <2>1
  <2>3. w[c[k] + j + 1].byte = e[c[k] + j]
    BY <2>2
  <2>. QED  BY <1>6, <2>1, <2>3
<1>9. 1 + c[k + 1] < Len(w)
  BY <1>1, <1>2, <1>6, <1>7
<1>. QED  BY <1>6, <1>7, <1>8, <1>9 DEF w, c, x, d

\* From item s + 1 on, packet n follows a items of the line, which has no other items
\* of it.
Placed(line, f, n, a, s) ==
  LET w == Whole(f, n)
  IN  /\ a + Len(w) - s <= Len(line)
      /\ \A j \in 1..Len(line) : IF j \in a + 1..a + Len(w) - s THEN line[j] = w[j - a + s]
                                                             ELSE line[j].frame # n

\* The first r items of the line are taken away.
LEMMA PlacedRead ==
  ASSUME NEW line \in Seq(Item), NEW more \in Seq(Item), NEW r \in Nat,
         Len(more) = Len(line) - r, \A i \in 1..Len(more) : more[i] = line[i + r],
         NEW f \in Frames, NEW n \in 0..MaxSent, NEW a \in Nat, NEW s \in Nat,
         s <= Len(Whole(f, n)), Placed(line, f, n, a, s)
  PROVE  /\ a >= r => Placed(more, f, n, a - r, s)
         /\ a = 0 /\ s + r <= Len(Whole(f, n)) => Placed(more, f, n, 0, s + r)
<1>. DEFINE w == Whole(f, n)
<1>1. w \in Seq(Item) /\ Len(w) \in Nat
  BY WholeItems, LenProperties
<1>2. Len(line) \in Nat /\ Len(more) \in Nat
  BY LenProperties
<1>. HIDE DEF w
<1>3. /\ a + Len(w) - s <= Len(line)
      /\ \A j \in 1..Len(line) : IF j \in a + 1..a + Len(w) - s THEN line[j] = w[j - a + s]
                                                             ELSE line[j].frame # n
  BY DEF Placed, w
<1>4. ASSUME a >= r  PROVE Placed(more, f, n, a - r, s)
  <2>1. a - r + Len(w) - s <= Len(more)
    BY <1>1, <1>2, <1>3
  <2>2. ASSUME NEW j \in 1..Len(more)
        PROVE  IF j \in a - r + 1..a - r + Len(w) - s THEN more[j] = w[j - (a - r) + s]
                                                     ELSE more[j].frame # n
    <3>1. j + r \in 1..Len(line) /\ more[j] = line[j + r] /\ j + r - a + s = j - (a - r) + s
      BY <1>2
    <3>2. j \in a - r + 1..a - r + Len(w) - s <=> j + r \in a + 1..a + Len(w) - s
      BY <1>1
    <3>. QED  BY <1>3, <3>1, <3>2
  <2>. QED  BY <2>1, <2>2 DEF Placed, w
<1>5. ASSUME a = 0, s + r <= Len(w)  PROVE Placed(more, f, n, 0, s + r)
  <2>1. 0 + Len(w) - (s + r) <= Len(more)
    BY <1>1, <1>2, <1>3, <1>5
  <2>2. ASSUME NEW j \in 1..Len(more)
        PROVE  IF j \in 0 + 1..0 + Len(w) - (s + r) THEN more[j] = w[j - 0 + (s + r)]
                                                    ELSE more[j].frame # n
    <3>1. j + r \in 1..Len(line) /\ more[j] = line[j + r] /\ j + r - a + s = j - 0 + (s + r)
      BY <1>2, <1>5
    <3>2. j \in 0 + 1..0 + Len(w) - (s + r) <=> j + r \in a + 1..a + Len(w) - s
      BY <1>1, <1>5
    <3>. QED  BY <1>3, <3>1, <3>2
  <2>. QED  BY <2>1, <2>2 DEF Placed, w
<1>. QED  BY <1>4, <1>5 DEF w

\* Items are added after the line, or one is taken from it.
LEMMA PlacedMore ==
  ASSUME NEW line \in Seq(Item), NEW more \in Seq(Item),
         Len(more) >= Len(line), \A i \in 1..Len(line) : more[i] = line[i],
         NEW f \in Frames, NEW n \in 0..MaxSent, NEW a \in Nat, NEW s \in Nat,
         \A i \in Len(line) + 1..Len(more) : more[i].frame # n,
         Placed(line, f, n, a, s)
  PROVE  Placed(more, f, n, a, s)
<1>. DEFINE w == Whole(f, n)
<1>1. w \in Seq(Item) /\ Len(w) \in Nat
  BY WholeItems, LenProperties
<1>2. Len(line) \in Nat /\ Len(more) \in Nat
  BY LenProperties
<1>. HIDE DEF w
<1>3. /\ a + Len(w) - s <= Len(line)
      /\ \A j \in 1..Len(line) : IF j \in a + 1..a + Len(w) - s THEN line[j] = w[j - a + s]
                                                             ELSE line[j].frame # n
  BY DEF Placed, w
<1>4. a + Len(w) - s <= Len(more)
  BY <1>1, <1>2, <1>3
<1>5. ASSUME NEW j \in 1..Len(more)
      PROVE  IF j \in a + 1..a + Len(w) - s THEN more[j] = w[j - a + s]
                                           ELSE more[j].frame # n
  <2>1. CASE j <= Len(line)
    <3>1. j \in 1..Len(line)
      BY <1>2, <2>1
    <3>. QED  BY <1>3, <3>1
  <2>2. CASE ~(j <= Len(line))
    <3>1. j \in Len(line) + 1..Len(more) /\ j \notin a + 1..a + Len(w) - s
      BY <1>1, <1>2, <1>3, <2>2
    <3>. QED  BY <3>1
  <2>. QED  BY <2>1, <2>2
<1>. QED  BY <1>4, <1>5 DEF Placed, w

LEMMA PlacedLost ==
  ASSUME NEW line \in Seq(Item), NEW more \in Seq(Item), NEW x \in 1..Len(line),
         Len(more) = Len(line) - 1,
         \A i \in 1..Len(more) : more[i] = IF i < x THEN line[i] ELSE line[i + 1],
         NEW f \in Frames, NEW n \in 0..MaxSent, NEW a \in Nat, NEW s \in Nat,
         a < x, line[x].frame # n, Placed(line, f, n, a, s)
  PROVE  Placed(more, f, n, a, s)
<1>. DEFINE w == Whole(f, n)
<1>1. w \in Seq(Item) /\ Len(w) \in Nat /\ \A j \in 1..Len(w) : w[j].frame = n
  BY WholeItems, WholeFrame, LenProperties
<1>2. Len(line) \in Nat /\ Len(more) \in Nat
  BY LenProperties
<1>. HIDE DEF w
<1>3. /\ a + Len(w) - s <= Len(line)
      /\ \A j \in 1..Len(line) : IF j \in a + 1..a + Len(w) - s THEN line[j] = w[j - a + s]
                                                             ELSE line[j].frame # n
  BY DEF Placed, w
<1>4. x > a + Len(w) - s
  <2>. SUFFICES ASSUME x <= a + Len(w) - s  PROVE FALSE
    BY <1>1, <1>2
  <2>1. x \in a + 1..a + Len(w) - s /\ x - a + s \in 1..Len(w)
    BY <1>1, <1>2
  <2>. QED  BY <1>1, <1>3, <2>1
<1>5. a + Len(w) - s <= Len(more)
  BY <1>1, <1>2, <1>4
<1>6. ASSUME NEW j \in 1..Len(more)
      PROVE  IF j \in a + 1..a + Len(w) - s THEN more[j] = w[j - a + s]
                                           ELSE more[j].frame # n
  <2>1. j \in 1..Len(line) /\ j + 1 \in 1..Len(line)
    BY <1>2
  <2>2. CASE j < x
    BY <1>3, <2>1, <2>2
  <2>3. CASE ~(j < x)
    <3>1. j \notin a + 1..a + Len(w) - s /\ j + 1 \notin a + 1..a + Len(w) - s
      BY <1>1, <1>2, <1>4, <2>3
    <3>2. more[j] = line[j + 1]
      BY <2>3
    <3>. QED  BY <1>3, <2>1, <3>1, <3>2
  <2>. QED  BY <2>2, <2>3
<1>. QED  BY <1>5, <1>6 DEF Placed, w

------------------------------------------------------------------------------
(* The stages of a packet of which nothing is lost: it is still ahead of the *)
(* bridge, which reads its first END as one; the bridge has read it up to    *)
(* its byte k; all of it is read and handled.                                *)

Line == wire \o sending

Ahead(n) ==
  \E a \in 0..Len(wire) : /\ Placed(Line, sent[n], n, a, 0)
                          /\ a > 0 => Line[a].byte # ESC

BegunAt(n, k) ==
  /\ inbuf = SubSeq(sent[n].data, 1, k)
  /\ Placed(Line, sent[n], n, 0, 1 + Cut(sent[n].data)[k])

Begun(n) == \E k \in 0..Len(sent[n].data) : BegunAt(n, k)

Gone(n) == (\A j \in 1..Len(Line) : Line[j].frame # n) /\ Handled(n)

Counted(n) == Intact(n) /\ Fits(sent[n]) /\ ~Echoed(sent[n])

Stage(n) == \/ (Ahead(n) \/ Begun(n)) /\ ClosedBy(n) = {}
            \/ Gone(n)

Stages == \A n \in 1..Len(sent) : Counted(n) => Stage(n)

Known ==
  /\ \A j \in 1..Len(Line) : Line[j].frame \in 0..Len(sent)
  /\ \A i \in 1..Len(handled) : handled[i].frame \in 0..Len(sent)

\* After an ESC there is the last END of each packet since, unless it is lost.
EscapesEnd ==
  \A j \in 1..Len(Line) : Line[j].byte = ESC =>
    \A q \in Line[j].frame..Len(sent) :
      \/ <<q, "close">> \in lost
      \/ \E i \in j + 1..Len(Line) : Line[i].frame = q /\ Line[i].part = "close"

DecoderInv == Stages /\ Known /\ EscapesEnd

LEMMA TailItems ==
  ASSUME NEW q \in Seq(Item), q # << >>
  PROVE  /\ Tail(q) \in Seq(Item) /\ Len(Tail(q)) = Len(q) - 1 /\ Len(q) \in Nat /\ Len(q) >= 1
         /\ Head(q) = q[1] /\ Head(q) \in Item
         /\ \A i \in 1..Len(Tail(q)) : Tail(q)[i] = q[i + 1]
OBVIOUS

LEMMA LineType ==
  ASSUME TypeOK
  PROVE  /\ Line \in Seq(Item) /\ Len(Line) = Len(wire) + Len(sending)
         /\ Len(wire) \in Nat /\ Len(sending) \in Nat /\ Len(Line) \in Nat
         /\ \A j \in 1..Len(wire) : Line[j] = wire[j]
         /\ \A j \in 1..Len(sending) : Line[Len(wire) + j] = sending[j]
<1>1. wire \in Seq(Item) /\ sending \in Seq(Item)
  BY DEF TypeOK
<1>2. /\ wire \o sending \in Seq(Item) /\ Len(wire \o sending) = Len(wire) + Len(sending)
      /\ Len(wire) \in Nat /\ Len(sending) \in Nat
      /\ \A j \in 1..Len(wire) : (wire \o sending)[j] = wire[j]
      /\ \A j \in 1..Len(sending) : (wire \o sending)[Len(wire) + j] = sending[j]
  BY <1>1, Joined
<1>. QED  BY <1>2 DEF Line

LEMMA LineNext ==
  ASSUME TypeOK'
  PROVE  /\ Line' \in Seq(Item) /\ Len(Line') = Len(wire') + Len(sending')
         /\ Len(wire') \in Nat /\ Len(sending') \in Nat /\ Len(Line') \in Nat
         /\ \A j \in 1..Len(wire') : Line'[j] = wire'[j]
         /\ \A j \in 1..Len(sending') : Line'[Len(wire') + j] = sending'[j]
<1>1. wire' \in Seq(Item) /\ sending' \in Seq(Item)
  BY DEF TypeOK
<1>2. /\ wire' \o sending' \in Seq(Item) /\ Len(wire' \o sending') = Len(wire') + Len(sending')
      /\ Len(wire') \in Nat /\ Len(sending') \in Nat
      /\ \A j \in 1..Len(wire') : (wire' \o sending')[j] = wire'[j]
      /\ \A j \in 1..Len(sending') : (wire' \o sending')[Len(wire') + j] = sending'[j]
  BY <1>1, Joined
<1>. QED  BY <1>2 DEF Line

\* slip_arch_writeb moves an item along the line.
LEMMA WritebLine ==
  ASSUME TypeOK, TypeOK', Writeb
  PROVE  Line' = Line /\ Len(wire') = Len(wire) + 1 /\ Len(wire) \in Nat
<1>1. wire \in Seq(Item) /\ sending \in Seq(Item) /\ sending # << >>
  BY DEF TypeOK, Writeb
<1>2. /\ Tail(sending) \in Seq(Item) /\ Len(Tail(sending)) = Len(sending) - 1
      /\ Len(sending) \in Nat /\ Head(sending) = sending[1] /\ Head(sending) \in Item
      /\ \A i \in 1..Len(Tail(sending)) : Tail(sending)[i] = sending[i + 1]
  BY <1>1, TailItems
<1>. DEFINE x == Head(sending)
<1>3. /\ Append(wire, x) \in Seq(Item) /\ Len(Append(wire, x)) = Len(wire) + 1
      /\ Append(wire, x)[Len(wire) + 1] = x /\ Len(wire) \in Nat
      /\ \A i \in 1..Len(wire) : Append(wire, x)[i] = wire[i]
  BY <1>1, <1>2, AppendProperties
<1>4. wire' = Append(wire, x) /\ sending' = Tail(sending)
  BY DEF Writeb
<1>5. /\ Line \in Seq(Item) /\ Len(Line) = Len(wire) + Len(sending)
      /\ \A j \in 1..Len(wire) : Line[j] = wire[j]
      /\ \A j \in 1..Len(sending) : Line[Len(wire) + j] = sending[j]
  BY LineType
<1>6. /\ Line' \in Seq(Item) /\ Len(Line') = Len(wire') + Len(sending')
      /\ \A j \in 1..Len(wire') : Line'[j] = wire'[j]
      /\ \A j \in 1..Len(sending') : Line'[Len(wire') + j] = sending'[j]
  BY LineNext
<1>. DEFINE more == Line'  s == wire'  r == sending'
<1>7. /\ more \in Seq(Item) /\ Len(more) = Len(s) + Len(r)
      /\ \A j \in 1..Len(s) : more[j] = s[j]
      /\ \A j \in 1..Len(r) : more[Len(s) + j] = r[j]
  BY <1>6
<1>8. /\ Len(s) = Len(wire) + 1 /\ s[Len(wire) + 1] = sending[1]
      /\ \A i \in 1..Len(wire) : s[i] = wire[i]
      /\ Len(r) = Len(sending) - 1 /\ \A i \in 1..Len(r) : r[i] = sending[i + 1]
  BY <1>2, <1>3, <1>4
<1>. HIDE DEF more, s, r, x
<1>9. Len(more) = Len(Line) /\ Len(sending) >= 1
  BY <1>1, <1>2, <1>3, <1>5, <1>7, <1>8, TailItems
<1>10. ASSUME NEW i \in 1..Len(more)  PROVE more[i] = Line[i]
  <2>1. CASE i <= Len(wire)
    <3>1. i \in 1..Len(wire) /\ i \in 1..Len(s)
      BY <1>3, <1>8, <2>1
    <3>. QED  BY <1>5, <1>7, <1>8, <3>1
  <2>2. CASE i = Len(wire) + 1
    <3>1. i \in 1..Len(s) /\ 1 \in 1..Len(sending)
      BY <1>2, <1>3, <1>8, <1>9, <2>2
    <3>. QED  BY <1>5, <1>7, <1>8, <2>2, <3>1
  <2>3. CASE i > Len(wire) + 1
    <3>. DEFINE j == i - Len(wire) - 1
    <3>1. j \in 1..Len(r) /\ j + 1 \in 1..Len(sending)
      BY <1>2, <1>3, <1>7, <1>8, <2>3
    <3>2. i = Len(s) + j /\ i = Len(wire) + (j + 1)
      BY <1>3, <1>8, <2>3
    <3>. HIDE DEF j
    <3>3. more[Len(s) + j] = r[j] /\ r[j] = sending[j + 1]
      BY <1>7, <1>8, <3>1
    <3>4. Line[Len(wire) + (j + 1)] = sending[j + 1]
      BY <1>5, <3>1
    <3>. QED  BY <3>2, <3>3, <3>4
  <2>. QED  BY <1>3, <2>1, <2>2, <2>3
<1>11. more = Line
  BY <1>5, <1>7, <1>9, <1>10, SeqEqual
<1>. QED  BY <1>3, <1>8, <1>11 DEF more, s

\* A byte that gets lost is missing behind those on the wire.
LEMMA LoseLine ==
  ASSUME TypeOK, TypeOK', Lose
  PROVE  LET x == Len(wire) + 1
         IN  /\ x \in 1..Len(Line) /\ Len(Line') = Len(Line) - 1 /\ wire' = wire
             /\ \A i \in 1..Len(Line') : Line'[i] = IF i < x THEN Line[i] ELSE Line[i + 1]
             /\ lost' = lost \cup {<<Line[x].frame, Line[x].part>>}
<1>1. sending \in Seq(Item) /\ sending # << >>
  BY DEF TypeOK, Lose
<1>2. /\ Tail(sending) \in Seq(Item) /\ Len(Tail(sending)) = Len(sending) - 1
      /\ Len(sending) \in Nat /\ Len(sending) >= 1 /\ Head(sending) = sending[1]
      /\ \A i \in 1..Len(Tail(sending)) : Tail(sending)[i] = sending[i + 1]
  BY <1>1, TailItems
<1>3. /\ wire' = wire /\ sending' = Tail(sending)
      /\ lost' = lost \cup {<<Head(sending).frame, Head(sending).part>>}
  BY DEF Lose
<1>4. /\ Line \in Seq(Item) /\ Len(Line) = Len(wire) + Len(sending) /\ Len(wire) \in Nat
      /\ \A j \in 1..Len(wire) : Line[j] = wire[j]
      /\ \A j \in 1..Len(sending) : Line[Len(wire) + j] = sending[j]
  BY LineType
<1>5. /\ Line' \in Seq(Item) /\ Len(Line') = Len(wire') + Len(sending')
      /\ \A j \in 1..Len(wire') : Line'[j] = wire'[j]
      /\ \A j \in 1..Len(sending') : Line'[Len(wire') + j] = sending'[j]
  BY LineNext
<1>. DEFINE more == Line'  r == sending'
<1>6. /\ Len(more) = Len(wire) + Len(r) /\ Len(r) = Len(sending) - 1
      /\ \A j \in 1..Len(wire) : more[j] = wire[j]
      /\ \A j \in 1..Len(r) : more[Len(wire) + j] = r[j] /\ r[j] = sending[j + 1]
  BY <1>2, <1>3, <1>5
<1>. HIDE DEF more, r
<1>7. ASSUME NEW i \in 1..Len(more)
      PROVE  more[i] = IF i < Len(wire) + 1 THEN Line[i] ELSE Line[i + 1]
  <2>1. CASE i < Len(wire) + 1
    <3>1. i \in 1..Len(wire)
      BY <1>4, <2>1
    <3>. QED  BY <1>4, <1>6, <2>1, <3>1
  <2>2. CASE ~(i < Len(wire) + 1)
    <3>. DEFINE j == i - Len(wire)
    <3>1. j \in 1..Len(r) /\ j + 1 \in 1..Len(sending)
      BY <1>2, <1>4, <1>6, <2>2
    <3>2. i = Len(wire) + j /\ i + 1 = Len(wire) + (j + 1)
      BY <1>4
    <3>. HIDE DEF j
    <3>3. more[Len(wire) + j] = sending[j + 1]
      BY <1>6, <3>1
    <3>4. Line[Len(wire) + (j + 1)] = sending[j + 1]
      BY <1>4, <3>1
    <3>. QED  BY <2>2, <3>2, <3>3, <3>4
  <2>. QED  BY <2>1, <2>2
<1>8. 1 \in 1..Len(sending)
  BY <1>2
<1>9. Line[Len(wire) + 1] = Head(sending)
  BY <1>2, <1>4, <1>8
<1>10. Len(wire) + 1 \in 1..Len(Line) /\ Len(more) = Len(Line) - 1
  BY <1>2, <1>4, <1>6
<1>. QED  BY <1>3, <1>7, <1>9, <1>10 DEF more

\* The radio starts a packet or a character: the line was on the wire alone.
LEMMA StartLine ==
  ASSUME TypeOK, TypeOK', sending = << >>, wire' = wire
  PROVE  /\ Len(Line) = Len(wire) /\ Len(Line') = Len(Line) + Len(sending')
         /\ Len(sending') \in Nat
         /\ \A i \in 1..Len(Line) : Line'[i] = Line[i]
         /\ \A i \in 1..Len(sending') : Line'[Len(Line) + i] = sending'[i]
<1>1. /\ Line \in Seq(Item) /\ Len(Line) = Len(wire) + Len(sending) /\ Len(wire) \in Nat
      /\ \A j \in 1..Len(wire) : Line[j] = wire[j]
  BY LineType
<1>2. /\ Line' \in Seq(Item) /\ Len(Line') = Len(wire') + Len(sending')
      /\ Len(sending') \in Nat
      /\ \A j \in 1..Len(wire') : Line'[j] = wire'[j]
      /\ \A j \in 1..Len(sending') : Line'[Len(wire') + j] = sending'[j]
  BY LineNext
<1>3. Len(sending) = 0
  OBVIOUS
<1>4. Len(Line) = Len(wire)
  BY <1>1, <1>3
<1>. QED  BY <1>1, <1>2, <1>4

\* The bridge reads r bytes.
Reads(r) ==
  /\ r <= Len(wire) /\ Len(wire') = Len(wire) - r /\ Len(Line') = Len(Line) - r
  /\ \A i \in 1..Len(Line') : Line'[i] = Line[i + r]

LEMMA ReadByteLine ==
  ASSUME TypeOK, TypeOK', ReadByte
  PROVE  Reads(1) /\ Line[1] = Head(wire) /\ Len(wire) >= 1
<1>1. wire \in Seq(Item) /\ wire # << >> /\ wire' = Tail(wire) /\ sending' = sending
  BY DEF TypeOK, ReadByte
<1>2. /\ Len(Tail(wire)) = Len(wire) - 1 /\ Len(wire) \in Nat /\ Len(wire) >= 1
      /\ Head(wire) = wire[1]
      /\ \A i \in 1..Len(Tail(wire)) : Tail(wire)[i] = wire[i + 1]
  BY <1>1, TailItems
<1>3. /\ Line \in Seq(Item) /\ Len(Line) = Len(wire) + Len(sending) /\ Len(sending) \in Nat
      /\ \A j \in 1..Len(wire) : Line[j] = wire[j]
      /\ \A j \in 1..Len(sending) : Line[Len(wire) + j] = sending[j]
  BY LineType
<1>4. /\ Len(Line') = Len(wire') + Len(sending')
      /\ \A j \in 1..Len(wire') : Line'[j] = wire'[j]
      /\ \A j \in 1..Len(sending') : Line'[Len(wire') + j] = sending'[j]
  BY LineNext
<1>. DEFINE more == Line'  s == wire'
<1>5. /\ Len(s) = Len(wire) - 1 /\ Len(more) = Len(s) + Len(sending)
      /\ \A j \in 1..Len(s) : more[j] = s[j] /\ s[j] = wire[j + 1]
      /\ \A j \in 1..Len(sending) : more[Len(s) + j] = sending[j]
  BY <1>1, <1>2, <1>4
<1>. HIDE DEF more, s
<1>6. ASSUME NEW i \in 1..Len(more)  PROVE more[i] = Line[i + 1]
  <2>1. CASE i <= Len(s)
    <3>1. i \in 1..Len(s) /\ i + 1 \in 1..Len(wire)
      BY <1>2, <1>5, <2>1
    <3>. QED  BY <1>3, <1>5, <3>1
  <2>2. CASE ~(i <= Len(s))
    <3>. DEFINE j == i - Len(s)
    <3>1. j \in 1..Len(sending) /\ i = Len(s) + j /\ i + 1 = Len(wire) + j
      BY <1>2, <1>3, <1>5, <2>2
    <3>. HIDE DEF j
    <3>2. more[Len(s) + j] = sending[j] /\ Line[Len(wire) + j] = sending[j]
      BY <1>3, <1>5, <3>1
    <3>. QED  BY <3>1, <3>2
  <2>. QED  BY <2>1, <2>2
<1>7. Len(more) = Len(Line) - 1
  BY <1>2, <1>3, <1>5
<1>8. 1 \in 1..Len(wire)
  BY <1>2
<1>9. Line[1] = Head(wire)
  BY <1>2, <1>3, <1>8
<1>. QED  BY <1>2, <1>5, <1>6, <1>7, <1>9 DEF Reads, more, s

LEMMA ReadEscapeLine ==
  ASSUME TypeOK, TypeOK', ReadEscape
  PROVE  Reads(2) /\ Line[1] = Head(wire) /\ Line[2] = wire[2] /\ Len(wire) >= 2
<1>1. wire \in Seq(Item) /\ Len(wire) >= 2 /\ wire' = Tail(Tail(wire)) /\ sending' = sending
  BY DEF TypeOK, ReadEscape
<1>2. wire # << >> /\ Len(wire) \in Nat
  BY <1>1
<1>. DEFINE t == Tail(wire)
<1>3. /\ t \in Seq(Item) /\ Len(t) = Len(wire) - 1 /\ Head(wire) = wire[1]
      /\ \A i \in 1..Len(t) : t[i] = wire[i + 1]
  BY <1>1, <1>2, TailItems
<1>. HIDE DEF t
<1>4. t # << >>
  BY <1>1, <1>2, <1>3
<1>5. /\ Len(Tail(t)) = Len(t) - 1 /\ \A i \in 1..Len(Tail(t)) : Tail(t)[i] = t[i + 1]
  BY <1>3, <1>4, TailItems
<1>6. wire' = Tail(t)
  BY <1>1 DEF t
<1>7. /\ Line \in Seq(Item) /\ Len(Line) = Len(wire) + Len(sending) /\ Len(sending) \in Nat
      /\ \A j \in 1..Len(wire) : Line[j] = wire[j]
      /\ \A j \in 1..Len(sending) : Line[Len(wire) + j] = sending[j]
  BY LineType
<1>8. /\ Len(Line') = Len(wire') + Len(sending')
      /\ \A j \in 1..Len(wire') : Line'[j] = wire'[j]
      /\ \A j \in 1..Len(sending') : Line'[Len(wire') + j] = sending'[j]
  BY LineNext
<1>. DEFINE more == Line'  s == wire'
<1>9. /\ Len(s) = Len(wire) - 2 /\ Len(more) = Len(s) + Len(sending)
      /\ \A j \in 1..Len(s) : more[j] = s[j]
      /\ \A j \in 1..Len(sending) : more[Len(s) + j] = sending[j]
  <2>1. Len(s) = Len(wire) - 2
    BY <1>1, <1>2, <1>3, <1>5, <1>6
  <2>2. /\ Len(more) = Len(s) + Len(sending)
        /\ \A j \in 1..Len(s) : more[j] = s[j]
        /\ \A j \in 1..Len(sending) : more[Len(s) + j] = sending[j]
    BY <1>1, <1>8
  <2>. QED  BY <2>1, <2>2
<1>10. ASSUME NEW j \in 1..Len(s)  PROVE s[j] = wire[j + 2]
  <2>1. j \in 1..Len(Tail(t)) /\ j + 1 \in 1..Len(t) /\ j + 1 + 1 = j + 2
    BY <1>2, <1>3, <1>5, <1>9, <1>6
  <2>2. s[j] = t[j + 1]
    BY <1>5, <1>6, <2>1
  <2>. QED  BY <1>3, <2>1, <2>2
<1>. HIDE DEF more, s
<1>11. ASSUME NEW i \in 1..Len(more)  PROVE more[i] = Line[i + 2]
  <2>1. CASE i <= Len(s)
    <3>1. i \in 1..Len(s) /\ i + 2 \in 1..Len(wire)
      BY <1>2, <1>9, <2>1
    <3>. QED  BY <1>7, <1>9, <1>10, <3>1
  <2>2. CASE ~(i <= Len(s))
    <3>. DEFINE j == i - Len(s)
    <3>1. j \in 1..Len(sending) /\ i = Len(s) + j /\ i + 2 = Len(wire) + j
      BY <1>2, <1>7, <1>9, <1>1, <2>2
    <3>. HIDE DEF j
    <3>2. more[Len(s) + j] = sending[j] /\ Line[Len(wire) + j] = sending[j]
      BY <1>7, <1>9, <3>1
    <3>. QED  BY <3>1, <3>2
  <2>. QED  BY <1>1, <1>2, <1>9, <2>1, <2>2
<1>12. Len(more) = Len(Line) - 2
  BY <1>1, <1>2, <1>7, <1>9
<1>13. 1 \in 1..Len(wire) /\ 2 \in 1..Len(wire)
  BY <1>1, <1>2
<1>14. Line[1] = Head(wire) /\ Line[2] = wire[2]
  BY <1>3, <1>7, <1>13
<1>. QED  BY <1>1, <1>9, <1>11, <1>12, <1>14 DEF Reads, more, s

\* Packets are of the set, with numbers up to the bound.
LEMMA SentType ==
  ASSUME TypeOK, NEW n \in 1..Len(sent)
  PROVE  /\ sent[n] \in Frames /\ n \in 0..MaxSent /\ n \in Nat /\ n # 0
         /\ Len(sent) \in Nat /\ Len(sent) <= MaxSent
<1>1. sent \in Seq(Frames) /\ Len(sent) <= MaxSent /\ MaxSent \in Nat
  BY SlipInAssumption DEF TypeOK
<1>2. Len(sent) \in Nat
  BY <1>1, LenProperties
<1>. QED  BY <1>1, <1>2, ElementOfSeq

\* What is counted now was counted before.
LEMMA CountedBefore ==
  ASSUME NEW n, sent'[n] = sent[n], verbose' = verbose, lost \subseteq lost', Counted(n)'
  PROVE  Counted(n)
<1>1. Echoed(sent[n])' <=> Echoed(sent[n])
  BY DEF Echoed, Echoes
<1>2. Intact(n)
  BY DEF Counted, Intact
<1>3. Fits(sent[n])
  BY DEF Counted, Fits
<1>. QED  BY <1>1, <1>2, <1>3 DEF Counted

\* What was handled stays handled, and once.
LEMMA HandledSame ==
  ASSUME NEW n, sent'[n] = sent[n], handled' = handled
  PROVE  ClosedBy(n)' = ClosedBy(n) /\ (Handled(n) => Handled(n)')
<1>1. ClosedBy(n)' = ClosedBy(n)
  BY DEF ClosedBy
<1>. QED  BY <1>1 DEF Handled

LEMMA HandledOther ==
  ASSUME TypeOK, NEW n, sent'[n] = sent[n],
         NEW r \in Record, r.frame # n \/ r.part # "close", handled' = Append(handled, r)
  PROVE  ClosedBy(n)' = ClosedBy(n) /\ (Handled(n) => Handled(n)')
<1>1. handled \in Seq(Record) /\ Len(handled) \in Nat /\ DOMAIN handled = 1..Len(handled)
  BY DEF TypeOK
<1>. DEFINE new == handled'
<1>2. /\ Len(new) = Len(handled) + 1 /\ DOMAIN new = 1..Len(new)
      /\ new[Len(handled) + 1] = r /\ \A i \in 1..Len(handled) : new[i] = handled[i]
  BY <1>1, AppendProperties
<1>. HIDE DEF new
<1>3. ClosedBy(n)' = {i \in DOMAIN new : new[i].frame = n /\ new[i].part = "close"}
  BY DEF ClosedBy, new
<1>4. ClosedBy(n) = {i \in 1..Len(handled) : handled[i].frame = n /\ handled[i].part = "close"}
  BY <1>1 DEF ClosedBy
<1>5. {i \in 1..Len(new) : new[i].frame = n /\ new[i].part = "close"}
        = {i \in 1..Len(handled) : handled[i].frame = n /\ handled[i].part = "close"}
  <2>1. ASSUME NEW i \in 1..Len(new), new[i].frame = n, new[i].part = "close"
        PROVE  i \in 1..Len(handled)
    BY <1>1, <1>2, <2>1
  <2>2. ASSUME NEW i \in 1..Len(handled)  PROVE i \in 1..Len(new) /\ new[i] = handled[i]
    BY <1>1, <1>2
  <2>. QED  BY <2>1, <2>2
<1>6. ClosedBy(n)' = ClosedBy(n)
  BY <1>2, <1>3, <1>4, <1>5
<1>7. ASSUME Handled(n)  PROVE Handled(n)'
  <2>1. PICK i \in ClosedBy(n) : /\ ClosedBy(n) = {i} /\ handled[i].data = sent[n].data
                                 /\ handled[i].to = sent[n].to
    BY <1>7 DEF Handled
  <2>2. i \in 1..Len(handled)
    BY <1>4
  <2>3. new[i] = handled[i]
    BY <1>2, <2>2
  <2>4. i \in ClosedBy(n)' /\ ClosedBy(n)' = {i}
    BY <1>6, <2>1
  <2>5. new[i].data = sent'[n].data /\ new[i].to = sent'[n].to
    BY <2>1, <2>3
  <2>. QED  BY <2>4, <2>5 DEF Handled, new
<1>. QED  BY <1>6, <1>7

\* The END that closes a packet hands it over.
LEMMA HandledNow ==
  ASSUME TypeOK, NEW n, ClosedBy(n) = {},
         NEW r \in Record, r.frame = n, r.part = "close", handled' = Append(handled, r),
         r.data = sent'[n].data, r.to = sent'[n].to
  PROVE  Handled(n)'
<1>1. handled \in Seq(Record) /\ Len(handled) \in Nat /\ DOMAIN handled = 1..Len(handled)
  BY DEF TypeOK
<1>. DEFINE new == handled'  m == Len(handled) + 1
<1>2. /\ Len(new) = m /\ DOMAIN new = 1..m
      /\ new[m] = r /\ \A i \in 1..Len(handled) : new[i] = handled[i]
  BY <1>1, AppendProperties
<1>. HIDE DEF new
<1>3. ClosedBy(n)' = {i \in DOMAIN new : new[i].frame = n /\ new[i].part = "close"}
  BY DEF ClosedBy, new
<1>4. \A i \in 1..Len(handled) : ~(handled[i].frame = n /\ handled[i].part = "close")
  BY <1>1 DEF ClosedBy
<1>5. m \in 1..m /\ \A i \in 1..m : i \in 1..Len(handled) \/ i = m
  BY <1>1
<1>6. ClosedBy(n)' = {m}
  BY <1>2, <1>3, <1>4, <1>5
<1>. QED  BY <1>2, <1>6 DEF Handled, new

\* Reading takes the END of a packet for one, and what is ahead of the packet for
\* something else.
LEMMA AheadRead ==
  ASSUME TypeOK, TypeOK', NEW n \in 1..Len(sent), sent' = sent,
         NEW r \in {1, 2}, Reads(r), r = 2 => Line[1].byte = ESC, Ahead(n)
  PROVE  \/ Ahead(n)' /\ Line[1].frame # n
         \/ /\ r = 1 /\ Placed(Line', sent[n], n, 0, 1)
            /\ Line[1] = [byte |-> END, frame |-> n, part |-> "open"]
<1>1. sent[n] \in Frames /\ n \in 0..MaxSent
  BY SentType
<1>. DEFINE w == Whole(sent[n], n)  e == Escaped(sent[n].data)  line == Line  more == Line'
<1>2. line \in Seq(Item) /\ more \in Seq(Item) /\ Len(wire) \in Nat /\ Len(line) \in Nat
  BY LineType, LineNext
<1>3. /\ w \in Seq(Item) /\ Len(e) \in Nat /\ Len(w) = Len(e) + 2
      /\ w[1] = [byte |-> END, frame |-> n, part |-> "open"]
  BY <1>1, WholeItems, FrameType
<1>4. PICK a \in 0..Len(wire) : Placed(line, sent[n], n, a, 0) /\ (a > 0 => line[a].byte # ESC)
  BY DEF Ahead
<1>5. /\ r <= Len(wire) /\ Len(wire') = Len(wire) - r /\ Len(more) = Len(line) - r
      /\ \A i \in 1..Len(more) : more[i] = line[i + r]
  BY DEF Reads
<1>. HIDE DEF line, more, w, e
<1>6. /\ a + Len(w) - 0 <= Len(line)
      /\ \A j \in 1..Len(line) : IF j \in a + 1..a + Len(w) - 0 THEN line[j] = w[j - a + 0]
                                                             ELSE line[j].frame # n
  BY <1>4 DEF Placed, w
<1>7. a \in Nat /\ r \in Nat /\ 0 \in Nat /\ 0 <= Len(Whole(sent[n], n)) /\ 1 <= Len(w)
  BY <1>2, <1>3 DEF w
<1>8. /\ a >= r => Placed(more, sent[n], n, a - r, 0)
      /\ a = 0 /\ 0 + r <= Len(Whole(sent[n], n)) => Placed(more, sent[n], n, 0, 0 + r)
  BY <1>1, <1>2, <1>4, <1>5, <1>7, PlacedRead
<1>9. 1 \in 1..Len(line)
  BY <1>2, <1>3, <1>6, <1>7
<1>10. CASE a = 0
  <2>1. line[1] = [byte |-> END, frame |-> n, part |-> "open"]
    <3>1. 1 \in a + 1..a + Len(w) - 0 /\ 1 - a + 0 = 1
      BY <1>3, <1>10
    <3>. QED  BY <1>3, <1>6, <1>9, <3>1
  <2>2. line[1].byte # ESC
    BY <2>1 DEF END, ESC
  <2>3. r = 1
    BY <2>2 DEF line
  <2>4. Placed(more, sent[n], n, 0, 1)
    BY <1>7, <1>8, <1>10, <2>3 DEF w
  <2>. QED  BY <2>1, <2>3, <2>4 DEF line, more
<1>11. CASE a # 0
  <2>1. 1 \notin a + 1..a + Len(w) - 0
    BY <1>7, <1>11
  <2>2. line[1].frame # n
    BY <1>6, <1>9, <2>1
  <2>3. a >= r
    <3>1. CASE r = 1
      BY <1>7, <1>11, <3>1
    <3>2. CASE r = 2 /\ a = 1
      BY <1>4, <3>2 DEF line
    <3>. QED  BY <1>7, <1>11, <3>1, <3>2
  <2>4. Placed(more, sent'[n], n, a - r, 0) /\ a - r \in 0..Len(wire')
    BY <1>2, <1>5, <1>7, <1>8, <2>3
  <2>5. ASSUME a - r > 0  PROVE more[a - r].byte # ESC
    <3>. DEFINE l == Len(line)  m == Len(more)  v == Len(w)
    <3>0. l \in Nat /\ m = l - r /\ v \in Nat /\ a + v - 0 <= l
      BY <1>2, <1>3, <1>5, <1>6
    <3>. HIDE DEF l, m, v
    <3>1. a - r \in 1..m /\ a - r + r = a
      BY <1>7, <2>5, <3>0
    <3>2. more[a - r] = line[a]
      BY <1>5, <3>1 DEF m
    <3>. QED  BY <1>4, <1>7, <2>5, <3>2
  <2>. DEFINE b == a - r
  <2>6. /\ b \in 0..Len(wire') /\ Placed(more, sent'[n], n, b, 0)
        /\ b > 0 => more[b].byte # ESC
    BY <2>4, <2>5
  <2>. HIDE DEF b
  <2>7. Ahead(n)'
    BY <2>6 DEF Ahead, more
  <2>. QED  BY <2>2, <2>7 DEF line
<1>. QED  BY <1>10, <1>11

\* A byte of a packet that fits and is not echoed is kept.
LEMMA StoreNext ==
  ASSUME TypeOK, NEW n \in 1..Len(sent), Counted(n),
         NEW k \in Nat, k + 1 \in 1..Len(sent[n].data), inbuf = SubSeq(sent[n].data, 1, k),
         Store(sent[n].data[k + 1])
  PROVE  inbuf' = SubSeq(sent[n].data, 1, k + 1) /\ handled' = handled
<1>. DEFINE d == sent[n].data  s == Append(inbuf, d[k + 1])
<1>1. d \in Seq(Byte) /\ Len(d) \in Nat
  BY SentType, FrameType
<1>2. /\ inbuf' = IF Echoes(s) \/ Len(s) >= InBufSize THEN << >> ELSE s
      /\ handled' = handled
  BY DEF Store
<1>3. Len(d) < InBufSize /\ ~Echoed(sent[n]) /\ InBufSize \in Nat
  BY SlipInAssumption DEF Counted, Fits
<1>4. s = SubSeq(d, 1, k + 1) /\ Len(s) = k + 1
  <2>. DEFINE long == SubSeq(d, 1, k + 1)  short == SubSeq(d, 1, k)
  <2>1. \A i \in 1..k + 1 : d[i] \in Byte
    BY <1>1
  <2>2. \A i \in 1..k : d[i] \in Byte
    BY <2>1
  <2>3. /\ long \in Seq(Byte) /\ Len(long) = k + 1 /\ \A i \in 1..k + 1 : long[i] = d[i]
    <3>1. /\ long \in Seq(Byte) /\ Len(long) = IF 1 <= k + 1 THEN k + 1 - 1 + 1 ELSE 0
          /\ \A i \in 1..k + 1 - 1 + 1 : long[i] = d[1 + i - 1]
      BY <2>1, SubSeqProperties
    <3>. HIDE DEF long
    <3>2. \A i \in 1..k + 1 : 1 + i - 1 = i
      OBVIOUS
    <3>. QED  BY <3>1, <3>2
  <2>4. /\ short \in Seq(Byte) /\ Len(short) = k /\ \A i \in 1..k : short[i] = d[i]
    <3>1. /\ short \in Seq(Byte) /\ Len(short) = IF 1 <= k THEN k - 1 + 1 ELSE 0
          /\ \A i \in 1..k - 1 + 1 : short[i] = d[1 + i - 1]
      BY <2>2, SubSeqProperties
    <3>. HIDE DEF short
    <3>2. \A i \in 1..k : 1 + i - 1 = i
      OBVIOUS
    <3>. QED  BY <3>1, <3>2
  <2>. HIDE DEF long, short, d
  <2>5. d[k + 1] \in Byte
    BY <2>1
  <2>6. s = Append(short, d[k + 1])
    BY DEF short, d
  <2>. HIDE DEF s
  <2>7. /\ s \in Seq(Byte) /\ Len(s) = k + 1 /\ s[k + 1] = d[k + 1]
        /\ \A i \in 1..k : s[i] = short[i]
    BY <2>4, <2>5, <2>6, AppendProperties
  <2>8. \A i \in 1..k + 1 : s[i] = long[i]
    BY <2>3, <2>4, <2>7
  <2>9. s = long
    BY <2>3, <2>7, <2>8, SeqEqual
  <2>. QED  BY <2>7, <2>9 DEF long
<1>5. ~Echoes(s)
  <2>1. \A i \in DOMAIN d : ~Echoes(SubSeq(d, 1, i))
    BY <1>3 DEF Echoed
  <2>2. k + 1 \in DOMAIN d
    BY <1>1
  <2>3. ~Echoes(SubSeq(d, 1, k + 1))
    BY <2>1, <2>2
  <2>. QED  BY <1>4, <2>3
<1>. HIDE DEF s
<1>6. ~(Len(s) >= InBufSize)
  BY <1>1, <1>3, <1>4
<1>. QED  BY <1>2, <1>4, <1>5, <1>6

\* The first items of a line that starts in the middle of a packet.
LEMMA BegunLine ==
  ASSUME TypeOK, NEW n \in 1..Len(sent), NEW k \in 0..Len(sent[n].data), BegunAt(n, k)
  PROVE  LET d == sent[n].data  c == Cut(d)  w == Whole(sent[n], n)  x == Escape(d[k + 1])
         IN  /\ c[k] \in Nat /\ Len(w) \in Nat /\ 1 <= Len(Line)
             /\ k = Len(d) => /\ 1 + c[k] + 1 = Len(w)
                              /\ Line[1] = [byte |-> END, frame |-> n, part |-> "close"]
             /\ k # Len(d) => /\ k + 1 \in 1..Len(d) /\ d[k + 1] \in Byte
                              /\ c[k + 1] = c[k] + Len(x) /\ 1 + c[k + 1] < Len(w)
                              /\ Len(x) <= Len(Line)
                              /\ \A j \in 1..Len(x) : Line[j].byte = x[j]
<1>. DEFINE f == sent[n]  d == f.data  c == Cut(d)  w == Whole(f, n)  e == Escaped(d)
            x == Escape(d[k + 1])
<1>1. f \in Frames /\ n \in 0..MaxSent
  BY SentType
<1>2. d \in Seq(Byte) /\ Len(d) \in Nat /\ Len(e) \in Nat /\ Cuts(c, d)
  BY <1>1, FrameType
<1>3. /\ w \in Seq(Item) /\ Len(w) = Len(e) + 2
      /\ w[Len(e) + 2] = [byte |-> END, frame |-> n, part |-> "close"]
  BY <1>1, WholeItems
<1>4. Placed(Line, f, n, 0, 1 + c[k])
  BY DEF BegunAt
<1>. DEFINE line == Line
<1>5. line \in Seq(Item) /\ Len(line) \in Nat
  BY LineType
<1>6. c[k] \in Nat /\ c[Len(d)] = Len(e)
  BY <1>2 DEF Cuts
<1>7. k # Len(d) =>
        /\ k + 1 \in 1..Len(d) /\ d[k + 1] \in Byte
        /\ c[k + 1] = c[k] + Len(x) /\ 1 + c[k + 1] < Len(w)
        /\ \A j \in 1..Len(x) : w[1 + c[k] + j].byte = x[j]
  <2>. SUFFICES ASSUME k # Len(d)
                PROVE  /\ k + 1 \in 1..Len(d) /\ d[k + 1] \in Byte
                       /\ c[k + 1] = c[k] + Len(x) /\ 1 + c[k + 1] < Len(w)
                       /\ \A j \in 1..Len(x) : w[1 + c[k] + j].byte = x[j]
    OBVIOUS
  <2>1. k \in Nat /\ k + 1 \in 1..Len(d)
    BY <1>2
  <2>2. d[k + 1] \in Byte
    BY <1>2, <2>1
  <2>. QED  BY <1>1, <2>1, <2>2, WholeByte
<1>8. d[k + 1] \in Byte => Len(x) \in {1, 2}
  BY EscapeType
<1>. HIDE DEF line, c, w, e, x
<1>9. /\ 0 + Len(w) - (1 + c[k]) <= Len(line)
      /\ \A j \in 1..Len(line) :
           IF j \in 0 + 1..0 + Len(w) - (1 + c[k]) THEN line[j] = w[j - 0 + (1 + c[k])]
                                                   ELSE line[j].frame # n
  BY <1>4 DEF Placed, w, c, line
<1>10. ASSUME NEW j \in 1..Len(w) - (1 + c[k])
       PROVE  j \in 1..Len(line) /\ line[j] = w[1 + c[k] + j]
  <2>1. /\ j \in 1..Len(line) /\ j \in 0 + 1..0 + Len(w) - (1 + c[k])
        /\ j - 0 + (1 + c[k]) = 1 + c[k] + j
    BY <1>2, <1>3, <1>5, <1>6, <1>9
  <2>. QED  BY <1>9, <2>1
<1>11. CASE k = Len(d)
  <2>1. 1 + c[k] + 1 = Len(w) /\ 1 \in 1..Len(w) - (1 + c[k]) /\ Len(e) + 2 = 1 + c[k] + 1
    <3>1. c[k] = Len(e)
      BY <1>6, <1>11
    <3>. DEFINE y == Len(e)  z == Len(w)  v == c[k]
    <3>2. y \in Nat /\ z = y + 2 /\ v = y
      BY <1>2, <1>3, <3>1
    <3>. HIDE DEF y, z, v
    <3>3. 1 + v + 1 = z /\ 1 \in 1..z - (1 + v) /\ y + 2 = 1 + v + 1
      BY <3>2
    <3>. QED  BY <3>3 DEF y, z, v
  <2>2. 1 \in 1..Len(line) /\ line[1] = w[1 + c[k] + 1]
    BY <1>10, <2>1
  <2>3. line[1] = [byte |-> END, frame |-> n, part |-> "close"]
    BY <1>3, <2>1, <2>2
  <2>4. 1 <= Len(line) /\ Len(w) \in Nat
    BY <1>2, <1>3, <1>5, <2>2
  <2>. QED  BY <1>6, <1>11, <2>1, <2>3, <2>4 DEF line, c, w, d
<1>12. CASE k # Len(d)
  <2>1. /\ k + 1 \in 1..Len(d) /\ d[k + 1] \in Byte
        /\ c[k + 1] = c[k] + Len(x) /\ 1 + c[k + 1] < Len(w)
        /\ \A j \in 1..Len(x) : w[1 + c[k] + j].byte = x[j]
    BY <1>7, <1>12
  <2>2. Len(x) \in {1, 2} /\ Len(w) \in Nat
    BY <1>2, <1>3, <1>8, <2>1
  <2>3. \A j \in 1..Len(x) : j \in 1..Len(w) - (1 + c[k])
    BY <1>6, <2>1, <2>2
  <2>4. \A j \in 1..Len(x) : j \in 1..Len(line) /\ line[j].byte = x[j]
    BY <1>10, <2>1, <2>3
  <2>5. Len(x) \in 1..Len(x) /\ 1 \in 1..Len(x)
    BY <2>2
  <2>6. 1 <= Len(line) /\ Len(x) <= Len(line)
    BY <1>5, <2>4, <2>5
  <2>. QED  BY <1>6, <1>12, <2>1, <2>2, <2>4, <2>6 DEF line, c, w, d, x
<1>. QED  BY <1>11, <1>12

LEMMA BegunReadByte ==
  ASSUME TypeOK, TypeOK', NEW n \in 1..Len(sent), sent[n].to = Handler(sent[n].data),
         Counted(n), Begun(n), ClosedBy(n) = {}, ReadByte
  PROVE  (Begun(n)' /\ ClosedBy(n)' = {}) \/ Gone(n)'
<1>1. /\ sent[n] \in Frames /\ n \in 0..MaxSent
      /\ sent[n].data \in Seq(Byte) /\ sent[n].data # << >> /\ Len(sent[n].data) \in Nat
  BY SentType, FrameType
<1>2. PICK k \in 0..Len(sent[n].data) : BegunAt(n, k)
  BY DEF Begun
<1>. DEFINE d == sent[n].data  c == Cut(d)  w == Whole(sent[n], n)  x == Escape(d[k + 1])
            line == Line  more == Line'
<1>3. /\ c[k] \in Nat /\ Len(w) \in Nat /\ 1 <= Len(line)
      /\ k = Len(d) => /\ 1 + c[k] + 1 = Len(w)
                       /\ line[1] = [byte |-> END, frame |-> n, part |-> "close"]
      /\ k # Len(d) => /\ k + 1 \in 1..Len(d) /\ d[k + 1] \in Byte
                       /\ c[k + 1] = c[k] + Len(x) /\ 1 + c[k + 1] < Len(w)
                       /\ Len(x) <= Len(line)
                       /\ \A j \in 1..Len(x) : line[j].byte = x[j]
  BY <1>2, BegunLine
<1>4. inbuf = SubSeq(d, 1, k) /\ Placed(line, sent[n], n, 0, 1 + c[k])
  BY <1>2 DEF BegunAt
<1>5. line \in Seq(Item) /\ more \in Seq(Item)
  BY LineType, LineNext
<1>6. /\ Len(more) = Len(line) - 1 /\ \A i \in 1..Len(more) : more[i] = line[i + 1]
      /\ line[1] = Head(wire)
  BY ReadByteLine DEF Reads
<1>7. /\ Head(wire).byte # ESC /\ sent' = sent
      /\ \/ Head(wire).byte = END /\ EndOfFrame(Head(wire))
         \/ Head(wire).byte # END /\ Store(Head(wire).byte)
  BY DEF ReadByte
<1>. HIDE DEF line, more, c, w, x
<1>8. 1 + c[k] <= Len(w) => (1 + c[k] + 1 <= Len(w) => Placed(more, sent[n], n, 0, 1 + c[k] + 1))
  <2>. SUFFICES ASSUME 1 + c[k] <= Len(w), 1 + c[k] + 1 <= Len(w)
                PROVE  Placed(more, sent[n], n, 0, 1 + c[k] + 1)
    OBVIOUS
  <2>. DEFINE s == 1 + c[k]
  <2>1. s \in Nat /\ s <= Len(Whole(sent[n], n)) /\ s + 1 <= Len(Whole(sent[n], n))
    BY <1>3 DEF w
  <2>2. Placed(line, sent[n], n, 0, s)
    BY <1>4
  <2>. HIDE DEF s
  <2>3. Placed(more, sent[n], n, 0, s + 1)
    BY <1>1, <1>5, <1>6, <2>1, <2>2, PlacedRead
  <2>. QED  BY <2>3 DEF s
<1>9. CASE k = Len(d)
  <2>1. /\ line[1] = [byte |-> END, frame |-> n, part |-> "close"] /\ 1 + c[k] + 1 = Len(w)
    BY <1>3, <1>9
  <2>2. inbuf = d /\ inbuf # << >>
    BY <1>1, <1>4, <1>9, SubSeqFull
  <2>3. Head(wire).byte = END /\ Head(wire).frame = n /\ Head(wire).part = "close"
    BY <1>6, <2>1
  <2>4. EndOfFrame(Head(wire))
    BY <1>7, <2>3
  <2>. DEFINE r == [to |-> Handler(inbuf), data |-> inbuf,
                    frame |-> Head(wire).frame, part |-> Head(wire).part]
  <2>5. handled' = Append(handled, r)
    BY <2>2, <2>4 DEF EndOfFrame
  <2>6. r.frame = n /\ r.part = "close" /\ r.data = sent'[n].data /\ r.to = sent'[n].to
    BY <1>7, <2>2, <2>3
  <2>7. r \in Record
    <3>1. inbuf \in Seq(Byte)
      BY DEF TypeOK
    <3>2. Handler(inbuf) \in {"cmd", "ignored", "debug", "text", "packet"}
      BY HandlerType
    <3>. QED  BY <1>1, <2>3, <3>1, <3>2 DEF Record, Part
  <2>. HIDE DEF r
  <2>8. Handled(n)'
    BY <2>5, <2>6, <2>7, HandledNow
  <2>9. Placed(more, sent[n], n, 0, Len(w))
    BY <1>3, <1>8, <2>1
  <2>10. \A j \in 1..Len(more) : more[j].frame # n
    <3>1. \A j \in 1..Len(more) :
            IF j \in 0 + 1..0 + Len(w) - Len(w) THEN more[j] = w[j - 0 + Len(w)]
                                                ELSE more[j].frame # n
      BY <2>9 DEF Placed, w
    <3>2. \A j \in 1..Len(more) : j \notin 0 + 1..0 + Len(w) - Len(w)
      BY <1>3
    <3>. QED  BY <3>1, <3>2
  <2>. QED  BY <2>8, <2>10 DEF Gone, more
<1>10. CASE k # Len(d)
  <2>1. /\ k + 1 \in 1..Len(d) /\ d[k + 1] \in Byte
        /\ c[k + 1] = c[k] + Len(x) /\ 1 + c[k + 1] < Len(w)
        /\ \A j \in 1..Len(x) : line[j].byte = x[j]
    BY <1>3, <1>10
  <2>2. \/ Len(x) = 1 /\ x[1] = d[k + 1] /\ d[k + 1] # END
        \/ Len(x) = 2 /\ x[1] = ESC
    BY <2>1, EscapeType DEF x
  <2>3. 1 \in 1..Len(x)
    BY <2>2
  <2>4. x[1] = Head(wire).byte
    BY <1>6, <2>1, <2>3
  <2>5. Len(x) = 1 /\ Head(wire).byte = d[k + 1] /\ d[k + 1] # END
    BY <1>7, <2>2, <2>4
  <2>6. Store(d[k + 1])
    BY <1>7, <2>5
  <2>7. k \in Nat
    BY <1>1
  <2>8. inbuf' = SubSeq(d, 1, k + 1) /\ handled' = handled
    BY <1>4, <2>1, <2>6, <2>7, StoreNext
  <2>9. 1 + c[k] + 1 = 1 + c[k + 1] /\ 1 + c[k] <= Len(w) /\ 1 + c[k] + 1 <= Len(w)
    <3>. DEFINE y == c[k]  z == c[k + 1]  v == Len(w)
    <3>1. y \in Nat /\ v \in Nat /\ z = y + 1 /\ 1 + z < v
      BY <1>3, <2>1, <2>5
    <3>. HIDE DEF y, z, v
    <3>2. 1 + y + 1 = 1 + z /\ 1 + y <= v /\ 1 + y + 1 <= v
      BY <3>1
    <3>. QED  BY <3>2 DEF y, z, v
  <2>10. Placed(more, sent[n], n, 0, 1 + c[k + 1])
    BY <1>8, <2>9
  <2>. DEFINE i == k + 1
  <2>11. i \in 0..Len(sent'[n].data) /\ inbuf' = SubSeq(sent'[n].data, 1, i)
    BY <1>1, <1>7, <2>1, <2>8
  <2>12. Placed(Line', sent'[n], n, 0, 1 + Cut(sent'[n].data)[i])
    BY <1>7, <2>10 DEF more, c
  <2>. HIDE DEF i
  <2>13. BegunAt(n, i)'
    BY <2>11, <2>12 DEF BegunAt
  <2>14. Begun(n)'
    BY <2>11, <2>13 DEF Begun
  <2>15. ClosedBy(n)' = {}
    BY <1>7, <2>8, HandledSame
  <2>. QED  BY <2>14, <2>15
<1>. QED  BY <1>9, <1>10

LEMMA BegunReadEscape ==
  ASSUME TypeOK, TypeOK', NEW n \in 1..Len(sent),
         Counted(n), Begun(n), ClosedBy(n) = {}, ReadEscape
  PROVE  Begun(n)' /\ ClosedBy(n)' = {}
<1>1. /\ sent[n] \in Frames /\ n \in 0..MaxSent
      /\ sent[n].data \in Seq(Byte) /\ sent[n].data # << >> /\ Len(sent[n].data) \in Nat
  BY SentType, FrameType
<1>2. PICK k \in 0..Len(sent[n].data) : BegunAt(n, k)
  BY DEF Begun
<1>. DEFINE d == sent[n].data  c == Cut(d)  w == Whole(sent[n], n)  x == Escape(d[k + 1])
            line == Line  more == Line'
<1>3. /\ c[k] \in Nat /\ Len(w) \in Nat /\ 1 <= Len(line)
      /\ k = Len(d) => line[1] = [byte |-> END, frame |-> n, part |-> "close"]
      /\ k # Len(d) => /\ k + 1 \in 1..Len(d) /\ d[k + 1] \in Byte
                       /\ c[k + 1] = c[k] + Len(x) /\ 1 + c[k + 1] < Len(w)
                       /\ \A j \in 1..Len(x) : line[j].byte = x[j]
  BY <1>2, BegunLine
<1>4. inbuf = SubSeq(d, 1, k) /\ Placed(line, sent[n], n, 0, 1 + c[k])
  BY <1>2 DEF BegunAt
<1>5. line \in Seq(Item) /\ more \in Seq(Item)
  BY LineType, LineNext
<1>6. /\ Len(more) = Len(line) - 2 /\ \A i \in 1..Len(more) : more[i] = line[i + 2]
      /\ line[1] = Head(wire) /\ line[2] = wire[2]
  BY ReadEscapeLine DEF Reads
<1>7. Head(wire).byte = ESC /\ sent' = sent /\ Store(Unescape(wire[2].byte))
  BY DEF ReadEscape
<1>. HIDE DEF line, more, c, w, x
<1>8. k # Len(d)
  BY <1>3, <1>6, <1>7 DEF END, ESC
<1>9. /\ k + 1 \in 1..Len(d) /\ d[k + 1] \in Byte
      /\ c[k + 1] = c[k] + Len(x) /\ 1 + c[k + 1] < Len(w)
      /\ \A j \in 1..Len(x) : line[j].byte = x[j]
  BY <1>3, <1>8
<1>10. \/ Len(x) = 1 /\ x[1] = d[k + 1] /\ d[k + 1] # ESC
       \/ Len(x) = 2 /\ x[1] = ESC /\ Unescape(x[2]) = d[k + 1]
  BY <1>9, EscapeType DEF x
<1>11. 1 \in 1..Len(x)
  BY <1>10
<1>12. x[1] = ESC
  BY <1>6, <1>7, <1>9, <1>11
<1>13. Len(x) = 2 /\ Unescape(x[2]) = d[k + 1]
  BY <1>10, <1>12
<1>14. wire[2].byte = x[2]
  <2>1. 2 \in 1..Len(x)
    BY <1>13
  <2>. QED  BY <1>6, <1>9, <2>1
<1>15. Store(d[k + 1])
  BY <1>7, <1>13, <1>14
<1>16. k \in Nat
  BY <1>1
<1>17. inbuf' = SubSeq(d, 1, k + 1) /\ handled' = handled
  BY <1>4, <1>9, <1>15, <1>16, StoreNext
<1>18. Placed(more, sent[n], n, 0, 1 + c[k + 1])
  <2>. DEFINE s == 1 + c[k]
  <2>1. /\ s \in Nat /\ s <= Len(Whole(sent[n], n)) /\ s + 2 <= Len(Whole(sent[n], n))
        /\ s + 2 = 1 + c[k + 1]
    <3>. DEFINE y == c[k]  z == c[k + 1]  v == Len(w)
    <3>1. y \in Nat /\ v \in Nat /\ z = y + 2 /\ 1 + z < v
      BY <1>3, <1>9, <1>13
    <3>. HIDE DEF y, z, v
    <3>2. 1 + y \in Nat /\ 1 + y <= v /\ 1 + y + 2 <= v /\ 1 + y + 2 = 1 + z
      BY <3>1
    <3>. QED  BY <3>2 DEF y, z, v, w
  <2>2. Placed(line, sent[n], n, 0, s)
    BY <1>4
  <2>. HIDE DEF s
  <2>3. Placed(more, sent[n], n, 0, s + 2)
    BY <1>1, <1>5, <1>6, <2>1, <2>2, PlacedRead
  <2>. QED  BY <2>1, <2>3
<1>. DEFINE i == k + 1
<1>19. i \in 0..Len(sent'[n].data) /\ inbuf' = SubSeq(sent'[n].data, 1, i)
  BY <1>1, <1>7, <1>9, <1>17
<1>20. Placed(Line', sent'[n], n, 0, 1 + Cut(sent'[n].data)[i])
  BY <1>7, <1>18 DEF more, c
<1>. HIDE DEF i
<1>21. BegunAt(n, i)'
  BY <1>19, <1>20 DEF BegunAt
<1>22. Begun(n)'
  BY <1>19, <1>21 DEF Begun
<1>. QED  BY <1>7, <1>17, <1>22, HandledSame

\* The radio starts something else: the packets before it stay where they are.
LEMMA StageStart ==
  ASSUME TypeOK, TypeOK', NEW n \in 1..Len(sent), sent'[n] = sent[n], Stage(n),
         UNCHANGED <<wire, inbuf, handled>>, Len(Line') >= Len(Line),
         \A i \in 1..Len(Line) : Line'[i] = Line[i],
         \A i \in Len(Line) + 1..Len(Line') : Line'[i].frame # n
  PROVE  Stage(n)'
<1>1. sent[n] \in Frames /\ n \in 0..MaxSent
  BY SentType
<1>2. Line \in Seq(Item) /\ Line' \in Seq(Item) /\ Len(Line) \in Nat /\ Len(wire) \in Nat
  BY LineType, LineNext
<1>3. ASSUME NEW a \in Nat, NEW s \in Nat, Placed(Line, sent[n], n, a, s)
      PROVE  Placed(Line', sent'[n], n, a, s)
  <2>. DEFINE line == Line  more == Line'
  <2>1. /\ line \in Seq(Item) /\ more \in Seq(Item) /\ Len(more) >= Len(line)
        /\ \A i \in 1..Len(line) : more[i] = line[i]
        /\ \A i \in Len(line) + 1..Len(more) : more[i].frame # n
        /\ Placed(line, sent[n], n, a, s)
    BY <1>2, <1>3
  <2>. HIDE DEF line, more
  <2>2. Placed(more, sent[n], n, a, s)
    BY <1>1, <2>1, PlacedMore
  <2>. QED  BY <2>2 DEF more
<1>4. ClosedBy(n)' = ClosedBy(n) /\ (Handled(n) => Handled(n)')
  BY HandledSame
<1>5. ASSUME Ahead(n)  PROVE Ahead(n)'
  <2>1. PICK a \in 0..Len(wire) : /\ Placed(Line, sent[n], n, a, 0)
                                  /\ a > 0 => Line[a].byte # ESC
    BY <1>5 DEF Ahead
  <2>2. Placed(Line', sent'[n], n, a, 0) /\ a \in 0..Len(wire')
    BY <1>2, <1>3, <2>1
  <2>3. a > 0 => Line'[a].byte # ESC
    <3>1. a + Len(Whole(sent[n], n)) - 0 <= Len(Line)
      BY <2>1 DEF Placed
    <3>2. Len(Whole(sent[n], n)) \in Nat
      BY <1>1, WholeItems, LenProperties
    <3>3. a > 0 => a \in 1..Len(Line)
      BY <1>2, <3>1, <3>2
    <3>. QED  BY <2>1, <3>3
  <2>. QED  BY <2>2, <2>3 DEF Ahead
<1>6. ASSUME Begun(n)  PROVE Begun(n)'
  <2>1. PICK k \in 0..Len(sent[n].data) : BegunAt(n, k)
    BY <1>6 DEF Begun
  <2>2. Cut(sent[n].data)[k] \in Nat
    BY <2>1, BegunLine
  <2>3. Placed(Line', sent'[n], n, 0, 1 + Cut(sent'[n].data)[k])
    BY <1>3, <2>1, <2>2 DEF BegunAt
  <2>4. BegunAt(n, k)'
    BY <2>1, <2>3 DEF BegunAt
  <2>. QED  BY <2>4 DEF Begun
<1>7. ASSUME Gone(n)  PROVE Gone(n)'
  <2>. DEFINE line == Line  more == Line'
  <2>1. /\ \A i \in 1..Len(line) : more[i] = line[i] /\ line[i].frame # n
        /\ \A i \in Len(line) + 1..Len(more) : more[i].frame # n
        /\ Len(line) \in Nat /\ Len(more) \in Nat
    BY <1>2, <1>7, LenProperties DEF Gone
  <2>. HIDE DEF line, more
  <2>2. \A i \in 1..Len(more) : i \in 1..Len(line) \/ i \in Len(line) + 1..Len(more)
    BY <2>1
  <2>3. \A i \in 1..Len(more) : more[i].frame # n
    BY <2>1, <2>2
  <2>. QED  BY <1>4, <1>7, <2>3 DEF Gone, more
<1>. QED  BY <1>4, <1>5, <1>6, <1>7 DEF Stage

\* slip_send_packet: before the packet there is no half of an escape, or the END of
\* the packet before it is lost.
LEMMA StepSend ==
  ASSUME TypeOK, TypeOK', DecoderInv, NEW f \in Frames, SlipSendPacket(f)
  PROVE  DecoderInv'
<1>0. PICK p \in Nat : p = Len(sent) + 1
  BY SlipInAssumption DEF SlipSendPacket, TypeOK
<1>. DEFINE w == Whole(f, p)  line == Line  more == Line'  e == Escaped(f.data)
<1>1. /\ sending = << >> /\ p <= MaxSent /\ sent' = Append(sent, f) /\ sending' = w
      /\ wire' = wire /\ inbuf' = inbuf /\ lost' = lost /\ handled' = handled
      /\ verbose' = verbose
  BY <1>0, SlipInAssumption DEF SlipSendPacket, Whole, TypeOK
<1>2. /\ Len(sent) \in Nat /\ p \in 0..MaxSent /\ sent' \in Seq(Frames)
      /\ Len(sent') = p /\ sent'[p] = f /\ \A n \in 1..Len(sent) : sent'[n] = sent[n]
  BY <1>0, <1>1, AppendProperties, LenProperties, SlipInAssumption DEF TypeOK
<1>3. /\ w \in Seq(Item) /\ Len(w) = Len(e) + 2 /\ Len(e) \in Nat
      /\ w[Len(e) + 2] = [byte |-> END, frame |-> p, part |-> "close"]
      /\ \A j \in 1..Len(w) : w[j].frame = p /\ (w[j].byte = ESC => j < Len(w))
  <2>1. /\ w \in Seq(Item) /\ Len(w) = Len(e) + 2
        /\ w[Len(e) + 2] = [byte |-> END, frame |-> p, part |-> "close"]
    BY <1>2, WholeItems
  <2>2. Len(e) \in Nat
    BY FrameType
  <2>3. \A j \in 1..Len(w) : w[j].frame = p /\ (w[j].byte = ESC => j < Len(w))
    BY <1>2, WholeFrame
  <2>. QED  BY <2>1, <2>2, <2>3
<1>4. /\ Len(line) = Len(wire) /\ Len(more) = Len(line) + Len(w)
      /\ \A i \in 1..Len(line) : more[i] = line[i]
      /\ \A i \in 1..Len(w) : more[Len(line) + i] = w[i]
  BY <1>1, StartLine
<1>5. line \in Seq(Item) /\ more \in Seq(Item) /\ Len(line) \in Nat
  BY LineType, LineNext
<1>6. /\ \A j \in 1..Len(line) : line[j].frame \in 0..Len(sent)
      /\ \A i \in 1..Len(handled) : handled[i].frame \in 0..Len(sent)
  BY DEF DecoderInv, Known
<1>. HIDE DEF w, line, more, e
<1>7. ASSUME NEW i \in Len(line) + 1..Len(more)
      PROVE  i - Len(line) \in 1..Len(w) /\ more[i] = w[i - Len(line)] /\ more[i].frame = p
  <2>. DEFINE j == i - Len(line)
  <2>1. j \in 1..Len(w) /\ i = Len(line) + j
    BY <1>3, <1>4, <1>5
  <2>. HIDE DEF j
  <2>2. more[Len(line) + j] = w[j] /\ w[j].frame = p
    BY <1>3, <1>4, <2>1
  <2>3. more[i] = w[j] /\ more[i].frame = p
    BY <2>1, <2>2
  <2>. QED  BY <2>1, <2>3 DEF j
<1>8. \A i \in 1..Len(more) : i \in 1..Len(line) \/ i \in Len(line) + 1..Len(more)
  BY <1>3, <1>4, <1>5
<1>9. p = Len(sent) + 1
  BY <1>0
<1>10. Known'
  <2>1. \A j \in 1..Len(more) : more[j].frame \in 0..Len(sent')
    BY <1>2, <1>4, <1>6, <1>7, <1>8, <1>9
  <2>2. \A i \in 1..Len(handled') : handled'[i].frame \in 0..Len(sent')
    BY <1>1, <1>2, <1>6, <1>9
  <2>. QED  BY <2>1, <2>2 DEF Known, more
<1>11. EscapesEnd'
  <2>1. Len(more) \in 1..Len(more) /\ more[Len(more)].frame = p /\ more[Len(more)].part = "close"
    <3>1. Len(w) \in 1..Len(w) /\ Len(line) + Len(w) = Len(more) /\ Len(more) \in 1..Len(more)
      BY <1>3, <1>4, <1>5
    <3>2. more[Len(line) + Len(w)] = w[Len(w)] /\ w[Len(w)] = [byte |-> END, frame |-> p, part |-> "close"]
      BY <1>3, <1>4, <3>1
    <3>. QED  BY <3>1, <3>2
  <2>2. ASSUME NEW j \in 1..Len(more), more[j].byte = ESC, NEW q \in more[j].frame..p
        PROVE  \/ <<q, "close">> \in lost
               \/ \E i \in j + 1..Len(more) : more[i].frame = q /\ more[i].part = "close"
    <3>1. CASE j \in 1..Len(line)
      <4>1. line[j].byte = ESC /\ line[j].frame \in 0..Len(sent) /\ more[j].frame = line[j].frame
        BY <1>4, <1>6, <2>2, <3>1
      <4>2. CASE q = p
        <5>1. Len(more) \in j + 1..Len(more)
          BY <1>3, <1>4, <1>5, <3>1
        <5>. QED  BY <2>1, <4>2, <5>1
      <4>3. CASE q # p
        <5>1. q \in line[j].frame..Len(sent)
          BY <1>2, <1>9, <2>2, <4>1, <4>3
        <5>2. \/ <<q, "close">> \in lost
              \/ \E i \in j + 1..Len(line) : line[i].frame = q /\ line[i].part = "close"
          BY <3>1, <4>1, <5>1 DEF DecoderInv, EscapesEnd, line
        <5>3. \A i \in j + 1..Len(line) : i \in 1..Len(line) /\ i \in j + 1..Len(more)
          BY <1>3, <1>4, <1>5, <3>1
        <5>. QED  BY <1>4, <5>2, <5>3
      <4>. QED  BY <4>2, <4>3
    <3>2. CASE j \in Len(line) + 1..Len(more)
      <4>1. more[j] = w[j - Len(line)] /\ j - Len(line) \in 1..Len(w) /\ more[j].frame = p
        BY <1>7, <3>2
      <4>2. j - Len(line) < Len(w)
        BY <1>3, <2>2, <4>1
      <4>3. Len(more) \in j + 1..Len(more) /\ q = p
        BY <1>2, <1>3, <1>4, <1>5, <1>9, <2>2, <3>2, <4>1, <4>2
      <4>. QED  BY <2>1, <4>3
    <3>. QED  BY <1>8, <3>1, <3>2
  <2>3. Len(sent') = p /\ lost' = lost
    BY <1>1, <1>2
  <2>. QED  BY <2>2, <2>3 DEF EscapesEnd, more
<1>12. ASSUME NEW n \in 1..Len(sent), Counted(n)'  PROVE Stage(n)'
  <2>1. sent'[n] = sent[n]
    BY <1>2
  <2>2. Counted(n)
    BY <1>1, <1>12, <2>1, CountedBefore
  <2>3. Stage(n)
    BY <2>2 DEF DecoderInv, Stages
  <2>4. \A i \in Len(line) + 1..Len(more) : more[i].frame # n
    BY <1>2, <1>7, <1>9
  <2>5. Len(more) >= Len(line)
    BY <1>3, <1>4, <1>5
  <2>. QED  BY <1>1, <1>4, <2>1, <2>3, <2>4, <2>5, StageStart DEF line, more
<1>13. ASSUME NEW n \in 1..p, n = p, Counted(n)'  PROVE Stage(n)'
  <2>0. PICK a \in Nat : a = Len(line)
    BY <1>5
  <2>. USE <2>0
  <2>1. Placed(more, f, p, a, 0)
    <3>1. a + Len(w) - 0 <= Len(more)
      BY <1>3, <1>4, <1>5
    <3>2. ASSUME NEW j \in 1..Len(more)
          PROVE  IF j \in a + 1..a + Len(w) - 0 THEN more[j] = w[j - a + 0]
                                               ELSE more[j].frame # p
      <4>1. CASE j \in 1..Len(line)
        <5>1. j \notin a + 1..a + Len(w) - 0
          BY <1>5, <4>1
        <5>2. more[j].frame # p
          BY <1>2, <1>4, <1>6, <1>9, <4>1
        <5>. QED  BY <5>1, <5>2
      <4>2. CASE j \in Len(line) + 1..Len(more)
        <5>1. j \in a + 1..a + Len(w) - 0 /\ j - a + 0 = j - Len(line)
          BY <1>3, <1>4, <1>5, <4>2
        <5>. QED  BY <1>7, <4>2, <5>1
      <4>. QED  BY <1>8, <4>1, <4>2
    <3>. QED  BY <3>1, <3>2 DEF Placed, w
  <2>2. ASSUME a > 0  PROVE more[a].byte # ESC
    <3>. SUFFICES ASSUME line[a].byte = ESC  PROVE FALSE
      BY <1>4, <1>5, <2>2
    <3>1. a \in 1..Len(line) /\ line[a].frame \in 0..Len(sent)
      BY <1>5, <1>6, <2>2
    <3>2. Len(sent) \in line[a].frame..Len(sent)
      BY <1>2, <3>1
    <3>3. \/ <<Len(sent), "close">> \in lost
          \/ \E i \in a + 1..Len(line) : line[i].frame = Len(sent) /\ line[i].part = "close"
      BY <3>1, <3>2 DEF DecoderInv, EscapesEnd, line
    <3>4. \A i \in a + 1..Len(line) : FALSE
      BY <1>5
    <3>5. <<n - 1, "close">> \notin lost'
      BY <1>13 DEF Counted, Intact
    <3>6. n - 1 = Len(sent)
      BY <1>2, <1>9, <1>13
    <3>. QED  BY <1>1, <3>3, <3>4, <3>5, <3>6
  <2>3. a \in 0..Len(wire')
    BY <1>1, <1>4, <1>5
  <2>4. Ahead(n)'
    <3>1. Placed(Line', sent'[n], n, a, 0) /\ (a > 0 => Line'[a].byte # ESC)
      BY <1>2, <1>13, <2>1, <2>2 DEF more
    <3>. QED  BY <2>3, <3>1 DEF Ahead
  <2>5. ClosedBy(n)' = {}
    <3>1. handled \in Seq(Record) /\ DOMAIN handled = 1..Len(handled)
      BY DEF TypeOK
    <3>2. \A i \in DOMAIN handled : handled[i].frame # n
      BY <1>2, <1>6, <1>9, <1>13, <3>1
    <3>. QED  BY <1>1, <3>2 DEF ClosedBy
  <2>. QED  BY <2>4, <2>5 DEF Stage
<1>14. ASSUME NEW n \in 1..Len(sent'), Counted(n)'  PROVE Stage(n)'
  <2>1. n \in 1..Len(sent) \/ (n \in 1..p /\ n = p)
    BY <1>2, <1>9
  <2>. QED  BY <1>12, <1>13, <1>14, <2>1
<1>15. Stages'
  BY <1>14 DEF Stages
<1>. QED  BY <1>10, <1>11, <1>15 DEF DecoderInv

\* putchar writes neither an ESC nor a part of a packet.
LEMMA StepPutchar ==
  ASSUME TypeOK, TypeOK', DecoderInv, NEW c \in Chars, Putchar(c)
  PROVE  DecoderInv'
<1>. DEFINE line == Line  more == Line'  s == sending'
            bytes == (IF debug_frame THEN << >> ELSE <<END, CR>>) \o <<c>>
                       \o (IF c = NL THEN <<END>> ELSE << >>)
<1>1. /\ sending = << >> /\ s = Items(bytes, 0, "debug")
      /\ UNCHANGED <<wire, inbuf, verbose, sent, lost, handled>>
  BY DEF Putchar
<1>2. bytes \in Seq({END, CR, NL, "text"})
  <2>. DEFINE start == IF debug_frame THEN << >> ELSE <<END, CR>>
              stop == IF c = NL THEN <<END>> ELSE << >>
              S == {END, CR, NL, "text"}
  <2>1. start \in Seq(S) /\ <<c>> \in Seq(S) /\ stop \in Seq(S)
    <3>1. END \in S /\ CR \in S /\ NL \in S /\ c \in S
      BY DEF Chars
    <3>. HIDE DEF S
    <3>2. << >> \in Seq(S) /\ <<END, CR>> \in Seq(S) /\ <<c>> \in Seq(S) /\ <<END>> \in Seq(S)
      BY <3>1
    <3>. QED  BY <3>2
  <2>. HIDE DEF start, stop, S
  <2>2. start \o <<c>> \o stop \in Seq(S)
    BY <2>1, ConcatProperties
  <2>. QED  BY <2>2 DEF start, stop, S
<1>. HIDE DEF bytes
<1>3. Len(bytes) \in Nat /\ \A i \in 1..Len(bytes) : bytes[i] # ESC
  <2>1. ESC \notin {END, CR, NL, "text"}
    BY DEF ESC, END, CR, NL
  <2>2. Len(bytes) \in Nat /\ \A i \in 1..Len(bytes) : bytes[i] \in {END, CR, NL, "text"}
    BY <1>2
  <2>. QED  BY <2>1, <2>2
<1>4. Len(s) = Len(bytes) /\ \A i \in 1..Len(s) : s[i].frame = 0 /\ s[i].byte # ESC
  <2>1. DOMAIN bytes = 1..Len(bytes)
    BY <1>2
  <2>. QED  BY <1>1, <1>3, <2>1 DEF Items
<1>5. /\ Len(more) = Len(line) + Len(s)
      /\ \A i \in 1..Len(line) : more[i] = line[i]
      /\ \A i \in 1..Len(s) : more[Len(line) + i] = s[i]
  BY <1>1, StartLine
<1>6. line \in Seq(Item) /\ more \in Seq(Item) /\ Len(line) \in Nat
  BY LineType, LineNext
<1>7. /\ \A j \in 1..Len(line) : line[j].frame \in 0..Len(sent)
      /\ \A i \in 1..Len(handled) : handled[i].frame \in 0..Len(sent)
  BY DEF DecoderInv, Known
<1>8. Len(sent) \in Nat
  BY LenProperties DEF TypeOK
<1>. HIDE DEF line, more, s
<1>9. ASSUME NEW i \in Len(line) + 1..Len(more)
      PROVE  more[i].frame = 0 /\ more[i].byte # ESC
  <2>. DEFINE j == i - Len(line)
  <2>1. j \in 1..Len(s) /\ i = Len(line) + j
    BY <1>3, <1>4, <1>5, <1>6
  <2>. HIDE DEF j
  <2>. QED  BY <1>4, <1>5, <2>1
<1>10. \A i \in 1..Len(more) : i \in 1..Len(line) \/ i \in Len(line) + 1..Len(more)
  BY <1>3, <1>4, <1>5, <1>6
<1>11. Known'
  <2>1. \A j \in 1..Len(more) : more[j].frame \in 0..Len(sent)
    BY <1>5, <1>7, <1>8, <1>9, <1>10
  <2>. QED  BY <1>1, <1>7, <2>1 DEF Known, more
<1>12. EscapesEnd'
  <2>1. ASSUME NEW j \in 1..Len(more), more[j].byte = ESC,
               NEW q \in more[j].frame..Len(sent)
        PROVE  \/ <<q, "close">> \in lost
               \/ \E i \in j + 1..Len(more) : more[i].frame = q /\ more[i].part = "close"
    <3>1. j \in 1..Len(line)
      BY <1>9, <1>10, <2>1
    <3>2. line[j].byte = ESC /\ q \in line[j].frame..Len(sent)
      BY <1>5, <2>1, <3>1
    <3>3. \/ <<q, "close">> \in lost
          \/ \E i \in j + 1..Len(line) : line[i].frame = q /\ line[i].part = "close"
      BY <3>1, <3>2 DEF DecoderInv, EscapesEnd, line
    <3>4. \A i \in j + 1..Len(line) : i \in 1..Len(line) /\ i \in j + 1..Len(more)
      BY <1>3, <1>4, <1>5, <1>6, <3>1
    <3>. QED  BY <1>5, <3>3, <3>4
  <2>. QED  BY <1>1, <2>1 DEF EscapesEnd, more
<1>13. ASSUME NEW n \in 1..Len(sent), Counted(n)'  PROVE Stage(n)'
  <2>1. sent'[n] = sent[n]
    BY <1>1
  <2>2. Counted(n)
    BY <1>1, <1>13, <2>1, CountedBefore
  <2>3. Stage(n)
    BY <2>2 DEF DecoderInv, Stages
  <2>4. \A i \in Len(line) + 1..Len(more) : more[i].frame # n
    BY <1>9
  <2>5. Len(more) >= Len(line)
    BY <1>3, <1>4, <1>5, <1>6
  <2>. QED  BY <1>1, <1>5, <2>1, <2>3, <2>4, <2>5, StageStart DEF line, more
<1>14. Stages'
  BY <1>1, <1>13 DEF Stages
<1>. QED  BY <1>11, <1>12, <1>14 DEF DecoderInv

LEMMA SameEscapes ==
  ASSUME EscapesEnd, Line' = Line, UNCHANGED <<sent, lost>>
  PROVE  EscapesEnd'
<1>1. ASSUME NEW j \in 1..Len(Line'), Line'[j].byte = ESC,
             NEW q \in Line'[j].frame..Len(sent')
      PROVE  \/ <<q, "close">> \in lost'
             \/ \E i \in j + 1..Len(Line') : Line'[i].frame = q /\ Line'[i].part = "close"
  <2>. DEFINE line == Line  more == Line'
  <2>1. more = line
    OBVIOUS
  <2>2. sent' = sent /\ lost' = lost
    OBVIOUS
  <2>3. j \in 1..Len(more) /\ more[j].byte = ESC /\ q \in more[j].frame..Len(sent')
    BY <1>1
  <2>. HIDE DEF more
  <2>4. j \in 1..Len(line) /\ line[j].byte = ESC /\ q \in line[j].frame..Len(sent)
    BY <2>1, <2>2, <2>3
  <2>5. \/ <<q, "close">> \in lost
        \/ \E i \in j + 1..Len(line) : line[i].frame = q /\ line[i].part = "close"
    BY <2>4 DEF EscapesEnd
  <2>6. \/ <<q, "close">> \in lost'
        \/ \E i \in j + 1..Len(more) : more[i].frame = q /\ more[i].part = "close"
    <3>. HIDE DEF line
    <3>. QED  BY <2>1, <2>2, <2>5
  <2>. QED  BY <2>6 DEF more
<1>. QED  BY <1>1 DEF EscapesEnd

LEMMA StepWriteb ==
  ASSUME TypeOK, TypeOK', DecoderInv, Writeb
  PROVE  DecoderInv'
<1>1. Line' = Line /\ Len(wire') = Len(wire) + 1 /\ Len(wire) \in Nat
  BY WritebLine
<1>2. UNCHANGED <<inbuf, verbose, sent, lost, handled>>
  BY DEF Writeb
<1>3. Known'
  BY <1>1, <1>2 DEF DecoderInv, Known
<1>4. EscapesEnd'
  BY <1>1, <1>2, SameEscapes DEF DecoderInv
<1>5. ASSUME NEW n \in 1..Len(sent), Counted(n)'  PROVE Stage(n)'
  <2>1. sent'[n] = sent[n]
    BY <1>2
  <2>2. Counted(n)
    BY <1>2, <1>5, <2>1, CountedBefore
  <2>3. Stage(n)
    BY <2>2 DEF DecoderInv, Stages
  <2>4. ClosedBy(n)' = ClosedBy(n) /\ (Handled(n) => Handled(n)')
    BY <1>2, <2>1, HandledSame
  <2>5. ASSUME Ahead(n)  PROVE Ahead(n)'
    <3>1. PICK a \in 0..Len(wire) : /\ Placed(Line, sent[n], n, a, 0)
                                    /\ a > 0 => Line[a].byte # ESC
      BY <2>5 DEF Ahead
    <3>2. a \in 0..Len(wire')
      BY <1>1
    <3>3. Placed(Line', sent'[n], n, a, 0) /\ (a > 0 => Line'[a].byte # ESC)
      BY <1>1, <2>1, <3>1
    <3>. QED  BY <3>2, <3>3 DEF Ahead
  <2>6. ASSUME Begun(n)  PROVE Begun(n)'
    <3>1. PICK k \in 0..Len(sent[n].data) : BegunAt(n, k)
      BY <2>6 DEF Begun
    <3>2. Placed(Line', sent'[n], n, 0, 1 + Cut(sent'[n].data)[k])
      BY <1>1, <2>1, <3>1 DEF BegunAt
    <3>3. BegunAt(n, k)'
      BY <1>2, <3>1, <3>2 DEF BegunAt
    <3>. QED  BY <1>2, <3>3 DEF Begun
  <2>7. ASSUME Gone(n)  PROVE Gone(n)'
    BY <1>1, <2>4, <2>7 DEF Gone
  <2>. QED  BY <2>3, <2>4, <2>5, <2>6, <2>7 DEF Stage
<1>6. Stages'
  BY <1>2, <1>5 DEF Stages
<1>. QED  BY <1>3, <1>4, <1>6 DEF DecoderInv

\* The byte that is lost is of no packet of which nothing is lost.
LEMMA StepLose ==
  ASSUME TypeOK, TypeOK', DecoderInv, Lose
  PROVE  DecoderInv'
<1>. DEFINE line == Line  more == Line'
<1>0. PICK x \in Nat : x = Len(wire) + 1
  BY LineType
<1>1. /\ x \in 1..Len(line) /\ Len(more) = Len(line) - 1 /\ wire' = wire
      /\ \A i \in 1..Len(more) : more[i] = IF i < x THEN line[i] ELSE line[i + 1]
      /\ lost' = lost \cup {<<line[x].frame, line[x].part>>}
  BY <1>0, LoseLine
<1>2. UNCHANGED <<inbuf, verbose, sent, handled>>
  BY DEF Lose
<1>3. line \in Seq(Item) /\ more \in Seq(Item) /\ Len(line) \in Nat /\ Len(wire) \in Nat
  BY LineType, LineNext
<1>4. /\ \A j \in 1..Len(line) : line[j].frame \in 0..Len(sent)
      /\ \A i \in 1..Len(handled) : handled[i].frame \in 0..Len(sent)
  BY DEF DecoderInv, Known
<1>. HIDE DEF line, more
<1>5. \A i \in 1..Len(more) : i \in 1..Len(line) /\ i + 1 \in 1..Len(line)
  BY <1>1, <1>3
<1>6. Known'
  <2>1. \A j \in 1..Len(more) : more[j].frame \in 0..Len(sent)
    BY <1>1, <1>4, <1>5
  <2>. QED  BY <1>2, <1>4, <2>1 DEF Known, more
<1>7. EscapesEnd'
  <2>1. ASSUME NEW j \in 1..Len(more), more[j].byte = ESC,
               NEW q \in more[j].frame..Len(sent)
        PROVE  \/ <<q, "close">> \in lost'
               \/ \E i \in j + 1..Len(more) : more[i].frame = q /\ more[i].part = "close"
    <3>. DEFINE b == IF j < x THEN j ELSE j + 1
    <3>1. b \in 1..Len(line) /\ more[j] = line[b] /\ b >= j /\ (j < x \/ b = j + 1) /\ (j >= x \/ b = j)
      BY <1>1, <1>5
    <3>. HIDE DEF b
    <3>2. \/ <<q, "close">> \in lost
          \/ \E i \in b + 1..Len(line) : line[i].frame = q /\ line[i].part = "close"
      BY <2>1, <3>1 DEF DecoderInv, EscapesEnd, line
    <3>3. ASSUME NEW i \in b + 1..Len(line), line[i].frame = q, line[i].part = "close"
          PROVE  \/ <<q, "close">> \in lost'
                 \/ \E h \in j + 1..Len(more) : more[h].frame = q /\ more[h].part = "close"
      <4>1. CASE i = x
        BY <1>1, <3>3, <4>1
      <4>2. CASE i < x
        <5>1. i \in j + 1..Len(more) /\ i \in 1..Len(more)
          BY <1>1, <1>3, <3>1, <4>2
        <5>2. more[i] = line[i]
          BY <1>1, <4>2, <5>1
        <5>. QED  BY <3>3, <5>1, <5>2
      <4>3. CASE i > x
        <5>. DEFINE h == i - 1
        <5>1. h \in j + 1..Len(more) /\ h \in 1..Len(more) /\ ~(h < x) /\ h + 1 = i
          BY <1>1, <1>3, <3>1, <4>3
        <5>. HIDE DEF h
        <5>2. more[h] = line[h + 1]
          BY <1>1, <5>1
        <5>. QED  BY <3>3, <5>1, <5>2
      <4>. QED  BY <1>3, <3>1, <4>1, <4>2, <4>3
    <3>. QED  BY <1>1, <3>2, <3>3
  <2>. QED  BY <1>2, <2>1 DEF EscapesEnd, more
<1>8. ASSUME NEW n \in 1..Len(sent), Counted(n)'  PROVE Stage(n)'
  <2>1. sent'[n] = sent[n]
    BY <1>2
  <2>2. Counted(n)
    BY <1>1, <1>2, <1>8, <2>1, CountedBefore
  <2>3. Stage(n)
    BY <2>2 DEF DecoderInv, Stages
  <2>4. ClosedBy(n)' = ClosedBy(n) /\ (Handled(n) => Handled(n)')
    BY <1>2, <2>1, HandledSame
  <2>5. line[x].frame # n
    <3>1. {n} \X Part \cap lost' = {}
      BY <1>8 DEF Counted, Intact
    <3>2. line[x].part \in Part
      <4>1. line[x] \in Item
        BY <1>1, <1>3, ElementOfSeq
      <4>. QED  BY <4>1 DEF Item
    <3>. QED  BY <1>1, <3>1, <3>2
  <2>6. sent[n] \in Frames /\ n \in 0..MaxSent
    BY SentType
  <2>7. ASSUME NEW a \in Nat, NEW s \in Nat, a < x, Placed(line, sent[n], n, a, s)
        PROVE  Placed(more, sent[n], n, a, s)
    BY <1>1, <1>3, <2>5, <2>6, <2>7, PlacedLost
  <2>8. ASSUME Ahead(n)  PROVE Ahead(n)'
    <3>1. PICK a \in 0..Len(wire) : /\ Placed(line, sent[n], n, a, 0)
                                    /\ a > 0 => line[a].byte # ESC
      BY <2>8 DEF Ahead, line
    <3>2. a < x /\ a \in Nat /\ a \in 0..Len(wire')
      BY <1>0, <1>1, <1>3
    <3>3. Placed(more, sent[n], n, a, 0)
      BY <2>7, <3>1, <3>2
    <3>4. ASSUME a > 0  PROVE more[a].byte # ESC
      <4>1. a \in 1..Len(more)
        BY <1>1, <1>3, <3>2, <3>4
      <4>. QED  BY <1>1, <3>1, <3>2, <3>4, <4>1
    <3>5. Placed(Line', sent'[n], n, a, 0) /\ (a > 0 => Line'[a].byte # ESC)
      BY <2>1, <3>3, <3>4 DEF more
    <3>. QED  BY <3>2, <3>5 DEF Ahead
  <2>9. ASSUME Begun(n)  PROVE Begun(n)'
    <3>1. PICK k \in 0..Len(sent[n].data) : BegunAt(n, k)
      BY <2>9 DEF Begun
    <3>2. Cut(sent[n].data)[k] \in Nat
      BY <3>1, BegunLine
    <3>3. Placed(line, sent[n], n, 0, 1 + Cut(sent[n].data)[k]) /\ 0 < x
      BY <1>1, <3>1 DEF BegunAt, line
    <3>4. Placed(more, sent[n], n, 0, 1 + Cut(sent[n].data)[k])
      BY <2>7, <3>2, <3>3
    <3>5. Placed(Line', sent'[n], n, 0, 1 + Cut(sent'[n].data)[k])
      BY <2>1, <3>4 DEF more
    <3>6. BegunAt(n, k)'
      BY <1>2, <3>1, <3>5 DEF BegunAt
    <3>. QED  BY <1>2, <3>6 DEF Begun
  <2>10. ASSUME Gone(n)  PROVE Gone(n)'
    <3>1. \A j \in 1..Len(line) : line[j].frame # n
      BY <2>10 DEF Gone, line
    <3>2. \A j \in 1..Len(more) : more[j].frame # n
      BY <1>1, <1>5, <3>1
    <3>. QED  BY <2>4, <2>10, <3>2 DEF Gone, more
  <2>. QED  BY <2>3, <2>4, <2>8, <2>9, <2>10 DEF Stage
<1>9. Stages'
  BY <1>2, <1>8 DEF Stages
<1>. QED  BY <1>6, <1>7, <1>9 DEF DecoderInv

LEMMA ReadKeeps ==
  ASSUME TypeOK, TypeOK', DecoderInv, NEW r \in {1, 2}, Reads(r),
         sent' = sent, lost' = lost,
         \A i \in 1..Len(handled') : handled'[i].frame \in 0..Len(sent)
  PROVE  Known' /\ EscapesEnd'
<1>. DEFINE line == Line  more == Line'
<1>1. Len(more) = Len(line) - r /\ \A i \in 1..Len(more) : more[i] = line[i + r]
  BY DEF Reads
<1>2. line \in Seq(Item) /\ more \in Seq(Item) /\ Len(line) \in Nat /\ r \in Nat
  BY LineType, LineNext
<1>3. \A j \in 1..Len(line) : line[j].frame \in 0..Len(sent)
  BY DEF DecoderInv, Known
<1>. HIDE DEF line, more
<1>4. \A i \in 1..Len(more) : i + r \in 1..Len(line)
  BY <1>1, <1>2
<1>5. \A j \in 1..Len(more) : more[j].frame \in 0..Len(sent)
  BY <1>1, <1>3, <1>4
<1>6. Known'
  BY <1>5 DEF Known, more
<1>7. ASSUME NEW j \in 1..Len(more), more[j].byte = ESC,
             NEW q \in more[j].frame..Len(sent)
      PROVE  \/ <<q, "close">> \in lost
             \/ \E i \in j + 1..Len(more) : more[i].frame = q /\ more[i].part = "close"
  <2>. DEFINE b == j + r
  <2>1. b \in 1..Len(line) /\ more[j] = line[b]
    BY <1>1, <1>4
  <2>2. b = j + r
    OBVIOUS
  <2>. HIDE DEF b
  <2>3. \/ <<q, "close">> \in lost
        \/ \E i \in b + 1..Len(line) : line[i].frame = q /\ line[i].part = "close"
    BY <1>7, <2>1 DEF DecoderInv, EscapesEnd, line
  <2>4. ASSUME NEW i \in b + 1..Len(line), line[i].frame = q, line[i].part = "close"
        PROVE  \E h \in j + 1..Len(more) : more[h].frame = q /\ more[h].part = "close"
    <3>. DEFINE h == i - r
    <3>1. h \in j + 1..Len(more) /\ h \in 1..Len(more) /\ h + r = i
      BY <1>1, <1>2, <2>2
    <3>. HIDE DEF h
    <3>2. more[h] = line[h + r]
      BY <1>1, <3>1
    <3>. QED  BY <2>4, <3>1, <3>2
  <2>. QED  BY <2>3, <2>4
<1>8. EscapesEnd'
  BY <1>7 DEF EscapesEnd, more
<1>. QED  BY <1>6, <1>8

\* What is read of other packets is not of this one.
LEMMA GoneRead ==
  ASSUME TypeOK, TypeOK', NEW n, NEW r \in {1, 2}, Reads(r),
         \A j \in 1..Len(Line) : Line[j].frame # n
  PROVE  \A j \in 1..Len(Line') : Line'[j].frame # n
<1>. DEFINE line == Line  more == Line'
<1>1. Len(more) = Len(line) - r /\ \A i \in 1..Len(more) : more[i] = line[i + r]
  BY DEF Reads
<1>2. line \in Seq(Item) /\ more \in Seq(Item) /\ Len(line) \in Nat /\ r \in Nat
  BY LineType, LineNext
<1>. HIDE DEF line, more
<1>3. \A i \in 1..Len(more) : i + r \in 1..Len(line)
  BY <1>1, <1>2
<1>. QED  BY <1>1, <1>3 DEF line, more

LEMMA StepReadByte ==
  ASSUME TypeOK, TypeOK', DecoderInv, ReadByte, \A f \in Frames : f.to = Handler(f.data)
  PROVE  DecoderInv'
<1>1. Reads(1) /\ Line[1] = Head(wire) /\ Len(wire) >= 1
  BY ReadByteLine
<1>2. /\ UNCHANGED <<verbose, sent, lost>>
      /\ \/ Head(wire).byte = END /\ EndOfFrame(Head(wire))
         \/ Head(wire).byte # END /\ Store(Head(wire).byte)
  BY DEF ReadByte
<1>. DEFINE item == Head(wire)
            r == [to |-> Handler(inbuf), data |-> inbuf,
                  frame |-> item.frame, part |-> item.part]
<1>3. item \in Item /\ inbuf \in Seq(Byte) /\ item.frame \in 0..Len(sent)
  <2>1. /\ Line \in Seq(Item) /\ Len(Line) = Len(wire) + Len(sending)
        /\ Len(wire) \in Nat /\ Len(sending) \in Nat
    BY LineType
  <2>2. 1 \in 1..Len(Line)
    BY <1>1, <2>1
  <2>3. Line[1] \in Item /\ Line[1].frame \in 0..Len(sent)
    BY <2>1, <2>2, ElementOfSeq DEF DecoderInv, Known
  <2>. QED  BY <1>1, <2>3 DEF TypeOK
<1>4. r \in Record /\ r.frame = item.frame /\ r.part = item.part
  BY <1>3, HandlerType DEF Record, Item
<1>5. handled' = handled \/ handled' = Append(handled, r)
  BY <1>2 DEF EndOfFrame, Store
<1>. HIDE DEF r, item
<1>6. \A i \in 1..Len(handled') : handled'[i].frame \in 0..Len(sent)
  <2>1. handled \in Seq(Record) /\ \A i \in 1..Len(handled) : handled[i].frame \in 0..Len(sent)
    BY DEF TypeOK, DecoderInv, Known
  <2>2. CASE handled' = handled
    BY <2>1, <2>2
  <2>3. CASE handled' = Append(handled, r)
    <3>. DEFINE new == handled'
    <3>1. /\ Len(new) = Len(handled) + 1 /\ Len(handled) \in Nat
          /\ new[Len(handled) + 1] = r /\ \A i \in 1..Len(handled) : new[i] = handled[i]
      BY <1>4, <2>1, <2>3, AppendProperties
    <3>. HIDE DEF new
    <3>2. \A i \in 1..Len(new) : i \in 1..Len(handled) \/ i = Len(handled) + 1
      BY <3>1
    <3>3. \A i \in 1..Len(new) : new[i].frame \in 0..Len(sent)
      BY <1>3, <1>4, <2>1, <3>1, <3>2
    <3>. QED  BY <3>3 DEF new
  <2>. QED  BY <1>5, <2>2, <2>3
<1>7. Known' /\ EscapesEnd'
  BY <1>1, <1>2, <1>6, ReadKeeps
<1>8. ASSUME NEW n \in 1..Len(sent), Counted(n)'  PROVE Stage(n)'
  <2>1. sent'[n] = sent[n]
    BY <1>2
  <2>2. Counted(n)
    BY <1>2, <1>8, <2>1, CountedBefore
  <2>3. Stage(n)
    BY <2>2 DEF DecoderInv, Stages
  <2>4. ASSUME item.frame # n \/ item.part # "close"
        PROVE  ClosedBy(n)' = ClosedBy(n) /\ (Handled(n) => Handled(n)')
    <3>1. CASE handled' = handled
      BY <2>1, <3>1, HandledSame
    <3>2. CASE handled' = Append(handled, r)
      BY <1>4, <2>1, <2>4, <3>2, HandledOther
    <3>. QED  BY <1>5, <3>1, <3>2
  <2>5. CASE Ahead(n) /\ ClosedBy(n) = {}
    <3>1. CASE Ahead(n)' /\ Line[1].frame # n
      BY <1>1, <2>4, <2>5, <3>1 DEF Stage, item
    <3>2. CASE /\ Placed(Line', sent[n], n, 0, 1)
               /\ Line[1] = [byte |-> END, frame |-> n, part |-> "open"]
      <4>1. item.byte = END /\ item.part # "close"
        BY <1>1, <3>2 DEF item
      <4>2. ClosedBy(n)' = {}
        BY <2>4, <2>5, <4>1
      <4>3. inbuf' = << >>
        BY <1>2, <4>1 DEF EndOfFrame, item
      <4>4. /\ sent[n].data \in Seq(Byte) /\ Len(sent[n].data) \in Nat
            /\ Cut(sent[n].data)[0] = 0
        BY SentType, FrameType DEF Cuts
      <4>5. SubSeq(sent[n].data, 1, 0) = << >>
        BY SubSeqEmpty
      <4>6. Placed(Line', sent'[n], n, 0, 1 + Cut(sent'[n].data)[0])
        BY <2>1, <3>2, <4>4
      <4>7. inbuf' = SubSeq(sent'[n].data, 1, 0) /\ 0 \in 0..Len(sent'[n].data)
        BY <2>1, <4>3, <4>4, <4>5
      <4>8. BegunAt(n, 0)'
        BY <4>6, <4>7 DEF BegunAt
      <4>9. Begun(n)'
        BY <4>7, <4>8 DEF Begun
      <4>. QED  BY <4>2, <4>9 DEF Stage
    <3>3. 1 \in {1, 2} /\ 1 # 2
      OBVIOUS
    <3>. QED  BY <1>1, <1>2, <2>5, <3>1, <3>2, <3>3, AheadRead
  <2>6. CASE Begun(n) /\ ClosedBy(n) = {}
    <3>1. sent[n].to = Handler(sent[n].data)
      BY SentType
    <3>2. (Begun(n)' /\ ClosedBy(n)' = {}) \/ Gone(n)'
      BY <2>2, <2>6, <3>1, BegunReadByte
    <3>. QED  BY <3>2 DEF Stage
  <2>7. CASE Gone(n)
    <3>1. (\A j \in 1..Len(Line) : Line[j].frame # n) /\ Handled(n)
      BY <2>7 DEF Gone
    <3>2. 1 \in 1..Len(Line)
      BY <1>1, LineType
    <3>3. item.frame # n
      BY <1>1, <3>1, <3>2 DEF item
    <3>4. Handled(n)'
      BY <2>4, <3>1, <3>3
    <3>5. \A j \in 1..Len(Line') : Line'[j].frame # n
      BY <1>1, <3>1, GoneRead
    <3>6. Gone(n)'
      BY <3>4, <3>5 DEF Gone
    <3>. QED  BY <3>6 DEF Stage
  <2>. QED  BY <2>3, <2>5, <2>6, <2>7 DEF Stage
<1>9. Stages'
  BY <1>2, <1>8 DEF Stages
<1>. QED  BY <1>7, <1>9 DEF DecoderInv

LEMMA StepReadEscape ==
  ASSUME TypeOK, TypeOK', DecoderInv, ReadEscape
  PROVE  DecoderInv'
<1>1. Reads(2) /\ Line[1] = Head(wire) /\ Len(wire) >= 2
  BY ReadEscapeLine
<1>2. /\ UNCHANGED <<verbose, sent, lost>> /\ Head(wire).byte = ESC
      /\ handled' = handled
  BY DEF ReadEscape, Store
<1>3. \A i \in 1..Len(handled') : handled'[i].frame \in 0..Len(sent)
  BY <1>2 DEF DecoderInv, Known
<1>4. Known' /\ EscapesEnd'
  BY <1>1, <1>2, <1>3, ReadKeeps
<1>5. ASSUME NEW n \in 1..Len(sent), Counted(n)'  PROVE Stage(n)'
  <2>1. sent'[n] = sent[n]
    BY <1>2
  <2>2. Counted(n)
    BY <1>2, <1>5, <2>1, CountedBefore
  <2>3. Stage(n)
    BY <2>2 DEF DecoderInv, Stages
  <2>4. ClosedBy(n)' = ClosedBy(n) /\ (Handled(n) => Handled(n)')
    BY <1>2, <2>1, HandledSame
  <2>5. CASE Ahead(n) /\ ClosedBy(n) = {}
    <3>1. 2 \in {1, 2} /\ 2 # 1
      OBVIOUS
    <3>2. Ahead(n)'
      BY <1>1, <1>2, <2>5, <3>1, AheadRead
    <3>. QED  BY <2>4, <2>5, <3>2 DEF Stage
  <2>6. CASE Begun(n) /\ ClosedBy(n) = {}
    BY <2>2, <2>6, BegunReadEscape DEF Stage
  <2>7. CASE Gone(n)
    <3>1. (\A j \in 1..Len(Line) : Line[j].frame # n) /\ Handled(n)
      BY <2>7 DEF Gone
    <3>2. \A j \in 1..Len(Line') : Line'[j].frame # n
      BY <1>1, <3>1, GoneRead
    <3>3. Gone(n)'
      BY <2>4, <3>1, <3>2 DEF Gone
    <3>. QED  BY <3>3 DEF Stage
  <2>. QED  BY <2>3, <2>5, <2>6, <2>7 DEF Stage
<1>6. Stages'
  BY <1>2, <1>5 DEF Stages
<1>. QED  BY <1>4, <1>6 DEF DecoderInv

\* A step that leaves the line and the decoder alone.
LEMMA StepElse ==
  ASSUME DecoderInv,
         UNCHANGED <<sending, wire, inbuf, verbose, sent, lost, handled>>
  PROVE  DecoderInv'
<1>1. Line' = Line
  BY DEF Line
<1>2. Known'
  BY <1>1 DEF DecoderInv, Known
<1>3. EscapesEnd'
  BY <1>1, SameEscapes DEF DecoderInv
<1>4. ASSUME NEW n \in 1..Len(sent), Counted(n)'  PROVE Stage(n)'
  <2>1. Counted(n)
    BY <1>4, CountedBefore
  <2>2. Stage(n)
    BY <2>1 DEF DecoderInv, Stages
  <2>. QED  BY <1>1, <2>2 DEF Stage, Ahead, Begun, BegunAt, Gone, Handled, ClosedBy
<1>5. Stages'
  BY <1>4 DEF Stages
<1>. QED  BY <1>2, <1>3, <1>5 DEF DecoderInv

\* The stages tell that a packet which is over has been handled.
LEMMA StagesHandle ==
  ASSUME TypeOK, DecoderInv
  PROVE  IntactHandled
<1>. SUFFICES ASSUME NEW n \in DOMAIN sent, Over(n), Intact(n), Fits(sent[n]), ~Echoed(sent[n])
              PROVE  Handled(n)
  BY DEF IntactHandled
<1>1. n \in 1..Len(sent)
  BY DEF TypeOK
<1>2. Stage(n)
  BY <1>1 DEF DecoderInv, Stages, Counted
<1>. DEFINE line == Line
<1>3. /\ line \in Seq(Item) /\ Len(line) = Len(wire) + Len(sending)
      /\ Len(wire) \in Nat /\ Len(sending) \in Nat /\ Len(line) \in Nat
      /\ \A j \in 1..Len(wire) : line[j] = wire[j]
      /\ \A j \in 1..Len(sending) : line[Len(wire) + j] = sending[j]
  BY LineType
<1>4. /\ \A i \in 1..Len(sending) : sending[i].frame # n
      /\ \A i \in 1..Len(wire) : wire[i].frame # n
  BY DEF Over, TypeOK
<1>. HIDE DEF line
<1>5. \A j \in 1..Len(line) : line[j].frame # n
  <2>. TAKE j \in 1..Len(line)
  <2>1. CASE j <= Len(wire)
    <3>1. j \in 1..Len(wire)
      BY <1>3, <2>1
    <3>. QED  BY <1>3, <1>4, <3>1
  <2>2. CASE ~(j <= Len(wire))
    <3>. DEFINE i == j - Len(wire)
    <3>1. i \in 1..Len(sending) /\ j = Len(wire) + i
      BY <1>3, <2>2
    <3>. HIDE DEF i
    <3>. QED  BY <1>3, <1>4, <3>1
  <2>. QED  BY <2>1, <2>2
<1>6. sent[n] \in Frames /\ n \in 0..MaxSent
  BY <1>1, SentType
<1>7. ASSUME NEW a \in Nat, NEW s \in Nat, s < Len(Whole(sent[n], n)),
             Placed(line, sent[n], n, a, s)
      PROVE  FALSE
  <2>. DEFINE w == Whole(sent[n], n)
  <2>1. Len(w) \in Nat /\ \A j \in 1..Len(w) : w[j].frame = n
    BY <1>6, WholeItems, WholeFrame, LenProperties
  <2>. HIDE DEF w
  <2>2. /\ a + Len(w) - s <= Len(line) /\ s < Len(w)
        /\ \A j \in 1..Len(line) : IF j \in a + 1..a + Len(w) - s THEN line[j] = w[j - a + s]
                                                               ELSE line[j].frame # n
    BY <1>7 DEF Placed, w
  <2>3. a + 1 \in 1..Len(line) /\ a + 1 \in a + 1..a + Len(w) - s /\ a + 1 - a + s \in 1..Len(w)
    BY <1>3, <2>1, <2>2
  <2>. QED  BY <1>5, <2>1, <2>2, <2>3
<1>8. ~Ahead(n)
  <2>. SUFFICES ASSUME NEW a \in 0..Len(wire), Placed(line, sent[n], n, a, 0)  PROVE FALSE
    BY DEF Ahead, line
  <2>1. 0 < Len(Whole(sent[n], n))
    <3>1. Len(Whole(sent[n], n)) = Len(Escaped(sent[n].data)) + 2
      BY <1>6, WholeItems
    <3>2. Len(Escaped(sent[n].data)) \in Nat
      BY <1>6, FrameType
    <3>. QED  BY <3>1, <3>2
  <2>2. a \in Nat /\ 0 \in Nat
    BY <1>3
  <2>. QED  BY <1>7, <2>1, <2>2
<1>9. ~Begun(n)
  <2>. SUFFICES ASSUME NEW k \in 0..Len(sent[n].data), BegunAt(n, k)  PROVE FALSE
    BY DEF Begun
  <2>. DEFINE c == Cut(sent[n].data)  w == Whole(sent[n], n)
  <2>1. /\ c[k] \in Nat /\ Len(w) \in Nat
        /\ k = Len(sent[n].data) => 1 + c[k] + 1 = Len(w)
        /\ k # Len(sent[n].data) => /\ c[k + 1] = c[k] + Len(Escape(sent[n].data[k + 1]))
                                    /\ 1 + c[k + 1] < Len(w)
                                    /\ sent[n].data[k + 1] \in Byte
    BY <1>1, BegunLine
  <2>2. 1 + c[k] < Len(w)
    <3>1. CASE k = Len(sent[n].data)
      BY <2>1, <3>1
    <3>2. CASE k # Len(sent[n].data)
      <4>1. Len(Escape(sent[n].data[k + 1])) \in Nat
        BY <2>1, <3>2, EscapeType, LenProperties
      <4>. HIDE DEF c, w
      <4>. QED  BY <2>1, <3>2, <4>1
    <3>. QED  BY <3>1, <3>2
  <2>3. Placed(line, sent[n], n, 0, 1 + c[k])
    BY DEF BegunAt, line
  <2>4. 1 + c[k] \in Nat
    BY <2>1
  <2>. QED  BY <1>7, <2>2, <2>3, <2>4
<1>. QED  BY <1>2, <1>8, <1>9 DEF Stage, Gone

\* Whatever the radio prints and the line loses, a packet that arrives whole after the
\* END of the packet before it gets to its handler whole and once, for every size of
\* inbuf and all packets that fit it and are not echoed, as long as its bytes ask for
\* the handler that it is meant for (a frame that starts with '!' does not).
THEOREM IntactPacketsHandled ==
  ASSUME \A f \in Frames : f.to = Handler(f.data)
  PROVE  Spec => []IntactHandled
<1>1. Init => DecoderInv
  <2>. SUFFICES ASSUME Init  PROVE DecoderInv
    OBVIOUS
  <2>1. Len(Line) = 0 /\ Len(sent) = 0 /\ Len(handled) = 0
    BY DEF Init, Line
  <2>2. \A S : \A i \in 1..0 : FALSE
    OBVIOUS
  <2>. QED  BY <2>1, <2>2 DEF DecoderInv, Stages, Known, EscapesEnd
<1>2. TypeOK /\ TypeOK' /\ DecoderInv /\ [Next]_vars => DecoderInv'
  <2>. SUFFICES ASSUME TypeOK, TypeOK', DecoderInv, [Next]_vars  PROVE DecoderInv'
    OBVIOUS
  <2>1. ASSUME NEW f \in Frames, SlipSendPacket(f)  PROVE DecoderInv'
    BY <2>1, StepSend
  <2>2. ASSUME NEW c \in Chars, Putchar(c)  PROVE DecoderInv'
    BY <2>2, StepPutchar
  <2>3. CASE Writeb
    BY <2>3, StepWriteb
  <2>4. CASE Lose
    BY <2>4, StepLose
  <2>5. CASE ReadByte
    BY <2>5, StepReadByte
  <2>6. CASE ReadEscape
    BY <2>6, StepReadEscape
  <2>7. CASE ReadFails
    BY <2>7, StepElse DEF ReadFails
  <2>8. CASE UNCHANGED vars
    BY <2>8, StepElse DEF vars
  <2>. QED  BY <2>1, <2>2, <2>3, <2>4, <2>5, <2>6, <2>7, <2>8 DEF Next
<1>3. TypeOK /\ DecoderInv => IntactHandled
  BY StagesHandle
<1>. QED  BY <1>1, <1>2, <1>3, TypeCorrect, PTL DEF Spec
==============================================================================
