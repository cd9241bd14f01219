----------------------------- MODULE HttpdProofs -----------------------------
(***************************************************************************)
(* Httpd keeps its types, among them the bound on the shared buffer; no    *)
(* block of the pool leaks; and a live connection is the only owner of its *)
(* block, for every number of blocks, connections and rows.  The buffer    *)
(* needs an invariant of its own: a thread adds a heading to what others   *)
(* left in the buffer only once, when it goes on from "end".  And a page   *)
(* that is sent alone shows every row: as long as no other thread goes on, *)
(* what its client has and what is on the way are the rows up to the place *)
(* of its thread and the cursors of the generator.                         *)
(***************************************************************************)
EXTENDS Httpd, FiniteSetTheorems, ListFacts

------------------------------------------------------------------------------
(* The page generator                                                        *)

\* The static variables, without the bound on blen.
Static == [buf : Seq(Item), blen : Nat, nbr : 0..Neighbors, r : 0..Routes, i : Nat]

StaticOK(g) == g \in Static /\ g.blen <= Len(g.buf)

LEMMA SetNbr ==
  ASSUME NEW g, StaticOK(g), NEW n \in 0..Neighbors
  PROVE  LET new == [g EXCEPT !.nbr = n] IN StaticOK(new) /\ new.blen = g.blen /\ new.nbr = n
BY DEF Static, StaticOK

LEMMA AddOK ==
  ASSUME NEW g, StaticOK(g), NEW items \in Seq(Item)
  PROVE  LET new == Add(g, items)
         IN  /\ StaticOK(new) /\ new.blen = g.blen + Len(items)
             /\ new.nbr = g.nbr /\ new.r = g.r /\ new.i = g.i
<1>. DEFINE kept == SubSeq(g.buf, 1, g.blen)
            buf  == kept \o items
<1>1. g.buf \in Seq(Item) /\ g.blen \in Nat /\ g.blen <= Len(g.buf) /\ Len(items) \in Nat
  BY DEF StaticOK, Static
<1>2. \A n \in 1..g.blen : g.buf[n] \in Item
  BY <1>1
<1>3. kept \in Seq(Item) /\ Len(kept) = IF 1 <= g.blen THEN g.blen - 1 + 1 ELSE 0
  BY <1>1, <1>2, SubSeqProperties
<1>. HIDE DEF kept
<1>4. buf \in Seq(Item) /\ Len(buf) = g.blen + Len(items)
  BY <1>1, <1>3, ConcatProperties
<1>5. Add(g, items) = [g EXCEPT !.buf = buf, !.blen = g.blen + Len(items)]
  BY DEF Add, kept, Static, StaticOK
<1>. DEFINE n == g.blen + Len(items)
<1>6. g \in Static /\ n \in Nat
  BY <1>1 DEF StaticOK
<1>7. Add(g, items) = [g EXCEPT !.buf = buf, !.blen = n]
  BY <1>5
<1>8. buf \in Seq(Item)
  BY <1>4
<1>9. n <= Len(buf)
  BY <1>1, <1>4
<1>. HIDE DEF buf, n
<1>. DEFINE new == [g EXCEPT !.buf = buf, !.blen = n]
<1>10. /\ new \in Static /\ new.buf = buf /\ new.blen = n
      /\ new.nbr = g.nbr /\ new.r = g.r /\ new.i = g.i
  BY <1>6, <1>8 DEF Static
<1>. HIDE DEF new
<1>. QED  BY <1>7, <1>9, <1>10 DEF StaticOK, new, n

LEMMA EmptiedOK ==
  ASSUME NEW g, StaticOK(g)
  PROVE  LET new == Emptied(g)
         IN  /\ StaticOK(new) /\ new.blen = 0
             /\ new.nbr = g.nbr /\ new.r = g.r /\ new.i = g.i
BY DEF Emptied, StaticOK, Static

\* A cursor stays in its table.
LEMMA CursorOK ==
  ASSUME NEW n \in Nat, NEW e \in 0..n
  PROVE  Head0(n) \in 0..n /\ Next0(e, n) \in 0..n
BY DEF Head0, Next0

\* The loop over the neighbors ends with a buffer that is at most full.
LEMMA NeighborsOK ==
  ASSUME NEW g, StaticOK(g), g.blen < Full
  PROVE  LET next == NeighborsFrom(g)
         IN  /\ StaticOK(next.gen) /\ next.gen.blen <= Full
             /\ next.at \in {"neighbors", "routes"}
<1>. DEFINE room == Full - g.blen
            left == IF g.nbr = 0 THEN 0 ELSE Neighbors - g.nbr + 1
            rows(n) == [k \in 1..n |-> Row("neighbor", g.nbr + k - 1)]
<1>1. /\ g.blen \in Nat /\ g.nbr \in 0..Neighbors /\ room \in Nat /\ room > 0
      /\ left \in Nat /\ Full \in Nat /\ Neighbors \in Nat
  BY HttpdAssumption DEF StaticOK, Static
<1>2. ASSUME NEW n \in Nat
      PROVE  rows(n) \in Seq(Item) /\ Len(rows(n)) = n
  <2>1. \A k \in 1..n : Row("neighbor", g.nbr + k - 1) \in Item
    BY <1>1 DEF Row, Item, Tables
  <2>. QED  BY <2>1
<1>3. Text("Routes") \in Item
  BY DEF Text, Item
<1>4. NeighborsFrom(g) =
        IF room <= left
        THEN Wait("neighbors", [Add(g, rows(room)) EXCEPT !.nbr = @ + room - 1])
        ELSE Wait("routes", [Add(g, rows(left) \o <<Text("Routes")>>) EXCEPT !.nbr = 0])
  BY <1>1 DEF NeighborsFrom
<1>5. CASE room <= left
  <2>1. rows(room) \in Seq(Item) /\ Len(rows(room)) = room
    BY <1>1, <1>2
  <2>. DEFINE new == Add(g, rows(room))
  <2>2. StaticOK(new) /\ new.blen = Full /\ new.nbr = g.nbr
    <3>1. StaticOK(new) /\ new.blen = g.blen + room /\ new.nbr = g.nbr
      BY <2>1, AddOK
    <3>. QED  BY <1>1, <3>1
  <2>3. g.nbr + room - 1 \in 0..Neighbors
    BY <1>1, <1>5
  <2>. DEFINE last == [new EXCEPT !.nbr = g.nbr + room - 1]
  <2>4. NeighborsFrom(g) = Wait("neighbors", last)
    <3>1. [new EXCEPT !.nbr = @ + room - 1] = last
      BY <2>2
    <3>. QED  BY <1>4, <1>5, <3>1
  <2>. HIDE DEF new, room
  <2>5. StaticOK(last) /\ last.blen = Full
    BY <2>2, <2>3, SetNbr
  <2>. HIDE DEF last
  <2>6. NeighborsFrom(g).gen = last /\ NeighborsFrom(g).at = "neighbors"
    BY <2>4 DEF Wait
  <2>. QED  BY <1>1, <2>5, <2>6
<1>6. CASE ~(room <= left)
  <2>. DEFINE all == rows(left) \o <<Text("Routes")>>
              new == Add(g, all)
  <2>1. all \in Seq(Item) /\ Len(all) = left + 1
    <3>1. rows(left) \in Seq(Item) /\ Len(rows(left)) = left
      BY <1>1, <1>2
    <3>2. <<Text("Routes")>> \in Seq(Item) /\ Len(<<Text("Routes")>>) = 1
      BY <1>3
    <3>. HIDE DEF rows
    <3>. QED  BY <3>1, <3>2, ConcatProperties
  <2>2. NeighborsFrom(g) = Wait("routes", [new EXCEPT !.nbr = 0])
    BY <1>4, <1>6
  <2>. HIDE DEF all
  <2>3. StaticOK(new) /\ new.blen = g.blen + (left + 1)
    BY <2>1, AddOK
  <2>4. new.blen <= Full
    BY <1>1, <1>6, <2>3
  <2>. HIDE DEF new
  <2>. DEFINE last == [new EXCEPT !.nbr = 0]
  <2>5. 0 \in 0..Neighbors
    BY <1>1
  <2>6. StaticOK(last) /\ last.blen = new.blen
    BY <2>3, <2>5, SetNbr
  <2>7. NeighborsFrom(g) = Wait("routes", last)
    BY <2>2
  <2>. HIDE DEF last
  <2>8. NeighborsFrom(g).gen = last /\ NeighborsFrom(g).at = "routes"
    BY <2>7 DEF Wait
  <2>. QED  BY <2>4, <2>6, <2>8
<1>. QED  BY <1>5, <1>6

\* One row or one heading more.
LEMMA AddOne ==
  ASSUME NEW g, StaticOK(g), NEW item \in Item
  PROVE  LET new == Add(g, <<item>>)
         IN  /\ StaticOK(new) /\ new.blen = g.blen + 1
             /\ new.nbr = g.nbr /\ new.r = g.r /\ new.i = g.i
<1>1. <<item>> \in Seq(Item) /\ Len(<<item>>) = 1
  OBVIOUS
<1>. QED  BY <1>1, AddOK

LEMMA RoutesOK ==
  ASSUME NEW g, StaticOK(g), g.blen = 0
  PROVE  LET next == RoutesFrom(g)
         IN  StaticOK(next.gen) /\ next.gen.blen = 1 /\ next.at \in {"route", "end"}
<1>1. Row("route", g.r) \in Item /\ Text("end") \in Item
  BY HttpdAssumption DEF StaticOK, Static, Row, Text, Item, Tables
<1>. QED  BY <1>1, AddOne DEF RoutesFrom, Wait

LEMMA SensorsOK ==
  ASSUME NEW g, StaticOK(g), g.blen = 0
  PROVE  LET next == SensorsFrom(g)
         IN  StaticOK(next.gen) /\ next.gen.blen = 1 /\ next.at \in {"sensor", "endsensors"}
<1>1. Row("sensor", g.i + 1) \in Item /\ Text("end") \in Item
  BY DEF StaticOK, Static, Row, Text, Item, Tables
<1>. QED  BY <1>1, AddOne DEF SensorsFrom, Wait

LEMMA SetCursors ==
  ASSUME NEW g, StaticOK(g), NEW n \in 0..Neighbors, NEW m \in 0..Routes, NEW k \in Nat
  PROVE  /\ StaticOK([g EXCEPT !.r = m]) /\ [g EXCEPT !.r = m].blen = g.blen
         /\ StaticOK([g EXCEPT !.i = k]) /\ [g EXCEPT !.i = k].blen = g.blen
BY DEF Static, StaticOK

\* A thread that goes on leaves the buffer alone, fills it anew, or adds a heading.
LEMMA ResumedOK ==
  ASSUME NEW g, StaticOK(g), NEW at \in Places
  PROVE  LET next == Resumed(at, g)
         IN  /\ StaticOK(next.gen) /\ next.at \in Places
             /\ \/ next.gen = g /\ next.at # "end"
                \/ next.gen.blen <= Full
                \/ at = "end" /\ next.at # "end" /\ next.gen.blen = g.blen + 1
<1>. DEFINE next == Resumed(at, g)
            e == Emptied(g)
            OK == /\ StaticOK(next.gen) /\ next.at \in Places
                  /\ \/ next.gen = g /\ next.at # "end"
                     \/ next.gen.blen <= Full
                     \/ at = "end" /\ next.at # "end" /\ next.gen.blen = g.blen + 1
<1>1. Neighbors \in Nat /\ Routes \in Nat /\ Full \in Nat /\ Full > 1
  BY HttpdAssumption
<1>2. StaticOK(e) /\ e.blen = 0 /\ e.nbr \in 0..Neighbors /\ e.r \in 0..Routes /\ e.i \in Nat
  BY EmptiedOK DEF StaticOK, Static
<1>3. \A m \in 0..Neighbors : StaticOK([e EXCEPT !.nbr = m]) /\ [e EXCEPT !.nbr = m].blen = 0
  BY <1>2, SetNbr
<1>4. \A m \in 0..Routes : StaticOK([e EXCEPT !.r = m]) /\ [e EXCEPT !.r = m].blen = 0
  BY <1>1, <1>2, SetCursors
<1>5. \A m \in Nat : StaticOK([e EXCEPT !.i = m]) /\ [e EXCEPT !.i = m].blen = 0
  BY <1>1, <1>2, SetCursors
<1>6. CASE at \in {"start", "headers", "endsensors", "bottom"}
  <2>1. next = Wait(next.at, g) /\ next.at \in {"headers", "top", "bottom", "start"}
    BY <1>6 DEF Resumed, Wait
  <2>2. next.gen = g
    BY <2>1 DEF Wait
  <2>. QED  BY <2>1, <2>2 DEF Places, Constant
<1>7. CASE at = "top"
  <2>. DEFINE h == Add(e, <<Text("Neighbors")>>)
              f == [h EXCEPT !.nbr = Head0(Neighbors)]
  <2>1. next = NeighborsFrom(f)
    BY <1>7 DEF Resumed
  <2>2. Text("Neighbors") \in Item
    BY DEF Text, Item
  <2>3. StaticOK(h) /\ h.blen = 1
    BY <1>2, <2>2, AddOne
  <2>4. Head0(Neighbors) \in 0..Neighbors
    BY <1>1 DEF Head0
  <2>. HIDE DEF h
  <2>5. StaticOK(f) /\ f.blen = 1
    BY <2>3, <2>4, SetNbr
  <2>. HIDE DEF f
  <2>. QED  BY <1>1, <2>1, <2>5, NeighborsOK DEF Places
<1>8. CASE at = "neighbors"
  <2>. DEFINE f == [e EXCEPT !.nbr = Next0(e.nbr, Neighbors)]
  <2>1. next = NeighborsFrom(f)
    BY <1>8 DEF Resumed
  <2>2. Next0(e.nbr, Neighbors) \in 0..Neighbors
    BY <1>1, <1>2, CursorOK
  <2>3. StaticOK(f) /\ f.blen = 0
    BY <1>3, <2>2
  <2>. HIDE DEF f
  <2>. QED  BY <1>1, <2>1, <2>3, NeighborsOK DEF Places
<1>9. CASE at \in {"routes", "route"}
  <2>. DEFINE m == IF at = "routes" THEN Head0(Routes) ELSE Next0(e.r, Routes)
              f == [e EXCEPT !.r = m]
  <2>1. next = RoutesFrom(f)
    BY <1>9 DEF Resumed
  <2>2. m \in 0..Routes
    BY <1>1, <1>2, CursorOK
  <2>3. StaticOK(f) /\ f.blen = 0
    BY <1>4, <2>2
  <2>. HIDE DEF f
  <2>. QED  BY <1>1, <2>1, <2>3, RoutesOK DEF Places
<1>10. CASE at = "end"
  <2>1. Text("Sensors") \in Item
    BY DEF Text, Item
  <2>2. LET h == Add(g, <<Text("Sensors")>>) IN StaticOK(h) /\ h.blen = g.blen + 1
    BY <2>1, AddOne
  <2>3. \/ next.gen = g /\ next.at = "bottom"
        \/ next.gen = Add(g, <<Text("Sensors")>>) /\ next.at = "sensors"
    BY <1>10 DEF Resumed, Wait
  <2>. QED  BY <1>10, <2>2, <2>3 DEF Places, Constant
<1>11. CASE at \in {"sensors", "sensor"}
  <2>. DEFINE m == IF at = "sensors" THEN 0 ELSE e.i + 1
              f == [e EXCEPT !.i = m]
  <2>1. next = SensorsFrom(f)
    BY <1>11 DEF Resumed
  <2>2. m \in Nat
    BY <1>2
  <2>3. StaticOK(f) /\ f.blen = 0
    BY <1>5, <2>2
  <2>. HIDE DEF f
  <2>. QED  BY <1>1, <2>1, <2>3, SensorsOK DEF Places
<1>. QED  BY <1>6, <1>7, <1>8, <1>9, <1>10, <1>11 DEF Places, Constant

\* What is handed to uIP are items.
LEMMA SendsOK ==
  ASSUME NEW g, StaticOK(g), NEW at \in Places, NEW n \in Nat
  PROVE  Sends(at, g, n) \in Seq(Item)
<1>. DEFINE m == IF n <= Len(g.buf) THEN n ELSE Len(g.buf)
<1>1. g.buf \in Seq(Item) /\ m \in Nat /\ m <= Len(g.buf)
  BY DEF StaticOK, Static
<1>2. \A k \in 1..m : g.buf[k] \in Item
  BY <1>1
<1>. HIDE DEF m
<1>3. SubSeq(g.buf, 1, m) \in Seq(Item)
  BY <1>1, <1>2, SubSeqProperties
<1>4. at \in Constant => Text(at) \in Item
  BY DEF Text, Item, Constant
<1>5. Sends(at, g, n) = IF at \in Constant THEN <<Text(at)>> ELSE SubSeq(g.buf, 1, m)
  BY DEF Sends, m
<1>. QED  BY <1>3, <1>4, <1>5

------------------------------------------------------------------------------
(* The bound on the buffer                                                   *)

\* The blocks whose thread cannot add a heading to what is in the buffer.
Elsewhere == {b \in Blocks : httpd[b].at # "end"}

GeneratorOK ==
  /\ gen \in Generator /\ gen.blen <= Len(gen.buf) /\ httpd \in [Blocks -> HttpdState]
  /\ gen.blen <= Full + Cardinality(Elsewhere)

LEMMA CountBlocks ==
  ASSUME NEW S \in SUBSET Blocks
  PROVE  /\ Cardinality(S) \in 0..CONNS
         /\ \A T \in SUBSET S : Cardinality(T) <= Cardinality(S)
         /\ \A b \in Blocks \ S : Cardinality(S \cup {b}) = Cardinality(S) + 1
<1>1. IsFiniteSet(Blocks) /\ Cardinality(Blocks) = CONNS
  BY HttpdAssumption, FS_Interval DEF Blocks
<1>2. IsFiniteSet(S) /\ Cardinality(S) <= CONNS
  BY <1>1, FS_Subset
<1>3. Cardinality(S) \in Nat
  BY <1>2, FS_CardinalityType
<1>4. \A T \in SUBSET S : Cardinality(T) <= Cardinality(S)
  BY <1>2, FS_Subset
<1>5. \A b \in Blocks \ S : Cardinality(S \cup {b}) = Cardinality(S) + 1
  BY <1>2, FS_AddElement
<1>. QED  BY <1>2, <1>3, <1>4, <1>5, HttpdAssumption

\* Nothing is added, and nobody comes to "end".
LEMMA GeneratorStays ==
  ASSUME GeneratorOK, UNCHANGED gen, httpd' \in [Blocks -> HttpdState],
         \A b \in Blocks : httpd'[b].at = "end" => httpd[b].at = "end"
  PROVE  GeneratorOK'
<1>1. Elsewhere \subseteq Elsewhere' /\ Elsewhere' \in SUBSET Blocks
  BY DEF Elsewhere
<1>2. Cardinality(Elsewhere) <= Cardinality(Elsewhere') /\ Cardinality(Elsewhere') \in 0..CONNS
  BY <1>1, CountBlocks
<1>3. Cardinality(Elsewhere) \in 0..CONNS
  BY CountBlocks DEF Elsewhere
<1>4. gen.blen \in Nat /\ Full \in Nat
  BY HttpdAssumption DEF GeneratorOK, Generator, Blen
<1>5. gen.blen <= Full + Cardinality(Elsewhere')
  BY <1>2, <1>3, <1>4 DEF GeneratorOK
<1>. QED  BY <1>5 DEF GeneratorOK

\* Output and HandleConnection keep the generator, and types of what they change.
Changed(c) ==
  /\ GeneratorOK' /\ wire' \in [Conns -> Seq(Item)] /\ mixed' \subseteq Conns
  /\ tcp' = tcp \/ (tcp[c] = "open" /\ tcp' = [tcp EXCEPT ![c] = "closing"])

LEMMA OutputOK ==
  ASSUME TypeOK, GeneratorOK, NEW c \in Conns, NEW b \in Blocks, NEW h \in HttpdState,
         h.at = httpd[b].at, tcp[c] = "open", Output(c, b, h)
  PROVE  Changed(c)
<1>. DEFINE next == Resumed(h.at, gen)
            new == [h EXCEPT !.at = next.at, !.sendlen = next.gen.blen]
<1>1. StaticOK(gen) /\ h.at \in Places /\ gen.blen \in Nat
  BY DEF GeneratorOK, Generator, Blen, StaticOK, Static, HttpdState
<1>2. /\ StaticOK(next.gen) /\ next.at \in Places
      /\ \/ next.gen = gen /\ next.at # "end"
         \/ next.gen.blen <= Full
         \/ h.at = "end" /\ next.at # "end" /\ next.gen.blen = gen.blen + 1
  BY <1>1, ResumedOK
<1>. HIDE DEF next
<1>3. next.gen.blen \in Nat /\ next.gen \in Static /\ next.gen.blen <= Len(next.gen.buf)
  BY <1>2 DEF StaticOK, Static
<1>4. gen' = next.gen /\ httpd' = [httpd EXCEPT ![b] = new]
  BY DEF Output, next
<1>5. httpd'[b].at = next.at /\ \A d \in Blocks \ {b} : httpd'[d] = httpd[d]
  BY <1>4 DEF HttpdState, GeneratorOK
<1>6. Elsewhere \in SUBSET Blocks /\ Elsewhere' \in SUBSET Blocks
  BY DEF Elsewhere
<1>. DEFINE k == Cardinality(Elsewhere)
            k2 == Cardinality(Elsewhere')
<1>7. k \in 0..CONNS /\ k2 \in 0..CONNS /\ Full \in Nat /\ CONNS \in Nat /\ gen.blen <= Full + k
  BY <1>6, CountBlocks, HttpdAssumption DEF GeneratorOK
<1>8. next.gen.blen <= Full + k2
  <2>1. CASE next.gen = gen /\ next.at # "end"
    <3>1. Elsewhere \subseteq Elsewhere'
      BY <1>5, <2>1 DEF Elsewhere
    <3>2. k <= k2
      BY <1>6, <3>1, CountBlocks
    <3>. QED  BY <1>1, <1>7, <2>1, <3>2
  <2>2. CASE next.gen.blen <= Full
    BY <1>3, <1>7, <2>2
  <2>3. CASE h.at = "end" /\ next.at # "end" /\ next.gen.blen = gen.blen + 1
    <3>1. b \in Blocks \ Elsewhere /\ Elsewhere' = Elsewhere \cup {b}
      BY <1>5, <2>3 DEF Elsewhere
    <3>2. k2 = k + 1
      BY <1>6, <3>1, CountBlocks
    <3>. QED  BY <1>1, <1>7, <2>3, <3>2
  <2>. QED  BY <1>2, <2>1, <2>2, <2>3
<1>9. next.gen.blen \in Blen
  BY <1>3, <1>7, <1>8 DEF Blen
<1>10. httpd' \in [Blocks -> HttpdState]
  <2>1. new \in HttpdState
    BY <1>2, <1>9 DEF HttpdState
  <2>. HIDE DEF new
  <2>. QED  BY <1>4, <2>1 DEF GeneratorOK
<1>11. next.gen \in Generator
  BY <1>3, <1>9 DEF Static, Generator
<1>12. GeneratorOK'
  BY <1>3, <1>4, <1>8, <1>10, <1>11 DEF GeneratorOK
<1>13. wire' \in [Conns -> Seq(Item)]
  <2>1. Sends(next.at, next.gen, next.gen.blen) \in Seq(Item)
    BY <1>2, <1>3, SendsOK
  <2>. DEFINE w == IF next.at = "start" THEN << >> ELSE Sends(next.at, next.gen, next.gen.blen)
  <2>2. w \in Seq(Item) /\ wire' = [wire EXCEPT ![c] = w]
    BY <2>1 DEF Output, next
  <2>. HIDE DEF w
  <2>. QED  BY <2>2 DEF TypeOK
<1>14. mixed' \subseteq Conns
  BY DEF Output, TypeOK
<1>15. tcp' = tcp \/ tcp' = [tcp EXCEPT ![c] = "closing"]
  BY DEF Output, TypeOK
<1>. QED  BY <1>12, <1>13, <1>14, <1>15 DEF Changed

LEMMA HandleConnectionOK ==
  ASSUME TypeOK, GeneratorOK, NEW c \in Conns, NEW b \in Blocks, NEW h \in HttpdState,
         h.at = httpd[b].at, tcp[c] = "open", NEW acked \in BOOLEAN,
         HandleConnection(c, b, h, acked)
  PROVE  Changed(c)
<1>1. CASE Output(c, b, h)
  BY <1>1, OutputOK
<1>2. CASE /\ httpd' = [httpd EXCEPT ![b] = h]
           /\ wire' = [wire EXCEPT ![c] = IF acked THEN << >> ELSE @]
           /\ UNCHANGED <<tcp, gen, mixed>>
  <2>1. httpd' \in [Blocks -> HttpdState] /\ \A d \in Blocks : httpd'[d].at = httpd[d].at
    BY <1>2 DEF GeneratorOK
  <2>2. GeneratorOK'
    BY <1>2, <2>1, GeneratorStays
  <2>3. wire' \in [Conns -> Seq(Item)]
    BY <1>2 DEF TypeOK
  <2>. QED  BY <1>2, <2>2, <2>3 DEF Changed, TypeOK
<1>. QED  BY <1>1, <1>2 DEF HandleConnection
------------------------------------------------------------------------------
(* Types                                                                     *)

LEMMA FreshOK == Fresh \in HttpdState /\ Fresh.at = "start"
BY HttpdAssumption DEF Fresh, HttpdState, Places, Blen

LEMMA TypeInit == Init => TypeOK /\ GeneratorOK
<1>. SUFFICES ASSUME Init  PROVE TypeOK /\ GeneratorOK
  OBVIOUS
<1>1. /\ CONNS \in Nat /\ Full \in Nat /\ MaxOpened \in Nat
      /\ Neighbors \in Nat /\ Routes \in Nat
  BY HttpdAssumption
<1>2. httpd \in [Blocks -> HttpdState]
  BY FreshOK DEF Init
<1>3. << >> \in Seq(Item) /\ Len(<< >>) = 0
  OBVIOUS
<1>4. /\ gen.buf = << >> /\ gen.blen = 0
      /\ gen = [buf |-> << >>, blen |-> 0, nbr |-> 0, r |-> 0, i |-> 0]
  BY DEF Init
<1>5. gen \in Generator /\ gen.blen <= Len(gen.buf)
  BY <1>1, <1>3, <1>4 DEF Generator, Blen
<1>6. Cardinality(Elsewhere) \in 0..CONNS
  BY CountBlocks DEF Elsewhere
<1>7. GeneratorOK
  BY <1>1, <1>2, <1>4, <1>5, <1>6 DEF GeneratorOK
<1>8. /\ tcp \in [Conns -> {"closed", "open", "closing", "lingering"}]
      /\ state \in [Conns -> Blocks \cup {Null}]
      /\ \A c \in Conns : tcp[c] = "closed" <=> state[c] = Null
  BY DEF Init
<1>9. wire \in [Conns -> Seq(Item)] /\ got \in [Conns -> Seq(Item)]
  BY <1>3 DEF Init
<1>10. opened \in 0..MaxOpened /\ mixed \subseteq Conns /\ used \subseteq Blocks
  BY <1>1 DEF Init
<1>11. stolen \in BOOLEAN /\ dropped \subseteq used
  BY DEF Init
<1>12. TypeOK
  BY <1>2, <1>5, <1>8, <1>9, <1>10, <1>11 DEF TypeOK
<1>. QED  BY <1>7, <1>12

\* A connection that is not closed has a block.
LEMMA HasBlock ==
  ASSUME TypeOK, NEW c \in Conns, tcp[c] # "closed"
  PROVE  state[c] \in Blocks
BY DEF TypeOK

\* The handlers that end in handle_connection.
LEMMA ChangedOK ==
  ASSUME TypeOK, NEW c \in Conns, Changed(c), UNCHANGED <<state, pool, opened, stolen>>,
         got' \in [Conns -> Seq(Item)]
  PROVE  TypeOK' /\ GeneratorOK'
<1>1. /\ gen' \in Generator /\ gen'.blen <= Len(gen'.buf) /\ httpd' \in [Blocks -> HttpdState]
      /\ wire' \in [Conns -> Seq(Item)] /\ mixed' \subseteq Conns /\ GeneratorOK'
  BY DEF Changed, GeneratorOK
<1>2. /\ tcp' \in [Conns -> {"closed", "open", "closing", "lingering"}]
      /\ \A d \in Conns : tcp'[d] = "closed" <=> state[d] = Null
  BY DEF Changed, TypeOK
<1>. QED  BY <1>1, <1>2 DEF TypeOK, pool

LEMMA EndsOK ==
  ASSUME TypeOK, GeneratorOK, NEW c \in Conns, tcp[c] # "closed", NEW to \in {"closed", "lingering"},
         Ends(c, to), used' \subseteq used, dropped' \subseteq used', stolen' \in BOOLEAN
  PROVE  TypeOK' /\ GeneratorOK'
<1>1. /\ tcp' = [tcp EXCEPT ![c] = to] /\ UNCHANGED <<gen, opened>>
      /\ state' = [state EXCEPT ![c] = IF to = "lingering" THEN @ ELSE Null]
      /\ wire' = [wire EXCEPT ![c] = << >>] /\ got' = [got EXCEPT ![c] = << >>]
      /\ mixed' = mixed \ {c}
  BY DEF Ends
<1>2. state[c] \in Blocks /\ state[c] # Null
  BY HasBlock DEF Blocks, Null
<1>3. /\ tcp' \in [Conns -> {"closed", "open", "closing", "lingering"}]
      /\ state' \in [Conns -> Blocks \cup {Null}]
  BY <1>1 DEF TypeOK
<1>4. \A d \in Conns : tcp'[d] = "closed" <=> state'[d] = Null
  BY <1>1, <1>2 DEF TypeOK
<1>5. /\ httpd' \in [Blocks -> HttpdState]
      /\ \A b \in Blocks : httpd'[b].at = "end" => httpd[b].at = "end"
  <2>1. httpd' = [b \in Blocks |-> IF \E d \in Conns \ {c} : Live(d) /\ state[d] = b
                                   THEN httpd[b] ELSE Fresh]
    BY DEF Ends
  <2>2. httpd \in [Blocks -> HttpdState]
    BY DEF TypeOK
  <2>3. \A b \in Blocks : httpd'[b] = httpd[b] \/ httpd'[b] = Fresh
    BY <2>1
  <2>. QED  BY <2>1, <2>2, <2>3, FreshOK
<1>6. GeneratorOK'
  BY <1>1, <1>5, GeneratorStays
<1>7. wire' \in [Conns -> Seq(Item)] /\ got' \in [Conns -> Seq(Item)]
  BY <1>1 DEF TypeOK
<1>. QED  BY <1>1, <1>3, <1>4, <1>5, <1>6, <1>7 DEF TypeOK

LEMMA TypeStep == TypeOK /\ GeneratorOK /\ [Next]_vars => TypeOK' /\ GeneratorOK'
<1>. SUFFICES ASSUME TypeOK, GeneratorOK, [Next]_vars  PROVE TypeOK' /\ GeneratorOK'
  OBVIOUS
<1>1. ASSUME NEW c \in Conns, Connect(c)  PROVE TypeOK' /\ GeneratorOK'
  <2>1. /\ UNCHANGED <<gen, wire, got, mixed, stolen, dropped>> /\ opened' \in 0..MaxOpened
        /\ tcp[c] = "closed"
    BY <1>1, HttpdAssumption DEF Connect, First, TypeOK
  <2>2. CASE used = Blocks
    <3>1. UNCHANGED <<tcp, state, used, httpd>>
      BY <1>1, <2>2 DEF Connect, uip
    <3>2. GeneratorOK'
      BY <2>1, <3>1, GeneratorStays DEF GeneratorOK
    <3>. QED  BY <2>1, <3>1, <3>2 DEF TypeOK
  <2>3. CASE used # Blocks
    <3>1. PICK b \in Blocks : /\ used' = used \cup {b} /\ state' = [state EXCEPT ![c] = b]
                              /\ httpd' = [httpd EXCEPT ![b] = Fresh]
                              /\ tcp' = [tcp EXCEPT ![c] = "open"]
      BY <1>1, <2>3 DEF Connect
    <3>2. /\ httpd' \in [Blocks -> HttpdState]
          /\ \A d \in Blocks : httpd'[d].at = "end" => httpd[d].at = "end"
      BY <3>1, FreshOK DEF TypeOK
    <3>3. GeneratorOK'
      BY <2>1, <3>2, GeneratorStays
    <3>4. b # Null
      BY DEF Blocks, Null
    <3>5. \A d \in Conns : tcp'[d] = "closed" <=> state'[d] = Null
      BY <3>1, <3>4 DEF TypeOK
    <3>. QED  BY <2>1, <3>1, <3>2, <3>3, <3>5 DEF TypeOK
  <2>. QED  BY <2>2, <2>3
<1>2. ASSUME NEW c \in Conns, NewData(c)  PROVE TypeOK' /\ GeneratorOK'
  <2>. DEFINE b == state[c]
  <2>1. tcp[c] = "open" /\ UNCHANGED <<state, pool, got, opened, stolen>>
    BY <1>2 DEF NewData
  <2>2. b \in Blocks /\ httpd[b] \in HttpdState
    BY <2>1, HasBlock DEF TypeOK
  <2>3. CASE \E to \in {"path", "rest"} :
               HandleConnection(c, b, [httpd[b] EXCEPT !.input = to, !.output = @ \/ to = "rest"], FALSE)
    <3>1. PICK to \in {"path", "rest"} :
            HandleConnection(c, b, [httpd[b] EXCEPT !.input = to, !.output = @ \/ to = "rest"], FALSE)
      BY <2>3
    <3>. DEFINE h == [httpd[b] EXCEPT !.input = to, !.output = @ \/ to = "rest"]
    <3>2. h \in HttpdState /\ h.at = httpd[b].at
      BY <2>2 DEF HttpdState
    <3>. HIDE DEF h
    <3>3. Changed(c)
      BY <2>1, <2>2, <3>1, <3>2, HandleConnectionOK DEF h
    <3>. QED  BY <2>1, <3>3, ChangedOK DEF TypeOK
  <2>4. CASE HandleConnection(c, b, httpd[b], FALSE)
    <3>1. Changed(c)
      BY <2>1, <2>2, <2>4, HandleConnectionOK
    <3>. QED  BY <2>1, <3>1, ChangedOK DEF TypeOK
  <2>5. CASE /\ httpd' = [httpd EXCEPT ![b] = [httpd[b] EXCEPT !.input = "method"]]
             /\ tcp' = [tcp EXCEPT ![c] = "closing"]
             /\ UNCHANGED <<gen, wire, mixed>>
    <3>. DEFINE h == [httpd[b] EXCEPT !.input = "method"]
    <3>1. h \in HttpdState /\ h.at = httpd[b].at
      BY <2>2 DEF HttpdState
    <3>2. httpd' = [httpd EXCEPT ![b] = h]
      BY <2>5
    <3>. HIDE DEF h
    <3>3. httpd' \in [Blocks -> HttpdState] /\ \A d \in Blocks : httpd'[d].at = httpd[d].at
      BY <3>1, <3>2 DEF TypeOK
    <3>4. GeneratorOK'
      BY <2>5, <3>3, GeneratorStays
    <3>5. Changed(c)
      BY <2>1, <2>5, <3>4 DEF Changed, TypeOK
    <3>. QED  BY <2>1, <3>5, ChangedOK DEF TypeOK
  <2>. QED  BY <1>2, <2>3, <2>4, <2>5 DEF NewData
<1>3. ASSUME NEW c \in Conns, Acked(c)  PROVE TypeOK' /\ GeneratorOK'
  <2>1. tcp[c] = "open" /\ UNCHANGED <<state, pool, opened, stolen>>
    BY <1>3 DEF Acked
  <2>2. state[c] \in Blocks /\ httpd[state[c]] \in HttpdState
    BY <2>1, HasBlock DEF TypeOK
  <2>3. Changed(c)
    BY <1>3, <2>1, <2>2, HandleConnectionOK DEF Acked
  <2>4. got' \in [Conns -> Seq(Item)]
    <3>1. got[c] \in Seq(Item) /\ wire[c] \in Seq(Item)
      BY DEF TypeOK
    <3>2. got[c] \o wire[c] \in Seq(Item)
      BY <3>1, ConcatProperties
    <3>. DEFINE w == IF c \in mixed' THEN << >> ELSE got[c] \o wire[c]
    <3>3. got' = [got EXCEPT ![c] = w]
      BY <1>3 DEF Acked
    <3>4. w \in Seq(Item)
      BY <3>2
    <3>. HIDE DEF w
    <3>. QED  BY <3>3, <3>4 DEF TypeOK
  <2>. QED  BY <2>1, <2>3, <2>4, ChangedOK
<1>4. ASSUME NEW c \in Conns, Rexmit(c)  PROVE TypeOK' /\ GeneratorOK'
  <2>. DEFINE h == httpd[state[c]]
  <2>1. tcp[c] = "open" /\ UNCHANGED <<state, pool, got, opened, stolen>>
    BY <1>4 DEF Rexmit
  <2>2. state[c] \in Blocks /\ h \in HttpdState
    BY <2>1, HasBlock DEF TypeOK
  <2>3. CASE HandleConnection(c, state[c], h, FALSE)
    <3>1. Changed(c)
      BY <2>1, <2>2, <2>3, HandleConnectionOK
    <3>. QED  BY <2>1, <3>1, ChangedOK DEF TypeOK
  <2>4. CASE /\ wire' = [wire EXCEPT ![c] = Sends(h.at, gen, h.sendlen)]
             /\ httpd' = [httpd EXCEPT ![state[c]] = h] /\ UNCHANGED <<tcp, gen, mixed>>
    <3>1. StaticOK(gen) /\ h.at \in Places /\ h.sendlen \in Nat
      BY <2>2 DEF GeneratorOK, Generator, StaticOK, Static, Blen, HttpdState
    <3>2. Sends(h.at, gen, h.sendlen) \in Seq(Item)
      BY <3>1, SendsOK
    <3>3. wire' \in [Conns -> Seq(Item)]
      BY <2>4, <3>2 DEF TypeOK
    <3>4. httpd' = httpd
      BY <2>4 DEF TypeOK
    <3>5. GeneratorOK'
      BY <2>4, <3>4, GeneratorStays DEF TypeOK
    <3>6. Changed(c)
      BY <2>4, <3>3, <3>5 DEF Changed, TypeOK
    <3>. QED  BY <2>1, <3>6, ChangedOK DEF TypeOK
  <2>. QED  BY <1>4, <2>3, <2>4 DEF Rexmit
<1>5. ASSUME NEW c \in Conns, Poll(c)  PROVE TypeOK' /\ GeneratorOK'
  <2>1. tcp[c] = "open" /\ UNCHANGED <<state, pool, got, opened, stolen>>
    BY <1>5 DEF Poll
  <2>2. state[c] \in Blocks /\ httpd[state[c]] \in HttpdState
    BY <2>1, HasBlock DEF TypeOK
  <2>3. Changed(c)
    BY <1>5, <2>1, <2>2, HandleConnectionOK DEF Poll
  <2>. QED  BY <2>1, <2>3, ChangedOK DEF TypeOK
<1>6. ASSUME NEW c \in Conns,
             PollLate(c) \/ ClosedByClient(c) \/ Aborted(c) \/ TimedOut(c)
             \/ Dropped(c) \/ ReportedAgain(c) \/ Forgotten(c)
      PROVE  TypeOK' /\ GeneratorOK'
  <2>1. PICK to \in {"closed", "lingering"} : Ends(c, to)
    BY <1>6 DEF PollLate, ClosedByClient, Aborted, TimedOut, Dropped,
              ReportedAgain, Forgotten, Freed
  <2>2. tcp[c] # "closed" /\ used' \subseteq used /\ dropped' \subseteq used'
    BY <1>6 DEF PollLate, ClosedByClient, Aborted, TimedOut, Dropped,
              ReportedAgain, Forgotten, Freed, Free, Live, pool, TypeOK
  <2>3. stolen' \in BOOLEAN
    BY <1>6 DEF PollLate, ClosedByClient, Aborted, TimedOut, Dropped,
              ReportedAgain, Forgotten, TypeOK
  <2>. QED  BY <2>1, <2>2, <2>3, EndsOK
<1>7. CASE UNCHANGED vars
  <2>1. UNCHANGED <<tcp, state, used, dropped, httpd, gen, wire, got, opened, mixed, stolen>>
    BY <1>7 DEF vars, uip, hist, pool
  <2>. QED  BY <2>1 DEF TypeOK, GeneratorOK, Elsewhere
<1>. QED  BY <1>1, <1>2, <1>3, <1>4, <1>5, <1>6, <1>7 DEF Next

(***************************************************************************)
(* All that Httpd keeps stays in its types: the buffer that connections    *)
(* share never holds more than a full one and a heading for each block.    *)
(***************************************************************************)
THEOREM TypeCorrect == Spec => []TypeOK
<1>1. TypeOK /\ GeneratorOK /\ [Next]_vars => (TypeOK /\ GeneratorOK)'
  BY TypeStep
<1>2. Init => TypeOK /\ GeneratorOK
  BY TypeInit
<1>. QED  BY <1>1, <1>2, PTL DEF Spec
------------------------------------------------------------------------------
(* The pool                                                                  *)

\* What the handlers change of the pool, and of which connections live: nothing;
Stays == UNCHANGED <<state, used, dropped, stolen>> /\ \A d \in Conns : Live(d)' = Live(d)

\* a connection gets a block that is free;
Gets(c, b) ==
  /\ b \in Blocks \ used /\ used' = used \cup {b} /\ state' = [state EXCEPT ![c] = b]
  /\ ~Live(c) /\ Live(c)' /\ \A d \in Conns \ {c} : Live(d)' = Live(d)
  /\ UNCHANGED <<dropped, stolen>>

\* or a connection leaves, and its block is freed, perhaps for the second time, or
\* not any more, or lost.
FreesBlock(c) == Free(state[c]) /\ \/ Live(c) /\ UNCHANGED stolen
                                   \/ stolen' = (stolen \/ state[c] \in used)

LosesBlock(c) == /\ Live(c) /\ dropped' = dropped \cup ({state[c]} \cap used)
                 /\ UNCHANGED <<used, stolen>>

Leaves(c) ==
  /\ ~Live(c)' /\ \A d \in Conns \ {c} : Live(d)' = Live(d) /\ state'[d] = state[d]
  /\ FreesBlock(c) \/ LosesBlock(c) \/ (UNCHANGED <<used, dropped, stolen>> /\ ~Live(c))

LEMMA PoolSteps ==
  ASSUME TypeOK, GeneratorOK, [Next]_vars
  PROVE  Stays \/ (\E c \in Conns : Leaves(c) \/ \E b \in Blocks : Gets(c, b))
<1>1. ASSUME NEW c \in Conns, Connect(c)  PROVE Stays \/ \E b \in Blocks : Gets(c, b)
  <2>1. CASE used = Blocks
    BY <1>1, <2>1 DEF Connect, uip, Live, Stays
  <2>2. CASE used # Blocks
    <3>1. PICK b \in Blocks : /\ First(Blocks \ used, b)
                              /\ used' = used \cup {b} /\ state' = [state EXCEPT ![c] = b]
                              /\ tcp' = [tcp EXCEPT ![c] = "open"]
      BY <1>1, <2>2 DEF Connect
    <3>2. b \in Blocks \ used /\ ~Live(c) /\ UNCHANGED <<dropped, stolen>>
      BY <1>1, <3>1 DEF Connect, First, Live
    <3>3. Live(c)' /\ \A d \in Conns \ {c} : Live(d)' = Live(d)
      BY <3>1 DEF Live, TypeOK
    <3>. QED  BY <3>1, <3>2, <3>3 DEF Gets
  <2>. QED  BY <2>1, <2>2
<1>2. ASSUME NEW c \in Conns, NewData(c) \/ Acked(c) \/ Rexmit(c) \/ Poll(c)
      PROVE  Stays
  <2>1. UNCHANGED <<state, used, dropped, stolen>> /\ tcp[c] = "open"
    BY <1>2 DEF NewData, Acked, Rexmit, Poll, pool
  <2>2. ASSUME NEW b, NEW h, NEW acked, HandleConnection(c, b, h, acked)
        PROVE  tcp' = tcp \/ tcp' = [tcp EXCEPT ![c] = "closing"]
    BY <2>2 DEF HandleConnection, Output, TypeOK
  <2>3. tcp' = tcp \/ tcp' = [tcp EXCEPT ![c] = "closing"]
    BY <1>2, <2>2 DEF NewData, Acked, Rexmit, Poll
  <2>. QED  BY <2>1, <2>3 DEF Live, TypeOK, Stays
<1>3. ASSUME NEW c \in Conns,
             PollLate(c) \/ ClosedByClient(c) \/ Aborted(c) \/ TimedOut(c)
             \/ Dropped(c) \/ ReportedAgain(c) \/ Forgotten(c)
      PROVE  Leaves(c)
  <2>1. PICK to \in {"closed", "lingering"} : Ends(c, to)
    BY <1>3 DEF PollLate, ClosedByClient, Aborted, TimedOut, Dropped,
                ReportedAgain, Forgotten, Freed
  <2>2. ~Live(c)' /\ \A d \in Conns \ {c} : Live(d)' = Live(d) /\ state'[d] = state[d]
    BY <2>1 DEF Ends, Live, TypeOK
  <2>3. CASE PollLate(c) \/ ClosedByClient(c) \/ Aborted(c) \/ TimedOut(c) \/ ReportedAgain(c)
    BY <2>2, <2>3 DEF PollLate, ClosedByClient, Aborted, TimedOut, ReportedAgain,
                      Freed, Live, Leaves, FreesBlock
  <2>4. CASE Dropped(c)
    BY <2>2, <2>4 DEF Dropped, Live, Leaves, LosesBlock
  <2>5. CASE Forgotten(c)
    BY <2>2, <2>5 DEF Forgotten, Live, Leaves, pool
  <2>. QED  BY <1>3, <2>3, <2>4, <2>5
<1>4. CASE UNCHANGED vars
  BY <1>4 DEF vars, uip, pool, Live, Stays
<1>. QED  BY <1>1, <1>2, <1>3, <1>4 DEF Next

LEMMA NoLeakStep == TypeOK /\ GeneratorOK /\ NoLeak /\ [Next]_vars => NoLeak'
<1>. SUFFICES ASSUME TypeOK, GeneratorOK, NoLeak, [Next]_vars, NEW b \in used', b \notin dropped'
              PROVE  \E d \in Conns : Live(d)' /\ state'[d] = b
  BY DEF NoLeak
<1>1. b \in used => b \in dropped \/ \E d \in Conns : Live(d) /\ state[d] = b
  BY DEF NoLeak
<1>2. state \in [Conns -> Blocks \cup {Null}]
  BY DEF TypeOK
<1>3. CASE Stays
  BY <1>1, <1>3 DEF Stays
<1>4. ASSUME NEW c \in Conns, NEW n \in Blocks, Gets(c, n)
      PROVE  \E d \in Conns : Live(d)' /\ state'[d] = b
  BY <1>1, <1>2, <1>4 DEF Gets
<1>5. ASSUME NEW c \in Conns, Leaves(c)
      PROVE  \E d \in Conns : Live(d)' /\ state'[d] = b
  <2>1. b \in used /\ b \notin dropped /\ (b = state[c] => ~Live(c))
    BY <1>5 DEF Leaves, FreesBlock, LosesBlock, Free
  <2>2. PICK d \in Conns : Live(d) /\ state[d] = b
    BY <1>1, <2>1
  <2>3. d # c
    BY <2>1, <2>2
  <2>. QED  BY <1>5, <2>2, <2>3 DEF Leaves
<1>. QED  BY <1>3, <1>4, <1>5, PoolSteps

LEMMA OneOwnerStep == TypeOK /\ GeneratorOK /\ OneOwner /\ [Next]_vars => OneOwner'
<1>. SUFFICES ASSUME TypeOK, GeneratorOK, OneOwner, [Next]_vars, ~stolen'
              PROVE  \A c \in Conns : Live(c)' =>
                       /\ state'[c] \in used'
                       /\ \A d \in Conns \ {c} : Live(d)' => state'[d] # state'[c]
  BY DEF OneOwner
<1>1. ~stolen => \A c \in Conns : Live(c) =>
        state[c] \in used /\ \A d \in Conns \ {c} : Live(d) => state[d] # state[c]
  BY DEF OneOwner
<1>2. state \in [Conns -> Blocks \cup {Null}] /\ stolen \in BOOLEAN
  BY DEF TypeOK
<1>3. CASE Stays
  BY <1>1, <1>3 DEF Stays
<1>4. ASSUME NEW c \in Conns, NEW b \in Blocks, Gets(c, b)
      PROVE  \A d \in Conns : Live(d)' =>
               state'[d] \in used' /\ \A e \in Conns \ {d} : Live(e)' => state'[e] # state'[d]
  BY <1>1, <1>2, <1>4 DEF Gets
<1>5. ASSUME NEW c \in Conns, Leaves(c)
      PROVE  \A d \in Conns : Live(d)' =>
               state'[d] \in used' /\ \A e \in Conns \ {d} : Live(e)' => state'[e] # state'[d]
  <2>1. ~stolen
    BY <1>2, <1>5 DEF Leaves, FreesBlock, LosesBlock
  <2>2. \A d \in Conns : Live(d)' => d # c /\ Live(d) /\ state'[d] = state[d]
    BY <1>5 DEF Leaves
  <2>3. \A d \in Conns : Live(d) => state[d] \in used /\ (Live(c) /\ d # c => state[d] # state[c])
    BY <1>1, <2>1
  <2>4. \A d \in Conns : Live(d)' => state[d] \in used'
    <3>1. CASE used' = used \ {state[c]} /\ Live(c)
      BY <2>2, <2>3, <3>1
    <3>2. CASE used' = used \ {state[c]} /\ state[c] \notin used
      BY <2>2, <2>3, <3>2
    <3>3. CASE used' = used
      BY <2>2, <2>3, <3>3
    <3>. QED  BY <1>5, <3>1, <3>2, <3>3 DEF Leaves, FreesBlock, LosesBlock, Free
  <2>. QED  BY <1>1, <2>1, <2>2, <2>4
<1>. QED  BY <1>3, <1>4, <1>5, PoolSteps

(***************************************************************************)
(* A block is allocated only for a live connection, or lost with one that  *)
(* the server had closed and that uIP ended without a report: every other  *)
(* way for a connection to end, in whatever order, gives the block back.   *)
(***************************************************************************)
THEOREM NothingLeaks == Spec => []NoLeak
<1>1. Init => NoLeak
  BY DEF Init, NoLeak
<1>2. TypeOK /\ GeneratorOK /\ NoLeak /\ [Next]_vars => (TypeOK /\ GeneratorOK /\ NoLeak)'
  BY TypeStep, NoLeakStep
<1>3. Init => TypeOK /\ GeneratorOK
  BY TypeInit
<1>. QED  BY <1>1, <1>2, <1>3, PTL DEF Spec

(***************************************************************************)
(* Live connections have blocks of their own, until a connection that uIP  *)
(* reports a second time takes a block with it.                            *)
(***************************************************************************)
THEOREM BlocksHaveOneOwner == Spec => []OneOwner
<1>1. Init => OneOwner
  BY DEF Init, OneOwner, Live
<1>2. TypeOK /\ GeneratorOK /\ OneOwner /\ [Next]_vars => (TypeOK /\ GeneratorOK /\ OneOwner)'
  BY TypeStep, OneOwnerStep
<1>3. Init => TypeOK /\ GeneratorOK
  BY TypeInit
<1>. QED  BY <1>1, <1>2, <1>3, PTL DEF Spec

------------------------------------------------------------------------------
(* The rows of a page                                                        *)

\* f computes the rows of the first n items.
Computes(f, page, n) ==
  f = [k \in 0..n |->
         IF k = 0 THEN << >>
         ELSE IF page[k][1] \in Tables THEN Append(f[k - 1], page[k]) ELSE f[k - 1]]

LEMMA Computed ==
  ASSUME NEW page, NEW n \in Nat
  PROVE  \E f : Computes(f, page, n)
<1>. DEFINE S == {j \in Nat : \E f : Computes(f, page, j)}
<1>1. 0 \in S
  <2>. DEFINE f == [k \in 0..0 |-> << >>]
  <2>1. f = [k \in 0..0 |->
               IF k = 0 THEN << >>
               ELSE IF page[k][1] \in Tables THEN Append(f[k - 1], page[k]) ELSE f[k - 1]]
    OBVIOUS
  <2>. QED  BY <2>1 DEF Computes
<1>2. ASSUME NEW j \in Nat, j \in S  PROVE j + 1 \in S
  <2>1. PICK f : Computes(f, page, j)
    BY <1>2
  <2>. DEFINE last == IF page[j + 1][1] \in Tables THEN Append(f[j], page[j + 1]) ELSE f[j]
              g == [k \in 0..j + 1 |-> IF k = j + 1 THEN last ELSE f[k]]
  <2>2. \A k \in 0..j : f[k] = IF k = 0 THEN << >>
          ELSE IF page[k][1] \in Tables THEN Append(f[k - 1], page[k]) ELSE f[k - 1]
    BY <2>1 DEF Computes
  <2>3. \A k \in 0..j : g[k] = f[k]
    OBVIOUS
  <2>4. g[j + 1] = last
    OBVIOUS
  <2>5. DOMAIN g = 0..j + 1 /\ g = [k \in 0..j + 1 |-> g[k]]
    OBVIOUS
  <2>. HIDE DEF g
  <2>6. \A k \in 0..j + 1 : g[k] = IF k = 0 THEN << >>
          ELSE IF page[k][1] \in Tables THEN Append(g[k - 1], page[k]) ELSE g[k - 1]
    <3>. SUFFICES ASSUME NEW k \in 0..j + 1
                  PROVE  g[k] = IF k = 0 THEN << >>
                    ELSE IF page[k][1] \in Tables THEN Append(g[k - 1], page[k]) ELSE g[k - 1]
      OBVIOUS
    <3>1. CASE k = j + 1
      <4>1. k - 1 \in 0..j /\ k # 0 /\ k - 1 = j
        BY <3>1
      <4>2. g[k - 1] = f[j]
        BY <2>3, <4>1
      <4>. QED  BY <2>4, <3>1, <4>1, <4>2
    <3>2. CASE k = 0
      BY <2>2, <2>3, <3>2
    <3>3. CASE k # 0 /\ k # j + 1
      <4>1. k \in 0..j /\ k - 1 \in 0..j
        BY <3>3
      <4>2. g[k] = f[k] /\ g[k - 1] = f[k - 1]
        BY <2>3, <4>1
      <4>. QED  BY <2>2, <3>3, <4>1, <4>2
    <3>. QED  BY <3>1, <3>2, <3>3
  <2>7. Computes(g, page, j + 1)
    BY <2>5, <2>6 DEF Computes
  <2>. QED  BY <2>7
<1>. HIDE DEF S
<1>3. n \in S
  BY <1>1, <1>2, Induction
<1>. QED  BY <1>3 DEF S

\* What is computed depends on the items alone.
LEMMA ComputedOnce ==
  ASSUME NEW page, NEW more, NEW n \in Nat, NEW m \in Nat, n <= m,
         \A k \in 1..n : more[k] = page[k],
         NEW f, NEW g, Computes(f, page, n), Computes(g, more, m)
  PROVE  \A k \in 0..n : g[k] = f[k]
<1>. DEFINE S == {k \in Nat : k <= n => g[k] = f[k]}
<1>1. \A k \in 0..n : f[k] = IF k = 0 THEN << >>
        ELSE IF page[k][1] \in Tables THEN Append(f[k - 1], page[k]) ELSE f[k - 1]
  BY DEF Computes
<1>2. \A k \in 0..m : g[k] = IF k = 0 THEN << >>
        ELSE IF more[k][1] \in Tables THEN Append(g[k - 1], more[k]) ELSE g[k - 1]
  BY DEF Computes
<1>3. 0 \in S
  BY <1>1, <1>2
<1>4. ASSUME NEW k \in Nat, k \in S  PROVE k + 1 \in S
  <2>. SUFFICES ASSUME k + 1 <= n  PROVE g[k + 1] = f[k + 1]
    OBVIOUS
  <2>1. k + 1 \in 1..n /\ k + 1 \in 0..n /\ k + 1 \in 0..m /\ k + 1 # 0 /\ k + 1 - 1 = k
    OBVIOUS
  <2>2. more[k + 1] = page[k + 1] /\ g[k] = f[k]
    BY <1>4, <2>1
  <2>3. f[k + 1] = IF page[k + 1][1] \in Tables THEN Append(f[k], page[k + 1]) ELSE f[k]
    BY <1>1, <2>1
  <2>4. g[k + 1] = IF more[k + 1][1] \in Tables THEN Append(g[k], more[k + 1]) ELSE g[k]
    BY <1>2, <2>1
  <2>. QED  BY <2>2, <2>3, <2>4
<1>. HIDE DEF S
<1>5. \A k \in Nat : k \in S
  BY <1>3, <1>4, Induction
<1>. QED  BY <1>5 DEF S

LEMMA RowsComputed ==
  ASSUME NEW page \in Seq(Item)
  PROVE  \E f : Computes(f, page, Len(page)) /\ Rows(page) = f[Len(page)]
<1>. DEFINE rows[k \in 0..Len(page)] ==
              IF k = 0 THEN << >>
              ELSE IF page[k][1] \in Tables THEN Append(rows[k - 1], page[k]) ELSE rows[k - 1]
<1>1. Len(page) \in Nat
  OBVIOUS
<1>2. \E f : Computes(f, page, Len(page))
  BY <1>1, Computed
<1>3. Computes(rows, page, Len(page))
  BY <1>2 DEF Computes
<1>4. Rows(page) = rows[Len(page)]
  BY DEF Rows
<1>. QED  BY <1>3, <1>4

\* Rows, item by item.
LEMMA RowsEmpty ==
  ASSUME NEW page \in Seq(Item), Len(page) = 0
  PROVE  Rows(page) = << >>
<1>1. PICK f : Computes(f, page, 0) /\ Rows(page) = f[0]
  BY RowsComputed
<1>2. 0 \in 0..0
  OBVIOUS
<1>. QED  BY <1>1, <1>2 DEF Computes

LEMMA RowsMore ==
  ASSUME NEW n \in Nat, NEW page \in Seq(Item), NEW more \in Seq(Item),
         Len(page) = n, Len(more) = n + 1, \A k \in 1..n : more[k] = page[k]
  PROVE  Rows(more) = IF more[n + 1][1] \in Tables THEN Append(Rows(page), more[n + 1])
                                                   ELSE Rows(page)
<1>1. PICK f : Computes(f, page, n) /\ Rows(page) = f[n]
  BY RowsComputed
<1>2. PICK g : Computes(g, more, n + 1) /\ Rows(more) = g[n + 1]
  BY RowsComputed
<1>3. n \in 0..n /\ n <= n + 1 /\ n + 1 \in 0..n + 1 /\ n + 1 # 0 /\ n + 1 - 1 = n /\ n + 1 \in Nat
  OBVIOUS
<1>4. \A k \in 0..n : g[k] = f[k]
  BY <1>1, <1>2, <1>3, ComputedOnce
<1>5. \A k \in 0..n + 1 : g[k] = IF k = 0 THEN << >>
        ELSE IF more[k][1] \in Tables THEN Append(g[k - 1], more[k]) ELSE g[k - 1]
  BY <1>2 DEF Computes
<1>6. g[n + 1] = IF more[n + 1][1] \in Tables THEN Append(g[n], more[n + 1]) ELSE g[n]
  BY <1>3, <1>5
<1>. QED  BY <1>1, <1>2, <1>3, <1>4, <1>6

LEMMA RowsAppend ==
  ASSUME NEW page \in Seq(Item), NEW item \in Item
  PROVE  Rows(Append(page, item)) =
           IF item[1] \in Tables THEN Append(Rows(page), item) ELSE Rows(page)
<1>. DEFINE more == Append(page, item)
<1>1. /\ more \in Seq(Item) /\ Len(more) = Len(page) + 1 /\ Len(page) \in Nat
      /\ more[Len(page) + 1] = item /\ \A k \in 1..Len(page) : more[k] = page[k]
  BY AppendProperties
<1>. HIDE DEF more
<1>2. Rows(more) = IF more[Len(page) + 1][1] \in Tables
                   THEN Append(Rows(page), more[Len(page) + 1]) ELSE Rows(page)
  BY <1>1, RowsMore
<1>. QED  BY <1>1, <1>2 DEF more

LEMMA RowsType ==
  ASSUME NEW page \in Seq(Item)
  PROVE  Rows(page) \in Seq(Item)
<1>. DEFINE S == {n \in Nat : \A p \in Seq(Item) : Len(p) = n => Rows(p) \in Seq(Item)}
<1>1. 0 \in S
  BY RowsEmpty, EmptySeq
<1>2. ASSUME NEW n \in Nat, n \in S  PROVE n + 1 \in S
  <2>. SUFFICES ASSUME NEW p \in Seq(Item), Len(p) = n + 1  PROVE Rows(p) \in Seq(Item)
    OBVIOUS
  <2>1. PICK s \in Seq(Item), item \in Item : p = Append(s, item)
    <3>1. p # << >>
      OBVIOUS
    <3>. QED  BY <3>1, SequenceEmptyOrAppend
  <2>2. Len(s) = n
    BY <2>1, AppendProperties
  <2>3. Rows(s) \in Seq(Item)
    BY <1>2, <2>2
  <2>4. Append(Rows(s), item) \in Seq(Item)
    BY <2>3, AppendProperties
  <2>. QED  BY <2>1, <2>3, <2>4, RowsAppend
<1>. HIDE DEF S
<1>3. Len(page) \in S
  BY <1>1, <1>2, Induction, LenProperties
<1>. QED  BY <1>3 DEF S

LEMMA ThreeParts ==
  \A s, t, u \in Seq(Item) : (s \o t) \o u = s \o (t \o u)
BY ConcatAssociative

LEMMA AppendLater ==
  ASSUME NEW s \in Seq(Item), NEW t \in Seq(Item), NEW item \in Item
  PROVE  Append(s \o t, item) = s \o Append(t, item)
<1>1. s \o t \in Seq(Item) /\ <<item>> \in Seq(Item)
  BY ConcatProperties
<1>2. Append(s \o t, item) = (s \o t) \o <<item>> /\ Append(t, item) = t \o <<item>>
  BY <1>1, AppendIsConcat
<1>. QED  BY <1>1, <1>2, ThreeParts

\* The rows of two parts of a page.
LEMMA RowsConcat ==
  ASSUME NEW page \in Seq(Item), NEW more \in Seq(Item)
  PROVE  Rows(page \o more) = Rows(page) \o Rows(more)
<1>. DEFINE S == {n \in Nat : \A m \in Seq(Item) : Len(m) = n =>
                                Rows(page \o m) = Rows(page) \o Rows(m)}
<1>1. 0 \in S
  <2>. SUFFICES ASSUME NEW m \in Seq(Item), Len(m) = 0
                PROVE  Rows(page \o m) = Rows(page) \o Rows(m)
    OBVIOUS
  <2>1. m = << >>
    BY EmptySeq
  <2>2. page \o m = page
    BY <2>1, ConcatEmptySeq
  <2>3. Rows(page) \in Seq(Item)
    BY RowsType
  <2>4. Rows(page) \o << >> = Rows(page)
    BY <2>3, ConcatEmptySeq
  <2>. QED  BY <2>2, <2>4, RowsEmpty
<1>2. ASSUME NEW n \in Nat, n \in S  PROVE n + 1 \in S
  <2>. SUFFICES ASSUME NEW m \in Seq(Item), Len(m) = n + 1
                PROVE  Rows(page \o m) = Rows(page) \o Rows(m)
    OBVIOUS
  <2>1. PICK s \in Seq(Item), item \in Item : m = Append(s, item)
    <3>1. m # << >>
      OBVIOUS
    <3>. QED  BY <3>1, SequenceEmptyOrAppend
  <2>2. Len(s) = n /\ m = s \o <<item>> /\ <<item>> \in Seq(Item)
    BY <2>1, AppendProperties, AppendIsConcat
  <2>3. page \o s \in Seq(Item)
    BY ConcatProperties
  <2>4. page \o m = (page \o s) \o <<item>>
    BY <2>2, ThreeParts
  <2>5. page \o m = Append(page \o s, item)
    BY <2>3, <2>4, AppendIsConcat
  <2>6. Rows(page \o s) = Rows(page) \o Rows(s)
    BY <1>2, <2>2
  <2>7. /\ Rows(page \o m) = IF item[1] \in Tables THEN Append(Rows(page \o s), item)
                                                   ELSE Rows(page \o s)
        /\ Rows(m) = IF item[1] \in Tables THEN Append(Rows(s), item) ELSE Rows(s)
    BY <2>1, <2>3, <2>5, RowsAppend
  <2>8. Rows(page) \in Seq(Item) /\ Rows(s) \in Seq(Item)
    BY RowsType
  <2>9. Append(Rows(page) \o Rows(s), item) = Rows(page) \o Append(Rows(s), item)
    BY <2>8, AppendLater
  <2>. QED  BY <2>6, <2>7, <2>9
<1>. HIDE DEF S
<1>3. Len(more) \in S
  BY <1>1, <1>2, Induction, LenProperties
<1>. QED  BY <1>3 DEF S

\* A single item, and one after another.
LEMMA RowsOne ==
  ASSUME NEW page \in Seq(Item), NEW item \in Item
  PROVE  /\ page \o <<item>> \in Seq(Item)
         /\ item[1] \notin Tables => Rows(page \o <<item>>) = Rows(page)
         /\ item[1] \in Tables => Rows(page \o <<item>>) = Append(Rows(page), item)
<1>1. page \o <<item>> = Append(page, item)
  BY AppendIsConcat
<1>2. Append(page, item) \in Seq(Item)
  BY AppendProperties
<1>. QED  BY <1>1, <1>2, RowsAppend

\* Where there are only rows.
LEMMA RowsAll ==
  ASSUME NEW page \in Seq(Item), \A k \in 1..Len(page) : page[k][1] \in Tables
  PROVE  Rows(page) = page
<1>. DEFINE S == {n \in Nat : \A p \in Seq(Item) :
                    Len(p) = n /\ (\A k \in 1..n : p[k][1] \in Tables) => Rows(p) = p}
<1>1. 0 \in S
  BY RowsEmpty, EmptySeq
<1>2. ASSUME NEW n \in Nat, n \in S  PROVE n + 1 \in S
  <2>. SUFFICES ASSUME NEW p \in Seq(Item), Len(p) = n + 1,
                       \A k \in 1..n + 1 : p[k][1] \in Tables
                PROVE  Rows(p) = p
    OBVIOUS
  <2>1. PICK s \in Seq(Item), item \in Item : p = Append(s, item)
    <3>1. p # << >>
      OBVIOUS
    <3>. QED  BY <3>1, SequenceEmptyOrAppend
  <2>2. Len(s) = n /\ p[n + 1] = item /\ \A k \in 1..n : p[k] = s[k]
    BY <2>1, AppendProperties
  <2>3. item[1] \in Tables /\ \A k \in 1..n : s[k][1] \in Tables
    BY <2>2
  <2>4. Rows(s) = s
    BY <1>2, <2>2, <2>3
  <2>. QED  BY <2>1, <2>3, <2>4, RowsAppend
<1>. HIDE DEF S
<1>3. Len(page) \in S
  BY <1>1, <1>2, Induction, LenProperties
<1>. QED  BY <1>3 DEF S

------------------------------------------------------------------------------
(* A page that its connection has for itself                                 *)

\* So many entries of each table.
Shown(n, m, k) == AllOf("neighbor", n) \o AllOf("route", m) \o AllOf("sensor", k)

LEMMA RowItem ==
  ASSUME NEW t \in Tables, NEW n \in Nat
  PROVE  Row(t, n) \in Item /\ Row(t, n)[1] \in Tables
BY DEF Row, Item

LEMMA AllOfItems ==
  ASSUME NEW t \in Tables, NEW n \in Nat
  PROVE  /\ AllOf(t, n) \in Seq(Item) /\ Len(AllOf(t, n)) = n
         /\ \A k \in 1..n : AllOf(t, n)[k] = Row(t, k)
<1>1. \A k \in 1..n : Row(t, k) \in Item
  BY DEF Row, Item
<1>. QED  BY <1>1 DEF AllOf

LEMMA AllOfMore ==
  ASSUME NEW t \in Tables, NEW n \in Nat, NEW m \in Nat
  PROVE  LET more == [k \in 1..m |-> Row(t, n + k)]
         IN  more \in Seq(Item) /\ Len(more) = m /\ AllOf(t, n) \o more = AllOf(t, n + m)
<1>. DEFINE more == [k \in 1..m |-> Row(t, n + k)]
            all  == AllOf(t, n)
            both == AllOf(t, n + m)
<1>1. \A k \in 1..m : Row(t, n + k) \in Item
  BY DEF Row, Item
<1>2. more \in Seq(Item) /\ Len(more) = m /\ \A k \in 1..m : more[k] = Row(t, n + k)
  BY <1>1
<1>3. all \in Seq(Item) /\ Len(all) = n /\ \A k \in 1..n : all[k] = Row(t, k)
  BY AllOfItems
<1>4. both \in Seq(Item) /\ Len(both) = n + m /\ \A k \in 1..n + m : both[k] = Row(t, k)
  <2>1. n + m \in Nat
    OBVIOUS
  <2>. QED  BY <2>1, AllOfItems
<1>. HIDE DEF more, all, both
<1>5. /\ all \o more \in Seq(Item) /\ Len(all \o more) = n + m
      /\ \A k \in 1..n + m : (all \o more)[k] = IF k <= n THEN all[k] ELSE more[k - n]
  BY <1>2, <1>3, ConcatProperties
<1>6. ASSUME NEW k \in 1..n + m  PROVE (all \o more)[k] = both[k]
  <2>1. CASE k <= n
    BY <1>3, <1>4, <1>5, <2>1
  <2>2. CASE ~(k <= n)
    <3>1. k - n \in 1..m /\ n + (k - n) = k
      BY <2>2
    <3>2. more[k - n] = Row(t, n + (k - n))
      BY <1>2, <3>1
    <3>3. (all \o more)[k] = more[k - n]
      BY <1>5, <2>2
    <3>. QED  BY <1>4, <3>1, <3>2, <3>3
  <2>. QED  BY <2>1, <2>2
<1>7. all \o more = both
  BY <1>4, <1>5, <1>6, SeqEqual
<1>. QED  BY <1>2, <1>7 DEF more, all, both

LEMMA AllOfNone ==
  ASSUME NEW t \in Tables
  PROVE  AllOf(t, 0) = << >>
BY AllOfItems, EmptySeq

LEMMA AllOfOneMore ==
  ASSUME NEW t \in Tables, NEW n \in Nat
  PROVE  Append(AllOf(t, n), Row(t, n + 1)) = AllOf(t, n + 1)
<1>. DEFINE more == [k \in 1..1 |-> Row(t, n + k)]
<1>1. more = <<Row(t, n + 1)>>
  OBVIOUS
<1>2. AllOf(t, n) \o more = AllOf(t, n + 1)
  <2>1. 1 \in Nat
    OBVIOUS
  <2>. QED  BY <2>1, AllOfMore
<1>. HIDE DEF more
<1>3. AllOf(t, n) \in Seq(Item) /\ Row(t, n + 1) \in Item
  <2>1. n + 1 \in Nat
    OBVIOUS
  <2>. QED  BY <2>1, AllOfItems, RowItem
<1>. QED  BY <1>1, <1>2, <1>3, AppendIsConcat

LEMMA ShownItems ==
  ASSUME NEW n \in Nat, NEW m \in Nat, NEW k \in Nat
  PROVE  /\ Shown(n, m, k) \in Seq(Item)
         /\ AllOf("neighbor", n) \o AllOf("route", m) \in Seq(Item)
         /\ Shown(n, 0, 0) = AllOf("neighbor", n)
         /\ Shown(n, m, 0) = AllOf("neighbor", n) \o AllOf("route", m)
<1>1. /\ AllOf("neighbor", n) \in Seq(Item) /\ AllOf("route", m) \in Seq(Item)
      /\ AllOf("sensor", k) \in Seq(Item)
  BY AllOfItems DEF Tables
<1>2. AllOf("route", 0) = << >> /\ AllOf("sensor", 0) = << >>
  BY AllOfNone DEF Tables
<1>3. AllOf("neighbor", n) \o AllOf("route", m) \in Seq(Item)
  BY <1>1, ConcatProperties
<1>4. Shown(n, m, k) \in Seq(Item)
  BY <1>1, <1>3, ConcatProperties DEF Shown
<1>5. Shown(n, m, 0) = AllOf("neighbor", n) \o AllOf("route", m)
  BY <1>2, <1>3, ConcatEmptySeq DEF Shown
<1>6. Shown(n, 0, 0) = AllOf("neighbor", n)
  <2>1. AllOf("neighbor", n) \o << >> = AllOf("neighbor", n)
    BY <1>1, ConcatEmptySeq
  <2>. QED  BY <1>2, <2>1 DEF Shown
<1>. QED  BY <1>3, <1>4, <1>5, <1>6

LEMMA ShownNeighbors ==
  ASSUME NEW n \in Nat, NEW m \in Nat
  PROVE  LET more == [k \in 1..m |-> Row("neighbor", n + k)]
         IN  more \in Seq(Item) /\ Len(more) = m /\ Shown(n, 0, 0) \o more = Shown(n + m, 0, 0)
<1>. DEFINE more == [k \in 1..m |-> Row("neighbor", n + k)]
<1>1. "neighbor" \in Tables /\ n + m \in Nat /\ 0 \in Nat
  BY DEF Tables
<1>2. more \in Seq(Item) /\ Len(more) = m /\ AllOf("neighbor", n) \o more = AllOf("neighbor", n + m)
  BY <1>1, AllOfMore
<1>. HIDE DEF more
<1>3. Shown(n, 0, 0) = AllOf("neighbor", n) /\ Shown(n + m, 0, 0) = AllOf("neighbor", n + m)
  BY <1>1, ShownItems
<1>4. Shown(n, 0, 0) \o more = Shown(n + m, 0, 0)
  BY <1>2, <1>3
<1>. QED  BY <1>2, <1>4 DEF more

LEMMA ShownRoute ==
  ASSUME NEW n \in Nat, NEW m \in Nat
  PROVE  Append(Shown(n, m, 0), Row("route", m + 1)) = Shown(n, m + 1, 0)
<1>. DEFINE a == AllOf("neighbor", n)
            b == AllOf("route", m)
            r == Row("route", m + 1)
<1>1. a \in Seq(Item) /\ b \in Seq(Item) /\ r \in Item
  <2>1. "neighbor" \in Tables /\ "route" \in Tables /\ m + 1 \in Nat
    BY DEF Tables
  <2>. QED  BY <2>1, AllOfItems, RowItem
<1>2. Append(b, r) = AllOf("route", m + 1)
  BY AllOfOneMore DEF Tables
<1>3. Shown(n, m, 0) = a \o b /\ Shown(n, m + 1, 0) = a \o AllOf("route", m + 1)
  <2>1. m + 1 \in Nat /\ 0 \in Nat
    OBVIOUS
  <2>. QED  BY <2>1, ShownItems
<1>. HIDE DEF a, b, r
<1>4. Append(a \o b, r) = a \o Append(b, r)
  BY <1>1, AppendLater
<1>. QED  BY <1>2, <1>3, <1>4 DEF r

LEMMA ShownSensor ==
  ASSUME NEW n \in Nat, NEW m \in Nat, NEW k \in Nat
  PROVE  Append(Shown(n, m, k), Row("sensor", k + 1)) = Shown(n, m, k + 1)
<1>. DEFINE a == AllOf("neighbor", n) \o AllOf("route", m)
            b == AllOf("sensor", k)
            r == Row("sensor", k + 1)
<1>1. a \in Seq(Item) /\ b \in Seq(Item) /\ r \in Item
  <2>1. "sensor" \in Tables /\ k + 1 \in Nat
    BY DEF Tables
  <2>. QED  BY <2>1, AllOfItems, ShownItems, RowItem
<1>2. Append(b, r) = AllOf("sensor", k + 1)
  BY AllOfOneMore DEF Tables
<1>3. Shown(n, m, k) = a \o b /\ Shown(n, m, k + 1) = a \o AllOf("sensor", k + 1)
  BY DEF Shown
<1>. HIDE DEF a, b, r
<1>4. Append(a \o b, r) = a \o Append(b, r)
  BY <1>1, AppendLater
<1>. QED  BY <1>2, <1>3, <1>4 DEF r
\* What a wait has shown so far, of the rows of the three tables.
Upto(at, g) ==
  CASE at \in {"start", "headers", "top"} -> Shown(0, 0, 0)
    [] at = "neighbors"                   -> Shown(g.nbr, 0, 0)
    [] at = "routes"                      -> Shown(Neighbors, 0, 0)
    [] at = "route"                       -> Shown(Neighbors, g.r, 0)
    [] at \in {"end", "sensors"}          -> Shown(Neighbors, Routes, 0)
    [] at = "sensor"                      -> Shown(Neighbors, Routes, g.i + 1)
    [] at \in {"endsensors", "bottom"}    -> Shown(Neighbors, Routes, Sensors)

\* The cursors are at the row that was shown last, and the buffer is begun anew
\* before the sensors.
Cursors(at, g) ==
  /\ at = "neighbors" => g.nbr \in 1..Neighbors
  /\ at = "route"     => g.r \in 1..Routes
  /\ at = "sensor"    => g.i < Sensors
  /\ at = "end"       => g.blen = 1 /\ g.buf = <<Text("end")>>

\* All of the buffer is to be sent.
Whole(g) == StaticOK(g) /\ Len(g.buf) = g.blen

\* From a wait that has shown its rows on page to the next.
Goes(next, page) ==
  /\ Whole(next.gen) /\ next.gen.blen > 0 /\ next.at \in Places \ (Constant \cup {"start"})
  /\ Cursors(next.at, next.gen)
  /\ Rows(page \o next.gen.buf) = Upto(next.at, next.gen)

LEMMA AddWhole ==
  ASSUME NEW g, StaticOK(g), NEW items \in Seq(Item)
  PROVE  LET new == Add(g, items) kept == SubSeq(g.buf, 1, g.blen)
         IN  /\ Whole(new) /\ new.blen = g.blen + Len(items)
             /\ new.nbr = g.nbr /\ new.r = g.r /\ new.i = g.i
             /\ kept \in Seq(Item) /\ Len(kept) = g.blen /\ new.buf = kept \o items
<1>. DEFINE kept == SubSeq(g.buf, 1, g.blen)
            new  == Add(g, items)
<1>1. g.buf \in Seq(Item) /\ g.blen \in Nat /\ g.blen <= Len(g.buf)
  BY DEF StaticOK, Static
<1>2. \A n \in 1..g.blen : g.buf[n] \in Item
  BY <1>1
<1>3. kept \in Seq(Item) /\ Len(kept) = IF 1 <= g.blen THEN g.blen - 1 + 1 ELSE 0
  BY <1>1, <1>2, SubSeqProperties
<1>4. Len(kept) = g.blen
  BY <1>1, <1>3
<1>5. new.buf = kept \o items
  BY DEF Add, StaticOK, Static
<1>. HIDE DEF kept
<1>6. Len(kept \o items) = Len(kept) + Len(items)
  BY <1>3, ConcatProperties
<1>7. /\ StaticOK(new) /\ new.blen = g.blen + Len(items)
      /\ new.nbr = g.nbr /\ new.r = g.r /\ new.i = g.i
  BY AddOK
<1>. HIDE DEF new
<1>8. Len(new.buf) = new.blen
  BY <1>4, <1>5, <1>6, <1>7
<1>. QED  BY <1>3, <1>4, <1>5, <1>7, <1>8 DEF Whole, new, kept

\* An empty buffer.
LEMMA AddToEmpty ==
  ASSUME NEW g, StaticOK(g), g.blen = 0, NEW items \in Seq(Item)
  PROVE  LET new == Add(g, items)
         IN  /\ Whole(new) /\ new.blen = Len(items) /\ new.buf = items
             /\ new.nbr = g.nbr /\ new.r = g.r /\ new.i = g.i
<1>. DEFINE new  == Add(g, items)
            kept == SubSeq(g.buf, 1, g.blen)
<1>1. /\ Whole(new) /\ new.blen = g.blen + Len(items)
      /\ new.nbr = g.nbr /\ new.r = g.r /\ new.i = g.i
      /\ kept \in Seq(Item) /\ Len(kept) = g.blen /\ new.buf = kept \o items
  BY AddWhole
<1>. HIDE DEF new, kept
<1>2. kept = << >>
  BY <1>1, EmptySeq
<1>3. kept \o items = items
  BY <1>2, ConcatEmptySeq
<1>4. Len(items) \in Nat
  OBVIOUS
<1>. QED  BY <1>1, <1>3, <1>4 DEF new

LEMMA CursorMoved ==
  ASSUME NEW g, Whole(g), NEW n \in 0..Neighbors
  PROVE  LET new == [g EXCEPT !.nbr = n]
         IN  Whole(new) /\ new.blen = g.blen /\ new.nbr = n /\ new.buf = g.buf
BY DEF Static, StaticOK, Whole

\* The loop over the neighbors shows them from g.nbr on.
LEMMA NeighborsPage ==
  ASSUME NEW g, StaticOK(g), g.blen < Full, NEW page \in Seq(Item), NEW n \in 0..Neighbors,
         Rows(page \o SubSeq(g.buf, 1, g.blen)) = Shown(n, 0, 0),
         \/ g.nbr = n + 1 /\ n < Neighbors
         \/ g.nbr = 0 /\ n = Neighbors
  PROVE  Goes(NeighborsFrom(g), page)
<1>. DEFINE room == Full - g.blen
            left == IF g.nbr = 0 THEN 0 ELSE Neighbors - g.nbr + 1
            rows(m) == [k \in 1..m |-> Row("neighbor", g.nbr + k - 1)]
            buf  == SubSeq(g.buf, 1, g.blen)
            sent == page \o buf
<1>1. /\ g.blen \in Nat /\ g.nbr \in 0..Neighbors /\ room \in Nat /\ room > 0
      /\ left = Neighbors - n /\ left \in Nat /\ Full \in Nat /\ Neighbors \in Nat /\ n \in Nat
  <2>1. /\ g.blen \in Nat /\ g.nbr \in 0..Neighbors
        /\ Full \in Nat /\ Neighbors \in Nat /\ n \in Nat
    BY HttpdAssumption DEF StaticOK, Static
  <2>2. room \in Nat /\ room > 0
    BY <2>1
  <2>3. left = Neighbors - n
    BY <2>1
  <2>. HIDE DEF room, left
  <2>4. left \in Nat
    BY <2>1, <2>3
  <2>. QED  BY <2>1, <2>2, <2>3, <2>4
<1>2. buf \in Seq(Item)
  <2>1. << >> \in Seq(Item)
    BY EmptySeq
  <2>. QED  BY <2>1, AddWhole
<1>. HIDE DEF buf
<1>3. sent \in Seq(Item) /\ Rows(sent) = Shown(n, 0, 0)
  <2>1. page \o buf \in Seq(Item)
    BY <1>2, ConcatProperties
  <2>. QED  BY <2>1 DEF buf
<1>4. ASSUME NEW m \in Nat, m <= left
      PROVE  /\ rows(m) \in Seq(Item) /\ Len(rows(m)) = m
             /\ Rows(sent \o rows(m)) = Shown(n + m, 0, 0)
             /\ sent \o rows(m) = page \o (buf \o rows(m))
  <2>. DEFINE more == [k \in 1..m |-> Row("neighbor", n + k)]
  <2>1. rows(m) = more
    <3>1. CASE m = 0
      BY <3>1
    <3>2. CASE m # 0
      <4>1. g.nbr = n + 1
        BY <1>1, <1>4, <3>2
      <4>2. \A k \in 1..m : g.nbr + k - 1 = n + k
        BY <1>1, <4>1
      <4>. QED  BY <4>2
    <3>. QED  BY <3>1, <3>2
  <2>2. more \in Seq(Item) /\ Len(more) = m /\ Shown(n, 0, 0) \o more = Shown(n + m, 0, 0)
    BY <1>1, ShownNeighbors
  <2>3. \A k \in 1..Len(more) : more[k][1] \in Tables
    <3>1. \A k \in 1..m : more[k] = Row("neighbor", n + k) /\ n + k \in Nat
      BY <1>1
    <3>2. "neighbor" \in Tables
      BY DEF Tables
    <3>. QED  BY <2>2, <3>1, <3>2, RowItem
  <2>. HIDE DEF more, sent, rows
  <2>4. Rows(more) = more
    BY <2>2, <2>3, RowsAll
  <2>5. Rows(sent \o more) = Shown(n, 0, 0) \o more
    BY <1>3, <2>2, <2>4, RowsConcat
  <2>6. sent \o more = page \o (buf \o more)
    <3>1. more \in Seq(Item)
      BY <2>2
    <3>. QED  BY <1>2, <3>1, ThreeParts DEF sent
  <2>. QED  BY <2>1, <2>2, <2>5, <2>6
<1>5. NeighborsFrom(g) =
        IF room <= left
        THEN Wait("neighbors", [Add(g, rows(room)) EXCEPT !.nbr = @ + room - 1])
        ELSE Wait("routes", [Add(g, rows(left) \o <<Text("Routes")>>) EXCEPT !.nbr = 0])
  BY <1>1 DEF NeighborsFrom
<1>6. CASE room <= left
  <2>1. PICK some \in Seq(Item) :
          /\ some = rows(room) /\ Len(some) = room
          /\ Rows(page \o (buf \o some)) = Shown(n + room, 0, 0)
    <3>1. room \in Nat
      BY <1>1
    <3>. HIDE DEF room, left, rows, sent
    <3>. QED  BY <1>4, <1>6, <3>1
  <2>. DEFINE new  == Add(g, some)
              last == [new EXCEPT !.nbr = g.nbr + room - 1]
  <2>2. g.nbr = n + 1 /\ g.nbr + room - 1 = n + room /\ n + room \in 1..Neighbors
    <3>. HIDE DEF room, left
    <3>. QED  BY <1>1, <1>6
  <2>3. /\ Whole(new) /\ new.blen = g.blen + room /\ new.nbr = g.nbr
        /\ new.buf = buf \o some
    <3>1. /\ Whole(new) /\ new.blen = g.blen + Len(some) /\ new.nbr = g.nbr
          /\ new.buf = SubSeq(g.buf, 1, g.blen) \o some
      BY AddWhole
    <3>. HIDE DEF room, rows, new
    <3>. QED  BY <2>1, <3>1 DEF buf
  <2>4. NeighborsFrom(g) = Wait("neighbors", last)
    <3>1. NeighborsFrom(g) = Wait("neighbors", [new EXCEPT !.nbr = @ + room - 1])
      <4>. HIDE DEF room, rows, left
      <4>. QED  BY <1>5, <1>6, <2>1
    <3>. HIDE DEF new
    <3>. QED  BY <2>3, <3>1
  <2>. HIDE DEF new, room
  <2>5. g.nbr + room - 1 \in 0..Neighbors
    BY <1>1, <2>2
  <2>6. Whole(last) /\ last.blen = new.blen /\ last.nbr = n + room /\ last.buf = buf \o some
    BY <2>2, <2>3, <2>5, CursorMoved
  <2>. HIDE DEF last
  <2>7. NeighborsFrom(g).gen = last /\ NeighborsFrom(g).at = "neighbors"
    BY <2>4 DEF Wait
  <2>8. last.blen > 0
    BY <1>1, <2>3, <2>6
  <2>9. Cursors("neighbors", last) /\ Upto("neighbors", last) = Shown(n + room, 0, 0)
    BY <2>2, <2>6 DEF Cursors, Upto
  <2>. QED  BY <2>1, <2>6, <2>7, <2>8, <2>9 DEF Goes, Places, Constant
<1>7. CASE ~(room <= left)
  <2>1. PICK some \in Seq(Item) :
          /\ some = rows(left) /\ Len(some) = left
          /\ Rows(sent \o some) = Shown(Neighbors, 0, 0)
    <3>. HIDE DEF room, left, rows, sent
    <3>1. left \in Nat /\ left <= left /\ n + left = Neighbors
      BY <1>1
    <3>. QED  BY <1>4, <3>1
  <2>. DEFINE head == Text("Routes")
              all  == some \o <<head>>
              new  == Add(g, all)
              last == [new EXCEPT !.nbr = 0]
  <2>2. head \in Item /\ head[1] \notin Tables /\ <<head>> \in Seq(Item) /\ Len(<<head>>) = 1
    BY DEF Text, Item, Tables
  <2>3. NeighborsFrom(g) = Wait("routes", last)
    <3>. HIDE DEF room, rows, left
    <3>. QED  BY <1>5, <1>7, <2>1
  <2>. HIDE DEF head, sent, left, rows
  <2>4. all \in Seq(Item) /\ Len(all) = left + 1
    BY <2>1, <2>2, ConcatProperties
  <2>5. Rows(page \o (buf \o all)) = Shown(Neighbors, 0, 0)
    <3>1. sent \o some \in Seq(Item)
      BY <1>3, <2>1, ConcatProperties
    <3>2. Rows((sent \o some) \o <<head>>) = Rows(sent \o some)
      BY <2>2, <3>1, RowsOne
    <3>3. (sent \o some) \o <<head>> = sent \o all
      <4>1. sent \in Seq(Item) /\ <<head>> \in Seq(Item)
        BY <1>3, <2>2
      <4>. QED  BY <4>1, ThreeParts
    <3>. HIDE DEF all
    <3>4. sent \o all = page \o (buf \o all)
      <4>1. all \in Seq(Item)
        BY <2>4
      <4>. QED  BY <1>2, <4>1, ThreeParts DEF sent
    <3>. QED  BY <2>1, <3>2, <3>3, <3>4
  <2>. HIDE DEF all
  <2>6. Whole(new) /\ new.blen = g.blen + (left + 1) /\ new.buf = buf \o all
    <3>1. /\ Whole(new) /\ new.blen = g.blen + Len(all)
          /\ new.buf = SubSeq(g.buf, 1, g.blen) \o all
      BY <2>4, AddWhole
    <3>. HIDE DEF new
    <3>. QED  BY <2>4, <3>1 DEF buf
  <2>. HIDE DEF new
  <2>7. Whole(last) /\ last.blen = new.blen /\ last.buf = buf \o all
    <3>1. 0 \in 0..Neighbors
      BY <1>1
    <3>. QED  BY <2>6, <3>1, CursorMoved
  <2>. HIDE DEF last
  <2>8. NeighborsFrom(g).gen = last /\ NeighborsFrom(g).at = "routes"
    BY <2>3 DEF Wait
  <2>9. last.blen > 0
    BY <1>1, <2>6, <2>7
  <2>10. Cursors("routes", last) /\ Upto("routes", last) = Shown(Neighbors, 0, 0)
    BY DEF Cursors, Upto
  <2>. QED  BY <2>5, <2>7, <2>8, <2>9, <2>10 DEF Goes, Places, Constant
<1>. QED  BY <1>6, <1>7

\* One row that its table lists next.
LEMMA RowPage ==
  ASSUME NEW g, StaticOK(g), g.blen = 0, NEW page \in Seq(Item), NEW t \in Tables, NEW n \in Nat
  PROVE  LET new == Add(g, <<Row(t, n)>>)
         IN  /\ Whole(new) /\ new.blen = 1
             /\ new.nbr = g.nbr /\ new.r = g.r /\ new.i = g.i
             /\ Rows(page \o new.buf) = Append(Rows(page), Row(t, n))
<1>. DEFINE item == Row(t, n)
            new  == Add(g, <<item>>)
<1>1. item \in Item /\ item[1] \in Tables
  BY RowItem
<1>. HIDE DEF item
<1>2. <<item>> \in Seq(Item) /\ Len(<<item>>) = 1
  BY <1>1
<1>3. /\ Whole(new) /\ new.blen = Len(<<item>>) /\ new.buf = <<item>>
      /\ new.nbr = g.nbr /\ new.r = g.r /\ new.i = g.i
  BY <1>2, AddToEmpty
<1>. HIDE DEF new
<1>4. Rows(page \o <<item>>) = Append(Rows(page), item)
  BY <1>1, RowsOne
<1>5. new.blen = 1 /\ Rows(page \o new.buf) = Append(Rows(page), item)
  BY <1>2, <1>3, <1>4
<1>. QED  BY <1>3, <1>5 DEF new, item

\* A heading.
LEMMA TextPage ==
  ASSUME NEW g, StaticOK(g), g.blen = 0, NEW page \in Seq(Item),
         NEW name \in {"Neighbors", "Routes", "Sensors", "end"}
  PROVE  LET new == Add(g, <<Text(name)>>)
         IN  /\ Whole(new) /\ new.blen = 1 /\ new.buf = <<Text(name)>>
             /\ new.nbr = g.nbr /\ new.r = g.r /\ new.i = g.i
             /\ Rows(page \o new.buf) = Rows(page)
<1>. DEFINE item == Text(name)
            new  == Add(g, <<item>>)
<1>1. item \in Item /\ item[1] \notin Tables
  BY DEF Text, Item, Tables
<1>. HIDE DEF item
<1>2. <<item>> \in Seq(Item) /\ Len(<<item>>) = 1
  BY <1>1
<1>3. /\ Whole(new) /\ new.blen = Len(<<item>>) /\ new.buf = <<item>>
      /\ new.nbr = g.nbr /\ new.r = g.r /\ new.i = g.i
  BY <1>2, AddToEmpty
<1>. HIDE DEF new
<1>4. Rows(page \o <<item>>) = Rows(page)
  BY <1>1, RowsOne
<1>5. new.blen = 1 /\ Rows(page \o new.buf) = Rows(page)
  BY <1>2, <1>3, <1>4
<1>. QED  BY <1>3, <1>5 DEF new, item

LEMMA RoutesPage ==
  ASSUME NEW g, StaticOK(g), g.blen = 0, NEW page \in Seq(Item), NEW m \in 0..Routes,
         Rows(page) = Shown(Neighbors, m, 0),
         \/ g.r = m + 1 /\ m < Routes
         \/ g.r = 0 /\ m = Routes
  PROVE  Goes(RoutesFrom(g), page)
<1>1. Neighbors \in Nat /\ Routes \in Nat /\ m \in Nat
  BY HttpdAssumption
<1>2. CASE g.r = m + 1 /\ m < Routes
  <2>. DEFINE new == Add(g, <<Row("route", g.r)>>)
  <2>1. g.r \in Nat /\ g.r # 0 /\ g.r \in 1..Routes
    BY <1>1, <1>2
  <2>2. /\ Whole(new) /\ new.blen = 1 /\ new.r = g.r
        /\ Rows(page \o new.buf) = Append(Rows(page), Row("route", g.r))
    <3>1. "route" \in Tables
      BY DEF Tables
    <3>. QED  BY <2>1, <3>1, RowPage
  <2>3. RoutesFrom(g).gen = new /\ RoutesFrom(g).at = "route"
    BY <2>1 DEF RoutesFrom, Wait
  <2>. HIDE DEF new
  <2>4. Append(Shown(Neighbors, m, 0), Row("route", m + 1)) = Shown(Neighbors, m + 1, 0)
    BY <1>1, ShownRoute
  <2>5. Rows(page \o new.buf) = Shown(Neighbors, new.r, 0)
    BY <1>2, <2>2, <2>4
  <2>6. Cursors("route", new) /\ Upto("route", new) = Shown(Neighbors, new.r, 0)
    BY <2>1, <2>2 DEF Cursors, Upto
  <2>. QED  BY <2>2, <2>3, <2>5, <2>6 DEF Goes, Places, Constant
<1>3. CASE g.r = 0 /\ m = Routes
  <2>. DEFINE new == Add(g, <<Text("end")>>)
  <2>1. /\ Whole(new) /\ new.blen = 1 /\ new.buf = <<Text("end")>>
        /\ Rows(page \o new.buf) = Rows(page)
    BY TextPage
  <2>2. RoutesFrom(g).gen = new /\ RoutesFrom(g).at = "end"
    BY <1>3 DEF RoutesFrom, Wait
  <2>. HIDE DEF new
  <2>3. Cursors("end", new) /\ Upto("end", new) = Shown(Neighbors, Routes, 0)
    BY <2>1 DEF Cursors, Upto
  <2>. QED  BY <1>3, <2>1, <2>2, <2>3 DEF Goes, Places, Constant
<1>. QED  BY <1>2, <1>3

LEMMA SensorsPage ==
  ASSUME NEW g, StaticOK(g), g.blen = 0, NEW page \in Seq(Item), NEW k \in 0..Sensors,
         Rows(page) = Shown(Neighbors, Routes, k), g.i = k
  PROVE  Goes(SensorsFrom(g), page)
<1>1. Neighbors \in Nat /\ Routes \in Nat /\ Sensors \in Nat /\ k \in Nat
  BY HttpdAssumption
<1>2. CASE k < Sensors
  <2>. DEFINE new == Add(g, <<Row("sensor", k + 1)>>)
  <2>1. /\ Whole(new) /\ new.blen = 1 /\ new.i = k
        /\ Rows(page \o new.buf) = Append(Rows(page), Row("sensor", k + 1))
    <3>1. "sensor" \in Tables /\ k + 1 \in Nat
      BY <1>1 DEF Tables
    <3>. QED  BY <3>1, RowPage
  <2>2. SensorsFrom(g).gen = new /\ SensorsFrom(g).at = "sensor"
    BY <1>2 DEF SensorsFrom, Wait
  <2>. HIDE DEF new
  <2>3. Append(Shown(Neighbors, Routes, k), Row("sensor", k + 1)) = Shown(Neighbors, Routes, k + 1)
    BY <1>1, ShownSensor
  <2>4. Rows(page \o new.buf) = Shown(Neighbors, Routes, new.i + 1)
    BY <2>1, <2>3
  <2>5. Cursors("sensor", new) /\ Upto("sensor", new) = Shown(Neighbors, Routes, new.i + 1)
    BY <1>2, <2>1 DEF Cursors, Upto
  <2>. QED  BY <2>1, <2>2, <2>4, <2>5 DEF Goes, Places, Constant
<1>3. CASE k = Sensors
  <2>. DEFINE new == Add(g, <<Text("end")>>)
  <2>1. Whole(new) /\ new.blen = 1 /\ Rows(page \o new.buf) = Rows(page)
    BY TextPage
  <2>2. SensorsFrom(g).gen = new /\ SensorsFrom(g).at = "endsensors"
    BY <1>1, <1>3 DEF SensorsFrom, Wait
  <2>. HIDE DEF new
  <2>3. Cursors("endsensors", new) /\ Upto("endsensors", new) = Shown(Neighbors, Routes, Sensors)
    BY <2>1 DEF Cursors, Upto
  <2>. QED  BY <1>3, <2>1, <2>2, <2>3 DEF Goes, Places, Constant
<1>. QED  BY <1>1, <1>2, <1>3

\* What the next wait sends continues the page.
Continues(next, page) ==
  LET sent == Sends(next.at, next.gen, next.gen.blen)
  IN  /\ next.at \in Places \ {"start"} /\ Cursors(next.at, next.gen)
      /\ sent \in Seq(Item) /\ sent # << >>
      /\ Rows(page \o sent) = Upto(next.at, next.gen)

LEMMA GoesOn ==
  ASSUME NEW next, NEW page \in Seq(Item), Goes(next, page)
  PROVE  Continues(next, page)
<1>. DEFINE g == next.gen
            sent == Sends(next.at, g, g.blen)
<1>1. next.at \in Places \ {"start"} /\ next.at \notin Constant
  BY DEF Goes
<1>2. g.buf \in Seq(Item) /\ Len(g.buf) = g.blen /\ g.blen > 0 /\ g.blen \in Nat
  BY DEF Goes, Whole, StaticOK, Static
<1>3. sent = SubSeq(g.buf, 1, Len(g.buf))
  BY <1>1, <1>2 DEF Sends
<1>4. sent = g.buf
  BY <1>2, <1>3, SubSeqFull
<1>5. g.buf # << >>
  BY <1>2, EmptySeq
<1>. QED  BY <1>1, <1>2, <1>4, <1>5 DEF Goes, Continues

LEMMA ConstantNext ==
  ASSUME NEW g, StaticOK(g), NEW at \in Constant, NEW page \in Seq(Item),
         Rows(page) = Upto(at, g)
  PROVE  Continues(Wait(at, g), page)
<1>. DEFINE item == Text(at)
<1>1. item \in Item /\ item[1] \notin Tables
  BY DEF Text, Item, Tables, Constant
<1>2. Wait(at, g).at = at /\ Wait(at, g).gen = g
  BY DEF Wait
<1>3. Sends(at, g, g.blen) = <<item>>
  BY DEF Sends
<1>. HIDE DEF item
<1>4. Rows(page \o <<item>>) = Rows(page)
  BY <1>1, RowsOne
<1>5. <<item>> \in Seq(Item) /\ <<item>> # << >>
  BY <1>1
<1>6. at \in Places \ {"start"} /\ Cursors(at, g)
  BY DEF Places, Constant, Cursors
<1>. QED  BY <1>2, <1>3, <1>4, <1>5, <1>6 DEF Continues

\* From each wait to the next, and from the last one back to the start.
LEMMA ResumedPage ==
  ASSUME NEW g, StaticOK(g), NEW at \in Places, Cursors(at, g),
         NEW page \in Seq(Item), Rows(page) = Upto(at, g)
  PROVE  LET next == Resumed(at, g)
         IN  \/ at = "bottom" /\ next.at = "start" /\ next.gen = g
             \/ at # "bottom" /\ Continues(next, page)
<1>. DEFINE next == Resumed(at, g)
            e == Emptied(g)
<1>1. Neighbors \in Nat /\ Routes \in Nat /\ Sensors \in Nat /\ Full \in Nat /\ Full > 1
  BY HttpdAssumption
<1>2. /\ StaticOK(e) /\ e.blen = 0 /\ e.nbr = g.nbr /\ e.r = g.r /\ e.i = g.i
      /\ g.nbr \in 0..Neighbors /\ g.r \in 0..Routes /\ g.i \in Nat
  BY EmptiedOK DEF StaticOK, Static
<1>3. CASE at \in {"start", "headers", "endsensors"}
  <2>1. next = Wait(next.at, g) /\ next.at \in Constant /\ Upto(next.at, g) = Upto(at, g)
    BY <1>3 DEF Resumed, Wait, Constant, Upto
  <2>. HIDE DEF next
  <2>2. Continues(Wait(next.at, g), page)
    BY <2>1, ConstantNext
  <2>3. Continues(next, page)
    BY <2>1, <2>2
  <2>. QED  BY <1>3, <2>3 DEF next
<1>4. CASE at = "top"
  <2>. DEFINE h == Add(e, <<Text("Neighbors")>>)
              f == [h EXCEPT !.nbr = Head0(Neighbors)]
  <2>1. next = NeighborsFrom(f)
    BY <1>4 DEF Resumed
  <2>2. Whole(h) /\ h.blen = 1 /\ Rows(page \o h.buf) = Rows(page)
    BY <1>2, TextPage
  <2>3. Head0(Neighbors) \in 0..Neighbors
    BY <1>1 DEF Head0
  <2>. HIDE DEF h
  <2>4. Whole(f) /\ f.blen = 1 /\ f.nbr = Head0(Neighbors) /\ f.buf = h.buf
    BY <2>2, <2>3, CursorMoved
  <2>. HIDE DEF f
  <2>5. StaticOK(f) /\ SubSeq(f.buf, 1, f.blen) = f.buf
    <3>1. StaticOK(f) /\ f.buf \in Seq(Item) /\ f.blen = Len(f.buf)
      BY <2>4 DEF Whole, StaticOK, Static
    <3>2. SubSeq(f.buf, 1, Len(f.buf)) = f.buf
      BY <3>1, SubSeqFull
    <3>. QED  BY <3>1, <3>2
  <2>6. 0 \in 0..Neighbors /\ Rows(page \o SubSeq(f.buf, 1, f.blen)) = Shown(0, 0, 0)
    <3>1. Upto(at, g) = Shown(0, 0, 0) /\ 0 \in 0..Neighbors
      BY <1>1, <1>4 DEF Upto
    <3>. QED  BY <2>2, <2>4, <2>5, <3>1
  <2>7. \/ f.nbr = 0 + 1 /\ 0 < Neighbors
        \/ f.nbr = 0 /\ 0 = Neighbors
    BY <1>1, <2>4 DEF Head0
  <2>8. f.blen < Full
    BY <1>1, <2>4
  <2>9. Goes(NeighborsFrom(f), page)
    BY <2>5, <2>6, <2>7, <2>8, NeighborsPage
  <2>. QED  BY <1>4, <2>1, <2>9, GoesOn
<1>5. CASE at = "neighbors"
  <2>. DEFINE n == Next0(g.nbr, Neighbors)
              f == [e EXCEPT !.nbr = n]
  <2>1. next = NeighborsFrom(f)
    BY <1>2, <1>5 DEF Resumed
  <2>2. n \in 0..Neighbors /\ g.nbr \in 1..Neighbors
    BY <1>1, <1>2, <1>5, CursorOK DEF Cursors
  <2>3. \/ n = g.nbr + 1 /\ g.nbr < Neighbors
        \/ n = 0 /\ g.nbr = Neighbors
    BY <1>1, <2>2 DEF Next0
  <2>. HIDE DEF n
  <2>4. StaticOK(f) /\ f.blen = 0 /\ f.nbr = n
    <3>. HIDE DEF e
    <3>. QED  BY <1>2, <2>2, SetNbr
  <2>. HIDE DEF f
  <2>5. page \o SubSeq(f.buf, 1, f.blen) = page
    <3>1. SubSeq(f.buf, 1, f.blen) = << >>
      BY <2>4, SubSeqEmpty
    <3>. QED  BY <3>1, ConcatEmptySeq
  <2>6. Rows(page \o SubSeq(f.buf, 1, f.blen)) = Shown(g.nbr, 0, 0)
    BY <1>5, <2>5 DEF Upto
  <2>7. g.nbr \in 0..Neighbors /\ f.blen < Full
    BY <1>1, <2>2, <2>4
  <2>8. Goes(NeighborsFrom(f), page)
    <3>. DEFINE k == g.nbr
    <3>1. /\ k \in 0..Neighbors /\ Rows(page \o SubSeq(f.buf, 1, f.blen)) = Shown(k, 0, 0)
          /\ (f.nbr = k + 1 /\ k < Neighbors) \/ (f.nbr = 0 /\ k = Neighbors)
      BY <2>3, <2>4, <2>6, <2>7
    <3>. HIDE DEF k
    <3>. QED  BY <2>4, <2>7, <3>1, NeighborsPage
  <2>. QED  BY <1>5, <2>1, <2>8, GoesOn
<1>6. CASE at = "routes"
  <2>. DEFINE f == [e EXCEPT !.r = Head0(Routes)]
  <2>1. next = RoutesFrom(f)
    BY <1>6 DEF Resumed
  <2>2. Head0(Routes) \in 0..Routes
    BY <1>1 DEF Head0
  <2>3. StaticOK(f) /\ f.blen = 0 /\ f.r = Head0(Routes)
    <3>1. f.r = Head0(Routes)
      BY <1>2 DEF StaticOK, Static
    <3>. HIDE DEF e
    <3>2. StaticOK(f) /\ f.blen = 0
      BY <1>1, <1>2, <2>2, SetCursors
    <3>. QED  BY <3>1, <3>2 DEF e
  <2>. HIDE DEF f
  <2>4. \/ f.r = 0 + 1 /\ 0 < Routes
        \/ f.r = 0 /\ 0 = Routes
    BY <1>1, <2>3 DEF Head0
  <2>5. 0 \in 0..Routes /\ Rows(page) = Shown(Neighbors, 0, 0)
    BY <1>1, <1>6 DEF Upto
  <2>6. Goes(RoutesFrom(f), page)
    BY <2>3, <2>4, <2>5, RoutesPage
  <2>. QED  BY <1>6, <2>1, <2>6, GoesOn
<1>7. CASE at = "route"
  <2>. DEFINE m == Next0(g.r, Routes)
              f == [e EXCEPT !.r = m]
  <2>1. next = RoutesFrom(f)
    BY <1>2, <1>7 DEF Resumed
  <2>2. m \in 0..Routes /\ g.r \in 1..Routes
    BY <1>1, <1>2, <1>7, CursorOK DEF Cursors
  <2>3. \/ m = g.r + 1 /\ g.r < Routes
        \/ m = 0 /\ g.r = Routes
    BY <1>1, <2>2 DEF Next0
  <2>. HIDE DEF m
  <2>4. StaticOK(f) /\ f.blen = 0 /\ f.r = m
    <3>1. f.r = m
      BY <1>2 DEF StaticOK, Static
    <3>. HIDE DEF e
    <3>2. StaticOK(f) /\ f.blen = 0
      BY <1>1, <1>2, <2>2, SetCursors
    <3>. QED  BY <3>1, <3>2 DEF e
  <2>. HIDE DEF f
  <2>5. Rows(page) = Shown(Neighbors, g.r, 0)
    BY <1>7 DEF Upto
  <2>6. Goes(RoutesFrom(f), page)
    <3>. DEFINE k == g.r
    <3>1. /\ k \in 0..Routes /\ Rows(page) = Shown(Neighbors, k, 0)
          /\ (f.r = k + 1 /\ k < Routes) \/ (f.r = 0 /\ k = Routes)
      BY <1>1, <2>2, <2>3, <2>4, <2>5
    <3>. HIDE DEF k
    <3>. QED  BY <2>4, <3>1, RoutesPage
  <2>. QED  BY <1>7, <2>1, <2>6, GoesOn
<1>8. CASE at = "end" /\ Sensors > 0
  <2>. DEFINE new == Add(g, <<Text("Sensors")>>)
              h   == Text("end")
              s   == Text("Sensors")
  <2>1. next.gen = new /\ next.at = "sensors"
    BY <1>8 DEF Resumed, Wait
  <2>2. g.blen = 1 /\ g.buf = <<h>>
    BY <1>8 DEF Cursors
  <2>3. h \in Item /\ s \in Item /\ h[1] \notin Tables /\ s[1] \notin Tables
    BY DEF Text, Item, Tables
  <2>. HIDE DEF h, s
  <2>4. <<h>> \in Seq(Item) /\ <<s>> \in Seq(Item) /\ Len(<<h>>) = 1 /\ Len(<<s>>) = 1
    BY <2>3
  <2>5. SubSeq(g.buf, 1, g.blen) = <<h>>
    <3>1. SubSeq(<<h>>, 1, Len(<<h>>)) = <<h>>
      BY <2>4, SubSeqFull
    <3>. QED  BY <2>2, <2>4, <3>1
  <2>6. Whole(new) /\ new.blen = g.blen + Len(<<s>>) /\ new.buf = SubSeq(g.buf, 1, g.blen) \o <<s>>
    BY <2>4, AddWhole DEF s
  <2>. HIDE DEF new, next
  <2>7. Whole(new) /\ new.blen = 2 /\ new.buf = <<h>> \o <<s>>
    BY <2>2, <2>4, <2>5, <2>6
  <2>8. Rows(page \o new.buf) = Rows(page)
    <3>1. page \o <<h>> \in Seq(Item) /\ Rows(page \o <<h>>) = Rows(page)
      BY <2>3, RowsOne
    <3>2. Rows((page \o <<h>>) \o <<s>>) = Rows(page \o <<h>>)
      BY <2>3, <3>1, RowsOne
    <3>3. (page \o <<h>>) \o <<s>> = page \o (<<h>> \o <<s>>)
      BY <2>4, ThreeParts
    <3>. QED  BY <2>7, <3>1, <3>2, <3>3
  <2>9. Upto("end", g) = Upto("sensors", new) /\ Cursors("sensors", new)
    BY DEF Upto, Cursors
  <2>10. Goes(next, page)
    <3>1. Rows(page \o new.buf) = Upto("sensors", new)
      BY <1>8, <2>8, <2>9
    <3>2. "sensors" \in Places \ (Constant \cup {"start"}) /\ new.blen > 0
      BY <2>7 DEF Places, Constant
    <3>. QED  BY <2>1, <2>7, <2>9, <3>1, <3>2 DEF Goes
  <2>. QED  BY <1>8, <2>10, GoesOn DEF next
<1>9. CASE at = "end" /\ ~(Sensors > 0)
  <2>1. next = Wait("bottom", g) /\ Upto("bottom", g) = Upto(at, g)
    BY <1>1, <1>9 DEF Resumed, Upto
  <2>2. "bottom" \in Constant
    BY DEF Constant
  <2>3. Continues(Wait("bottom", g), page)
    BY <2>1, <2>2, ConstantNext
  <2>. QED  BY <1>9, <2>1, <2>3
<1>10. CASE at = "sensors"
  <2>. DEFINE f == [e EXCEPT !.i = 0]
  <2>1. next = SensorsFrom(f)
    BY <1>10 DEF Resumed
  <2>2. StaticOK(f) /\ f.blen = 0 /\ f.i = 0
    <3>1. f.i = 0
      BY <1>2 DEF StaticOK, Static
    <3>. HIDE DEF e
    <3>2. StaticOK(f) /\ f.blen = 0
      <4>1. 0 \in Nat
        OBVIOUS
      <4>. QED  BY <1>1, <1>2, <4>1, SetCursors
    <3>. QED  BY <3>1, <3>2 DEF e
  <2>. HIDE DEF f
  <2>3. 0 \in 0..Sensors /\ Rows(page) = Shown(Neighbors, Routes, 0)
    BY <1>1, <1>10 DEF Upto
  <2>4. Goes(SensorsFrom(f), page)
    BY <2>2, <2>3, SensorsPage
  <2>. QED  BY <1>10, <2>1, <2>4, GoesOn
<1>11. CASE at = "sensor"
  <2>. DEFINE k == g.i + 1
              f == [e EXCEPT !.i = k]
  <2>1. next = SensorsFrom(f)
    BY <1>2, <1>11 DEF Resumed
  <2>2. k \in Nat /\ k \in 0..Sensors
    BY <1>1, <1>2, <1>11 DEF Cursors
  <2>3. Rows(page) = Shown(Neighbors, Routes, k)
    BY <1>11 DEF Upto
  <2>. HIDE DEF k
  <2>4. StaticOK(f) /\ f.blen = 0 /\ f.i = k
    <3>1. f.i = k
      BY <1>2 DEF StaticOK, Static
    <3>. HIDE DEF e
    <3>2. StaticOK(f) /\ f.blen = 0
      BY <1>1, <1>2, <2>2, SetCursors
    <3>. QED  BY <3>1, <3>2 DEF e
  <2>. HIDE DEF f
  <2>5. Goes(SensorsFrom(f), page)
    BY <2>2, <2>3, <2>4, SensorsPage
  <2>. QED  BY <1>11, <2>1, <2>5, GoesOn
<1>12. CASE at = "bottom"
  BY <1>12 DEF Resumed, Wait
<1>. QED  BY <1>3, <1>4, <1>5, <1>6, <1>7, <1>8, <1>9, <1>10, <1>11, <1>12 DEF Places, Constant

------------------------------------------------------------------------------
(* The pages that are sent at the same time                                  *)

\* The page that c has for itself: what was sent last can be sent again, and the
\* rows so far are those that the wait of c has shown.
OnPage(c, h) ==
  IF h.at = "start" THEN wire[c] = << >> /\ got[c] = << >>
  ELSE /\ wire[c] # << >> /\ wire[c] = Sends(h.at, gen, h.sendlen)
       /\ Cursors(h.at, gen) /\ Rows(got[c] \o wire[c]) = Upto(h.at, gen)

\* An open connection: its output runs once the request is read.
Serving(c, h) ==
  /\ h.output <=> h.at # "start"
  /\ h.output => h.input = "rest"
  /\ c \notin mixed => OnPage(c, h)

PageOK(c) ==
  /\ ~Live(c) => wire[c] = << >> /\ got[c] = << >>
  /\ tcp[c] = "open" /\ ~stolen => Serving(c, httpd[state[c]])
  /\ tcp[c] = "closing" /\ c \notin mixed /\ ~stolen /\ got[c] # << >> => Rows(got[c]) = Contents

PageInv == \A c \in Conns : PageOK(c)

\* The thread comes back to its start only from the bottom of the page.
LEMMA PageEnds ==
  ASSUME NEW g, StaticOK(g), NEW at \in Places, Resumed(at, g).at = "start"
  PROVE  at = "bottom" /\ Resumed(at, g).gen = g
<1>1. ASSUME NEW f  PROVE NeighborsFrom(f).at # "start"
  BY DEF NeighborsFrom, Wait
<1>2. ASSUME NEW f  PROVE RoutesFrom(f).at # "start" /\ SensorsFrom(f).at # "start"
  BY DEF RoutesFrom, SensorsFrom, Wait
<1>3. ASSUME NEW a, NEW f  PROVE Wait(a, f).at = a /\ Wait(a, f).gen = f
  BY DEF Wait
<1>. QED  BY <1>1, <1>2, <1>3 DEF Resumed, Places, Constant

\* What a step leaves to the other connections.
LEMMA OthersKeep ==
  ASSUME NEW d \in Conns, PageOK(d), tcp'[d] = tcp[d], wire'[d] = wire[d], got'[d] = got[d],
         tcp[d] = "open" /\ ~stolen' => httpd'[state'[d]] = httpd[state[d]],
         stolen => stolen', d \in mixed => d \in mixed',
         \/ gen' = gen
         \/ wire[d] = << >>
         \/ d \in mixed'
  PROVE  PageOK(d)'
<1>. DEFINE h == httpd[state[d]]
<1>1. Live(d)' = Live(d)
  BY DEF Live
<1>2. ASSUME tcp'[d] = "open", ~stolen'  PROVE Serving(d, httpd[state[d]])'
  <2>1. Serving(d, h) /\ httpd'[state'[d]] = h
    BY <1>2 DEF PageOK
  <2>. HIDE DEF h
  <2>2. ASSUME d \notin mixed'
        PROVE  IF h.at = "start" THEN wire'[d] = << >> /\ got'[d] = << >>
               ELSE /\ wire'[d] # << >> /\ wire'[d] = Sends(h.at, gen', h.sendlen)
                    /\ Cursors(h.at, gen') /\ Rows(got'[d] \o wire'[d]) = Upto(h.at, gen')
    <3>1. OnPage(d, h)
      BY <2>1, <2>2 DEF Serving
    <3>2. CASE h.at = "start"
      BY <3>1, <3>2 DEF OnPage
    <3>3. CASE h.at # "start"
      <4>1. gen' = gen
        BY <2>2, <3>1, <3>3 DEF OnPage
      <4>. QED  BY <3>1, <3>3, <4>1 DEF OnPage
    <3>. QED  BY <3>2, <3>3
  <2>3. /\ h.output <=> h.at # "start"
        /\ h.output => h.input = "rest"
    BY <2>1 DEF Serving
  <2>. QED  BY <2>1, <2>2, <2>3 DEF Serving, OnPage
<1>3. ASSUME tcp'[d] = "closing", d \notin mixed', ~stolen', got'[d] # << >>
      PROVE  Rows(got'[d]) = Contents
  BY <1>3 DEF PageOK
<1>. QED  BY <1>1, <1>2, <1>3 DEF PageOK

\* Nothing happens to d.
LEMMA OthersAlone ==
  ASSUME TypeOK, OneOwner, NEW c \in Conns, NEW d \in Conns \ {c}, PageOK(d), tcp[c] = "open",
         UNCHANGED <<state, stolen>>, tcp'[d] = tcp[d], wire'[d] = wire[d], got'[d] = got[d],
         \A b \in Blocks \ {state[c]} : httpd'[b] = httpd[b],
         d \in mixed => d \in mixed',
         \/ gen' = gen
         \/ wire[d] = << >>
         \/ d \in mixed'
  PROVE  PageOK(d)'
<1>1. ASSUME tcp[d] = "open", ~stolen'  PROVE httpd'[state'[d]] = httpd[state[d]]
  <2>1. Live(d) /\ Live(c) /\ ~stolen
    BY <1>1 DEF Live
  <2>2. state[d] # state[c]
    BY <2>1 DEF OneOwner
  <2>3. state[d] \in Blocks
    BY <1>1 DEF TypeOK
  <2>. QED  BY <2>2, <2>3
<1>. QED  BY <1>1, OthersKeep

\* The page of c goes on.
LEMMA OutputPage ==
  ASSUME TypeOK, GeneratorOK, OneOwner, PageInv, NEW c \in Conns, NEW h \in HttpdState,
         NEW page, tcp[c] = "open", UNCHANGED <<state, stolen>>,
         Output(c, state[c], h), h.output, ~stolen => h.input = "rest",
         got' \in [Conns -> Seq(Item)], \A d \in Conns \ {c} : got'[d] = got[d],
         c \notin mixed' /\ ~stolen =>
           /\ page \in Seq(Item) /\ got'[c] = page
           /\ Cursors(h.at, gen) /\ Rows(page) = Upto(h.at, gen)
  PROVE  PageInv'
<1>. DEFINE next == Resumed(h.at, gen)
            done == next.at = "start"
            others == {d \in Conns \ {c} : Sending(d)}
            b == state[c]
            new == [h EXCEPT !.at = next.at, !.sendlen = next.gen.blen]
<1>1. StaticOK(gen) /\ h.at \in Places
  BY DEF GeneratorOK, Generator, Blen, StaticOK, Static, HttpdState
<1>2. b \in Blocks
  BY HasBlock
<1>3. /\ gen' = next.gen /\ httpd' = [httpd EXCEPT ![b] = new]
      /\ wire' = [wire EXCEPT ![c] = IF done THEN << >> ELSE Sends(next.at, next.gen, next.gen.blen)]
      /\ tcp' = [tcp EXCEPT ![c] = IF done THEN "closing" ELSE @]
      /\ mixed' = IF done \/ others = {} THEN mixed ELSE mixed \cup others \cup {c}
  BY DEF Output
<1>4. done => h.at = "bottom" /\ next.gen = gen
  BY <1>1, PageEnds
<1>5. PICK w : /\ httpd' = [httpd EXCEPT ![b] = w]
               /\ w.at = next.at /\ w.sendlen = next.gen.blen
               /\ w.output = h.output /\ w.input = h.input
  <2>1. new.at = next.at /\ new.sendlen = next.gen.blen /\ new.output = h.output /\ new.input = h.input
    BY DEF HttpdState
  <2>. HIDE DEF new
  <2>. QED  BY <1>3, <2>1
<1>6. ASSUME NEW d \in Conns \ {c}  PROVE PageOK(d)'
  <2>1. tcp'[d] = tcp[d] /\ wire'[d] = wire[d] /\ got'[d] = got[d]
    BY <1>3 DEF TypeOK
  <2>2. \A a \in Blocks \ {b} : httpd'[a] = httpd[a]
    BY <1>3 DEF TypeOK
  <2>3. \/ gen' = gen
        \/ wire[d] = << >>
        \/ d \in mixed'
    BY <1>3, <1>4 DEF Sending
  <2>4. d \in mixed => d \in mixed'
    BY <1>3
  <2>. QED  BY <2>1, <2>2, <2>3, <2>4, OthersAlone DEF PageInv
<1>7. PageOK(c)'
  <2>1. httpd'[state'[c]] = w
    BY <1>2, <1>5 DEF TypeOK
  <2>2. CASE done
    <3>1. tcp'[c] = "closing" /\ Live(c)'
      BY <1>3, <2>2 DEF TypeOK, Live
    <3>2. ASSUME c \notin mixed', ~stolen  PROVE Rows(got'[c]) = Contents
      BY <1>4, <2>2, <3>2 DEF Upto, Shown, Contents
    <3>. QED  BY <3>1, <3>2 DEF PageOK
  <2>3. CASE ~done
    <3>. DEFINE sent == Sends(next.at, next.gen, next.gen.blen)
    <3>1. tcp'[c] = "open" /\ Live(c)' /\ wire'[c] = sent
      BY <1>3, <2>3 DEF TypeOK, Live
    <3>2. ASSUME c \notin mixed', ~stolen  PROVE OnPage(c, w)'
      <4>1. Continues(next, page)
        <5>1. h.at # "bottom"
          BY <2>3 DEF Resumed, Wait
        <5>. HIDE DEF next
        <5>. QED  BY <1>1, <3>2, <5>1, ResumedPage DEF next
      <4>. HIDE DEF next
      <4>2. sent # << >> /\ Cursors(next.at, next.gen) /\ Rows(page \o sent) = Upto(next.at, next.gen)
        BY <4>1 DEF Continues
      <4>3. /\ wire'[c] # << >> /\ wire'[c] = Sends(w.at, gen', w.sendlen)
            /\ Cursors(w.at, gen') /\ Rows(got'[c] \o wire'[c]) = Upto(w.at, gen')
        BY <1>3, <1>5, <3>1, <3>2, <4>2
      <4>4. w.at # "start"
        BY <1>5, <2>3
      <4>. QED  BY <4>3, <4>4 DEF OnPage
    <3>3. w.output /\ w.at # "start" /\ (~stolen => w.input = "rest")
      BY <1>5, <2>3
    <3>4. ASSUME ~stolen  PROVE Serving(c, httpd[state[c]])'
      BY <2>1, <3>2, <3>3, <3>4 DEF Serving
    <3>. QED  BY <3>1, <3>4 DEF PageOK
  <2>. QED  BY <2>2, <2>3
<1>. QED  BY <1>6, <1>7 DEF PageInv

\* Nothing of the page happens: at most what no page needs is thrown away.
LEMMA StillPage ==
  ASSUME TypeOK, OneOwner, PageInv, NEW c \in Conns, tcp[c] = "open",
         UNCHANGED <<tcp, state, gen, mixed, stolen>>,
         \A d \in Conns \ {c} : wire'[d] = wire[d] /\ got'[d] = got[d],
         \A b \in Blocks \ {state[c]} : httpd'[b] = httpd[b],
         ~stolen => Serving(c, httpd[state[c]])'
  PROVE  PageInv'
<1>1. ASSUME NEW d \in Conns \ {c}  PROVE PageOK(d)'
  BY <1>1, OthersAlone DEF PageInv
<1>2. PageOK(c)'
  BY DEF PageOK, Live
<1>. QED  BY <1>1, <1>2 DEF PageInv

\* A call that is not an acknowledgement, and in which the page does not begin.
LEMMA HandledPage ==
  ASSUME TypeOK, GeneratorOK, OneOwner, PageInv, NEW c \in Conns, tcp[c] = "open",
         NEW h \in HttpdState, UNCHANGED <<state, got, stolen>>,
         HandleConnection(c, state[c], h, FALSE),
         h.at = httpd[state[c]].at, h.sendlen = httpd[state[c]].sendlen,
         ~stolen /\ h.output => h.input = "rest",
         ~stolen => (httpd[state[c]].output => h.output)
                    /\ (h.output /\ ~httpd[state[c]].output => h.at = "start")
  PROVE  PageInv'
<1>. DEFINE old == httpd[state[c]]
<1>1. state[c] \in Blocks
  BY HasBlock
<1>2. ~stolen => Serving(c, old)
  BY DEF PageInv, PageOK
<1>3. wire \in [Conns -> Seq(Item)] /\ got \in [Conns -> Seq(Item)] /\ mixed \subseteq Conns
  BY DEF TypeOK
<1>4. CASE h.output /\ h.at = "start"
  <2>1. Output(c, state[c], h)
    BY <1>4 DEF HandleConnection
  <2>. DEFINE page == got[c]
  <2>2. mixed \subseteq mixed'
    BY <2>1 DEF Output
  <2>3. ASSUME c \notin mixed', ~stolen
        PROVE  page \in Seq(Item) /\ got'[c] = page /\ Cursors(h.at, gen) /\ Rows(page) = Upto(h.at, gen)
    <3>1. page = << >>
      BY <1>2, <1>4, <2>2, <2>3 DEF Serving, OnPage
    <3>2. Rows(page) = << >>
      BY <1>3, <3>1, RowsEmpty, EmptySeq
    <3>3. Upto(h.at, gen) = << >>
      <4>1. Upto(h.at, gen) = Shown(0, 0, 0) /\ 0 \in Nat
        BY <1>4 DEF Upto
      <4>2. Shown(0, 0, 0) = AllOf("neighbor", 0)
        BY <4>1, ShownItems
      <4>. QED  BY <4>1, <4>2, AllOfNone DEF Tables
    <3>4. Cursors(h.at, gen)
      BY <1>4 DEF Cursors
    <3>. QED  BY <1>3, <3>2, <3>3, <3>4
  <2>. HIDE DEF page
  <2>4. got' \in [Conns -> Seq(Item)] /\ \A d \in Conns \ {c} : got'[d] = got[d]
    BY <1>3
  <2>. QED  BY <1>4, <2>1, <2>3, <2>4, OutputPage
<1>5. CASE ~(h.output /\ h.at = "start")
  <2>1. /\ httpd' = [httpd EXCEPT ![state[c]] = h] /\ UNCHANGED <<tcp, gen, mixed>>
        /\ wire' = wire
    <3>1. /\ httpd' = [httpd EXCEPT ![state[c]] = h] /\ UNCHANGED <<tcp, gen, mixed>>
          /\ wire' = [wire EXCEPT ![c] = @]
      BY <1>5 DEF HandleConnection
    <3>. QED  BY <1>3, <3>1
  <2>2. ASSUME ~stolen  PROVE Serving(c, httpd[state[c]])'
    <3>1. httpd'[state'[c]] = h
      BY <1>1, <2>1 DEF TypeOK
    <3>2. /\ h.output <=> h.at # "start"
          /\ h.output => h.input = "rest"
      BY <1>2, <1>5, <2>2 DEF Serving
    <3>3. c \notin mixed => OnPage(c, old)
      BY <1>2, <2>2 DEF Serving
    <3>. HIDE DEF old
    <3>4. c \notin mixed' => OnPage(c, h)'
      BY <2>1, <3>3 DEF OnPage, old
    <3>. QED  BY <3>1, <3>2, <3>4 DEF Serving
  <2>3. \A b \in Blocks \ {state[c]} : httpd'[b] = httpd[b]
    BY <2>1 DEF TypeOK
  <2>. QED  BY <2>1, <2>2, <2>3, StillPage
<1>. QED  BY <1>4, <1>5

LEMMA PageStep ==
  ASSUME TypeOK, GeneratorOK, OneOwner, PageInv, [Next]_vars
  PROVE  PageInv'
<1>1. ASSUME NEW c \in Conns, Connect(c)  PROVE PageInv'
  <2>1. /\ UNCHANGED <<gen, wire, got, mixed, stolen>> /\ tcp[c] = "closed"
    BY <1>1 DEF Connect, First
  <2>2. CASE used = Blocks
    <3>1. UNCHANGED <<tcp, state, used, httpd>>
      BY <1>1, <2>2 DEF Connect, uip
    <3>. QED  BY <2>1, <3>1, OthersKeep DEF PageInv
  <2>3. CASE used # Blocks
    <3>1. PICK b \in Blocks : /\ b \notin used /\ state' = [state EXCEPT ![c] = b]
                              /\ httpd' = [httpd EXCEPT ![b] = Fresh]
                              /\ tcp' = [tcp EXCEPT ![c] = "open"]
      BY <1>1, <2>3 DEF Connect, First
    <3>2. ASSUME NEW d \in Conns \ {c}  PROVE PageOK(d)'
      <4>1. ASSUME tcp[d] = "open", ~stolen'  PROVE httpd'[state'[d]] = httpd[state[d]]
        <5>1. state[d] \in used
          BY <2>1, <4>1 DEF OneOwner, Live
        <5>. QED  BY <3>1, <5>1 DEF TypeOK
      <4>2. tcp'[d] = tcp[d]
        BY <3>1 DEF TypeOK
      <4>. QED  BY <2>1, <4>1, <4>2, OthersKeep DEF PageInv
    <3>3. PageOK(c)'
      <4>1. wire[c] = << >> /\ got[c] = << >>
        BY <2>1 DEF PageInv, PageOK, Live
      <4>2. tcp'[c] = "open" /\ httpd'[state'[c]] = Fresh
        BY <3>1 DEF TypeOK
      <4>3. Fresh.at = "start" /\ ~Fresh.output
        BY DEF Fresh
      <4>. QED  BY <2>1, <4>1, <4>2, <4>3 DEF PageOK, Serving, OnPage, Live
    <3>. QED  BY <3>2, <3>3 DEF PageInv
  <2>. QED  BY <2>2, <2>3
<1>2. ASSUME NEW c \in Conns, NewData(c)  PROVE PageInv'
  <2>. DEFINE b == state[c]
              old == httpd[b]
  <2>1. tcp[c] = "open" /\ UNCHANGED <<state, pool, got, opened, stolen>>
    BY <1>2 DEF NewData
  <2>2. b \in Blocks /\ old \in HttpdState
    BY <2>1, HasBlock DEF TypeOK
  <2>3. ~stolen => Serving(c, old)
    BY <2>1 DEF PageInv, PageOK
  <2>4. ASSUME NEW to \in {"path", "rest"},
               old.input = "method" \/ (old.input = "path" /\ to = "rest"),
               HandleConnection(c, b, [old EXCEPT !.input = to, !.output = @ \/ to = "rest"], FALSE)
        PROVE  PageInv'
    <3>. DEFINE h == [old EXCEPT !.input = to, !.output = @ \/ to = "rest"]
    <3>1. /\ h \in HttpdState /\ h.at = old.at /\ h.sendlen = old.sendlen
          /\ h.input = to /\ h.output = (old.output \/ to = "rest")
      BY <2>2 DEF HttpdState
    <3>2. HandleConnection(c, b, h, FALSE)
      BY <2>4
    <3>. HIDE DEF h
    <3>3. ASSUME ~stolen  PROVE ~old.output /\ old.at = "start"
      BY <2>2, <2>3, <2>4, <3>3 DEF Serving, HttpdState
    <3>4. /\ ~stolen /\ h.output => h.input = "rest"
          /\ ~stolen => (old.output => h.output) /\ (h.output /\ ~old.output => h.at = "start")
      BY <3>1, <3>3
    <3>. HIDE DEF old, b
    <3>. QED  BY <2>1, <3>1, <3>2, <3>4, HandledPage DEF old, b
  <2>5. CASE HandleConnection(c, b, old, FALSE) /\ old.input = "rest"
    BY <2>1, <2>2, <2>5, HandledPage
  <2>6. CASE /\ old.input # "rest" /\ httpd' = [httpd EXCEPT ![b] = [old EXCEPT !.input = "method"]]
             /\ tcp' = [tcp EXCEPT ![c] = "closing"]
             /\ UNCHANGED <<gen, wire, mixed>>
    <3>1. ASSUME NEW d \in Conns \ {c}  PROVE PageOK(d)'
      <4>1. tcp'[d] = tcp[d] /\ \A a \in Blocks \ {b} : httpd'[a] = httpd[a]
        BY <2>6 DEF TypeOK
      <4>. QED  BY <2>1, <2>6, <4>1, OthersAlone DEF PageInv
    <3>2. PageOK(c)'
      <4>1. tcp'[c] = "closing" /\ Live(c)'
        BY <2>6 DEF TypeOK, Live
      <4>2. c \notin mixed' /\ ~stolen' => got'[c] = << >>
        BY <2>1, <2>2, <2>3, <2>6 DEF Serving, OnPage, HttpdState
      <4>. QED  BY <4>1, <4>2 DEF PageOK
    <3>. QED  BY <3>1, <3>2 DEF PageInv
  <2>. QED  BY <1>2, <2>4, <2>5, <2>6 DEF NewData
<1>3. ASSUME NEW c \in Conns, Acked(c)  PROVE PageInv'
  <2>. DEFINE b == state[c]
              h == httpd[b]
              page == got[c] \o wire[c]
  <2>1. /\ tcp[c] = "open" /\ Sending(c) /\ UNCHANGED <<state, pool, opened, stolen>>
        /\ HandleConnection(c, b, h, TRUE)
        /\ got' = [got EXCEPT ![c] = IF c \in mixed' THEN << >> ELSE page]
    BY <1>3 DEF Acked
  <2>2. b \in Blocks /\ h \in HttpdState
    BY <2>1, HasBlock DEF TypeOK
  <2>3. ~stolen => Serving(c, h)
    BY <2>1 DEF PageInv, PageOK
  <2>4. page \in Seq(Item) /\ got \in [Conns -> Seq(Item)] /\ wire \in [Conns -> Seq(Item)]
    <3>1. got[c] \in Seq(Item) /\ wire[c] \in Seq(Item)
      BY DEF TypeOK
    <3>. QED  BY <3>1, ConcatProperties DEF TypeOK
  <2>5. CASE h.output
    <3>1. Output(c, b, h)
      BY <2>1, <2>5 DEF HandleConnection
    <3>2. mixed \subseteq mixed'
      BY <3>1 DEF Output
    <3>3. ASSUME c \notin mixed', ~stolen
          PROVE  page \in Seq(Item) /\ got'[c] = page /\ Cursors(h.at, gen) /\ Rows(page) = Upto(h.at, gen)
      <4>1. got'[c] = page
        <5>. HIDE DEF page
        <5>. QED  BY <2>1, <2>4, <3>3
      <4>2. h.at # "start" /\ OnPage(c, h)
        BY <2>3, <2>5, <3>2, <3>3 DEF Serving
      <4>. QED  BY <2>4, <4>1, <4>2 DEF OnPage
    <3>4. got' \in [Conns -> Seq(Item)] /\ \A d \in Conns \ {c} : got'[d] = got[d]
      <4>. HIDE DEF page
      <4>1. << >> \in Seq(Item)
        BY EmptySeq
      <4>. QED  BY <2>1, <2>4, <4>1
    <3>5. ~stolen => h.input = "rest"
      BY <2>3, <2>5 DEF Serving
    <3>. HIDE DEF page, h
    <3>. QED  BY <2>1, <2>2, <2>5, <3>1, <3>3, <3>4, <3>5, OutputPage
  <2>6. CASE ~h.output
    <3>1. /\ httpd' = [httpd EXCEPT ![b] = h] /\ UNCHANGED <<tcp, gen, mixed>>
          /\ wire' = [wire EXCEPT ![c] = << >>]
      <4>1. /\ httpd' = [httpd EXCEPT ![b] = h] /\ UNCHANGED <<tcp, gen, mixed>>
            /\ wire' = [wire EXCEPT ![c] = IF TRUE THEN << >> ELSE @]
        BY <2>1, <2>6 DEF HandleConnection
      <4>. QED  BY <4>1
    <3>2. httpd' = httpd
      BY <3>1 DEF TypeOK
    <3>3. ASSUME ~stolen  PROVE Serving(c, httpd[state[c]])'
      <4>1. h.at = "start" /\ c \in mixed
        BY <2>1, <2>3, <2>6, <3>3 DEF Serving, OnPage, Sending
      <4>2. httpd'[state'[c]] = h
        BY <2>1, <3>2
      <4>. QED  BY <2>6, <3>1, <4>1, <4>2 DEF Serving
    <3>4. \A d \in Conns \ {c} : wire'[d] = wire[d] /\ got'[d] = got[d]
      <4>. HIDE DEF page
      <4>. QED  BY <2>1, <2>4, <3>1
    <3>. QED  BY <2>1, <3>1, <3>2, <3>3, <3>4, StillPage
  <2>. QED  BY <2>5, <2>6
<1>4. ASSUME NEW c \in Conns, Rexmit(c)  PROVE PageInv'
  <2>. DEFINE b == state[c]
              h == httpd[b]
  <2>1. tcp[c] = "open" /\ Sending(c) /\ UNCHANGED <<state, pool, got, opened, stolen>>
    BY <1>4 DEF Rexmit
  <2>2. b \in Blocks /\ h \in HttpdState
    BY <2>1, HasBlock DEF TypeOK
  <2>3. ~stolen => Serving(c, h)
    BY <2>1 DEF PageInv, PageOK
  <2>4. CASE /\ h.output /\ h.at # "start"
             /\ wire' = [wire EXCEPT ![c] = Sends(h.at, gen, h.sendlen)]
             /\ httpd' = [httpd EXCEPT ![b] = h] /\ UNCHANGED <<tcp, gen, mixed>>
    <3>1. httpd' = httpd /\ \A d \in Conns \ {c} : wire'[d] = wire[d] /\ got'[d] = got[d]
      BY <2>1, <2>4 DEF TypeOK
    <3>2. ASSUME ~stolen  PROVE Serving(c, httpd[state[c]])'
      <4>1. ASSUME c \notin mixed  PROVE wire' = wire
        <5>1. wire[c] = Sends(h.at, gen, h.sendlen)
          BY <2>3, <2>4, <3>2, <4>1 DEF Serving, OnPage
        <5>. QED  BY <2>4, <5>1 DEF TypeOK
      <4>2. Serving(c, h)
        BY <2>3, <3>2
      <4>. QED  BY <2>1, <2>4, <3>1, <4>1, <4>2 DEF Serving, OnPage
    <3>. QED  BY <2>1, <2>4, <3>1, <3>2, StillPage
  <2>5. CASE HandleConnection(c, b, h, FALSE)
    <3>1. ~stolen /\ h.output => h.input = "rest"
      BY <2>3 DEF Serving
    <3>. QED  BY <2>1, <2>2, <2>5, <3>1, HandledPage
  <2>. QED  BY <1>4, <2>4, <2>5 DEF Rexmit
<1>5. ASSUME NEW c \in Conns, Poll(c)  PROVE PageInv'
  <2>1. /\ tcp[c] = "open" /\ UNCHANGED <<state, pool, got, opened, stolen>>
        /\ HandleConnection(c, state[c], httpd[state[c]], FALSE)
    BY <1>5 DEF Poll
  <2>2. httpd[state[c]] \in HttpdState
    BY <2>1, HasBlock DEF TypeOK
  <2>3. ~stolen /\ httpd[state[c]].output => httpd[state[c]].input = "rest"
    BY <2>1 DEF PageInv, PageOK, Serving
  <2>. QED  BY <2>1, <2>2, <2>3, HandledPage
<1>6. ASSUME NEW c \in Conns, NEW to \in {"closed", "lingering"}, Ends(c, to), stolen => stolen'
      PROVE  PageInv'
  <2>1. ASSUME NEW d \in Conns \ {c}  PROVE PageOK(d)'
    <3>1. tcp'[d] = tcp[d] /\ state'[d] = state[d] /\ wire'[d] = wire[d] /\ got'[d] = got[d]
          /\ gen' = gen /\ (d \in mixed => d \in mixed')
      BY <1>6 DEF Ends, TypeOK
    <3>2. ASSUME tcp[d] = "open"  PROVE httpd'[state'[d]] = httpd[state[d]]
      <4>1. state[d] \in Blocks /\ Live(d)
        BY <3>2, HasBlock DEF Live
      <4>. QED  BY <1>6, <3>1, <4>1 DEF Ends
    <3>. QED  BY <1>6, <3>1, <3>2, OthersKeep DEF PageInv
  <2>2. PageOK(c)'
    BY <1>6 DEF Ends, PageOK, Live, TypeOK
  <2>. QED  BY <2>1, <2>2 DEF PageInv
<1>7. ASSUME NEW c \in Conns,
             PollLate(c) \/ ClosedByClient(c) \/ Aborted(c) \/ TimedOut(c)
             \/ Dropped(c) \/ ReportedAgain(c) \/ Forgotten(c)
      PROVE  PageInv'
  <2>1. PICK to \in {"closed", "lingering"} : Ends(c, to)
    BY <1>7 DEF PollLate, ClosedByClient, Aborted, TimedOut, Dropped,
              ReportedAgain, Forgotten, Freed
  <2>2. stolen => stolen'
    BY <1>7 DEF PollLate, ClosedByClient, Aborted, TimedOut, Dropped,
              ReportedAgain, Forgotten
  <2>. QED  BY <1>6, <2>1, <2>2
<1>8. CASE UNCHANGED vars
  <2>1. UNCHANGED <<tcp, state, used, dropped, httpd, gen, wire, got, opened, mixed, stolen>>
    BY <1>8 DEF vars, uip, hist, pool
  <2>. QED  BY <2>1, OthersKeep DEF PageInv
<1>. QED  BY <1>1, <1>2, <1>3, <1>4, <1>5, <1>7, <1>8 DEF Next

(***************************************************************************)
(* A page that no other page was sent with lists the entries of the three  *)
(* tables, each once and in order, however often it is sent again, and     *)
(* whatever the generator was left with.                                   *)
(***************************************************************************)
THEOREM PagesWhole == Spec => []PageWhole
<1>1. Init => PageInv
  BY DEF Init, PageInv, PageOK, Live
<1>2. Init => OneOwner
  BY DEF Init, OneOwner, Live
<1>3. /\ TypeOK /\ GeneratorOK /\ OneOwner /\ PageInv /\ [Next]_vars
      => (TypeOK /\ GeneratorOK /\ OneOwner /\ PageInv)'
  BY TypeStep, OneOwnerStep, PageStep
<1>4. PageInv => PageWhole
  BY DEF PageInv, PageOK, PageWhole, Served
<1>5. Init => TypeOK /\ GeneratorOK
  BY TypeInit
<1>. QED  BY <1>1, <1>2, <1>3, <1>4, <1>5, PTL DEF Spec
==============================================================================
