-------------------------- MODULE TxSessionProofs --------------------------
(***************************************************************************)
(* Both rings stay within their slots, and every id on the line names a    *)
(* slot of callbacks, for every size of the rings and every bound.         *)
(*                                                                         *)
(* A report reaches the callback of its packet, and the MAC layer gets one *)
(* answer for a packet, for every size of the rings and every number of    *)
(* packets, losses, resets and restarts, until a report of an earlier run  *)
(* of the bridge is taken for one of this run.                             *)
(***************************************************************************)
EXTENDS TxSession, TLAPS, SequenceTheorems, FiniteSetTheorems

Command      == [sid : Sid, packet : Packet]
Transmission == [slot : Slot, packet : Packet]
Call         == [owner : Packet, packet : Packet, born : 0..MaxSends]

(***************************************************************************)
(* The cursor of a ring comes back to 0 after the last slot                *)
(* (slip-bridge-rdc.c:92-95, slip-radio.c:134-137).                        *)
(***************************************************************************)
LEMMA NextSlot ==
  ASSUME NEW size \in Nat \ {0}, NEW i \in 0..(size - 1)
  PROVE  (IF i + 1 >= size THEN 0 ELSE i + 1) \in 0..(size - 1)
  OBVIOUS

(***************************************************************************)
(* A packet that is sent gets the next number.                             *)
(***************************************************************************)
LEMMA NextPacket ==
  ASSUME sent \in 0..MaxSends, born \in 0..sent, sent < MaxSends, sent' = sent + 1
  PROVE  sent' \in Packet /\ sent' \in 0..MaxSends /\ born \in 0..sent'
  BY TxSessionAssumption DEF Packet

LEMMA InitTypes == Init => TypeOK
<1> SUFFICES ASSUME Init PROVE TypeOK
  OBVIOUS
<1>1. 0 \in Sid /\ 0 \in Slot
  BY TxSessionAssumption DEF Sid, Slot
<1>2. callbacks \in [Sid -> Packet \cup {Null}] /\ packet_ids \in [Slot -> Sid]
  BY <1>1 DEF Init, Sid, Slot
<1>3. /\ down \in Seq(Command) /\ pending \in Seq(Transmission)
      /\ up \in Seq(Command) /\ called \in Seq(Call)
  BY DEF Init
<1>4. sent \in 0..MaxSends /\ born \in 0..sent /\ restarts \in 0..MaxRestarts
  BY TxSessionAssumption DEF Init
<1> QED BY <1>1, <1>2, <1>3, <1>4 DEF Init, TypeOK, Command, Transmission, Call

(***************************************************************************)
(* The type invariant of the rings, the line and the histories.            *)
(***************************************************************************)
THEOREM TypeCorrect == Spec => []TypeOK
<1>1. TypeOK /\ [Next]_vars => TypeOK'
  <2> SUFFICES ASSUME TypeOK, [Next]_vars PROVE TypeOK'
    OBVIOUS
  <2>0. /\ down \in Seq(Command) /\ pending \in Seq(Transmission)
        /\ up \in Seq(Command) /\ called \in Seq(Call)
        /\ callback_pos \in Sid /\ callbacks \in [Sid -> Packet \cup {Null}]
        /\ packet_pos \in Slot /\ packet_ids \in [Slot -> Sid]
    BY DEF TypeOK, Command, Transmission, Call
  <2>b. born \in 0..MaxSends
    BY TxSessionAssumption DEF TypeOK
  <2>1. CASE SendPacket
    <3>1. sent' \in Packet /\ sent' \in 0..MaxSends /\ born' \in 0..sent'
      BY <2>1, NextPacket DEF SendPacket, MaySend, TypeOK
    <3>2. callback_pos' \in Sid
      BY <2>0, <2>1, NextSlot, TxSessionAssumption DEF SendPacket, Sid
    <3>3. callbacks' \in [Sid -> Packet \cup {Null}]
      BY <2>0, <2>1, <3>1 DEF SendPacket
    <3>4. down' \in Seq(Command)
      <4>1. [sid |-> callback_pos, packet |-> sent'] \in Command
        BY <2>0, <3>1 DEF Command
      <4> QED BY <2>0, <2>1, <4>1, AppendProperties DEF SendPacket
    <3>5. outstanding' \in SUBSET Packet
      BY <2>1, <3>1 DEF SendPacket, TypeOK
    <3> QED BY <2>1, <3>1, <3>2, <3>3, <3>4, <3>5 DEF SendPacket, TypeOK, Command, radio
  <2>2. CASE SendFails
    <3>1. sent' \in Packet /\ sent' \in 0..MaxSends /\ born' \in 0..sent'
      BY <2>2, NextPacket DEF SendFails, MaySend, TypeOK
    <3>2. called' \in Seq(Call)
      <4>1. [owner |-> sent', packet |-> sent', born |-> born] \in Call
        BY <3>1, <2>b DEF Call
      <4> QED BY <2>0, <2>2, <4>1, AppendProperties DEF SendFails
    <3> QED BY <2>2, <3>1, <3>2 DEF SendFails, TypeOK, Call, bridge, radio
  <2>3. CASE Report
    <3>1. Head(up) \in Command /\ Tail(up) \in Seq(Command)
      BY <2>0, <2>3, HeadTailProperties DEF Report
    <3>2. called' \in Seq(Call) /\ outstanding' \in SUBSET Packet
      <4> DEFINE owner == callbacks[Head(up).sid]
                 call  == [owner |-> owner, packet |-> Head(up).packet, born |-> born]
      <4>1. CASE owner # Null
        <5>1. owner \in Packet /\ Head(up).packet \in Packet
          BY <2>0, <3>1, <4>1 DEF Command
        <5>2. call \in Call
          BY <5>1, <2>b DEF Call
        <5>3. \/ called' = Append(called, call) /\ outstanding' = outstanding \ {owner}
              \/ called' = called /\ outstanding' = outstanding
          BY <2>3 DEF Report
        <5> HIDE DEF call, owner
        <5>4. Append(called, call) \in Seq(Call)
          BY <2>0, <5>2, AppendProperties
        <5>5. outstanding \in SUBSET Packet
          BY DEF TypeOK
        <5> QED BY <2>0, <5>3, <5>4, <5>5
      <4>2. CASE owner = Null
        <5>1. called' = called /\ outstanding' = outstanding
          BY <2>3, <4>2 DEF Report
        <5>2. outstanding \in SUBSET Packet
          BY DEF TypeOK
        <5> HIDE DEF owner, call
        <5> QED BY <2>0, <5>1, <5>2
      <4> QED BY <4>1, <4>2
    <3> QED BY <2>3, <3>1, <3>2 DEF Report, TypeOK, Command, Call, radio
  <2>4. CASE BridgeRestarts
    <3>1. callback_pos' \in Sid /\ callbacks' \in [Sid -> Packet \cup {Null}]
      BY <2>4, TxSessionAssumption DEF BridgeRestarts, Sid
    <3>2. down' \in Seq(Command) /\ up' \in Seq(Command)
      <4>1. << >> \in Seq(Command)
        OBVIOUS
      <4> QED BY <2>0, <2>4, <4>1 DEF BridgeRestarts
    <3>3. born' \in 0..sent' /\ restarts' \in 0..MaxRestarts
      BY <2>4, TxSessionAssumption DEF BridgeRestarts, TypeOK
    <3> QED BY <2>4, <3>1, <3>2, <3>3 DEF BridgeRestarts, TypeOK, Command, radio
  <2>5. CASE SendCommand
    <3>1. Head(down) \in Command /\ Tail(down) \in Seq(Command)
      BY <2>0, <2>5, HeadTailProperties DEF SendCommand
    <3>2. packet_ids' \in [Slot -> Sid]
      BY <2>0, <2>5, <3>1 DEF SendCommand, Command
    <3>3. pending' \in Seq(Transmission)
      <4>1. [slot |-> packet_pos, packet |-> Head(down).packet] \in Transmission
        BY <2>0, <3>1 DEF Transmission, Command
      <4> QED BY <2>0, <2>5, <4>1, AppendProperties DEF SendCommand
    <3>4. packet_pos' \in Slot
      BY <2>0, <2>5, NextSlot, TxSessionAssumption DEF SendCommand, Slot
    <3> QED BY <2>5, <3>1, <3>2, <3>3, <3>4
            DEF SendCommand, TypeOK, Command, Transmission, bridge
  <2>6. CASE IllegalAttributes
    <3>1. Head(down) \in Command /\ Tail(down) \in Seq(Command)
      BY <2>0, <2>6, HeadTailProperties DEF IllegalAttributes
    <3>2. packet_ids' \in [Slot -> Sid]
      BY <2>0, <2>6, <3>1 DEF IllegalAttributes, Command
    <3>3. lost' \in SUBSET Packet
      BY <2>6, <3>1 DEF IllegalAttributes, Forget, TypeOK, Command
    <3> QED BY <2>6, <3>1, <3>2, <3>3 DEF IllegalAttributes, TypeOK, Command, bridge
  <2>7. CASE PacketSent
    <3>1. Head(pending) \in Transmission /\ Tail(pending) \in Seq(Transmission)
      BY <2>0, <2>7, HeadTailProperties DEF PacketSent
    <3>2. up' \in Seq(Command)
      <4>1. [sid |-> packet_ids[Head(pending).slot], packet |-> Head(pending).packet]
              \in Command
        BY <2>0, <3>1 DEF Transmission, Command
      <4> QED BY <2>0, <2>7, <4>1, AppendProperties DEF PacketSent
    <3> QED BY <2>7, <3>1, <3>2 DEF PacketSent, TypeOK, Command, Transmission, bridge
  <2>8. CASE RadioResets
    <3>1. packet_pos' \in Slot /\ packet_ids' \in [Slot -> Sid]
      BY <2>8, TxSessionAssumption DEF RadioResets, Slot, Sid
    <3>2. pending' \in Seq(Transmission)
      BY <2>8 DEF RadioResets
    <3>3. lost' \in SUBSET Packet
      <4>1. \A i \in DOMAIN pending : pending[i].packet \in Packet
        <5>1. DOMAIN pending = 1..Len(pending)
          BY <2>0
        <5>2. \A i \in 1..Len(pending) : pending[i] \in Transmission
          BY <2>0, ElementOfSeq
        <5> QED BY <5>1, <5>2 DEF Transmission
      <4> QED BY <2>8, <4>1 DEF RadioResets, Forget, TypeOK
    <3> QED BY <2>8, <3>1, <3>2, <3>3 DEF RadioResets, TypeOK, Transmission, bridge
  <2>9. CASE LineLosesCommand
    <3>1. Head(down) \in Command /\ Tail(down) \in Seq(Command)
      BY <2>0, <2>9, HeadTailProperties DEF LineLosesCommand
    <3>2. lost' \in SUBSET Packet
      BY <2>9, <3>1 DEF LineLosesCommand, Forget, TypeOK, Command
    <3> QED BY <2>9, <3>1, <3>2 DEF LineLosesCommand, TypeOK, Command, bridge, radio
  <2>10. CASE LineLosesReport
    <3>1. Head(up) \in Command /\ Tail(up) \in Seq(Command)
      BY <2>0, <2>10, HeadTailProperties DEF LineLosesReport
    <3>2. lost' \in SUBSET Packet
      BY <2>10, <3>1 DEF LineLosesReport, Forget, TypeOK, Command
    <3> QED BY <2>10, <3>1, <3>2 DEF LineLosesReport, TypeOK, Command, bridge, radio
  <2>11. CASE UNCHANGED vars
    BY <2>11 DEF vars, bridge, radio, TypeOK
  <2> QED BY <2>1, <2>2, <2>3, <2>4, <2>5, <2>6, <2>7, <2>8, <2>9, <2>10, <2>11
          DEF Next
<1> QED BY <1>1, InitTypes, PTL DEF Spec

------------------------------------------------------------------------------
(***************************************************************************)
(* Reports and answers.  The packets on their way, in the reports, the     *)
(* radio and the commands, are in the order in which they were sent.  So   *)
(* the packets that were sent after one that is on its way, and it, are    *)
(* all unanswered: fewer than the slots of either ring, which counts them  *)
(* off from its cursor.                                                    *)
(***************************************************************************)

Rising(s)    == \A i, j \in DOMAIN s : i < j => s[i].packet < s[j].packet
Before(s, t) == \A i \in DOMAIN s, j \in DOMAIN t : s[i].packet < t[j].packet
UpTo(s, n)   == \A i \in DOMAIN s : s[i].packet <= n

\* The unanswered packets from p on.
Since(out, p) == {q \in out : q >= p}
Count(out, p) == Cardinality(Since(out, p))

\* The cursor of a ring, k slots after one of them.
Ahead(pos, from, k, size) == pos = IF from + k >= size THEN from + k - size ELSE from + k

\* The slot sid has the callback of p, which is unanswered, and each unanswered
\* packet after p has taken a slot.
Kept(out, cbs, pos, p, sid) ==
  p \in out /\ cbs[sid] = p /\ Ahead(pos, sid, Count(out, p), MAX_CALLBACKS)

OrderOK ==
  /\ Rising(down) /\ Rising(pending) /\ Rising(up)
  /\ Before(up, pending) /\ Before(up, down) /\ Before(pending, down)
  /\ UpTo(down, sent) /\ UpTo(pending, sent) /\ UpTo(up, sent) /\ UpTo(called, sent)
  /\ outstanding \subseteq (born + 1)..sent
  /\ Cardinality(outstanding) <= Window

\* Of the packets of this run of the bridge.
DownOK ==
  \A i \in DOMAIN down : down[i].packet > born =>
    /\ Kept(outstanding, callbacks, callback_pos, down[i].packet, down[i].sid)
    /\ Count(outstanding, down[i].packet) >= Len(down) - i + 1

PendingOK ==
  \A i \in DOMAIN pending : pending[i].packet > born =>
    /\ Kept(outstanding, callbacks, callback_pos, pending[i].packet,
            packet_ids[pending[i].slot])
    /\ Count(outstanding, pending[i].packet) >= Len(down) + Len(pending) - i + 1
    /\ Ahead(packet_pos, pending[i].slot, Len(pending) - i + 1, RadioSlots)

UpOK ==
  \A i \in DOMAIN up : up[i].packet > born =>
    Kept(outstanding, callbacks, callback_pos, up[i].packet, up[i].sid)

AnswersOK == OrderOK /\ (NoneStale => DownOK /\ PendingOK /\ UpOK) /\ RightCallback

------------------------------------------------------------------------------
(* Sequences that lose their head or get one element more                    *)

(***************************************************************************)
(* What is left of the line when its first packet is taken.                *)
(***************************************************************************)
LEMMA TailFacts ==
  ASSUME NEW T, NEW s \in Seq(T), s # << >>
  PROVE  /\ DOMAIN s = 1..Len(s) /\ Len(s) \in Nat \ {0}
         /\ Len(Tail(s)) = Len(s) - 1 /\ DOMAIN Tail(s) = 1..(Len(s) - 1)
         /\ \A i \in 1..(Len(s) - 1) : Tail(s)[i] = s[i + 1]
         /\ s[1] = Head(s) /\ Head(s) \in T
  OBVIOUS

(***************************************************************************)
(* What the line holds when one more packet is put on it.                  *)
(***************************************************************************)
LEMMA AppendFacts ==
  ASSUME NEW T, NEW s \in Seq(T), NEW e
  PROVE  /\ DOMAIN s = 1..Len(s) /\ Len(s) \in Nat
         /\ Len(Append(s, e)) = Len(s) + 1 /\ DOMAIN Append(s, e) = 1..(Len(s) + 1)
         /\ \A i \in 1..Len(s) : Append(s, e)[i] = s[i]
         /\ Append(s, e)[Len(s) + 1] = e
  OBVIOUS

(***************************************************************************)
(* A sequence of packets in order stays in order without its head, which   *)
(* comes before the rest.                                                  *)
(***************************************************************************)
LEMMA TailOrder ==
  ASSUME NEW T, NEW s \in Seq(T), s # << >>
  PROVE  /\ Rising(s) => /\ Rising(Tail(s))
                         /\ \A j \in DOMAIN Tail(s) : Head(s).packet < Tail(s)[j].packet
         /\ \A t : Before(s, t) => /\ Before(Tail(s), t)
                                   /\ \A j \in DOMAIN t : Head(s).packet < t[j].packet
         /\ \A t : Before(t, s) => /\ Before(t, Tail(s))
                                   /\ \A j \in DOMAIN t : t[j].packet < Head(s).packet
         /\ \A n : UpTo(s, n) => UpTo(Tail(s), n) /\ Head(s).packet <= n
<1>1. /\ DOMAIN s = 1..Len(s) /\ Len(s) \in Nat \ {0}
      /\ DOMAIN Tail(s) = 1..(Len(s) - 1)
      /\ \A i \in 1..(Len(s) - 1) : Tail(s)[i] = s[i + 1]
      /\ s[1] = Head(s)
  BY TailFacts
<1>2. \A i \in DOMAIN Tail(s) : Tail(s)[i] = s[i + 1] /\ i + 1 \in DOMAIN s /\ 1 < i + 1
  BY <1>1
<1>3. 1 \in DOMAIN s
  BY <1>1
<1>4. DOMAIN Tail(s) \subseteq Nat
  BY <1>1
<1>5. ASSUME Rising(s)
      PROVE  Rising(Tail(s)) /\ \A j \in DOMAIN Tail(s) : Head(s).packet < Tail(s)[j].packet
  <2>1. \A i, j \in DOMAIN Tail(s) : i < j => i + 1 < j + 1
    BY <1>4
  <2> QED BY <1>1, <1>2, <1>3, <1>5, <2>1 DEF Rising
<1> QED BY <1>1, <1>2, <1>3, <1>5 DEF Before, UpTo

(***************************************************************************)
(* It stays in order with one more packet that comes after all of it.      *)
(***************************************************************************)
LEMMA AppendOrder ==
  ASSUME NEW T, NEW s \in Seq(T), NEW e
  PROVE  /\ Rising(s) /\ (\A i \in DOMAIN s : s[i].packet < e.packet) => Rising(Append(s, e))
         /\ \A t : Before(s, t) /\ (\A j \in DOMAIN t : e.packet < t[j].packet)
                     => Before(Append(s, e), t)
         /\ \A t : Before(t, s) /\ (\A j \in DOMAIN t : t[j].packet < e.packet)
                     => Before(t, Append(s, e))
         /\ \A n : UpTo(s, n) /\ e.packet <= n => UpTo(Append(s, e), n)
<1>1. /\ DOMAIN s = 1..Len(s) /\ Len(s) \in Nat
      /\ DOMAIN Append(s, e) = 1..(Len(s) + 1)
      /\ \A i \in 1..Len(s) : Append(s, e)[i] = s[i]
      /\ Append(s, e)[Len(s) + 1] = e
  BY AppendFacts
<1>2. \A i \in DOMAIN Append(s, e) :
        (i \in DOMAIN s /\ Append(s, e)[i] = s[i]) \/ (i = Len(s) + 1 /\ Append(s, e)[i] = e)
  BY <1>1
<1>3. \A i \in DOMAIN Append(s, e) : ~(Len(s) + 1 < i)
  BY <1>1
<1>4. ASSUME Rising(s), \A i \in DOMAIN s : s[i].packet < e.packet
      PROVE  Rising(Append(s, e))
  BY <1>2, <1>3, <1>4 DEF Rising
<1> QED BY <1>2, <1>4 DEF Before, UpTo

(***************************************************************************)
(* The same packets are within any later bound.                            *)
(***************************************************************************)
LEMMA UpToMore ==
  ASSUME NEW s, NEW n \in Nat, UpTo(s, n), \A i \in DOMAIN s : s[i].packet \in Nat
  PROVE  UpTo(s, n + 1) /\ \A i \in DOMAIN s : s[i].packet < n + 1
  BY DEF UpTo

------------------------------------------------------------------------------
(* Unanswered packets                                                        *)

(***************************************************************************)
(* There are no more unanswered packets from one on than in all.           *)
(***************************************************************************)
LEMMA CountBounds ==
  ASSUME NEW out, IsFiniteSet(out), NEW p \in out, p \in Nat
  PROVE  /\ IsFiniteSet(Since(out, p))
         /\ Count(out, p) \in Nat /\ 1 <= Count(out, p) /\ Count(out, p) <= Cardinality(out)
<1>1. Since(out, p) \in SUBSET out /\ p \in Since(out, p)
  BY DEF Since
<1>2. IsFiniteSet(Since(out, p)) /\ Cardinality(Since(out, p)) <= Cardinality(out)
  BY <1>1, FS_Subset
<1>3. Cardinality(Since(out, p)) \in Nat
  BY <1>2, FS_CardinalityType
<1>4. Cardinality(Since(out, p)) # 0
  BY <1>1, <1>2, FS_EmptySet
<1> QED BY <1>2, <1>3, <1>4 DEF Count

(***************************************************************************)
(* A packet that is sent is one more after each that is unanswered.        *)
(***************************************************************************)
LEMMA CountSent ==
  ASSUME NEW out, IsFiniteSet(out), NEW n \in Nat, \A q \in out : q \in Nat /\ q <= n
  PROVE  /\ \A p \in out : Count(out \cup {n + 1}, p) = Count(out, p) + 1
         /\ Count(out \cup {n + 1}, n + 1) = 1
<1>1. ASSUME NEW p \in out PROVE Count(out \cup {n + 1}, p) = Count(out, p) + 1
  <2>1. Since(out \cup {n + 1}, p) = Since(out, p) \cup {n + 1}
    BY DEF Since
  <2>2. n + 1 \notin Since(out, p)
    BY DEF Since
  <2> QED BY <2>1, <2>2, CountBounds, FS_AddElement DEF Count
<1>2. Since(out \cup {n + 1}, n + 1) = {n + 1}
  BY DEF Since
<1> QED BY <1>1, <1>2, FS_Singleton DEF Count

(***************************************************************************)
(* An answer to an earlier packet does not change what is unanswered after *)
(* a packet.                                                               *)
(***************************************************************************)
LEMMA CountAnswered ==
  ASSUME NEW out, NEW r \in Nat, NEW p \in Nat, r < p
  PROVE  Count(out \ {r}, p) = Count(out, p)
<1>1. Since(out \ {r}, p) = Since(out, p)
  BY DEF Since
<1> QED BY <1>1 DEF Count

(***************************************************************************)
(* The ring comes back to a slot only after as many steps as it has slots. *)
(***************************************************************************)
LEMMA AheadElsewhere ==
  ASSUME NEW size \in Nat \ {0}, NEW pos \in 0..(size - 1), NEW from \in 0..(size - 1),
         NEW k \in 1..(size - 1), Ahead(pos, from, k, size)
  PROVE  pos # from /\ Ahead(IF pos + 1 >= size THEN 0 ELSE pos + 1, from, k + 1, size)
  BY DEF Ahead

(***************************************************************************)
(* A slot that was just taken is one behind the cursor.                    *)
(***************************************************************************)
LEMMA AheadFirst ==
  ASSUME NEW size \in Nat \ {0}, NEW pos \in 0..(size - 1)
  PROVE  Ahead(IF pos + 1 >= size THEN 0 ELSE pos + 1, pos, 1, size)
  BY DEF Ahead

(***************************************************************************)
(* What the types say about the packets on the line and in the radio.      *)
(***************************************************************************)
LEMMA LineTypes ==
  ASSUME TypeOK
  PROVE  /\ down \in Seq(Command) /\ pending \in Seq(Transmission) /\ up \in Seq(Command)
         /\ called \in Seq(Call)
         /\ DOMAIN down = 1..Len(down) /\ DOMAIN pending = 1..Len(pending)
         /\ DOMAIN up = 1..Len(up) /\ DOMAIN called = 1..Len(called)
         /\ Len(down) \in Nat /\ Len(pending) \in Nat /\ Len(up) \in Nat /\ Len(called) \in Nat
         /\ \A i \in DOMAIN down : down[i].packet \in Packet /\ down[i].sid \in Sid
         /\ \A i \in DOMAIN pending : pending[i].packet \in Packet /\ pending[i].slot \in Slot
         /\ \A i \in DOMAIN up : up[i].packet \in Packet /\ up[i].sid \in Sid
         /\ \A i \in DOMAIN called : called[i].packet \in Packet
         /\ sent \in Nat /\ born \in Nat /\ born <= sent /\ Packet \subseteq Nat
<1>1. /\ down \in Seq(Command) /\ pending \in Seq(Transmission) /\ up \in Seq(Command)
      /\ called \in Seq(Call)
  BY DEF TypeOK, Command, Transmission, Call
<1>2. /\ DOMAIN down = 1..Len(down) /\ DOMAIN pending = 1..Len(pending)
      /\ DOMAIN up = 1..Len(up) /\ DOMAIN called = 1..Len(called)
      /\ Len(down) \in Nat /\ Len(pending) \in Nat /\ Len(up) \in Nat /\ Len(called) \in Nat
  BY <1>1
<1>3. /\ \A i \in DOMAIN down : down[i] \in Command
      /\ \A i \in DOMAIN pending : pending[i] \in Transmission
      /\ \A i \in DOMAIN up : up[i] \in Command
      /\ \A i \in DOMAIN called : called[i] \in Call
  BY <1>1, <1>2, ElementOfSeq
<1>4. sent \in Nat /\ born \in Nat /\ born <= sent /\ Packet \subseteq Nat
  BY TxSessionAssumption DEF TypeOK, Packet
<1> QED BY <1>1, <1>2, <1>3, <1>4 DEF Command, Transmission, Call

(***************************************************************************)
(* The unanswered packets are finitely many, and no later than the last.   *)
(***************************************************************************)
LEMMA OutFinite ==
  ASSUME TypeOK, OrderOK
  PROVE  /\ IsFiniteSet(outstanding) /\ Cardinality(outstanding) \in Nat
         /\ \A q \in outstanding : q \in Nat /\ q <= sent /\ q > born
<1>0. born + 1 \in Int /\ sent \in Int
  BY LineTypes
<1>1. IsFiniteSet((born + 1)..sent)
  BY <1>0, FS_Interval
<1>2. IsFiniteSet(outstanding)
  BY <1>1, FS_Subset DEF OrderOK
<1>3. \A q \in outstanding : q \in (born + 1)..sent
  BY DEF OrderOK
<1> QED BY <1>2, <1>3, FS_CardinalityType, LineTypes

------------------------------------------------------------------------------
(* The steps                                                                 *)

LEMMA InitAnswers == Init => AnswersOK
<1> SUFFICES ASSUME Init PROVE AnswersOK
  OBVIOUS
<1>1. OrderOK
  BY FS_EmptySet, TxSessionAssumption DEF Init, OrderOK, Rising, Before, UpTo
<1> QED BY <1>1 DEF Init, AnswersOK, DownOK, PendingOK, UpOK, RightCallback

(***************************************************************************)
(* The packets on their way, and the answers, stay in the order in which   *)
(* they were sent: both ends and the line handle them first in, first out. *)
(***************************************************************************)
LEMMA OrderStep ==
  ASSUME TypeOK, OrderOK, [Next]_vars
  PROVE  OrderOK'
<1>0. /\ down \in Seq(Command) /\ pending \in Seq(Transmission) /\ up \in Seq(Command)
      /\ called \in Seq(Call) /\ sent \in Nat
      /\ \A i \in DOMAIN down : down[i].packet \in Nat
      /\ \A i \in DOMAIN pending : pending[i].packet \in Nat
      /\ \A i \in DOMAIN up : up[i].packet \in Nat
      /\ \A i \in DOMAIN called : called[i].packet \in Nat
  BY LineTypes
<1>1. CASE SendPacket
  <2> DEFINE e == [sid |-> callback_pos, packet |-> sent + 1]
  <2>1. down' = Append(down, e) /\ sent' = sent + 1 /\ outstanding' = outstanding \cup {sent + 1}
    BY <1>1 DEF SendPacket
  <2>2. /\ UpTo(down, sent + 1) /\ UpTo(pending, sent + 1) /\ UpTo(up, sent + 1)
        /\ UpTo(called, sent + 1)
        /\ \A i \in DOMAIN down : down[i].packet < e.packet
        /\ \A i \in DOMAIN pending : pending[i].packet < e.packet
        /\ \A i \in DOMAIN up : up[i].packet < e.packet
    BY <1>0, UpToMore DEF OrderOK
  <2>3. e.packet <= sent + 1
    BY <1>0
  <2> HIDE DEF e
  <2>4. /\ Rising(down') /\ Before(up, down') /\ Before(pending, down') /\ UpTo(down', sent + 1)
    BY <1>0, <2>1, <2>2, <2>3, AppendOrder DEF OrderOK
  <2>5. outstanding' \subseteq (born + 1)..(sent + 1)
    <3>1. \A q \in outstanding : q \in (born + 1)..(sent + 1)
      BY OutFinite, LineTypes
    <3>2. sent + 1 \in (born + 1)..(sent + 1)
      BY LineTypes
    <3> QED BY <2>1, <3>1, <3>2
  <2>6. Cardinality(outstanding') <= Window
    <3>1. Cardinality(outstanding) < Window /\ Cardinality(outstanding) \in Nat
      BY <1>1, OutFinite DEF SendPacket, MaySend
    <3>2. sent + 1 \notin outstanding
      BY OutFinite, <1>0
    <3>3. Cardinality(outstanding') = Cardinality(outstanding) + 1
      BY <2>1, <3>2, OutFinite, FS_AddElement
    <3> QED BY <3>1, <3>3, TxSessionAssumption
  <2> QED BY <1>1, <2>1, <2>2, <2>4, <2>5, <2>6 DEF OrderOK, SendPacket, radio
<1>2. CASE SendFails
  <2> DEFINE e == [owner |-> sent + 1, packet |-> sent + 1, born |-> born]
  <2>1. called' = Append(called, e) /\ sent' = sent + 1
    BY <1>2 DEF SendFails
  <2>2. /\ UpTo(down, sent + 1) /\ UpTo(pending, sent + 1) /\ UpTo(up, sent + 1)
        /\ UpTo(called, sent + 1)
    BY <1>0, UpToMore DEF OrderOK
  <2>3. e.packet <= sent + 1
    BY <1>0
  <2> HIDE DEF e
  <2>4. UpTo(called', sent + 1)
    BY <1>0, <2>1, <2>2, <2>3, AppendOrder
  <2>5. outstanding \subseteq (born + 1)..(sent + 1)
    BY OutFinite, LineTypes
  <2> QED BY <1>2, <2>1, <2>2, <2>4, <2>5 DEF OrderOK, SendFails, bridge, radio
<1>3. CASE Report
  <2>1. /\ Rising(up') /\ Before(up', pending) /\ Before(up', down) /\ UpTo(up', sent)
        /\ Head(up).packet <= sent
    BY <1>0, <1>3, TailOrder DEF OrderOK, Report
  <2>2. UpTo(called', sent)
    <3> DEFINE e == [owner |-> callbacks[Head(up).sid], packet |-> Head(up).packet, born |-> born]
    <3>1. called' = Append(called, e) \/ called' = called
      BY <1>3 DEF Report
    <3>2. e.packet <= sent
      BY <2>1
    <3> HIDE DEF e
    <3> QED BY <1>0, <3>1, <3>2, AppendOrder DEF OrderOK
  <2>3. /\ outstanding' \subseteq (born + 1)..sent
        /\ Cardinality(outstanding') <= Window
    <3>1. outstanding' \in SUBSET outstanding
      BY <1>3 DEF Report
    <3>2. IsFiniteSet(outstanding') /\ Cardinality(outstanding') <= Cardinality(outstanding)
      BY <3>1, OutFinite, FS_Subset
    <3>3. Cardinality(outstanding') \in Nat /\ Cardinality(outstanding) \in Nat
      BY <3>2, OutFinite, FS_CardinalityType
    <3> QED BY <3>1, <3>2, <3>3, TxSessionAssumption DEF OrderOK
  <2> QED BY <1>3, <2>1, <2>2, <2>3 DEF OrderOK, Report, radio
<1>4. CASE BridgeRestarts
  <2>1. /\ Rising(down') /\ Rising(up') /\ Before(up', pending) /\ Before(up', down')
        /\ Before(pending, down') /\ UpTo(down', sent) /\ UpTo(up', sent)
    BY <1>4 DEF BridgeRestarts, OrderOK, Rising, Before, UpTo
  <2>2. outstanding' = {} /\ Cardinality(outstanding') <= Window
    BY <1>4, FS_EmptySet, TxSessionAssumption DEF BridgeRestarts
  <2> QED BY <1>4, <2>1, <2>2 DEF OrderOK, BridgeRestarts, radio
<1>5. CASE SendCommand
  <2> DEFINE e == [slot |-> packet_pos, packet |-> Head(down).packet]
  <2>1. /\ Rising(down') /\ Before(up, down') /\ Before(pending, down') /\ UpTo(down', sent)
        /\ \A j \in DOMAIN down' : e.packet < down'[j].packet
        /\ \A j \in DOMAIN up : up[j].packet < e.packet
        /\ \A j \in DOMAIN pending : pending[j].packet < e.packet
        /\ e.packet <= sent
    BY <1>0, <1>5, TailOrder DEF OrderOK, SendCommand
  <2>2. pending' = Append(pending, e)
    BY <1>5 DEF SendCommand
  <2> HIDE DEF e
  <2>3. /\ Rising(pending') /\ Before(up, pending') /\ Before(pending', down')
        /\ UpTo(pending', sent)
    BY <1>0, <2>1, <2>2, AppendOrder DEF OrderOK
  <2> QED BY <1>5, <2>1, <2>3 DEF OrderOK, SendCommand, bridge
<1>6. CASE PacketSent
  <2> DEFINE e == [sid |-> packet_ids[Head(pending).slot], packet |-> Head(pending).packet]
  <2>1. /\ Rising(pending') /\ Before(up, pending') /\ Before(pending', down)
        /\ UpTo(pending', sent)
        /\ \A j \in DOMAIN pending' : e.packet < pending'[j].packet
        /\ \A j \in DOMAIN down : e.packet < down[j].packet
        /\ \A j \in DOMAIN up : up[j].packet < e.packet
        /\ e.packet <= sent
    BY <1>0, <1>6, TailOrder DEF OrderOK, PacketSent
  <2>2. up' = Append(up, e)
    BY <1>6 DEF PacketSent
  <2> HIDE DEF e
  <2>3. /\ Rising(up') /\ Before(up', pending') /\ Before(up', down) /\ UpTo(up', sent)
    BY <1>0, <2>1, <2>2, AppendOrder DEF OrderOK
  <2> QED BY <1>6, <2>1, <2>3 DEF OrderOK, PacketSent, bridge
<1>7. CASE IllegalAttributes \/ LineLosesCommand
  <2>1. down # << >> /\ down' = Tail(down)
    BY <1>7 DEF IllegalAttributes, LineLosesCommand
  <2>2. /\ Rising(down') /\ Before(up, down') /\ Before(pending, down') /\ UpTo(down', sent)
    BY <1>0, <2>1, TailOrder DEF OrderOK
  <2> QED BY <1>7, <2>2 DEF OrderOK, IllegalAttributes, LineLosesCommand, bridge, radio
<1>8. CASE LineLosesReport
  <2>1. /\ Rising(up') /\ Before(up', pending) /\ Before(up', down) /\ UpTo(up', sent)
    BY <1>0, <1>8, TailOrder DEF OrderOK, LineLosesReport
  <2> QED BY <1>8, <2>1 DEF OrderOK, LineLosesReport, bridge, radio
<1>9. CASE RadioResets
  BY <1>9 DEF RadioResets, OrderOK, Rising, Before, UpTo, bridge
<1>10. CASE UNCHANGED vars
  BY <1>10 DEF vars, bridge, radio, OrderOK
<1> QED BY <1>1, <1>2, <1>3, <1>4, <1>5, <1>6, <1>7, <1>8, <1>9, <1>10 DEF Next

(***************************************************************************)
(* A history that has no report of an earlier run had none before.         *)
(***************************************************************************)
LEMMA StaleForEver ==
  ASSUME TypeOK, [Next]_vars, NoneStale'
  PROVE  NoneStale
<1>1. CASE called' = called
  BY <1>1 DEF NoneStale
<1>2. ASSUME NEW e, called' = Append(called, e)
      PROVE  NoneStale
  BY <1>2, LineTypes, AppendFacts DEF NoneStale
<1> QED BY <1>1, <1>2
        DEF Next, SendPacket, SendFails, Report, BridgeRestarts, SendCommand,
            IllegalAttributes, PacketSent, RadioResets, LineLosesCommand,
            LineLosesReport, vars

(***************************************************************************)
(* A packet that is sent takes no slot of one that is unanswered, and one  *)
(* more packet has taken a slot after each of those.                       *)
(***************************************************************************)
LEMMA KeptWhenSent ==
  ASSUME TypeOK, OrderOK, SendPacket, NEW p, NEW sid \in Sid,
         Kept(outstanding, callbacks, callback_pos, p, sid)
  PROVE  /\ Kept(outstanding', callbacks', callback_pos', p, sid)
         /\ Count(outstanding', p) = Count(outstanding, p) + 1
<1>1. /\ p \in outstanding /\ p \in Nat /\ callbacks[sid] = p
      /\ Ahead(callback_pos, sid, Count(outstanding, p), MAX_CALLBACKS)
  BY OutFinite DEF Kept
<1>2. /\ outstanding' = outstanding \cup {sent + 1}
      /\ callbacks' = [callbacks EXCEPT ![callback_pos] = sent + 1]
      /\ callback_pos' = IF callback_pos + 1 >= MAX_CALLBACKS THEN 0 ELSE callback_pos + 1
      /\ Cardinality(outstanding) < Window
  BY DEF SendPacket, MaySend
<1>3. Count(outstanding', p) = Count(outstanding, p) + 1
  BY <1>1, <1>2, OutFinite, LineTypes, CountSent
<1>4. Count(outstanding, p) \in 1..(MAX_CALLBACKS - 1)
  BY <1>1, <1>2, OutFinite, CountBounds, TxSessionAssumption
<1>5. /\ callback_pos # sid
      /\ Ahead(callback_pos', sid, Count(outstanding, p) + 1, MAX_CALLBACKS)
  BY <1>1, <1>2, <1>4, AheadElsewhere, TxSessionAssumption DEF TypeOK, Sid
<1>6. callbacks'[sid] = p
  BY <1>1, <1>2, <1>5 DEF TypeOK
<1> QED BY <1>1, <1>2, <1>3, <1>5, <1>6 DEF Kept

(***************************************************************************)
(* The answer to an earlier packet leaves the slot of a later one alone.   *)
(***************************************************************************)
LEMMA KeptWhenAnswered ==
  ASSUME NEW out, NEW cbs, NEW pos, NEW p \in Nat, NEW sid, NEW r \in Nat, r < p,
         Kept(out, cbs, pos, p, sid)
  PROVE  Kept(out \ {r}, cbs, pos, p, sid) /\ Count(out \ {r}, p) = Count(out, p)
  BY CountAnswered DEF Kept

(***************************************************************************)
(* The radio transmits fewer packets of this run than it has slots, while  *)
(* a command is on its way to it.                                          *)
(***************************************************************************)
LEMMA SlotElsewhere ==
  ASSUME TypeOK, OrderOK, PendingOK, down # << >>,
         NEW i \in DOMAIN pending, pending[i].packet > born
  PROVE  /\ packet_pos # pending[i].slot
         /\ Ahead(IF packet_pos + 1 >= RadioSlots THEN 0 ELSE packet_pos + 1,
                  pending[i].slot, Len(pending) + 1 - i + 1, RadioSlots)
<1>1. /\ pending[i].packet \in outstanding /\ pending[i].packet \in Nat
      /\ Count(outstanding, pending[i].packet) >= Len(down) + Len(pending) - i + 1
      /\ Ahead(packet_pos, pending[i].slot, Len(pending) - i + 1, RadioSlots)
  BY OutFinite DEF PendingOK, Kept
<1>2. /\ Count(outstanding, pending[i].packet) \in Nat
      /\ Count(outstanding, pending[i].packet) <= Cardinality(outstanding)
      /\ Cardinality(outstanding) \in Nat
  BY <1>1, OutFinite, CountBounds
<1>3. Cardinality(outstanding) <= Window
  BY DEF OrderOK
<1>4. Len(down) >= 1 /\ Len(down) \in Nat /\ Len(pending) \in Nat /\ i \in 1..Len(pending)
  BY LineTypes
<1>5. Len(pending) - i + 1 \in 1..(RadioSlots - 1)
  <2>1. Count(outstanding, pending[i].packet) <= RadioSlots /\ RadioSlots \in Nat
    BY <1>2, <1>3, TxSessionAssumption
  <2>2. Len(down) + Len(pending) - i + 1 <= RadioSlots
    BY <1>1, <1>2, <1>4, <2>1
  <2> QED BY <1>4, <2>1, <2>2
<1>6. packet_pos \in 0..(RadioSlots - 1) /\ pending[i].slot \in 0..(RadioSlots - 1)
  BY LineTypes DEF TypeOK, Slot
<1>7. /\ packet_pos # pending[i].slot
      /\ Ahead(IF packet_pos + 1 >= RadioSlots THEN 0 ELSE packet_pos + 1,
               pending[i].slot, (Len(pending) - i + 1) + 1, RadioSlots)
  BY <1>1, <1>5, <1>6, AheadElsewhere, TxSessionAssumption
<1>8. (Len(pending) - i + 1) + 1 = Len(pending) + 1 - i + 1
  BY <1>4
<1> QED BY <1>7, <1>8

(***************************************************************************)
(* A report of this run finds the callback of its packet; one of an        *)
(* earlier run that finds a callback makes the history stale.              *)
(***************************************************************************)
LEMMA OwnerOfReport ==
  ASSUME TypeOK, AnswersOK, Report, NoneStale'
  PROVE  \/ /\ Head(up).packet > born
            /\ Head(up).packet \in outstanding
            /\ callbacks[Head(up).sid] = Head(up).packet
            /\ outstanding' = outstanding \ {Head(up).packet}
            /\ called' = Append(called, [owner |-> Head(up).packet, packet |-> Head(up).packet,
                                         born |-> born])
         \/ outstanding' = outstanding /\ called' = called
<1> DEFINE r == Head(up)
           call == [owner |-> callbacks[r.sid], packet |-> r.packet, born |-> born]
<1>1. 1 \in DOMAIN up /\ up[1] = r
  BY LineTypes, TailFacts DEF Report
<1>2. CASE called' = called
  <2> HIDE DEF call
  <2>1. Append(called, call) # called
    <3>1. Len(Append(called, call)) = Len(called) + 1 /\ Len(called) \in Nat
      BY LineTypes, AppendFacts
    <3> QED BY <3>1
  <2>2. outstanding' = outstanding
    BY <1>2, <2>1 DEF Report, call
  <2> QED BY <1>2, <2>2
<1>3. CASE called' # called
  <2>1. /\ called' = Append(called, call)
        /\ outstanding' = outstanding \ {callbacks[r.sid]}
    BY <1>3 DEF Report
  <2>2. r.packet > born
    <3>1. Len(called) + 1 \in DOMAIN called' /\ called'[Len(called) + 1] = call
      <4> HIDE DEF call
      <4> QED BY <2>1, LineTypes, AppendFacts
    <3> QED BY <3>1 DEF NoneStale
  <2>3. r.packet \in outstanding /\ callbacks[r.sid] = r.packet
    <3>1. NoneStale
      BY StaleForEver DEF Next
    <3> QED BY <1>1, <2>2, <3>1 DEF AnswersOK, UpOK, Kept
  <2> QED BY <2>1, <2>2, <2>3
<1> QED BY <1>2, <1>3

(***************************************************************************)
(* So the report of an earlier packet leaves a later packet's slot alone.  *)
(***************************************************************************)
LEMMA KeptAfterReport ==
  ASSUME TypeOK, AnswersOK, Report, NoneStale', NEW p \in Nat, NEW sid,
         Head(up).packet \in Nat, Head(up).packet < p,
         Kept(outstanding, callbacks, callback_pos, p, sid)
  PROVE  /\ Kept(outstanding', callbacks, callback_pos, p, sid)
         /\ Count(outstanding', p) = Count(outstanding, p)
<1> DEFINE r == Head(up).packet
<1>1. outstanding' = outstanding \ {r} \/ outstanding' = outstanding
  BY OwnerOfReport
<1>2. r \in Nat /\ r < p
  OBVIOUS
<1> HIDE DEF r
<1>3. /\ Kept(outstanding \ {r}, callbacks, callback_pos, p, sid)
      /\ Count(outstanding \ {r}, p) = Count(outstanding, p)
  BY <1>2, KeptWhenAnswered
<1> QED BY <1>1, <1>3

(***************************************************************************)
(* The commands that are on their way keep their slots of callbacks.       *)
(***************************************************************************)
LEMMA DownStep ==
  ASSUME TypeOK, AnswersOK, [Next]_vars, NoneStale'
  PROVE  DownOK'
<1>0. /\ DownOK /\ OrderOK
      /\ down \in Seq(Command) /\ DOMAIN down = 1..Len(down) /\ Len(down) \in Nat
      /\ \A i \in DOMAIN down : down[i].packet \in Nat /\ down[i].sid \in Sid
  BY StaleForEver, LineTypes DEF AnswersOK
<1>1. CASE SendPacket
  <2> DEFINE e == [sid |-> callback_pos, packet |-> sent + 1]
  <2> SUFFICES ASSUME NEW i \in DOMAIN down', down'[i].packet > born'
      PROVE  /\ Kept(outstanding', callbacks', callback_pos', down'[i].packet, down'[i].sid)
             /\ Count(outstanding', down'[i].packet) >= Len(down') - i + 1
    BY DEF DownOK
  <2>1. /\ down' = Append(down, e) /\ born' = born
        /\ outstanding' = outstanding \cup {sent + 1}
        /\ callbacks' = [callbacks EXCEPT ![callback_pos] = sent + 1]
        /\ callback_pos' = IF callback_pos + 1 >= MAX_CALLBACKS THEN 0 ELSE callback_pos + 1
    BY <1>1 DEF SendPacket
  <2>2. e.sid = callback_pos /\ e.packet = sent + 1
    OBVIOUS
  <2> HIDE DEF e
  <2>3. /\ DOMAIN down' = 1..(Len(down) + 1) /\ Len(down') = Len(down) + 1
        /\ \A j \in 1..Len(down) : down'[j] = down[j]
        /\ down'[Len(down) + 1] = e
    BY <1>0, <2>1, AppendFacts
  <2>4. CASE i \in DOMAIN down
    <3>1. down'[i] = down[i] /\ down[i].packet > born
      BY <1>0, <2>1, <2>3, <2>4
    <3>2. /\ Kept(outstanding, callbacks, callback_pos, down[i].packet, down[i].sid)
          /\ Count(outstanding, down[i].packet) >= Len(down) - i + 1
      BY <1>0, <2>4, <3>1 DEF DownOK
    <3>3. /\ Kept(outstanding', callbacks', callback_pos', down[i].packet, down[i].sid)
          /\ Count(outstanding', down[i].packet) = Count(outstanding, down[i].packet) + 1
      BY <1>0, <1>1, <2>4, <3>2, KeptWhenSent
    <3>4. Count(outstanding, down[i].packet) \in Nat
      BY <1>0, <2>4, <3>2, OutFinite, CountBounds DEF Kept
    <3> QED BY <1>0, <2>3, <2>4, <3>1, <3>2, <3>3, <3>4
  <2>5. CASE i = Len(down) + 1
    <3>1. Count(outstanding', sent + 1) = 1
      BY <1>0, <2>1, OutFinite, LineTypes, CountSent
    <3>2. Ahead(callback_pos', callback_pos, 1, MAX_CALLBACKS)
      BY <2>1, AheadFirst, TxSessionAssumption DEF TypeOK, Sid
    <3>3. callbacks'[callback_pos] = sent + 1
      BY <2>1 DEF TypeOK
    <3>4. Kept(outstanding', callbacks', callback_pos', sent + 1, callback_pos)
      BY <2>1, <3>1, <3>2, <3>3 DEF Kept
    <3> QED BY <1>0, <2>2, <2>3, <2>5, <3>1, <3>4
  <2> QED BY <1>0, <2>3, <2>4, <2>5
<1>2. CASE Report
  <2> SUFFICES ASSUME NEW i \in DOMAIN down, down[i].packet > born
      PROVE  /\ Kept(outstanding', callbacks, callback_pos, down[i].packet, down[i].sid)
             /\ Count(outstanding', down[i].packet) >= Len(down) - i + 1
    BY <1>2 DEF DownOK, Report
  <2>1. /\ Kept(outstanding, callbacks, callback_pos, down[i].packet, down[i].sid)
        /\ Count(outstanding, down[i].packet) >= Len(down) - i + 1
    BY <1>0 DEF DownOK
  <2>2. Head(up).packet < down[i].packet /\ Head(up).packet \in Nat
    <3>1. up \in Seq(Command) /\ up # << >> /\ Before(up, down)
      BY <1>0, <1>2, LineTypes DEF OrderOK, Report
    <3>2. Head(up) \in Command
      BY <3>1, TailFacts
    <3>3. Head(up).packet \in Nat
      BY <3>2, LineTypes DEF Command
    <3> QED BY <3>1, <3>3, TailOrder
  <2>3. outstanding' = outstanding \ {Head(up).packet} \/ outstanding' = outstanding
    BY <1>2, OwnerOfReport
  <2> QED BY <1>0, <2>1, <2>2, <2>3, KeptWhenAnswered
<1>3. CASE BridgeRestarts
  <2>1. born' = sent /\ (down' = down \/ down' = << >>)
    BY <1>3 DEF BridgeRestarts
  <2>2. \A i \in DOMAIN down' : ~(down'[i].packet > born')
    <3>1. \A i \in DOMAIN down : down[i].packet <= sent
      BY <1>0 DEF OrderOK, UpTo
    <3>2. \A i \in DOMAIN down : ~(down[i].packet > sent)
      BY <1>0, <3>1, LineTypes
    <3> QED BY <2>1, <3>2
  <2> QED BY <2>2 DEF DownOK
<1>4. CASE SendCommand \/ IllegalAttributes \/ LineLosesCommand
  <2>1. /\ down # << >> /\ down' = Tail(down) /\ born' = born
        /\ UNCHANGED <<outstanding, callbacks, callback_pos>>
    BY <1>4 DEF SendCommand, IllegalAttributes, LineLosesCommand, bridge
  <2>2. /\ DOMAIN down' = 1..(Len(down) - 1) /\ Len(down') = Len(down) - 1
        /\ \A i \in 1..(Len(down) - 1) : down'[i] = down[i + 1]
    BY <1>0, <2>1, TailFacts
  <2>3. \A i \in DOMAIN down' : /\ down'[i] = down[i + 1] /\ i + 1 \in DOMAIN down
                               /\ Len(down) - (i + 1) + 1 = Len(down') - i + 1
    BY <1>0, <2>2
  <2> QED BY <1>0, <2>1, <2>3 DEF DownOK
<1>5. CASE UNCHANGED <<down, born, outstanding, callbacks, callback_pos>>
  BY <1>0, <1>5 DEF DownOK
<1> QED BY <1>1, <1>2, <1>3, <1>4, <1>5
        DEF Next, SendFails, PacketSent, RadioResets, LineLosesReport, bridge, vars

(***************************************************************************)
(* The packets that the radio transmits keep their slots of both rings.    *)
(***************************************************************************)
LEMMA PendingStep ==
  ASSUME TypeOK, AnswersOK, [Next]_vars, NoneStale'
  PROVE  PendingOK'
<1>0. /\ DownOK /\ PendingOK /\ OrderOK
      /\ down \in Seq(Command) /\ DOMAIN down = 1..Len(down) /\ Len(down) \in Nat
      /\ pending \in Seq(Transmission) /\ DOMAIN pending = 1..Len(pending)
      /\ Len(pending) \in Nat
      /\ \A i \in DOMAIN pending : pending[i].packet \in Nat /\ pending[i].slot \in Slot
  BY StaleForEver, LineTypes DEF AnswersOK
<1>a. ASSUME NEW i \in DOMAIN pending, pending[i].packet > born
      PROVE  /\ Kept(outstanding, callbacks, callback_pos, pending[i].packet,
                      packet_ids[pending[i].slot])
             /\ Count(outstanding, pending[i].packet) >= Len(down) + Len(pending) - i + 1
             /\ Count(outstanding, pending[i].packet) \in Nat
             /\ Ahead(packet_pos, pending[i].slot, Len(pending) - i + 1, RadioSlots)
  <2>1. Kept(outstanding, callbacks, callback_pos, pending[i].packet, packet_ids[pending[i].slot])
    BY <1>0, <1>a DEF PendingOK
  <2>2. Count(outstanding, pending[i].packet) \in Nat
    BY <1>0, <2>1, OutFinite, CountBounds DEF Kept
  <2> QED BY <1>0, <1>a, <2>1, <2>2 DEF PendingOK
<1>1. CASE SendPacket
  <2>1. /\ Len(down') = Len(down) + 1 /\ born' = born
        /\ UNCHANGED <<pending, packet_ids, packet_pos>>
    BY <1>0, <1>1, AppendFacts DEF SendPacket, radio
  <2> SUFFICES ASSUME NEW i \in DOMAIN pending, pending[i].packet > born
      PROVE  /\ Kept(outstanding', callbacks', callback_pos', pending[i].packet,
                      packet_ids[pending[i].slot])
             /\ Count(outstanding', pending[i].packet) >= Len(down') + Len(pending) - i + 1
             /\ Ahead(packet_pos, pending[i].slot, Len(pending) - i + 1, RadioSlots)
    BY <2>1 DEF PendingOK
  <2>2. packet_ids[pending[i].slot] \in Sid
    BY <1>0 DEF TypeOK
  <2>3. /\ Kept(outstanding', callbacks', callback_pos', pending[i].packet,
                packet_ids[pending[i].slot])
        /\ Count(outstanding', pending[i].packet) = Count(outstanding, pending[i].packet) + 1
    BY <1>0, <1>1, <1>a, <2>2, KeptWhenSent
  <2>4. i \in Nat
    BY <1>0
  <2> QED BY <1>0, <1>a, <2>1, <2>3, <2>4
<1>2. CASE Report
  <2>1. UNCHANGED <<down, pending, packet_ids, packet_pos, callbacks, callback_pos, born>>
    BY <1>2 DEF Report, radio
  <2> SUFFICES ASSUME NEW i \in DOMAIN pending, pending[i].packet > born
      PROVE  /\ Kept(outstanding', callbacks, callback_pos, pending[i].packet,
                      packet_ids[pending[i].slot])
             /\ Count(outstanding', pending[i].packet) >= Len(down) + Len(pending) - i + 1
             /\ Ahead(packet_pos, pending[i].slot, Len(pending) - i + 1, RadioSlots)
    BY <2>1 DEF PendingOK
  <2>2. Head(up).packet < pending[i].packet /\ Head(up).packet \in Nat
    <3>1. up \in Seq(Command) /\ up # << >> /\ Before(up, pending)
      BY <1>0, <1>2, LineTypes DEF OrderOK, Report
    <3>2. Head(up) \in Command
      BY <3>1, TailFacts
    <3>3. Head(up).packet \in Nat
      BY <3>2, LineTypes DEF Command
    <3> QED BY <3>1, <3>3, TailOrder
  <2> DEFINE p == pending[i].packet sid == packet_ids[pending[i].slot]
  <2>3. p \in Nat /\ Head(up).packet < p /\ Kept(outstanding, callbacks, callback_pos, p, sid)
    BY <1>0, <1>a, <2>2
  <2> HIDE DEF p, sid
  <2>4. /\ Kept(outstanding', callbacks, callback_pos, p, sid)
        /\ Count(outstanding', p) = Count(outstanding, p)
    BY <1>2, <2>2, <2>3, KeptAfterReport
  <2> QED BY <1>a, <2>4 DEF p, sid
<1>3. CASE BridgeRestarts
  <2>1. born' = sent /\ pending' = pending
    BY <1>3 DEF BridgeRestarts, radio
  <2>2. \A i \in DOMAIN pending : ~(pending[i].packet > sent)
    <3>1. \A i \in DOMAIN pending : pending[i].packet <= sent
      BY <1>0 DEF OrderOK, UpTo
    <3> QED BY <1>0, <3>1, LineTypes
  <2> QED BY <2>1, <2>2 DEF PendingOK
<1>4. CASE SendCommand
  <2> DEFINE e == [slot |-> packet_pos, packet |-> Head(down).packet]
  <2>1. /\ down # << >> /\ down' = Tail(down) /\ pending' = Append(pending, e)
        /\ packet_ids' = [packet_ids EXCEPT ![packet_pos] = Head(down).sid]
        /\ packet_pos' = IF packet_pos + 1 >= RadioSlots THEN 0 ELSE packet_pos + 1
        /\ UNCHANGED <<outstanding, callbacks, callback_pos, born>>
    BY <1>4 DEF SendCommand, bridge
  <2>2. e.slot = packet_pos /\ e.packet = Head(down).packet
    OBVIOUS
  <2> HIDE DEF e
  <2>3. /\ DOMAIN pending' = 1..(Len(pending) + 1) /\ Len(pending') = Len(pending) + 1
        /\ \A j \in 1..Len(pending) : pending'[j] = pending[j]
        /\ pending'[Len(pending) + 1] = e
    BY <1>0, <2>1, AppendFacts
  <2>4. /\ Len(down') = Len(down) - 1 /\ Len(down) >= 1
        /\ 1 \in DOMAIN down /\ down[1] = Head(down)
    BY <1>0, <2>1, TailFacts
  <2> SUFFICES ASSUME NEW i \in DOMAIN pending', pending'[i].packet > born
      PROVE  /\ Kept(outstanding, callbacks, callback_pos, pending'[i].packet,
                      packet_ids'[pending'[i].slot])
             /\ Count(outstanding, pending'[i].packet) >= Len(down') + Len(pending') - i + 1
             /\ Ahead(packet_pos', pending'[i].slot, Len(pending') - i + 1, RadioSlots)
    BY <2>1 DEF PendingOK
  <2>5. CASE i \in DOMAIN pending
    <3>1. pending'[i] = pending[i] /\ pending[i].packet > born /\ i \in Nat
      BY <1>0, <2>3, <2>5
    <3>2. /\ packet_pos # pending[i].slot
          /\ Ahead(packet_pos', pending[i].slot, Len(pending) + 1 - i + 1, RadioSlots)
      BY <1>0, <2>1, <2>5, <3>1, SlotElsewhere
    <3>3. packet_ids'[pending[i].slot] = packet_ids[pending[i].slot]
      BY <1>0, <2>1, <2>5, <3>2 DEF TypeOK
    <3>4. /\ Kept(outstanding, callbacks, callback_pos, pending[i].packet,
                   packet_ids[pending[i].slot])
          /\ Count(outstanding, pending[i].packet) >= Len(down) + Len(pending) - i + 1
      BY <1>a, <2>5, <3>1
    <3>5. /\ Len(down') + Len(pending') - i + 1 = Len(down) + Len(pending) - i + 1
          /\ Len(pending') = Len(pending) + 1
      BY <1>0, <2>3, <2>4, <3>1
    <3> QED BY <3>1, <3>2, <3>3, <3>4, <3>5
  <2>6. CASE i = Len(pending) + 1
    <3>1. pending'[i] = e /\ Head(down).packet > born
      BY <2>2, <2>3, <2>6
    <3>2. /\ Kept(outstanding, callbacks, callback_pos, Head(down).packet, Head(down).sid)
          /\ Count(outstanding, Head(down).packet) >= Len(down) - 1 + 1
      BY <1>0, <2>4, <3>1 DEF DownOK
    <3>3. packet_ids'[packet_pos] = Head(down).sid
      BY <2>1 DEF TypeOK
    <3>4. Ahead(packet_pos', packet_pos, 1, RadioSlots)
      BY <2>1, AheadFirst, TxSessionAssumption DEF TypeOK, Slot
    <3>5. Len(pending') - i + 1 = 1 /\ Len(down') + Len(pending') - i + 1 = Len(down) - 1 + 1
      BY <1>0, <2>3, <2>4, <2>6
    <3> QED BY <2>2, <3>1, <3>2, <3>3, <3>4, <3>5
  <2> QED BY <1>0, <2>3, <2>5, <2>6
<1>5. CASE IllegalAttributes
  <2>1. /\ down # << >> /\ down' = Tail(down)
        /\ packet_ids' = [packet_ids EXCEPT ![packet_pos] = Head(down).sid]
        /\ UNCHANGED <<pending, packet_pos, outstanding, callbacks, callback_pos, born>>
    BY <1>5 DEF IllegalAttributes, bridge
  <2>2. Len(down') = Len(down) - 1
    BY <1>0, <2>1, TailFacts
  <2> SUFFICES ASSUME NEW i \in DOMAIN pending, pending[i].packet > born
      PROVE  /\ Kept(outstanding, callbacks, callback_pos, pending[i].packet,
                      packet_ids'[pending[i].slot])
             /\ Count(outstanding, pending[i].packet) >= Len(down') + Len(pending) - i + 1
             /\ Ahead(packet_pos, pending[i].slot, Len(pending) - i + 1, RadioSlots)
    BY <2>1 DEF PendingOK
  <2>3. packet_pos # pending[i].slot
    BY <1>0, <2>1, SlotElsewhere
  <2>4. packet_ids'[pending[i].slot] = packet_ids[pending[i].slot]
    BY <1>0, <2>1, <2>3 DEF TypeOK
  <2>5. i \in Nat
    BY <1>0
  <2> QED BY <1>0, <1>a, <2>2, <2>4, <2>5
<1>6. CASE PacketSent
  <2>1. /\ pending # << >> /\ pending' = Tail(pending)
        /\ UNCHANGED <<down, packet_ids, packet_pos, outstanding, callbacks, callback_pos, born>>
    BY <1>6 DEF PacketSent, bridge
  <2>2. /\ DOMAIN pending' = 1..(Len(pending) - 1) /\ Len(pending') = Len(pending) - 1
        /\ \A i \in 1..(Len(pending) - 1) : pending'[i] = pending[i + 1]
    BY <1>0, <2>1, TailFacts
  <2>3. \A i \in DOMAIN pending' :
          /\ pending'[i] = pending[i + 1] /\ i + 1 \in DOMAIN pending
          /\ Len(pending) - (i + 1) + 1 = Len(pending') - i + 1
          /\ Len(down) + Len(pending) - (i + 1) + 1 = Len(down) + Len(pending') - i + 1
    BY <1>0, <2>2
  <2> QED BY <1>a, <2>1, <2>3 DEF PendingOK
<1>7. CASE LineLosesCommand
  <2>1. /\ down # << >> /\ down' = Tail(down)
        /\ UNCHANGED <<pending, packet_ids, packet_pos, outstanding, callbacks, callback_pos, born>>
    BY <1>7 DEF LineLosesCommand, bridge, radio
  <2>2. Len(down') = Len(down) - 1
    BY <1>0, <2>1, TailFacts
  <2>3. \A i \in DOMAIN pending : i \in Nat
    BY <1>0
  <2> QED BY <1>0, <1>a, <2>1, <2>2, <2>3 DEF PendingOK
<1>8. CASE RadioResets
  BY <1>8 DEF RadioResets, PendingOK
<1>9. CASE UNCHANGED <<down, pending, packet_ids, packet_pos, outstanding, callbacks,
                       callback_pos, born>>
  BY <1>0, <1>9 DEF PendingOK
<1> QED BY <1>1, <1>2, <1>3, <1>4, <1>5, <1>6, <1>7, <1>8, <1>9
        DEF Next, SendFails, LineLosesReport, bridge, radio, vars

(***************************************************************************)
(* The reports that are on their way keep their slots of callbacks.        *)
(***************************************************************************)
LEMMA UpStep ==
  ASSUME TypeOK, AnswersOK, [Next]_vars, NoneStale'
  PROVE  UpOK'
<1>0. /\ PendingOK /\ UpOK /\ OrderOK
      /\ pending \in Seq(Transmission) /\ DOMAIN pending = 1..Len(pending)
      /\ up \in Seq(Command) /\ DOMAIN up = 1..Len(up) /\ Len(up) \in Nat
      /\ \A i \in DOMAIN up : up[i].packet \in Nat /\ up[i].sid \in Sid
  BY StaleForEver, LineTypes DEF AnswersOK
<1>1. CASE SendPacket
  <2>1. up' = up /\ born' = born
    BY <1>1 DEF SendPacket
  <2> QED BY <1>0, <1>1, <2>1, KeptWhenSent DEF UpOK
<1>2. CASE Report
  <2>1. /\ up # << >> /\ up' = Tail(up)
        /\ UNCHANGED <<callbacks, callback_pos, born>>
    BY <1>2 DEF Report
  <2>2. /\ DOMAIN up' = 1..(Len(up) - 1)
        /\ \A i \in 1..(Len(up) - 1) : up'[i] = up[i + 1]
        /\ \A i \in DOMAIN up' : Head(up).packet < up'[i].packet
        /\ Head(up) \in Command
    BY <1>0, <2>1, TailFacts, TailOrder DEF OrderOK
  <2>3. Head(up).packet \in Nat
    BY <2>2, LineTypes DEF Command
  <2> SUFFICES ASSUME NEW i \in DOMAIN up', up'[i].packet > born
      PROVE  Kept(outstanding', callbacks, callback_pos, up'[i].packet, up'[i].sid)
    BY <2>1 DEF UpOK
  <2>4. up'[i] = up[i + 1] /\ i + 1 \in DOMAIN up
    BY <1>0, <2>2
  <2>5. Kept(outstanding, callbacks, callback_pos, up'[i].packet, up'[i].sid)
    BY <1>0, <2>4 DEF UpOK
  <2> DEFINE p == up'[i].packet sid == up'[i].sid
  <2>6. /\ p \in Nat /\ Head(up).packet < p
        /\ Kept(outstanding, callbacks, callback_pos, p, sid)
    BY <1>0, <2>2, <2>4, <2>5
  <2> HIDE DEF p, sid
  <2>7. Kept(outstanding', callbacks, callback_pos, p, sid)
    BY <1>2, <2>3, <2>6, KeptAfterReport
  <2> QED BY <2>7 DEF p, sid
<1>3. CASE BridgeRestarts
  <2>1. born' = sent /\ (up' = up \/ up' = << >>)
    BY <1>3 DEF BridgeRestarts
  <2>2. \A i \in DOMAIN up : ~(up[i].packet > sent)
    <3>1. \A i \in DOMAIN up : up[i].packet <= sent
      BY <1>0 DEF OrderOK, UpTo
    <3> QED BY <1>0, <3>1, LineTypes
  <2> QED BY <2>1, <2>2 DEF UpOK
<1>4. CASE PacketSent
  <2> DEFINE e == [sid |-> packet_ids[Head(pending).slot], packet |-> Head(pending).packet]
  <2>1. /\ pending # << >> /\ up' = Append(up, e)
        /\ UNCHANGED <<outstanding, callbacks, callback_pos, born>>
    BY <1>4 DEF PacketSent, bridge
  <2>2. e.sid = packet_ids[Head(pending).slot] /\ e.packet = Head(pending).packet
    OBVIOUS
  <2> HIDE DEF e
  <2>3. /\ DOMAIN up' = 1..(Len(up) + 1)
        /\ \A j \in 1..Len(up) : up'[j] = up[j]
        /\ up'[Len(up) + 1] = e
    BY <1>0, <2>1, AppendFacts
  <2>4. 1 \in DOMAIN pending /\ pending[1] = Head(pending)
    BY <1>0, <2>1, TailFacts
  <2>5. e.packet > born => Kept(outstanding, callbacks, callback_pos, e.packet, e.sid)
    BY <1>0, <2>2, <2>4 DEF PendingOK
  <2>6. \A i \in DOMAIN up' : (i \in DOMAIN up /\ up'[i] = up[i]) \/ up'[i] = e
    BY <1>0, <2>3
  <2> QED BY <1>0, <2>1, <2>5, <2>6 DEF UpOK
<1>5. CASE LineLosesReport
  <2>1. /\ up # << >> /\ up' = Tail(up)
        /\ UNCHANGED <<outstanding, callbacks, callback_pos, born>>
    BY <1>5 DEF LineLosesReport, bridge
  <2>2. \A i \in DOMAIN up' : up'[i] = up[i + 1] /\ i + 1 \in DOMAIN up
    BY <1>0, <2>1, TailFacts
  <2> QED BY <1>0, <2>1, <2>2 DEF UpOK
<1>6. CASE UNCHANGED <<up, outstanding, callbacks, callback_pos, born>>
  BY <1>0, <1>6 DEF UpOK
<1> QED BY <1>1, <1>2, <1>3, <1>4, <1>5, <1>6
        DEF Next, SendFails, SendCommand, IllegalAttributes, RadioResets,
            LineLosesCommand, bridge, vars

(***************************************************************************)
(* The step that calls a callback calls the packet's own.                  *)
(***************************************************************************)
LEMMA RightCallbackStep ==
  ASSUME TypeOK, AnswersOK, [Next]_vars, NoneStale'
  PROVE  \A i \in DOMAIN called' : called'[i].owner = called'[i].packet
<1>0. called \in Seq(Call) /\ \A i \in DOMAIN called : called[i].owner = called[i].packet
  BY StaleForEver, LineTypes DEF AnswersOK, RightCallback
<1>1. ASSUME NEW e, called' = Append(called, e), e.owner = e.packet
      PROVE  \A i \in DOMAIN called' : called'[i].owner = called'[i].packet
  BY <1>0, <1>1, AppendFacts
<1>2. CASE SendFails
  <2> DEFINE e == [owner |-> sent', packet |-> sent', born |-> born]
  <2>1. called' = Append(called, e) /\ e.owner = e.packet
    BY <1>2 DEF SendFails
  <2> HIDE DEF e
  <2> QED BY <1>1, <2>1
<1>3. CASE Report
  <2> DEFINE e == [owner |-> Head(up).packet, packet |-> Head(up).packet, born |-> born]
  <2>1. called' = Append(called, e) \/ called' = called
    BY <1>3, OwnerOfReport
  <2>2. e.owner = e.packet
    OBVIOUS
  <2> HIDE DEF e
  <2> QED BY <1>0, <1>1, <2>1, <2>2
<1>4. CASE called' = called
  BY <1>0, <1>4
<1> QED BY <1>2, <1>3, <1>4
        DEF Next, SendPacket, BridgeRestarts, SendCommand, IllegalAttributes,
            PacketSent, RadioResets, LineLosesCommand, LineLosesReport, vars

(***************************************************************************)
(* What is known of the packets on their way holds at each step.           *)
(***************************************************************************)
LEMMA AnswersStep ==
  ASSUME TypeOK, AnswersOK, [Next]_vars
  PROVE  AnswersOK'
<1>1. OrderOK'
  BY OrderStep DEF AnswersOK
<1>2. ASSUME NoneStale'
      PROVE  (DownOK /\ PendingOK /\ UpOK)'
  BY <1>2, DownStep, PendingStep, UpStep
<1>3. RightCallback'
  BY RightCallbackStep DEF RightCallback
<1> QED BY <1>1, <1>2, <1>3 DEF AnswersOK

(***************************************************************************)
(* ... and in every behaviour.                                             *)
(***************************************************************************)
THEOREM AnswersInvariant == Spec => [](TypeOK /\ AnswersOK)
<1>1. Spec => []TypeOK
  BY TypeCorrect
<1>2. Init => AnswersOK
  BY InitAnswers
<1>3. TypeOK /\ AnswersOK /\ [Next]_vars => AnswersOK'
  BY AnswersStep
<1> QED BY <1>1, <1>2, <1>3, PTL DEF Spec

(***************************************************************************)
(* packet_sent calls the callback of the packet that the report is about,  *)
(* with any number of slots on either side that the MAC layer's packets    *)
(* do not exceed, whatever is lost, until a report of an earlier run of    *)
(* the bridge was taken for one of this run.                               *)
(***************************************************************************)
THEOREM ReportsFindTheirCallbacks == Spec => []RightCallback
<1>1. TypeOK /\ AnswersOK => RightCallback
  BY DEF AnswersOK
<1> QED BY <1>1, AnswersInvariant, PTL

------------------------------------------------------------------------------
(* The promise to the MAC layer                                              *)

Owners(calls) == [i \in DOMAIN calls |-> calls[i].owner]

(***************************************************************************)
(* One call more is one answer more.                                       *)
(***************************************************************************)
LEMMA OwnersAppend ==
  ASSUME NEW s \in Seq(Call), NEW e \in Call
  PROVE  Owners(Append(s, e)) = Append(Owners(s), e.owner)
<1>1. /\ DOMAIN s = 1..Len(s) /\ Len(s) \in Nat
      /\ DOMAIN Append(s, e) = 1..(Len(s) + 1)
      /\ \A i \in 1..Len(s) : Append(s, e)[i] = s[i]
      /\ Append(s, e)[Len(s) + 1] = e
  BY AppendFacts
<1>2. \A i \in 1..Len(s) : s[i].owner \in Packet
  <2>1. \A i \in 1..Len(s) : s[i] \in Call
    BY <1>1, ElementOfSeq
  <2> QED BY <2>1 DEF Call
<1>3. Owners(s) = [i \in 1..Len(s) |-> s[i].owner]
  BY <1>1 DEF Owners
<1>4. Owners(s) \in Seq(Packet) /\ Len(Owners(s)) = Len(s) /\ e.owner \in Packet
  BY <1>1, <1>2, <1>3 DEF Call
<1>5. /\ DOMAIN Append(Owners(s), e.owner) = 1..(Len(s) + 1)
      /\ \A i \in 1..Len(s) : Append(Owners(s), e.owner)[i] = Owners(s)[i]
      /\ Append(Owners(s), e.owner)[Len(s) + 1] = e.owner
      /\ Append(Owners(s), e.owner) \in Seq(Packet)
  BY <1>4, AppendFacts
<1>6. Owners(Append(s, e)) = [i \in 1..(Len(s) + 1) |-> Append(s, e)[i].owner]
  BY <1>1 DEF Owners
<1>7. \A i \in 1..(Len(s) + 1) : Append(s, e)[i].owner = Append(Owners(s), e.owner)[i]
  BY <1>1, <1>3, <1>5
<1> QED BY <1>5, <1>6, <1>7

(***************************************************************************)
(* A packet that is sent is neither unanswered nor answered: callbacks     *)
(* were called for packets that were sent before.                          *)
(***************************************************************************)
LEMMA SentIsFresh ==
  ASSUME TypeOK, AnswersOK, NoneStale
  PROVE  /\ sent + 1 \notin outstanding
         /\ \A i \in DOMAIN Owners(called) : Owners(called)[i] # sent + 1
<1>1. sent + 1 \notin outstanding
  BY OutFinite, LineTypes DEF AnswersOK
<1>2. \A i \in DOMAIN called : called[i].owner = called[i].packet /\ called[i].packet <= sent
  BY DEF AnswersOK, RightCallback, OrderOK, UpTo
<1>3. \A i \in DOMAIN called : called[i].packet \in Nat /\ sent \in Nat
  BY LineTypes
<1> QED BY <1>1, <1>2, <1>3 DEF Owners

(***************************************************************************)
(* Each step takes, refuses or answers one packet, starts the MAC layer    *)
(* again, or changes nothing that it sees.                                 *)
(***************************************************************************)
LEMMA PromiseStep ==
  ASSUME TypeOK, AnswersOK, [Next]_vars, NoneStale'
  PROVE  \/ /\ outstanding' = {} /\ called' = called
         \/ \E p \in Packet :
              LET fresh == /\ p \notin outstanding
                           /\ \A i \in DOMAIN Owners(called) : Owners(called)[i] # p
              IN  \/ /\ fresh /\ outstanding' = outstanding \cup {p} /\ called' = called
                  \/ /\ fresh /\ Owners(called') = Append(Owners(called), p)
                     /\ outstanding' = outstanding
                  \/ /\ p \in outstanding /\ outstanding' = outstanding \ {p}
                     /\ Owners(called') = Append(Owners(called), p)
         \/ outstanding' = outstanding /\ called' = called
<1>0. /\ NoneStale /\ called \in Seq(Call) /\ sent \in Nat /\ born \in 0..MaxSends
      /\ Packet = 1..MaxSends /\ MaxSends \in Nat
  BY StaleForEver, LineTypes, TxSessionAssumption DEF TypeOK, Packet
<1>1. CASE SendPacket
  <2>1. sent + 1 \in Packet
    BY <1>0, <1>1 DEF SendPacket, MaySend
  <2>2. outstanding' = outstanding \cup {sent + 1} /\ called' = called
    BY <1>1 DEF SendPacket
  <2> QED BY <1>0, <2>1, <2>2, SentIsFresh
<1>2. CASE SendFails
  <2> DEFINE e == [owner |-> sent + 1, packet |-> sent + 1, born |-> born]
  <2>1. sent + 1 \in Packet
    BY <1>0, <1>2 DEF SendFails, MaySend
  <2>2. called' = Append(called, e) /\ outstanding' = outstanding
    BY <1>2 DEF SendFails, bridge
  <2>3. e \in Call /\ e.owner = sent + 1
    BY <1>0, <2>1 DEF Call
  <2> HIDE DEF e
  <2>4. Owners(called') = Append(Owners(called), sent + 1)
    BY <1>0, <2>2, <2>3, OwnersAppend
  <2> QED BY <1>0, <2>1, <2>2, <2>4, SentIsFresh
<1>3. CASE Report
  <2> DEFINE p == Head(up).packet
             e == [owner |-> p, packet |-> p, born |-> born]
  <2>1. p \in Packet
    <3>1. Head(up) \in Command
      BY <1>3, LineTypes, TailFacts DEF Report
    <3> QED BY <3>1 DEF Command
  <2>2. \/ /\ p \in outstanding /\ outstanding' = outstanding \ {p}
           /\ called' = Append(called, e)
        \/ outstanding' = outstanding /\ called' = called
    BY <1>3, OwnerOfReport
  <2>3. e \in Call /\ e.owner = p
    BY <1>0, <2>1 DEF Call
  <2> HIDE DEF p, e
  <2>4. called' = Append(called, e) => Owners(called') = Append(Owners(called), p)
    BY <1>0, <2>3, OwnersAppend
  <2> QED BY <2>1, <2>2, <2>4
<1>4. CASE BridgeRestarts
  BY <1>4 DEF BridgeRestarts
<1>5. CASE outstanding' = outstanding /\ called' = called
  BY <1>5
<1> QED BY <1>1, <1>2, <1>3, <1>4, <1>5
        DEF Next, SendCommand, IllegalAttributes, PacketSent, RadioResets,
            LineLosesCommand, LineLosesReport, bridge, vars

(***************************************************************************)
(* The driver keeps its promise: it answers each packet at most once,      *)
(* while the MAC layer waits for it, and refuses one only at once, until a *)
(* report of an earlier run was taken for one of this run.                 *)
(***************************************************************************)
THEOREM PromiseKept == Spec => KeepsPromise
<1>1. Init => Promise!Init
  BY DEF Init, Promise!Init
<1>2. ASSUME TypeOK, AnswersOK, [Next]_vars
      PROVE  NoneStale' => Promise!Next \/ UNCHANGED Promise!vars
  <2> SUFFICES ASSUME NoneStale'
               PROVE  Promise!Next \/ UNCHANGED Promise!vars
    OBVIOUS
  <2> QED BY <1>2, PromiseStep
          DEF Owners, Promise!Next, Promise!Restart, Promise!Take, Promise!Refuse,
              Promise!Answer, Promise!Fresh, Promise!vars
<1> QED BY <1>1, <1>2, AnswersInvariant, PTL DEF Spec, KeepsPromise
==============================================================================
