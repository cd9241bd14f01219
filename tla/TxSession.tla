------------------------------ MODULE TxSession ------------------------------
(***************************************************************************)
(* Transmission sessions.  The bridge's RDC driver (slip-bridge-rdc.c)     *)
(* stores the MAC layer's callback in the next slot of the callbacks ring  *)
(* and sends the packet with the slot's number, the session id, to the     *)
(* radio.  The radio (slip-radio.c) keeps the id in the next slot of its   *)
(* packet_ids ring, transmits, and reports the id that the slot holds by   *)
(* then; the bridge calls whatever callback it finds under that id.        *)
(* Nothing on either side says whether a slot is in use.                   *)
(*                                                                         *)
(* Packets are numbered in the order in which the MAC layer sends them.    *)
(* The serial line is the one of SlipOut and SlipIn: in order, without     *)
(* duplicates, and it may lose a packet.                                   *)
(***************************************************************************)
EXTENDS Integers, Sequences, FiniteSets

CONSTANTS
  MAX_CALLBACKS,  \* slots of callbacks
  RadioSlots,     \* slots of packet_ids
  Window,         \* the packets the MAC layer leaves unanswered at a time
  MaxSends,       \* bound: packets sent in a behaviour
  MaxLost,        \* bound: packets that are lost
  MaxRestarts     \* bound: restarts of the bridge

ASSUME TxSessionAssumption ==
  /\ MAX_CALLBACKS \in Nat \ {0} /\ RadioSlots \in Nat \ {0}
  /\ Window \in Nat /\ Window <= MAX_CALLBACKS /\ Window <= RadioSlots
  /\ MaxSends \in Nat /\ MaxLost \in Nat /\ MaxRestarts \in Nat

Packet == 1..MaxSends
Null   == 0          \* no packet: an empty slot

VARIABLES
  callback_pos,  \* the next slot of callbacks
  callbacks,     \* the packet whose callback a slot holds
  down,          \* "!S" commands on their way to the radio
  packet_pos,    \* the next slot of packet_ids
  packet_ids,    \* the session id a slot holds
  pending,       \* the packets the radio transmits, and their slots of packet_ids
  up,            \* "!R" reports on their way to the bridge
  outstanding,   \* the packets whose callback the MAC layer waits for
  sent,          \* history: packets sent so far
  born,          \* history: packets sent before the bridge last started
  lost,          \* history: packets of which no report will come
  called,        \* history: the callbacks called, and for which packet's report
  restarts       \* history: restarts so far

bridge == <<callback_pos, callbacks, outstanding>>
radio  == <<packet_pos, packet_ids, pending>>
vars   == <<bridge, down, radio, up, sent, born, lost, called, restarts>>

Init ==
  /\ callback_pos = 0 /\ callbacks = [s \in 0..(MAX_CALLBACKS - 1) |-> Null]
  /\ packet_pos = 0 /\ packet_ids = [s \in 0..(RadioSlots - 1) |-> 0]
  /\ down = << >> /\ pending = << >> /\ up = << >>
  /\ outstanding = {} /\ sent = 0 /\ born = 0 /\ lost = {} /\ called = << >>
  /\ restarts = 0

------------------------------------------------------------------------------
(* The bridge                                                                *)

MaySend == sent < MaxSends /\ Cardinality(outstanding) < Window

\* A bug for TypeOK: the ring is thought to have one slot more.
SendPacketWrapsLate ==
  /\ MaySend
  /\ sent' = sent + 1
  /\ callbacks' = [callbacks EXCEPT ![callback_pos] = sent']
  /\ callback_pos' = IF callback_pos + 1 > MAX_CALLBACKS THEN 0 ELSE callback_pos + 1
  /\ down' = Append(down, [sid |-> callback_pos, packet |-> sent'])
  /\ outstanding' = outstanding \cup {sent'}
  /\ UNCHANGED <<radio, up, born, lost, called, restarts>>

\* send_packet: the next slot is taken, in use or not, and the packet goes out.
SendPacket ==
  /\ MaySend
  /\ sent' = sent + 1
  /\ callbacks' = [callbacks EXCEPT ![callback_pos] = sent']
  /\ callback_pos' = IF callback_pos + 1 >= MAX_CALLBACKS THEN 0 ELSE callback_pos + 1
  /\ down' = Append(down, [sid |-> callback_pos, packet |-> sent'])
  /\ outstanding' = outstanding \cup {sent'}
  /\ UNCHANGED <<radio, up, born, lost, called, restarts>>

\* The header or the packet is too large: MAC_TX_ERR_FATAL at once.
SendFails ==
  /\ MaySend
  /\ sent' = sent + 1
  /\ called' = Append(called, [owner |-> sent', packet |-> sent', born |-> born])
  /\ UNCHANGED <<bridge, down, radio, up, born, lost, restarts>>

\* packet_sent: the callback in the slot is called, unless there is none.
Report ==
  /\ up # << >> /\ up' = Tail(up)
  /\ LET r == Head(up) owner == callbacks[r.sid]
     IN  IF r.sid < MAX_CALLBACKS /\ owner # Null
         THEN /\ called' = Append(called, [owner |-> owner, packet |-> r.packet,
                                           born |-> born])
              /\ outstanding' = outstanding \ {owner}
         ELSE UNCHANGED <<called, outstanding>>
  /\ UNCHANGED <<callback_pos, callbacks, down, radio, sent, born, lost, restarts>>

\* The bridge starts again with an empty ring; opening the serial device discards
\* what the kernel holds of it (tcflush), not what the radio is about to send.
BridgeRestarts ==
  /\ restarts < MaxRestarts /\ restarts' = restarts + 1
  /\ callback_pos' = 0 /\ callbacks' = [s \in 0..(MAX_CALLBACKS - 1) |-> Null]
  /\ outstanding' = {} /\ born' = sent
  /\ down' \in {down, << >>} /\ up' \in {up, << >>}
  /\ UNCHANGED <<radio, sent, lost, called>>

------------------------------------------------------------------------------
(* The radio                                                                 *)

\* A bug for RightCallback: the packet's slot is given to the next packet too.
SendCommandKeepsSlot ==
  /\ down # << >> /\ down' = Tail(down)
  /\ packet_ids' = [packet_ids EXCEPT ![packet_pos] = Head(down).sid]
  /\ pending' = Append(pending, [slot |-> packet_pos, packet |-> Head(down).packet])
  /\ UNCHANGED <<bridge, packet_pos, up, sent, born, lost, called, restarts>>

\* The "!S" branch of slip_radio_cmd_handler, down to the stack's send.
SendCommand ==
  /\ down # << >> /\ down' = Tail(down)
  /\ packet_ids' = [packet_ids EXCEPT ![packet_pos] = Head(down).sid]
  /\ pending' = Append(pending, [slot |-> packet_pos, packet |-> Head(down).packet])
  /\ packet_pos' = IF packet_pos + 1 >= RadioSlots THEN 0 ELSE packet_pos + 1
  /\ UNCHANGED <<bridge, up, sent, born, lost, called, restarts>>

Forget(packets) == lost' = lost \cup packets /\ Cardinality(lost') <= MaxLost

\* Illegal packet attributes: the id is stored, and nothing is sent or reported.
IllegalAttributes ==
  /\ down # << >> /\ down' = Tail(down)
  /\ packet_ids' = [packet_ids EXCEPT ![packet_pos] = Head(down).sid]
  /\ Forget({Head(down).packet})
  /\ UNCHANGED <<bridge, packet_pos, pending, up, sent, born, called, restarts>>

\* A bug for KeepsPromise: a packet sent twice over the air is reported twice.
PacketSentPerTransmission ==
  /\ pending # << >> /\ pending' = Tail(pending)
  /\ \E n \in 1..2 :
       up' = up \o [i \in 1..n |-> [sid    |-> packet_ids[Head(pending).slot],
                                   packet |-> Head(pending).packet]]
  /\ UNCHANGED <<bridge, down, packet_pos, packet_ids, sent, born, lost, called, restarts>>

\* A bug for Answered: the id 0 is taken for an empty slot.
PacketSentSkipsZero ==
  /\ pending # << >> /\ pending' = Tail(pending)
  /\ LET sid == packet_ids[Head(pending).slot]
     IN  up' = IF sid = 0 THEN up
               ELSE Append(up, [sid |-> sid, packet |-> Head(pending).packet])
  /\ UNCHANGED <<bridge, down, packet_pos, packet_ids, sent, born, lost, called, restarts>>

\* packet_sent: the radio's stack is done with the packet it was given first.
\* The id is read through the pointer now, not when the packet was sent.
PacketSent ==
  /\ pending # << >> /\ pending' = Tail(pending)
  /\ up' = Append(up, [sid    |-> packet_ids[Head(pending).slot],
                       packet |-> Head(pending).packet])
  /\ UNCHANGED <<bridge, down, packet_pos, packet_ids, sent, born, lost, called, restarts>>

\* The radio resets: what it was transmitting is forgotten.
RadioResets ==
  /\ pending # << >> /\ pending' = << >>
  /\ packet_pos' = 0 /\ packet_ids' = [s \in 0..(RadioSlots - 1) |-> 0]
  /\ Forget({pending[i].packet : i \in DOMAIN pending})
  /\ UNCHANGED <<bridge, down, up, sent, born, called, restarts>>

\* The serial line loses a command or a report.
LineLosesCommand ==
  /\ down # << >> /\ down' = Tail(down) /\ Forget({Head(down).packet})
  /\ UNCHANGED <<bridge, radio, up, sent, born, called, restarts>>

LineLosesReport ==
  /\ up # << >> /\ up' = Tail(up) /\ Forget({Head(up).packet})
  /\ UNCHANGED <<bridge, down, radio, sent, born, called, restarts>>

Next ==
  \/ SendPacket \/ SendFails \/ Report \/ BridgeRestarts
  \/ SendCommand \/ IllegalAttributes \/ PacketSent \/ RadioResets
  \/ LineLosesCommand \/ LineLosesReport

Spec == Init /\ [][Next]_vars

\* Both ends keep handling what arrives, and a transmission ends.
Fairness == WF_vars(SendCommand) /\ WF_vars(PacketSent) /\ WF_vars(Report)

FairSpec == Spec /\ Fairness

------------------------------------------------------------------------------
(* Properties                                                                *)

Sid  == 0..(MAX_CALLBACKS - 1)
Slot == 0..(RadioSlots - 1)

TypeOK ==
  /\ callback_pos \in Sid /\ callbacks \in [Sid -> Packet \cup {Null}]
  /\ packet_pos \in Slot /\ packet_ids \in [Slot -> Sid]
  /\ down \in Seq([sid : Sid, packet : Packet])
  /\ pending \in Seq([slot : Slot, packet : Packet])
  /\ up \in Seq([sid : Sid, packet : Packet])
  /\ outstanding \in SUBSET Packet
  /\ sent \in 0..MaxSends /\ born \in 0..sent /\ restarts \in 0..MaxRestarts
  /\ lost \in SUBSET Packet
  /\ called \in Seq([owner : Packet, packet : Packet, born : 0..MaxSends])

\* No report of a packet of an earlier run of the bridge has called a callback.
NoneStale == \A i \in DOMAIN called : called[i].packet > called[i].born

(***************************************************************************)
(* A report reaches the callback of the packet it is about, although       *)
(* neither ring knows which slots are in use: the ids come back in order,  *)
(* so that a slot is overwritten only after its packet was answered or     *)
(* will never be, even if commands or reports are lost and the radio       *)
(* resets.  The one thing it does not survive is a report that was still   *)
(* on its way when the bridge started again: it answers the packet that    *)
(* has its id now, and each later report may answer the next packet.       *)
(***************************************************************************)
RightCallback ==
  NoneStale => \A i \in DOMAIN called : called[i].owner = called[i].packet

(***************************************************************************)
(* As long as no report of an earlier run of the bridge was taken for one  *)
(* of this run, the driver keeps its promise to the MAC layer: one answer  *)
(* for a packet, and only while the MAC layer waits for it.                *)
(***************************************************************************)
Promise == INSTANCE TxPromise WITH
  Packets  <- Packet,
  waiting  <- outstanding,
  answered <- [i \in DOMAIN called |-> called[i].owner]

KeepsPromise ==
  /\ Promise!Init
  /\ [][NoneStale' => Promise!Next \/ UNCHANGED Promise!vars]_vars

(***************************************************************************)
(* Every packet taken is answered in the end, unless the line or the radio *)
(* lost it, the bridge started again, or a report of its earlier run was   *)
(* taken for one of this run (each later answer may then be one late): the *)
(* driver has no timeout, and those packets leave the MAC layer waiting.   *)
(***************************************************************************)
Answered ==
  \A p \in Packet :
    (p \in outstanding) ~> (p \notin outstanding \/ p \in lost \/ ~NoneStale)
==============================================================================
