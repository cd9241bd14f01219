----------------------------- MODULE PacketPipe ------------------------------
(***************************************************************************)
(* What one direction of the serial line promises: the packets accepted at *)
(* one end come out at the other whole, once each and in the same order.   *)
(***************************************************************************)
EXTENDS Integers, Sequences

CONSTANT Packets  \* what the pipe may be given

VARIABLES
  accepted,   \* the packets handed to the pipe so far
  delivered   \* the packets that came out of it so far

vars == <<accepted, delivered>>

Init == accepted = << >> /\ delivered = << >>

Accept == /\ \E p \in Packets : accepted' = Append(accepted, p)
          /\ UNCHANGED delivered

Deliver == /\ Len(delivered) < Len(accepted)
           /\ delivered' = Append(delivered, accepted[Len(delivered) + 1])
           /\ UNCHANGED accepted

Next == Accept \/ Deliver

Spec == Init /\ [][Next]_vars
==============================================================================
