------------------------------ MODULE TxPromise ------------------------------
(***************************************************************************)
(* What the RDC driver promises the MAC layer: a packet it takes is        *)
(* answered at most once, while the MAC layer still waits for the answer,  *)
(* and one it refuses is answered at once.                                 *)
(***************************************************************************)
EXTENDS Sequences

CONSTANT Packets

VARIABLES
  waiting,   \* packets taken and not answered yet
  answered   \* the packets whose callback was called, call by call

vars == <<waiting, answered>>

Init == waiting = {} /\ answered = << >>

Fresh(p) == p \notin waiting /\ \A i \in DOMAIN answered : answered[i] # p

Take(p) == Fresh(p) /\ waiting' = waiting \cup {p} /\ UNCHANGED answered

Refuse(p) == Fresh(p) /\ answered' = Append(answered, p) /\ UNCHANGED waiting

Answer(p) == /\ p \in waiting
             /\ waiting' = waiting \ {p}
             /\ answered' = Append(answered, p)

\* The MAC layer starts again: it waits for nothing.
Restart == waiting' = {} /\ UNCHANGED answered

Next == Restart \/ \E p \in Packets : Take(p) \/ Refuse(p) \/ Answer(p)

Spec == Init /\ [][Next]_vars
==============================================================================
