------------------------------- MODULE Bridge -------------------------------
(***************************************************************************)
(* The bridge as one program: its start-up, the tun device and the sensor  *)
(* readings share one loop, so that their handlers may follow each other   *)
(* in any order, from the moment the devices are open on; an end of the    *)
(* program ends them all, and it starts again with fresh variables.        *)
(*                                                                         *)
(* They share the state of the start-up and nothing else.  A behaviour has *)
(* the radio's answers and the restarts, and one more kind of input.       *)
(***************************************************************************)
EXTENDS Throttle, Sensors

CONSTANT
  Inputs    \* bound: the kinds of input, of which a behaviour has one

ASSUME BridgeAssumption == Inputs \subseteq {"losses", "host", "sensors"}

VARIABLE input

bridgeVars == <<vars, tun, readings, input>>

BridgeInit == Init /\ TunInit /\ SensorsInit /\ input \in Inputs

StartupStep ==
  /\ \/ Start \/ Refuse \/ AskAgain \/ GoOn \/ SetMac \/ Answer
     \/ input = "losses" /\ Lose
  /\ UNCHANGED <<tun, readings, input>>

TunStep == input = "host" /\ TunNext /\ UNCHANGED <<vars, readings, input>>

SensorStep == input = "sensors" /\ SensorData /\ UNCHANGED <<vars, tun, input>>

BridgeRestart == Restart /\ TunRestart /\ SensorsRestart /\ UNCHANGED input

BridgeNext == StartupStep \/ TunStep \/ SensorStep \/ BridgeRestart

BridgeSpec == BridgeInit /\ [][BridgeNext]_bridgeVars

\* The process runs, its timer expires, both ends read the line, and time passes.
\* The loop calls handle_fd more often than an int of milliseconds goes round.
BridgeFairness ==
  LET InStartup(A) == A /\ UNCHANGED <<tun, readings, input>>
      InTun(A)     == input = "host" /\ A /\ UNCHANGED <<vars, readings, input>>
  IN  /\ WF_bridgeVars(InStartup(Start)) /\ WF_bridgeVars(InStartup(Refuse))
      /\ WF_bridgeVars(InStartup(AskAgain)) /\ WF_bridgeVars(InStartup(GoOn))
      /\ WF_bridgeVars(InStartup(SetMac)) /\ WF_bridgeVars(InStartup(Answer))
      /\ WF_bridgeVars(InTun(Tick)) /\ SF_bridgeVars(InTun(EndDelay \/ ReadTun))

BridgeFairSpec == BridgeSpec /\ BridgeFairness

------------------------------------------------------------------------------
(* Properties                                                                *)

(***************************************************************************)
(* Two packets of the host are never read within less than the base delay  *)
(* of -d, to a part of a millisecond, although the clock that is asked     *)
(* shows whole milliseconds and its difference may wrap; unless somebody   *)
(* has set the clock between the two.                                      *)
(***************************************************************************)
SpacedApart ==
  [][TunStep /\ ReadTun => clock_set \/ since >= Parts * slip_config.basedelay]_bridgeVars

(***************************************************************************)
(* The host is heard: while the program runs and a packet waits, packets   *)
(* are read again and again, also after the clock was set back or ahead.   *)
(***************************************************************************)
HostIsHeard ==
  <>[](TunOpen /\ waiting > 0 /\ input = "host") => []<><<TunStep /\ ReadTun>>_bridgeVars
==============================================================================
