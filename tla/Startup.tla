------------------------------ MODULE Startup ------------------------------
(***************************************************************************)
(* How the bridge comes up (slip-bridge.c).  slip_bridge_process asks the  *)
(* radio for its MAC address with "?M", once a second until mac_set, and   *)
(* then sets the prefix and becomes the root of the RPL DAG.  The answers, *)
(* "!M", are handled by the serial input whenever they arrive, also after  *)
(* the process has gone on: each one starts the IPv6 stack and RPL afresh. *)
(*                                                                         *)
(* In bridge mode (no -r) slip_bridge_set_mac stores the address and       *)
(* returns before it sets mac_set: the process asks for ever.              *)
(*                                                                         *)
(* The process ends with an error when its arguments are no good or a      *)
(* device does not open; it may be started again, with the same arguments. *)
(***************************************************************************)
EXTENDS Integers, Sequences, SlipConfig

CONSTANTS
  Arguments,          \* the command lines the bridge may be started with
  IpAddresses,        \* the texts that uiplib_ipaddrconv can parse
  Devices,            \* the serial devices that there may be
  HostMac, RadioMac,  \* the address the host starts with, and the radio's
  MaxLine,            \* bound: packets on their way in one direction
  MaxLost,            \* bound: packets the line loses
  MaxRestarts         \* bound: restarts of the bridge

ASSUME StartupAssumption ==
  /\ HostMac # RadioMac
  /\ MaxLine \in Nat \ {0} /\ MaxLost \in Nat /\ MaxRestarts \in Nat

LinkLocal == "fe80::/64"
Given     == "given"      \* the prefix of -r, or of the default address

VARIABLES
  argv,         \* the command line of the bridge
  slip_config,  \* the variables slip_config_*
  pc,           \* where slip_bridge_process is
  mac_set,
  lladdr,       \* uip_lladdr, also linkaddr_node_addr
  addr_list,    \* the addresses of uip_ds6_if
  dag,          \* the address that is root of the RPL DAG, if there is one
  asked,        \* "?M" packets on their way to the radio
  answers,      \* "!M" packets on their way to the bridge: their address
  lost,         \* history: packets lost so far
  restarts      \* history: restarts so far

config == <<argv, slip_config>>
bridge == <<pc, mac_set, lladdr, addr_list, dag>>
line   == <<asked, answers, lost>>
vars   == <<config, bridge, line, restarts>>

Address(prefix, mac) == [prefix |-> prefix, iid |-> mac]

\* Contiki has set up the stack with the host's address.
Init ==
  /\ argv \in Arguments /\ slip_config = Defaults
  /\ pc = "paused" /\ mac_set = FALSE /\ lladdr = HostMac
  /\ addr_list = {Address(LinkLocal, HostMac)} /\ dag = {}
  /\ asked = 0 /\ answers = << >> /\ lost = 0 /\ restarts = 0

------------------------------------------------------------------------------
(* slip_bridge_process                                                       *)

\* With MaxLine requests on their way, one more changes nothing.
request_mac == asked' = IF asked < MaxLine THEN asked + 1 ELSE asked

\* slip_init: one of the devices it tries is there, or err ends the program.
Opens(conf, present) == conf.devices \cap present # {}

\* The arguments are read, the devices opened, and the first request is sent.
Start ==
  /\ pc = "paused"
  /\ ~Refuses(argv) /\ slip_config' = HandleArguments(argv)
  /\ \E present \in SUBSET Devices :
       IF Opens(slip_config', present)
       THEN pc' = "asking" /\ request_mac
       ELSE pc' = "failed" /\ UNCHANGED asked
  /\ UNCHANGED <<argv, mac_set, lladdr, addr_list, dag, answers, lost, restarts>>

\* The usage, or err for the baud rate, ends the program.
Refuse ==
  /\ pc = "paused" /\ Refuses(argv) /\ pc' = "failed"
  /\ UNCHANGED <<config, mac_set, lladdr, addr_list, dag, line, restarts>>

\* The second is over and no answer has set mac_set: ask again.
AskAgain ==
  /\ pc = "asking" /\ ~mac_set
  /\ request_mac
  /\ UNCHANGED <<config, bridge, answers, lost, restarts>>

\* set_prefix_64: an address in the prefix, which becomes the DAG's root.
set_prefix_64 ==
  LET ipaddr == Address(Given, lladdr)
  IN  /\ addr_list' = addr_list \cup {ipaddr}
      /\ dag' = {ipaddr}

\* A bug for TypeOK: the wait is over after a second, answered or not.
GoOnUnasked ==
  /\ pc = "asking"
  /\ IF slip_config.ipaddr \in IpAddresses
     THEN pc' = "running" /\ set_prefix_64
     ELSE pc' = "exited" /\ UNCHANGED <<addr_list, dag>>
  /\ UNCHANGED <<config, mac_set, lladdr, line, restarts>>

\* The second is over and mac_set: the loop ends and the prefix is set.
GoOn ==
  /\ pc = "asking" /\ mac_set
  /\ IF slip_config.ipaddr \in IpAddresses
     THEN pc' = "running" /\ set_prefix_64
     ELSE pc' = "exited" /\ UNCHANGED <<addr_list, dag>>
  /\ UNCHANGED <<config, mac_set, lladdr, line, restarts>>

------------------------------------------------------------------------------
(* The serial input: slip_bridge_set_mac                                     *)

\* uip_ds6_init and rpl_init: one link-local address, and no DAG.
InitStack(mac) ==
  /\ addr_list' = {Address(LinkLocal, mac)}
  /\ dag' = {}

\* A bug for AddressesAreTheRadios: the stack starts before the address is stored.
SetMacLate ==
  /\ pc \in {"asking", "running"}
  /\ answers # << >> /\ answers' = Tail(answers)
  /\ lladdr' = Head(answers)
  /\ IF slip_config.border_router
     THEN InitStack(lladdr) /\ mac_set' = TRUE
     ELSE UNCHANGED <<addr_list, dag, mac_set>>
  /\ UNCHANGED <<config, pc, asked, lost, restarts>>

\* A bug for RootHasItsAddress: RPL is not started again with the stack.
SetMacKeepsDag ==
  /\ pc \in {"asking", "running"}
  /\ answers # << >> /\ answers' = Tail(answers)
  /\ lladdr' = Head(answers)
  /\ IF slip_config.border_router
     THEN addr_list' = {Address(LinkLocal, lladdr')} /\ mac_set' = TRUE
     ELSE UNCHANGED <<addr_list, mac_set>>
  /\ UNCHANGED <<config, pc, dag, asked, lost, restarts>>

SetMac ==
  /\ pc \in {"asking", "running"}
  /\ answers # << >> /\ answers' = Tail(answers)
  /\ lladdr' = Head(answers)
  /\ IF slip_config.border_router
     THEN InitStack(lladdr') /\ mac_set' = TRUE
     ELSE UNCHANGED <<addr_list, dag, mac_set>>
  /\ UNCHANGED <<config, pc, asked, lost, restarts>>

------------------------------------------------------------------------------
(* The radio, the line, and restarts                                         *)

\* A bug for ComesUp: only the last of the requests that wait is answered, and
\* none when just one waits.
AnswerLastOnly ==
  /\ asked > 0 /\ asked' = 0 /\ Len(answers) < MaxLine
  /\ answers' = IF asked > 1 THEN Append(answers, RadioMac) ELSE answers
  /\ UNCHANGED <<config, bridge, lost, restarts>>

\* The "?M" branch of the radio's slip_radio_cmd_handler.
Answer ==
  /\ asked > 0 /\ asked' = asked - 1
  /\ Len(answers) < MaxLine /\ answers' = Append(answers, RadioMac)
  /\ UNCHANGED <<config, bridge, lost, restarts>>

Lose ==
  /\ lost < MaxLost /\ lost' = lost + 1
  /\ \/ asked > 0 /\ asked' = asked - 1 /\ UNCHANGED answers
     \/ answers # << >> /\ answers' = Tail(answers) /\ UNCHANGED asked
  /\ UNCHANGED <<config, bridge, restarts>>

\* The bridge starts again; what the kernel holds of the serial device is
\* discarded (tcflush), what the radio is about to send is not.
Restart ==
  /\ restarts < MaxRestarts /\ restarts' = restarts + 1
  /\ pc' = "paused" /\ mac_set' = FALSE /\ lladdr' = HostMac
  /\ slip_config' = Defaults
  /\ addr_list' = {Address(LinkLocal, HostMac)} /\ dag' = {}
  /\ asked' \in {asked, 0} /\ answers' \in {answers, << >>}
  /\ UNCHANGED <<argv, lost>>

Next == Start \/ Refuse \/ AskAgain \/ GoOn \/ SetMac \/ Answer \/ Lose \/ Restart

Spec == Init /\ [][Next]_vars

\* The process runs, its timer expires, and both ends read the line.
Fairness == /\ WF_vars(Start) /\ WF_vars(Refuse) /\ WF_vars(AskAgain) /\ WF_vars(GoOn)
            /\ WF_vars(SetMac) /\ WF_vars(Answer)

FairSpec == Spec /\ Fairness

------------------------------------------------------------------------------
(* Properties                                                                *)

Mac == {HostMac, RadioMac}

(* The process gets past its loop only as a border router with an address.   *)
TypeOK ==
  /\ argv \in Arguments /\ slip_config \in {Defaults, HandleArguments(argv)}
  /\ pc \in {"paused", "asking", "running", "exited", "failed"} /\ mac_set \in BOOLEAN
  /\ lladdr \in Mac
  /\ addr_list \in SUBSET [prefix : {LinkLocal, Given}, iid : Mac]
  /\ dag \in SUBSET [prefix : {Given}, iid : Mac]
  /\ asked \in 0..MaxLine /\ answers \in Seq({RadioMac})
  /\ lost \in 0..MaxLost /\ restarts \in 0..MaxRestarts
  /\ mac_set => slip_config.border_router
  /\ pc \in {"running", "exited"} => mac_set

(***************************************************************************)
(* Once mac_set, the border router has no address but those made of the    *)
(* radio's MAC address, however many answers arrive and whenever they do.  *)
(***************************************************************************)
AddressesAreTheRadios ==
  mac_set => /\ lladdr = RadioMac
             /\ \A a \in addr_list : a.iid = RadioMac

(***************************************************************************)
(* The root of the DAG is an address that the border router has, also      *)
(* after a late answer has started the stack afresh.                       *)
(***************************************************************************)
RootHasItsAddress == dag \subseteq addr_list

(***************************************************************************)
(* A border router comes up, although requests and answers are lost and    *)
(* the bridge may start again: it asks until it is answered.  Only a       *)
(* command line that is no good, or a device that does not open, ends it.  *)
(***************************************************************************)
ComesUp ==
  LET conf == HandleArguments(argv)
      up      == IF conf.ipaddr \in IpAddresses THEN "running" ELSE "exited"
  IN  IF Refuses(argv)
      THEN <>[](pc = "failed")
      ELSE conf.border_router => <>[](pc = up) \/ <>[](pc = "failed")

(***************************************************************************)
(* What slip-bridge.c:252 asks of slip_bridge_set_mac: the addresses that  *)
(* it removes are added back again.  A late answer takes the address that  *)
(* set_prefix_64 added, and nothing puts it back.                          *)
(***************************************************************************)
AddressesComeBack ==
  [][SetMac => {a.prefix : a \in addr_list} \subseteq {a.prefix : a \in addr_list'}]_vars
==============================================================================
