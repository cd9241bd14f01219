---------------------------- MODULE BridgeProofs ----------------------------
(***************************************************************************)
(* The start-up keeps its types and its two safety invariants, alone and   *)
(* in the whole program, whatever the command lines, addresses and bounds; *)
(* the program spaces the packets of the host, for every delay, every      *)
(* width of an int and every fineness of the clock; and its page shows the *)
(* sensors' readings as they were measured.                                *)
(***************************************************************************)
EXTENDS Bridge, ListFacts, TLAPS

------------------------------------------------------------------------------
(***************************************************************************)
(* The start-up.  Its types and invariants are inductive, once they say    *)
(* that a process that has not started has no address (Start reads the     *)
(* arguments afresh).                                                      *)
(***************************************************************************)
PausedUnset == pc = "paused" => ~mac_set

StartupInv == TypeOK /\ PausedUnset /\ AddressesAreTheRadios /\ RootHasItsAddress

(***************************************************************************)
(* Taking an answer off the line leaves a line of answers of the radio,    *)
(* and the answer taken is the radio's.                                    *)
(***************************************************************************)
LEMMA TakeAnswer ==
  ASSUME answers \in Seq({RadioMac}), answers # << >>
  PROVE  /\ Head(answers) = RadioMac
         /\ Tail(answers) \in Seq({RadioMac})
  OBVIOUS

(***************************************************************************)
(* The addresses a bridge starts with, and the empty DAG and line.         *)
(***************************************************************************)
LEMMA FreshTypes ==
  /\ {Address(LinkLocal, HostMac)} \in SUBSET [prefix : {LinkLocal, Given}, iid : Mac]
  /\ {} \in SUBSET [prefix : {Given}, iid : Mac]
  /\ << >> \in Seq({RadioMac})
<1>1. {Address(LinkLocal, HostMac)} \in SUBSET [prefix : {LinkLocal, Given}, iid : Mac]
  BY DEF Address, Mac
<1>2. {} \in SUBSET [prefix : {Given}, iid : Mac]
  OBVIOUS
<1>3. << >> \in Seq({RadioMac})
  OBVIOUS
<1> QED BY <1>1, <1>2, <1>3

(***************************************************************************)
(* A start of the program establishes the invariant of the start-up.       *)
(***************************************************************************)
LEMMA StartupInit == Init => StartupInv
<1> SUFFICES ASSUME Init PROVE StartupInv
  OBVIOUS
<1>1. TypeOK
  <2>1. /\ argv \in Arguments /\ slip_config \in {Defaults, HandleArguments(argv)}
        /\ mac_set \in BOOLEAN /\ ~mac_set
        /\ pc \in {"paused", "asking", "running", "exited", "failed"} /\ pc = "paused"
        /\ lladdr \in Mac
    BY DEF Init, Mac
  <2>2. /\ addr_list \in SUBSET [prefix : {LinkLocal, Given}, iid : Mac]
        /\ dag \in SUBSET [prefix : {Given}, iid : Mac]
        /\ answers \in Seq({RadioMac})
    BY FreshTypes DEF Init
  <2>3. asked \in 0..MaxLine /\ lost \in 0..MaxLost /\ restarts \in 0..MaxRestarts
    BY StartupAssumption DEF Init
  <2> QED BY <2>1, <2>2, <2>3 DEF TypeOK
<1>2. PausedUnset /\ AddressesAreTheRadios /\ RootHasItsAddress
  BY DEF Init, PausedUnset, AddressesAreTheRadios, RootHasItsAddress
<1> QED BY <1>1, <1>2 DEF StartupInv

(***************************************************************************)
(* Every step keeps the invariant.  GoOn needs mac_set for lladdr to be    *)
(* the radio's; SetMac needs what is on the line to be the radio's.        *)
(***************************************************************************)
LEMMA StartupNext == StartupInv /\ [Next]_vars => StartupInv'
<1> SUFFICES ASSUME StartupInv, [Next]_vars PROVE StartupInv'
  OBVIOUS
<1> USE StartupAssumption DEF StartupInv, TypeOK, PausedUnset, AddressesAreTheRadios, RootHasItsAddress,
                              config, bridge, line
<1>1. CASE Start
  <2>1. pc' \in {"asking", "failed"} /\ asked' \in 0..MaxLine
    BY <1>1 DEF Start, request_mac
  <2>2. ~mac_set /\ ~mac_set'
    BY <1>1 DEF Start
  <2> QED BY <1>1, <2>1, <2>2 DEF Start
<1>2. CASE Refuse
  BY <1>2 DEF Refuse
<1>3. CASE AskAgain
  BY <1>3 DEF AskAgain, request_mac
<1>4. CASE GoOn
  <2>1. mac_set /\ lladdr = RadioMac
    BY <1>4 DEF GoOn
  <2>2. CASE slip_config.ipaddr \in IpAddresses
    BY <1>4, <2>1, <2>2 DEF GoOn, set_prefix_64, Address, Mac, Given, LinkLocal
  <2>3. CASE slip_config.ipaddr \notin IpAddresses
    BY <1>4, <2>1, <2>3 DEF GoOn
  <2> QED BY <2>2, <2>3
<1>5. CASE SetMac
  <2>1. lladdr' = RadioMac /\ answers' \in Seq({RadioMac})
    BY <1>5, TakeAnswer DEF SetMac
  <2>2. CASE slip_config.border_router
    BY <1>5, <2>1, <2>2 DEF SetMac, InitStack, Address, Mac, Given, LinkLocal
  <2>3. CASE ~slip_config.border_router
    BY <1>5, <2>1, <2>3 DEF SetMac, Mac
  <2> QED BY <2>2, <2>3
<1>6. CASE Answer
  <2>1. asked' \in 0..MaxLine /\ answers' \in Seq({RadioMac})
    BY <1>6 DEF Answer
  <2> QED BY <1>6, <2>1 DEF Answer
<1>7. CASE Lose
  <2>1. asked' \in 0..MaxLine /\ answers' \in Seq({RadioMac})
    BY <1>7, TakeAnswer DEF Lose
  <2> QED BY <1>7, <2>1 DEF Lose
<1>8. CASE Restart
  <2>1. asked' \in 0..MaxLine
    BY <1>8 DEF Restart
  <2>2. answers' \in Seq({RadioMac})
    BY <1>8, FreshTypes DEF Restart
  <2>3. TypeOK'
    <3>1. /\ mac_set' \in BOOLEAN /\ ~mac_set'
          /\ pc' \in {"paused", "asking", "running", "exited", "failed"} /\ pc' = "paused"
          /\ argv' \in Arguments /\ slip_config' \in {Defaults, HandleArguments(argv')}
          /\ lladdr' \in Mac
      BY <1>8 DEF Restart, Mac
    <3>2. /\ addr_list' \in SUBSET [prefix : {LinkLocal, Given}, iid : Mac]
          /\ dag' \in SUBSET [prefix : {Given}, iid : Mac]
      BY <1>8, FreshTypes DEF Restart
    <3>3. restarts' \in 0..MaxRestarts
      BY <1>8 DEF Restart
    <3> QED BY <1>8, <2>1, <2>2, <3>1, <3>2, <3>3 DEF Restart
  <2>4. (PausedUnset /\ AddressesAreTheRadios /\ RootHasItsAddress)'
    BY <1>8 DEF Restart
  <2> QED BY <2>3, <2>4
<1>9. CASE UNCHANGED vars
  BY <1>9 DEF vars
<1> QED BY <1>1, <1>2, <1>3, <1>4, <1>5, <1>6, <1>7, <1>8, <1>9 DEF Next

(***************************************************************************)
(* Start-up keeps its types, and the process passes its loop only once an  *)
(* answer has set mac_set.                                                 *)
(***************************************************************************)
THEOREM TypeCorrect == Spec => []TypeOK
<1>1. StartupInv => TypeOK
  BY DEF StartupInv
<1> QED BY <1>1, StartupInit, StartupNext, PTL DEF Spec

(***************************************************************************)
(* Once mac_set, every address of a border router is made of the radio's   *)
(* MAC address.                                                            *)
(***************************************************************************)
THEOREM RadioAddresses == Spec => []AddressesAreTheRadios
<1>1. StartupInv => AddressesAreTheRadios
  BY DEF StartupInv
<1> QED BY <1>1, StartupInit, StartupNext, PTL DEF Spec

(***************************************************************************)
(* The root of the DAG is always an address that the border router has.    *)
(***************************************************************************)
THEOREM RootReachable == Spec => []RootHasItsAddress
<1>1. StartupInv => RootHasItsAddress
  BY DEF StartupInv
<1> QED BY <1>1, StartupInit, StartupNext, PTL DEF Spec

------------------------------------------------------------------------------
(***************************************************************************)
(* The tun device.  The invariant relates what the bridge sees of the time *)
(* to the time that has passed: while a delay runs and nobody has set the  *)
(* clock, the parts that the clock shows, Parts * elapsed + part, are      *)
(* those since the last packet and the ones of its millisecond that were   *)
(* over when it was read.                                                  *)
(***************************************************************************)
Base == slip_config.basedelay

\* What the clock shows of the time since the last packet was read.
Seen == Parts * elapsed + part

ClockTells ==
  delaymsec # 0 /\ ~clock_set =>
    \/ since = LongAgo
    \/ elapsed >= 0 /\ since <= Seen /\ Seen < since + Parts

SpacingOK ==
  /\ argv \in Arguments /\ slip_config \in {Defaults, HandleArguments(argv)}
  /\ part \in 0..(Parts - 1) /\ since \in 0..LongAgo /\ elapsed \in Int
  /\ clock_set \in BOOLEAN
  /\ pc = "paused" => delaymsec = 0 /\ since = LongAgo
  /\ delaymsec \in {0, Base}
  /\ delaymsec = 0 => clock_set \/ since >= Parts * Base
  /\ ClockTells

(***************************************************************************)
(* The base delay is a number of milliseconds below DelayRange.            *)
(***************************************************************************)
LEMMA BaseInRange ==
  ASSUME argv \in Arguments, slip_config \in {Defaults, HandleArguments(argv)}
  PROVE  /\ Base \in Nat /\ Base < DelayRange
         /\ Parts * Base \in Nat /\ Parts * Base <= LongAgo
<1>1. Base \in 0..(DelayRange - 1)
  BY ThrottleAssumption, SlipConfigAssumption DEF Base, Defaults, HandleArguments
<1>2. /\ Base \in Nat /\ Base < DelayRange
  BY <1>1, SlipConfigAssumption
<1>3. \A p \in Nat \ {0}, a, b \in Nat : a < b => p * a \in Nat /\ p * a <= p * b
  OBVIOUS
<1> QED BY <1>2, <1>3, ThrottleAssumption, SlipConfigAssumption DEF LongAgo

(***************************************************************************)
(* Multiplying by Parts: what the clock shows grows by Parts with every    *)
(* millisecond, and in the same order.                                     *)
(***************************************************************************)
LEMMA PartsTimes ==
  /\ \A a \in Int : Parts * a \in Int /\ Parts * (a + 1) = Parts * a + Parts
  /\ \A a, b \in Int : a <= b => Parts * a <= Parts * b
  /\ \A a, b \in Int : Parts * a < Parts * b => a < b
<1>1. Parts \in Nat \ {0}
  BY ThrottleAssumption
<1>2. \A p \in Nat \ {0}, a \in Int : p * a \in Int /\ p * (a + 1) = p * a + p
  OBVIOUS
<1>3. \A p \in Nat \ {0}, a, b \in Int : a <= b => p * a <= p * b
  OBVIOUS
<1>4. \A p \in Nat \ {0}, a, b \in Int : p * a < p * b => a < b
  OBVIOUS
<1> QED BY <1>1, <1>2, <1>3, <1>4

(***************************************************************************)
(* The next part of a millisecond, which is the first of the next one      *)
(* after the last.                                                         *)
(***************************************************************************)
LEMMA NextPart ==
  ASSUME NEW p \in 0..(Parts - 1)
  PROVE  (p + 1) % Parts = IF p + 1 = Parts THEN 0 ELSE p + 1
<1>1. \A m \in Nat \ {0}, x \in Nat : x < m => x % m = x
  OBVIOUS
<1>2. \A m \in Nat \ {0} : m % m = 0
  OBVIOUS
<1> QED BY <1>1, <1>2, ThrottleAssumption

(***************************************************************************)
(* As long as a number of milliseconds is no greater than DelayRange, an   *)
(* int holds it; and what it holds is always a number.                     *)
(***************************************************************************)
LEMMA AsIntHolds ==
  /\ \A x \in Int : AsInt(x) \in Int
  /\ \A x \in 0..DelayRange : AsInt(x) = x
<1> DEFINE half == IntRange \div 2
<1>1. \A m \in Nat \ {0}, x \in Nat : x < m => x % m = x
  OBVIOUS
<1>2. \A m \in Nat \ {0}, x \in Int : x % m \in Int
  OBVIOUS
<1>3. IntRange \in Nat \ {0} /\ half \in Nat /\ DelayRange + half < IntRange
  BY ThrottleAssumption, SlipConfigAssumption
<1> HIDE DEF half
<1>4. \A x \in Int : AsInt(x) = ((x + half) % IntRange) - half
  BY DEF AsInt, half
<1>5. ASSUME NEW x \in Int PROVE AsInt(x) \in Int
  BY <1>2, <1>3, <1>4
<1>6. ASSUME NEW x \in 0..DelayRange PROVE AsInt(x) = x
  <2>1. x \in Int /\ x + half \in Nat /\ x + half < IntRange
    BY <1>3, SlipConfigAssumption
  <2>2. (x + half) % IntRange = x + half
    BY <2>1, <1>1, <1>3
  <2> QED BY <2>1, <2>2, <1>3, <1>4
<1> QED BY <1>5, <1>6

(***************************************************************************)
(* When handle_fd finds the delay over, so many parts of a millisecond are *)
(* over: more than Base milliseconds were seen, at most one of which had   *)
(* begun when the last packet was read.                                    *)
(***************************************************************************)
LEMMA OverMeansSpaced ==
  ASSUME SpacingOK, DelayIsOver
  PROVE  clock_set \/ since >= Parts * Base
<1>1. CASE delaymsec = 0
  BY <1>1 DEF SpacingOK
<1>2. CASE delaymsec # 0 /\ ~clock_set /\ since = LongAgo
  BY <1>2, BaseInRange, ThrottleAssumption DEF SpacingOK
<1>3. CASE delaymsec # 0 /\ ~clock_set /\ since # LongAgo
  <2>1. /\ elapsed \in Int /\ elapsed >= 0 /\ Seen < since + Parts
        /\ delaymsec = Base
    BY <1>3 DEF SpacingOK, ClockTells
  <2>2. elapsed >= Base + 1 /\ Base + 1 \in Int /\ Base \in Int
    BY <2>1, <1>3, BaseInRange DEF SpacingOK, DelayIsOver
  <2>3. /\ Parts * (Base + 1) = Parts * Base + Parts /\ Parts * (Base + 1) <= Parts * elapsed
        /\ Parts * Base \in Int /\ Parts * elapsed \in Int
    BY <2>1, <2>2, PartsTimes
  <2>4. since \in Int /\ part \in Int /\ part >= 0 /\ Parts \in Int
    BY ThrottleAssumption, SlipConfigAssumption DEF SpacingOK, LongAgo
  <2> QED BY <2>1, <2>3, <2>4 DEF Seen
<1> QED BY <1>1, <1>2, <1>3 DEF SpacingOK

(***************************************************************************)
(* At first no packet was read, and the last one counts as long ago.       *)
(***************************************************************************)
LEMMA SpacingInit == BridgeInit => SpacingOK
<1> SUFFICES ASSUME BridgeInit PROVE SpacingOK
  OBVIOUS
<1>1. LongAgo \in Nat /\ LongAgo >= Parts * Base
  BY BaseInRange, ThrottleAssumption, SlipConfigAssumption DEF BridgeInit, Init, LongAgo
<1>2. /\ argv \in Arguments /\ slip_config \in {Defaults, HandleArguments(argv)}
      /\ part = 0 /\ elapsed = 0 /\ since = LongAgo /\ delaymsec = 0
  BY DEF BridgeInit, Init, TunInit
<1>3. 0 \in 0..(Parts - 1)
  BY ThrottleAssumption
<1>4. clock_set \in BOOLEAN
  BY DEF BridgeInit, TunInit
<1> QED BY <1>1, <1>2, <1>3, <1>4 DEF SpacingOK, ClockTells

(***************************************************************************)
(* Time passes: what the clock shows and the time since the last packet    *)
(* grow together, as long as the latter is counted.                        *)
(***************************************************************************)
LEMMA SpacingTick ==
  ASSUME SpacingOK, Tick, UNCHANGED vars
  PROVE  SpacingOK'
<1> USE DEF SpacingOK
<1>1. UNCHANGED <<argv, slip_config, pc, delaymsec, clock_set, Base>>
  BY DEF Tick, vars, config, bridge, Base
<1>2. /\ Parts \in Nat \ {0} /\ LongAgo \in Nat /\ DelayRange \in Nat \ {0}
      /\ LongAgo = Parts * DelayRange
  BY ThrottleAssumption, SlipConfigAssumption DEF LongAgo
<1>3. part' = IF part + 1 = Parts THEN 0 ELSE part + 1
  BY NextPart DEF Tick
<1>4. part' \in 0..(Parts - 1)
  BY <1>2, <1>3
<1>5. since' \in 0..LongAgo /\ since' >= since /\ (since' = LongAgo \/ since' = since + 1)
  BY <1>2 DEF Tick
<1>6. elapsed' \in Int
  BY AsIntHolds DEF Tick
<1>7. Base \in Nat /\ Parts * Base \in Nat
  BY BaseInRange
<1>8. ClockTells'
  <2> SUFFICES ASSUME delaymsec # 0, ~clock_set, since' # LongAgo
               PROVE  elapsed' >= 0 /\ since' <= Seen' /\ Seen' < since' + Parts
    BY <1>1 DEF ClockTells
  <2>1. since' = since + 1 /\ since # LongAgo /\ since + 1 < LongAgo
    BY <1>2, <1>5
  <2>2. elapsed >= 0 /\ since <= Seen /\ Seen < since + Parts
    BY <2>1 DEF ClockTells
  <2>3. Parts * elapsed \in Int /\ Parts * (elapsed + 1) = Parts * elapsed + Parts
    BY PartsTimes
  <2>4. CASE part + 1 # Parts
    <3>1. part' = part + 1 /\ elapsed' = elapsed
      BY <2>4, <1>2, <1>3 DEF Tick
    <3> QED BY <3>1, <2>1, <2>2, <2>3, <1>2 DEF Seen
  <2>5. CASE part + 1 = Parts
    <3>1. part' = 0 /\ elapsed' = AsInt(elapsed + 1)
      BY <2>5, <1>3 DEF Tick
    <3>2. Parts * elapsed < Parts * DelayRange
      BY <2>1, <2>2, <2>3, <2>5, <1>2 DEF Seen
    <3>3. elapsed < DelayRange
      BY <3>2, <1>2, PartsTimes
    <3>4. elapsed' = elapsed + 1
      BY <3>1, <3>3, <2>2, <1>2, AsIntHolds
    <3> QED BY <3>1, <3>4, <2>1, <2>2, <2>3, <2>5, <1>2 DEF Seen
  <2> QED BY <2>4, <2>5
<1>9. pc = "paused" => since' = LongAgo
  BY <1>2, <1>5
<1>10. delaymsec = 0 => clock_set \/ since' >= Parts * Base
  BY <1>5, <1>7, <1>2
<1> QED BY <1>1, <1>4, <1>5, <1>6, <1>8, <1>9, <1>10

(***************************************************************************)
(* The steps of the tun device keep the spacing's invariant.               *)
(***************************************************************************)
LEMMA SpacingTun ==
  ASSUME SpacingOK, TunNext, UNCHANGED vars
  PROVE  SpacingOK'
<1>1. UNCHANGED <<argv, slip_config, pc, Base>>
  BY DEF vars, config, bridge, Base
<1>2. /\ Parts \in Nat \ {0} /\ LongAgo \in Nat /\ Base \in Nat /\ Parts * Base \in Nat
  BY BaseInRange, ThrottleAssumption, SlipConfigAssumption DEF LongAgo, SpacingOK
<1>3. CASE HostSends
  BY <1>1, <1>3 DEF HostSends, SpacingOK, ClockTells, Seen, LongAgo
<1>4. CASE Tick
  BY <1>4, SpacingTick
<1>5. CASE SetClock
  <2>1. elapsed' \in Int /\ part' \in 0..(Parts - 1)
    BY <1>5, AsIntHolds, ThrottleAssumption DEF SetClock
  <2> QED BY <1>1, <1>5, <2>1 DEF SetClock, TunOpen, SpacingOK, ClockTells, LongAgo
<1>6. CASE EndDelay
  <2>1. clock_set \/ since >= Parts * Base
    BY <1>6, OverMeansSpaced DEF EndDelay
  <2> QED BY <1>1, <1>6, <2>1 DEF EndDelay, TunOpen, SpacingOK, ClockTells, LongAgo
<1>7. CASE ReadTun
  <2>1. since' = 0 /\ elapsed' = 0 /\ ~clock_set' /\ part' = part /\ delaymsec' = Base
        /\ pc # "paused"
    BY <1>7 DEF ReadTun, TunOpen, Base
  <2>2. Parts * 0 = 0 /\ 0 <= LongAgo
    BY <1>2
  <2>3. ClockTells'
    BY <2>1, <2>2, <1>2 DEF ClockTells, Seen, SpacingOK
  <2>4. delaymsec' = 0 => since' >= Parts * Base'
    BY <2>1, <2>2, <1>1, <1>2
  <2>5. since' \in 0..LongAgo /\ elapsed' \in Int
    BY <2>1, <1>2
  <2>6. clock_set' \in BOOLEAN
    BY <1>7 DEF ReadTun
  <2> QED BY <1>1, <2>1, <2>3, <2>4, <2>5, <2>6 DEF SpacingOK
<1> QED BY <1>3, <1>4, <1>5, <1>6, <1>7 DEF TunNext

(***************************************************************************)
(* No other step of the program touches the tun device while it is open:   *)
(* the arguments are read before, and a restart begins afresh.             *)
(***************************************************************************)
LEMMA SpacingNext == SpacingOK /\ [BridgeNext]_bridgeVars => SpacingOK'
<1> SUFFICES ASSUME SpacingOK, [BridgeNext]_bridgeVars PROVE SpacingOK'
  OBVIOUS
<1>1. CASE StartupStep
  <2>1. UNCHANGED <<delaymsec, elapsed, part, since, clock_set>>
    BY <1>1 DEF StartupStep, tun
  <2>2. CASE Start
    <3>1. /\ argv' = argv /\ slip_config' = HandleArguments(argv)
          /\ pc = "paused" /\ pc' # "paused"
      BY <2>2 DEF Start
    <3>2. delaymsec = 0 /\ since = LongAgo
      BY <3>1 DEF SpacingOK
    <3>3. slip_config' \in {Defaults, HandleArguments(argv)}' /\ argv' \in Arguments
      BY <3>1 DEF SpacingOK, HandleArguments
    <3>4. Parts * Base' <= LongAgo /\ Parts * Base' \in Nat
      <4>1. slip_config'.basedelay \in 0..(DelayRange - 1)
        BY <3>1, ThrottleAssumption DEF HandleArguments, SpacingOK
      <4>2. \A p \in Nat \ {0}, a, b \in Nat : a < b => p * a \in Nat /\ p * a <= p * b
        OBVIOUS
      <4> QED BY <4>1, <4>2, ThrottleAssumption, SlipConfigAssumption DEF Base, LongAgo
    <3>5. LongAgo \in Nat
      BY ThrottleAssumption, SlipConfigAssumption DEF LongAgo
    <3> QED BY <2>1, <3>1, <3>2, <3>3, <3>4, <3>5 DEF SpacingOK, ClockTells, LongAgo
  <2>3. CASE Refuse \/ AskAgain \/ GoOn \/ SetMac \/ Answer \/ Lose
    <3>1. UNCHANGED <<argv, slip_config>> /\ (pc' = "paused" => pc = "paused")
      BY <2>3 DEF Refuse, AskAgain, GoOn, SetMac, Answer, Lose, config, bridge
    <3>2. Base' = Base
      BY <3>1 DEF Base
    <3> QED BY <2>1, <3>1, <3>2 DEF SpacingOK, ClockTells, Seen, LongAgo
  <2> QED BY <1>1, <2>2, <2>3 DEF StartupStep
<1>2. CASE TunStep
  BY <1>2, SpacingTun DEF TunStep
<1>3. CASE SensorStep \/ UNCHANGED bridgeVars
  <2>1. UNCHANGED <<argv, slip_config, pc, delaymsec, elapsed, part, since, clock_set>>
    BY <1>3 DEF SensorStep, bridgeVars, vars, config, bridge, tun
  <2> QED BY <2>1 DEF SpacingOK, ClockTells, Seen, LongAgo, Base
<1>4. CASE BridgeRestart
  <2>1. /\ argv' = argv /\ slip_config' = Defaults /\ part' = part
        /\ delaymsec' = 0 /\ elapsed' = 0 /\ since' = LongAgo
    BY <1>4 DEF BridgeRestart, Restart, TunRestart
  <2>2. Parts * Base' <= LongAgo /\ LongAgo \in Nat
    <3>1. Base' = 0 /\ Parts * 0 = 0
      BY <2>1, ThrottleAssumption DEF Base, Defaults
    <3> QED BY <3>1, ThrottleAssumption, SlipConfigAssumption DEF LongAgo
  <2>3. LongAgo >= Parts * Base'
    BY <2>2, <2>1, ThrottleAssumption DEF Base, Defaults, LongAgo
  <2>4. argv' \in Arguments /\ slip_config' \in {Defaults, HandleArguments(argv)}'
    BY <2>1 DEF SpacingOK
  <2>5. clock_set' \in BOOLEAN
    BY <1>4 DEF BridgeRestart, TunRestart
  <2>6. part' \in 0..(Parts - 1) /\ since' \in 0..LongAgo /\ elapsed' \in Int
    BY <2>1, <2>2 DEF SpacingOK
  <2> QED BY <2>1, <2>3, <2>4, <2>5, <2>6 DEF SpacingOK, ClockTells
<1> QED BY <1>1, <1>2, <1>3, <1>4 DEF BridgeNext

(***************************************************************************)
(* Two packets of the host are never read within less than the base delay, *)
(* unless the clock was set between them.                                  *)
(***************************************************************************)
THEOREM HostSpaced == BridgeSpec => SpacedApart
<1>1. SpacingOK /\ [BridgeNext]_bridgeVars
        => [TunStep /\ ReadTun => clock_set \/ since >= Parts * slip_config.basedelay]_bridgeVars
  BY OverMeansSpaced DEF ReadTun, Base
<1> QED BY <1>1, SpacingInit, SpacingNext, PTL DEF BridgeSpec, SpacedApart

(***************************************************************************)
(* What is proved of the start-up holds of the program: the tun device and *)
(* the sensors take no step in it.                                         *)
(***************************************************************************)
THEOREM BridgeIsStartup == BridgeSpec => Spec
<1>1. BridgeInit => Init
  BY DEF BridgeInit
<1>2. [BridgeNext]_bridgeVars => [Next]_vars
  BY DEF BridgeNext, StartupStep, TunStep, SensorStep, BridgeRestart, Next, bridgeVars
<1> QED BY <1>1, <1>2, PTL DEF BridgeSpec, Spec

(***************************************************************************)
(* So the program keeps the types and the invariants of the start-up,      *)
(* whatever packets of the host and readings come in between.              *)
(***************************************************************************)
THEOREM ProgramKeepsStartup ==
  BridgeSpec => [](TypeOK /\ AddressesAreTheRadios /\ RootHasItsAddress)
  BY BridgeIsStartup, TypeCorrect, RadioAddresses, RootReachable, PTL

------------------------------------------------------------------------------
(***************************************************************************)
(* The readings.  The radio writes them with these characters, without the *)
(* semicolon that separates them and the NUL that ends them.               *)
(***************************************************************************)
Plain == {"0", "1", "2", "3", "4", "5", "6", "7", "8", "9", "-", ".", "t", "h"}

Measurable == -3970..14823   \* temperatures and humidities in hundredths
Hundreds   == 0..999
Percents   == 0..99
Unsigned   == -99..-1        \* the numbers that lose their sign

Writes(text, m) == text \in Seq(Plain) /\ Len(text) <= m

(***************************************************************************)
(* A digit is one plain character.                                         *)
(***************************************************************************)
LEMMA DigitPlain ==
  ASSUME NEW n \in 0..9
  PROVE  Digit(n) \in Seq(Plain) /\ Len(Digit(n)) = 1
<1>. DEFINE d == <<"0", "1", "2", "3", "4", "5", "6", "7", "8", "9">>[n + 1]
<1>1. d \in Plain
  BY DEF Plain
<1>. HIDE DEF d
<1>2. <<d>> \in Seq(Plain) /\ Len(<<d>>) = 1
  BY <1>1
<1>. QED  BY <1>2 DEF Digit, d

(***************************************************************************)
(* Plain texts joined are plain, and as long as both.                      *)
(***************************************************************************)
LEMMA Concat ==
  ASSUME NEW u \in Seq(Plain), NEW v \in Seq(Plain)
  PROVE  u \o v \in Seq(Plain) /\ Len(u \o v) = Len(u) + Len(v)
  BY ConcatProperties

(***************************************************************************)
(* %02d writes two digits.                                                 *)
(***************************************************************************)
LEMMA TwoDigitsPlain ==
  ASSUME NEW n \in 0..99
  PROVE  TwoDigits(n) \in Seq(Plain) /\ Len(TwoDigits(n)) = 2
<1>. DEFINE q == n \div 10  r == n % 10
<1>1. q \in 0..9 /\ r \in 0..9
  OBVIOUS
<1>2. TwoDigits(n) = Digit(q) \o Digit(r)
  BY DEF TwoDigits
<1>. HIDE DEF q, r
<1>3. /\ Digit(q) \in Seq(Plain) /\ Len(Digit(q)) = 1
      /\ Digit(r) \in Seq(Plain) /\ Len(Digit(r)) = 1
  BY <1>1, DigitPlain
<1>4. Digit(q) \o Digit(r) \in Seq(Plain) /\ Len(Digit(q) \o Digit(r)) = 1 + 1
  BY <1>3, Concat
<1>. QED  BY <1>2, <1>4

(***************************************************************************)
(* A number below 1000 takes at most three digits.                         *)
(***************************************************************************)
LEMMA DecimalPlain ==
  ASSUME NEW n \in Hundreds
  PROVE  Decimal(n) \in Seq(Plain) /\ Len(Decimal(n)) <= 3
<1>0. n \in 0..999
  BY DEF Hundreds
<1>1. CASE n < 10
  <2>1. Decimal(n) = Digit(n)
    BY <1>0, <1>1 DEF Decimal
  <2>2. n \in 0..9
    BY <1>0, <1>1
  <2>3. Digit(n) \in Seq(Plain) /\ Len(Digit(n)) = 1
    BY <2>2, DigitPlain
  <2>. QED  BY <2>1, <2>3
<1>2. CASE n >= 10 /\ n < 100
  <2>1. Decimal(n) = TwoDigits(n)
    BY <1>0, <1>2 DEF Decimal
  <2>2. n \in 0..99
    BY <1>0, <1>2
  <2>3. TwoDigits(n) \in Seq(Plain) /\ Len(TwoDigits(n)) = 2
    BY <2>2, TwoDigitsPlain
  <2>. QED  BY <2>1, <2>3
<1>3. CASE n >= 100
  <2>. DEFINE q == n \div 100  r == n % 100
  <2>1. Decimal(n) = Digit(q) \o TwoDigits(r)
    BY <1>0, <1>3 DEF Decimal
  <2>2. q \in 0..9 /\ r \in 0..99
    BY <1>0
  <2>. HIDE DEF q, r
  <2>3. /\ Digit(q) \in Seq(Plain) /\ Len(Digit(q)) = 1
        /\ TwoDigits(r) \in Seq(Plain) /\ Len(TwoDigits(r)) = 2
    BY <2>2, DigitPlain, TwoDigitsPlain
  <2>4. Digit(q) \o TwoDigits(r) \in Seq(Plain) /\ Len(Digit(q) \o TwoDigits(r)) = 1 + 2
    BY <2>3, Concat
  <2>. QED  BY <2>1, <2>4
<1>4. n < 10 \/ (n >= 10 /\ n < 100) \/ n >= 100
  BY <1>0
<1>. QED  BY <1>1, <1>2, <1>3, <1>4, Zenon

(***************************************************************************)
(* A sign, at most three digits, the point and two digits.                 *)
(***************************************************************************)
LEMMA NumberPlain ==
  ASSUME NEW sign, sign \in Seq(Plain), Len(sign) <= 1, NEW q \in Hundreds, NEW r \in Percents
  PROVE  Writes(sign \o Decimal(q) \o <<".">> \o TwoDigits(r), 7)
<1>. DEFINE d == Decimal(q)  p == TwoDigits(r)  point == <<".">>
<1>1. d \in Seq(Plain) /\ Len(d) <= 3
  BY DecimalPlain, Zenon
<1>2. p \in Seq(Plain) /\ Len(p) = 2
  BY TwoDigitsPlain DEF Percents
<1>3. point \in Seq(Plain) /\ Len(point) = 1
  BY DEF Plain
<1>. HIDE DEF d, p, point
<1>4. sign \o d \in Seq(Plain) /\ Len(sign \o d) = Len(sign) + Len(d)
  BY <1>1, Concat
<1>. DEFINE u == sign \o d
<1>. HIDE DEF u
<1>5. u \in Seq(Plain) /\ Len(u) = Len(sign) + Len(d)
  BY <1>4 DEF u
<1>6. u \o point \in Seq(Plain) /\ Len(u \o point) = Len(u) + 1
  BY <1>3, <1>5, Concat
<1>. DEFINE v == u \o point
<1>. HIDE DEF v
<1>7. v \in Seq(Plain) /\ Len(v) = Len(u) + 1
  BY <1>6 DEF v
<1>8. v \o p \in Seq(Plain) /\ Len(v \o p) = Len(v) + 2
  BY <1>2, <1>7, Concat
<1>9. Len(sign) \in Nat /\ Len(d) \in Nat /\ Len(u) \in Nat /\ Len(v) \in Nat
  BY <1>1, <1>5, <1>7, LenProperties
<1>10. Len(v \o p) <= 7
  BY <1>1, <1>5, <1>7, <1>8, <1>9
<1>. QED  BY <1>8, <1>10 DEF Writes, d, p, point, u, v

(***************************************************************************)
(* C's division leaves the digits that a reader expects.                   *)
(***************************************************************************)
LEMMA Rounding ==
  ASSUME NEW n \in Measurable
  PROVE  /\ Abs(Quotient(n)) = Abs(n) \div 100 /\ Abs(Quotient(n)) \in Hundreds
         /\ Abs(Remainder(n)) = Abs(n) % 100 /\ Abs(Remainder(n)) \in Percents
         /\ n \in Unsigned \/ (Quotient(n) < 0 <=> n < 0)
<1>. DEFINE a == Abs(n)  q == a \div 100  r == a % 100
<1>0. n \in Int /\ -14823 <= n /\ n <= 14823
  BY DEF Measurable
<1>a. a = IF n < 0 THEN -n ELSE n
  BY Zenon DEF Abs
<1>. HIDE DEF a
<1>. DEFINE Size == a \in 0..14823 /\ (n < 0 => n = -a) /\ (n >= 0 => n = a)
<1>1. Size
  <2>1. CASE n < 0
    <3>1. a = -n
      BY <1>a, <2>1
    <3>. QED  BY <1>0, <2>1, <3>1
  <2>2. CASE n >= 0
    <3>1. a = n
      BY <1>0, <1>a, <2>2
    <3>. QED  BY <1>0, <2>2, <3>1
  <2>3. n < 0 \/ n >= 0
    BY <1>0
  <2>. HIDE DEF Size
  <2>. QED  BY <2>1, <2>2, <2>3, Zenon
<1>2. a = 100 * q + r /\ q \in 0..999 /\ r \in 0..99
  BY <1>1
<1>3. Quotient(n) = IF n < 0 THEN -q ELSE q
  <2>1. CASE n < 0
    BY <1>0, <2>1 DEF Quotient, a
  <2>2. CASE n >= 0
    <3>1. n = a
      BY <1>1, <2>2
    <3>. QED  BY <1>0, <2>2, <3>1 DEF Quotient
  <2>. QED  BY <1>0, <2>1, <2>2
<1>. HIDE DEF q, r
<1>4. Remainder(n) = IF n < 0 THEN -r ELSE r
  <2>1. Remainder(n) = n - 100 * Quotient(n)
    BY DEF Remainder
  <2>2. CASE n < 0
    <3>a. n = -a
      BY <1>1, <2>2
    <3>b. Quotient(n) = -q
      BY <1>3, <2>2
    <3>1. n = -(100 * q + r) /\ Quotient(n) = -q
      BY <1>2, <3>a, <3>b
    <3>2. Remainder(n) = -(100 * q + r) - 100 * (-q)
      BY <2>1, <3>1
    <3>. QED  BY <1>2, <2>2, <3>2
  <2>3. CASE n >= 0
    <3>a. n = a
      BY <1>1, <2>3
    <3>b. Quotient(n) = q
      BY <1>0, <1>3, <2>3
    <3>1. n = 100 * q + r /\ Quotient(n) = q
      BY <1>2, <3>a, <3>b
    <3>2. Remainder(n) = (100 * q + r) - 100 * q
      BY <2>1, <3>1
    <3>. QED  BY <1>0, <1>2, <2>3, <3>2
  <2>. QED  BY <1>0, <2>2, <2>3
<1>5. Abs(Quotient(n)) = q /\ Abs(Remainder(n)) = r
  BY <1>2, <1>3, <1>4 DEF Abs
<1>6. n \in Unsigned \/ (Quotient(n) < 0 <=> n < 0)
  <2>1. CASE n >= 0
    BY <1>0, <1>2, <1>3, <2>1
  <2>2. CASE n < 0 /\ q > 0
    BY <1>2, <1>3, <2>2
  <2>3. CASE n < 0 /\ q = 0
    <3>1. n = -r
      BY <1>1, <1>2, <2>3
    <3>. QED  BY <1>0, <1>2, <2>3, <3>1 DEF Unsigned
  <2>4. n >= 0 \/ (n < 0 /\ q > 0) \/ (n < 0 /\ q = 0)
    BY <1>0, <1>2
  <2>. QED  BY <2>1, <2>2, <2>3, <2>4, Zenon
<1>7. q \in Hundreds /\ r \in Percents
  BY <1>2 DEF Hundreds, Percents
<1>. QED  BY <1>5, <1>6, <1>7 DEF a, q, r

(***************************************************************************)
(* A reading is written with at most seven characters, and as it should be *)
(* read, but for the sign of a number between -1 and 0.                    *)
(***************************************************************************)
LEMMA ReadingPlain ==
  ASSUME NEW n \in Measurable
  PROVE  /\ Writes(write_percent_float(n), 7)
         /\ n \in Unsigned \/ write_percent_float(n) = Hundredths(n)
<1>. DEFINE whole == Abs(Quotient(n))
            frac  == Abs(Remainder(n))
            minus == IF n < 0 THEN <<"-">> ELSE << >>
            sign  == IF Quotient(n) < 0 THEN <<"-">> ELSE << >>
            bare  == n \in Unsigned
<1>1. /\ whole = Abs(n) \div 100 /\ whole \in Hundreds
      /\ frac = Abs(n) % 100 /\ frac \in Percents
      /\ bare \/ (Quotient(n) < 0 <=> n < 0)
  BY Rounding, Zenon
<1>2. bare \/ sign = minus
  BY <1>1, Zenon
<1>3. sign \in Seq(Plain) /\ Len(sign) <= 1
  <2>1. <<"-">> \in Seq(Plain) /\ Len(<<"-">>) = 1
    BY DEF Plain
  <2>2. << >> \in Seq(Plain) /\ Len(<< >>) = 0
    OBVIOUS
  <2>3. sign = <<"-">> \/ sign = << >>
    BY Zenon
  <2>. QED  BY <2>1, <2>2, <2>3
<1>4. write_percent_float(n) = sign \o Decimal(whole) \o <<".">> \o TwoDigits(frac)
  BY Zenon DEF write_percent_float
<1>5. Hundredths(n) = minus \o Decimal(whole) \o <<".">> \o TwoDigits(frac)
  BY <1>1, Zenon DEF Hundredths
<1>. HIDE DEF sign, whole, frac, minus, bare
<1>6. Writes(sign \o Decimal(whole) \o <<".">> \o TwoDigits(frac), 7)
  BY <1>1, <1>3, NumberPlain, Zenon
<1>. QED  BY <1>2, <1>4, <1>5, <1>6, Zenon DEF bare

(***************************************************************************)
(* The loop that cuts a report, by a function of how many characters were  *)
(* read: f has the places of the semicolons among the first n, behind 0.   *)
(***************************************************************************)
Cuts(f, data, n) ==
  f = [i \in 0..n |-> IF i = 0 THEN <<0>>
                      ELSE f[i - 1] \o (IF data[i] = ";" THEN <<i>> ELSE << >>)]

(***************************************************************************)
(* There is such a function for each n.                                    *)
(***************************************************************************)
LEMMA CutsExist ==
  ASSUME NEW data, NEW n \in Nat
  PROVE  \E f : Cuts(f, data, n)
<1>. DEFINE More(i) == IF data[i] = ";" THEN <<i>> ELSE << >>
            S == {j \in Nat : \E f : Cuts(f, data, j)}
<1>1. 0 \in S
  <2>. DEFINE f == [i \in 0..0 |-> <<0>>]
  <2>1. f = [i \in 0..0 |-> IF i = 0 THEN <<0>> ELSE f[i - 1] \o More(i)]
    OBVIOUS
  <2>. QED  BY <2>1 DEF Cuts
<1>2. ASSUME NEW j \in Nat, j \in S  PROVE j + 1 \in S
  <2>1. PICK f : Cuts(f, data, j)
    BY <1>2
  <2>. DEFINE last == f[j] \o More(j + 1)
              g == [i \in 0..j + 1 |-> IF i = j + 1 THEN last ELSE f[i]]
  <2>2. \A i \in 0..j : f[i] = IF i = 0 THEN <<0>> ELSE f[i - 1] \o More(i)
    BY <2>1 DEF Cuts
  <2>. HIDE DEF last, More
  <2>3. \A i \in 0..j : g[i] = f[i]
    OBVIOUS
  <2>4. g[j + 1] = last
    OBVIOUS
  <2>5. g = [i \in 0..j + 1 |-> g[i]]
    OBVIOUS
  <2>. HIDE DEF g
  <2>6. ASSUME NEW i \in 0..j + 1
        PROVE  g[i] = IF i = 0 THEN <<0>> ELSE g[i - 1] \o More(i)
    <3>1. CASE i = j + 1
      <4>1. i # 0 /\ i - 1 = j /\ j \in 0..j
        BY <3>1
      <4>2. g[i - 1] = f[j]
        BY <2>3, <4>1
      <4>. QED  BY <2>4, <3>1, <4>1, <4>2 DEF last
    <3>2. CASE i = 0 /\ i # j + 1
      BY <2>2, <2>3, <3>2
    <3>3. CASE i # 0 /\ i # j + 1
      <4>1. i \in 0..j /\ i - 1 \in 0..j
        BY <3>3
      <4>2. g[i] = f[i] /\ g[i - 1] = f[i - 1]
        BY <2>3, <4>1
      <4>. QED  BY <2>2, <3>3, <4>1, <4>2
    <3>. QED  BY <3>1, <3>2, <3>3
  <2>7. Cuts(g, data, j + 1)
    BY <2>5, <2>6 DEF Cuts, More
  <2>. QED  BY <2>7
<1>. HIDE DEF S
<1>3. n \in S
  BY <1>1, <1>2, Induction
<1>. QED  BY <1>3 DEF S

(***************************************************************************)
(* Two characters joined.                                                  *)
(***************************************************************************)
LEMMA JoinedPair ==
  ASSUME NEW x, NEW y
  PROVE  <<x>> \o <<y>> = <<x, y>>
<1>. DEFINE X == {x, y}  u == <<x>>  v == <<y>>  w == <<x, y>>
<1>1. /\ u \in Seq(X) /\ v \in Seq(X) /\ w \in Seq(X)
      /\ Len(u) = 1 /\ Len(v) = 1 /\ Len(w) = 2
      /\ u[1] = x /\ v[1] = y /\ w[1] = x /\ w[2] = y
  OBVIOUS
<1>. HIDE DEF X, u, v, w
<1>2. u \o v \in Seq(X) /\ Len(u \o v) = 2 /\ (u \o v)[1] = u[1] /\ (u \o v)[2] = v[1]
  BY <1>1, ConcatProperties
<1>3. u \o v = w
  BY <1>1, <1>2, SeqEqual
<1>. QED  BY <1>3 DEF u, v, w

(***************************************************************************)
(* What is found later goes behind what was found before.                  *)
(***************************************************************************)
StartsWith(places, c) ==
  places \in Seq(Nat) /\ Len(places) >= 2 /\ places[1] = 0 /\ places[2] = c

(***************************************************************************)
(* What begins with the cuts 0 and c still does when cuts are added.       *)
(***************************************************************************)
LEMMA StartsStill ==
  ASSUME NEW old, NEW more \in Seq(Nat), NEW c \in Nat, StartsWith(old, c)
  PROVE  StartsWith(old \o more, c)
<1>1. old \in Seq(Nat) /\ Len(old) >= 2 /\ old[1] = 0 /\ old[2] = c
  BY DEF StartsWith
<1>2. /\ old \o more \in Seq(Nat) /\ Len(old \o more) = Len(old) + Len(more)
      /\ \A i \in 1..Len(old) : (old \o more)[i] = old[i]
  BY <1>1, ConcatProperties
<1>3. Len(old) \in Nat /\ Len(more) \in Nat
  BY <1>1, LenProperties
<1>4. Len(old \o more) >= 2 /\ 1 \in 1..Len(old) /\ 2 \in 1..Len(old)
  BY <1>1, <1>2, <1>3
<1>. QED  BY <1>1, <1>2, <1>4 DEF StartsWith

(***************************************************************************)
(* The first semicolon is the first place found; the only one, if there is *)
(* no other.                                                               *)
(***************************************************************************)
Semicolon(data, i) == data[i] = ";"

(***************************************************************************)
(* The cuts of data whose first semicolon follows a characters; there are  *)
(* no more when the rest has no semicolon.                                 *)
(***************************************************************************)
LEMMA FirstCut ==
  ASSUME NEW data, NEW n \in Nat, NEW f, Cuts(f, data, n), NEW a \in Nat, a + 1 <= n,
         \A i \in 1..a : ~Semicolon(data, i), Semicolon(data, a + 1)
  PROVE  /\ StartsWith(f[n], a + 1)
         /\ (\A i \in (a + 2)..n : ~Semicolon(data, i)) => f[n] = <<0, a + 1>>
<1>. DEFINE Alone == \A i \in (a + 2)..n : ~Semicolon(data, i)
            More(i) == IF Semicolon(data, i) THEN <<i>> ELSE << >>
            Before(j) == j <= a => f[j] = <<0>>
            After(j) == j > a => StartsWith(f[j], a + 1) /\ (Alone => f[j] = <<0, a + 1>>)
            S == {j \in Nat : j <= n => Before(j) /\ After(j)}
<1>1. \A i \in 0..n : f[i] = IF i = 0 THEN <<0>> ELSE f[i - 1] \o More(i)
  BY DEF Cuts, Semicolon
<1>2. \A i \in Nat : /\ Semicolon(data, i) => More(i) = <<i>>
                     /\ ~Semicolon(data, i) => More(i) = << >>
  <2>1. ASSUME NEW i \in Nat, Semicolon(data, i)  PROVE More(i) = <<i>>
    BY <2>1
  <2>2. ASSUME NEW i \in Nat, ~Semicolon(data, i)  PROVE More(i) = << >>
    BY <2>2
  <2>. HIDE DEF More
  <2>. QED  BY <2>1, <2>2
<1>. HIDE DEF More
<1>3. 0 \in S
  <2>1. f[0] = <<0>>
    BY <1>1
  <2>. HIDE DEF Alone
  <2>. QED  BY <2>1
<1>4. ASSUME NEW j \in Nat, j \in S  PROVE j + 1 \in S
  <2>. SUFFICES ASSUME j + 1 <= n  PROVE Before(j + 1) /\ After(j + 1)
    OBVIOUS
  <2>1. Before(j) /\ After(j)
    <3>. HIDE DEF Before, After
    <3>1. j <= n
      OBVIOUS
    <3>. QED  BY <1>4, <3>1
  <2>2. f[j + 1] = f[j] \o More(j + 1)
    <3>. DEFINE k == j + 1
    <3>1. k \in 0..n /\ k # 0 /\ k - 1 = j
      OBVIOUS
    <3>. HIDE DEF k
    <3>2. f[k] = f[k - 1] \o More(k)
      BY <1>1, <3>1, Zenon
    <3>. QED  BY <3>1, <3>2, Zenon DEF k
  <2>. DEFINE old == f[j]  more == More(j + 1)  new == f[j + 1]
  <2>6. new = old \o more
    BY <2>2, Zenon
  <2>3. CASE j + 1 <= a
    <3>1. ~Semicolon(data, j + 1)
      BY <2>3
    <3>2. more = << >> /\ old = <<0>>
      <4>1. j <= a /\ j + 1 \in Nat
        BY <2>3
      <4>. HIDE DEF After
      <4>. QED  BY <1>2, <2>1, <3>1, <4>1
    <3>3. new = <<0>>
      <4>. HIDE DEF old, more, new
      <4>. QED  BY <2>6, <3>2
    <3>. QED  BY <2>3, <3>3
  <2>4. CASE j = a
    <3>1. Semicolon(data, j + 1)
      BY <2>4
    <3>2. more = <<j + 1>> /\ old = <<0>>
      <4>1. j <= a /\ j + 1 \in Nat
        BY <2>4
      <4>. HIDE DEF After
      <4>. QED  BY <1>2, <2>1, <3>1, <4>1
    <3>3. new = <<0, a + 1>>
      <4>. HIDE DEF old, more, new
      <4>1. <<0>> \o <<j + 1>> = <<0, j + 1>>
        BY JoinedPair, Zenon
      <4>. QED  BY <2>4, <2>6, <3>2, <4>1, Zenon
    <3>5. ~(j + 1 <= a)
      BY <2>4
    <3>4. StartsWith(new, a + 1)
      <4>. HIDE DEF new
      <4>. QED  BY <3>3 DEF StartsWith
    <3>. HIDE DEF Alone
    <3>. QED  BY <3>3, <3>4, <3>5
  <2>5. CASE j > a
    <3>1. StartsWith(old, a + 1) /\ (Alone => old = <<0, a + 1>>)
      <4>. HIDE DEF Alone
      <4>. QED  BY <2>1, <2>5
    <3>2. Alone => more = << >>
      <4>. SUFFICES ASSUME Alone  PROVE more = << >>
        OBVIOUS
      <4>1. j + 1 \in (a + 2)..n
        BY <2>5
      <4>2. ~Semicolon(data, j + 1)
        BY <4>1
      <4>. QED  BY <1>2, <4>2
    <3>3. more \in Seq(Nat)
      <4>1. more = <<j + 1>> \/ more = << >>
        BY <1>2
      <4>. HIDE DEF more, Before, After
      <4>2. <<j + 1>> \in Seq(Nat) /\ << >> \in Seq(Nat)
        OBVIOUS
      <4>. QED  BY <4>1, <4>2, Zenon
    <3>4. new = old \o more
      BY <2>2
    <3>7. ~(j + 1 <= a)
      BY <2>5
    <3>. HIDE DEF old, more, new, Alone
    <3>5. StartsWith(new, a + 1)
      <4>1. a + 1 \in Nat
        OBVIOUS
      <4>. QED  BY <3>1, <3>3, <3>4, <4>1, StartsStill
    <3>6. Alone => new = <<0, a + 1>>
      <4>1. <<0, a + 1>> \o << >> = <<0, a + 1>>
        OBVIOUS
      <4>. QED  BY <3>1, <3>2, <3>4, <4>1
    <3>. QED  BY <3>5, <3>6, <3>7 DEF new
  <2>. QED
    <3>1. j + 1 <= a \/ j = a \/ j > a
      OBVIOUS
    <3>. HIDE DEF Before, After
    <3>. QED  BY <2>3, <2>4, <2>5, <3>1
<1>. HIDE DEF S
<1>5. n \in S
  BY <1>3, <1>4, Induction
<1>6. After(n)
  <2>. HIDE DEF After, Before
  <2>. QED  BY <1>5 DEF S
<1>7. n > a
  OBVIOUS
<1>. HIDE DEF Alone
<1>8. StartsWith(f[n], a + 1) /\ (Alone => f[n] = <<0, a + 1>>)
  BY <1>6, <1>7
<1>. QED  BY <1>8 DEF Alone

(***************************************************************************)
(* So the first text of a report is what is before the first semicolon,    *)
(* and if there is no other, what is behind it is the second and last one. *)
(***************************************************************************)
LEMMA FirstPiece ==
  ASSUME NEW X, NEW data \in Seq(X), NEW a \in Nat, a + 1 <= Len(data),
         \A i \in 1..a : ~Semicolon(data, i), Semicolon(data, a + 1)
  PROVE  /\ Len(Pieces(data)) \in Nat /\ Len(Pieces(data)) >= 2
         /\ Pieces(data)[1] = SubSeq(data, 1, a)
         /\ (\A i \in (a + 2)..Len(data) : ~Semicolon(data, i)) =>
              Len(Pieces(data)) = 2 /\ Pieces(data)[2] = SubSeq(data, a + 2, Len(data))
<1>. DEFINE n == Len(data)
            cuts[i \in 0..Len(data)] ==
              IF i = 0 THEN <<0>> ELSE cuts[i - 1] \o (IF data[i] = ";" THEN <<i>> ELSE << >>)
            found == cuts[n]
            ends == Append(found, n + 1)
            Alone == \A i \in (a + 2)..n : ~Semicolon(data, i)
<1>1. n \in Nat
  BY LenProperties
<1>2. \E f : Cuts(f, data, n)
  BY <1>1, CutsExist
<1>3. Cuts(cuts, data, n)
  BY <1>2 DEF Cuts
<1>4. Pieces(data) = [k \in 1..(Len(ends) - 1) |-> SubSeq(data, ends[k] + 1, ends[k + 1] - 1)]
  BY DEF Pieces
<1>. HIDE DEF cuts
<1>. HIDE DEF n
<1>5. StartsWith(found, a + 1) /\ (Alone => found = <<0, a + 1>>)
  <2>1. a + 1 <= n
    BY DEF n
  <2>. QED  BY <1>1, <1>3, <2>1, FirstCut
<1>. HIDE DEF found, Alone
<1>0. found \in Seq(Nat) /\ Len(found) >= 2 /\ found[1] = 0 /\ found[2] = a + 1
  BY <1>5 DEF StartsWith
<1>6. Len(found) \in Nat /\ Len(ends) = Len(found) + 1 /\ Len(ends) - 1 = Len(found)
  BY <1>1, <1>0, <1>5, LenProperties, AppendProperties
<1>7. ends[1] = 0 /\ ends[2] = a + 1
  BY <1>1, <1>0, <1>5, <1>6, AppendProperties
<1>. DEFINE pieces == [k \in 1..Len(found) |-> SubSeq(data, ends[k] + 1, ends[k + 1] - 1)]
<1>8. Pieces(data) = pieces
  BY <1>4, <1>6
<1>12. Len(found) = 2 => ends[3] = n + 1
  BY <1>1, <1>0, <1>6, AppendProperties
<1>. HIDE DEF ends
<1>9. Len(pieces) = Len(found)
  BY <1>6
<1>10. pieces[1] = SubSeq(data, 1, a)
  <2>1. 1 \in 1..Len(found) /\ 0 + 1 = 1 /\ a + 1 - 1 = a
    BY <1>0, <1>5, <1>6
  <2>2. pieces[1] = SubSeq(data, ends[1] + 1, ends[1 + 1] - 1)
    BY <2>1
  <2>. QED  BY <1>7, <2>1, <2>2
<1>11. Alone => Len(found) = 2 /\ pieces[2] = SubSeq(data, a + 2, n)
  <2>. SUFFICES ASSUME Alone  PROVE Len(found) = 2 /\ pieces[2] = SubSeq(data, a + 2, n)
    OBVIOUS
  <2>1. Len(found) = 2
    BY <1>0, <1>5
  <2>2. ends[3] = n + 1
    BY <1>12, <2>1
  <2>3. pieces[2] = SubSeq(data, ends[2] + 1, ends[3] - 1)
    <3>1. 2 \in 1..Len(found) /\ 2 + 1 = 3
      BY <2>1
    <3>2. pieces[2] = SubSeq(data, ends[2] + 1, ends[2 + 1] - 1)
      BY <3>1
    <3>. QED  BY <3>1, <3>2
  <2>4. ends[2] + 1 = a + 2 /\ ends[3] - 1 = n
    BY <1>1, <1>7, <2>2
  <2>. QED  BY <2>1, <2>3, <2>4, Zenon
<1>. QED  BY <1>0, <1>5, <1>6, <1>8, <1>9, <1>10, <1>11 DEF n, Alone

(***************************************************************************)
(* A report of two texts, of which the first has no semicolon, is cut      *)
(* behind the first one.                                                   *)
(***************************************************************************)
Chars == Plain \cup {";", "!", "D"}

Separator == <<";">>

Separated(first, rest) == (first \o Separator) \o rest

(***************************************************************************)
(* The separator is a semicolon, and a plain text has none.                *)
(***************************************************************************)
LEMMA SeparatorType ==
  /\ Separator \in Seq(Chars) /\ Len(Separator) = 1 /\ Semicolon(Separator, 1)
  /\ Plain \subseteq Chars
  /\ \A text \in Seq(Plain), i \in Nat : i \in 1..Len(text) => ~Semicolon(text, i)
<1>1. ";" \in Chars /\ Plain \subseteq Chars /\ ";" \notin Plain
  BY DEF Chars, Plain
<1>2. Separator \in Seq(Chars) /\ Len(Separator) = 1 /\ Separator[1] = ";"
  <2>. DEFINE c == ";"
  <2>1. c \in Chars
    BY <1>1
  <2>. HIDE DEF c
  <2>2. <<c>> \in Seq(Chars) /\ Len(<<c>>) = 1 /\ <<c>>[1] = c
    BY <2>1
  <2>. QED  BY <2>2, Zenon DEF Separator, c
<1>3. \A text \in Seq(Plain), i \in Nat : i \in 1..Len(text) => text[i] \in Plain
  OBVIOUS
<1>. QED  BY <1>1, <1>2, <1>3 DEF Semicolon

(***************************************************************************)
(* A plain text and a rest, separated by a semicolon, are cut into two     *)
(* texts at least, of which the text is the first; a plain rest is the     *)
(* second and last.                                                        *)
(***************************************************************************)
LEMMA Report ==
  ASSUME NEW first \in Seq(Plain), NEW rest \in Seq(Chars),
         NEW data, data = Separated(first, rest)
  PROVE  /\ Len(Pieces(data)) \in Nat /\ Len(Pieces(data)) >= 2 /\ Pieces(data)[1] = first
         /\ rest \in Seq(Plain) => Len(Pieces(data)) = 2 /\ Pieces(data)[2] = rest
<1>. DEFINE a == Len(first)  b == Len(rest)  head == first \o Separator
<1>1. a \in Nat /\ b \in Nat
  BY LenProperties
<1>2. first \in Seq(Chars)
  BY SeparatorType, Wider
<1>. HIDE DEF a, b, head
<1>3. /\ head \in Seq(Chars) /\ Len(head) = a + 1
      /\ \A i \in 1..a : head[i] = first[i]
      /\ Semicolon(head, a + 1)
  <2>1. /\ head \in Seq(Chars) /\ Len(head) = a + 1
        /\ \A i \in 1..a : head[i] = first[i]
        /\ \A i \in 1..1 : head[a + i] = Separator[i]
    <3>1. /\ head = first \o Separator /\ a = Len(first) /\ 1 = Len(Separator) /\ 1 \in Nat
          /\ Separator \in Seq(Chars)
      BY SeparatorType DEF head, a
    <3>2. /\ first \o Separator \in Seq(Chars)
          /\ Len(first \o Separator) = Len(first) + Len(Separator)
          /\ \A i \in 1..Len(first) : (first \o Separator)[i] = first[i]
          /\ \A i \in 1..Len(Separator) : (first \o Separator)[Len(first) + i] = Separator[i]
      BY <1>2, <3>1, JoinedParts
    <3>. QED  BY <3>1, <3>2, Zenon
  <2>2. 1 \in 1..1
    OBVIOUS
  <2>3. head[a + 1] = Separator[1]
    BY <2>1, <2>2, Zenon
  <2>4. Semicolon(head, a + 1)
    BY <2>3, SeparatorType, Zenon DEF Semicolon
  <2>. QED  BY <2>1, <2>4
<1>4. /\ data \in Seq(Chars) /\ Len(data) = a + 1 + b
      /\ \A i \in 1..a + 1 : data[i] = head[i]
      /\ \A i \in 1..b : data[a + 1 + i] = rest[i]
  <2>. DEFINE c == a + 1
  <2>1. c \in Nat /\ c = Len(head) /\ data = head \o rest
    BY <1>1, <1>3 DEF head, Separated
  <2>. HIDE DEF c
  <2>2. /\ data \in Seq(Chars) /\ Len(data) = c + b
        /\ \A i \in 1..c : data[i] = head[i]
        /\ \A i \in 1..b : data[c + i] = rest[i]
    <3>1. b = Len(rest) /\ b \in Nat /\ head \in Seq(Chars)
      BY <1>1, <1>3 DEF b
    <3>2. /\ head \o rest \in Seq(Chars) /\ Len(head \o rest) = Len(head) + Len(rest)
          /\ \A i \in 1..Len(head) : (head \o rest)[i] = head[i]
          /\ \A i \in 1..Len(rest) : (head \o rest)[Len(head) + i] = rest[i]
      BY <3>1, JoinedParts
    <3>. QED  BY <2>1, <3>1, <3>2, Zenon
  <2>. QED  BY <2>2 DEF c
<1>5. SubSeq(data, 1, a) = first
  <2>1. first \in Seq(Chars) /\ Len(first) = a /\ \A i \in 1..a : data[i] = first[i]
    BY <1>1, <1>2, <1>3, <1>4 DEF a
  <2>2. a <= Len(data)
    BY <1>1, <1>4
  <2>3. /\ SubSeq(data, 1, a) \in Seq(Chars) /\ Len(SubSeq(data, 1, a)) = a
        /\ \A i \in 1..a : SubSeq(data, 1, a)[i] = data[i]
    BY <1>1, <1>4, <2>2
  <2>. QED  BY <1>1, <2>1, <2>3, SeqEqual
<1>6. SubSeq(data, a + 2, Len(data)) = rest
  <2>. DEFINE n == Len(data)  tail == SubSeq(data, a + 2, n)
  <2>1. n \in Nat /\ n = a + 1 + b
    BY <1>1, <1>4
  <2>2. data \in Seq(Chars) /\ n = Len(data)
    BY <1>4
  <2>. HIDE DEF n
  <2>3. /\ tail \in Seq(Chars) /\ Len(tail) = b
        /\ \A i \in 1..b : tail[i] = data[a + 1 + i]
    BY <1>1, <2>1, <2>2
  <2>. HIDE DEF tail
  <2>4. Len(rest) = b
    BY DEF b
  <2>5. \A i \in 1..b : tail[i] = rest[i]
    BY <1>1, <1>4, <2>3
  <2>6. tail = rest
    BY <2>3, <2>4, <2>5, SeqEqual
  <2>. QED  BY <2>6 DEF tail, n
<1>7. \A i \in 1..a : ~Semicolon(data, i)
  <2>1. \A i \in 1..a : data[i] = first[i]
    BY <1>1, <1>3, <1>4
  <2>2. ASSUME NEW i \in 1..a  PROVE ~Semicolon(data, i)
    <3>1. i \in Nat /\ i \in 1..Len(first)
      BY <1>1 DEF a
    <3>2. ~Semicolon(first, i)
      BY <3>1, SeparatorType
    <3>. QED  BY <2>1, <3>2, Zenon DEF Semicolon
  <2>. QED  BY <2>2
<1>8. Semicolon(data, a + 1) /\ a + 1 <= Len(data)
  <2>1. a + 1 \in 1..a + 1 /\ a + 1 <= Len(data)
    BY <1>1, <1>4
  <2>2. data[a + 1] = head[a + 1]
    BY <1>4, <2>1
  <2>. QED  BY <1>3, <2>1, <2>2 DEF Semicolon
<1>9. rest \in Seq(Plain) => \A i \in (a + 2)..Len(data) : ~Semicolon(data, i)
  <2>. SUFFICES ASSUME rest \in Seq(Plain), NEW i \in (a + 2)..Len(data)
                PROVE  ~Semicolon(data, i)
    OBVIOUS
  <2>. DEFINE k == i - (a + 1)
  <2>1. k \in 1..b /\ a + 1 + k = i /\ k \in Nat
    BY <1>1, <1>4
  <2>. HIDE DEF k
  <2>2. data[i] = rest[k]
    BY <1>4, <2>1
  <2>3. ~Semicolon(rest, k)
    BY <2>1, SeparatorType DEF b
  <2>. QED  BY <2>2, <2>3 DEF Semicolon
<1>10. /\ Len(Pieces(data)) \in Nat /\ Len(Pieces(data)) >= 2
       /\ Pieces(data)[1] = SubSeq(data, 1, a)
       /\ (\A i \in (a + 2)..Len(data) : ~Semicolon(data, i)) =>
            Len(Pieces(data)) = 2 /\ Pieces(data)[2] = SubSeq(data, a + 2, Len(data))
  BY <1>1, <1>4, <1>7, <1>8, FirstPiece
<1>. QED  BY <1>5, <1>6, <1>9, <1>10

(***************************************************************************)
(* A text that is shorter than an entry is what the page shows of the      *)
(* entry it was written into, whatever that held before.                   *)
(***************************************************************************)
LEMMA EntryShows ==
  ASSUME NEW entry, NEW text \in Seq(Plain), Len(text) < EntryLength,
         NEW e, e = Entry(entry, text)
  PROVE  Printed(e) = text
<1>. DEFINE m == Len(text)
            S == Plain \cup {NUL} \cup {entry[i] : i \in 1..EntryLength}
            I == {i \in 1..Len(e) : e[i] = NUL}
<1>1. EntryLength \in Nat /\ m \in Nat /\ m < EntryLength
  BY SensorsAssumption, LenProperties
<1>2. \A i \in 1..m : text[i] \in Plain
  OBVIOUS
<1>. HIDE DEF m
<1>3. e = [i \in 1..EntryLength |-> IF i <= m THEN text[i]
                                    ELSE IF i = m + 1 THEN NUL ELSE entry[i]]
  BY DEF Entry, m
<1>4. /\ \A i \in 1..m : e[i] = text[i]
      /\ e[m + 1] = NUL
  BY <1>1, <1>3
<1>5. e \in Seq(S) /\ Len(e) = EntryLength
  <2>1. \A i \in 1..EntryLength : e[i] \in S
    BY <1>1, <1>2, <1>3
  <2>2. e \in [1..EntryLength -> S]
    BY <1>3, <2>1
  <2>. HIDE DEF S
  <2>. QED  BY <1>1, <2>2
<1>6. NUL \notin Plain
  BY DEF NUL, Plain
<1>7. m + 1 \in I /\ \A y \in I : m + 1 <= y
  BY <1>1, <1>2, <1>4, <1>5, <1>6
<1>. HIDE DEF S
<1>. DEFINE end == SelectInSeq(e, LAMBDA c : c = NUL)
<1>8. end = m + 1
  <2>1. end = IF I # {} THEN Min(I) ELSE 0
    BY DEF SelectInSeq
  <2>2. I \subseteq Int
    BY <1>1, <1>5
  <2>. HIDE DEF I
  <2>3. Min(I) = m + 1
    BY <1>7, <2>2, LeastIsMin, Zenon
  <2>. QED  BY <1>7, <2>1, <2>3
<1>9. /\ SubSeq(e, 1, m) \in Seq(S) /\ Len(SubSeq(e, 1, m)) = m
      /\ \A i \in 1..m : SubSeq(e, 1, m)[i] = e[i]
  BY <1>1, <1>5
<1>10. text \in Seq(S) /\ Len(text) = m
  <2>1. Plain \subseteq S
    BY DEF S
  <2>. QED  BY <2>1 DEF m
<1>11. SubSeq(e, 1, m) = text
  BY <1>4, <1>9, <1>10, SeqEqual
<1>. HIDE DEF end
<1>12. end - 1 = m
  BY <1>1, <1>8
<1>13. SubSeq(e, 1, end - 1) = text
  BY <1>11, <1>12
<1>. QED  BY <1>13 DEF Printed, end

(***************************************************************************)
(* What the radio sends is such a report, of two texts that fit an entry;  *)
(* also with another report behind it.                                     *)
(***************************************************************************)
Temp(r) == <<"t">> \o write_percent_float(r.temp)
Hum(r)  == <<"h">> \o write_percent_float(r.hum)

(***************************************************************************)
(* The sensor's readings are numbers that the radio can write.             *)
(***************************************************************************)
LEMMA Measured ==
  ASSUME NEW r \in Readings
  PROVE  r.temp \in Measurable /\ r.hum \in Measurable
<1>1. ASSUME NEW n \in Temperatures  PROVE n \in Measurable
  BY DEF Temperatures, Measurable
<1>2. ASSUME NEW n \in Humidities  PROVE n \in Measurable
  BY DEF Humidities, Measurable
<1>3. r.temp \in Temperatures /\ r.hum \in Humidities
  BY ReadingsAssumption
<1>. QED  BY <1>1, <1>2, <1>3

(***************************************************************************)
(* The two texts of a reading, a letter and a number each, fit an entry    *)
(* and are what should be read, but for the sign that may be lost.         *)
(***************************************************************************)
LEMMA TextsPlain ==
  ASSUME NEW r \in Readings
  PROVE  /\ Writes(Temp(r), 8) /\ Writes(Hum(r), 8)
         /\ r.temp \in Unsigned \/ Temp(r) = <<"t">> \o Hundredths(r.temp)
         /\ r.hum \in Unsigned \/ Hum(r) = <<"h">> \o Hundredths(r.hum)
<1>1. r.temp \in Measurable /\ r.hum \in Measurable
  BY Measured
<1>2. /\ Writes(write_percent_float(r.temp), 7)
      /\ r.temp \in Unsigned \/ write_percent_float(r.temp) = Hundredths(r.temp)
  BY <1>1, ReadingPlain, Zenon
<1>3. /\ Writes(write_percent_float(r.hum), 7)
      /\ r.hum \in Unsigned \/ write_percent_float(r.hum) = Hundredths(r.hum)
  BY <1>1, ReadingPlain, Zenon
<1>4. ASSUME NEW c \in Plain, NEW text, Writes(text, 7)  PROVE Writes(<<c>> \o text, 8)
  <2>1. <<c>> \in Seq(Plain) /\ Len(<<c>>) = 1
    OBVIOUS
  <2>2. text \in Seq(Plain) /\ Len(text) <= 7 /\ Len(text) \in Nat
    BY <1>4, LenProperties DEF Writes
  <2>3. <<c>> \o text \in Seq(Plain) /\ Len(<<c>> \o text) = Len(<<c>>) + Len(text)
    BY <2>1, <2>2, Concat
  <2>4. Len(<<c>> \o text) <= 8
    BY <2>1, <2>2, <2>3
  <2>. QED  BY <2>3, <2>4 DEF Writes
<1>5. "t" \in Plain /\ "h" \in Plain
  BY DEF Plain
<1>6. Writes(Temp(r), 8) /\ Writes(Hum(r), 8)
  BY <1>2, <1>3, <1>4, <1>5, Zenon DEF Temp, Hum
<1>. QED  BY <1>2, <1>3, <1>6, Zenon DEF Temp, Hum

(***************************************************************************)
(* What the radio sends for a reading is its two texts, separated.         *)
(***************************************************************************)
LEMMA Sent ==
  ASSUME NEW r \in Readings
  PROVE  /\ send(r) = Separated(Temp(r), Hum(r))
         /\ Temp(r) \in Seq(Plain) /\ Hum(r) \in Seq(Plain) /\ send(r) \in Seq(Chars)
<1>. DEFINE t == Temp(r)  h == <<"h">>  w == write_percent_float(r.hum)  v == Hum(r)
<1>1. t \in Seq(Plain) /\ v \in Seq(Plain)
  BY TextsPlain DEF Writes
<1>2. w \in Seq(Plain)
  BY Measured, ReadingPlain DEF Writes
<1>3. h \in Seq(Plain)
  BY DEF Plain
<1>4. t \in Seq(Chars) /\ h \in Seq(Chars) /\ w \in Seq(Chars) /\ v \in Seq(Chars)
  <2>. HIDE DEF t, h, w, v
  <2>. QED  BY <1>1, <1>2, <1>3, SeparatorType, Wider
<1>5. send(r) = (t \o (Separator \o h)) \o w
  <2>1. <<";">> \o <<"h">> = <<";", "h">>
    BY JoinedPair
  <2>. QED  BY <2>1, Zenon DEF send, Temp, Separator
<1>6. v = h \o w
  BY Zenon DEF Hum
<1>. HIDE DEF t, h, w, v
<1>7. t \o (Separator \o h) = (t \o Separator) \o h
  BY <1>4, SeparatorType, ConcatAssociative, SMTT(30)
<1>. DEFINE u == t \o Separator
<1>8. u \in Seq(Chars)
  BY <1>4, SeparatorType, ConcatProperties
<1>. HIDE DEF u
<1>9. (u \o h) \o w = u \o (h \o w)
  BY <1>4, <1>8, ConcatAssociative, SMTT(30)
<1>10. send(r) = Separated(t, v)
  BY <1>5, <1>6, <1>7, <1>9, Zenon DEF Separated, u
<1>11. u \o v \in Seq(Chars)
  BY <1>4, <1>8, ConcatProperties
<1>. QED  BY <1>1, <1>10, <1>11, Zenon DEF Separated, t, u, v

(***************************************************************************)
(* Two reports that run together begin with the first one's temperature.   *)
(***************************************************************************)
LEMMA SentTwice ==
  ASSUME NEW r1 \in Readings, NEW r2 \in Readings
  PROVE  \E rest \in Seq(Chars) :
           send(r1) \o <<"!", "D">> \o send(r2) = Separated(Temp(r1), rest)
<1>. DEFINE t == Temp(r1)  h == Hum(r1)  x == <<"!", "D">>  y == send(r2)  u == t \o Separator
<1>1. t \in Seq(Plain) /\ h \in Seq(Plain) /\ y \in Seq(Chars) /\ send(r1) = u \o h
  BY Sent DEF Separated
<1>2. x \in Seq(Chars)
  BY DEF Chars
<1>3. t \in Seq(Chars) /\ h \in Seq(Chars)
  <2>. HIDE DEF t, h, y, u
  <2>. QED  BY <1>1, SeparatorType, Wider
<1>. HIDE DEF t, h, x, y
<1>4. u \in Seq(Chars)
  BY <1>3, SeparatorType, ConcatProperties
<1>. HIDE DEF u
<1>5. (u \o h) \o x = u \o (h \o x)
  BY <1>2, <1>3, <1>4, ConcatAssociative
<1>6. h \o x \in Seq(Chars)
  BY <1>2, <1>3, ConcatProperties
<1>. DEFINE g == h \o x
<1>. HIDE DEF g
<1>7. g \in Seq(Chars)
  BY <1>6 DEF g
<1>8. (u \o g) \o y = u \o (g \o y) /\ g \o y \in Seq(Chars)
  BY <1>1, <1>4, <1>7, ConcatAssociative, ConcatProperties, SMTT(30)
<1>9. send(r1) \o x \o y = Separated(t, g \o y)
  BY <1>1, <1>5, <1>8, Zenon DEF Separated, u, g
<1>. QED  BY <1>8, <1>9, Zenon DEF t, x, y

(***************************************************************************)
(* The bridge keeps the first two texts of a report in the first two       *)
(* entries.                                                                *)
(***************************************************************************)
LEMMA Kept ==
  ASSUME NEW data, set_sensors(data), Len(Pieces(data)) \in Nat, Len(Pieces(data)) >= 2,
         NEW k \in 1..2, Writes(Pieces(data)[k], 8)
  PROVE  /\ sensor_count' >= 1 /\ (Len(Pieces(data)) = 2 => sensor_count' = 2)
         /\ Shown(k)' = Pieces(data)[k]
<1>. DEFINE texts == Pieces(data)  text == texts[k]  m == Len(texts)
            sc == IF Len(texts) < MAX_SENSORS THEN Len(texts) ELSE MAX_SENSORS
<1>1. /\ sensors' = [j \in 1..MAX_SENSORS |->
                       IF j <= sc THEN Entry(sensors[j], texts[j]) ELSE sensors[j]]
      /\ sensor_count' = sc
  BY DEF set_sensors
<1>2. m \in Nat /\ m >= 2 /\ sc = IF m < MAX_SENSORS THEN m ELSE MAX_SENSORS
  OBVIOUS
<1>. HIDE DEF texts, sc, m
<1>3. sc >= 1 /\ sc >= 2 /\ sc <= MAX_SENSORS /\ sc \in Nat /\ (m = 2 => sc = 2) /\ MAX_SENSORS \in Nat
  BY <1>2, SensorsAssumption
<1>4. k \in 1..MAX_SENSORS /\ k <= sc
  BY <1>3
<1>5. sensors'[k] = Entry(sensors[k], text)
  BY <1>1, <1>4
<1>6. text \in Seq(Plain) /\ Len(text) < EntryLength
  <2>1. text \in Seq(Plain) /\ Len(text) <= 8
    BY DEF Writes, texts
  <2>2. Len(text) \in Nat
    BY <2>1, LenProperties
  <2>. HIDE DEF text
  <2>. QED  BY <2>1, <2>2, SensorsAssumption
<1>7. Printed(sensors'[k]) = text
  <2>. HIDE DEF text
  <2>. QED  BY <1>5, <1>6, EntryShows
<1>8. Shown(k)' = text
  BY <1>7, Zenon DEF Shown
<1>. QED  BY <1>1, <1>3, <1>8 DEF texts, m

(***************************************************************************)
(* The steps of the bridge keep the page true to the last report: one that *)
(* arrives fills the first two entries, or the first when two arrived as   *)
(* one.                                                                    *)
(***************************************************************************)
LEMMA ShownNext == ShownAsMeasured /\ [BridgeNext]_bridgeVars => ShownAsMeasured'
<1>. SUFFICES ASSUME ShownAsMeasured, [BridgeNext]_bridgeVars  PROVE ShownAsMeasured'
  OBVIOUS
<1>1. CASE UNCHANGED readings
  BY <1>1 DEF ShownAsMeasured, Shown, readings
<1>2. CASE BridgeRestart
  BY <1>2 DEF BridgeRestart, SensorsRestart, ShownAsMeasured
<1>3. CASE SensorStep
  <2>1. ASSUME NEW r \in Readings, reported' = <<r>>, set_sensors(send(r))
        PROVE  ShownAsMeasured'
    <3>. DEFINE data == send(r)  texts == Pieces(data)
    <3>1. /\ Len(texts) \in Nat /\ Len(texts) >= 2 /\ texts[1] = Temp(r)
          /\ Len(texts) = 2 /\ texts[2] = Hum(r)
      <4>1. /\ data = Separated(Temp(r), Hum(r))
            /\ Temp(r) \in Seq(Plain) /\ Hum(r) \in Seq(Plain) /\ Hum(r) \in Seq(Chars)
        BY Sent, SeparatorType, Wider
      <4>. HIDE DEF data
      <4>. QED  BY <4>1, Report
    <3>2. Writes(Temp(r), 8) /\ Writes(Hum(r), 8)
      BY TextsPlain
    <3>3. sensor_count' = 2 /\ Shown(1)' = Temp(r)
      BY <2>1, <3>1, <3>2, Kept
    <3>4. Shown(2)' = Hum(r)
      BY <2>1, <3>1, <3>2, Kept
    <3>. HIDE DEF texts, data
    <3>. QED  BY <2>1, <3>3, <3>4, TextsPlain DEF ShownAsMeasured, Unsigned
  <2>2. ASSUME NEW r1 \in Readings, NEW r2 \in Readings, reported' = <<r1, r2>>,
               set_sensors(send(r1) \o <<"!", "D">> \o send(r2))
        PROVE  ShownAsMeasured'
    <3>. DEFINE data == send(r1) \o <<"!", "D">> \o send(r2)  texts == Pieces(data)
    <3>1. Len(texts) \in Nat /\ Len(texts) >= 2 /\ texts[1] = Temp(r1)
      <4>1. PICK rest \in Seq(Chars) : data = Separated(Temp(r1), rest)
        BY SentTwice
      <4>2. Temp(r1) \in Seq(Plain)
        BY Sent
      <4>. HIDE DEF data
      <4>. QED  BY <4>1, <4>2, Report
    <3>2. Writes(Temp(r1), 8)
      BY TextsPlain
    <3>3. sensor_count' >= 1 /\ Shown(1)' = Temp(r1)
      BY <2>2, <3>1, <3>2, Kept
    <3>. HIDE DEF texts, data
    <3>4. reported'[1] = r1 /\ Len(reported') # 1
      BY <2>2
    <3>5. r1.temp \in -99..-1 \/ Temp(r1) = <<"t">> \o Hundredths(r1.temp)
      BY TextsPlain DEF Unsigned
    <3>. HIDE DEF Temp
    <3>. QED  BY <3>3, <3>4, <3>5 DEF ShownAsMeasured
  <2>. QED  BY <1>3, <2>1, <2>2 DEF SensorStep, SensorData
<1>4. BridgeNext \/ UNCHANGED bridgeVars => SensorStep \/ BridgeRestart \/ UNCHANGED readings
  BY DEF BridgeNext, StartupStep, TunStep, bridgeVars
<1>. QED  BY <1>1, <1>2, <1>3, <1>4

(***************************************************************************)
(* The page shows the readings as they were measured, for all readings     *)
(* that the two sensors can give, whatever its entries held before; but    *)
(* for the sign of a number between -1 and 0.                              *)
(***************************************************************************)
THEOREM ReadingsShown == BridgeSpec => []ShownAsMeasured
<1>1. BridgeInit => ShownAsMeasured
  BY DEF BridgeInit, SensorsInit, ShownAsMeasured
<1>. QED  BY <1>1, ShownNext, PTL DEF BridgeSpec
==============================================================================
