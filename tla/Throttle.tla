------------------------------ MODULE Throttle ------------------------------
(***************************************************************************)
(* The tun side of the bridge (tun-bridge.c).  In every turn of its loop   *)
(* the bridge calls handle_fd, which reads a packet of the host and gives  *)
(* it to the stack, and with -d then leaves the tun device alone until     *)
(* more than slip_config_basedelay milliseconds have passed.               *)
(*                                                                         *)
(* It tells the time by gettimeofday, cut to milliseconds, and keeps the   *)
(* difference to the time of the last packet in an int: the clock may be   *)
(* set, back or ahead, and the difference wraps.  The model's time passes  *)
(* in parts of a millisecond, so that what the cut loses can be seen.      *)
(***************************************************************************)
EXTENDS Startup

CONSTANTS
  Parts,         \* the parts of a millisecond that are told apart
  IntRange,      \* the values of an int, scaled down
  MaxWaiting,    \* bound: packets of the host that wait
  MaxClockSets   \* bound: times the clock is set

ASSUME ThrottleAssumption ==
  /\ Parts \in Nat \ {0} /\ MaxWaiting \in Nat /\ MaxClockSets \in Nat
  /\ IntRange \in Nat /\ 2 * DelayRange < IntRange
  /\ \A args \in Arguments : BaseDelay(args) \in 0..(DelayRange - 1)  \* -d has a number

VARIABLES
  delaymsec,     \* the delay that runs, or 0
  elapsed,       \* what handle_fd computes for dmsec, while a delay runs
  part,          \* where in its millisecond the clock is
  waiting,       \* packets of the host in the tun device
  since,         \* history: parts of a millisecond since the last packet was read
  clock_set,     \* history: the clock has been set since then
  clock_sets     \* history: times the clock was set

tun == <<delaymsec, elapsed, part, waiting, since, clock_set, clock_sets>>

\* Any longer is as good as never: no delay is that long.
LongAgo == Parts * DelayRange

TunInit ==
  /\ delaymsec = 0 /\ elapsed = 0 /\ part = 0 /\ waiting = 0
  /\ since = LongAgo /\ clock_set = FALSE /\ clock_sets = 0

\* tun_init has opened the device and set the callback, and no error ended the program.
TunOpen == pc \in {"asking", "running"}

\* An int holds the numbers from -(IntRange \div 2) on, and wraps.
AsInt(n) == ((n + (IntRange \div 2)) % IntRange) - (IntRange \div 2)

\* The host sends a packet.
HostSends ==
  /\ TunOpen /\ waiting < MaxWaiting /\ waiting' = waiting + 1
  /\ UNCHANGED <<delaymsec, elapsed, part, since, clock_set, clock_sets>>

Tick ==
  /\ TunOpen
  /\ part' = (part + 1) % Parts
  /\ elapsed' = IF delaymsec # 0 /\ part' = 0 THEN AsInt(elapsed + 1) ELSE elapsed
  /\ since' = IF since < LongAgo THEN since + 1 ELSE since
  /\ UNCHANGED <<delaymsec, waiting, clock_set, clock_sets>>

\* Somebody sets the clock.  It matters only while a delay runs.
SetClock ==
  /\ TunOpen /\ delaymsec # 0
  /\ clock_sets < MaxClockSets /\ clock_sets' = clock_sets + 1
  /\ elapsed' \in {AsInt(n) : n \in 0..(IntRange - 1)} /\ part' \in 0..(Parts - 1)
  /\ clock_set' = TRUE
  /\ UNCHANGED <<delaymsec, waiting, since>>

------------------------------------------------------------------------------
(* handle_fd                                                                 *)

\* A bug for SpacedApart: a delay of as many milliseconds as the clock shows.
DelayIsOverAtOnce == delaymsec = 0 \/ elapsed < 0 \/ elapsed >= delaymsec

\* A bug for HostIsHeard: dmsec is as short as delaymsec, and never negative.
DelayIsOverShort == delaymsec = 0 \/ elapsed % DelayRange > delaymsec

DelayIsOver == delaymsec = 0 \/ elapsed < 0 \/ elapsed > delaymsec

\* The delay is over, and no packet waits.
EndDelay ==
  /\ TunOpen /\ delaymsec # 0 /\ DelayIsOver /\ waiting = 0
  /\ delaymsec' = 0 /\ elapsed' = 0
  /\ UNCHANGED <<part, waiting, since, clock_set, clock_sets>>

\* tun_input and tcpip_input; the time of the packet is taken after them.
ReadTun ==
  /\ TunOpen /\ DelayIsOver /\ waiting > 0
  /\ waiting' = waiting - 1
  /\ delaymsec' = slip_config.basedelay /\ elapsed' = 0
  /\ since' = 0 /\ clock_set' = FALSE
  /\ UNCHANGED <<part, clock_sets>>

TunNext == HostSends \/ Tick \/ SetClock \/ EndDelay \/ ReadTun

\* The program starts again with what the tun device then holds: nothing.
TunRestart ==
  /\ delaymsec' = 0 /\ elapsed' = 0 /\ waiting' = 0
  /\ since' = LongAgo /\ clock_set' = FALSE
  /\ UNCHANGED <<part, clock_sets>>

TunTypeOK ==
  /\ delaymsec \in 0..(DelayRange - 1) /\ part \in 0..(Parts - 1)
  /\ elapsed \in {AsInt(n) : n \in 0..(IntRange - 1)}
  /\ waiting \in 0..MaxWaiting /\ since \in 0..LongAgo
  /\ clock_set \in BOOLEAN /\ clock_sets \in 0..MaxClockSets
==============================================================================
