----------------------------- MODULE SlipConfig -----------------------------
(***************************************************************************)
(* The command line of the bridge (slip-config.c), as getopt has split it: *)
(* a sequence of options, each with its argument, or Absent where the      *)
(* argument is optional and not given.  Of an option given more than once  *)
(* the last counts.  Only what changes the rest of the model is kept: -v,  *)
(* -H, -L and -t set the verbosity, the flow control, the time stamps and  *)
(* the name of the tun device.                                             *)
(***************************************************************************)
EXTENDS Integers, Sequences

CONSTANTS
  Absent,        \* the argument that is not there
  DelayRange     \* the values of an uint16_t, scaled down

ASSUME SlipConfigAssumption == DelayRange \in Nat \ {0}

Options   == {"B", "H", "L", "s", "t", "a", "p", "d", "v", "r"}
BaudRates == {-2, 9600, 19200, 38400, 57600, 115200, 500000, 921600}

\* The places where option o is given, and the argument of the last of them.
Places(argv, o) == {i \in DOMAIN argv : argv[i].opt = o}

LastArg(argv, o, default) ==
  IF Places(argv, o) = {} THEN default
  ELSE argv[CHOOSE i \in Places(argv, o) : \A j \in Places(argv, o) : j <= i].arg

\* The program prints its usage, or an error, and exits: -h, an option that it
\* does not know (-D and -T among them), or an unknown baud rate.
Refuses(argv) ==
  \/ \E i \in DOMAIN argv : argv[i].opt \notin Options
  \/ LastArg(argv, "B", 115200) \notin BaudRates

\* -d without an argument means 10; a larger argument is cut to 16 bits.
BaseDelay(argv) ==
  LET arg == LastArg(argv, "d", 0)
  IN  (IF arg = Absent THEN 10 ELSE arg) % DelayRange

\* The serial devices that slip_init tries: a server, the device of -s, or three.
\* Left out is "-s null", a bridge without a radio, which opens none.
LineDevices(argv) ==
  IF Places(argv, "a") # {}
  THEN {LastArg(argv, "a", Absent)}
  ELSE IF Places(argv, "s") # {}
       THEN {LastArg(argv, "s", Absent)}
       ELSE {"ttyUSB0", "cuaU0", "ucom0"}

\* What slip_config_handle_arguments leaves in the variables.
HandleArguments(argv) ==
  [border_router |-> Places(argv, "r") # {},
   ipaddr        |-> LastArg(argv, "r", "fe80::1"),
   basedelay     |-> BaseDelay(argv),
   devices       |-> LineDevices(argv)]

Defaults == [border_router |-> FALSE, ipaddr |-> "fe80::1", basedelay |-> 0,
             devices |-> {}]
==============================================================================
