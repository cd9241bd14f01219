------------------------------ MODULE MCStartup ------------------------------
(***************************************************************************)
(* Command lines for Startup: a border router, also when -r comes twice    *)
(* and the last counts; an address that does not parse; bridge mode; and   *)
(* arguments that the program refuses.                                     *)
(***************************************************************************)
EXTENDS Startup

Opt(o, a) == [opt |-> o, arg |-> a]

MCArguments ==
  { <<Opt("r", "aaaa::1"), Opt("s", "ttyUSB1")>>,
    <<Opt("r", "nonsense"), Opt("d", Absent), Opt("r", "aaaa::1")>>,
    <<Opt("r", "aaaa::1"), Opt("r", "nonsense")>>,
    <<Opt("s", "ttyUSB1")>>,
    <<Opt("r", "aaaa::1"), Opt("B", 19201)>>,
    <<Opt("r", "aaaa::1"), Opt("h", Absent)>> }

MCIpAddresses == {"aaaa::1", "fe80::1"}
MCDevices     == {"ttyUSB0", "ttyUSB1"}
==============================================================================
