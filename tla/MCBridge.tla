------------------------------ MODULE MCBridge ------------------------------
(***************************************************************************)
(* The command lines of MCStartup, some with -d, and three readings of the *)
(* sensor, among them the longest texts and a temperature just below 0.    *)
(***************************************************************************)
EXTENDS Bridge

Opt(o, a) == [opt |-> o, arg |-> a]

MCArguments ==
  { <<Opt("r", "aaaa::1"), Opt("s", "ttyUSB1")>>,
    <<Opt("r", "nonsense"), Opt("d", 3), Opt("r", "aaaa::1"), Opt("d", 5)>>,
    <<Opt("r", "aaaa::1"), Opt("r", "nonsense"), Opt("d", Absent)>>,
    <<Opt("s", "ttyUSB1"), Opt("d", 3)>>,
    <<Opt("r", "aaaa::1"), Opt("B", 19201)>>,
    <<Opt("r", "aaaa::1"), Opt("h", Absent)>> }

MCIpAddresses == {"aaaa::1", "fe80::1"}
MCDevices     == {"ttyUSB0", "ttyUSB1"}
MCReadings    == { [temp |-> -3970, hum |-> -204], [temp |-> -50, hum |-> 503],
                   [temp |-> 500, hum |-> 14823] }
==============================================================================
