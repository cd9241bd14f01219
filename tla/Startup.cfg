\* Border router and bridge mode, two starts, and losses, traffic of the host with
\* and without a delay, or readings of the sensor.
CONSTANTS
  HostMac = HostMac
  RadioMac = RadioMac
  MaxLine = 3
  MaxLost = 3
  MaxRestarts = 1
  Absent = Absent
  DelayRange = 3
  Arguments <- MCArguments
  IpAddresses <- MCIpAddresses
  Devices <- MCDevices
  Parts = 2
  IntRange = 7
  MaxWaiting = 1
  MaxClockSets = 1
  MAX_SENSORS = 2
  EntryLength = 16
  Readings <- MCReadings
  MaxReports = 2
  Inputs = {"losses", "host", "sensors"}
SPECIFICATION BridgeFairSpec
INVARIANTS TypeOK AddressesAreTheRadios RootHasItsAddress ShownAsMeasured
PROPERTIES ComesUp SpacedApart HostIsHeard
\* A program whose address does not parse has exited.
CHECK_DEADLOCK FALSE
