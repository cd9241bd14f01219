\* One late answer is enough.
CONSTANTS
  Absent = Absent
  DelayRange = 4
  Arguments <- MCArguments
  IpAddresses <- MCIpAddresses
  Devices <- MCDevices
  HostMac = HostMac
  RadioMac = RadioMac
  MaxLine = 3
  MaxLost = 3
  MaxRestarts = 1
SPECIFICATION FairSpec
PROPERTIES AddressesComeBack
\* A program whose address does not parse has exited.
CHECK_DEADLOCK FALSE
