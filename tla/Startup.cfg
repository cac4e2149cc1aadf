SPECIFICATION Spec
CONSTANTS
  Channels = {0, 1, 2, 3}
  Units = {0, 1}
  UnitOf <- ChannelPair
  NoChannel = 255
  Addresses = {a1, a2}
  NoAddress = none
  DHCP_TIMEOUT = 1
  RING = 1
  RESTARTS = 1
  CHANGES = 1
INVARIANT ClockRuns
INVARIANT AddressIsLeased
PROPERTY StartsUp
