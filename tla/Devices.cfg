SPECIFICATION FairSpec
CONSTANTS
  Devices = {d1, d2, d3}
  NoDevice = NoDevice
  Callers = {c1, c2}
  MaxDevices = 1
  MaxTokens = 1
INVARIANTS
  NewDevicesWithinLimit
  RevokedByHolder
PROPERTIES
  IssuedForActiveDevice
  RevokedInTheEnd
