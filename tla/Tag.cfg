SPECIFICATION TagFairSpec
CONSTANTS
  WriteDepth = 2
  TagFaults = {"init", "rssi"}
  MaxTagResets = 1
INVARIANTS TagTypeOK ZoneNeedsRanging ZoneTold StopPending
PROPERTY TagStopsRanging
