SPECIFICATION CarFairSpec
CONSTANTS
  UwbDepth = 1
  CanDepth = 1
  MaxSessions = 1
  MaxCarResets = 1
  Places = {"near", "far"}
  CarFaults = {"bus", "queue"}
  WriteDepth = 1
  TagFaults = {"rssi"}
  MaxTagResets = 0
INVARIANTS CarFollowsTag RangesTogether
PROPERTY AskedRanges
\* Nothing is left to do when the last of MaxSessions connections is over.
CHECK_DEADLOCK FALSE
