SPECIFICATION CarSpec
CONSTANTS
  UwbDepth = 1
  CanDepth = 1
  MaxSessions = 2
  MaxCarResets = 0
  Places = {"near", "away"}
  CarFaults = {}
  WriteDepth = 1
  TagFaults = {"rssi"}
  MaxTagResets = 0
INVARIANTS CarTypeOK CarFollowsTag RangesTogether
PROPERTY ZoneWordsAuthed
\* Nothing is left to do when the last of MaxSessions connections is over.
CHECK_DEADLOCK FALSE
