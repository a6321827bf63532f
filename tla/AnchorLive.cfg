SPECIFICATION FairSpec
CONSTANTS
  BleDepth = 1
  UwbDepth = 1
  CanDepth = 1
  GenMod = 4
  Central <- LiveCentral
  CanFaults = {"UNLOCK"}
  SlowBus = FALSE
  MaxSessions = 1
  MaxResets = 0
PROPERTIES ReAdvertises EventuallyLocked ImplementsDoorLock
