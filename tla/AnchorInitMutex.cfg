SPECIFICATION Spec
CONSTANTS
  BleDepth = 8
  UwbDepth = 4
  CanDepth = 4
  GenMod = 256
  Central <- TaskCentral
  CanFaults = {}
  SlowBus = FALSE
  MaxSessions = 1
  MaxResets = 0
INVARIANT InitNeedsNoMutex
