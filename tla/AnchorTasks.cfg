SPECIFICATION Spec
CONSTANTS
  BleDepth = 1
  UwbDepth = 1
  CanDepth = 1
  GenMod = 4
  Central <- TaskCentral
  CanFaults = {}
  SlowBus = TRUE
  MaxSessions = 1
  MaxResets = 0
INVARIANTS BusExclusive DisconnectLocks DisconnectStopsUwb IndInv
PROPERTY ImplementsService
