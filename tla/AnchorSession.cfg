SPECIFICATION Spec
CONSTANTS
  BleDepth = 1
  UwbDepth = 1
  CanDepth = 1
  GenMod = 4
  Central <- SessionCentral
  CanFaults = {}
  SlowBus = FALSE
  MaxSessions = 5
  MaxResets = 1
INVARIANTS TypeOK ChallengeFresh FreshInv ServesInv
PROPERTY ImplementsService
