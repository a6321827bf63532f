SPECIFICATION BridgeSpec
CONSTANTS
  Keys = {right, wrong}
  CarKey = right
  None = None
  Torn = Torn
INVARIANTS BridgeTypeOK RefusedKeyRests
PROPERTY SetKeyIsTried
