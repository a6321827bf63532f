SPECIFICATION KeysSpec
CONSTANT MaxPairs = 2
INVARIANT SameKey
