SPECIFICATION KeysSpec
CONSTANT MaxPairs = 2
INVARIANTS KeysTypeOK NoGrantAfterRevoke SameKeyUnlessExcused
