CONSTANTS
  Thread = {t1, t2}
  NoThread = NoThread
  NoRecord = NoRecord
  Record <- MCRecord
  Key <- MCKey
  KeyOf <- MCKeyOf
  Hash <- MCHash
  SegBits = 1
  MinDirSize = 1
  MaxDirSize = 4
  InitialBuckets = 2
  DefaultBuckets = 2
  MaxLoadPercent = 120
  NodesPerClump = 1
  CountModulus = 16
  MaxLevel = 3
  InitialRecords <- MCTwo
  Ops = {"FindKey", "Clear"}
  MayFail = {"setSegVars"}
  MaxOps = 2
SPECIFICATION Spec
INVARIANT ValidInsideLock
