CONSTANTS
  Thread = {t1, t2}
  NoThread = NoThread
  NoRecord = NoRecord
  Record <- MCSixRecords
  Key <- MCSixKeys
  KeyOf <- MCSixKeyOf
  Hash <- MCSixHash
  SegBits = 1
  MinDirSize = 4
  MaxDirSize = 8
  InitialBuckets = 5
  DefaultBuckets = 2
  MaxLoadPercent = 101
  NodesPerClump = 1
  CountModulus = 16
  MaxLevel = 3
  InitialRecords <- MCFive
  Ops = {"Insert", "DeleteKey"}
  MayFail = {"clump"}
  MaxOps = 4
SPECIFICATION Spec
INVARIANT LockedBucketsExist
