CONSTANTS
  Thread = {t1, t2, t3}
  NoThread = NoThread
  NoRecord = NoRecord
  Record <- MCRecord
  Key <- MCKey
  KeyOf <- MCKeyOf
  Hash <- MCHash
  SegBits = 1
  MinDirSize = 1
  MaxDirSize = 4
  InitialBuckets = 4
  DefaultBuckets = 2
  MaxLoadPercent = 120
  NodesPerClump = 1
  CountModulus = 16
  MaxLevel = 3
  InitialRecords <- MCFour
  Ops = {"Insert", "DeleteKey", "FindKey", "CheckTable"}
  MayFail = {}
  MaxOps = 3
SPECIFICATION Spec
SYMMETRY Symmetry
INVARIANTS TypeOK AddressesValid RecordsReachable KeysUnique ReferencesExact LockedBucketsExist CheckTableConsistent
