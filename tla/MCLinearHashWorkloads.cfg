CONSTANTS
  Thread = {t1, t2}
  SingleThread = t1
  ClearingOps = {"Insert", "FindKey", "Clear", "CheckTable"}
  NoThread = NoThread
  NoRecord = NoRecord
  Record <- MCRecord
  Key <- MCKey
  KeyOf <- MCKeyOf
  Hash <- MCHash
  SegBits = 1
  MinDirSize = 1
  MaxDirSize = 4
  InitialBuckets = 2
  DefaultBuckets = 2
  MaxLoadPercent = 120
  NodesPerClump = 1
  CountModulus = 16
  MaxLevel = 3
  InitialRecords <- MCTwo
  Ops = {"Insert", "Overwrite", "DeleteKey", "DeleteRecord", "FindKey", "FindRecord", "Clear", "CheckTable"}
  MayFail = {"directory", "segment", "clump", "setSegVars"}
  MaxOps = 4
SPECIFICATION WorkloadSpec
INVARIANTS ReferencesExact
PROPERTY OperationsReturn
