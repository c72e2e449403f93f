CONSTANTS
  Thread = {t1, t2}
  Processor = {p1, p2}
  Block = {1, 2, 3, 4}
  NoBlock = 0
  nThreshold = 1
  DepthModulus = 4
  Record = {1, 2, 3, 4}
  NoRecord = NoRecord
  Key = {1, 2, 3}
  KeyOf <- MCKeyOf
  Hash <- MCHash
  InitialBuckets = 1
  Primes = {2, 3, 5, 7}
  OpNames = {"Insert", "FindKey", "Apply", "DeleteKey", "DeleteIf", "Clear"}
  InitialTable = {4}
  MaxCalls = 3
  TreeRecord = {"r1", "r2", "r3", "r4"}
  Path = {"a", "ab", "ac", "abd"}
  NoPath = "none"
  ParentOf <- MCParentOf
  PathOf <- MCPathOf
  PathHash <- MCPathHash
  TreeOpNames = {"Insert", "FindKey", "Apply", "DeleteKey", "DeleteIf", "Clear"}
  ClumpRecord = {1, 2, 3, 4, 5}
  NullRecord = 0
  NODES_PER_CLUMP = 2
  SplitHomes <- MCSplitHomes
  SubTableOf <- MCSubTableOf
  SecondBucket = {4}
  m_cSubTables = 2
  SubTableOpNames = {"Insert", "FindKey", "DeleteKey", "Apply", "ApplyWrite", "DeleteIf", "Clear"}
  SubTableRecords = {3}
  Kinds <- MCKinds
  Bits <- MCBits
  Segments <- MCSegments
  MinDirSize = 8
  MaxDirSize = 1048576
  InitSizes <- MCInitSizes
  MaxLevel = 20
  ArraySizes <- MCArraySizes
  SubTableCounts = {0, 1, 2, 3, 8, 24, 64, 100}
  ProcessorCounts = {1, 3, 8, 20}
  MAX_SUBTABLES = 64
  MAXDWORD = 1073741823
  LogSizes = {2, 3}
  EntrySizes = {2, 8}
  ExtraSizes = {0, 1}
  HeaderSize = 1
  CounterModulus = 4
  SizeModulus = 16
  MaxEntries = 7
  MaxResets = 1
SPECIFICATION PartSpec
SYMMETRY Symmetry
INVARIANTS
  TypesOK DepthBounded BlocksAccounted
  HashChainsInOrder HashCountsRight ApplyMeetsRecords
  TreeMatchesTable TreeCountsRight
  ClumpsSuffice ChainsCompact LoopMeetsEveryRecord
  SetupAsSpecified FailureUndone LogKeepsEntries
PROPERTIES HashImplements TreeImplements SubTablesImplement
