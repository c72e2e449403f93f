CONSTANTS
  Thread = {t1, t2, t3}
  NoThread = NoThread
  MaxWrites = 2
  InputLengths = {0, 1, 2, 3, 4, 5, 6, 7, 8}
  ReadSizes <- MCReadSizes
  MaxFaults = 2
  Client = {"c1", "c2"}
  Worker = {w1, w2}
  NoClient = "none"
  MAX_BUFFER_LEN = 3
  Workloads <- MCWorkloads
  MaxFailures = 1
  Process = {q1, q2, q3, q4}
  MAX_READ_PROCESSES_ALLOWED = 2
  WorkerThread = {0, 1}
  WORK_MAX = 2
  Works = {2, 4}
  DATA_BUFSIZE = 2
  EchoBytes <- MCEchoBytes
  Summer = {s1, s2}
  size = 3
SPECIFICATION PartSpec
INVARIANTS TypesOK InputCopied OneOperation EchoesShortSends NoReaderOvertaken WriterAlone WorkTakenOnce EchoInOrder
PROPERTIES WaiterGetsIn MessagesComeBack ThreadsStop WriterGetsIn EveryWorkRuns
