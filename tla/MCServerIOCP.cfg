CONSTANTS
  Client = {"c1"}
  Worker = {w1}
  NoClient = "none"
  MAX_BUFFER_LEN = 3
  Workloads <- MCWorkloads
  MaxFailures = 0
SPECIFICATION Spec
INVARIANT EchoesMessage
CHECK_DEADLOCK FALSE
