SPECIFICATION ClusterSpec
CONSTANTS
  Replica = {n1, n2}
  Writes = {"write"}
  LocalWrites = {}
  Reads = {"read"}
  Info = "info"
  State <- MCState
  Runs <- MCRuns
  Empty <- MCEmpty
  NoReply = NoReply
  MaxCalls = 2
  MaxFaults = 3
\* Calls and faults are bounded.
CHECK_DEADLOCK FALSE
INVARIANT ReplayRestores
