SPECIFICATION Spec
CONSTANTS
  Channels = {"tg"}
  Unknown = "gone"
  OutCap = 1
  MaxPublished = 2
  MaxBoots = 1
  Activities = {"user", "api", "beat", "device", "crash", "savefail"}
  Tasks = {t1, t2}
  InCap = 1
  MaxInbound = 2
  MaxIter = 1
  TurnCalls = 1
  Agents = {"helper", "other"}
  Allowed = {"helper"}
  Steps = 3
  Backends <- TwoBackends
  MaxTools = 2
  Budget = 2
  MaxIters = {1, 3}
INVARIANTS NoEarlySend 
PROPERTIES ShutdownEnds TasksReport
CHECK_DEADLOCK FALSE
