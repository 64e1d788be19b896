SPECIFICATION Spec
CONSTANTS
  MaxTime = 4
  MaxJobs = 1
  MaxBoots = 3
  Requests <- Mixed
  NextTickAfter <- MultipleAfter
  Ops = {"update", "remove", "enable", "disable", "stop", "crash", "cli"}
  SaveMayFail = TRUE
INVARIANTS AtMostOnce NeverForgotten IndInv
CHECK_DEADLOCK FALSE
