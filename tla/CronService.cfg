SPECIFICATION FairSpec
CONSTANTS
  MaxTime = 4
  MaxJobs = 2
  MaxBoots = 2
  Requests <- CronAndEvery
  NextTickAfter <- MultipleAfter
  Ops = {"remove", "disable", "stop", "crash"}
  SaveMayFail = TRUE
PROPERTIES RunsAreSpaced DueJobsRun
CHECK_DEADLOCK FALSE
