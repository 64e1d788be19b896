SPECIFICATION Spec
CONSTANTS
  run = run
  cron = cron
  api = api
  openai = openai
  Workers = {run, cron, api}
  Providers = {openai}
  Candidates <- TwoModels
  Cancelable = {run}
  Errors <- SomeErrors
  Delays = {250, 1250}
  MaxTime = 1501
  MaxCalls = 2
  MaxRetries = 1
INVARIANTS BackoffIsHonoured 
CHECK_DEADLOCK FALSE
