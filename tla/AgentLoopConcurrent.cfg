SPECIFICATION FairSpec
CONSTANTS
  main = main
  helper = helper
  alice = alice
  bob = bob
  cli = cli
  Agents = {main}
  DefaultAgent = main
  Chats = {alice}
  Internal = cli
  Route <- OneRoute
  DirectRoute <- DirectToMain
  Session <- SharedSession
  Sessions <- OneAgentSessions
  MainSession <- MainOf
  Directs = {"cron", "heartbeat"}
  Kinds = {"user"}
  CallLists <- OneCall
  MaxTurns = 2
  MaxIterations = 1
  MaxRetries = 1
  KeepMessages = 4
  SummarizeAbove = 6
  SinglePart = 2
INVARIANT NoOrphanResults
 
CHECK_DEADLOCK FALSE
