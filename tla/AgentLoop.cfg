SPECIFICATION Spec
CONSTANTS
  main = main
  helper = helper
  alice = alice
  bob = bob
  cli = cli
  Agents = {main}
  DefaultAgent = main
  Chats = {alice}
  Internal = cli
  Route <- OneRoute
  DirectRoute <- DirectToMain
  Session <- SharedSession
  Sessions <- OneAgentSessions
  MainSession <- MainOf
  Directs = {}
  Kinds = {"user", "system", "command"}
  CallLists <- MessageCalls
  MaxTurns = 2
  MaxIterations = 2
  MaxRetries = 2
  KeepMessages = 4
  SummarizeAbove = 6
  SinglePart = 2
INVARIANTS PromptsWellFormed 
CHECK_DEADLOCK FALSE
