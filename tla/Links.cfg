SPECIFICATION FairSpec
CONSTANTS
  Clients = {"onebot", "core", "mcp"}
  MaxCalls = 4
  Limit <- LimitOf
  MaxConns = 2
  Prefixes = {"", "fin_"}
  Adapters = {"onebot", "xmpp", "whatsapp", "maixcam"}
  MaxSocks = 3
  MaxHeard = 2
  ReadErrors = 2
  Rooms = {"room"}
  Friends = {"ann", "room", "maixcam"}
INVARIANTS PanicOnlyAtStop LeftOpenOnlyByRace
PROPERTIES ImplementsCalls  ComesBack
CHECK_DEADLOCK FALSE
