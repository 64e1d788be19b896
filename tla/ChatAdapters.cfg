SPECIFICATION Spec
CONSTANTS
  Platforms <- MCPlatforms
  Inputs <- MCInputs
  Handlers = {h1, h2}
  AllowList <- MCAllowList
  Bot = "u_bot"
  None = "none"
  MentionOnly = TRUE
  Window = 2
  LineMaxAge = 1
  LineLife = 2
  AppLife = 2
  MaxEvents <- MCMaxEvents
  MaxSends <- MCMaxSends
  MaxChunks = 2
  MaxClock = 2
SYMMETRY Symmetry
INVARIANTS MarksUsedOnce  NoDuplicateBeforeOverflow SentMeansDelivered IndicatorsAreKept RepliesGoBack
CHECK_DEADLOCK FALSE
