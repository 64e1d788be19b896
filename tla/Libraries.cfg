SPECIFICATION Spec
CONSTANTS
  Configs <- MCConfigs
  Inputs <- MCInputs
  Canon <- MCCanon
  Lower <- MCLower
  MaxResolved = 2
  MaxLen = 20
  MinBuffer = 4
  MinInside = 3
  NewlineWindow = 8
  SpaceWindow = 5
  Messages <- MCMessages
  WordLens = {2, 11}
  MaxLines = 3
  MaxRest = 60
  Searchers = {g1, g2}
  Queries <- MCQueries
  Registries = {r1, r2}
  MaxConcurrent = 1
  Found <- MCFound
  Limits = {2}
  MaxEntries = 2
  TTL = 2
  MaxTocks = 2
  MaxSearches = 3
  Tools = {a1, a2}
  Cli = "cli"
  Files = {"SKILL.md", "data"}
  Manifest = "SKILL.md"
  MaxInstalls = 3
  TokenUsers = {t1, t2}
  AuthCli = "auth"
  MaxIssued = 3
  MaxLogins = 1
INVARIANTS RoutesToBest  ChunksFit CacheConsistent  LoginsAreKept
SYMMETRY Symmetry
CHECK_DEADLOCK FALSE
