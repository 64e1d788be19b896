SPECIFICATION FairSpec
CONSTANTS
  Procs = {p1, p2}
  Channels = {telegram}
  Capacity = 1
  MaxCalls = 2
  NoProc = NoProc
INVARIANTS NoPanic ZeroOnlyWhenDrained IndInv
PROPERTIES  CallsReturn
