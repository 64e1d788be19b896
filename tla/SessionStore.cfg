SPECIFICATION Spec
CONSTANTS
  k1 = k1
  k2 = k2
  f1 = f1
  f2 = f2
  Keys = {k1, k2}
  Files = {f1, f2}
  FileOf <- OwnFiles
  Rejected = {}
  Savers = {s1, s2}
  Keep = 1
  MaxOps = 3
INVARIANTS AckedSaveSurvives IndInv
PROPERTY RestartMapsBack
