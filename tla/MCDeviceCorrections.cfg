SPECIFICATION DevicesSpec
CONSTANTS
  Obs = {1, 2, 3}
  Fresh = {4, 5}
  Macs = {m1, m2}
  Times = {1, 3}
  Horizon = 1
  MaxMerges = 2
  MaxSplits = 2
  MaxDetail = 2
  MaxQueryLimit = 2
CONSTRAINT InOrder
SYMMETRY MacSymmetry
CHECK_DEADLOCK FALSE
INVARIANTS   MergeKeepsContinuity
PROPERTIES AttachesToOwner
