SPECIFICATION DevicesSpec
CONSTANTS
  Obs = {1, 2, 3}
  Fresh = {4}
  Macs = {m1}
  Times = {1, 2, 3}
  Horizon = 3
  MaxMerges = 1
  MaxSplits = 2
  MaxDetail = 2
  MaxQueryLimit = 1
CONSTRAINT InOrder
CHECK_DEADLOCK FALSE
INVARIANT LinksMoveTogether
