SPECIFICATION AllSpec
CONSTANTS
    Nil = Nil
    MaxWindow = 4
    MaxCheckTime = 2
    SampleSpace <- Space
    MaxSamples = 3
    SampleWindow <- Window
    Bindings <- Networks
    Families <- SelectionFamilies
    Shapes <- Measured
    MaxHistoryRuns = 2
    MaxHistoryScan = 8
    HistoryWindow = 4
    MinSample = 1
    OperationTimeout = 2
    ComparisonTime = 2
    MaxRuns = 3
    MaxWall = 3
    MaxRestarts = 1
    MaxBindings = 1
    Receipts = {r1, r2}
    Threshold = 2
    FreshnessWindow = 3
    SlowStreakThreshold = 2
    MaxTime = 9
    MaxHistory = 3
    None = None
    Second = 2
    MaxReads = 4
    MaxDatagrams = 3
    MaxCall = 2
    Expiries = {5, 24}
SYMMETRY ReceiptSymmetry
CHECK_DEADLOCK FALSE
INVARIANTS   ComparedIsCurrent  MeasuredIsAccepted
