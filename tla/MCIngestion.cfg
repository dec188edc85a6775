SPECIFICATION MCSpec
CONSTANTS
    Items = {1, 2, 3}
    Keys = {1, 2}
    Capacity = 1
    EventCapacity = 1
    None = None
CHECK_DEADLOCK FALSE
INVARIANTS  ReceiptsAreTruthful 
PROPERTY AcceptedIsAnswered
