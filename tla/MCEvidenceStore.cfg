SPECIFICATION MCSpec
CONSTANTS
    o1 = o1
    o2 = o2
    d1 = d1
    d2 = d2
    Obs = {o1, o2}
    Devices = {d1, d2}
    Corrected = {d2}
    Retention = 1
    MaxSkew = 1
    MaxRecords = 2
    MaxBytes = 3
    MaxRows = 1
    MaxBatches = 1
    MaxTime = 2
    SetBack = TRUE
    MaxHeld = 2
    MaxId = 2
    None = None
CHECK_DEADLOCK FALSE
INVARIANTS IndexesAgree ReferencesResolve
PROPERTIES ImplementsRetention DueEvidenceGoes
