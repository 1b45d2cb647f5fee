CONSTANTS
    now = now
    earlier = earlier
    Runs = {now}
    This = now
    Order = "pair"
    MaxBatch = 1
    MaxFaults = 1
    MaxStale = 0
    KeepGoing = TRUE
    Cancel = FALSE
    Misfit = 3
SPECIFICATION Spec
CHECK_DEADLOCK FALSE
INVARIANTS TypeOK OutputInOrder
PROPERTIES ImplementsRelease EndIsFinal
