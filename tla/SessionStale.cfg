CONSTANTS
    now = now
    earlier = earlier
    Runs = {now, earlier}
    This = now
    Order = "pair"
    MaxBatch = 1
    MaxFaults = 0
    MaxStale = 1
    KeepGoing = TRUE
    Cancel = FALSE
    Misfit = 3
SPECIFICATION Spec
CHECK_DEADLOCK FALSE
INVARIANTS KeysAreOurs GarblersAgree
