CONSTANTS
    now = now
    earlier = earlier
    Runs = {now}
    This = now
    Order = "inbox"
    MaxBatch = 1
    MaxFaults = 0
    MaxStale = 0
    KeepGoing = FALSE
    Cancel = FALSE
    Misfit = 3
SPECIFICATION Spec
CHECK_DEADLOCK FALSE
INVARIANTS InputBuffersEarly
