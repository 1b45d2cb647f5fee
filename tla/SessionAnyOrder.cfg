CONSTANTS
    now = now
    earlier = earlier
    Runs = {now, earlier}
    This = now
    Order = "any"
    MaxBatch = 2
    MaxFaults = 0
    MaxStale = 0
    KeepGoing = FALSE
    Cancel = TRUE
    Misfit = 1
SPECIFICATION FairSpec
CHECK_DEADLOCK FALSE
INVARIANTS QuiescentIsDone FreshLabels OnlyKnownRaces OpensWhatFits
PROPERTIES Settles
