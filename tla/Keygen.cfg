CONSTANTS
    Settings <- TabledKeygenSettings
SPECIFICATION FairSpec
CHECK_DEADLOCK FALSE
INVARIANTS TypeOK FailsOnlyOfRaces StrandedOnlyEarly
PROPERTIES EndIsFinal Settles AllShare
