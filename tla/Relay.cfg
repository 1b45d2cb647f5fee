CONSTANTS
    Bits = {0, 1, 2, 3, 4, 5}
    Lsb = 0
    GarbleKeys = {1, 2}
    Hash <- RandomHash
    Commit <- IdealCommit
    Committed <- OpeningOf
    CounterMod = 16
    MaxBuffered = 10
    AskAbort = {0, 2}
    Plans <- TabledRelayPlans
    Stream <- RandomStream
    DeltaOf <- RandomOffset
    GarbleKey <- KeyOfSeed
    Pads <- AllPads
    Masks = {{0, 3}}
SPECIFICATION Spec
CHECK_DEADLOCK FALSE
INVARIANTS TypeOK InStep NothingUnread OnlyFreePanics WaitsEnd
PROPERTIES Implements
