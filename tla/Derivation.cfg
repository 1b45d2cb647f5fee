CONSTANTS
    Bits = {0, 1, 2, 3, 4, 5}
    Lsb = 0
    GarbleKeys = {1, 2}
    Hash <- RandomHash
    Commit <- IdealCommit
    Committed <- OpeningOf
    CounterMod = 16
    MaxBuffered = 5
    AskAbort = {0, 2}
    Plans <- TabledDerivationPlans
    Stream <- RandomStream
    DeltaOf <- RandomOffset
    GarbleKey <- KeyOfSeed
    Pads <- OnePad
    Masks = {{}}
    Order = 5
    Points <- EvaluationPoints
    Kdf <- KdfOf
    KeyNext <- Key
    RandomShare <- ShareOfKey
    ScalarOf <- NonZeroScalar
    Scalars = {2, 3}
    Width = 3
SPECIFICATION DerivationSpec
CHECK_DEADLOCK FALSE
INVARIANTS ConversionsKeepTheSecret DerivesFromTheSecret KeyPairsHoldTheBits RoundTripKeepsTheKey BufferSuffices WaitsEnd
