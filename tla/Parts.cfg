CONSTANTS
    MaxAdds <- Adds
    BlockBits = 64
    LengthBits = 16
    DigestBits = 32
    InputLimit = 192
    OverflowChecks = FALSE
    MaxKeyBytes = 10
    MaxMsgBytes = 25
    WordBytes = 2
    BlockWords = 2
    LowBlocks = 2
    HighBlocks = 3
    Streams = {0, 1}
    MaxFill = 9
    MaxWords = 6
SPECIFICATION Spec
INVARIANTS SumExact ComparesExact SharingsVerified HashesStandard MatchesReference DrawnOnce
