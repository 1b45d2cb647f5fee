CONSTANTS
    Settings <- TabledRaceSettings
SPECIFICATION Spec
CHECK_DEADLOCK FALSE
INVARIANTS OnceIsEnough
