CONSTANTS
    Sessions = {a, b}
    None = None
    ServerCloses = FALSE
    MaxFaults = 1
    Columns <- MCColumns
    Seeds <- MCSeeds
    MaxAttempts = 3
    MaxOps = 1
SPECIFICATION Spec
INVARIANTS TypeOK CleanStart ServesOnSchema
PROPERTIES RemoteSpec LockFreed
CHECK_DEADLOCK FALSE
