SPECIFICATION FairSpec
CONSTANTS
    Clients = {c1, c2}
    Mixes <- MCMixes
    MaxCrashes = 1
INVARIANTS TypeOK SetupIsComplete AddedOnce Settled WaitsOnlyAfterDrop
PROPERTY CallsReturn
CHECK_DEADLOCK FALSE
