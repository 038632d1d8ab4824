SPECIFICATION Spec
CONSTANTS
    Clients = {c1, c2}
    Mixes <- OneMix
    MaxCrashes = 0
INVARIANT ExistingCanBeDropped
CHECK_DEADLOCK FALSE
