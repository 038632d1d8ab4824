SPECIFICATION Spec
CONSTANTS
    Clients = {c1, c2, c3}
    Connections = {c1, c2, c3}
    ConnOf <- MCConnOf
    Fields = {"HELIX_ENABLED", "NUM_PARTITIONS"}
    Values = {"true", "false", "6", "8"}
    NoValue = NoValue
    Definitions <- TwoDefinitions
    Updates <- TwoFields
    MaxCalls = 5
    MaxCreates = 2
INVARIANTS TypeOK AcceptedSetIsCurrent
PROPERTY UpdatesAreAtomic
SYMMETRY Symmetric
CHECK_DEADLOCK FALSE
