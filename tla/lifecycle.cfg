SPECIFICATION FairSpec
CONSTANTS
    Participants = {p1, p2}
    Limits <- MCLimits
INVARIANTS TypeOK StartedHasLoop UpIsRegistered NoOrderLost
PROPERTIES ConnectReturns 
CHECK_DEADLOCK FALSE
