SPECIFICATION FairSpec
CONSTANTS
    Participants = {p1}
    Limits <- OneLimit
PROPERTY ConnectedListens
CHECK_DEADLOCK FALSE
