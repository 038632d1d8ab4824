SPECIFICATION Spec
CONSTANTS
    Msgs = {m1, m2}
    Letters <- FewLetters
    Resources = {"db"}
    Partitions = {"db_0", "db_1"}
    States <- MCStates
    NoState = NoState
    AnySession = AnySession
    MaxSession = 1
    MaxWithdraw = 0
    MaxDeleteError = 0
    SlowRounds = FALSE
INVARIANT NoSpuriousConflict
CHECK_DEADLOCK FALSE
