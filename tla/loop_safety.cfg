SPECIFICATION Spec
CONSTANTS
    Msgs = {m1, m2}
    Letters <- AllLetters
    Resources = {"db"}
    Partitions = {"db_0", "db_1"}
    States <- MCStates
    NoState = NoState
    AnySession = AnySession
    MaxSession = 2
    MaxWithdraw = 1
    MaxDeleteError = 1
    SlowRounds = TRUE
INVARIANTS TypeOK LoopInv NoMessageForgotten
PROPERTY KeepsContract
SYMMETRY Symmetric
CHECK_DEADLOCK FALSE
