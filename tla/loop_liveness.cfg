SPECIFICATION FairSpec
CONSTANTS
    Msgs = {m1, m2}
    Letters <- LiveLetters
    Resources = {"db"}
    Partitions = {"db_0", "db_1"}
    States <- MCStates
    NoState = NoState
    AnySession = AnySession
    MaxSession = 1
    MaxWithdraw = 0
    MaxDeleteError = 1
    SlowRounds = FALSE
INVARIANT NeverAwaitsConsumed
PROPERTIES OrdersRecorded MessagesExamined
CHECK_DEADLOCK FALSE
