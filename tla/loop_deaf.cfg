SPECIFICATION FairSpec
CONSTANTS
    Msgs = {m1}
    Letters <- FewLetters
    Resources = {"db"}
    Partitions = {"db_0", "db_1"}
    States <- MCStates
    NoState = NoState
    AnySession = AnySession
    MaxSession = 2
    MaxWithdraw = 0
    MaxDeleteError = 0
    SlowRounds = FALSE
PROPERTY MessagesExamined
CHECK_DEADLOCK FALSE
