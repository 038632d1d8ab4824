\* A channel with room for one notification; programs of up to three calls.
CONSTANTS
    Nodes <- MCNodes
    Scenarios <- MCScenarios
    Tasks = {l1, l2}
    QueueCap = 1
    MaxChanges = 3
    MaxDeletes = 1
    MaxExpires = 1
SPECIFICATION FairSpec
INVARIANTS TypeOK QuietViewIsComplete QuietLiveInstancesAreCurrent OnlyMissedAreStale TracedOncePerLife
PROPERTIES CreatedIsShown WatchedWriteIsShown CallsReturn LiveInstanceIsTraced
CHECK_DEADLOCK FALSE
