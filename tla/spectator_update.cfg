\* One resource that is created and written.
CONSTANTS
    Nodes <- OneNode
    Scenarios <- OneProgram
    Tasks = {l1}
    QueueCap = 2
    MaxChanges = 3
    MaxDeletes = 0
    MaxExpires = 0
SPECIFICATION Spec
INVARIANT QuietViewIsCurrent
CHECK_DEADLOCK FALSE
