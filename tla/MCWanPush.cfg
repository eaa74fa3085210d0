CONSTANTS
    o1 = o1
    x1 = x1
    f1 = f1
    f2 = f2
    NoEdit = NoEdit
    Own = {o1}
    Lan = {x1}
    Foreign = {f1, f2}
    Capacity = 1
    MaxPromotes = 2
SPECIFICATION FairSpec
INVARIANTS
    PushedIsOnHost
    MirrorNotAhead
    TopicIsOurs
PROPERTIES
    ImplementsSharing
    CommittedGetsThrough
CHECK_DEADLOCK FALSE
