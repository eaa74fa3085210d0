SPECIFICATION Spec
CONSTANTS
    s0 = s0
    l1 = l1
    l2 = l2
    l3 = l3
    r1 = r1
    r2 = r2
    lift = lift
    wavL = wavL
    wavP = wavP
    w1 = w1
    w2 = w2
    watcher = watcher
    Edits <- MCEdits
    Files <- MCFiles
    FileOf <- MCFileOf
    LiftFiles = {lift}
    Seed = {s0}
    Local = {l1}
    Peer = {r1, r2}
    Handlers = {w1}
    Drain = watcher
    Shapes = {"one"}
    Env = {"fetch"}
CHECK_DEADLOCK FALSE
PROPERTIES PushIsKeptByMerge
