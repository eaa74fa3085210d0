SPECIFICATION FairSpec
CONSTANTS
    a1 = a1
    a2 = a2
    b1 = b1
    daemon = daemon
    other = other
    Threads <- MCThreads
    Procs <- MCProcs
    ProcOf <- MCProcOf
    HasFlock = TRUE
    MaxDepth = 2
    NoThread = NoThread
    NoProc = NoProc
INVARIANTS MutualExclusion HolderIsTruthful NoFlockLeak
PROPERTIES ImplementsMutex AcquireReturns
