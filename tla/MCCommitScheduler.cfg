CONSTANTS
    xx = xx
    yy = yy
    c1 = c1
    c2 = c2
    c3 = c3
    Watcher = watcher
    Other = other
    None = none
    Langs = {xx}
    Calls = {c1, c2, c3}
    LangOf <- OneProject
    MaxJobs = 2
    Env = {"crash", "commitfails", "busy", "refused", "reset"}
SPECIFICATION Spec
INVARIANTS
    JobSpeaksForCaller
    JobIsCarried
PROPERTY KeepsPromise
SYMMETRY CallSymmetry
CHECK_DEADLOCK FALSE
