CONSTANTS
    l1 = l1
    t1 = t1
    t2 = t2
    Langs = {l1}
    Threads = {t1, t2}
    Runs <- TheRuns
    MaxCommits = 1
    MaxCrashes = 1
    Threshold = 1
    MaxVisits = 1
    MaxIters = 1
SPECIFICATION FairSpec
INVARIANTS
    OnePush
    ClaimIsHeld
PROPERTIES
    CommittedIsPushed
CHECK_DEADLOCK FALSE
