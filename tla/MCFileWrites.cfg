SPECIFICATION FairSpec
CONSTANTS
    s0 = s0
    w1 = w1
    w2 = w2
    d1 = d1
    p1 = p1
    Torn = Torn
    Seed = {s0}
    Writes = {w1, w2}
    Desk = {d1}
    Surgical = {p1}
    Peer = {p1}
PROPERTIES WholeWritesLand WritingIsLeftAlone SubmitMerges OrphansGo
