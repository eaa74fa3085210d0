CONSTANTS
    phone = phone
    tablet = tablet
    e1 = e1
    e2 = e2
    e3 = e3
    Devices = {phone, tablet}
    Own <- MCOwn
    Clashes <- OfPhone
    MaxFailed = 0
SPECIFICATION FairSpec
INVARIANT SameInputsSameTree
PROPERTIES
    MergesUnite
    PushesForward
    Converges
CHECK_DEADLOCK FALSE
