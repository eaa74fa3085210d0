CONSTANTS
    phone = phone
    tablet = tablet
    e1 = e1
    e2 = e2
    e3 = e3
    Devices = {phone, tablet}
    Own <- OneEach
    Clashes <- OfBoth
    MaxFailed = 0
SPECIFICATION Spec
INVARIANT SameInputsSameTree
CHECK_DEADLOCK FALSE
