CONSTANTS
    phone = phone
    tablet = tablet
    e1 = e1
    e2 = e2
    e3 = e3
    Devices = {phone, tablet}
    Own <- OneEach
    Clashes = {}
    MaxFailed = 2
SPECIFICATION Spec
PROPERTY ImplementsSharing
CHECK_DEADLOCK FALSE
