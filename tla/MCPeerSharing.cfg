CONSTANTS
    phone = phone
    tablet = tablet
    Devices = {phone, tablet}
    Holders = {tablet}
    Elsewhere <- PhoneElsewhere
    MaxGestures = 2
SPECIFICATION FairSpec
INVARIANTS
    PairsNeedConsent
    SharesNeedAChoice
PROPERTIES
    RevokedStaysOut
    PairingHeals
    SharingHeals
CHECK_DEADLOCK FALSE
