SPECIFICATION FairSpec
CONSTANTS
    a = a
    b = b
    m = m
    n = n
    NoRealm = NoRealm
    Realms = {a}
    Notifiers = {m}
    Programs <- Everything
    MaxVersion = 4
PROPERTY WaitsEnd
PROPERTY ChangesReported
CHECK_DEADLOCK FALSE
