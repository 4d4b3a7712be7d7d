SPECIFICATION Spec
CONSTANTS
    a = a
    b = b
    m = m
    n = n
    NoRealm = NoRealm
    Realms = {a}
    Notifiers = {m}
    Programs <- SkipOwnWrites
    MaxVersion = 4
INVARIANT SkipHonoured
CHECK_DEADLOCK FALSE
