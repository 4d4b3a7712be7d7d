SPECIFICATION Spec
CONSTANTS
    a = a
    b = b
    m = m
    n = n
    NoRealm = NoRealm
    Realms = {a, b}
    Notifiers = {m, n}
    Programs <- Observing
    MaxVersion = 3
INVARIANT AssertionsHold
INVARIANT PackageHasOneVersion
INVARIANT NothingMissed
INVARIANT ReportedOnce
INVARIANT SkipFindsNothing
CHECK_DEADLOCK FALSE
