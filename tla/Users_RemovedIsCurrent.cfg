SPECIFICATION Spec
CONSTANTS
    Keys <- OneKey
    Anonymous = "anon"
    NoIdentity = "none"
    MaxObjects = 3
    MaxRequests = 2
    MaxCalls = 5
    MaxCrashes = 0
PROPERTY LoginMakesCurrent
CHECK_DEADLOCK FALSE
