SPECIFICATION ComponentsSpec
CONSTANTS
    MaxSize = 2
    IndexBound = 6
    OperandBound = 3
    MaxLength = 4
    MaxFound = 3
    MaxOps = 3
    QueryKeys = {1, 2, 3}
    ObjKeys = {1, 2}
    MaxNotifiers = 2
    MaxLog = 3
    TableA = {1, 2, 3}
    TableB = {4}
    PathLength = 3
    MaxList = 2
    TableContents <- MCTableContents
    LinkContents <- MCLinkContents
    PrimContents <- MCPrimContents
    MaxVersions = 2
    MaxDescriptors = 1
    MaxTokens = 2
    MaxChanges = 2
    SizeMax = 7
INVARIANTS
    ChunksVerified
    ChangesReplay
    ModificationsKept
    KvoExplainsOneMove
    CompleteUnlessMet
    AnswersAreReachability
    ShowsCurrent
    SnapshotKept
    HaveIsCached
    OnlyDueCalled
    AllDueCalled
    NothingPassedOver
PROPERTY ImplementsSet
CHECK_DEADLOCK FALSE
