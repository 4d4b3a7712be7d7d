SPECIFICATION ClientSpec
CONSTANTS
    Keys <- MCKeys
    Anonymous = "anon"
    NoIdentity = "none"
    MaxObjects = 3
    MaxRequests = 2
    MaxCalls = 4
    MaxCrashes = 1
    CopyNames = {"n1", "n2"}
    MaxContent = 4
    MaxDeaths = 2
    r1 = r1
    r2 = r2
    SchemaRealms = {r1, r2}
    Targets <- MCTargets
    Foreign <- MCForeign
    SchemaModes = {"Automatic", "Additive", "Manual", "ResetFile", "ReadOnly"}
    Numbers = {1, 2}
    Migrations <- MCMigrations
    MaxTransactions = 3
    InvokeThreads = {"client", "other"}
    ClientThread = "client"
    MaxTokens = 2
    MaxChanges = 3
    Watches <- MCWatches
    MaxBytes = 1
    MaxUpdates = 2
    MaxCommits = 1
    t1 = t1
    t2 = t2
    Threads = {t1, t2}
    Client = "client"
    NoSchemaGiven = "none"
    Configs <- MCConfigs
    Programs <- MCPrograms
    MaxOpens = 3
    MaxRealms = 2
    MaxCoordinators = 2
    MaxWaits = 2
SYMMETRY MCAlike
INVARIANTS
    LogoutSurvives
    LoginSurvives
    BackupKept
    NewRealmKept
    CacheAppliesToRange
    SchemaFitsFile
    HeardInOrder
    LastStateTold
    MeasuredOnce
    SettingsAgree
    ReferenceBinds
    AnsweredOnce
CHECK_DEADLOCK FALSE
