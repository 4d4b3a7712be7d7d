SPECIFICATION SchemaUpdatesSpec
CONSTANTS
    r1 = r1
    r2 = r2
    SchemaRealms = {r1, r2}
    Targets <- MCForeign
    Foreign <- MCForeign
    SchemaModes = {"Additive"}
    Numbers = {1, 2}
    Migrations <- MCMigrations
    MaxTransactions = 4
SYMMETRY MCRealms
INVARIANT AdvanceAssertionHolds
CHECK_DEADLOCK FALSE
