CONSTANTS
    Route = {r1, r2}
    Invalid = Invalid
    MaxRoutes = 3
    Main = Main
    Closers = {c1}
SPECIFICATION SslFairSpec
INVARIANTS
    SslTypeOK
    CleanupRemovesAll
    RollbackRemovesRecorded
    ConnectErrorReleases
    ReleasedOnReturn
    ErrorHasCause
PROPERTIES
    RoutesBeforeInterface
    ImplementsContract
    TeardownCompletes
