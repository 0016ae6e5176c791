CONSTANTS
    Route = {r1}
    Invalid = Invalid
    MaxRoutes = 1
    Main = Main
    Closers = {c1}
SPECIFICATION SslSpec
INVARIANT OrderlyStopIsNil
