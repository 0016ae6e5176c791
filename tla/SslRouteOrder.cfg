CONSTANTS
    Route = {r1, r2}
    Invalid = Invalid
    MaxRoutes = 2
    Main = Main
    Closers = {c1}
SPECIFICATION SslSpec
PROPERTY AllRoutesBeforeInterface
