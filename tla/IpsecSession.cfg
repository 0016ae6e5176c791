CONSTANTS
    Main = Main
    Closers = {c1}
    Children = 2
SPECIFICATION IpsecSpec
INVARIANTS
    IpsecTypeOK
    CleanOrReported
    ReturnReleases
    RelayClosedLast
    ErrorsAreReal
PROPERTIES
    OrderlyStop
    LossDetected
    StopsWhenTold
    ImplementsContract
