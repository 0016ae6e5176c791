CONSTANTS
    Packets = {p1, p2}
    Closers = {c1, c2}
    MaxInput = 2
SPECIFICATION RelaySpec
INVARIANTS
    RelayTypeOK
    DialSettles
    CloseWaits
    Faithful
PROPERTIES
    RelayEnds
    ImplementsRelayContract
