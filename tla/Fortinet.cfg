CONSTANT Modes = {"auto", "ipv4", "ipv6", "dual"}
SPECIFICATION FortinetSpec
INVARIANTS
    FortinetTypeOK
    ModeHonoured
    TunnelHandedOver
PROPERTY SetupEnds
