CONSTANTS
    Requests = {r1, r2, r3}
    MaxPasswordBytes = 3
    MaxInput = 5
SPECIFICATION AuthSpec
INVARIANTS
    SamlTypeOK
    PortReleased
    FirstCallbackWins
    PasswordIsEntered
PROPERTY LoginEnds
