CONSTANTS
    Adders = {a1, a2}
    Loaders = {l1}
    Layers <- MCLayers
    Originals <- MCOriginals
    Additions <- MCAdditions
    MaxInstances = 2
SPECIFICATION ConfigSpec
INVARIANTS
    ConfigTypeOK
    FileWhole
    SecretsPrivate
    Consistent
