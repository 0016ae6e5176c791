CONSTANTS
    Adders = {a1}
    Loaders = {}
    Layers <- MCLayers
    Originals <- MCOriginals
    Additions <- MCAdditions
    MaxInstances = 4
SPECIFICATION ConfigSpec
INVARIANT AddedLoads
