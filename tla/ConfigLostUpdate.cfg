CONSTANTS
    Adders = {a1, a2}
    Loaders = {}
    Layers <- MCLayers
    Originals <- MCOriginals
    Additions <- MCAdditions
    MaxInstances = 3
SPECIFICATION ConfigSpec
PROPERTY AppendIsAtomic
