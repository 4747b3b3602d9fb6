SPECIFICATION Spec
CONSTANTS
    W = 4
    Keys <- Keys3
    KeyLens = {3, 7}
    TrailMax = 6
    Classes = {2, 8}
    MaxOps = 4
INVARIANTS
    InlineNotShared
    AccessorsAgree
PROPERTIES
    ImplementsNodes
