SPECIFICATION Spec
CONSTANTS
    Byte = {1, 2, 3}
    Key <- Keys4
    Writer = {w1}
    Main = w1
    Reader = {}
    Classes = {2, 4}
    InitHeap <- NewHeap
    InitEpoch = 0
    MaxOps = 4
    MaxTxns = 1
    MaxWatches = 0
INVARIANTS
    KidsFit
PROPERTIES
    ImplementsStore
