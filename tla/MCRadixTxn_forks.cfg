SPECIFICATION Spec
CONSTANTS
    Byte = {1, 2}
    Key <- Keys3
    Writer = {w1, w2}
    Main = w1
    Reader = {}
    Classes = {2, 4}
    InitHeap <- PairHeap
    InitEpoch = 1
    MaxOps = 2
    MaxTxns = 2
    MaxWatches = 0
INVARIANTS
    Epochs
    OwnedBelowOwned
    SharedIsFrozen
    OneLeafPerValue
PROPERTIES
    FrozenImmutable
    ImplementsStore
