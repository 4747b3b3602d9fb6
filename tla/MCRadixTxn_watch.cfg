SPECIFICATION Spec
CONSTANTS
    Byte = {1, 2}
    Key <- Keys3
    Writer = {w1}
    Main = w1
    Reader = {r1}
    Classes = {2, 4}
    InitHeap <- PairHeap
    InitEpoch = 1
    MaxOps = 2
    MaxTxns = 2
    MaxWatches = 1
INVARIANTS
    NoLostWakeup
    WokenSeesChange
    WatchedIsFrozen
    LeafOnCopies
    RecordedIsFrozen
