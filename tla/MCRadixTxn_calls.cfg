SPECIFICATION Spec
CONSTANTS
    Byte = {1, 2}
    Key <- Keys5
    Writer = {w1}
    Main = w1
    Reader = {}
    Classes = {2, 4}
    InitHeap <- ForkHeap
    InitEpoch = 1
    MaxOps = 3
    MaxTxns = 2
    MaxWatches = 0
INVARIANTS
    TypeOK
    Shape
    SealedHasLeft
    LeftIsSealed
    RecordedOnce
