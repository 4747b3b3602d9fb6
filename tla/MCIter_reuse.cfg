SPECIFICATION TreesSpec
CONSTANTS
    Byte = {1, 2}
    Key <- Deep
    Writer = {w1}
    Main = w1
    Reader = {}
    Classes = {2, 4}
    InitHeap <- NewHeap
    InitEpoch = 1
    MaxOps = 0
    MaxTxns = 0
    MaxWatches = 0
    Cursors = {c1}
    InlineFrames = 1
    MaxSeeks = 2
INVARIANTS
    StackOK
PROPERTIES
    IterReturns
    
