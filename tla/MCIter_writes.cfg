SPECIFICATION IterSpec
CONSTANTS
    Byte = {1, 2}
    Key <- Keys3
    Writer = {w1}
    Main = w1
    Reader = {}
    Classes = {2, 4}
    InitHeap <- PairHeap
    InitEpoch = 1
    MaxOps = 2
    MaxTxns = 1
    MaxWatches = 0
    Cursors = {c1}
    InlineFrames = 1
    MaxSeeks = 1
INVARIANTS
    FramesFrozen

    
