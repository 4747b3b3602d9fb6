SPECIFICATION Spec
CONSTANTS
    W = 4
    Room = 5
INVARIANTS
    RankFinds
PROPERTIES
    OwnLabelOnly
