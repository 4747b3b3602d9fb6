SPECIFICATION Spec
CONSTANTS
    Root = root
    Copier = {c1, c2}
    Watcher = {v1, v2}
    Sealer = {s1, s2}
SYMMETRY Symmetry
INVARIANTS
    NeverClosedTwice
    OneIdentity
    NoLostWakeup
    NoFalseAlarm
PROPERTIES
    OneWay
