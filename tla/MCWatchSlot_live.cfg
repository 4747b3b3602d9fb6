SPECIFICATION Spec
CONSTANTS
    Root = root
    Copier = {c1}
    Watcher = {v1}
    Sealer = {s1, s2}
PROPERTIES
    Woken
    
