SPECIFICATION Spec
CONSTANTS
    v1 = v1
    v2 = v2
    Versions = {v1, v2}
    Tasks = {t1, t2, t3}
    Size = 2
    Leftovers <- NoLeftover
    MaxIncarnations = 2
    Faults = 1
SYMMETRY Symmetry
CHECK_DEADLOCK FALSE
INVARIANTS
    OneReceiver
