SPECIFICATION Spec
CONSTANTS
    Nodes = {n1, n2}
    Period = 2
    Cleanup = 6
    Lateness = 1
    DropInRow = 2
    MaxStops = 1
INVARIANTS
    TypeOK
    NoStalePeers
PROPERTIES
    LivePeersKept
    Rediscovered
