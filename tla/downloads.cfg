SPECIFICATION Spec
CONSTANTS
    v1 = v1
    v2 = v2
    Versions <- OneVersion
    Tasks = {t1, t2}
    Size = 2
    Leftovers <- AnyLeftover
    MaxIncarnations = 2
    Faults = 2
CHECK_DEADLOCK FALSE
INVARIANTS
    TypeOK
    FirstHasOneReceiver
    FirstReadyIsWhole
    FirstLeavesNoGap
    NoDeadProvider
PROPERTY DownloadEnds
