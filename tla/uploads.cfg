SPECIFICATION UploadsSpec
CONSTANTS
    v1 = v1
    v2 = v2
    Versions <- OneVersion
    Tasks = {t1, t2}
    Uploaders = {u1}
    Size = 1
    Leftovers <- NoLeftover
    MaxIncarnations = 2
    Faults = 1
CHECK_DEADLOCK FALSE
INVARIANTS
    UploadsTypeOK
    ConsumersAreServed
PROPERTIES
    UploadEnds
    FirstStaysOffered
