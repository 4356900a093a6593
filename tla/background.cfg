SPECIFICATION Spec
CONSTANTS
    Loop = loop
    Others = {shell}
    Futures = {f1, f2, f3, f4}
CHECK_DEADLOCK FALSE
INVARIANTS
    TypeOK
    KeptWhileRunning
    DoneForgotten
