SPECIFICATION Spec
CONSTANTS
    Names = {n1, n2}
    Contents = {c1, c2}
    Absent = absent
SYMMETRY Symmetry
INVARIANTS
    TypeOK
    SavedAsIs
PROPERTIES
    LoadedReadyIsValid
    KeepsALedger
