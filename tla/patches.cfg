SPECIFICATION Spec
CONSTANTS
    Workers = {w1}
    Texts = {empty, t1, t2}
    EmptyText = empty
    Absent = Absent
    Partial = Partial
    NoChange = NoChange
    Objects = {o1, o2, o3}
    NoObject = NoObject
    MaxPoints = 2
    MaxEdits = 1
    MaxCrashes = 1
INVARIANTS
    FileWhole
    UndoRecorded
PROPERTIES
    KeepsFileContract
CHECK_DEADLOCK FALSE
SYMMETRY Symmetry
