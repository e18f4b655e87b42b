SPECIFICATION Spec
CONSTANTS
    Images = {a, b}
    Fragments = 4
    MaxPackets = 3
    MaxItems = 2
INVARIANTS
    TypeOK
    NoUseAfterFree
    WrittenByOne
    FileIsRight
    EndedIsNoticed
SYMMETRY ImageSymmetry
CHECK_DEADLOCK FALSE
