SPECIFICATION Spec
CONSTANTS
    Frames = {f1, f2}
    Names = {"a", "b"}
    Volumes <- MCVolumes
    MaxRequests = 3
    MaxOthers = 1
    MaxObjects = 6
INVARIANTS
    KernelKeeps
    RefsExact
    OneName
SYMMETRY Symmetry
CHECK_DEADLOCK FALSE
