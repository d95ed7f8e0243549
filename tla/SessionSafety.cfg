\* Two devices, one of them behind a gateway that hides its moves.
SPECIFICATION Spec
CONSTANTS
    l1 = l1  l2 = l2
    None = None
    NDevices = 2
    Layouts = {l1, l2}
    MaxAge = 2
    Silent = {1}
    MaxModels = 2
    MaxSteps = 2
    MaxFaults = 2
    MaxTime = 2
SYMMETRY LayoutSymmetry
INVARIANTS
    TypeOK
    LiveModelsAreCurrent
    NoMisdirectedWrite
    ClosedForGood
    StaleWriteIsBounded
CHECK_DEADLOCK FALSE
