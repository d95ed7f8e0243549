\* One device: failed reads, another unit, another layout.
SPECIFICATION PublicationSpec
CONSTANTS
    fast = fast  slow = slow
    l1 = l1  l2 = l2  s1 = s1  s2 = s2
    None = None
    NDevices = 1
    Models = {fast, slow}
    FastModels = {fast}
    IdModels = {slow}
    Layouts = {l1, l2}
    Serials = {s1, s2}
    Faults = {"failed", "invalid", "incompatible", "empty"}
    SlowPeriod = 1
    Timeouts = {1}
    MaxFaults = 2
    MaxSwaps = 1
    MaxCancels = 0
    MaxRequests = 1
    MaxPolls = 3
    MaxTime = 2
    Dependencies <- OneModel
    Windowed = TRUE
    Window = 1
    StatusModel = fast
    Notices = FALSE
SYMMETRY LayoutAndSerialSymmetry
CONSTRAINT UnitsScope
INVARIANTS
    OldUnitStaysForgotten
    ReadbackIsPublished
    StatusIsConfirmed
    MedianIsOfOneMode
PROPERTIES
    HeldUntilDisproved
    ReadingsAdvance
    DerivedForgetsOldUnit
CHECK_DEADLOCK FALSE
