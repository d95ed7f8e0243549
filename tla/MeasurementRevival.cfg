\* The channel identities, read with every poll, name another unit.
SPECIFICATION PublicationSpec
CONSTANTS
    fast = fast  slow = slow
    l1 = l1  l2 = l2
    s1 = s1  s2 = s2
    None = None
    NDevices = 1
    Models = {fast, slow}
    FastModels = {fast}
    IdModels = {fast, slow}
    Layouts = {l1}
    Serials = {s1, s2}
    Faults = {}
    SlowPeriod = 2
    Timeouts = {2}
    MaxFaults = 0
    MaxSwaps = 1
    MaxCancels = 0
    MaxRequests = 1
    MaxPolls = 3
    MaxTime = 1
    Dependencies <- OneModel
    Windowed = FALSE
    Window = 0
    StatusModel = fast
    Notices = FALSE
INVARIANTS
    OldUnitStaysForgotten
CHECK_DEADLOCK FALSE
