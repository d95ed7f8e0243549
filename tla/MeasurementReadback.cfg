\* A requested refresh is cancelled.
SPECIFICATION PublicationSpec
CONSTANTS
    fast = fast  slow = slow
    l1 = l1  l2 = l2
    s1 = s1  s2 = s2
    None = None
    NDevices = 1
    Models = {fast, slow}
    FastModels = {fast}
    IdModels = {slow}
    Layouts = {l1}
    Serials = {s1}
    Faults = {}
    SlowPeriod = 2
    Timeouts = {2}
    MaxFaults = 0
    MaxSwaps = 0
    MaxCancels = 1
    MaxRequests = 1
    MaxPolls = 4
    MaxTime = 1
    Dependencies <- OneModel
    Windowed = FALSE
    Window = 0
    StatusModel = fast
    Notices = FALSE
INVARIANTS
    ReadbackIsPublished
CHECK_DEADLOCK FALSE
