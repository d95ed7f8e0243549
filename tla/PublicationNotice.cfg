\* Storage control notifies the listeners in the middle of a refresh.
SPECIFICATION PublicationSpec
CONSTANTS
    fast = fast  slow = slow
    l1 = l1  l2 = l2  s1 = s1  s2 = s2
    None = None
    NDevices = 1
    Models = {fast}
    FastModels = {fast}
    IdModels = {fast}
    Layouts = {l1}
    Serials = {s1, s2}
    Faults = {}
    SlowPeriod = 2
    Timeouts = {1}
    MaxFaults = 0
    MaxSwaps = 1
    MaxCancels = 0
    MaxRequests = 1
    MaxPolls = 3
    MaxTime = 0
    Dependencies <- OneModel
    Windowed = FALSE
    Window = 0
    StatusModel = fast
    Notices = TRUE
SYMMETRY SerialSymmetry
PROPERTIES
    DerivedForgetsOldUnit
CHECK_DEADLOCK FALSE
