\* Two devices that fail, fall silent and answer; a value derived from both.
SPECIFICATION PublicationSpec
CONSTANTS
    fast = fast  slow = slow
    l1 = l1  l2 = l2  s1 = s1  s2 = s2
    None = None
    NDevices = 2
    Models = {fast}
    FastModels = {fast}
    IdModels = {}
    Layouts = {l1}
    Serials = {s1}
    Faults = {"failed", "partial"}
    SlowPeriod = 2
    Timeouts = {1, 2}
    MaxFaults = 2
    MaxSwaps = 0
    MaxCancels = 1
    MaxRequests = 0
    MaxPolls = 3
    MaxTime = 5
    Dependencies <- TwoDevices
    Windowed = FALSE
    Window = 0
    StatusModel = fast
    Notices = TRUE
CONSTRAINT HealthScope
INVARIANTS
    TypeOK
    PublicationTypeOK
    ExpiredReadingStaysHidden
    DerivedIsNotRevived
    DerivedIsCoherent
PROPERTIES
    ExpiryNeedsSilence
    SilenceExpires
    RecoveryNeedsAnswer
    SlowPeriodsStayAnchored
CHECK_DEADLOCK FALSE
