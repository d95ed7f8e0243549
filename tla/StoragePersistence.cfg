\* Two devices share one file: failed and abandoned saves, expiry and cleanup.
SPECIFICATION Spec
CONSTANTS
    d1 = d1  d2 = d2  o1 = o1  o2 = o2  u1 = u1  u2 = u2  r1 = r1  r2 = r2
    low = low  high = high
    None = None
    Full = Full
    Devices = {d1, d2}
    Owners = {o1}
    UserProfiles = {u1, u2}
    RemoteProfiles = {r1}
    DefaultProfile = u1
    Reserves = {low}
    LeaseTime = 1
    Kinds <- KindsShared
    ModeRequests <- KeepMode
    PolicySettings <- NoPolicy
    Faults <- SaveFaults
    LowLevel = {}
    MayUnload = FALSE
    MaxTime = 1
    MaxWatchers = 1
    MaxBoots = 0
SYMMETRY DeviceSymmetry
INVARIANTS
    UserProfileSurvives
PROPERTIES
    ImplementsLease
CHECK_DEADLOCK FALSE
