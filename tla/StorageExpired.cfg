\* An operation that passed its ownership check before the deadline renews after it.
SPECIFICATION Spec
CONSTANTS
    d1 = d1  d2 = d2  o1 = o1  o2 = o2  u1 = u1  u2 = u2  r1 = r1  r2 = r2
    low = low  high = high
    None = None
    Full = Full
    Devices = {d1}
    Owners = {o1}
    UserProfiles = {u1}
    RemoteProfiles = {r1}
    DefaultProfile = u1
    Reserves = {low}
    LeaseTime = 1
    Kinds <- KindsTakeover
    ModeRequests <- AllModes
    PolicySettings <- NoPolicy
    Faults <- AllFaults
    LowLevel = {}
    MayUnload = TRUE
    MaxTime = 2
    MaxWatchers = 1
    MaxBoots = 0
PROPERTIES
    ExpiredLeaseIsNotRenewed
CHECK_DEADLOCK FALSE
