\* One device, two owners: leases, faults, unloading, a crash and the next start.
SPECIFICATION Spec
CONSTANTS
    d1 = d1  d2 = d2  o1 = o1  o2 = o2  u1 = u1  u2 = u2  r1 = r1  r2 = r2
    low = low  high = high
    None = None
    Full = Full
    Devices = {d1}
    Owners = {o1, o2}
    UserProfiles = {u1}
    RemoteProfiles = {r1}
    DefaultProfile = u1
    Reserves = {low, high}
    LeaseTime = 2
    Kinds <- KindsLease
    ModeRequests <- AllModes
    PolicySettings <- AllPolicySettings
    Faults <- AllFaults
    LowLevel = {}
    MayUnload = TRUE
    MaxTime = 2
    MaxWatchers = 1
    MaxBoots = 1
SYMMETRY OwnerSymmetry
INVARIANTS
    TypeOK
    LeaseHasSnapshot
    WatchdogArmed
    EnforcedWindowIsOneProfile
    RecordedAutomaticIsNeutral
    RemoteStateIsOwned
PROPERTIES
    LeaseEndsRestored
    NeutralBeforeRestore
CHECK_DEADLOCK FALSE
