\* Fair scheduling: recovery after the last fault, and closing.
SPECIFICATION FairSpec
CONSTANTS
    l1 = l1  l2 = l2
    None = None
    NDevices = 2
    Layouts = {l1, l2}
    MaxAge = 2
    Silent = {}
    MaxModels = 1
    MaxSteps = 1
    MaxFaults = 2
    MaxTime = 2
PROPERTIES
    Recovers
    Closes
CHECK_DEADLOCK FALSE
