\* Chains of up to three models; one storage or controls model is written.
SPECIFICATION Spec
CONSTANTS
    Base = 4096
    Places = 2
    None = None
    Malformed = Malformed
    Start = 2
    MaxAddress = 150
    MaxModels = 3
    Headers <- MCHeaders
    EndModel = 65535
    Payloads <- MCPayloads
    Plain <- MCPlain
    Requests <- MCRequests
    Files <- MCFiles
    Settings <- MCSettings
INVARIANTS
    ChainFits
    VerifiedWriteIsPolled
    WindowHonoursSettings
    SnapshotIsRestorable
    TopologySurvives
CHECK_DEADLOCK FALSE
