------------------------- MODULE StorageLeaseProofs --------------------------
(***************************************************************************)
(* StorageControl implements StorageLease, and a snapshot is never replaced, *)
(* for every set of devices, owners, profiles and reserves.                 *)
(***************************************************************************)
EXTENDS StorageControlProofs

LEMMA LeaseStutter ==
    ASSUME \A d \in Devices :
              /\ Leased(d)' <=> Leased(d)
              /\ Leased(d) => leases'[d].owner = leases[d].owner /\ (Pending(d)' <=> Pending(d)),
           disk'.settings = disk.settings
    PROVE  UNCHANGED Lease!vars
<1>1. LeaseOwner' = LeaseOwner
  BY DEF LeaseOwner
<1>2. LeasePhase' = LeasePhase
  BY DEF LeasePhase
<1>. QED  BY <1>1, <1>2 DEF Lease!vars

LEMMA SameLease ==
    ASSUME UNCHANGED <<leaseVars, disk>>
    PROVE  UNCHANGED Lease!vars
<1>1. \A d \in Devices :
        /\ Leased(d)' <=> Leased(d)
        /\ Leased(d) => leases'[d].owner = leases[d].owner /\ (Pending(d)' <=> Pending(d))
  BY DEF Leased, Pending, leaseVars
<1>. QED  BY <1>1, LeaseStutter

\* A renewal by the owner is invisible to the abstract lease.
LEMMA RenewStutters ==
    ASSUME IndInv, NEW d \in Devices, NEW o \in Owners, Renew(d, o),
           Leased(d), leases[d].owner = o,
           UNCHANGED <<cleanup, disk>>
    PROVE  UNCHANGED Lease!vars
<1>. DEFINE renewed == [owner |-> o, expires |-> now + LeaseTime]
<1>1. renewed \in LeaseRecords /\ renewed # None /\ renewed.owner = o
  BY ConstantAssumption DEF IndInv, TypeOK, LeaseRecords
<1>2. leases' = [leases EXCEPT ![d] = renewed]
  BY DEF Renew
<1>. HIDE DEF renewed
<1>3. leases'[d] = renewed /\ \A x \in Devices : x # d => leases'[x] = leases[x]
  BY <1>2 DEF IndInv, TypeOK
<1>4. ASSUME NEW x \in Devices
      PROVE  /\ Leased(x)' <=> Leased(x)
             /\ Leased(x) => leases'[x].owner = leases[x].owner
             /\ Pending(x)' <=> Pending(x)
  BY <1>1, <1>3 DEF Leased, Pending
<1>. QED  BY <1>4, LeaseStutter

LEMMA BeginCleanupRefines ==
    ASSUME IndInv, NEW o, o.device \in Devices, BeginCleanup(o), UNCHANGED disk
    PROVE  [Lease!Next]_Lease!vars
<1>. SUFFICES ASSUME NEW d \in Devices, d = o.device PROVE [Lease!Next]_Lease!vars
  OBVIOUS
<1>1. /\ leases' = leases /\ cleanup' = [cleanup EXCEPT ![d] = 0]
      /\ Leased(d)
  BY DEF BeginCleanup, IndInv, LeaseHasSnapshot
<1>2. Pending(d)' /\ \A x \in Devices : x # d => (Pending(x)' <=> Pending(x))
  BY <1>1 DEF IndInv, TypeOK, Pending, NoCleanup
<1>3. \A x \in Devices : Leased(x)' <=> Leased(x)
  BY <1>1 DEF Leased
<1>4. LeaseOwner' = LeaseOwner
  BY <1>1, <1>3 DEF LeaseOwner
<1>5. CASE Pending(d)
  BY <1>1, <1>2, <1>3, <1>5, LeaseStutter
<1>6. CASE ~Pending(d)
  <2>1. LeasePhase[d] = "held"
    BY <1>1, <1>6 DEF LeasePhase
  <2>2. LeasePhase' = [LeasePhase EXCEPT ![d] = "cleanup"]
    BY <1>1, <1>2, <1>3 DEF LeasePhase
  <2>3. Lease!BeginCleanup(d)
    BY <1>4, <2>1, <2>2 DEF Lease!BeginCleanup
  <2>. QED  BY <2>3 DEF Lease!Next
<1>. QED  BY <1>5, <1>6

LEMMA EnterRefines ==
    ASSUME IndInv, NEW o, o.device \in Devices, Enter(o), UNCHANGED disk
    PROVE  [Lease!Next]_Lease!vars
<1>1. CASE BeginCleanup(o)
  BY <1>1, BeginCleanupRefines
<1>2. CASE BeginBody(o)
  BY <1>2, SameLease DEF BeginBody, leaseVars
<1>. QED  BY <1>1, <1>2 DEF Enter

LEMMA LockDevice ==
    ASSUME NEW k, NEW d, NEW o, NEW p, NEW m, NEW s
    PROVE  Lock(k, d, o, p, m, s).device = d
BY DEF Lock, NoOp

LEMMA RequestsRefine ==
    ASSUME IndInv, NEW d \in Devices, Requests(d)
    PROVE  [Lease!Next]_Lease!vars
<1>1. ASSUME NEW p, NEW m, Change(d, p, m)
      PROVE  [Lease!Next]_Lease!vars
  BY <1>1, EnterRefines, LockDevice DEF Change, Request
<1>2. ASSUME NEW s, WritePolicySetting(d, s)
      PROVE  [Lease!Next]_Lease!vars
  BY <1>2, EnterRefines, LockDevice DEF WritePolicySetting, Request
<1>3. ASSUME NEW o, NEW p, Acquire(d, o, p)
      PROVE  [Lease!Next]_Lease!vars
  BY <1>3, EnterRefines, LockDevice DEF Acquire, Request
<1>4. ASSUME NEW o, NEW p, Update(d, o, p)
      PROVE  [Lease!Next]_Lease!vars
  BY <1>4, SameLease DEF Update, Request, BeginBody, leaseVars
<1>5. ASSUME NEW o, NEW s, RemoteSetting(d, o, s)
      PROVE  [Lease!Next]_Lease!vars
  BY <1>5, SameLease DEF RemoteSetting, Request, BeginBody, leaseVars
<1>6. ASSUME NEW o \in Owners, Heartbeat(d, o)
      PROVE  [Lease!Next]_Lease!vars
  BY <1>6, RenewStutters DEF Heartbeat, Request, LiveOwner, Live
<1>7. ASSUME NEW o, Release(d, o)
      PROVE  [Lease!Next]_Lease!vars
  BY <1>7, BeginCleanupRefines, LockDevice DEF Release, Request
<1>. QED  BY <1>1, <1>2, <1>3, <1>4, <1>5, <1>6, <1>7 DEF Requests

LEMMA WatchdogRefines ==
    ASSUME IndInv, NEW d \in Devices, Watchdog(d)
    PROVE  [Lease!Next]_Lease!vars
<1>1. UNCHANGED disk
  BY DEF Watchdog
<1>2. CASE UNCHANGED leaseVars
  BY <1>1, <1>2, SameLease
<1>3. CASE BeginCleanup(Lock("watchdog", d, None, None, "keep", None))
  BY <1>1, <1>3, BeginCleanupRefines, LockDevice
<1>. QED  BY <1>2, <1>3 DEF Watchdog

\* Progress of a cleanup stays within the abstract "cleanup".
LEMMA ProgressStutters ==
    ASSUME IndInv, ~Idle, op.stage = "cleanup", NEW n \in 0..5,
           RecordProgress(op.device, n), UNCHANGED <<leases, pre_remote, phase, disk>>
    PROVE  UNCHANGED Lease!vars
<1>1. \A d \in Devices : Pending(d)' <=> Pending(d)
  BY RecordProgressKeeps
<1>2. \A d \in Devices : (Leased(d)' <=> Leased(d)) /\ leases'[d].owner = leases[d].owner
  BY DEF Leased
<1>. QED  BY <1>1, <1>2, LeaseStutter

LEMMA StepFailsRefines == ASSUME IndInv, StepFails PROVE UNCHANGED Lease!vars
<1>1. /\ op.pc = "write" /\ ~Idle
      /\ UNCHANGED <<leases, pre_remote, phase, disk>>
  BY DEF StepFails, Idle, lifecycle
<1>2. op.done \in 0..5
  <2>1. op.done \in Nat /\ op.done < Len(Steps(op)) /\ Len(Steps(op)) \in 1..6
    BY <1>1, StepsType DEF IndInv, TypeOK, OpIsWellFormed, OpRecords
  <2>. QED  BY <2>1, StepArithmetic
<1>3. CASE op.stage = "cleanup" /\ RecordProgress(op.device, op.done)
  BY <1>1, <1>2, <1>3, ProgressStutters
<1>4. CASE UNCHANGED cleanup
  BY <1>1, <1>4, SameLease DEF leaseVars
<1>. QED  BY <1>3, <1>4 DEF StepFails

LEMMA RefreshRefines ==
    ASSUME IndInv, RefreshCleanup \/ RefreshBody
    PROVE  UNCHANGED Lease!vars
<1>1. CASE RefreshCleanup
  BY <1>1, ProgressStutters DEF RefreshCleanup, Idle, lifecycle
<1>2. CASE RefreshBody
  <2>1. CASE UNCHANGED leases
    BY <1>2, <2>1, SameLease DEF RefreshBody, leaseVars
  <2>2. CASE op.kind = "setting" /\ Renew(op.device, op.owner)
    <3>1. /\ op.device \in Devices /\ op.owner \in Owners /\ Leased(op.device)
          /\ leases[op.device].owner = op.owner /\ UNCHANGED <<cleanup, disk>>
      BY <1>2, <2>2 DEF RefreshBody, IndInv, OpIsWellFormed, BodyIsAuthorised, Idle
    <3>. QED  BY <2>2, <3>1, RenewStutters
  <2>. QED  BY <1>2, <2>1, <2>2 DEF RefreshBody
<1>. QED  BY <1>1, <1>2

LEMMA SaveRefines == ASSUME IndInv, Save PROVE Lease!Save
<1>1. op.pc = "save" /\ UNCHANGED leaseVars /\ disk'.settings = Persisted
  BY DEF Save
<1>2. /\ Persisted \in [Devices -> UserProfiles \cup {None}]
      /\ \A d \in Devices : Leased(d) => Persisted[d] = pre_remote[d].power_settings
  BY <1>1, PersistedIsUser
<1>3. \A d \in Devices : Leased(d) => disk.settings[d] = pre_remote[d].power_settings
  BY DEF IndInv, UserProfileSurvives
<1>4. \A d \in Devices : LeasePhase[d] = "free" <=> ~Leased(d)
  BY DEF LeasePhase
<1>5. LeaseOwner' = LeaseOwner /\ LeasePhase' = LeasePhase
  BY <1>1 DEF LeaseOwner, LeasePhase, Leased, Pending, leaseVars
<1>. QED  BY <1>1, <1>2, <1>3, <1>4, <1>5 DEF Lease!Save, Lease!Free

LEMMA ConfirmCleanupRefines ==
    ASSUME IndInv, ConfirmCleanup
    PROVE  [Lease!Next]_Lease!vars
<1>. SUFFICES ASSUME NEW d \in Devices, d = op.device PROVE [Lease!Next]_Lease!vars
  BY DEF ConfirmCleanup, Idle, IndInv, OpIsWellFormed
<1>1. /\ EndLease(d) /\ Leased(d) /\ Pending(d) /\ disk' = disk
  BY DEF ConfirmCleanup, Idle, IndInv, CleanupIsAuthorised
<1>2. /\ ~Leased(d)'
      /\ \A x \in Devices : x # d => leases'[x] = leases[x] /\ cleanup'[x] = cleanup[x]
  BY <1>1, EndLeaseKeeps
<1>3. LeasePhase[d] = "cleanup"
  BY <1>1 DEF LeasePhase
<1>4. LeaseOwner' = [LeaseOwner EXCEPT ![d] = None]
  BY <1>2 DEF LeaseOwner, Leased
<1>5. LeasePhase' = [LeasePhase EXCEPT ![d] = "free"]
  BY <1>2 DEF LeasePhase, Leased, Pending
<1>6. Lease!Finish(d)
  BY <1>1, <1>3, <1>4, <1>5 DEF Lease!Finish
<1>. QED  BY <1>6 DEF Lease!Next

LEMMA ConfirmBodyRefines ==
    ASSUME IndInv, ConfirmBody
    PROVE  [Lease!Next]_Lease!vars
<1>. SUFFICES ASSUME NEW d \in Devices, d = op.device PROVE [Lease!Next]_Lease!vars
  BY DEF ConfirmBody, Idle, IndInv, OpIsWellFormed
<1>1. /\ op.pc = "confirm" /\ op.stage = "body" /\ ~Idle /\ UNCHANGED <<cleanup, disk>>
      /\ op.kind \in {"acquire", "update", "change"}
  BY CommitType DEF ConfirmBody, Idle
<1>2. CASE op.kind = "change"
  BY <1>1, <1>2, SameLease DEF ConfirmBody, leaseVars
<1>3. CASE op.kind # "change" /\ Leased(d)
  <2>1. Renew(d, op.owner) /\ op.owner \in Owners /\ leases[d].owner = op.owner
    BY <1>1, <1>3 DEF ConfirmBody, IndInv, OpIsWellFormed, BodyIsAuthorised
  <2>. QED  BY <1>1, <1>3, <2>1, RenewStutters
<1>4. CASE op.kind # "change" /\ ~Leased(d)
  <2>1. Renew(d, op.owner) /\ op.owner \in Owners /\ ~Pending(d)
    BY <1>1, <1>4 DEF ConfirmBody, IndInv, OpIsWellFormed, LeaseHasSnapshot
  <2>. DEFINE renewed == [owner |-> op.owner, expires |-> now + LeaseTime]
  <2>2. renewed \in LeaseRecords /\ renewed # None /\ renewed.owner = op.owner
    BY <2>1, ConstantAssumption DEF IndInv, TypeOK, LeaseRecords
  <2>3. leases' = [leases EXCEPT ![d] = renewed]
    BY <2>1 DEF Renew
  <2>. HIDE DEF renewed
  <2>4. leases'[d] = renewed /\ \A x \in Devices : x # d => leases'[x] = leases[x]
    BY <2>3 DEF IndInv, TypeOK
  <2>5. LeasePhase[d] = "free"
    BY <1>4 DEF LeasePhase
  <2>6. LeaseOwner' = [LeaseOwner EXCEPT ![d] = op.owner]
    BY <2>2, <2>4 DEF LeaseOwner, Leased
  <2>7. LeasePhase' = [LeasePhase EXCEPT ![d] = "held"]
    BY <1>1, <2>1, <2>2, <2>4 DEF LeasePhase, Leased, Pending
  <2>8. Lease!Grant(d, op.owner)
    BY <1>1, <2>5, <2>6, <2>7 DEF Lease!Grant, Lease!Free
  <2>. QED  BY <2>1, <2>8 DEF Lease!Next
<1>. QED  BY <1>2, <1>3, <1>4

LEMMA ForgetLeasesRefines ==
    ASSUME ForgetLeases, UNCHANGED disk
    PROVE  Lease!Discard
<1>1. \A d \in Devices : ~Leased(d)'
  BY DEF ForgetLeases, Leased
<1>2. LeaseOwner' = [d \in Devices |-> None] /\ LeasePhase' = [d \in Devices |-> "free"]
  BY <1>1 DEF LeaseOwner, LeasePhase
<1>. QED  BY <1>2 DEF Lease!Discard

LEMMA StepRefines == ASSUME IndInv, [Next]_vars PROVE [Lease!Next]_Lease!vars
<1>1. ASSUME NEW d \in Devices,
             Requests(d) \/ TimerFires(d) \/ Watchdog(d) \/ LowLevelWrite(d)
      PROVE  [Lease!Next]_Lease!vars
  <2>1. CASE Requests(d)
    BY <2>1, RequestsRefine
  <2>2. CASE Watchdog(d)
    BY <2>2, WatchdogRefines
  <2>3. CASE TimerFires(d) \/ LowLevelWrite(d)
    BY <2>3, SameLease DEF TimerFires, LowLevelWrite
  <2>. QED  BY <1>1, <2>1, <2>2, <2>3
<1>2. CASE Running
  <2>1. CASE PreflightPasses \/ PreflightFails \/ StepVerified \/ RefreshFails \/ SaveFails
    BY <2>1, SameLease
       DEF PreflightPasses, PreflightFails, StepVerified, RefreshFails, SaveFails
  <2>2. CASE StepFails \/ RefreshCleanup \/ RefreshBody
    BY <2>2, StepFailsRefines, RefreshRefines
  <2>3. CASE Save
    BY <2>3, SaveRefines DEF Lease!Next
  <2>4. CASE ConfirmCleanup \/ ConfirmBody
    BY <2>4, ConfirmCleanupRefines, ConfirmBodyRefines
  <2>. QED  BY <1>2, <2>1, <2>2, <2>3, <2>4 DEF Running
<1>3. CASE Tick \/ Cancel \/ Abandon \/ StartClosing \/ Close
  BY <1>3, SameLease DEF Tick, Cancel, Abandon, StartClosing, Close
<1>4. CASE ClearLeases \/ Restart
  BY <1>4, ForgetLeasesRefines DEF ClearLeases, Restart, Lease!Next
<1>5. CASE UNCHANGED vars
  BY <1>5, SameLease DEF vars
<1>. QED  BY <1>1, <1>2, <1>3, <1>4, <1>5 DEF Next

LEMMA InitRefines == ASSUME Init PROVE Lease!Init
<1>1. \A d \in Devices : ~Leased(d)
  BY DEF Init, Leased
<1>2. LeaseOwner = [d \in Devices |-> None] /\ LeasePhase = [d \in Devices |-> "free"]
  BY <1>1 DEF LeaseOwner, LeasePhase
<1>3. disk.settings \in [Devices -> UserProfiles \cup {None}]
  BY DEF Init
<1>. QED  BY <1>2, <1>3 DEF Lease!Init

\* Storage control implements the abstract lease: ownership passes only through
\* a completed cleanup, and the saved profile of a leased device is frozen.
THEOREM Refinement == Spec => ImplementsLease
<1>1. Init => Lease!Init
  BY InitRefines
<1>2. IndInv /\ [Next]_vars => [Lease!Next]_Lease!vars
  BY StepRefines
<1>. QED  BY <1>1, <1>2, Invariance, PTL DEF Spec, ImplementsLease, Lease!Spec


(***************************************************************************)
(* A snapshot is taken once.                                                *)
(***************************************************************************)
SnapshotKept == \A d \in Devices :
    pre_remote[d] # None /\ pre_remote'[d] # None => pre_remote'[d] = pre_remote[d]

LEMMA StepKeepsSnapshot == ASSUME IndInv, [Next]_vars PROVE SnapshotKept
<1>1. CASE UNCHANGED pre_remote
  BY <1>1 DEF SnapshotKept
<1>2. CASE ForgetLeases
  BY <1>2 DEF ForgetLeases, SnapshotKept
<1>3. CASE ConfirmCleanup
  <2>1. pre_remote' = [pre_remote EXCEPT ![op.device] = None]
    BY <1>3 DEF ConfirmCleanup, EndLease
  <2>. QED  BY <2>1 DEF IndInv, TypeOK, SnapshotKept
<1>4. CASE ConfirmBody
  <2>1. CASE FirstAcquire(op) /\ pre_remote' = [pre_remote EXCEPT ![op.device] = op.candidate]
    BY <2>1 DEF FirstAcquire, IndInv, TypeOK, SnapshotKept
  <2>. QED  BY <1>1, <1>4, <2>1 DEF ConfirmBody
<1>5. ASSUME NEW d \in Devices,
             Requests(d) \/ TimerFires(d) \/ Watchdog(d) \/ LowLevelWrite(d)
      PROVE  UNCHANGED pre_remote
  BY <1>5 DEF Requests, Change, WritePolicySetting, Acquire, Update, RemoteSetting, Heartbeat,
     Release, Enter, BeginBody, BeginCleanup, TimerFires, Watchdog, LowLevelWrite, leaseVars
<1>6. CASE Running
  BY <1>1, <1>3, <1>4, <1>6 DEF Running, PreflightPasses, PreflightFails, StepVerified,
     StepFails, RefreshCleanup, RefreshBody, RefreshFails, Save, SaveFails, leaseVars
<1>7. CASE Tick \/ Cancel \/ Abandon \/ StartClosing \/ Close \/ UNCHANGED vars
  BY <1>1, <1>7 DEF Tick, Cancel, Abandon, StartClosing, Close, vars, leaseVars
<1>8. CASE ClearLeases \/ Restart
  BY <1>2, <1>8 DEF ClearLeases, Restart
<1>. QED  BY <1>1, <1>5, <1>6, <1>7, <1>8 DEF Next

\* Neither updates, re-acquisition by the owner, a failed release nor changes
\* made behind this component replace the snapshot of a lease.
THEOREM SnapshotIsImmutableAlways == Spec => SnapshotIsImmutable
<1>1. IndInv /\ [Next]_vars => [SnapshotKept]_vars
  BY StepKeepsSnapshot
<1>. QED  BY <1>1, Invariance, PTL DEF Spec, SnapshotIsImmutable, SnapshotKept

=============================================================================
