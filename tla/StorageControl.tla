--------------------------- MODULE StorageControl ---------------------------
(***************************************************************************)
(* High-level storage control: power profiles, the remote lease with its   *)
(* watchdog, and the fail-safe cleanup (storage_control.py), on top of the  *)
(* verified write sequences of write_runtime.py.                            *)
(*                                                                          *)
(* Everything runs on one event loop under one asyncio.Lock, so at most one *)
(* operation is past the lock: "op" is that operation, suspended at the     *)
(* await named by op.pc.  Between two of its steps the clock ticks, timers  *)
(* fire, the caller is cancelled, the entry is unloaded or the process      *)
(* dies.  Calls that the code rejects before changing anything are          *)
(* stuttering steps.                                                        *)
(***************************************************************************)
EXTENDS Integers, Sequences, FiniteSets

CONSTANTS
    Devices,            \* storage device ids of one config entry
    Owners,             \* remote controllers
    UserProfiles,       \* PowerSettings a user can choose
    RemoteProfiles,     \* PowerSettings a remote owner can ask for
    DefaultProfile,     \* values() of a device without saved settings
    Reserves,           \* values of MinRsvPct
    Full,               \* 100 % in InWRte and OutWRte
    None,               \* absent: Python's None or a missing key
    LeaseTime,          \* REMOTE_LEASE_SECONDS
    Kinds,              \* bound: which requests callers make
    ModeRequests,       \* bound: the mode changes users ask for
    PolicySettings,     \* bound: the reserve and grid requests callers make
    Faults,             \* bound: which steps of an operation may fail
    LowLevel,           \* the register writes that others issue
    MayUnload,          \* bound: is the entry ever unloaded?
    MaxTime,            \* bound: last tick of the clock
    MaxWatchers,        \* bound: queued watchdog tasks of one device
    MaxBoots            \* bound: restarts of the process

Profiles == UserProfiles \cup RemoteProfiles
LeaseRecords == [owner : Owners, expires : Nat]
Snapshots == [reserve : Reserves, grid : BOOLEAN, power_settings : UserProfiles]
Settings == ({"reserve"} \X Reserves) \cup ({"grid"} \X BOOLEAN)
RegisterWrites ==
    ({"mode"} \X (0..3)) \cup ({"in", "out"} \X ({Full} \cup Profiles)) \cup Settings
AllKinds == {"acquire", "update", "setting", "heartbeat", "release",
             "change", "policy"}

ASSUME ConstantAssumption ==
    /\ DefaultProfile \in UserProfiles
    /\ UserProfiles \cap RemoteProfiles = {}
    /\ Full \notin Profiles
    /\ None \notin Devices \cup Owners \cup Profiles \cup LeaseRecords \cup Snapshots
    /\ LeaseTime \in Nat \ {0}
    /\ PolicySettings \subseteq Settings
    /\ Kinds \subseteq AllKinds
    /\ Faults \subseteq {"preflight", "write", "refresh", "save", "cancel"}
    /\ ModeRequests \subseteq {"keep", "automatic", "manual"}
    /\ LowLevel \subseteq RegisterWrites
    /\ MayUnload \in BOOLEAN
    /\ {MaxTime, MaxWatchers, MaxBoots} \subseteq Nat

VARIABLES
    leases,         \* _leases[d]: owner and deadline, or None
    pre_remote,     \* _pre_remote[d]: what the lease must give back, or None
    cleanup,        \* _cleanup[d].verified_steps, or NoCleanup
    timers,         \* _watchdogs[d]: when the armed timer fires, or Never
    watchers,       \* watchdog tasks of d that wait for the lock
    settings,       \* settings[d] in memory, None when never chosen
    modes,          \* modes[d] in memory
    last_targets,   \* last_targets[d] in memory: None, "neutral" or a profile
    disk,           \* the readable storage file
    hw,             \* the five registers of each device
    now,            \* hass.loop.time()
    phase,          \* "open", "closing", "closed" (_closed set), "cleared"
    readOnly,       \* the store was made read-only by a failed load
    boots,          \* restarts so far
    op              \* the operation that holds the lock

leaseVars == <<leases, pre_remote, cleanup>>
timerVars == <<timers, watchers>>
memory    == <<settings, modes, last_targets>>
lifecycle == <<phase, readOnly, boots>>
vars == <<leaseVars, timerVars, memory, disk, hw, now, lifecycle, op>>

NoCleanup == -1
Never == -1

Modes == {"automatic", "manual", "remote"}
Targets == {None, "neutral"} \cup Profiles
Registers == [mode : 0..3, in : {Full} \cup Profiles,
              out : {Full} \cup Profiles, reserve : Reserves, grid : BOOLEAN]

NoOp == [pc |-> "idle", stage |-> "body", kind |-> "none", device |-> None,
         owner |-> None, profile |-> None, mode |-> "keep", apply |-> FALSE,
         setting |-> None, done |-> 0, candidate |-> None, cancelled |-> FALSE]

Lock(k, d, o, p, m, s) ==
    [NoOp EXCEPT !.kind = k, !.device = d, !.owner = o, !.profile = p,
                 !.mode = m, !.setting = s]

Idle == op.pc = "idle"
Open == phase = "open"
Leased(d) == leases[d] # None
Pending(d) == cleanup[d] # NoCleanup
Live(d) == Leased(d) /\ ~Pending(d) /\ now < leases[d].expires
\* Mutation of Value: no default for a device without saved settings.
ValueUnresolved(saved) == saved
Value(saved) == IF saved = None THEN DefaultProfile ELSE saved
Neutral(r) == r.mode = 0 /\ r.in = Full /\ r.out = Full

(***************************************************************************)
(* One verified sequence: what async_write_sequence is asked to write.      *)
(***************************************************************************)
NeutralSteps == << <<"mode", 0>>, <<"in", Full>>, <<"out", Full>> >>
\* Mutation of WindowSteps: limits enabled before their boundaries are written.
WindowStepsModeFirst(p) == << <<"mode", 3>>, <<"in", p>>, <<"out", p>> >>
WindowSteps(p) == << <<"in", p>>, <<"out", p>>, <<"mode", 3>> >>
\* Mutation of RestoreSteps: the grid permission is forgotten.
RestoreStepsNoGrid(s) == << <<"reserve", s.reserve>> >>
RestoreSteps(s) == << <<"reserve", s.reserve>>, <<"grid", s.grid>> >>
\* Mutation of CleanupSteps: user settings before the power limits are off.
CleanupStepsRestoreFirst(s) == RestoreSteps(s) \o NeutralSteps
CleanupSteps(s) == NeutralSteps \o RestoreSteps(s)

Steps(o) ==
    IF o.stage = "cleanup" THEN CleanupSteps(pre_remote[o.device])
    ELSE IF o.kind \in {"setting", "policy"} THEN << o.setting >>
    ELSE IF o.mode = "automatic" THEN NeutralSteps
    ELSE NeutralSteps \o WindowSteps(o.profile)

(***************************************************************************)
(* The request once cleanup is out of the way: the profile and mode it      *)
(* resolves to, given the device's current settings and mode.               *)
(***************************************************************************)
Resolved(o, saved, mode) ==
    LET selected == IF o.mode = "keep" THEN mode ELSE o.mode
        apply    == o.mode # "keep" \/ selected = "manual"
        profile  == IF o.profile # None THEN o.profile
                    ELSE IF o.mode = "automatic" THEN saved ELSE Value(saved)
        start    == [o EXCEPT !.stage = "body", !.pc = "preflight", !.done = 0]
    IN  IF o.kind \in {"setting", "policy"} THEN start
        ELSE [start EXCEPT !.profile = profile, !.mode = selected, !.apply = apply,
                           !.pc = IF apply THEN "preflight" ELSE "save"]

Init ==
    /\ leases = [d \in Devices |-> None]
    /\ pre_remote = [d \in Devices |-> None]
    /\ cleanup = [d \in Devices |-> NoCleanup]
    /\ timers = [d \in Devices |-> Never]
    /\ watchers = [d \in Devices |-> 0]
    /\ settings = [d \in Devices |-> None]
    /\ modes = [d \in Devices |-> "automatic"]
    /\ last_targets = [d \in Devices |-> None]
    /\ disk = [settings |-> settings, modes |-> modes, last_targets |-> last_targets]
    /\ hw \in [Devices -> {r \in Registers : Neutral(r)}]
    /\ now = 0
    /\ phase = "open"
    /\ readOnly = FALSE
    /\ boots = 0
    /\ op = NoOp

(***************************************************************************)
(* Taking the lock.                                                         *)
(***************************************************************************)
EndOp == op' = NoOp

BeginBody(o) ==
    /\ op' = Resolved(o, settings[o.device], modes[o.device])
    /\ UNCHANGED <<leaseVars, timers>>

\* _release_locked up to its first await.
BeginCleanup(o) ==
    /\ pre_remote[o.device] # None
    /\ timers' = [timers EXCEPT ![o.device] = Never]
    /\ cleanup' = [cleanup EXCEPT ![o.device] = 0]
    /\ op' = [o EXCEPT !.stage = "cleanup", !.pc = "preflight"]
    /\ UNCHANGED <<leases, pre_remote>>

\* A lease that is not live is cleaned up before anything else happens.
\* Mutation of Enter: an expired lease does not stand in the way.
EnterWithoutCleanup(o) == BeginBody(o)
Enter(o) ==
    IF Leased(o.device) /\ ~Live(o.device) THEN BeginCleanup(o) ELSE BeginBody(o)

Request(k) ==
    /\ Idle /\ Open /\ k \in Kinds
    /\ UNCHANGED <<watchers, memory, disk, hw, now, lifecycle>>

Acquire(d, o, p) ==
    /\ Request("acquire")
    /\ Live(d) => leases[d].owner = o
    /\ Enter(Lock("acquire", d, o, p, "remote", None))

\* async_change and async_set_power_window; "keep" leaves the mode as it is.
Change(d, p, m) ==
    /\ Request("change")
    /\ p # None \/ m # "keep"
    /\ ~Live(d)
    /\ Enter(Lock("change", d, None, p, m, None))

WritePolicySetting(d, s) ==
    /\ Request("policy")
    /\ ~Live(d)
    /\ Enter(Lock("policy", d, None, None, "keep", s))

LiveOwner(d, o) == Live(d) /\ leases[d].owner = o

Update(d, o, p) ==
    /\ Request("update")
    /\ LiveOwner(d, o)
    /\ BeginBody(Lock("update", d, o, p, "remote", None))

RemoteSetting(d, o, s) ==
    /\ Request("setting")
    /\ LiveOwner(d, o)
    /\ BeginBody(Lock("setting", d, o, None, "keep", s))

Release(d, o) ==
    /\ Request("release")
    /\ Leased(d) /\ leases[d].owner = o
    /\ BeginCleanup(Lock("release", d, o, None, "keep", None))

\* Mutation of ScheduleWatchdog: an armed timer is kept, none is armed.
ScheduleWatchdogNever(d, at) == UNCHANGED timers
ScheduleWatchdog(d, at) ==
    timers' = [timers EXCEPT ![d] = IF Open THEN at ELSE Never]

\* _renew: the deadline of the lease is not looked at again here.
Renew(d, o) ==
    /\ leases' = [leases EXCEPT ![d] = [owner |-> o, expires |-> now + LeaseTime]]
    /\ ScheduleWatchdog(d, now + LeaseTime)

Heartbeat(d, o) ==
    /\ Request("heartbeat")
    /\ LiveOwner(d, o)
    /\ Renew(d, o)
    /\ UNCHANGED <<pre_remote, cleanup, op>>

(***************************************************************************)
(* The watchdog.                                                            *)
(***************************************************************************)
\* asyncio runs timers that are due within its clock resolution: up to 1 tick early.
TimerFires(d) ==
    /\ timers[d] # Never /\ timers[d] <= now + 1
    /\ watchers[d] < MaxWatchers
    /\ timers' = [timers EXCEPT ![d] = Never]
    /\ watchers' = [watchers EXCEPT ![d] = IF Open THEN @ + 1 ELSE @]
    /\ UNCHANGED <<leaseVars, memory, disk, hw, now, lifecycle, op>>

\* Mutation of Reschedule: a task that comes too early just returns.
RescheduleNothing(d) == UNCHANGED timers
Reschedule(d) == ScheduleWatchdog(d, leases[d].expires)

Watchdog(d) ==
    /\ Idle /\ watchers[d] > 0
    /\ watchers' = [watchers EXCEPT ![d] = @ - 1]
    /\ \/ /\ ~Open \/ ~Leased(d) \/ Pending(d)
          /\ UNCHANGED <<leaseVars, timers, op>>
       \/ /\ Open /\ Live(d)
          /\ Reschedule(d)
          /\ UNCHANGED <<leaseVars, op>>
       \/ /\ Open /\ Leased(d) /\ ~Pending(d) /\ ~Live(d)
          /\ BeginCleanup(Lock("watchdog", d, None, None, "keep", None))
    /\ UNCHANGED <<memory, disk, hw, now, lifecycle>>

(***************************************************************************)
(* The write sequence, run by a worker under the I/O lock.                  *)
(***************************************************************************)
\* Mutation of FirstAcquire: every acquisition captures a snapshot.
EveryAcquire(o) == o.kind = "acquire" /\ o.stage = "body"
FirstAcquire(o) == o.kind = "acquire" /\ o.stage = "body" /\ pre_remote[o.device] = None

\* capture(): the live reserve and grid permission, before the first write.
Capture(o) ==
    IF FirstAcquire(o)
    THEN [reserve |-> hw[o.device].reserve, grid |-> hw[o.device].grid,
          power_settings |-> Value(settings[o.device])]
    ELSE None

PreflightPasses ==
    /\ op.pc = "preflight" /\ Open
    /\ op' = [op EXCEPT !.pc = "write", !.candidate = Capture(op)]
    /\ UNCHANGED <<leaseVars, timerVars, memory, disk, hw, now, lifecycle>>

\* No write was attempted: policy, address, transport, unloading or cancellation.
PreflightFails ==
    /\ op.pc = "preflight"
    /\ "preflight" \in Faults \/ ~Open
    /\ EndOp
    /\ UNCHANGED <<leaseVars, timerVars, memory, disk, hw, now, lifecycle>>

WriteRegister(d, step) == hw' = [hw EXCEPT ![d][step[1]] = step[2]]

StepVerified ==
    /\ op.pc = "write"
    /\ WriteRegister(op.device, Steps(op)[op.done + 1])
    /\ IF op.done + 1 < Len(Steps(op)) THEN op' = [op EXCEPT !.done = @ + 1]
       ELSE IF op.cancelled THEN EndOp
       ELSE op' = [op EXCEPT !.pc = "refresh", !.done = @ + 1]
    /\ UNCHANGED <<leaseVars, timerVars, memory, disk, now, lifecycle>>

\* _record_automatic
RecordAutomatic(d) ==
    /\ modes' = [modes EXCEPT ![d] = "automatic"]
    /\ last_targets' = [last_targets EXCEPT ![d] = "neutral"]
    /\ UNCHANGED settings

\* The except clauses of _release_locked after "verified" steps.
\* Mutation of RecordProgress: one verified step counts as automatic.
RecordProgressEarly(d, verified) ==
    /\ cleanup' = [cleanup EXCEPT ![d] = verified]
    /\ IF verified >= 1 THEN RecordAutomatic(d) ELSE UNCHANGED memory
RecordProgress(d, verified) ==
    /\ cleanup' = [cleanup EXCEPT ![d] = verified]
    /\ IF verified >= 3 THEN RecordAutomatic(d) ELSE UNCHANGED memory

\* The failed step may have reached the device; nothing is rolled back.
StepFails ==
    /\ op.pc = "write" /\ "write" \in Faults
    /\ \/ WriteRegister(op.device, Steps(op)[op.done + 1])
       \/ UNCHANGED hw
    /\ IF op.stage = "cleanup" /\ ~op.cancelled
       THEN RecordProgress(op.device, op.done) ELSE UNCHANGED <<cleanup, memory>>
    /\ EndOp
    /\ UNCHANGED <<leases, pre_remote, timerVars, disk, now, lifecycle>>

(***************************************************************************)
(* The refresh that ends every verified write.                              *)
(***************************************************************************)
RefreshCleanup ==
    /\ op.pc = "refresh" /\ op.stage = "cleanup"
    /\ RecordProgress(op.device, 5)
    /\ \/ op' = [op EXCEPT !.pc = "save"]
       \/ "refresh" \in Faults /\ EndOp
    /\ UNCHANGED <<leases, pre_remote, timerVars, disk, hw, now, lifecycle>>

RefreshBody ==
    /\ op.pc = "refresh" /\ op.stage = "body"
    /\ \/ /\ op.kind \in {"acquire", "update", "change"}
          /\ op' = [op EXCEPT !.pc = "save"]
          /\ UNCHANGED <<leases, timers>>
       \/ /\ op.kind = "policy"
          /\ EndOp
          /\ UNCHANGED <<leases, timers>>
       \/ /\ op.kind = "setting"
          /\ Renew(op.device, op.owner)
          /\ EndOp
    /\ UNCHANGED <<pre_remote, cleanup, watchers, memory, disk, hw, now, lifecycle>>

RefreshFails ==
    /\ op.pc = "refresh" /\ op.stage = "body" /\ "refresh" \in Faults
    /\ EndOp
    /\ UNCHANGED <<leaseVars, timerVars, memory, disk, hw, now, lifecycle>>

(***************************************************************************)
(* The second half of _apply_locked: one document for all devices, saved,   *)
(* read back, and only then taken over in memory.                           *)
(***************************************************************************)
CommitProfile == IF op.stage = "cleanup" THEN pre_remote[op.device].power_settings
                 ELSE op.profile
CommitMode == IF op.stage = "cleanup" THEN "automatic" ELSE op.mode

NewSettings == IF CommitProfile = None THEN settings
               ELSE [settings EXCEPT ![op.device] = CommitProfile]
NewModes == [modes EXCEPT ![op.device] = CommitMode]
NewTargets ==
    IF op.stage = "body" /\ op.apply
    THEN [last_targets EXCEPT ![op.device] =
             IF op.mode = "automatic" THEN "neutral" ELSE op.profile]
    ELSE last_targets

\* What replaces a remote profile in the file.
UserProfile(d) == IF pre_remote[d] # None THEN pre_remote[d].power_settings
                  ELSE Value(settings[d])

\* Mutation of Persisted: other devices are saved as they are in memory.
PersistedOwnOnly ==
    IF CommitMode = "remote"
    THEN [NewSettings EXCEPT ![op.device] = UserProfile(op.device)] ELSE NewSettings
Persisted == [d \in Devices |->
    IF d = op.device
    THEN IF CommitMode = "remote" THEN UserProfile(d) ELSE NewSettings[d]
    ELSE IF pre_remote[d] # None THEN pre_remote[d].power_settings
    ELSE NewSettings[d]]

Save ==
    /\ op.pc = "save" /\ ~readOnly
    /\ disk' = [settings |-> Persisted, modes |-> NewModes, last_targets |-> NewTargets]
    /\ op' = [op EXCEPT !.pc = "confirm"]
    /\ UNCHANGED <<leaseVars, timerVars, memory, hw, now, lifecycle>>

\* Not written, or written and not read back.
SaveFails ==
    /\ op.pc \in {"save", "confirm"}
    /\ "save" \in Faults \/ readOnly
    /\ EndOp
    /\ UNCHANGED <<leaseVars, timerVars, memory, disk, hw, now, lifecycle>>

Commit ==
    /\ settings' = NewSettings
    /\ modes' = NewModes
    /\ last_targets' = NewTargets

\* Mutation of EndLease: the snapshot outlives its lease.
EndLeaseKeepsSnapshot(d) ==
    /\ leases' = [leases EXCEPT ![d] = None]
    /\ cleanup' = [cleanup EXCEPT ![d] = NoCleanup]
    /\ UNCHANGED pre_remote
EndLease(d) ==
    /\ leases' = [leases EXCEPT ![d] = None]
    /\ pre_remote' = [pre_remote EXCEPT ![d] = None]
    /\ cleanup' = [cleanup EXCEPT ![d] = NoCleanup]

ConfirmCleanup ==
    /\ op.pc = "confirm" /\ op.stage = "cleanup"
    /\ Commit
    /\ EndLease(op.device)
    /\ \/ EndOp             \* nothing left to do, or the request is now rejected
       \/ /\ op.kind \notin {"release", "watchdog"}
          /\ op' = Resolved(op, NewSettings[op.device], NewModes[op.device])
    /\ UNCHANGED <<timerVars, disk, hw, now, lifecycle>>

ConfirmBody ==
    /\ op.pc = "confirm" /\ op.stage = "body"
    /\ Commit
    /\ IF op.kind = "change" THEN UNCHANGED <<leases, pre_remote, timers>>
       ELSE /\ pre_remote' = IF FirstAcquire(op)
                             THEN [pre_remote EXCEPT ![op.device] = op.candidate]
                             ELSE pre_remote
            /\ Renew(op.device, op.owner)
    /\ EndOp
    /\ UNCHANGED <<cleanup, watchers, disk, hw, now, lifecycle>>

(***************************************************************************)
(* The surroundings: time, cancellation, unloading, restart, other writers. *)
(***************************************************************************)
Tick ==
    /\ now < MaxTime
    /\ now' = now + 1
    /\ UNCHANGED <<leaseVars, timerVars, memory, disk, hw, lifecycle, op>>

\* A running worker is drained first; its caller then sees only the cancellation.
Cancel ==
    /\ "cancel" \in Faults
    /\ op.pc \in {"preflight", "write"} /\ ~op.cancelled
    /\ op' = [op EXCEPT !.cancelled = TRUE]
    /\ UNCHANGED <<leaseVars, timerVars, memory, disk, hw, now, lifecycle>>

\* Every other await ends at once and records nothing.
Abandon ==
    /\ "cancel" \in Faults
    /\ op.pc \in {"refresh", "save", "confirm"}
    /\ EndOp
    /\ UNCHANGED <<leaseVars, timerVars, memory, disk, hw, now, lifecycle>>

StartClosing ==
    /\ Open /\ MayUnload
    /\ phase' = "closing"
    /\ UNCHANGED <<leaseVars, timerVars, memory, disk, hw, now, readOnly, boots, op>>

\* async_shutdown before it waits for the lock.
Close ==
    /\ phase = "closing"
    /\ phase' = "closed"
    /\ timers' = [d \in Devices |-> Never]
    /\ UNCHANGED <<leaseVars, watchers, memory, disk, hw, now, readOnly, boots, op>>

ForgetLeases ==
    /\ leases' = [d \in Devices |-> None]
    /\ pre_remote' = [d \in Devices |-> None]
    /\ cleanup' = [d \in Devices |-> NoCleanup]

ClearLeases ==
    /\ phase = "closed" /\ Idle
    /\ phase' = "cleared"
    /\ ForgetLeases
    /\ UNCHANGED <<timerVars, memory, disk, hw, now, readOnly, boots, op>>

\* async_load: a remote mode comes back as automatic; nothing is written.
\* Mutation of Load: modes come back as they were saved.
LoadVerbatim ==
    /\ settings' = disk.settings /\ modes' = disk.modes
    /\ last_targets' = disk.last_targets
    /\ readOnly' = FALSE
Load ==
    /\ settings' = disk.settings
    /\ modes' = [d \in Devices |-> IF disk.modes[d] = "remote" THEN "automatic"
                                   ELSE disk.modes[d]]
    /\ last_targets' = disk.last_targets
    /\ readOnly' = FALSE

LoadFails ==
    /\ settings' = [d \in Devices |-> None]
    /\ modes' = [d \in Devices |-> "automatic"]
    /\ last_targets' = [d \in Devices |-> None]
    /\ readOnly' = TRUE

\* A crash at any moment, or a reload after unloading, and the next start.
Restart ==
    /\ boots < MaxBoots
    /\ boots' = boots + 1
    /\ phase' = "open"
    /\ ForgetLeases
    /\ timers' = [d \in Devices |-> Never]
    /\ watchers' = [d \in Devices |-> 0]
    /\ EndOp
    /\ Load \/ LoadFails
    /\ UNCHANGED <<disk, hw, now>>

\* This integration's low-level entities, which wait for the same I/O lock.
LowLevelWrite(d) ==
    /\ op.pc # "write"
    /\ \E step \in LowLevel : WriteRegister(d, step)
    /\ UNCHANGED <<leaseVars, timerVars, memory, disk, now, lifecycle, op>>

Requests(d) ==
    \/ \E p \in UserProfiles \cup {None}, m \in ModeRequests :
          Change(d, p, m)
    \/ \E s \in PolicySettings : WritePolicySetting(d, s)
    \/ \E o \in Owners :
          \/ \E p \in RemoteProfiles \cup {None} : Acquire(d, o, p)
          \/ \E p \in RemoteProfiles : Update(d, o, p)
          \/ \E s \in PolicySettings : RemoteSetting(d, o, s)
          \/ Heartbeat(d, o)
          \/ Release(d, o)

\* The steps of the operation that holds the lock.
Running ==
    \/ PreflightPasses \/ PreflightFails
    \/ StepVerified \/ StepFails
    \/ RefreshCleanup \/ RefreshBody \/ RefreshFails
    \/ Save \/ SaveFails
    \/ ConfirmCleanup \/ ConfirmBody

Next ==
    \/ \E d \in Devices : Requests(d) \/ TimerFires(d) \/ Watchdog(d) \/ LowLevelWrite(d)
    \/ Running
    \/ Tick \/ Cancel \/ Abandon
    \/ StartClosing \/ Close \/ ClearLeases
    \/ Restart

Spec == Init /\ [][Next]_vars
=============================================================================
