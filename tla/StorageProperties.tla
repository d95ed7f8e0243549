------------------------- MODULE StorageProperties --------------------------
(***************************************************************************)
(* What storage control guarantees.                                         *)
(***************************************************************************)
EXTENDS StorageControl

OpRecords == [pc : {"idle", "preflight", "write", "refresh", "save", "confirm"},
              stage : {"cleanup", "body"},
              kind : AllKinds \cup {"none", "watchdog"},
              device : Devices \cup {None}, owner : Owners \cup {None},
              profile : Profiles \cup {None}, mode : Modes \cup {"keep"},
              apply : BOOLEAN, setting : Settings \cup {None}, done : 0..6,
              candidate : Snapshots \cup {None}, cancelled : BOOLEAN]

\* The type of every variable.
TypeOK ==
    /\ leases \in [Devices -> LeaseRecords \cup {None}]
    /\ pre_remote \in [Devices -> Snapshots \cup {None}]
    /\ cleanup \in [Devices -> {NoCleanup} \cup 0..5]
    /\ timers \in [Devices -> {Never} \cup Nat]
    /\ watchers \in [Devices -> Nat]
    /\ settings \in [Devices -> Profiles \cup {None}]
    /\ modes \in [Devices -> Modes]
    /\ last_targets \in [Devices -> Targets]
    /\ disk \in [settings : [Devices -> Profiles \cup {None}],
                 modes : [Devices -> Modes], last_targets : [Devices -> Targets]]
    /\ hw \in [Devices -> Registers]
    /\ now \in Nat
    /\ phase \in {"open", "closing", "closed", "cleared"}
    /\ readOnly \in BOOLEAN
    /\ boots \in Nat
    /\ op \in OpRecords

(***************************************************************************)
(* Lease, snapshot and cleanup progress are three dictionaries kept in step *)
(* by hand (609-610, 701-732, 841-843): a lease always has the snapshot its *)
(* cleanup needs, a snapshot never outlives its lease, and cleanup is never *)
(* pending for a device nobody leased.  Otherwise a release would raise     *)
(* "pre-remote snapshot is missing" for ever, or a second takeover would    *)
(* give back the wrong lease's values.                                      *)
(***************************************************************************)
LeaseHasSnapshot ==
    \A d \in Devices : /\ Leased(d) <=> pre_remote[d] # None
                       /\ Pending(d) => Leased(d)

(***************************************************************************)
(* A remote profile is never written to the file, whatever device is being  *)
(* saved, whichever save or release fails and whenever the process dies     *)
(* (501-513); and while a device is leased the file holds exactly the       *)
(* profile its release will give back, so a crash loses nothing.            *)
(***************************************************************************)
UserProfileSurvives ==
    \A d \in Devices : /\ disk.settings[d] \in UserProfiles \cup {None}
                       /\ Leased(d) => disk.settings[d] = pre_remote[d].power_settings

(***************************************************************************)
(* Outside a lease the profile in memory is the user's again, and no device *)
(* is left in remote mode with nobody owning it.  async_change takes the    *)
(* mode and the profile from memory (393-415): a stale "remote" there would *)
(* be applied and saved as if the user had chosen it.                       *)
(***************************************************************************)
RemoteStateIsOwned ==
    Open => \A d \in Devices :
        ~Leased(d) => modes[d] # "remote" /\ settings[d] \notin RemoteProfiles

(***************************************************************************)
(* Dead-man switch: while the entry is open, every lease that is not being  *)
(* cleaned up has a timer that fires no later than its deadline or a        *)
(* watchdog task in the queue, through renewals, late tasks and failed      *)
(* commands (764-819).                                                      *)
(***************************************************************************)
WatchdogArmed ==
    Open => \A d \in Devices :
        Leased(d) /\ ~Pending(d) =>
            \/ watchers[d] > 0
            \/ timers[d] # Never /\ timers[d] <= leases[d].expires

\* The registers no other writer touches.
OwnRegisters == {"mode", "in", "out", "reserve", "grid"} \ {step[1] : step \in LowLevel}
OwnWindow == {"mode", "in", "out"} \subseteq OwnRegisters

(***************************************************************************)
(* Limits are only ever enforced as a pair from one profile: a sequence that *)
(* stops, fails half-way or dies between two registers never leaves mode 3   *)
(* with the boundaries of two profiles, or with one new boundary (474-493).  *)
(***************************************************************************)
EnforcedWindowIsOneProfile ==
    OwnWindow => \A d \in Devices :
        hw[d].mode = 3 => hw[d].in = hw[d].out /\ hw[d].in \in Profiles

(***************************************************************************)
(* "automatic" is recorded for a leased device only when its three control  *)
(* registers have been verified neutral, also when a later cleanup step, the *)
(* refresh or the save fails (714-724, 741-745).                            *)
(***************************************************************************)
RecordedAutomaticIsNeutral ==
    OwnWindow => \A d \in Devices :
        Leased(d) /\ modes[d] = "automatic" => Neutral(hw[d])

(***************************************************************************)
(* An owner gets its lease ended by a cleanup only after the device is in    *)
(* automatic and the reserve and grid permission found at the takeover are   *)
(* back (694-732), as far as no other writer touched them in between;        *)
(* shutting down and crashes promise nothing.                                *)
(***************************************************************************)
Restored(d) ==
    /\ Neutral(hw[d])
    /\ \A r \in {"reserve", "grid"} \cap OwnRegisters : hw[d][r] = pre_remote[d][r]

LeaseEndsRestored ==
    [][OwnWindow => \A d \in Devices :
           Leased(d) /\ ~Leased(d)' /\ phase # "closed" /\ boots' = boots => Restored(d)]_vars

(***************************************************************************)
(* During a cleanup the reserve and the grid permission are touched only    *)
(* when the power limits are already off (703-709).                         *)
(***************************************************************************)
NeutralBeforeRestore ==
    [][OwnWindow => \A d \in Devices :
           /\ op.stage = "cleanup" /\ op.device = d
           /\ \E r \in {"reserve", "grid"} \cap OwnRegisters : hw'[d][r] # hw[d][r]
           => Neutral(hw[d])]_vars

(***************************************************************************)
(* The snapshot of a lease is taken once: neither updates, re-acquisition by *)
(* the same owner nor a failed release replaces it (590-609).                *)
(***************************************************************************)
SnapshotIsImmutable ==
    [][\A d \in Devices :
           pre_remote[d] # None /\ pre_remote'[d] # None => pre_remote'[d] = pre_remote[d]]_vars

(***************************************************************************)
(* The inductive invariant behind the ones above.  What is known of the     *)
(* suspended operation: it still has the rights its checks established      *)
(* when it took the lock, because nothing else changes leases meanwhile.    *)
(***************************************************************************)
OpIsWellFormed ==
    /\ Idle => op = NoOp
    /\ ~Idle => /\ op.device \in Devices
                /\ op.kind \notin {"none", "heartbeat"}
                /\ op.kind \in {"acquire", "update", "setting"} => op.owner \in Owners
                /\ op.kind \in {"setting", "policy"} => op.setting \in Settings
                /\ op.pc = "preflight" => op.done = 0
                /\ op.pc = "write" => op.done < Len(Steps(op))

CleanupIsAuthorised ==
    ~Idle /\ op.stage = "cleanup" =>
        /\ Leased(op.device) /\ Pending(op.device)
        /\ op.kind \notin {"update", "setting"}
        /\ op.kind = "acquire" => op.mode = "remote"
        /\ op.kind = "change" => op.profile \notin RemoteProfiles /\ op.mode # "remote"

BodyIsAuthorised ==
    ~Idle /\ op.stage = "body" =>
        /\ op.kind \notin {"release", "watchdog"}
        /\ op.kind \in {"update", "setting"} => Leased(op.device)
        /\ op.kind \in {"change", "policy"} => ~Leased(op.device)
        /\ op.kind \in {"acquire", "update", "setting"} /\ Leased(op.device) =>
              leases[op.device].owner = op.owner /\ ~Pending(op.device)
        /\ op.kind \in {"setting", "policy"} => op.pc \notin {"save", "confirm"}
        /\ op.kind \in {"acquire", "update"} =>
              op.mode = "remote" /\ op.profile \in Profiles
        /\ op.kind = "change" =>
              /\ op.profile \notin RemoteProfiles
              /\ op.mode \in {"automatic", "manual"}
              /\ op.profile = None => op.mode = "automatic"

\* The candidate snapshot is what the file and the memory say of the user.
CandidateIsCurrent ==
    ~Idle /\ FirstAcquire(op) =>
        /\ op.pc # "preflight" =>
              /\ op.candidate \in Snapshots
              /\ op.candidate.power_settings = Value(settings[op.device])
        /\ op.pc = "confirm" =>
              disk.settings[op.device] = op.candidate.power_settings

\* RemoteStateIsOwned up to the moment unloading has dropped the leases.
UnleasedIsUser ==
    phase # "cleared" => \A d \in Devices :
        ~Leased(d) => modes[d] # "remote" /\ settings[d] \notin RemoteProfiles

ClearedIsIdle == phase = "cleared" => Idle /\ \A d \in Devices : ~Leased(d)

IndInv ==
    /\ TypeOK /\ OpIsWellFormed
    /\ CleanupIsAuthorised /\ BodyIsAuthorised /\ CandidateIsCurrent
    /\ LeaseHasSnapshot /\ UserProfileSurvives
    /\ UnleasedIsUser /\ ClearedIsIdle /\ WatchdogArmed

(***************************************************************************)
(* The inductive invariant behind the register properties: what a sequence  *)
(* has reached in the device by the number of its verified steps, and that a *)
(* body never runs for a leased device recorded as automatic.                *)
(***************************************************************************)
HeldIsRemote == \A d \in Devices : Leased(d) /\ ~Pending(d) => modes[d] = "remote"

CleanupReached ==
    ~Idle /\ op.stage = "cleanup" =>
        /\ op.pc = "write" =>
              /\ op.done >= 1 => hw[op.device].mode = 0
              /\ op.done >= 2 => hw[op.device].in = Full
              /\ op.done >= 3 => hw[op.device].out = Full
              /\ op.done >= 4 /\ "reserve" \in OwnRegisters =>
                    hw[op.device].reserve = pre_remote[op.device].reserve
        /\ op.pc \in {"refresh", "save", "confirm"} => Restored(op.device)

WindowReached ==
    op.pc = "write" /\ op.stage = "body" /\ op.kind \notin {"setting", "policy"} =>
        /\ op.done >= 1 => hw[op.device].mode = 0
        /\ op.done >= 4 => hw[op.device].in = op.profile
        /\ op.done >= 5 => hw[op.device].out = op.profile

RegisterInv ==
    /\ HeldIsRemote
    /\ OwnWindow => /\ EnforcedWindowIsOneProfile /\ RecordedAutomaticIsNeutral
                    /\ CleanupReached /\ WindowReached

(***************************************************************************)
(* The abstract lease implemented by this component.                        *)
(***************************************************************************)
LeaseOwner == [d \in Devices |-> IF Leased(d) THEN leases[d].owner ELSE None]
LeasePhase == [d \in Devices |-> IF ~Leased(d) THEN "free"
                                 ELSE IF Pending(d) THEN "cleanup" ELSE "held"]

Lease == INSTANCE StorageLease WITH
    Saved <- UserProfiles \cup {None},
    owner <- LeaseOwner, phase <- LeasePhase, saved <- disk.settings

\* Ownership passes only through a completed cleanup; the saved profile of a
\* leased device is frozen.
ImplementsLease == Lease!Spec

(***************************************************************************)
(* README.md 724: "An expired lease cannot be renewed by heartbeat or a      *)
(* remote update."  The code looks at the deadline before the sequence, the *)
(* refresh and the save, and renews after them (628-630, 764).              *)
(***************************************************************************)
ExpiredLeaseIsNotRenewed ==
    [][\A d \in Devices :
           op.kind = "update" /\ Leased(d) /\ now >= leases[d].expires
               => leases'[d] \in {None, leases[d]}]_vars

(***************************************************************************)
(* Fairness.  The event loop runs what is due: time passes, timers fire,    *)
(* every await ends (transport calls time out, 1 worker step or 1 failure), *)
(* shutdown proceeds.  The lock is FIFO, so a queued task or the shutdown    *)
(* gets it although callers keep coming: strong fairness.                    *)
(***************************************************************************)
Fairness ==
    /\ WF_vars(Tick)
    /\ WF_vars(Running)
    /\ WF_vars(Close)
    /\ SF_vars(ClearLeases)
    /\ \A d \in Devices : WF_vars(TimerFires(d)) /\ SF_vars(Watchdog(d))

FairSpec == Spec /\ Fairness

(***************************************************************************)
(* An abandoned lease does not stay in force: every deadline within the      *)
(* clock's bound is eventually superseded by a renewal, by a cleanup, or by  *)
(* shutting down.                                                           *)
(***************************************************************************)
DeadlineIsEnforced ==
    \A d \in Devices, e \in 1..MaxTime :
        (Leased(d) /\ leases[d].expires = e)
            ~> ~(Leased(d) /\ ~Pending(d) /\ leases[d].expires = e)
=============================================================================
