----------------------- MODULE StorageRegisterProofs ------------------------
(***************************************************************************)
(* Proofs about the registers that storage control writes: whatever fails,  *)
(* is cancelled or dies between two registers of a sequence.                *)
(***************************************************************************)
EXTENDS StorageControlProofs

(***************************************************************************)
(* What a sequence writes, step by step.                                    *)
(***************************************************************************)
LEMMA StepAt ==
    ASSUME NEW s \in Seq(RegisterWrites), NEW t \in Seq(RegisterWrites), Len(s) = 3,
           NEW k \in {2, 3}, Len(t) = k, NEW n \in Nat, n < Len(s \o t)
    PROVE  /\ Len(s \o t) = 3 + k /\ n \in 0 .. 2 + k
           /\ n < 3 => (s \o t)[n + 1] = s[n + 1]
           /\ n >= 3 => (s \o t)[n + 1] = t[n - 2]
<1>1. Len(s \o t) = 3 + k
  BY ConcatSteps
<1>2. n \in 0 .. 2 + k /\ n + 1 \in 1 .. 3 + k
  BY <1>1
<1>3. \A i \in 1 .. 3 + k : (s \o t)[i] = IF i <= 3 THEN s[i] ELSE t[i - 3]
  <2>1. \A i \in 1 .. Len(s) + Len(t) :
           (s \o t)[i] = IF i <= Len(s) THEN s[i] ELSE t[i - Len(s)]
    BY ConcatProperties
  <2>. QED  BY <2>1
<1>4. (s \o t)[n + 1] = IF n + 1 <= 3 THEN s[n + 1] ELSE t[n + 1 - 3]
  BY <1>2, <1>3
<1>5. n + 1 - 3 = n - 2 /\ (n < 3 <=> n + 1 <= 3) /\ (n >= 3 <=> ~(n < 3))
  BY <1>2
<1>. QED  BY <1>1, <1>2, <1>4, <1>5

LEMMA CleanupStepAt ==
    ASSUME NEW s \in Snapshots, NEW n \in Nat, n < Len(CleanupSteps(s))
    PROVE  /\ Len(CleanupSteps(s)) = 5 /\ n \in 0..4
           /\ n = 0 => CleanupSteps(s)[n + 1] = <<"mode", 0>>
           /\ n = 1 => CleanupSteps(s)[n + 1] = <<"in", Full>>
           /\ n = 2 => CleanupSteps(s)[n + 1] = <<"out", Full>>
           /\ n = 3 => CleanupSteps(s)[n + 1] = <<"reserve", s.reserve>>
           /\ n = 4 => CleanupSteps(s)[n + 1] = <<"grid", s.grid>>
<1>1. NeutralSteps \in Seq(RegisterWrites) /\ Len(NeutralSteps) = 3
  BY DEF NeutralSteps, RegisterWrites
<1>2. RestoreSteps(s) \in Seq(RegisterWrites) /\ Len(RestoreSteps(s)) = 2
  BY DEF RestoreSteps, Snapshots, RegisterWrites, Settings
<1>3. CleanupSteps(s) = NeutralSteps \o RestoreSteps(s)
  BY DEF CleanupSteps
<1>4. /\ Len(CleanupSteps(s)) = 3 + 2 /\ n \in 0 .. 2 + 2
      /\ n < 3 => CleanupSteps(s)[n + 1] = NeutralSteps[n + 1]
      /\ n >= 3 => CleanupSteps(s)[n + 1] = RestoreSteps(s)[n - 2]
  <2>1. n < Len(NeutralSteps \o RestoreSteps(s))
    BY <1>3
  <2>. QED  BY <1>1, <1>2, <1>3, <2>1, StepAt
<1>5. /\ NeutralSteps[1] = <<"mode", 0>> /\ NeutralSteps[2] = <<"in", Full>>
      /\ NeutralSteps[3] = <<"out", Full>>
      /\ RestoreSteps(s)[1] = <<"reserve", s.reserve>>
      /\ RestoreSteps(s)[2] = <<"grid", s.grid>>
  BY DEF NeutralSteps, RestoreSteps
<1>6. CASE n < 3
  <2>1. CleanupSteps(s)[n + 1] = NeutralSteps[n + 1]
    BY <1>4, <1>6
  <2>2. n \in {0, 1, 2}
    BY <1>4, <1>6
  <2>. QED  BY <1>4, <1>5, <2>1, <2>2
<1>7. CASE n >= 3
  <2>1. CleanupSteps(s)[n + 1] = RestoreSteps(s)[n - 2]
    BY <1>4, <1>7
  <2>2. n \in {3, 4}
    BY <1>4, <1>7
  <2>. QED  BY <1>4, <1>5, <2>1, <2>2
<1>8. n < 3 \/ n >= 3
  BY <1>4
<1>. QED  BY <1>6, <1>7, <1>8

LEMMA WindowStepAt ==
    ASSUME NEW p \in Profiles, NEW n \in Nat, n < Len(NeutralSteps \o WindowSteps(p))
    PROVE  /\ n \in 0..5
           /\ n = 0 => (NeutralSteps \o WindowSteps(p))[n + 1] = <<"mode", 0>>
           /\ n = 1 => (NeutralSteps \o WindowSteps(p))[n + 1] = <<"in", Full>>
           /\ n = 2 => (NeutralSteps \o WindowSteps(p))[n + 1] = <<"out", Full>>
           /\ n = 3 => (NeutralSteps \o WindowSteps(p))[n + 1] = <<"in", p>>
           /\ n = 4 => (NeutralSteps \o WindowSteps(p))[n + 1] = <<"out", p>>
           /\ n = 5 => (NeutralSteps \o WindowSteps(p))[n + 1] = <<"mode", 3>>
<1>1. NeutralSteps \in Seq(RegisterWrites) /\ Len(NeutralSteps) = 3
  BY DEF NeutralSteps, RegisterWrites
<1>2. WindowSteps(p) \in Seq(RegisterWrites) /\ Len(WindowSteps(p)) = 3
  BY DEF WindowSteps, RegisterWrites
<1>3. /\ n \in 0 .. 2 + 3
      /\ n < 3 => (NeutralSteps \o WindowSteps(p))[n + 1] = NeutralSteps[n + 1]
      /\ n >= 3 => (NeutralSteps \o WindowSteps(p))[n + 1] = WindowSteps(p)[n - 2]
  BY <1>1, <1>2, StepAt
<1>4. /\ NeutralSteps[1] = <<"mode", 0>> /\ NeutralSteps[2] = <<"in", Full>>
      /\ NeutralSteps[3] = <<"out", Full>>
      /\ WindowSteps(p)[1] = <<"in", p>> /\ WindowSteps(p)[2] = <<"out", p>>
      /\ WindowSteps(p)[3] = <<"mode", 3>>
  BY DEF NeutralSteps, WindowSteps
<1>5. n \in 0..5
  BY <1>3
<1>6. CASE n < 3
  <2>1. (NeutralSteps \o WindowSteps(p))[n + 1] = NeutralSteps[n + 1]
    BY <1>3, <1>6
  <2>2. n \in {0, 1, 2}
    BY <1>5, <1>6
  <2>. QED  BY <1>4, <1>5, <2>1, <2>2
<1>7. CASE n >= 3
  <2>1. (NeutralSteps \o WindowSteps(p))[n + 1] = WindowSteps(p)[n - 2]
    BY <1>3, <1>7
  <2>2. n \in {3, 4, 5}
    BY <1>5, <1>7
  <2>. QED  BY <1>4, <1>5, <2>1, <2>2
<1>8. n < 3 \/ n >= 3
  BY <1>5
<1>. QED  BY <1>6, <1>7, <1>8

LEMMA AutomaticStepAt ==
    ASSUME NEW n \in Nat, n < Len(NeutralSteps)
    PROVE  /\ n \in 0..2
           /\ n = 0 => NeutralSteps[n + 1] = <<"mode", 0>>
           /\ n = 1 => NeutralSteps[n + 1] = <<"in", Full>>
           /\ n = 2 => NeutralSteps[n + 1] = <<"out", Full>>
<1>1. Len(NeutralSteps) = 3
  BY DEF NeutralSteps
<1>2. n \in 0..2
  BY <1>1
<1>3. /\ NeutralSteps[1] = <<"mode", 0>> /\ NeutralSteps[2] = <<"in", Full>>
      /\ NeutralSteps[3] = <<"out", Full>>
  BY DEF NeutralSteps
<1>. QED  BY <1>2, <1>3

\* One register of one device changes.
LEMMA WriteEffect ==
    ASSUME hw \in [Devices -> Registers], NEW d \in Devices, NEW step \in RegisterWrites,
           WriteRegister(d, step)
    PROVE  /\ \A x \in Devices : x # d => hw'[x] = hw[x]
           /\ hw'[d].mode = IF step[1] = "mode" THEN step[2] ELSE hw[d].mode
           /\ hw'[d].in = IF step[1] = "in" THEN step[2] ELSE hw[d].in
           /\ hw'[d].out = IF step[1] = "out" THEN step[2] ELSE hw[d].out
           /\ hw'[d].reserve = IF step[1] = "reserve" THEN step[2] ELSE hw[d].reserve
           /\ hw'[d].grid = IF step[1] = "grid" THEN step[2] ELSE hw[d].grid
<1>1. hw[d] \in Registers /\ hw' = [hw EXCEPT ![d] = [hw[d] EXCEPT ![step[1]] = step[2]]]
  BY DEF WriteRegister
<1>2. \A x \in Devices : x # d => hw'[x] = hw[x]
  BY <1>1
<1>3. hw'[d] = [hw[d] EXCEPT ![step[1]] = step[2]]
  BY <1>1
<1>4. CASE step[1] = "mode"
  BY <1>1, <1>2, <1>3, <1>4 DEF Registers
<1>5. CASE step[1] = "in"
  BY <1>1, <1>2, <1>3, <1>5 DEF Registers
<1>6. CASE step[1] = "out"
  BY <1>1, <1>2, <1>3, <1>6 DEF Registers
<1>7. CASE step[1] = "reserve"
  BY <1>1, <1>2, <1>3, <1>7 DEF Registers
<1>8. CASE step[1] = "grid"
  BY <1>1, <1>2, <1>3, <1>8 DEF Registers
<1>. QED  BY <1>4, <1>5, <1>6, <1>7, <1>8 DEF RegisterWrites, Settings

(***************************************************************************)
(* Leases, modes and recorded progress.                                     *)
(***************************************************************************)
LEMMA HeldKept ==
    ASSUME HeldIsRemote,
           \A d \in Devices : Leased(d)' /\ ~Pending(d)' =>
               \/ modes'[d] = "remote"
               \/ Leased(d) /\ ~Pending(d) /\ modes'[d] = modes[d]
    PROVE  HeldIsRemote'
BY DEF HeldIsRemote

\* A step that writes no register and records nothing for a leased device.
LEMMA DevicesKept ==
    ASSUME OwnWindow, EnforcedWindowIsOneProfile, RecordedAutomaticIsNeutral, hw' = hw,
           \A d \in Devices : Leased(d)' =>
               modes'[d] = "remote" \/ (Leased(d) /\ modes'[d] = modes[d])
    PROVE  EnforcedWindowIsOneProfile' /\ RecordedAutomaticIsNeutral'
<1>1. EnforcedWindowIsOneProfile'
  BY DEF EnforcedWindowIsOneProfile
<1>2. RecordedAutomaticIsNeutral'
  BY DEF RecordedAutomaticIsNeutral
<1>. QED  BY <1>1, <1>2

\* An operation that has not written anything yet, or has nothing to write.
LEMMA NothingReached ==
    ASSUME \/ op'.pc \in {"idle", "preflight"}
           \/ op'.pc = "write" /\ op'.done = 0
           \/ op'.stage = "body" /\ op'.pc # "write"
    PROVE  CleanupReached' /\ WindowReached'
<1>1. CASE op'.pc \in {"idle", "preflight"}
  BY <1>1 DEF CleanupReached, WindowReached, Idle
<1>2. CASE op'.pc = "write" /\ op'.done = 0
  BY <1>2 DEF CleanupReached, WindowReached
<1>3. CASE op'.stage = "body" /\ op'.pc # "write"
  BY <1>3 DEF CleanupReached, WindowReached
<1>. QED  BY <1>1, <1>2, <1>3

\* An operation that keeps its position.
LEMMA ReachedKept ==
    ASSUME CleanupReached, WindowReached, hw' = hw, pre_remote' = pre_remote,
           op'.pc = op.pc, op'.stage = op.stage, op'.kind = op.kind,
           op'.device = op.device, op'.profile = op.profile, op'.done = op.done
    PROVE  CleanupReached' /\ WindowReached'
BY DEF CleanupReached, WindowReached, Restored, Neutral, Idle

\* A cleanup that waits for its refresh, its save or its confirmation.
LEMMA RestoredKept ==
    ASSUME op'.stage = "cleanup", op'.pc \in {"refresh", "save", "confirm"},
           Restored(op.device)'
    PROVE  CleanupReached' /\ WindowReached'
BY DEF CleanupReached, WindowReached

LEMMA RegisterInvKept ==
    ASSUME RegisterInv, hw' = hw,
           \A d \in Devices : Leased(d)' =>
               \/ modes'[d] = "remote"
               \/ Leased(d) /\ modes'[d] = modes[d] /\ (Pending(d) => Pending(d)'),
           OwnWindow => CleanupReached' /\ WindowReached'
    PROVE  RegisterInv'
<1>1. HeldIsRemote'
  BY HeldKept DEF RegisterInv
<1>2. ASSUME OwnWindow
      PROVE  /\ EnforcedWindowIsOneProfile' /\ RecordedAutomaticIsNeutral'
             /\ CleanupReached' /\ WindowReached'
  <2>1. EnforcedWindowIsOneProfile' /\ RecordedAutomaticIsNeutral'
    <3>1. \A d \in Devices : Leased(d)' =>
              modes'[d] = "remote" \/ (Leased(d) /\ modes'[d] = modes[d])
      OBVIOUS
    <3>2. EnforcedWindowIsOneProfile /\ RecordedAutomaticIsNeutral
      BY <1>2 DEF RegisterInv
    <3>. QED  BY <1>2, <3>1, <3>2, DevicesKept
  <2>. QED  BY <1>2, <2>1
<1>3. OwnWindow' <=> OwnWindow
  BY DEF OwnWindow, OwnRegisters
<1>. QED  BY <1>1, <1>2, <1>3 DEF RegisterInv

(***************************************************************************)
(* Requests, timers and the surroundings write nothing.                     *)
(***************************************************************************)
LEMMA ResolvedStarts ==
    ASSUME NEW o \in OpRecords, NEW saved, NEW mode
    PROVE  /\ Resolved(o, saved, mode).stage = "body"
           /\ Resolved(o, saved, mode).pc \in {"preflight", "save"}
<1>. DEFINE start == [o EXCEPT !.stage = "body", !.pc = "preflight", !.done = 0]
<1>1. start \in OpRecords /\ start.stage = "body" /\ start.pc = "preflight"
  <2>1. start \in OpRecords
    BY StartOpType
  <2>. QED  BY <2>1 DEF OpRecords
<1>2. ASSUME NEW p, NEW m, NEW a, NEW pc
      PROVE  /\ [start EXCEPT !.profile = p, !.mode = m, !.apply = a, !.pc = pc].stage = "body"
             /\ [start EXCEPT !.profile = p, !.mode = m, !.apply = a, !.pc = pc].pc = pc
  <2>. HIDE DEF start
  <2>. QED  BY <1>1 DEF OpRecords
<1>. HIDE DEF start
<1>. QED  BY <1>1, <1>2 DEF Resolved, start

LEMMA BeginKeeps ==
    ASSUME IndInv, RegisterInv, NEW o \in OpRecords,
           BeginCleanup(o) \/ BeginBody(o), UNCHANGED <<modes, hw>>
    PROVE  RegisterInv'
<1>1. CASE BeginCleanup(o)
  <2>1. op'.pc = "preflight"
    BY <1>1 DEF BeginCleanup, OpRecords
  <2>2. \A d \in Devices : Pending(d) => Pending(d)'
    BY <1>1 DEF BeginCleanup, Pending, NoCleanup, IndInv, TypeOK
  <2>3. \A d \in Devices : Leased(d)' <=> Leased(d)
    BY <1>1 DEF BeginCleanup, Leased
  <2>. QED  BY <2>1, <2>2, <2>3, NothingReached, RegisterInvKept
<1>2. CASE BeginBody(o)
  <2>1. op'.stage = "body" /\ op'.pc \in {"preflight", "save"}
    BY <1>2, ResolvedStarts DEF BeginBody
  <2>2. \A d \in Devices : (Leased(d)' <=> Leased(d)) /\ (Pending(d)' <=> Pending(d))
    BY <1>2 DEF BeginBody, Leased, Pending, leaseVars
  <2>. QED  BY <2>1, <2>2, NothingReached, RegisterInvKept
<1>. QED  BY <1>1, <1>2

\* A renewal of a lease leaves the dictionaries as they are otherwise.
LEMMA RenewLeases ==
    ASSUME IndInv, NEW d \in Devices, NEW o \in Owners, Renew(d, o)
    PROVE  /\ Leased(d)'
           /\ \A x \in Devices : x # d => (Leased(x)' <=> Leased(x))
<1>1. leases' = [leases EXCEPT ![d] = [owner |-> o, expires |-> now + LeaseTime]]
  BY DEF Renew
<1>2. [owner |-> o, expires |-> now + LeaseTime] # None
  BY ConstantAssumption DEF IndInv, TypeOK, LeaseRecords
<1>. QED  BY <1>1, <1>2 DEF IndInv, TypeOK, Leased

LEMMA RequestsKeep ==
    ASSUME IndInv, RegisterInv, NEW d \in Devices, Requests(d)
    PROVE  RegisterInv'
<1>1. ASSUME NEW p \in UserProfiles \cup {None}, NEW m \in ModeRequests, Change(d, p, m)
      PROVE  RegisterInv'
  <2>1. Lock("change", d, None, p, m, None) \in OpRecords
    BY LockType, ConstantAssumption DEF AllKinds, Profiles, Modes
  <2>. QED  BY <1>1, <2>1, BeginKeeps DEF Change, Request, Enter, memory
<1>2. ASSUME NEW s \in PolicySettings, WritePolicySetting(d, s)
      PROVE  RegisterInv'
  <2>1. Lock("policy", d, None, None, "keep", s) \in OpRecords
    BY LockType, ConstantAssumption DEF AllKinds
  <2>. QED  BY <1>2, <2>1, BeginKeeps DEF WritePolicySetting, Request, Enter, memory
<1>3. ASSUME NEW o \in Owners, NEW p \in RemoteProfiles \cup {None}, Acquire(d, o, p)
      PROVE  RegisterInv'
  <2>1. Lock("acquire", d, o, p, "remote", None) \in OpRecords
    BY LockType DEF AllKinds, Profiles, Modes
  <2>. QED  BY <1>3, <2>1, BeginKeeps DEF Acquire, Request, Enter, memory
<1>4. ASSUME NEW o \in Owners, NEW p \in RemoteProfiles, Update(d, o, p)
      PROVE  RegisterInv'
  <2>1. Lock("update", d, o, p, "remote", None) \in OpRecords
    BY LockType DEF AllKinds, Profiles, Modes
  <2>. QED  BY <1>4, <2>1, BeginKeeps DEF Update, Request, memory
<1>5. ASSUME NEW o \in Owners, NEW s \in PolicySettings, RemoteSetting(d, o, s)
      PROVE  RegisterInv'
  <2>1. Lock("setting", d, o, None, "keep", s) \in OpRecords
    BY LockType, ConstantAssumption DEF AllKinds
  <2>. QED  BY <1>5, <2>1, BeginKeeps DEF RemoteSetting, Request, memory
<1>6. ASSUME NEW o \in Owners, Release(d, o)
      PROVE  RegisterInv'
  <2>1. Lock("release", d, o, None, "keep", None) \in OpRecords
    BY LockType DEF AllKinds
  <2>. QED  BY <1>6, <2>1, BeginKeeps DEF Release, Request, memory
<1>7. ASSUME NEW o \in Owners, Heartbeat(d, o)
      PROVE  RegisterInv'
  <2>1. /\ Renew(d, o) /\ Leased(d)
        /\ UNCHANGED <<pre_remote, cleanup, op, memory, hw>>
    BY <1>7 DEF Heartbeat, Request, LiveOwner, Live
  <2>2. \A x \in Devices : (Leased(x)' <=> Leased(x)) /\ (Pending(x)' <=> Pending(x))
    BY <2>1, RenewLeases DEF Pending
  <2>3. OwnWindow => CleanupReached' /\ WindowReached'
    BY <2>1, ReachedKept DEF RegisterInv
  <2>. QED  BY <2>1, <2>2, <2>3, RegisterInvKept DEF memory
<1>. QED  BY <1>1, <1>2, <1>3, <1>4, <1>5, <1>6, <1>7 DEF Requests

LEMMA WatchdogKeeps ==
    ASSUME IndInv, RegisterInv, NEW d \in Devices, Watchdog(d)
    PROVE  RegisterInv'
<1>1. UNCHANGED <<memory, hw>>
  BY DEF Watchdog
<1>2. CASE UNCHANGED <<leaseVars, op>>
  <2>1. \A x \in Devices : (Leased(x)' <=> Leased(x)) /\ (Pending(x)' <=> Pending(x))
    BY <1>2 DEF Leased, Pending, leaseVars
  <2>2. OwnWindow => CleanupReached' /\ WindowReached'
    BY <1>1, <1>2, ReachedKept DEF RegisterInv, leaseVars
  <2>. QED  BY <1>1, <2>1, <2>2, RegisterInvKept DEF memory
<1>3. CASE BeginCleanup(Lock("watchdog", d, None, None, "keep", None))
  BY <1>1, <1>3, WatchdogLockType, BeginKeeps DEF memory
<1>. QED  BY <1>2, <1>3 DEF Watchdog

\* Steps that leave the leases, the modes, the registers and the operation alone.
LEMMA SurroundingsKeep ==
    ASSUME RegisterInv, UNCHANGED <<leaseVars, modes, hw, op>>
    PROVE  RegisterInv'
<1>1. \A x \in Devices : (Leased(x)' <=> Leased(x)) /\ (Pending(x)' <=> Pending(x))
  BY DEF Leased, Pending, leaseVars
<1>2. OwnWindow => CleanupReached' /\ WindowReached'
  BY ReachedKept DEF RegisterInv, leaseVars
<1>. QED  BY <1>1, <1>2, RegisterInvKept

\* An operation that ends, for whatever reason, without recording anything.
LEMMA EndKeeps ==
    ASSUME RegisterInv, EndOp, UNCHANGED <<leaseVars, modes, hw>>
    PROVE  RegisterInv'
<1>1. \A x \in Devices : (Leased(x)' <=> Leased(x)) /\ (Pending(x)' <=> Pending(x))
  BY DEF Leased, Pending, leaseVars
<1>2. op'.pc = "idle"
  BY DEF EndOp, NoOp
<1>. QED  BY <1>1, <1>2, NothingReached, RegisterInvKept

LEMMA CancelKeeps == ASSUME IndInv, RegisterInv, Cancel PROVE RegisterInv'
<1>1. /\ op' = [op EXCEPT !.cancelled = TRUE] /\ op \in OpRecords
      /\ UNCHANGED <<leaseVars, memory, hw>>
  BY DEF Cancel, IndInv, TypeOK
<1>2. /\ op'.pc = op.pc /\ op'.stage = op.stage /\ op'.kind = op.kind
      /\ op'.device = op.device /\ op'.profile = op.profile /\ op'.done = op.done
  BY <1>1 DEF OpRecords
<1>3. \A x \in Devices : (Leased(x)' <=> Leased(x)) /\ (Pending(x)' <=> Pending(x))
  BY <1>1 DEF Leased, Pending, leaseVars
<1>4. OwnWindow => CleanupReached' /\ WindowReached'
  BY <1>1, <1>2, ReachedKept DEF RegisterInv, leaseVars
<1>. QED  BY <1>1, <1>3, <1>4, RegisterInvKept DEF memory

\* Unloading and a crash: no device is leased any more.
LEMMA ForgottenKeeps ==
    ASSUME RegisterInv, ForgetLeases, hw' = hw, op' = NoOp
    PROVE  RegisterInv'
<1>1. \A d \in Devices : ~Leased(d)'
  BY DEF ForgetLeases, Leased
<1>2. op'.pc = "idle"
  BY DEF NoOp
<1>. QED  BY <1>1, <1>2, NothingReached, RegisterInvKept

\* Other writers keep away from the registers the properties are about.
LEMMA LowLevelWriteKeeps ==
    ASSUME IndInv, RegisterInv, NEW d \in Devices, LowLevelWrite(d)
    PROVE  RegisterInv'
<1>1. op.pc # "write" /\ UNCHANGED <<leaseVars, memory, op>>
  BY DEF LowLevelWrite
<1>2. PICK step \in LowLevel : WriteRegister(d, step)
  BY DEF LowLevelWrite
<1>3. step \in RegisterWrites /\ hw \in [Devices -> Registers]
  BY ConstantAssumption DEF IndInv, TypeOK
<1>4. step[1] \notin OwnRegisters
  BY <1>2 DEF OwnRegisters
<1>5. HeldIsRemote'
  BY <1>1, HeldKept DEF RegisterInv, Leased, Pending, leaseVars, memory
<1>6. ASSUME OwnWindow
      PROVE  /\ EnforcedWindowIsOneProfile' /\ RecordedAutomaticIsNeutral'
             /\ CleanupReached' /\ WindowReached'
  <2>1. step[1] \notin {"mode", "in", "out"}
    BY <1>4, <1>6 DEF OwnWindow
  <2>2. \A x \in Devices : /\ hw'[x].mode = hw[x].mode /\ hw'[x].in = hw[x].in
                           /\ hw'[x].out = hw[x].out
    BY <1>2, <1>3, <2>1, WriteEffect
  <2>3. \A x \in Devices : /\ "reserve" \in OwnRegisters => hw'[x].reserve = hw[x].reserve
                           /\ "grid" \in OwnRegisters => hw'[x].grid = hw[x].grid
    BY <1>2, <1>3, <1>4, WriteEffect
  <2>4. EnforcedWindowIsOneProfile'
    BY <1>6, <2>2 DEF RegisterInv, EnforcedWindowIsOneProfile
  <2>5. RecordedAutomaticIsNeutral'
    BY <1>1, <1>6, <2>2 DEF RegisterInv, RecordedAutomaticIsNeutral, Neutral, Leased,
                            leaseVars, memory
  <2>6. CASE Idle \/ op.stage # "cleanup" \/ op.pc = "preflight"
    BY <1>1, <2>4, <2>5, <2>6 DEF CleanupReached, WindowReached, Idle
  <2>7. CASE ~Idle /\ op.stage = "cleanup" /\ op.pc \in {"refresh", "save", "confirm"}
    <3>1. op.device \in Devices /\ Restored(op.device)
      BY <1>6, <2>7 DEF RegisterInv, CleanupReached, IndInv, OpIsWellFormed
    <3>2. Restored(op.device)'
      BY <1>1, <2>2, <2>3, <3>1 DEF Restored, Neutral, OwnRegisters, leaseVars
    <3>. QED  BY <1>1, <2>4, <2>5, <2>7, <3>2, RestoredKept
  <2>8. op.pc \in {"idle", "preflight", "write", "refresh", "save", "confirm"}
    BY DEF IndInv, TypeOK, OpRecords
  <2>. QED  BY <2>6, <2>7, <2>8, <1>1 DEF Idle
<1>7. OwnWindow' <=> OwnWindow
  BY DEF OwnWindow, OwnRegisters
<1>. QED  BY <1>5, <1>6, <1>7 DEF RegisterInv

(***************************************************************************)
(* One step of a sequence, verified or not, in every kind of sequence.      *)
(***************************************************************************)
RegistersAgree(h) ==
    \A d \in Devices :
        /\ h[d].mode = 3 => h[d].in = h[d].out /\ h[d].in \in Profiles
        /\ Leased(d) /\ modes[d] = "automatic" => Neutral(h[d])

LEMMA OthersAgree ==
    ASSUME NEW d \in Devices, RegistersAgree(hw),
           \A x \in Devices : x # d => hw'[x] = hw[x],
           hw'[d].mode = 3 => hw'[d].in = hw'[d].out /\ hw'[d].in \in Profiles,
           Leased(d) /\ modes[d] = "automatic" => Neutral(hw'[d])
    PROVE  RegistersAgree(hw')
BY DEF RegistersAgree

LEMMA CleanupWritten ==
    ASSUME IndInv, OwnWindow, RegistersAgree(hw), CleanupReached,
           op.pc = "write", op.stage = "cleanup",
           WriteRegister(op.device, Steps(op)[op.done + 1])
    PROVE  /\ RegistersAgree(hw')
           /\ op.done \in 0..4 /\ Len(Steps(op)) = 5
           /\ hw'[op.device].mode = 0
           /\ op.done >= 1 => hw'[op.device].in = Full
           /\ op.done >= 2 => hw'[op.device].out = Full
           /\ op.done >= 3 => hw'[op.device].reserve = pre_remote[op.device].reserve
                              \/ "reserve" \notin OwnRegisters
           /\ op.done >= 4 => hw'[op.device].grid = pre_remote[op.device].grid
           /\ op.done >= 3 => Neutral(hw[op.device])
           /\ op.done < 3 => /\ hw'[op.device].reserve = hw[op.device].reserve
                             /\ hw'[op.device].grid = hw[op.device].grid
<1>. DEFINE d == op.device
            s == pre_remote[op.device]
            step == Steps(op)[op.done + 1]
<1>1. /\ d \in Devices /\ s \in Snapshots /\ hw \in [Devices -> Registers]
      /\ op.done \in Nat /\ op.done < Len(Steps(op)) /\ ~Idle
      /\ Steps(op) = CleanupSteps(s)
  BY DEF IndInv, TypeOK, OpIsWellFormed, CleanupIsAuthorised, LeaseHasSnapshot, OpRecords,
         Idle, Steps
<1>2. /\ Len(Steps(op)) = 5 /\ op.done \in 0..4
      /\ op.done = 0 => step = <<"mode", 0>>
      /\ op.done = 1 => step = <<"in", Full>>
      /\ op.done = 2 => step = <<"out", Full>>
      /\ op.done = 3 => step = <<"reserve", s.reserve>>
      /\ op.done = 4 => step = <<"grid", s.grid>>
  BY <1>1, CleanupStepAt
<1>3. step \in RegisterWrites
  BY <1>1, <1>2, StepsType, ElementOfSeq DEF IndInv
<1>4. WriteRegister(d, step)
  OBVIOUS
<1>5. /\ op.done >= 1 => hw[d].mode = 0
      /\ op.done >= 2 => hw[d].in = Full
      /\ op.done >= 3 => hw[d].out = Full
      /\ op.done >= 4 => hw[d].reserve = s.reserve \/ "reserve" \notin OwnRegisters
      /\ hw[d].mode = 3 => hw[d].in = hw[d].out /\ hw[d].in \in Profiles
      /\ Leased(d) /\ modes[d] = "automatic" => Neutral(hw[d])
  BY <1>1 DEF CleanupReached, RegistersAgree
<1>. HIDE DEF d, s, step
<1>6. /\ \A x \in Devices : x # d => hw'[x] = hw[x]
      /\ hw'[d].mode = IF step[1] = "mode" THEN step[2] ELSE hw[d].mode
      /\ hw'[d].in = IF step[1] = "in" THEN step[2] ELSE hw[d].in
      /\ hw'[d].out = IF step[1] = "out" THEN step[2] ELSE hw[d].out
      /\ hw'[d].reserve = IF step[1] = "reserve" THEN step[2] ELSE hw[d].reserve
      /\ hw'[d].grid = IF step[1] = "grid" THEN step[2] ELSE hw[d].grid
  BY <1>1, <1>3, <1>4, WriteEffect
<1>7. /\ hw'[d].mode = 0
      /\ op.done >= 1 => hw'[d].in = Full
      /\ op.done >= 2 => hw'[d].out = Full
      /\ op.done >= 3 => hw'[d].reserve = s.reserve \/ "reserve" \notin OwnRegisters
      /\ op.done >= 4 => hw'[d].grid = s.grid
      /\ op.done >= 3 => Neutral(hw[d])
      /\ op.done < 3 => hw'[d].reserve = hw[d].reserve /\ hw'[d].grid = hw[d].grid
      /\ Neutral(hw[d]) => Neutral(hw'[d])
  <2>1. CASE op.done = 0
    BY <1>2, <1>5, <1>6, <2>1 DEF Neutral
  <2>2. CASE op.done = 1
    BY <1>2, <1>5, <1>6, <2>2 DEF Neutral
  <2>3. CASE op.done = 2
    BY <1>2, <1>5, <1>6, <2>3 DEF Neutral
  <2>4. CASE op.done = 3
    BY <1>2, <1>5, <1>6, <2>4 DEF Neutral
  <2>5. CASE op.done = 4
    BY <1>2, <1>5, <1>6, <2>5 DEF Neutral
  <2>. QED  BY <1>2, <2>1, <2>2, <2>3, <2>4, <2>5
<1>8. RegistersAgree(hw')
  BY <1>1, <1>5, <1>6, <1>7, OthersAgree
<1>. QED  BY <1>2, <1>7, <1>8 DEF d, s

\* A body runs for a leased device only in remote mode.
LEMMA BodyIsNotAutomatic ==
    ASSUME IndInv, HeldIsRemote, ~Idle, op.stage = "body",
           op.kind \notin {"setting", "policy"}
    PROVE  ~(Leased(op.device) /\ modes[op.device] = "automatic")
<1>1. op.device \in Devices /\ op.kind \in {"acquire", "update", "change"}
  BY DEF IndInv, TypeOK, OpRecords, OpIsWellFormed, BodyIsAuthorised, AllKinds
<1>2. Leased(op.device) => ~Pending(op.device)
  BY <1>1 DEF IndInv, BodyIsAuthorised
<1>. QED  BY <1>1, <1>2 DEF HeldIsRemote

LEMMA WindowWritten ==
    ASSUME IndInv, HeldIsRemote, RegistersAgree(hw), WindowReached,
           op.pc = "write", op.stage = "body", op.kind \notin {"setting", "policy"},
           WriteRegister(op.device, Steps(op)[op.done + 1])
    PROVE  /\ RegistersAgree(hw')
           /\ op.done + 1 < Len(Steps(op)) =>
                 /\ hw'[op.device].mode = 0
                 /\ op.done >= 3 => hw'[op.device].in = op.profile
                 /\ op.done >= 4 => hw'[op.device].out = op.profile
<1>. DEFINE d == op.device
            step == Steps(op)[op.done + 1]
<1>1. /\ d \in Devices /\ hw \in [Devices -> Registers]
      /\ op.done \in Nat /\ op.done < Len(Steps(op)) /\ ~Idle
  BY DEF IndInv, TypeOK, OpIsWellFormed, OpRecords, Idle
<1>2. Steps(op) \in Seq(RegisterWrites) /\ Len(Steps(op)) \in 1..6
  BY <1>1, StepsType DEF IndInv
<1>3. step \in RegisterWrites
  <2>1. op.done + 1 \in 1..Len(Steps(op))
    BY <1>1, <1>2, StepArithmetic
  <2>. QED  BY <1>2, <2>1, ElementOfSeq
<1>4. WriteRegister(d, step)
  OBVIOUS
<1>5. /\ op.done >= 1 => hw[d].mode = 0
      /\ op.done >= 4 => hw[d].in = op.profile
      /\ op.done >= 5 => hw[d].out = op.profile
      /\ hw[d].mode = 3 => hw[d].in = hw[d].out /\ hw[d].in \in Profiles
  BY <1>1 DEF WindowReached, RegistersAgree
<1>6. ~(Leased(d) /\ modes[d] = "automatic")
  BY <1>1, BodyIsNotAutomatic
<1>. HIDE DEF d, step
<1>7. /\ \A x \in Devices : x # d => hw'[x] = hw[x]
      /\ hw'[d].mode = IF step[1] = "mode" THEN step[2] ELSE hw[d].mode
      /\ hw'[d].in = IF step[1] = "in" THEN step[2] ELSE hw[d].in
      /\ hw'[d].out = IF step[1] = "out" THEN step[2] ELSE hw[d].out
  BY <1>1, <1>3, <1>4, WriteEffect
<1>8. CASE op.mode = "automatic"
  <2>1. Steps(op) = NeutralSteps
    BY <1>8 DEF Steps
  <2>2. /\ op.done \in 0..2
        /\ op.done = 0 => step = <<"mode", 0>>
        /\ op.done = 1 => step = <<"in", Full>>
        /\ op.done = 2 => step = <<"out", Full>>
    BY <1>1, <2>1, AutomaticStepAt DEF step
  <2>3. hw'[d].mode = 0
    <3>1. CASE op.done = 0
      BY <1>7, <2>2, <3>1
    <3>2. CASE op.done \in {1, 2}
      BY <1>5, <1>7, <2>2, <3>2
    <3>. QED  BY <2>2, <3>1, <3>2
  <2>4. RegistersAgree(hw')
    BY <1>1, <1>6, <1>7, <2>3, OthersAgree
  <2>. QED  BY <2>2, <2>3, <2>4 DEF d
<1>9. CASE op.mode # "automatic"
  <2>1. op.profile \in Profiles
    BY <1>1, <1>9 DEF IndInv, TypeOK, OpRecords, OpIsWellFormed, BodyIsAuthorised, AllKinds, Profiles
  <2>2. Steps(op) = NeutralSteps \o WindowSteps(op.profile)
    BY <1>9 DEF Steps
  <2>3. /\ op.done \in 0..5
        /\ op.done = 0 => step = <<"mode", 0>>
        /\ op.done = 1 => step = <<"in", Full>>
        /\ op.done = 2 => step = <<"out", Full>>
        /\ op.done = 3 => step = <<"in", op.profile>>
        /\ op.done = 4 => step = <<"out", op.profile>>
        /\ op.done = 5 => step = <<"mode", 3>>
    <3>1. op.profile \in Profiles /\ op.done \in Nat
      BY <1>1, <2>1, <2>2
    <3>2. op.done < Len(NeutralSteps \o WindowSteps(op.profile))
      BY <1>1, <2>1, <2>2
    <3>3. step = (NeutralSteps \o WindowSteps(op.profile))[op.done + 1]
      BY <2>2 DEF step
    <3> HIDE DEF step
    <3>. QED  BY <3>1, <3>2, <3>3, WindowStepAt
  <2>4. Len(Steps(op)) = 6
    <3>1. /\ NeutralSteps \in Seq(RegisterWrites) /\ Len(NeutralSteps) = 3
          /\ WindowSteps(op.profile) \in Seq(RegisterWrites)
          /\ Len(WindowSteps(op.profile)) = 3
      BY <2>1 DEF NeutralSteps, WindowSteps, RegisterWrites
    <3>2. Len(Steps(op)) = 3 + 3
      BY <2>2, <3>1, ConcatSteps
    <3>. QED  BY <3>2
  <2>5. /\ op.done < 5 => hw'[d].mode = 0
        /\ op.done >= 3 => hw'[d].in = op.profile
        /\ op.done >= 4 => hw'[d].out = op.profile
    <3>1. CASE op.done \in {0, 1, 2}
      BY <1>5, <1>7, <2>3, <3>1
    <3>2. CASE op.done = 3
      BY <1>5, <1>7, <2>3, <3>2
    <3>3. CASE op.done = 4
      BY <1>5, <1>7, <2>3, <3>3
    <3>4. CASE op.done = 5
      BY <1>5, <1>7, <2>3, <3>4
    <3>. QED  BY <2>3, <3>1, <3>2, <3>3, <3>4
  <2>6. hw'[d].mode = 3 => hw'[d].in = hw'[d].out /\ hw'[d].in \in Profiles
    BY <2>1, <2>3, <2>5
  <2>7. RegistersAgree(hw')
    BY <1>1, <1>6, <1>7, <2>6, OthersAgree
  <2>. QED  BY <2>3, <2>4, <2>5, <2>7 DEF d
<1>. QED  BY <1>8, <1>9

LEMMA SettingWritten ==
    ASSUME IndInv, RegistersAgree(hw),
           op.pc = "write", op.stage = "body", op.kind \in {"setting", "policy"},
           WriteRegister(op.device, Steps(op)[op.done + 1])
    PROVE  RegistersAgree(hw') /\ op.done + 1 = Len(Steps(op))
<1>. DEFINE d == op.device
            step == op.setting
<1>1. /\ d \in Devices /\ hw \in [Devices -> Registers] /\ step \in Settings
      /\ op.done \in Nat /\ op.done < Len(Steps(op)) /\ ~Idle
  BY DEF IndInv, TypeOK, OpIsWellFormed, OpRecords, Idle
<1>2. Steps(op) = << op.setting >>
  BY DEF Steps
<1>3. Len(Steps(op)) = 1 /\ op.done = 0 /\ Steps(op)[1] = step
  BY <1>1, <1>2
<1>4. WriteRegister(d, step)
  BY <1>3
<1>5. step \in RegisterWrites /\ step[1] \in {"reserve", "grid"}
  BY <1>1 DEF RegisterWrites, Settings
<1>. HIDE DEF d, step
<1>6. /\ \A x \in Devices : x # d => hw'[x] = hw[x]
      /\ hw'[d].mode = hw[d].mode /\ hw'[d].in = hw[d].in /\ hw'[d].out = hw[d].out
  BY <1>1, <1>4, <1>5, WriteEffect
<1>7. RegistersAgree(hw')
  BY <1>1, <1>6 DEF RegistersAgree, Neutral
<1>. QED  BY <1>3, <1>7

LEMMA Agreement ==
    ASSUME OwnWindow
    PROVE  EnforcedWindowIsOneProfile /\ RecordedAutomaticIsNeutral <=> RegistersAgree(hw)
BY DEF EnforcedWindowIsOneProfile, RecordedAutomaticIsNeutral, RegistersAgree

(***************************************************************************)
(* The steps of the running operation.                                      *)
(***************************************************************************)
LEMMA PreflightKeeps == ASSUME IndInv, RegisterInv, PreflightPasses PROVE RegisterInv'
<1>1. /\ op' = [op EXCEPT !.pc = "write", !.candidate = Capture(op)] /\ op \in OpRecords
      /\ op.done = 0 /\ UNCHANGED <<leaseVars, memory, hw>>
  BY DEF PreflightPasses, IndInv, TypeOK, OpIsWellFormed, Idle
<1>2. op'.pc = "write" /\ op'.done = 0
  BY <1>1 DEF OpRecords
<1>3. \A x \in Devices : (Leased(x)' <=> Leased(x)) /\ (Pending(x)' <=> Pending(x))
  BY <1>1 DEF Leased, Pending, leaseVars
<1>. QED  BY <1>1, <1>2, <1>3, NothingReached, RegisterInvKept DEF memory

LEMMA StepVerifiedKeeps == ASSUME IndInv, RegisterInv, StepVerified PROVE RegisterInv'
<1>1. /\ op.pc = "write" /\ ~Idle /\ op \in OpRecords /\ op.device \in Devices
      /\ op.done \in Nat /\ op.stage \in {"cleanup", "body"}
      /\ UNCHANGED <<leaseVars, memory>>
      /\ WriteRegister(op.device, Steps(op)[op.done + 1])
  BY DEF StepVerified, Idle, IndInv, TypeOK, OpIsWellFormed, OpRecords
<1>2. HeldIsRemote'
  BY <1>1, HeldKept DEF RegisterInv, Leased, Pending, leaseVars, memory
<1>3. \/ op' = NoOp
      \/ op.done + 1 < Len(Steps(op)) /\ op' = [op EXCEPT !.done = op.done + 1]
      \/ ~(op.done + 1 < Len(Steps(op))) /\ op' = [op EXCEPT !.pc = "refresh", !.done = op.done + 1]
  BY DEF StepVerified, EndOp
<1>4. \/ op'.pc = "idle"
      \/ /\ op'.stage = op.stage /\ op'.kind = op.kind /\ op'.device = op.device
         /\ op'.profile = op.profile /\ op'.done = op.done + 1
         /\ \/ op'.pc = "write" /\ op.done + 1 < Len(Steps(op))
            \/ op'.pc = "refresh" /\ ~(op.done + 1 < Len(Steps(op)))
  <2>1. CASE op' = NoOp
    BY <2>1 DEF NoOp
  <2>2. CASE op.done + 1 < Len(Steps(op)) /\ op' = [op EXCEPT !.done = op.done + 1]
    BY <1>1, <2>2 DEF OpRecords
  <2>3. CASE ~(op.done + 1 < Len(Steps(op))) /\ op' = [op EXCEPT !.pc = "refresh", !.done = op.done + 1]
    BY <1>1, <2>3 DEF OpRecords
  <2>. QED  BY <1>3, <2>1, <2>2, <2>3
<1>5. ASSUME OwnWindow
      PROVE  /\ EnforcedWindowIsOneProfile' /\ RecordedAutomaticIsNeutral'
             /\ CleanupReached' /\ WindowReached'
  <2>1. RegistersAgree(hw) /\ HeldIsRemote /\ CleanupReached /\ WindowReached
    BY <1>5, Agreement DEF RegisterInv
  <2>2. ASSUME RegistersAgree(hw')
        PROVE  EnforcedWindowIsOneProfile' /\ RecordedAutomaticIsNeutral'
    BY <1>1, <2>2 DEF RegistersAgree, EnforcedWindowIsOneProfile, RecordedAutomaticIsNeutral,
                      Leased, leaseVars, memory
  <2>3. CASE op.stage = "cleanup"
    <3>1. /\ RegistersAgree(hw')
          /\ op.done \in 0..4 /\ Len(Steps(op)) = 5
          /\ hw'[op.device].mode = 0
          /\ op.done >= 1 => hw'[op.device].in = Full
          /\ op.done >= 2 => hw'[op.device].out = Full
          /\ op.done >= 3 => hw'[op.device].reserve = pre_remote[op.device].reserve
                             \/ "reserve" \notin OwnRegisters
          /\ op.done >= 4 => hw'[op.device].grid = pre_remote[op.device].grid
      BY <1>1, <1>5, <2>1, <2>3, CleanupWritten
    <3>2. CASE op'.pc = "idle"
      BY <2>2, <3>1, <3>2, NothingReached
    <3>3. CASE op'.pc = "write" /\ op'.stage = op.stage /\ op'.device = op.device
               /\ op'.done = op.done + 1
      <4>1. WindowReached'
        BY <2>3, <3>3 DEF WindowReached
      <4>2. CleanupReached'
        BY <1>1, <3>1, <3>3 DEF CleanupReached, leaseVars
      <4>. QED  BY <2>2, <3>1, <4>1, <4>2
    <3>4. CASE op'.pc = "refresh" /\ op'.stage = op.stage /\ op'.device = op.device
               /\ ~(op.done + 1 < Len(Steps(op)))
      <4>1. op.done = 4
        BY <3>1, <3>4
      <4>2. /\ hw'[op.device].mode = 0 /\ hw'[op.device].in = Full
            /\ hw'[op.device].out = Full
            /\ \/ hw'[op.device].reserve = pre_remote[op.device].reserve
               \/ "reserve" \notin OwnRegisters
            /\ hw'[op.device].grid = pre_remote[op.device].grid
        BY <3>1, <4>1
      <4>3. Restored(op.device)'
        BY <1>1, <3>4, <4>2 DEF Restored, Neutral, OwnRegisters, leaseVars
      <4>. QED  BY <2>2, <2>3, <3>1, <3>4, <4>3, RestoredKept
    <3>. QED  BY <1>4, <3>2, <3>3, <3>4
  <2>4. CASE op.stage = "body" /\ op.kind \notin {"setting", "policy"}
    <3>1. /\ RegistersAgree(hw')
          /\ op.done + 1 < Len(Steps(op)) =>
                /\ hw'[op.device].mode = 0
                /\ op.done >= 3 => hw'[op.device].in = op.profile
                /\ op.done >= 4 => hw'[op.device].out = op.profile
      BY <1>1, <2>1, <2>4, WindowWritten
    <3>2. CASE op'.pc = "idle" \/ (op'.pc = "refresh" /\ op'.stage = op.stage)
      BY <2>2, <2>4, <3>1, <3>2, NothingReached
    <3>3. CASE /\ op'.pc = "write" /\ op'.stage = op.stage /\ op'.device = op.device
               /\ op'.profile = op.profile /\ op'.done = op.done + 1
               /\ op.done + 1 < Len(Steps(op))
      <4>1. CleanupReached'
        BY <2>4, <3>3 DEF CleanupReached
      <4>2. WindowReached'
        BY <1>1, <3>1, <3>3 DEF WindowReached
      <4>. QED  BY <2>2, <3>1, <4>1, <4>2
    <3>. QED  BY <1>4, <3>2, <3>3
  <2>5. CASE op.stage = "body" /\ op.kind \in {"setting", "policy"}
    <3>1. RegistersAgree(hw') /\ op.done + 1 = Len(Steps(op))
      BY <1>1, <2>1, <2>5, SettingWritten
    <3>2. op'.pc = "idle" \/ (op'.stage = "body" /\ op'.pc # "write")
      BY <1>1, <1>4, <2>5, <3>1
    <3>. QED  BY <2>2, <3>1, <3>2, NothingReached
  <2>. QED  BY <1>1, <2>3, <2>4, <2>5
<1>6. OwnWindow' <=> OwnWindow
  BY DEF OwnWindow, OwnRegisters
<1>. QED  BY <1>2, <1>5, <1>6 DEF RegisterInv

\* What a failed cleanup records: the device stays pending, and "automatic" is
\* recorded from the third verified step on.
LEMMA ProgressRecorded ==
    ASSUME IndInv, NEW d \in Devices, Leased(d), NEW n \in 0..5,
           RecordProgress(d, n), UNCHANGED leases
    PROVE  /\ Pending(d)'
           /\ \A x \in Devices : (Leased(x)' <=> Leased(x))
           /\ \A x \in Devices : x # d => /\ modes'[x] = modes[x]
                                         /\ (Pending(x)' <=> Pending(x))
           /\ modes'[d] = modes[d] \/ (n >= 3 /\ modes'[d] = "automatic")
<1>1. cleanup' = [cleanup EXCEPT ![d] = n]
  BY DEF RecordProgress
<1>2. modes' = modes \/ (n >= 3 /\ modes' = [modes EXCEPT ![d] = "automatic"])
  BY DEF RecordProgress, RecordAutomatic, memory
<1>. QED  BY <1>1, <1>2 DEF IndInv, TypeOK, Leased, Pending, NoCleanup

LEMMA StepFailsKeeps == ASSUME IndInv, RegisterInv, StepFails PROVE RegisterInv'
<1>1. /\ op.pc = "write" /\ ~Idle /\ op.device \in Devices /\ op' = NoOp
      /\ op.done \in Nat /\ op.stage \in {"cleanup", "body"}
      /\ UNCHANGED <<leases, pre_remote>>
      /\ hw' = hw \/ WriteRegister(op.device, Steps(op)[op.done + 1])
  BY DEF StepFails, Idle, IndInv, TypeOK, OpIsWellFormed, OpRecords, EndOp
<1>2. CleanupReached' /\ WindowReached'
  <2>1. op'.pc = "idle"
    BY <1>1 DEF NoOp
  <2>. QED  BY <2>1, NothingReached
<1>3. OwnWindow' <=> OwnWindow
  BY DEF OwnWindow, OwnRegisters
<1>4. CASE op.stage = "cleanup" /\ ~op.cancelled
  <2>. SUFFICES ASSUME NEW d \in Devices, d = op.device PROVE RegisterInv'
    BY <1>1
  <2>1. RecordProgress(d, op.done)
    BY <1>4 DEF StepFails
  <2>2. Leased(d) /\ op.done < Len(Steps(op)) /\ Len(Steps(op)) \in 1..6
    BY <1>1, <1>4, StepsType
       DEF IndInv, TypeOK, OpIsWellFormed, CleanupIsAuthorised
  <2>3. op.done \in 0..5
    BY <1>1, <2>2, StepArithmetic
  <2>4. /\ Pending(d)'
        /\ \A x \in Devices : (Leased(x)' <=> Leased(x))
        /\ \A x \in Devices : x # d => /\ modes'[x] = modes[x]
                                      /\ (Pending(x)' <=> Pending(x))
        /\ modes'[d] = modes[d] \/ (op.done >= 3 /\ modes'[d] = "automatic")
    BY <1>1, <2>1, <2>2, <2>3, ProgressRecorded
  <2>5. HeldIsRemote'
    BY <2>4, HeldKept DEF RegisterInv
  <2>6. ASSUME OwnWindow
        PROVE  EnforcedWindowIsOneProfile' /\ RecordedAutomaticIsNeutral'
    <3>1. RegistersAgree(hw) /\ CleanupReached
      BY <2>6, Agreement DEF RegisterInv
    <3>2. /\ RegistersAgree(hw')
          /\ op.done >= 3 => Neutral(hw'[op.device])
      <4>1. CASE hw' = hw
        BY <1>1, <1>4, <3>1, <4>1 DEF CleanupReached, Neutral
      <4>2. CASE WriteRegister(op.device, Steps(op)[op.done + 1])
        <5>1. /\ RegistersAgree(hw')
              /\ hw'[op.device].mode = 0
              /\ op.done >= 1 => hw'[op.device].in = Full
              /\ op.done >= 2 => hw'[op.device].out = Full
          BY <1>1, <1>4, <2>6, <3>1, <4>2, CleanupWritten
        <5>. QED  BY <1>1, <5>1 DEF Neutral
      <4>. QED  BY <1>1, <4>1, <4>2
    <3>3. EnforcedWindowIsOneProfile'
      BY <3>2 DEF RegistersAgree, EnforcedWindowIsOneProfile
    <3>4. RecordedAutomaticIsNeutral'
      BY <1>1, <2>4, <3>2 DEF RegistersAgree, RecordedAutomaticIsNeutral
    <3>. QED  BY <3>3, <3>4
  <2>. QED  BY <1>2, <1>3, <2>5, <2>6 DEF RegisterInv
<1>5. CASE ~(op.stage = "cleanup" /\ ~op.cancelled)
  <2>1. UNCHANGED <<leaseVars, memory>>
    BY <1>1, <1>5 DEF StepFails, leaseVars
  <2>2. HeldIsRemote'
    BY <2>1, HeldKept DEF RegisterInv, Leased, Pending, leaseVars, memory
  <2>3. ASSUME OwnWindow
        PROVE  EnforcedWindowIsOneProfile' /\ RecordedAutomaticIsNeutral'
    <3>1. RegistersAgree(hw) /\ HeldIsRemote /\ CleanupReached /\ WindowReached
      BY <2>3, Agreement DEF RegisterInv
    <3>2. RegistersAgree(hw')
      <4>1. CASE hw' = hw
        BY <3>1, <4>1
      <4>2. CASE WriteRegister(op.device, Steps(op)[op.done + 1])
        BY <1>1, <2>3, <3>1, <4>2, CleanupWritten, WindowWritten, SettingWritten
      <4>. QED  BY <1>1, <4>1, <4>2
    <3>. QED  BY <2>1, <3>2 DEF RegistersAgree, EnforcedWindowIsOneProfile,
                                RecordedAutomaticIsNeutral, Leased, leaseVars, memory
  <2>. QED  BY <1>2, <1>3, <2>2, <2>3 DEF RegisterInv
<1>. QED  BY <1>4, <1>5

LEMMA RefreshCleanupKeeps == ASSUME IndInv, RegisterInv, RefreshCleanup PROVE RegisterInv'
<1>. SUFFICES ASSUME NEW d \in Devices, d = op.device PROVE RegisterInv'
  BY DEF RefreshCleanup, Idle, IndInv, OpIsWellFormed
<1>1. /\ op.pc = "refresh" /\ op.stage = "cleanup" /\ ~Idle /\ Leased(d)
      /\ op \in OpRecords /\ RecordProgress(d, 5)
      /\ op' = [op EXCEPT !.pc = "save"] \/ op' = NoOp
      /\ hw' = hw /\ UNCHANGED <<leases, pre_remote>>
  BY DEF RefreshCleanup, EndOp, Idle, IndInv, TypeOK, CleanupIsAuthorised
<1>2. /\ Pending(d)'
      /\ \A x \in Devices : (Leased(x)' <=> Leased(x))
      /\ \A x \in Devices : x # d => /\ modes'[x] = modes[x]
                                    /\ (Pending(x)' <=> Pending(x))
  <2>1. 5 \in 0..5
    OBVIOUS
  <2>. QED  BY <1>1, <2>1, ProgressRecorded
<1>3. HeldIsRemote'
  BY <1>2, HeldKept DEF RegisterInv
<1>4. ASSUME OwnWindow
      PROVE  /\ EnforcedWindowIsOneProfile' /\ RecordedAutomaticIsNeutral'
             /\ CleanupReached' /\ WindowReached'
  <2>1. Restored(d) /\ EnforcedWindowIsOneProfile /\ RecordedAutomaticIsNeutral
    BY <1>1, <1>4 DEF RegisterInv, CleanupReached
  <2>2. EnforcedWindowIsOneProfile' /\ RecordedAutomaticIsNeutral'
    BY <1>1, <1>2, <2>1 DEF EnforcedWindowIsOneProfile, RecordedAutomaticIsNeutral, Restored
  <2>3. CASE op' = NoOp
    BY <2>2, <2>3, NothingReached DEF NoOp
  <2>4. CASE op' = [op EXCEPT !.pc = "save"]
    <3>1. op'.pc = "save" /\ op'.stage = "cleanup" /\ op'.device = d
      BY <1>1, <2>4 DEF OpRecords
    <3>2. Restored(op.device)'
      BY <1>1, <2>1, <3>1 DEF Restored, Neutral
    <3>. QED  BY <2>2, <3>1, <3>2, RestoredKept
  <2>. QED  BY <1>1, <2>3, <2>4
<1>5. OwnWindow' <=> OwnWindow
  BY DEF OwnWindow, OwnRegisters
<1>. QED  BY <1>3, <1>4, <1>5 DEF RegisterInv

LEMMA RefreshBodyKeeps == ASSUME IndInv, RegisterInv, RefreshBody PROVE RegisterInv'
<1>. SUFFICES ASSUME NEW d \in Devices, d = op.device PROVE RegisterInv'
  BY DEF RefreshBody, Idle, IndInv, OpIsWellFormed
<1>1. /\ op.stage = "body" /\ ~Idle /\ op \in OpRecords
      /\ UNCHANGED <<pre_remote, cleanup, memory, hw>>
  BY DEF RefreshBody, Idle, IndInv, TypeOK
<1>2. op'.pc = "idle" \/ (op'.stage = "body" /\ op'.pc = "save")
  BY <1>1 DEF RefreshBody, EndOp, NoOp, OpRecords
<1>3. \A x \in Devices : (Leased(x)' <=> Leased(x)) /\ (Pending(x)' <=> Pending(x))
  <2>1. CASE leases' = leases
    BY <1>1, <2>1 DEF Leased, Pending
  <2>2. CASE op.kind = "setting" /\ Renew(d, op.owner)
    <3>1. op.owner \in Owners /\ Leased(d)
      BY <1>1, <2>2 DEF IndInv, OpIsWellFormed, BodyIsAuthorised
    <3>. QED  BY <1>1, <2>2, <3>1, RenewLeases DEF Pending
  <2>. QED  BY <2>1, <2>2 DEF RefreshBody
<1>. QED  BY <1>1, <1>2, <1>3, NothingReached, RegisterInvKept DEF memory

LEMMA SaveKeeps == ASSUME IndInv, RegisterInv, Save PROVE RegisterInv'
<1>1. /\ op.pc = "save" /\ op' = [op EXCEPT !.pc = "confirm"] /\ op \in OpRecords
      /\ ~Idle /\ op.stage \in {"cleanup", "body"}
      /\ UNCHANGED <<leaseVars, memory, hw>>
  BY DEF Save, Idle, IndInv, TypeOK, OpRecords
<1>2. op'.pc = "confirm" /\ op'.stage = op.stage /\ op'.device = op.device
  BY <1>1 DEF OpRecords
<1>3. \A x \in Devices : (Leased(x)' <=> Leased(x)) /\ (Pending(x)' <=> Pending(x))
  BY <1>1 DEF Leased, Pending, leaseVars
<1>4. ASSUME OwnWindow PROVE CleanupReached' /\ WindowReached'
  <2>1. CASE op.stage = "body"
    BY <1>2, <2>1, NothingReached
  <2>2. CASE op.stage = "cleanup"
    <3>1. Restored(op.device)
      BY <1>1, <1>4, <2>2 DEF RegisterInv, CleanupReached
    <3>2. Restored(op.device)'
      BY <1>1, <1>2, <3>1 DEF Restored, Neutral, leaseVars
    <3>. QED  BY <1>2, <2>2, <3>2, RestoredKept
  <2>. QED  BY <1>1, <2>1, <2>2
<1>. QED  BY <1>1, <1>3, <1>4, RegisterInvKept DEF memory

LEMMA ConfirmCleanupKeeps == ASSUME IndInv, RegisterInv, ConfirmCleanup PROVE RegisterInv'
<1>. SUFFICES ASSUME NEW d \in Devices, d = op.device PROVE RegisterInv'
  BY DEF ConfirmCleanup, Idle, IndInv, OpIsWellFormed
<1>1. /\ op \in OpRecords /\ EndLease(d) /\ hw' = hw
      /\ modes' = [modes EXCEPT ![d] = CommitMode]
  BY DEF ConfirmCleanup, Commit, NewModes, IndInv, TypeOK
<1>2. op'.pc = "idle" \/ (op'.stage = "body" /\ op'.pc \in {"preflight", "save"})
  BY <1>1, ResolvedStarts DEF ConfirmCleanup, EndOp, NoOp
<1>3. \A x \in Devices : Leased(x)' =>
          /\ Leased(x) /\ modes'[x] = modes[x] /\ (Pending(x) => Pending(x)')
  <2>1. /\ ~Leased(d)'
        /\ \A x \in Devices : x # d => leases'[x] = leases[x] /\ cleanup'[x] = cleanup[x]
    BY <1>1, EndLeaseKeeps
  <2>. QED  BY <1>1, <2>1 DEF Leased, Pending, IndInv, TypeOK
<1>. QED  BY <1>1, <1>2, <1>3, NothingReached, RegisterInvKept

LEMMA ConfirmBodyKeeps == ASSUME IndInv, RegisterInv, ConfirmBody PROVE RegisterInv'
<1>. SUFFICES ASSUME NEW d \in Devices, d = op.device PROVE RegisterInv'
  BY DEF ConfirmBody, Idle, IndInv, OpIsWellFormed
<1>1. /\ op.pc = "confirm" /\ op.stage = "body" /\ ~Idle /\ op' = NoOp
      /\ hw' = hw /\ cleanup' = cleanup
      /\ modes' = [modes EXCEPT ![d] = op.mode] /\ modes \in [Devices -> Modes]
  BY DEF ConfirmBody, Commit, NewModes, CommitMode, EndOp, Idle, IndInv, TypeOK
<1>2. op.kind \in {"acquire", "update", "change"}
  BY <1>1 DEF IndInv, TypeOK, OpRecords, OpIsWellFormed, BodyIsAuthorised, AllKinds
<1>3. \A x \in Devices : Leased(x)' =>
          \/ modes'[x] = "remote"
          \/ Leased(x) /\ modes'[x] = modes[x] /\ (Pending(x) => Pending(x)')
  <2>1. CASE op.kind = "change"
    <3>1. leases' = leases /\ ~Leased(d)
      BY <1>1, <2>1 DEF ConfirmBody, IndInv, BodyIsAuthorised
    <3>. QED  BY <1>1, <3>1 DEF Leased, Pending
  <2>2. CASE op.kind \in {"acquire", "update"}
    <3>1. Renew(d, op.owner) /\ op.owner \in Owners /\ op.mode = "remote"
      BY <1>1, <2>2 DEF ConfirmBody, IndInv, OpIsWellFormed, BodyIsAuthorised
    <3>2. \A x \in Devices : x # d => (Leased(x)' <=> Leased(x))
      BY <3>1, RenewLeases
    <3>. QED  BY <1>1, <3>1, <3>2 DEF Pending
  <2>. QED  BY <1>2, <2>1, <2>2
<1>4. op'.pc = "idle"
  BY <1>1 DEF NoOp
<1>. QED  BY <1>1, <1>3, <1>4, NothingReached, RegisterInvKept

LEMMA RunningKeeps == ASSUME IndInv, RegisterInv, Running PROVE RegisterInv'
<1>1. ASSUME PreflightFails \/ RefreshFails \/ SaveFails PROVE RegisterInv'
  BY <1>1, EndKeeps DEF PreflightFails, RefreshFails, SaveFails, memory
<1>. QED  BY <1>1, PreflightKeeps, StepVerifiedKeeps, StepFailsKeeps, RefreshCleanupKeeps,
             RefreshBodyKeeps, SaveKeeps, ConfirmCleanupKeeps, ConfirmBodyKeeps DEF Running

LEMMA NextKeeps == ASSUME IndInv, RegisterInv, [Next]_vars PROVE RegisterInv'
<1>1. ASSUME NEW d \in Devices,
             Requests(d) \/ TimerFires(d) \/ Watchdog(d) \/ LowLevelWrite(d)
      PROVE  RegisterInv'
  <2>1. CASE TimerFires(d)
    BY <2>1, SurroundingsKeep DEF TimerFires, memory
  <2>. QED  BY <1>1, <2>1, RequestsKeep, WatchdogKeeps, LowLevelWriteKeeps
<1>2. CASE Running
  BY <1>2, RunningKeeps
<1>3. CASE Tick \/ StartClosing \/ Close \/ UNCHANGED vars
  BY <1>3, SurroundingsKeep DEF Tick, StartClosing, Close, vars, memory
<1>4. CASE Cancel
  BY <1>4, CancelKeeps
<1>5. CASE Abandon
  BY <1>5, EndKeeps DEF Abandon, memory
<1>6. CASE ClearLeases
  <2>1. ForgetLeases /\ hw' = hw /\ op' = NoOp
    BY <1>6 DEF ClearLeases, IndInv, OpIsWellFormed
  <2>. QED  BY <2>1, ForgottenKeeps
<1>7. CASE Restart
  BY <1>7, ForgottenKeeps DEF Restart, EndOp
<1>. QED  BY <1>1, <1>2, <1>3, <1>4, <1>5, <1>6, <1>7 DEF Next

LEMMA RegisterInvInitially == ASSUME Init PROVE RegisterInv
<1>1. \A d \in Devices : ~Leased(d) /\ hw[d].mode = 0
  BY DEF Init, Leased, Neutral
<1>2. op.pc = "idle"
  BY DEF Init, NoOp
<1>. QED  BY <1>1, <1>2 DEF RegisterInv, HeldIsRemote, EnforcedWindowIsOneProfile,
             RecordedAutomaticIsNeutral, CleanupReached, WindowReached, Idle

\* Every reachable state satisfies the invariant of the registers: the devices
\* are where the number of verified steps of the running sequence says.
THEOREM RegisterInvariance == Spec => []RegisterInv
<1>1. Init => RegisterInv
  BY RegisterInvInitially
<1>2. IndInv /\ RegisterInv /\ [Next]_vars => RegisterInv'
  BY NextKeeps
<1>. QED  BY <1>1, <1>2, Invariance, PTL DEF Spec

\* Limits in force belong to one profile, whatever stopped half-way.
THEOREM EnforcedWindowIsOneProfileAlways == Spec => []EnforcedWindowIsOneProfile
<1>1. RegisterInv => EnforcedWindowIsOneProfile
  BY DEF RegisterInv, EnforcedWindowIsOneProfile
<1>. QED  BY <1>1, RegisterInvariance, PTL

\* A leased device recorded as automatic has no power limits, also when a later
\* step of its cleanup failed.
THEOREM RecordedAutomaticIsNeutralAlways == Spec => []RecordedAutomaticIsNeutral
<1>1. RegisterInv => RecordedAutomaticIsNeutral
  BY DEF RegisterInv, RecordedAutomaticIsNeutral
<1>. QED  BY <1>1, RegisterInvariance, PTL

(***************************************************************************)
(* What a step may do to a lease and to the restored registers.             *)
(***************************************************************************)
EndsRestored == OwnWindow => \A d \in Devices :
    Leased(d) /\ ~Leased(d)' /\ phase # "closed" /\ boots' = boots => Restored(d)

LEMMA StepEndsRestored == ASSUME IndInv, RegisterInv, [Next]_vars PROVE EndsRestored
<1>1. CASE ConfirmCleanup
  <2>1. ASSUME OwnWindow, NEW d \in Devices, Leased(d), ~Leased(d)' PROVE Restored(d)
    <3>1. op.device \in Devices /\ leases' = [leases EXCEPT ![op.device] = None]
      BY <1>1 DEF ConfirmCleanup, EndLease, IndInv, OpIsWellFormed, Idle
    <3>2. d = op.device
      BY <2>1, <3>1 DEF Leased, IndInv, TypeOK
    <3>. QED  BY <1>1, <2>1, <3>2 DEF ConfirmCleanup, RegisterInv, CleanupReached, Idle
  <2>. QED  BY <2>1 DEF EndsRestored
<1>2. CASE ClearLeases
  BY <1>2 DEF ClearLeases, EndsRestored
<1>3. CASE Restart
  <2>1. boots' # boots
    BY <1>3 DEF Restart, IndInv, TypeOK
  <2>. QED  BY <2>1 DEF EndsRestored
<1>4. CASE UNCHANGED leases
  BY <1>4 DEF EndsRestored, Leased
<1>5. ASSUME NEW d \in Devices, NEW o \in Owners, Renew(d, o) PROVE EndsRestored
  BY <1>5, RenewLeases DEF EndsRestored
<1>6. ASSUME NEW d \in Devices,
             Requests(d) \/ TimerFires(d) \/ Watchdog(d) \/ LowLevelWrite(d)
      PROVE  EndsRestored
  <2>1. CASE \E o \in Owners : Heartbeat(d, o)
    BY <1>5, <2>1 DEF Heartbeat
  <2>2. CASE UNCHANGED leases
    BY <1>4, <2>2
  <2>3. Requests(d) /\ ~(\E o \in Owners : Heartbeat(d, o)) => UNCHANGED leases
    BY DEF Requests, Change, WritePolicySetting, Acquire, Update, RemoteSetting, Release,
           Enter, BeginBody, BeginCleanup, leaseVars
  <2>4. TimerFires(d) \/ Watchdog(d) \/ LowLevelWrite(d) => UNCHANGED leases
    BY DEF TimerFires, Watchdog, LowLevelWrite, BeginCleanup, leaseVars
  <2>. QED  BY <1>6, <2>1, <2>2, <2>3, <2>4
<1>7. CASE RefreshBody \/ ConfirmBody
  <2>1. op.device \in Devices /\ ~Idle /\ op.stage = "body"
    BY <1>7 DEF RefreshBody, ConfirmBody, Idle, IndInv, OpIsWellFormed
  <2>2. ASSUME op.kind \in {"acquire", "update", "setting"}, Renew(op.device, op.owner)
        PROVE  EndsRestored
    <3>1. op.owner \in Owners
      BY <2>1, <2>2 DEF IndInv, OpIsWellFormed
    <3>. QED  BY <1>5, <2>1, <2>2, <3>1
  <2>3. CASE RefreshBody
    BY <1>4, <2>2, <2>3 DEF RefreshBody
  <2>4. CASE ConfirmBody
    <3>1. op.pc = "confirm" /\ op.kind \in {"acquire", "update", "change"}
      BY <2>1, <2>4 DEF ConfirmBody, IndInv, TypeOK, OpRecords, OpIsWellFormed,
                        BodyIsAuthorised, AllKinds
    <3>2. UNCHANGED leases \/ (op.kind # "change" /\ Renew(op.device, op.owner))
      BY <2>4 DEF ConfirmBody
    <3>. QED  BY <1>4, <2>2, <3>1, <3>2
  <2>. QED  BY <1>7, <2>3, <2>4
<1>8. CASE Running /\ ~(RefreshBody \/ ConfirmBody \/ ConfirmCleanup)
  BY <1>4, <1>8 DEF Running, PreflightPasses, PreflightFails, StepVerified, StepFails,
     RefreshCleanup, RefreshFails, Save, SaveFails, leaseVars
<1>9. CASE Tick \/ Cancel \/ Abandon \/ StartClosing \/ Close \/ UNCHANGED vars
  BY <1>4, <1>9 DEF Tick, Cancel, Abandon, StartClosing, Close, vars, leaseVars
<1>. QED  BY <1>1, <1>2, <1>3, <1>6, <1>7, <1>8, <1>9 DEF Next

\* A lease is ended by a cleanup only after its device is automatic and has its
\* reserve and grid permission back.
THEOREM LeaseEndsRestoredAlways == Spec => LeaseEndsRestored
<1>1. IndInv /\ RegisterInv /\ [Next]_vars => [EndsRestored]_vars
  BY StepEndsRestored
<1>. QED  BY <1>1, Invariance, RegisterInvariance, PTL DEF Spec, LeaseEndsRestored, EndsRestored

RestoresNeutral == OwnWindow => \A d \in Devices :
    /\ op.stage = "cleanup" /\ op.device = d
    /\ \E r \in {"reserve", "grid"} \cap OwnRegisters : hw'[d][r] # hw[d][r]
    => Neutral(hw[d])

LEMMA StepRestoresNeutral == ASSUME IndInv, RegisterInv, [Next]_vars PROVE RestoresNeutral
<1>1. CASE UNCHANGED hw
  BY <1>1 DEF RestoresNeutral
<1>2. ASSUME NEW d \in Devices, LowLevelWrite(d) PROVE RestoresNeutral
  <2>1. PICK step \in LowLevel : WriteRegister(d, step)
    BY <1>2 DEF LowLevelWrite
  <2>2. step \in RegisterWrites /\ step[1] \notin OwnRegisters
    BY <2>1, ConstantAssumption DEF OwnRegisters
  <2>3. \A x \in Devices, r \in {"reserve", "grid"} \cap OwnRegisters : hw'[x][r] = hw[x][r]
    BY <2>1, <2>2, WriteEffect DEF IndInv, TypeOK
  <2>. QED  BY <2>3 DEF RestoresNeutral
<1>3. CASE StepVerified \/ StepFails
  <2>1. CASE UNCHANGED hw
    BY <1>1, <2>1
  <2>2. CASE OwnWindow /\ op.stage = "cleanup"
             /\ WriteRegister(op.device, Steps(op)[op.done + 1])
    <3>1. op.pc = "write"
      BY <1>3 DEF StepVerified, StepFails
    <3>2. RegistersAgree(hw) /\ CleanupReached
      BY <2>2, Agreement DEF RegisterInv
    <3>3. /\ op.done \in 0..4
          /\ op.done >= 3 => Neutral(hw[op.device])
          /\ op.done < 3 => /\ hw'[op.device].reserve = hw[op.device].reserve
                            /\ hw'[op.device].grid = hw[op.device].grid
      BY <2>2, <3>1, <3>2, CleanupWritten
    <3>. QED  BY <3>3 DEF RestoresNeutral
  <2>3. CASE ~OwnWindow \/ op.stage # "cleanup"
    BY <2>3 DEF RestoresNeutral
  <2>4. UNCHANGED hw \/ WriteRegister(op.device, Steps(op)[op.done + 1])
    BY <1>3 DEF StepVerified, StepFails
  <2>. QED  BY <2>1, <2>2, <2>3, <2>4
<1>4. ASSUME NEW d \in Devices, Requests(d) \/ TimerFires(d) \/ Watchdog(d)
      PROVE  UNCHANGED hw
  BY <1>4 DEF Requests, Change, WritePolicySetting, Acquire, Update, RemoteSetting, Heartbeat,
     Release, Request, TimerFires, Watchdog
<1>5. CASE Running
  BY <1>1, <1>3, <1>5 DEF Running, PreflightPasses, PreflightFails, RefreshCleanup, RefreshBody,
     RefreshFails, Save, SaveFails, ConfirmCleanup, ConfirmBody
<1>6. CASE Tick \/ Cancel \/ Abandon \/ StartClosing \/ Close \/ ClearLeases \/ Restart
           \/ UNCHANGED vars
  BY <1>1, <1>6 DEF Tick, Cancel, Abandon, StartClosing, Close, ClearLeases, Restart, vars
<1>. QED  BY <1>1, <1>2, <1>4, <1>5, <1>6 DEF Next

\* During a cleanup the reserve and the grid permission are touched only when the
\* power limits are off.
THEOREM NeutralBeforeRestoreAlways == Spec => NeutralBeforeRestore
<1>1. IndInv /\ RegisterInv /\ [Next]_vars => [RestoresNeutral]_vars
  BY StepRestoresNeutral
<1>. QED  BY <1>1, Invariance, RegisterInvariance, PTL
             DEF Spec, NeutralBeforeRestore, RestoresNeutral

=============================================================================
