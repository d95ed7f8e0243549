------------------------ MODULE StorageControlProofs ------------------------
(***************************************************************************)
(* Proofs about StorageControl, for every set of devices, owners, profiles  *)
(* and reserves, every lease time and every bound.                          *)
(***************************************************************************)
EXTENDS StorageProperties, SequenceTheorems, TLAPS

(***************************************************************************)
(* What a write sequence consists of.                                       *)
(***************************************************************************)
LEMMA ConcatSteps ==
    ASSUME NEW s \in Seq(RegisterWrites), NEW t \in Seq(RegisterWrites)
    PROVE  /\ s \o t \in Seq(RegisterWrites)
           /\ Len(s \o t) = Len(s) + Len(t)
BY ConcatProperties

LEMMA StepsType ==
    ASSUME TypeOK, OpIsWellFormed, CleanupIsAuthorised, BodyIsAuthorised,
           LeaseHasSnapshot, ~Idle
    PROVE  /\ Steps(op) \in Seq(RegisterWrites)
           /\ Len(Steps(op)) \in 1..6
<1>1. NeutralSteps \in Seq(RegisterWrites) /\ Len(NeutralSteps) = 3
  BY DEF NeutralSteps, RegisterWrites
<1>2. ASSUME NEW s \in Snapshots
      PROVE  RestoreSteps(s) \in Seq(RegisterWrites) /\ Len(RestoreSteps(s)) = 2
  BY <1>2 DEF RestoreSteps, Snapshots, RegisterWrites, Settings
<1>3. ASSUME NEW p \in Profiles
      PROVE  WindowSteps(p) \in Seq(RegisterWrites) /\ Len(WindowSteps(p)) = 3
  BY <1>3 DEF WindowSteps, RegisterWrites
<1>4. CASE op.stage = "cleanup"
  <2>1. pre_remote[op.device] \in Snapshots
    BY <1>4 DEF TypeOK, OpIsWellFormed, CleanupIsAuthorised, LeaseHasSnapshot
  <2>2. RestoreSteps(pre_remote[op.device]) \in Seq(RegisterWrites)
        /\ Len(RestoreSteps(pre_remote[op.device])) = 2
    BY <1>2, <2>1
  <2>3. Steps(op) = NeutralSteps \o RestoreSteps(pre_remote[op.device])
    BY <1>4 DEF Steps, CleanupSteps
  <2>4. Steps(op) \in Seq(RegisterWrites) /\ Len(Steps(op)) = 3 + 2
    BY <1>1, <2>2, <2>3, ConcatSteps
  <2>. QED  BY <2>4
<1>5. CASE op.stage = "body" /\ op.kind \in {"setting", "policy"}
  <2>1. op.setting \in RegisterWrites
    BY <1>5 DEF OpIsWellFormed, RegisterWrites
  <2>. QED  BY <1>5, <2>1 DEF Steps
<1>6. CASE op.stage = "body" /\ op.kind \notin {"setting", "policy"}
  <2>1. CASE op.mode = "automatic"
    BY <1>1, <1>6, <2>1 DEF Steps
  <2>2. CASE op.mode # "automatic"
    <3>1. op.profile \in Profiles
      BY <1>6, <2>2 DEF TypeOK, OpRecords, OpIsWellFormed, BodyIsAuthorised, AllKinds
    <3>2. WindowSteps(op.profile) \in Seq(RegisterWrites) /\ Len(WindowSteps(op.profile)) = 3
      BY <1>3, <3>1
    <3>3. Steps(op) = NeutralSteps \o WindowSteps(op.profile)
      BY <1>6, <2>2 DEF Steps
    <3>4. Steps(op) \in Seq(RegisterWrites) /\ Len(Steps(op)) = 3 + 3
      BY <1>1, <3>2, <3>3, ConcatSteps
    <3>. QED  BY <3>4
  <2>. QED  BY <2>1, <2>2
<1>. QED  BY <1>4, <1>5, <1>6 DEF TypeOK, OpRecords


(***************************************************************************)
(* An operation that ends without touching anything else.                   *)
(***************************************************************************)
LEMMA NoOpType == NoOp \in OpRecords
BY DEF NoOp, OpRecords, Modes

LEMMA IdleOp ==
    ASSUME op' = NoOp
    PROVE  /\ Idle'
           /\ OpIsWellFormed' /\ CleanupIsAuthorised' /\ BodyIsAuthorised' /\ CandidateIsCurrent'
BY DEF Idle, NoOp, OpIsWellFormed, CleanupIsAuthorised, BodyIsAuthorised, CandidateIsCurrent

LEMMA SameOp ==
    ASSUME IndInv, UNCHANGED <<leaseVars, settings, disk, op>>
    PROVE  OpIsWellFormed' /\ CleanupIsAuthorised' /\ BodyIsAuthorised' /\ CandidateIsCurrent'
BY DEF IndInv, OpIsWellFormed, CleanupIsAuthorised, BodyIsAuthorised, CandidateIsCurrent,
       Idle, Leased, Pending, FirstAcquire, Steps, leaseVars

LEMMA EndOpPreserves ==
    ASSUME IndInv, EndOp,
           UNCHANGED <<leaseVars, timerVars, memory, disk, hw, now, lifecycle>>
    PROVE  IndInv'
<1>1. op' = NoOp
  BY DEF EndOp
<1>2. TypeOK'
  BY <1>1, NoOpType DEF IndInv, TypeOK, leaseVars, timerVars, memory, lifecycle
<1>3. LeaseHasSnapshot' /\ UserProfileSurvives' /\ UnleasedIsUser' /\ WatchdogArmed'
  BY DEF IndInv, LeaseHasSnapshot, UserProfileSurvives, UnleasedIsUser, WatchdogArmed,
         Leased, Pending, Open, leaseVars, timerVars, memory, lifecycle
<1>4. ClearedIsIdle'
  BY <1>1, IdleOp DEF IndInv, ClearedIsIdle, Leased, leaseVars, lifecycle
<1>5. OpIsWellFormed' /\ CleanupIsAuthorised' /\ BodyIsAuthorised' /\ CandidateIsCurrent'
  BY <1>1, IdleOp
<1>. QED  BY <1>2, <1>3, <1>4, <1>5 DEF IndInv

(***************************************************************************)
(* The operation record stays well typed when some of its fields change.    *)
(***************************************************************************)
LEMMA CleanupOpType ==
    ASSUME NEW o \in OpRecords
    PROVE  [o EXCEPT !.stage = "cleanup", !.pc = "preflight"] \in OpRecords
BY DEF OpRecords

LEMMA StartOpType ==
    ASSUME NEW o \in OpRecords
    PROVE  [o EXCEPT !.stage = "body", !.pc = "preflight", !.done = 0] \in OpRecords
<1>1. 0 \in 0..6
  OBVIOUS
<1>. QED  BY <1>1 DEF OpRecords

LEMMA BodyOpType ==
    ASSUME NEW o \in OpRecords, NEW p \in Profiles \cup {None},
           NEW m \in Modes \cup {"keep"}, NEW a \in BOOLEAN,
           NEW pc \in {"preflight", "save"}
    PROVE  [o EXCEPT !.profile = p, !.mode = m, !.apply = a, !.pc = pc] \in OpRecords
<1>1. pc \in {"idle", "preflight", "write", "refresh", "save", "confirm"}
  OBVIOUS
<1>. QED  BY <1>1, ZenonT(60) DEF OpRecords

LEMMA PcOpType ==
    ASSUME NEW o \in OpRecords,
           NEW pc \in {"preflight", "write", "refresh", "save", "confirm"}
    PROVE  [o EXCEPT !.pc = pc] \in OpRecords
BY ZenonT(60) DEF OpRecords

LEMMA WriteOpType ==
    ASSUME NEW o \in OpRecords, NEW c \in Snapshots \cup {None}
    PROVE  [o EXCEPT !.pc = "write", !.candidate = c] \in OpRecords
BY ZenonT(60) DEF OpRecords

LEMMA StepOpType ==
    ASSUME NEW o \in OpRecords, NEW n \in 0..6
    PROVE  /\ [o EXCEPT !.done = n] \in OpRecords
           /\ [o EXCEPT !.pc = "refresh", !.done = n] \in OpRecords
BY ZenonT(60) DEF OpRecords

LEMMA CancelOpType ==
    ASSUME NEW o \in OpRecords
    PROVE  [o EXCEPT !.cancelled = TRUE] \in OpRecords
BY DEF OpRecords

LEMMA LockType ==
    ASSUME NEW k \in AllKinds \cup {"watchdog"}, NEW d \in Devices,
           NEW o \in Owners \cup {None}, NEW p \in Profiles \cup {None},
           NEW m \in Modes \cup {"keep"}, NEW s \in Settings \cup {None}
    PROVE  Lock(k, d, o, p, m, s) \in OpRecords
<1>1. NoOp \in OpRecords
  BY NoOpType
<1>2. k \in AllKinds \cup {"none", "watchdog"} /\ d \in Devices \cup {None}
  OBVIOUS
<1>3. ASSUME NEW r \in OpRecords
      PROVE  [r EXCEPT !.kind = k, !.device = d, !.owner = o] \in OpRecords
  BY <1>2, ZenonT(60) DEF OpRecords
<1>4. ASSUME NEW r \in OpRecords
      PROVE  [r EXCEPT !.profile = p, !.mode = m, !.setting = s] \in OpRecords
  BY ZenonT(60) DEF OpRecords
<1>5. [[NoOp EXCEPT !.kind = k, !.device = d, !.owner = o]
         EXCEPT !.profile = p, !.mode = m, !.setting = s] \in OpRecords
  BY <1>1, <1>3, <1>4
<1>6. Lock(k, d, o, p, m, s) = [[NoOp EXCEPT !.kind = k, !.device = d, !.owner = o]
         EXCEPT !.profile = p, !.mode = m, !.setting = s]
  BY DEF Lock, NoOp
<1>. QED  BY <1>5, <1>6

(***************************************************************************)
(* Taking the lock.                                                         *)
(***************************************************************************)
LEMMA BeginCleanupPreserves ==
    ASSUME IndInv, Idle, Open,
           NEW o \in OpRecords,
           o.device \in Devices, o.kind \notin {"none", "heartbeat", "update", "setting"},
           o.kind = "acquire" => o.owner \in Owners /\ o.mode = "remote",
           o.kind = "policy" => o.setting \in Settings,
           o.kind = "change" => o.profile \notin RemoteProfiles /\ o.mode # "remote",
           o.done = 0,
           BeginCleanup(o), watchers' \in [Devices -> Nat],
           \A d \in Devices : d # o.device => watchers'[d] = watchers[d],
           UNCHANGED <<memory, disk, hw, now, lifecycle>>
    PROVE  IndInv'
<1>1. /\ op' = [o EXCEPT !.stage = "cleanup", !.pc = "preflight"]
      /\ op' \in OpRecords
  <2>1. op' = [o EXCEPT !.stage = "cleanup", !.pc = "preflight"]
    BY DEF BeginCleanup
  <2>2. [o EXCEPT !.stage = "cleanup", !.pc = "preflight"] \in OpRecords
    BY CleanupOpType
  <2>. QED  BY <2>1, <2>2
<1>2. TypeOK'
  <2>1. timers' \in [Devices -> {Never} \cup Nat] /\ cleanup' \in [Devices -> {NoCleanup} \cup 0..5]
    BY DEF IndInv, TypeOK, BeginCleanup
  <2>. QED  BY <1>1, <2>1 DEF IndInv, TypeOK, BeginCleanup, memory, lifecycle
<1>3. Leased(o.device) /\ leases' = leases /\ pre_remote' = pre_remote
  BY DEF IndInv, LeaseHasSnapshot, BeginCleanup
<1>4. cleanup'[o.device] = 0 /\ \A d \in Devices : d # o.device => cleanup'[d] = cleanup[d]
  BY DEF IndInv, TypeOK, BeginCleanup
<1>5. LeaseHasSnapshot'
  BY <1>3, <1>4 DEF IndInv, LeaseHasSnapshot, Leased, Pending
<1>6. UserProfileSurvives' /\ UnleasedIsUser' /\ ClearedIsIdle'
  BY <1>3 DEF IndInv, UserProfileSurvives, UnleasedIsUser, ClearedIsIdle, Leased, Open,
              memory, lifecycle
<1>7. WatchdogArmed'
  <2>1. \A d \in Devices : d # o.device => timers'[d] = timers[d]
    BY DEF IndInv, TypeOK, BeginCleanup
  <2>. QED  BY <1>3, <1>4, <2>1 DEF IndInv, WatchdogArmed, Leased, Pending, NoCleanup,
                                    Open, lifecycle
<1>8. OpIsWellFormed' /\ CleanupIsAuthorised' /\ BodyIsAuthorised' /\ CandidateIsCurrent'
  BY <1>1, <1>3, <1>4 DEF OpRecords, OpIsWellFormed, CleanupIsAuthorised, BodyIsAuthorised,
     CandidateIsCurrent, Idle, Leased, Pending, NoCleanup, FirstAcquire
<1>. QED  BY <1>2, <1>5, <1>6, <1>7, <1>8 DEF IndInv

LEMMA ResolvedType ==
    ASSUME NEW o \in OpRecords, NEW saved \in Profiles \cup {None}, NEW mode \in Modes
    PROVE  Resolved(o, saved, mode) \in OpRecords
<1>. DEFINE selected == IF o.mode = "keep" THEN mode ELSE o.mode
            apply    == o.mode # "keep" \/ selected = "manual"
            profile  == IF o.profile # None THEN o.profile
                        ELSE IF o.mode = "automatic" THEN saved ELSE Value(saved)
            start    == [o EXCEPT !.stage = "body", !.pc = "preflight", !.done = 0]
            pc       == IF apply THEN "preflight" ELSE "save"
<1>1. start \in OpRecords
  BY StartOpType
<1>2. selected \in Modes \cup {"keep"} /\ apply \in BOOLEAN /\ pc \in {"preflight", "save"}
  BY DEF OpRecords
<1>3. profile \in Profiles \cup {None}
  <2>1. o.profile \in Profiles \cup {None}
    BY DEF OpRecords
  <2>2. Value(saved) \in Profiles
    BY ConstantAssumption DEF Value, Profiles
  <2>. QED  BY <2>1, <2>2
<1>5. [start EXCEPT !.profile = profile, !.mode = selected, !.apply = apply, !.pc = pc]
        \in OpRecords
  <2>. HIDE DEF profile, selected, apply, start, pc
  <2>. QED  BY <1>1, <1>2, <1>3, BodyOpType
<1>. QED  BY <1>1, <1>5 DEF Resolved

\* What a request resolves to; a change keeps out of remote mode and profiles.
LEMMA ResolvedShape ==
    ASSUME NEW o \in OpRecords, NEW saved \in Profiles \cup {None}, NEW mode \in Modes,
           o.kind \in {"acquire", "update", "setting", "change", "policy"},
           o.kind \in {"acquire", "update"} => o.mode = "remote",
           o.kind = "change" => /\ o.profile \notin RemoteProfiles /\ o.mode # "remote"
                                /\ saved \notin RemoteProfiles /\ mode # "remote",
           NEW r, r = Resolved(o, saved, mode)
    PROVE  /\ r \in OpRecords
           /\ r.stage = "body" /\ r.pc \in {"preflight", "save"} /\ r.done = 0
           /\ r.kind = o.kind /\ r.device = o.device /\ r.owner = o.owner
           /\ r.setting = o.setting
           /\ r.kind # "change" => r.pc = "preflight"
           /\ r.kind \in {"acquire", "update"} =>
                 r.mode = "remote" /\ r.profile \in Profiles
           /\ r.kind = "change" =>
                 /\ r.profile \notin RemoteProfiles
                 /\ r.mode \in {"automatic", "manual"}
                 /\ r.profile = None => r.mode = "automatic"
<1>. DEFINE start == [o EXCEPT !.stage = "body", !.pc = "preflight", !.done = 0]
<1>1. r \in OpRecords
  BY ResolvedType
<1>2. Value(saved) \in Profiles /\ (saved \notin RemoteProfiles => Value(saved) \notin RemoteProfiles)
  BY ConstantAssumption DEF Value, Profiles
<1>3. o.profile \in Profiles \cup {None} /\ o.mode \in Modes \cup {"keep"}
  BY DEF OpRecords
<1>4. /\ start.stage = "body" /\ start.pc = "preflight" /\ start.done = 0
      /\ start.kind = o.kind /\ start.device = o.device /\ start.owner = o.owner
      /\ start.setting = o.setting
  BY DEF OpRecords
<1>5. CASE o.kind \in {"setting", "policy"}
  <2>1. r = start
    BY <1>5 DEF Resolved
  <2>. QED  BY <1>1, <1>4, <1>5, <2>1
<1>6. CASE o.kind \notin {"setting", "policy"}
  <2>. DEFINE selected == IF o.mode = "keep" THEN mode ELSE o.mode
              apply    == o.mode # "keep" \/ selected = "manual"
              profile  == IF o.profile # None THEN o.profile
                          ELSE IF o.mode = "automatic" THEN saved ELSE Value(saved)
              pc       == IF apply THEN "preflight" ELSE "save"
  <2>1. r = [start EXCEPT !.profile = profile, !.mode = selected, !.apply = apply, !.pc = pc]
    BY <1>6 DEF Resolved
  <2>2. start \in OpRecords
    BY StartOpType
  <2>3. /\ r.stage = start.stage /\ r.done = start.done /\ r.kind = start.kind
        /\ r.device = start.device /\ r.owner = start.owner /\ r.setting = start.setting
        /\ r.profile = profile /\ r.mode = selected /\ r.pc = pc
    <3>. HIDE DEF start, profile, selected, apply, pc
    <3>. QED  BY <2>1, <2>2 DEF OpRecords
  <2>4. o.kind \in {"acquire", "update"} =>
          selected = "remote" /\ profile \in Profiles /\ pc = "preflight"
    BY <1>2, <1>3
  <2>5. o.kind = "change" =>
          /\ profile \notin RemoteProfiles /\ selected \in {"automatic", "manual"}
          /\ profile = None => selected = "automatic"
    BY <1>2, <1>3, ConstantAssumption DEF Modes, Profiles
  <2>6. pc \in {"preflight", "save"}
    OBVIOUS
  <2>. HIDE DEF start, profile, selected, apply, pc
  <2>. QED  BY <1>1, <1>4, <1>6, <2>3, <2>4, <2>5, <2>6
<1>. QED  BY <1>5, <1>6

LEMMA BeginBodyPreserves ==
    ASSUME IndInv, Idle, Open,
           NEW o \in OpRecords,
           o.device \in Devices,
           o.kind \in {"acquire", "update", "setting", "change", "policy"},
           o.kind \in {"acquire", "update"} => o.mode = "remote",
           o.kind \in {"setting", "policy"} => o.setting \in Settings,
           o.kind \in {"acquire", "update", "setting"} =>
              /\ o.owner \in Owners
              /\ Leased(o.device) => leases[o.device].owner = o.owner /\ ~Pending(o.device),
           o.kind \in {"update", "setting"} => Leased(o.device),
           o.kind \in {"change", "policy"} => ~Leased(o.device),
           o.kind = "change" => o.profile \notin RemoteProfiles /\ o.mode # "remote",
           BeginBody(o),
           UNCHANGED <<watchers, memory, disk, hw, now, lifecycle>>
    PROVE  IndInv'
<1>. DEFINE d == o.device
<1>1. settings[d] \in Profiles \cup {None} /\ modes[d] \in Modes
  BY DEF IndInv, TypeOK
<1>2. ~Leased(d) => settings[d] \notin RemoteProfiles /\ modes[d] # "remote"
  BY DEF IndInv, UnleasedIsUser, Open
<1>3. op' = Resolved(o, settings[d], modes[d])
  BY DEF BeginBody
<1>4. /\ op' \in OpRecords
      /\ op'.stage = "body" /\ op'.pc \in {"preflight", "save"} /\ op'.done = 0
      /\ op'.kind = o.kind /\ op'.device = o.device /\ op'.owner = o.owner
      /\ op'.setting = o.setting
      /\ op'.kind # "change" => op'.pc = "preflight"
      /\ op'.kind \in {"acquire", "update"} => op'.mode = "remote" /\ op'.profile \in Profiles
      /\ op'.kind = "change" => /\ op'.profile \notin RemoteProfiles
                                /\ op'.mode \in {"automatic", "manual"}
                                /\ op'.profile = None => op'.mode = "automatic"
  BY <1>1, <1>2, <1>3, ResolvedShape
<1>5. TypeOK'
  BY <1>4 DEF IndInv, TypeOK, BeginBody, leaseVars, memory, lifecycle
<1>6. LeaseHasSnapshot' /\ UserProfileSurvives' /\ UnleasedIsUser' /\ WatchdogArmed'
  BY DEF IndInv, LeaseHasSnapshot, UserProfileSurvives, UnleasedIsUser, WatchdogArmed,
         Leased, Pending, Open, BeginBody, leaseVars, memory, lifecycle
<1>7. ClearedIsIdle'
  BY DEF ClearedIsIdle, Open, lifecycle
<1>8. OpIsWellFormed'
  BY <1>4 DEF OpIsWellFormed, Idle
<1>9. CleanupIsAuthorised' /\ CandidateIsCurrent'
  BY <1>4 DEF CleanupIsAuthorised, CandidateIsCurrent, FirstAcquire
<1>10. BodyIsAuthorised'
  BY <1>4 DEF BodyIsAuthorised, Leased, Pending, BeginBody, leaseVars
<1>. QED  BY <1>5, <1>6, <1>7, <1>8, <1>9, <1>10 DEF IndInv

LEMMA LockFields ==
    ASSUME NEW k, NEW d, NEW o, NEW p, NEW m, NEW s
    PROVE  /\ Lock(k, d, o, p, m, s).kind = k /\ Lock(k, d, o, p, m, s).device = d
           /\ Lock(k, d, o, p, m, s).owner = o /\ Lock(k, d, o, p, m, s).profile = p
           /\ Lock(k, d, o, p, m, s).mode = m /\ Lock(k, d, o, p, m, s).setting = s
           /\ Lock(k, d, o, p, m, s).done = 0
BY DEF Lock, NoOp

LEMMA WatchdogLockType ==
    ASSUME NEW d \in Devices
    PROVE  LET l == Lock("watchdog", d, None, None, "keep", None)
           IN  l \in OpRecords /\ l.kind = "watchdog" /\ l.device = d /\ l.done = 0
<1>1. /\ "watchdog" \in AllKinds \cup {"watchdog"} /\ None \in Owners \cup {None}
      /\ None \in Profiles \cup {None} /\ "keep" \in Modes \cup {"keep"}
      /\ None \in Settings \cup {None}
  OBVIOUS
<1>2. Lock("watchdog", d, None, None, "keep", None) \in OpRecords
  BY <1>1, LockType
<1>. QED  BY <1>2, LockFields

LEMMA AcquirePreserves ==
    ASSUME IndInv, NEW d \in Devices, NEW o \in Owners,
           NEW p \in RemoteProfiles \cup {None}, Acquire(d, o, p)
    PROVE  IndInv'
<1>. DEFINE l == Lock("acquire", d, o, p, "remote", None)
<1>1. l \in OpRecords /\ l.kind = "acquire" /\ l.device = d /\ l.owner = o
      /\ l.mode = "remote" /\ l.done = 0
  BY LockType, LockFields DEF AllKinds, Profiles, Modes
<1>2. Idle /\ Open /\ Enter(l) /\ (Live(d) => leases[d].owner = o)
      /\ UNCHANGED <<watchers, memory, disk, hw, now, lifecycle>>
  BY DEF Acquire, Request
<1>. HIDE DEF l
<1>3. CASE Leased(d) /\ ~Live(d)
  <2>1. BeginCleanup(l)
    BY <1>1, <1>2, <1>3 DEF Enter
  <2>2. watchers' \in [Devices -> Nat] /\ \A x \in Devices : watchers'[x] = watchers[x]
    BY <1>2 DEF IndInv, TypeOK
  <2>. QED  BY <1>1, <1>2, <2>1, <2>2, BeginCleanupPreserves
<1>4. CASE ~(Leased(d) /\ ~Live(d))
  <2>1. BeginBody(l)
    BY <1>1, <1>2, <1>4 DEF Enter
  <2>2. Leased(d) => leases[d].owner = o /\ ~Pending(d)
    BY <1>2, <1>4 DEF Live
  <2>. QED  BY <1>1, <1>2, <2>1, <2>2, BeginBodyPreserves
<1>. QED  BY <1>3, <1>4

LEMMA ChangePreserves ==
    ASSUME IndInv, NEW d \in Devices, NEW p \in UserProfiles \cup {None},
           NEW m \in ModeRequests, Change(d, p, m)
    PROVE  IndInv'
<1>. DEFINE l == Lock("change", d, None, p, m, None)
<1>1. l \in OpRecords /\ l.kind = "change" /\ l.device = d /\ l.profile = p
      /\ l.mode = m /\ l.done = 0
  BY LockType, LockFields, ConstantAssumption DEF AllKinds, Profiles, Modes
<1>2. p \notin RemoteProfiles /\ m # "remote"
  BY ConstantAssumption DEF Profiles
<1>3. Idle /\ Open /\ Enter(l) /\ ~Live(d)
      /\ UNCHANGED <<watchers, memory, disk, hw, now, lifecycle>>
  BY DEF Change, Request
<1>. HIDE DEF l
<1>4. CASE Leased(d)
  <2>1. BeginCleanup(l)
    BY <1>1, <1>3, <1>4 DEF Enter
  <2>2. watchers' \in [Devices -> Nat] /\ \A x \in Devices : watchers'[x] = watchers[x]
    BY <1>3 DEF IndInv, TypeOK
  <2>. QED  BY <1>1, <1>2, <1>3, <2>1, <2>2, BeginCleanupPreserves
<1>5. CASE ~Leased(d)
  <2>1. BeginBody(l)
    BY <1>1, <1>3, <1>5 DEF Enter
  <2>. QED  BY <1>1, <1>2, <1>3, <1>5, <2>1, BeginBodyPreserves
<1>. QED  BY <1>4, <1>5

LEMMA WritePolicySettingPreserves ==
    ASSUME IndInv, NEW d \in Devices, NEW s \in PolicySettings, WritePolicySetting(d, s)
    PROVE  IndInv'
<1>. DEFINE l == Lock("policy", d, None, None, "keep", s)
<1>1. s \in Settings
  BY ConstantAssumption
<1>2. l \in OpRecords /\ l.kind = "policy" /\ l.device = d /\ l.setting = s /\ l.done = 0
  BY <1>1, LockType, LockFields DEF AllKinds
<1>3. Idle /\ Open /\ Enter(l) /\ ~Live(d)
      /\ UNCHANGED <<watchers, memory, disk, hw, now, lifecycle>>
  BY DEF WritePolicySetting, Request
<1>. HIDE DEF l
<1>4. CASE Leased(d)
  <2>1. BeginCleanup(l)
    BY <1>2, <1>3, <1>4 DEF Enter
  <2>2. watchers' \in [Devices -> Nat] /\ \A x \in Devices : watchers'[x] = watchers[x]
    BY <1>3 DEF IndInv, TypeOK
  <2>. QED  BY <1>1, <1>2, <1>3, <2>1, <2>2, BeginCleanupPreserves
<1>5. CASE ~Leased(d)
  <2>1. BeginBody(l)
    BY <1>2, <1>3, <1>5 DEF Enter
  <2>. QED  BY <1>1, <1>2, <1>3, <1>5, <2>1, BeginBodyPreserves
<1>. QED  BY <1>4, <1>5

LEMMA UpdatePreserves ==
    ASSUME IndInv, NEW d \in Devices, NEW o \in Owners, NEW p \in RemoteProfiles,
           Update(d, o, p)
    PROVE  IndInv'
<1>. DEFINE l == Lock("update", d, o, p, "remote", None)
<1>1. l \in OpRecords /\ l.kind = "update" /\ l.device = d /\ l.owner = o
      /\ l.mode = "remote" /\ l.done = 0
  BY LockType, LockFields DEF AllKinds, Profiles, Modes
<1>2. Idle /\ Open /\ BeginBody(l) /\ UNCHANGED <<watchers, memory, disk, hw, now, lifecycle>>
  BY DEF Update, Request
<1>3. Leased(d) /\ leases[d].owner = o /\ ~Pending(d)
  BY DEF Update, LiveOwner, Live
<1>. HIDE DEF l
<1>. QED  BY <1>1, <1>2, <1>3, BeginBodyPreserves

LEMMA RemoteSettingPreserves ==
    ASSUME IndInv, NEW d \in Devices, NEW o \in Owners, NEW s \in PolicySettings,
           RemoteSetting(d, o, s)
    PROVE  IndInv'
<1>. DEFINE l == Lock("setting", d, o, None, "keep", s)
<1>1. s \in Settings
  BY ConstantAssumption
<1>2. l \in OpRecords /\ l.kind = "setting" /\ l.device = d /\ l.owner = o
      /\ l.setting = s /\ l.done = 0
  BY <1>1, LockType, LockFields DEF AllKinds
<1>3. Idle /\ Open /\ BeginBody(l) /\ UNCHANGED <<watchers, memory, disk, hw, now, lifecycle>>
  BY DEF RemoteSetting, Request
<1>4. Leased(d) /\ leases[d].owner = o /\ ~Pending(d)
  BY DEF RemoteSetting, LiveOwner, Live
<1>. HIDE DEF l
<1>. QED  BY <1>1, <1>2, <1>3, <1>4, BeginBodyPreserves

LEMMA ReleasePreserves ==
    ASSUME IndInv, NEW d \in Devices, NEW o \in Owners, Release(d, o)
    PROVE  IndInv'
<1>. DEFINE l == Lock("release", d, o, None, "keep", None)
<1>1. l \in OpRecords /\ l.kind = "release" /\ l.device = d /\ l.done = 0
  BY LockType, LockFields DEF AllKinds
<1>2. Idle /\ Open /\ BeginCleanup(l)
      /\ UNCHANGED <<watchers, memory, disk, hw, now, lifecycle>>
  BY DEF Release, Request
<1>3. watchers' \in [Devices -> Nat] /\ \A x \in Devices : watchers'[x] = watchers[x]
  BY <1>2 DEF IndInv, TypeOK
<1>. HIDE DEF l
<1>. QED  BY <1>1, <1>2, <1>3, BeginCleanupPreserves

LEMMA HeartbeatPreserves ==
    ASSUME IndInv, NEW d \in Devices, NEW o \in Owners, Heartbeat(d, o)
    PROVE  IndInv'
<1>. DEFINE renewed == [owner |-> o, expires |-> now + LeaseTime]
<1>1. /\ Idle /\ Open /\ Leased(d) /\ leases[d].owner = o /\ ~Pending(d)
      /\ leases' = [leases EXCEPT ![d] = renewed]
      /\ timers' = [timers EXCEPT ![d] = now + LeaseTime]
      /\ UNCHANGED <<pre_remote, cleanup, op, watchers, memory, disk, hw, now, lifecycle>>
  BY DEF Heartbeat, Request, LiveOwner, Live, Renew, ScheduleWatchdog, Open
<1>2. renewed \in LeaseRecords /\ renewed # None /\ now + LeaseTime \in Nat
  BY ConstantAssumption DEF IndInv, TypeOK, LeaseRecords
<1>3. TypeOK'
  BY <1>1, <1>2 DEF IndInv, TypeOK, memory, lifecycle
<1>4. Leased(d)' /\ \A x \in Devices : x # d => leases'[x] = leases[x] /\ timers'[x] = timers[x]
  BY <1>1, <1>2 DEF IndInv, TypeOK, Leased
<1>5. LeaseHasSnapshot' /\ UserProfileSurvives' /\ UnleasedIsUser'
  BY <1>1, <1>4 DEF IndInv, LeaseHasSnapshot, UserProfileSurvives, UnleasedIsUser, Leased,
                    Pending, memory, lifecycle
<1>6. WatchdogArmed'
  <2>1. timers'[d] = now + LeaseTime /\ leases'[d].expires = now + LeaseTime /\ timers'[d] # Never
    BY <1>1, <1>2, ConstantAssumption DEF IndInv, TypeOK, Never
  <2>2. \A x \in Devices : x # d => Leased(x)' = Leased(x) /\ Pending(x)' = Pending(x)
    BY <1>1, <1>4 DEF Leased, Pending
  <2>3. timers'[d] <= leases'[d].expires
    BY <1>2, <2>1
  <2>. QED  BY <1>1, <1>4, <2>1, <2>2, <2>3 DEF IndInv, WatchdogArmed, Open, lifecycle
<1>7. ClearedIsIdle'
  BY <1>1 DEF ClearedIsIdle, Open, lifecycle
<1>8. OpIsWellFormed' /\ CleanupIsAuthorised' /\ BodyIsAuthorised' /\ CandidateIsCurrent'
  BY <1>1, IdleOp DEF IndInv, OpIsWellFormed
<1>. QED  BY <1>3, <1>5, <1>6, <1>7, <1>8 DEF IndInv

LEMMA TimerFiresPreserves ==
    ASSUME IndInv, NEW d \in Devices, TimerFires(d)
    PROVE  IndInv'
<1>1. UNCHANGED <<leaseVars, memory, disk, hw, now, lifecycle, op>>
  BY DEF TimerFires
<1>2. /\ timers' = [timers EXCEPT ![d] = Never]
      /\ watchers' = [watchers EXCEPT ![d] = IF Open THEN @ + 1 ELSE @]
  BY DEF TimerFires
<1>3. watchers' \in [Devices -> Nat]
  BY <1>2 DEF IndInv, TypeOK
<1>4. TypeOK'
  <2>1. timers' \in [Devices -> {Never} \cup Nat]
    BY <1>2 DEF IndInv, TypeOK
  <2>. QED  BY <1>1, <1>3, <2>1 DEF IndInv, TypeOK, leaseVars, memory, lifecycle
<1>5. WatchdogArmed'
  BY <1>1, <1>2 DEF IndInv, TypeOK, WatchdogArmed, Leased, Pending, Open, leaseVars, lifecycle
<1>6. LeaseHasSnapshot' /\ UserProfileSurvives' /\ UnleasedIsUser' /\ ClearedIsIdle'
  BY <1>1 DEF IndInv, LeaseHasSnapshot, UserProfileSurvives, UnleasedIsUser, ClearedIsIdle,
              Idle, Leased, Pending, leaseVars, memory, lifecycle
<1>7. OpIsWellFormed' /\ CleanupIsAuthorised' /\ BodyIsAuthorised' /\ CandidateIsCurrent'
  BY <1>1, SameOp DEF memory
<1>. QED  BY <1>4, <1>5, <1>6, <1>7 DEF IndInv

LEMMA WatchdogPreserves ==
    ASSUME IndInv, NEW d \in Devices, Watchdog(d)
    PROVE  IndInv'
<1>1. /\ Idle
      /\ watchers[d] > 0 /\ watchers' = [watchers EXCEPT ![d] = @ - 1]
      /\ UNCHANGED <<memory, disk, hw, now, lifecycle>>
  BY DEF Watchdog
<1>2. /\ watchers' \in [Devices -> Nat]
      /\ \A x \in Devices : x # d => watchers'[x] = watchers[x]
  BY <1>1 DEF IndInv, TypeOK
<1>3. CASE /\ ~Open \/ ~Leased(d) \/ Pending(d)
           /\ UNCHANGED <<leaseVars, timers, op>>
  <2>1. TypeOK'
    BY <1>1, <1>2, <1>3 DEF IndInv, TypeOK, leaseVars, memory, lifecycle
  <2>2. WatchdogArmed'
    BY <1>1, <1>2, <1>3 DEF IndInv, WatchdogArmed, Leased, Pending, Open, leaseVars, lifecycle
  <2>3. LeaseHasSnapshot' /\ UserProfileSurvives' /\ UnleasedIsUser' /\ ClearedIsIdle'
    BY <1>1, <1>3 DEF IndInv, LeaseHasSnapshot, UserProfileSurvives, UnleasedIsUser,
                ClearedIsIdle, Idle, Leased, Pending, leaseVars, memory, lifecycle
  <2>4. OpIsWellFormed' /\ CleanupIsAuthorised' /\ BodyIsAuthorised' /\ CandidateIsCurrent'
    BY <1>1, <1>3, SameOp DEF memory
  <2>. QED  BY <2>1, <2>2, <2>3, <2>4 DEF IndInv
<1>4. CASE /\ Open /\ Live(d)
           /\ Reschedule(d)
           /\ UNCHANGED <<leaseVars, op>>
  <2>1. /\ leases[d] \in LeaseRecords /\ leases[d].expires \in Nat
        /\ timers' = [timers EXCEPT ![d] = leases[d].expires]
    BY <1>4 DEF IndInv, TypeOK, LeaseRecords, Live, Leased, Reschedule, ScheduleWatchdog
  <2>2. TypeOK'
    BY <1>1, <1>2, <1>4, <2>1 DEF IndInv, TypeOK, leaseVars, memory, lifecycle
  <2>3. WatchdogArmed'
    <3>1. /\ timers'[d] = leases'[d].expires /\ timers'[d] # Never
          /\ timers'[d] <= leases'[d].expires
          /\ \A x \in Devices : x # d => timers'[x] = timers[x]
      BY <1>4, <2>1 DEF IndInv, TypeOK, leaseVars, Never
    <3>. QED  BY <1>1, <1>2, <1>4, <3>1 DEF IndInv, WatchdogArmed, Leased, Pending, Open,
                                            leaseVars, lifecycle
  <2>4. LeaseHasSnapshot' /\ UserProfileSurvives' /\ UnleasedIsUser' /\ ClearedIsIdle'
    BY <1>1, <1>4 DEF IndInv, LeaseHasSnapshot, UserProfileSurvives, UnleasedIsUser,
                ClearedIsIdle, Idle, Leased, Pending, leaseVars, memory, lifecycle
  <2>5. OpIsWellFormed' /\ CleanupIsAuthorised' /\ BodyIsAuthorised' /\ CandidateIsCurrent'
    BY <1>1, <1>4, SameOp DEF memory
  <2>. QED  BY <2>2, <2>3, <2>4, <2>5 DEF IndInv
<1>5. CASE /\ Open /\ Leased(d) /\ ~Pending(d) /\ ~Live(d)
           /\ BeginCleanup(Lock("watchdog", d, None, None, "keep", None))
  <2>. DEFINE l == Lock("watchdog", d, None, None, "keep", None)
  <2>1. l \in OpRecords /\ l.kind = "watchdog" /\ l.device = d /\ l.done = 0
    BY WatchdogLockType
  <2>2. BeginCleanup(l)
    BY <1>5
  <2>. HIDE DEF l
  <2>. QED  BY <1>1, <1>2, <1>5, <2>1, <2>2, BeginCleanupPreserves
<1>. QED  BY <1>3, <1>4, <1>5 DEF Watchdog

(***************************************************************************)
(* The write sequence.                                                      *)
(***************************************************************************)
LEMMA WriteRegisterType ==
    ASSUME hw \in [Devices -> Registers], NEW d \in Devices, NEW step \in RegisterWrites,
           WriteRegister(d, step)
    PROVE  hw' \in [Devices -> Registers]
<1>1. hw[d] \in Registers
  OBVIOUS
<1>2. [hw[d] EXCEPT ![step[1]] = step[2]] \in Registers
  <2>1. CASE step \in {"mode"} \X (0..3)
    BY <1>1, <2>1 DEF Registers
  <2>2. CASE step \in {"in", "out"} \X ({Full} \cup Profiles)
    BY <1>1, <2>2 DEF Registers
  <2>3. CASE step \in Settings
    BY <1>1, <2>3 DEF Registers, Settings
  <2>. QED  BY <2>1, <2>2, <2>3 DEF RegisterWrites
<1>. QED  BY <1>2 DEF WriteRegister

LEMMA StepArithmetic ==
    ASSUME NEW n \in 1..6, NEW k \in Nat, k < n
    PROVE  k + 1 \in 0..6 /\ k + 1 \in 1..n /\ k \in 0..5
OBVIOUS

LEMMA ZeroBelow == ASSUME NEW n \in 1..6, NEW k, k = 0 PROVE k < n
OBVIOUS

LEMMA PreflightPassesPreserves == ASSUME IndInv, PreflightPasses PROVE IndInv'
<1>1. /\ op.pc = "preflight" /\ Open /\ ~Idle
      /\ op' = [op EXCEPT !.pc = "write", !.candidate = Capture(op)]
      /\ UNCHANGED <<leaseVars, timerVars, memory, disk, hw, now, lifecycle>>
  BY DEF PreflightPasses, Idle
<1>2. op \in OpRecords /\ op.device \in Devices /\ op.done = 0
  BY <1>1 DEF IndInv, TypeOK, OpIsWellFormed
<1>3. /\ Capture(op) \in Snapshots \cup {None}
      /\ FirstAcquire(op) => /\ Capture(op) \in Snapshots
                             /\ Capture(op).power_settings = Value(settings[op.device])
  <2>1. CASE FirstAcquire(op)
    <3>1. Capture(op) = [reserve |-> hw[op.device].reserve, grid |-> hw[op.device].grid,
                         power_settings |-> Value(settings[op.device])]
      BY <2>1 DEF Capture
    <3>2. hw[op.device].reserve \in Reserves /\ hw[op.device].grid \in BOOLEAN
      BY <1>2 DEF IndInv, TypeOK, Registers
    <3>3. Value(settings[op.device]) \in UserProfiles
      <4>1. ~Leased(op.device) /\ phase # "cleared"
        BY <1>1, <1>2, <2>1 DEF IndInv, FirstAcquire, LeaseHasSnapshot, Open
      <4>2. settings[op.device] \in UserProfiles \cup {None}
        BY <1>2, <4>1 DEF IndInv, TypeOK, UnleasedIsUser, Profiles
      <4>. QED  BY <4>2, ConstantAssumption DEF Value
    <3>. QED  BY <3>1, <3>2, <3>3 DEF Snapshots
  <2>2. CASE ~FirstAcquire(op)
    BY <2>2 DEF Capture
  <2>. QED  BY <2>1, <2>2
<1>4. /\ op' \in OpRecords /\ op'.pc = "write" /\ op'.candidate = Capture(op)
      /\ op'.stage = op.stage /\ op'.kind = op.kind /\ op'.device = op.device
      /\ op'.owner = op.owner /\ op'.profile = op.profile /\ op'.mode = op.mode
      /\ op'.setting = op.setting /\ op'.done = op.done
  <2>1. op' \in OpRecords
    BY <1>1, <1>2, <1>3, WriteOpType
  <2>. QED  BY <1>1, <1>2, <2>1 DEF OpRecords
<1>5. TypeOK'
  BY <1>1, <1>4 DEF IndInv, TypeOK, leaseVars, timerVars, memory, lifecycle
<1>6. LeaseHasSnapshot' /\ UserProfileSurvives' /\ UnleasedIsUser' /\ WatchdogArmed'
      /\ ClearedIsIdle'
  BY <1>1 DEF IndInv, LeaseHasSnapshot, UserProfileSurvives, UnleasedIsUser, WatchdogArmed,
              ClearedIsIdle, Leased, Pending, Open, leaseVars, timerVars, memory, lifecycle
<1>7. OpIsWellFormed'
  <2>1. Steps(op)' = Steps(op)
    BY <1>1, <1>4 DEF Steps, leaseVars
  <2>2. Len(Steps(op)) \in 1..6
    BY <1>1, StepsType DEF IndInv
  <2>3. op'.done < Len(Steps(op))'
    <3>1. op'.done = 0
      BY <1>2, <1>4
    <3>2. Len(Steps(op)') \in 1..6
      BY <2>1, <2>2
    <3>. QED  BY <3>1, <3>2, ZeroBelow
  <2>. QED  BY <1>1, <1>2, <1>4, <2>3 DEF IndInv, OpIsWellFormed, Idle
<1>8. CleanupIsAuthorised' /\ BodyIsAuthorised'
  BY <1>1, <1>4 DEF IndInv, CleanupIsAuthorised, BodyIsAuthorised, Idle, Leased, Pending,
                    leaseVars
<1>9. CandidateIsCurrent'
  BY <1>1, <1>3, <1>4 DEF CandidateIsCurrent, FirstAcquire, leaseVars, memory
<1>. QED  BY <1>5, <1>6, <1>7, <1>8, <1>9 DEF IndInv

LEMMA StepVerifiedPreserves == ASSUME IndInv, StepVerified PROVE IndInv'
<1>1. /\ op.pc = "write" /\ ~Idle
      /\ UNCHANGED <<leaseVars, timerVars, memory, disk, now, lifecycle>>
  BY DEF StepVerified, Idle
<1>2. op \in OpRecords /\ op.device \in Devices /\ op.done \in Nat /\ op.done < Len(Steps(op))
  BY <1>1 DEF IndInv, TypeOK, OpIsWellFormed, OpRecords
<1>3. Steps(op) \in Seq(RegisterWrites) /\ Len(Steps(op)) \in 1..6
  BY <1>1, StepsType DEF IndInv
<1>4. hw' \in [Devices -> Registers]
  <2>1. Steps(op)[op.done + 1] \in RegisterWrites
    <3>1. op.done + 1 \in 1..Len(Steps(op))
      BY <1>2, <1>3, StepArithmetic
    <3>. QED  BY <1>3, <3>1, ElementOfSeq
  <2>2. WriteRegister(op.device, Steps(op)[op.done + 1])
    BY DEF StepVerified
  <2>. QED  BY <1>2, <2>1, <2>2, WriteRegisterType DEF IndInv, TypeOK
<1>5. op.done + 1 \in 0..6
  BY <1>2, <1>3, StepArithmetic
<1>6. LeaseHasSnapshot' /\ UserProfileSurvives' /\ UnleasedIsUser' /\ WatchdogArmed'
  BY <1>1 DEF IndInv, LeaseHasSnapshot, UserProfileSurvives, UnleasedIsUser, WatchdogArmed,
              Leased, Pending, Open, leaseVars, timerVars, memory, lifecycle
<1>7. ClearedIsIdle'
  BY <1>1 DEF IndInv, ClearedIsIdle, lifecycle
<1>8. CASE /\ op.done + 1 < Len(Steps(op))
           /\ op' = [op EXCEPT !.done = @ + 1]
  <2>1. op' = [op EXCEPT !.done = op.done + 1]
    BY <1>8
  <2>2. /\ op' \in OpRecords /\ op'.done = op.done + 1 /\ op'.pc = op.pc
        /\ op'.stage = op.stage /\ op'.kind = op.kind /\ op'.device = op.device
        /\ op'.owner = op.owner /\ op'.profile = op.profile /\ op'.mode = op.mode
        /\ op'.setting = op.setting /\ op'.candidate = op.candidate
    <3>1. op' \in OpRecords
      BY <1>2, <1>5, <2>1, StepOpType
    <3>. QED  BY <1>2, <2>1, <3>1 DEF OpRecords
  <2>3. TypeOK'
    BY <1>1, <1>4, <2>2 DEF IndInv, TypeOK, leaseVars, timerVars, memory, lifecycle
  <2>4. OpIsWellFormed'
    <3>1. Steps(op)' = Steps(op)
      BY <1>1, <2>2 DEF Steps, leaseVars
    <3>. QED  BY <1>1, <1>8, <2>2, <3>1 DEF IndInv, OpIsWellFormed, Idle
  <2>5. CleanupIsAuthorised' /\ BodyIsAuthorised' /\ CandidateIsCurrent'
    BY <1>1, <2>2 DEF IndInv, CleanupIsAuthorised, BodyIsAuthorised, CandidateIsCurrent, Idle,
                      Leased, Pending, FirstAcquire, leaseVars, memory
  <2>. QED  BY <1>6, <1>7, <2>3, <2>4, <2>5 DEF IndInv
<1>9. CASE op' = NoOp
  <2>1. TypeOK'
    BY <1>1, <1>4, <1>9, NoOpType DEF IndInv, TypeOK, leaseVars, timerVars, memory, lifecycle
  <2>. QED  BY <1>6, <1>7, <1>9, <2>1, IdleOp DEF IndInv
<1>10. CASE op' = [op EXCEPT !.pc = "refresh", !.done = @ + 1]
  <2>1. op' = [op EXCEPT !.pc = "refresh", !.done = op.done + 1]
    BY <1>10
  <2>2. /\ op' \in OpRecords /\ op'.pc = "refresh"
        /\ op'.stage = op.stage /\ op'.kind = op.kind /\ op'.device = op.device
        /\ op'.owner = op.owner /\ op'.profile = op.profile /\ op'.mode = op.mode
        /\ op'.setting = op.setting /\ op'.candidate = op.candidate
    <3>1. op' \in OpRecords
      BY <1>2, <1>5, <2>1, StepOpType
    <3>. QED  BY <1>2, <2>1, <3>1 DEF OpRecords
  <2>3. TypeOK'
    BY <1>1, <1>4, <2>2 DEF IndInv, TypeOK, leaseVars, timerVars, memory, lifecycle
  <2>4. OpIsWellFormed'
    BY <1>1, <2>2 DEF IndInv, OpIsWellFormed, Idle
  <2>5. CleanupIsAuthorised' /\ BodyIsAuthorised' /\ CandidateIsCurrent'
    BY <1>1, <2>2 DEF IndInv, CleanupIsAuthorised, BodyIsAuthorised, CandidateIsCurrent, Idle,
                      Leased, Pending, FirstAcquire, leaseVars, memory
  <2>. QED  BY <1>6, <1>7, <2>3, <2>4, <2>5 DEF IndInv
<1>. QED  BY <1>8, <1>9, <1>10 DEF StepVerified, EndOp

\* Cleanup progress stays within a lease that is already being cleaned up.
LEMMA RecordProgressKeeps ==
    ASSUME IndInv, ~Idle, op.stage = "cleanup", NEW n \in 0..5,
           RecordProgress(op.device, n), UNCHANGED <<leases, pre_remote, phase>>
    PROVE  /\ cleanup' \in [Devices -> {NoCleanup} \cup 0..5]
           /\ settings' = settings /\ modes' \in [Devices -> Modes]
           /\ last_targets' \in [Devices -> Targets]
           /\ \A d \in Devices : Pending(d)' <=> Pending(d)
           /\ LeaseHasSnapshot' /\ UnleasedIsUser'
<1>1. op.device \in Devices /\ Leased(op.device) /\ Pending(op.device)
  BY DEF IndInv, OpIsWellFormed, CleanupIsAuthorised
<1>2. /\ cleanup' = [cleanup EXCEPT ![op.device] = n]
      /\ settings' = settings
      /\ \/ UNCHANGED <<modes, last_targets>>
         \/ /\ modes' = [modes EXCEPT ![op.device] = "automatic"]
            /\ last_targets' = [last_targets EXCEPT ![op.device] = "neutral"]
  BY DEF RecordProgress, RecordAutomatic, memory
<1>3. cleanup' \in [Devices -> {NoCleanup} \cup 0..5]
  BY <1>2 DEF IndInv, TypeOK
<1>4. modes' \in [Devices -> Modes] /\ last_targets' \in [Devices -> Targets]
  BY <1>2 DEF IndInv, TypeOK, Modes, Targets
<1>5. \A d \in Devices : Pending(d)' <=> Pending(d)
  BY <1>1, <1>2 DEF IndInv, TypeOK, Pending, NoCleanup
<1>6. LeaseHasSnapshot'
  BY <1>5 DEF IndInv, LeaseHasSnapshot, Leased
<1>7. UnleasedIsUser'
  BY <1>1, <1>2 DEF IndInv, TypeOK, UnleasedIsUser, Leased
<1>. QED  BY <1>2, <1>3, <1>4, <1>5, <1>6, <1>7

LEMMA StepFailsPreserves == ASSUME IndInv, StepFails PROVE IndInv'
<1>1. /\ op.pc = "write" /\ ~Idle /\ op' = NoOp
      /\ UNCHANGED <<leases, pre_remote, timerVars, disk, now, lifecycle>>
  BY DEF StepFails, EndOp, Idle
<1>2. /\ op.device \in Devices /\ op.done \in Nat
      /\ op.done < Len(Steps(op)) /\ Len(Steps(op)) \in 1..6
  BY <1>1, StepsType DEF IndInv, TypeOK, OpIsWellFormed, OpRecords
<1>3. op.done + 1 \in 1..Len(Steps(op)) /\ op.done \in 0..5
  BY <1>2, StepArithmetic
<1>4. hw' \in [Devices -> Registers]
  <2>1. Steps(op)[op.done + 1] \in RegisterWrites
    BY <1>1, <1>3, StepsType, ElementOfSeq DEF IndInv
  <2>2. WriteRegister(op.device, Steps(op)[op.done + 1]) \/ hw' = hw
    BY DEF StepFails
  <2>. QED  BY <1>2, <2>1, <2>2, WriteRegisterType DEF IndInv, TypeOK
<1>5. /\ cleanup' \in [Devices -> {NoCleanup} \cup 0..5]
      /\ settings' = settings /\ modes' \in [Devices -> Modes]
      /\ last_targets' \in [Devices -> Targets]
      /\ \A d \in Devices : Pending(d)' <=> Pending(d)
      /\ LeaseHasSnapshot' /\ UnleasedIsUser'
  <2>1. CASE op.stage = "cleanup" /\ ~op.cancelled
    <3>1. RecordProgress(op.device, op.done)
      BY <2>1 DEF StepFails
    <3>. QED  BY <1>1, <1>3, <2>1, <3>1, RecordProgressKeeps DEF lifecycle
  <2>2. CASE ~(op.stage = "cleanup" /\ ~op.cancelled)
    <3>1. UNCHANGED <<cleanup, memory>>
      BY <2>2 DEF StepFails
    <3>. QED  BY <1>1, <3>1 DEF IndInv, TypeOK, LeaseHasSnapshot, UnleasedIsUser, Leased,
                                Pending, memory, lifecycle
  <2>. QED  BY <2>1, <2>2
<1>6. TypeOK'
  BY <1>1, <1>4, <1>5, NoOpType DEF IndInv, TypeOK, timerVars, lifecycle
<1>7. UserProfileSurvives' /\ WatchdogArmed'
  BY <1>1, <1>5 DEF IndInv, UserProfileSurvives, WatchdogArmed, Leased, Open, timerVars, lifecycle
<1>8. ClearedIsIdle'
  BY <1>1 DEF IndInv, ClearedIsIdle, lifecycle
<1>. QED  BY <1>1, <1>5, <1>6, <1>7, <1>8, IdleOp DEF IndInv

\* An operation that moves on to its next await.
LEMMA NextAwait ==
    ASSUME NEW pc \in {"preflight", "write", "refresh", "save", "confirm"},
           op \in OpRecords, op' = [op EXCEPT !.pc = pc]
    PROVE  /\ op' \in OpRecords /\ op'.pc = pc
           /\ op'.stage = op.stage /\ op'.kind = op.kind /\ op'.device = op.device
           /\ op'.owner = op.owner /\ op'.profile = op.profile /\ op'.mode = op.mode
           /\ op'.setting = op.setting /\ op'.candidate = op.candidate
<1>1. op' \in OpRecords
  BY PcOpType
<1>. QED  BY <1>1 DEF OpRecords

LEMMA RefreshCleanupPreserves == ASSUME IndInv, RefreshCleanup PROVE IndInv'
<1>1. /\ op.pc = "refresh" /\ ~Idle /\ op.stage = "cleanup" /\ op \in OpRecords
      /\ UNCHANGED <<leases, pre_remote, timerVars, disk, hw, now, lifecycle>>
  BY DEF RefreshCleanup, Idle, IndInv, TypeOK
<1>2. /\ cleanup' \in [Devices -> {NoCleanup} \cup 0..5]
      /\ settings' = settings /\ modes' \in [Devices -> Modes]
      /\ last_targets' \in [Devices -> Targets]
      /\ \A d \in Devices : Pending(d)' <=> Pending(d)
      /\ LeaseHasSnapshot' /\ UnleasedIsUser'
  BY <1>1, RecordProgressKeeps DEF RefreshCleanup, lifecycle
<1>3. UserProfileSurvives' /\ WatchdogArmed'
  BY <1>1, <1>2 DEF IndInv, UserProfileSurvives, WatchdogArmed, Leased, Open, timerVars, lifecycle
<1>4. ClearedIsIdle'
  BY <1>1 DEF IndInv, ClearedIsIdle, lifecycle
<1>5. CASE op' = [op EXCEPT !.pc = "save"]
  <2>1. /\ op' \in OpRecords /\ op'.pc = "save"
        /\ op'.stage = op.stage /\ op'.kind = op.kind /\ op'.device = op.device
        /\ op'.owner = op.owner /\ op'.profile = op.profile /\ op'.mode = op.mode
        /\ op'.setting = op.setting /\ op'.candidate = op.candidate
    BY <1>1, <1>5, NextAwait
  <2>2. TypeOK'
    BY <1>1, <1>2, <2>1 DEF IndInv, TypeOK, timerVars, lifecycle
  <2>3. OpIsWellFormed' /\ CleanupIsAuthorised' /\ BodyIsAuthorised' /\ CandidateIsCurrent'
    BY <1>1, <1>2, <2>1 DEF IndInv, OpIsWellFormed, CleanupIsAuthorised, BodyIsAuthorised,
                            CandidateIsCurrent, Idle, Leased, FirstAcquire
  <2>. QED  BY <1>2, <1>3, <1>4, <2>2, <2>3 DEF IndInv
<1>6. CASE op' = NoOp
  <2>1. TypeOK'
    BY <1>1, <1>2, <1>6, NoOpType DEF IndInv, TypeOK, timerVars, lifecycle
  <2>. QED  BY <1>2, <1>3, <1>4, <1>6, <2>1, IdleOp DEF IndInv
<1>. QED  BY <1>5, <1>6 DEF RefreshCleanup, EndOp

(***************************************************************************)
(* _renew after a successful command of the owner, or of the new owner.     *)
(***************************************************************************)
LEMMA RenewKeeps ==
    ASSUME IndInv, NEW d \in Devices, NEW o \in Owners, Renew(d, o),
           UNCHANGED <<cleanup, watchers, phase>>
    PROVE  /\ leases' \in [Devices -> LeaseRecords \cup {None}]
           /\ timers' \in [Devices -> {Never} \cup Nat]
           /\ leases'[d].owner = o /\ leases'[d] # None
           /\ \A x \in Devices : x # d => leases'[x] = leases[x]
           /\ WatchdogArmed'
<1>. DEFINE renewed == [owner |-> o, expires |-> now + LeaseTime]
<1>1. renewed \in LeaseRecords /\ renewed # None /\ now + LeaseTime \in Nat
  BY ConstantAssumption DEF IndInv, TypeOK, LeaseRecords
<1>2. /\ leases' = [leases EXCEPT ![d] = renewed]
      /\ timers' = [timers EXCEPT ![d] = IF Open THEN now + LeaseTime ELSE Never]
  BY DEF Renew, ScheduleWatchdog
<1>3. leases' \in [Devices -> LeaseRecords \cup {None}] /\ timers' \in [Devices -> {Never} \cup Nat]
  BY <1>1, <1>2 DEF IndInv, TypeOK
<1>4. leases'[d] = renewed /\ \A x \in Devices : x # d => leases'[x] = leases[x]
  BY <1>2 DEF IndInv, TypeOK
<1>5. WatchdogArmed'
  <2>. SUFFICES ASSUME Open', NEW x \in Devices, Leased(x)', ~Pending(x)'
                PROVE  \/ watchers'[x] > 0
                       \/ timers'[x] # Never /\ timers'[x] <= leases'[x].expires
    BY DEF WatchdogArmed
  <2>1. CASE x = d
    <3>1. timers'[d] = now + LeaseTime
      BY <1>2 DEF IndInv, TypeOK, Open
    <3>2. leases'[d].expires = now + LeaseTime
      BY <1>4
    <3>3. now + LeaseTime # Never /\ now + LeaseTime <= now + LeaseTime
      BY <1>1 DEF Never
    <3>. QED  BY <2>1, <3>1, <3>2, <3>3
  <2>2. CASE x # d
    <3>1. timers'[x] = timers[x] /\ leases'[x] = leases[x]
      BY <1>2, <1>4, <2>2 DEF IndInv, TypeOK
    <3>2. Leased(x) /\ ~Pending(x) /\ Open
      BY <3>1 DEF Leased, Pending, Open
    <3>. QED  BY <3>1, <3>2 DEF IndInv, WatchdogArmed
  <2>. QED  BY <2>1, <2>2
<1>. QED  BY <1>1, <1>3, <1>4, <1>5

LEMMA RefreshBodyPreserves == ASSUME IndInv, RefreshBody PROVE IndInv'
<1>1. /\ op.pc = "refresh" /\ ~Idle /\ op.stage = "body" /\ op \in OpRecords
      /\ op.device \in Devices
      /\ UNCHANGED <<pre_remote, cleanup, watchers, memory, disk, hw, now, lifecycle>>
  BY DEF RefreshBody, Idle, IndInv, TypeOK, OpIsWellFormed
<1>2. CASE /\ op.kind \in {"acquire", "update", "change"}
           /\ op' = [op EXCEPT !.pc = "save"]
           /\ UNCHANGED <<leases, timers>>
  <2>1. /\ op' \in OpRecords /\ op'.pc = "save"
        /\ op'.stage = op.stage /\ op'.kind = op.kind /\ op'.device = op.device
        /\ op'.owner = op.owner /\ op'.profile = op.profile /\ op'.mode = op.mode
        /\ op'.setting = op.setting /\ op'.candidate = op.candidate
    BY <1>1, <1>2, NextAwait
  <2>2. TypeOK'
    BY <1>1, <1>2, <2>1 DEF IndInv, TypeOK, memory, lifecycle
  <2>3. LeaseHasSnapshot' /\ UserProfileSurvives' /\ UnleasedIsUser' /\ WatchdogArmed'
    BY <1>1, <1>2 DEF IndInv, LeaseHasSnapshot, UserProfileSurvives, UnleasedIsUser,
                      WatchdogArmed, Leased, Pending, Open, memory, lifecycle
  <2>4. ClearedIsIdle'
    BY <1>1 DEF IndInv, ClearedIsIdle, lifecycle
  <2>5. OpIsWellFormed' /\ CleanupIsAuthorised' /\ BodyIsAuthorised' /\ CandidateIsCurrent'
    BY <1>1, <1>2, <2>1 DEF IndInv, OpIsWellFormed, CleanupIsAuthorised, BodyIsAuthorised,
                     CandidateIsCurrent, Idle, Leased, Pending, FirstAcquire, memory
  <2>. QED  BY <2>2, <2>3, <2>4, <2>5 DEF IndInv
<1>3. CASE op.kind = "policy" /\ EndOp /\ UNCHANGED <<leases, timers>>
  BY <1>1, <1>3, EndOpPreserves DEF leaseVars, timerVars
<1>4. CASE op.kind = "setting" /\ Renew(op.device, op.owner) /\ EndOp
  <2>1. op.owner \in Owners /\ Leased(op.device)
    BY <1>1, <1>4 DEF IndInv, OpIsWellFormed, BodyIsAuthorised
  <2>2. /\ leases' \in [Devices -> LeaseRecords \cup {None}]
        /\ timers' \in [Devices -> {Never} \cup Nat]
        /\ leases'[op.device] # None
        /\ \A x \in Devices : x # op.device => leases'[x] = leases[x]
        /\ WatchdogArmed'
    BY <1>1, <1>4, <2>1, RenewKeeps DEF lifecycle
  <2>3. op' = NoOp
    BY <1>4 DEF EndOp
  <2>4. TypeOK'
    BY <1>1, <2>2, <2>3, NoOpType DEF IndInv, TypeOK, memory, lifecycle
  <2>5. \A x \in Devices : Leased(x)' <=> Leased(x)
    BY <2>1, <2>2 DEF Leased
  <2>6. LeaseHasSnapshot' /\ UserProfileSurvives' /\ UnleasedIsUser'
    BY <1>1, <2>5 DEF IndInv, LeaseHasSnapshot, UserProfileSurvives, UnleasedIsUser,
                      Pending, memory, lifecycle
  <2>7. ClearedIsIdle'
    BY <1>1 DEF IndInv, ClearedIsIdle, lifecycle
  <2>. QED  BY <2>2, <2>3, <2>4, <2>6, <2>7, IdleOp DEF IndInv
<1>. QED  BY <1>2, <1>3, <1>4 DEF RefreshBody

(***************************************************************************)
(* The document that is saved: a user profile for every device, and for a   *)
(* leased device the one its snapshot holds.                                *)
(***************************************************************************)
LEMMA CommitType ==
    ASSUME IndInv, op.pc \in {"save", "confirm"}
    PROVE  /\ op.device \in Devices
           /\ NewSettings \in [Devices -> Profiles \cup {None}]
           /\ NewModes \in [Devices -> Modes]
           /\ NewTargets \in [Devices -> Targets]
           /\ \A d \in Devices : d # op.device =>
                 NewSettings[d] = settings[d] /\ NewModes[d] = modes[d]
           /\ NewModes[op.device] = CommitMode
           /\ op.stage = "cleanup" =>
                 /\ NewSettings[op.device] = pre_remote[op.device].power_settings
                 /\ pre_remote[op.device] \in Snapshots /\ CommitMode = "automatic"
           /\ op.kind = "change" /\ op.stage = "body" =>
                 NewSettings[op.device] \notin RemoteProfiles /\ CommitMode # "remote"
           /\ op.kind \in {"acquire", "update"} /\ op.stage = "body" => CommitMode = "remote"
           /\ op.stage = "body" => op.kind \in {"acquire", "update", "change"}
<1>1. /\ ~Idle /\ op \in OpRecords /\ op.device \in Devices
      /\ op.kind \in AllKinds \cup {"watchdog"}
  BY DEF IndInv, TypeOK, OpIsWellFormed, OpRecords, Idle
<1>2. op.stage \in {"cleanup", "body"} /\ op.profile \in Profiles \cup {None}
  BY <1>1 DEF OpRecords
<1>3. op.stage = "cleanup" => pre_remote[op.device] \in Snapshots
  BY <1>1 DEF IndInv, TypeOK, CleanupIsAuthorised, LeaseHasSnapshot
<1>4. op.stage = "body" =>
        /\ op.kind \in {"acquire", "update", "change"}
        /\ op.mode \in Modes
        /\ op.mode # "automatic" => op.profile \in Profiles
        /\ op.kind \in {"acquire", "update"} => op.mode = "remote"
        /\ op.kind = "change" => op.profile \notin RemoteProfiles /\ op.mode # "remote"
  <2>. SUFFICES ASSUME op.stage = "body"
                PROVE  /\ op.kind \in {"acquire", "update", "change"}
                       /\ op.mode \in Modes
                       /\ op.mode # "automatic" => op.profile \in Profiles
                       /\ op.kind \in {"acquire", "update"} => op.mode = "remote"
                       /\ op.kind = "change" =>
                             op.profile \notin RemoteProfiles /\ op.mode # "remote"
    OBVIOUS
  <2>1. op.kind \notin {"none", "heartbeat", "release", "watchdog", "setting", "policy"}
    BY <1>1 DEF IndInv, OpIsWellFormed, BodyIsAuthorised
  <2>2. op.kind \in {"acquire", "update", "change"}
    BY <1>1, <2>1 DEF AllKinds
  <2>3. /\ op.kind \in {"acquire", "update"} => op.mode = "remote" /\ op.profile \in Profiles
        /\ op.kind = "change" => /\ op.profile \notin RemoteProfiles
                                 /\ op.mode \in {"automatic", "manual"}
                                 /\ op.profile = None => op.mode = "automatic"
    BY <1>1 DEF IndInv, BodyIsAuthorised
  <2>. QED  BY <1>2, <2>2, <2>3 DEF Modes
<1>5. CommitProfile \in Profiles \cup {None} /\ CommitMode \in Modes
  BY <1>2, <1>3, <1>4 DEF CommitProfile, CommitMode, Snapshots, Profiles, Modes
<1>6. NewSettings \in [Devices -> Profiles \cup {None}] /\ NewModes \in [Devices -> Modes]
  BY <1>5 DEF NewSettings, NewModes, IndInv, TypeOK
<1>7. NewTargets \in [Devices -> Targets]
  BY <1>4 DEF NewTargets, Targets, IndInv, TypeOK
<1>8. /\ \A d \in Devices : d # op.device =>
            NewSettings[d] = settings[d] /\ NewModes[d] = modes[d]
      /\ NewModes[op.device] = CommitMode
      /\ NewSettings[op.device] = IF CommitProfile = None THEN settings[op.device]
                                  ELSE CommitProfile
  BY <1>1 DEF NewSettings, NewModes, IndInv, TypeOK
<1>9. op.stage = "cleanup" =>
        /\ NewSettings[op.device] = pre_remote[op.device].power_settings
        /\ CommitMode = "automatic"
  <2>1. op.stage = "cleanup" => pre_remote[op.device].power_settings \in Profiles
    BY <1>3 DEF Snapshots, Profiles
  <2>. QED  BY <1>8, <2>1, ConstantAssumption DEF CommitProfile, CommitMode
<1>10. op.kind = "change" /\ op.stage = "body" =>
         NewSettings[op.device] \notin RemoteProfiles /\ CommitMode # "remote"
  <2>1. op.kind = "change" /\ op.stage = "body" => settings[op.device] \notin RemoteProfiles
    BY <1>1 DEF IndInv, BodyIsAuthorised, UnleasedIsUser, ClearedIsIdle
  <2>. QED  BY <1>4, <1>8, <2>1 DEF CommitProfile, CommitMode
<1>11. op.kind \in {"acquire", "update"} /\ op.stage = "body" => CommitMode = "remote"
  BY <1>4 DEF CommitMode
<1>. QED  BY <1>1, <1>3, <1>4, <1>6, <1>7, <1>8, <1>9, <1>10, <1>11

LEMMA PersistedIsUser ==
    ASSUME IndInv, op.pc = "save"
    PROVE  /\ Persisted \in [Devices -> UserProfiles \cup {None}]
           /\ \A d \in Devices : Leased(d) => Persisted[d] = pre_remote[d].power_settings
           /\ FirstAcquire(op) => Persisted[op.device] = Value(settings[op.device])
<1>1. /\ ~Idle /\ phase # "cleared"
      /\ op.device \in Devices /\ op.stage \in {"cleanup", "body"}
  BY DEF IndInv, TypeOK, OpRecords, OpIsWellFormed, ClearedIsIdle, Idle
<1>2. ASSUME NEW d \in Devices, ~Leased(d)
      PROVE  /\ pre_remote[d] = None
             /\ settings[d] \in UserProfiles \cup {None}
             /\ Value(settings[d]) \in UserProfiles
  <2>1. settings[d] \in UserProfiles \cup {None}
    BY <1>1, <1>2 DEF IndInv, TypeOK, UnleasedIsUser, Profiles
  <2>. QED  BY <1>2, <2>1, ConstantAssumption DEF IndInv, LeaseHasSnapshot, Value
<1>3. ASSUME NEW d \in Devices, Leased(d)
      PROVE  /\ pre_remote[d] # None
             /\ pre_remote[d].power_settings \in UserProfiles
  <2>1. pre_remote[d] \in Snapshots /\ pre_remote[d] # None
    BY <1>3 DEF IndInv, TypeOK, LeaseHasSnapshot
  <2>. QED  BY <2>1 DEF Snapshots
<1>4. ASSUME NEW d \in Devices, d # op.device
      PROVE  /\ Persisted[d] \in UserProfiles \cup {None}
             /\ Leased(d) => Persisted[d] = pre_remote[d].power_settings
  <2>1. Persisted[d] = IF pre_remote[d] # None THEN pre_remote[d].power_settings
                       ELSE settings[d]
    BY <1>4, CommitType DEF Persisted
  <2>. QED  BY <1>2, <1>3, <2>1
<1>5. /\ Persisted[op.device] \in UserProfiles \cup {None}
      /\ Leased(op.device) => Persisted[op.device] = pre_remote[op.device].power_settings
      /\ FirstAcquire(op) => Persisted[op.device] = Value(settings[op.device])
  <2>. DEFINE d == op.device
  <2>1. Persisted[d] = IF CommitMode = "remote" THEN UserProfile(d) ELSE NewSettings[d]
    BY <1>1 DEF Persisted
  <2>2. CASE op.stage = "cleanup"
    <3>1. /\ CommitMode = "automatic" /\ Leased(d)
          /\ NewSettings[d] = pre_remote[d].power_settings
      BY <1>1, <2>2, CommitType DEF IndInv, CleanupIsAuthorised
    <3>. QED  BY <1>1, <1>3, <2>1, <2>2, <3>1 DEF FirstAcquire
  <2>3. CASE op.stage = "body" /\ op.kind = "change"
    <3>1. /\ CommitMode # "remote" /\ ~Leased(d)
          /\ NewSettings[d] \in UserProfiles \cup {None}
      BY <1>1, <2>3, CommitType DEF IndInv, BodyIsAuthorised, Profiles
    <3>. QED  BY <2>1, <2>3, <3>1 DEF FirstAcquire
  <2>4. CASE op.stage = "body" /\ op.kind \in {"acquire", "update"}
    <3>1. CommitMode = "remote"
      BY <2>4, CommitType
    <3>2. Persisted[d] = IF pre_remote[d] # None THEN pre_remote[d].power_settings
                         ELSE Value(settings[d])
      BY <2>1, <3>1 DEF UserProfile
    <3>. QED  BY <1>1, <1>2, <1>3, <3>2 DEF FirstAcquire
  <2>. QED  BY <1>1, <2>2, <2>3, <2>4, CommitType
<1>6. Persisted \in [Devices -> UserProfiles \cup {None}]
  <2>1. Persisted = [d \in Devices |-> Persisted[d]]
    BY DEF Persisted
  <2>2. \A d \in Devices : Persisted[d] \in UserProfiles \cup {None}
    BY <1>4, <1>5
  <2>. HIDE DEF Persisted
  <2>. QED  BY <2>1, <2>2
<1>. QED  BY <1>4, <1>5, <1>6

LEMMA SavePreserves == ASSUME IndInv, Save PROVE IndInv'
<1>1. /\ op.pc = "save" /\ ~Idle /\ op \in OpRecords
      /\ op' = [op EXCEPT !.pc = "confirm"]
      /\ UNCHANGED <<leaseVars, timerVars, memory, hw, now, lifecycle>>
  BY DEF Save, Idle, IndInv, TypeOK
<1>2. /\ op' \in OpRecords /\ op'.pc = "confirm"
      /\ op'.stage = op.stage /\ op'.kind = op.kind /\ op'.device = op.device
      /\ op'.owner = op.owner /\ op'.profile = op.profile /\ op'.mode = op.mode
      /\ op'.setting = op.setting /\ op'.candidate = op.candidate
  BY <1>1, NextAwait
<1>3. /\ disk'.settings = Persisted /\ disk'.modes = NewModes
      /\ disk'.last_targets = NewTargets
      /\ disk' = [settings |-> Persisted, modes |-> NewModes, last_targets |-> NewTargets]
  BY DEF Save
<1>4. /\ Persisted \in [Devices -> UserProfiles \cup {None}]
      /\ \A d \in Devices : Leased(d) => Persisted[d] = pre_remote[d].power_settings
      /\ FirstAcquire(op) => Persisted[op.device] = Value(settings[op.device])
  BY <1>1, PersistedIsUser
<1>5. TypeOK'
  <2>1. /\ Persisted \in [Devices -> Profiles \cup {None}]
        /\ NewModes \in [Devices -> Modes] /\ NewTargets \in [Devices -> Targets]
    BY <1>1, <1>4, CommitType DEF Profiles
  <2>2. disk' \in [settings : [Devices -> Profiles \cup {None}],
                   modes : [Devices -> Modes], last_targets : [Devices -> Targets]]
    BY <1>3, <2>1
  <2>. QED  BY <1>1, <1>2, <2>2 DEF IndInv, TypeOK, leaseVars, timerVars, memory, lifecycle
<1>6. UserProfileSurvives'
  BY <1>1, <1>3, <1>4 DEF UserProfileSurvives, Leased, leaseVars
<1>7. LeaseHasSnapshot' /\ UnleasedIsUser' /\ WatchdogArmed'
  BY <1>1 DEF IndInv, LeaseHasSnapshot, UnleasedIsUser, WatchdogArmed, Leased, Pending, Open,
              leaseVars, timerVars, memory, lifecycle
<1>8. ClearedIsIdle'
  BY <1>1 DEF IndInv, ClearedIsIdle, lifecycle
<1>9. OpIsWellFormed' /\ CleanupIsAuthorised'
  BY <1>1, <1>2 DEF IndInv, OpIsWellFormed, CleanupIsAuthorised, Idle, Leased, Pending, leaseVars
<1>10. BodyIsAuthorised'
  BY <1>1, <1>2 DEF IndInv, BodyIsAuthorised, Idle, Leased, Pending, leaseVars
<1>11. CandidateIsCurrent'
  BY <1>1, <1>2, <1>3, <1>4 DEF IndInv, CandidateIsCurrent, Idle, FirstAcquire, leaseVars, memory
<1>. QED  BY <1>2, <1>5, <1>6, <1>7, <1>8, <1>9, <1>10, <1>11 DEF IndInv

(***************************************************************************)
(* What a confirmed save leads to.                                          *)
(***************************************************************************)
LEMMA EndLeaseKeeps ==
    ASSUME IndInv, NEW d \in Devices, EndLease(d)
    PROVE  /\ leases' \in [Devices -> LeaseRecords \cup {None}]
           /\ pre_remote' \in [Devices -> Snapshots \cup {None}]
           /\ cleanup' \in [Devices -> {NoCleanup} \cup 0..5]
           /\ ~Leased(d)' /\ ~Pending(d)' /\ pre_remote'[d] = None
           /\ \A x \in Devices : x # d =>
                 /\ leases'[x] = leases[x] /\ pre_remote'[x] = pre_remote[x]
                 /\ cleanup'[x] = cleanup[x]
BY DEF IndInv, TypeOK, EndLease, Leased, Pending

LEMMA ConfirmCleanupPreserves == ASSUME IndInv, ConfirmCleanup PROVE IndInv'
<1>. SUFFICES ASSUME NEW d \in Devices, d = op.device PROVE IndInv'
  BY DEF ConfirmCleanup, Idle, IndInv, OpIsWellFormed
<1>1. /\ op.pc = "confirm" /\ op.stage = "cleanup" /\ ~Idle /\ op \in OpRecords
      /\ UNCHANGED <<timerVars, disk, hw, now, lifecycle>>
      /\ phase # "cleared"
  BY DEF ConfirmCleanup, Idle, IndInv, TypeOK, ClearedIsIdle
<1>2. /\ d \in Devices
      /\ NewSettings \in [Devices -> Profiles \cup {None}] /\ NewModes \in [Devices -> Modes]
      /\ NewTargets \in [Devices -> Targets]
      /\ \A x \in Devices : x # d => NewSettings[x] = settings[x] /\ NewModes[x] = modes[x]
      /\ NewSettings[d] = pre_remote[d].power_settings
      /\ pre_remote[d] \in Snapshots /\ NewModes[d] = "automatic"
  BY <1>1, CommitType
<1>3. NewSettings[d] \in UserProfiles
  BY <1>2 DEF Snapshots
<1>4. settings' = NewSettings /\ modes' = NewModes /\ last_targets' = NewTargets
  BY DEF ConfirmCleanup, Commit
<1>5. /\ leases' \in [Devices -> LeaseRecords \cup {None}]
      /\ pre_remote' \in [Devices -> Snapshots \cup {None}]
      /\ cleanup' \in [Devices -> {NoCleanup} \cup 0..5]
      /\ ~Leased(d)' /\ ~Pending(d)' /\ pre_remote'[d] = None
      /\ \A x \in Devices : x # d =>
            /\ leases'[x] = leases[x] /\ pre_remote'[x] = pre_remote[x]
            /\ cleanup'[x] = cleanup[x]
  BY <1>2, EndLeaseKeeps DEF ConfirmCleanup
<1>6. LeaseHasSnapshot'
  BY <1>5 DEF IndInv, LeaseHasSnapshot, Leased, Pending
<1>7. UserProfileSurvives'
  BY <1>1, <1>5 DEF IndInv, UserProfileSurvives, Leased
<1>8. WatchdogArmed'
  BY <1>1, <1>5 DEF IndInv, WatchdogArmed, Leased, Pending, Open, timerVars, lifecycle
<1>9. UnleasedIsUser'
  <2>1. NewSettings[d] \notin RemoteProfiles
    BY <1>3, ConstantAssumption
  <2>. QED  BY <1>1, <1>2, <1>4, <1>5, <2>1 DEF IndInv, UnleasedIsUser, Leased
<1>10. ClearedIsIdle'
  BY <1>1 DEF ClearedIsIdle, lifecycle
<1>11. op' \in OpRecords => TypeOK'
  BY <1>1, <1>2, <1>4, <1>5 DEF IndInv, TypeOK, timerVars, lifecycle
<1>12. CASE op' = NoOp
  BY <1>6, <1>7, <1>8, <1>9, <1>10, <1>11, <1>12, NoOpType, IdleOp DEF IndInv
<1>13. CASE /\ op.kind \notin {"release", "watchdog"}
            /\ op' = Resolved(op, NewSettings[d], NewModes[d])
  <2>1. /\ op.kind \in {"acquire", "change", "policy"}
        /\ op.kind = "acquire" => op.mode = "remote" /\ op.owner \in Owners
        /\ op.kind = "change" => op.profile \notin RemoteProfiles /\ op.mode # "remote"
        /\ op.kind = "policy" => op.setting \in Settings
    BY <1>1, <1>13 DEF IndInv, OpIsWellFormed, CleanupIsAuthorised, OpRecords, AllKinds
  <2>2. NewSettings[d] \notin RemoteProfiles /\ NewSettings[d] \in Profiles \cup {None}
    BY <1>3, ConstantAssumption DEF Profiles
  <2>3. "automatic" \in Modes
    BY DEF Modes
  <2>4. /\ op' \in OpRecords
        /\ op'.stage = "body" /\ op'.pc \in {"preflight", "save"} /\ op'.done = 0
        /\ op'.kind = op.kind /\ op'.device = op.device /\ op'.owner = op.owner
        /\ op'.setting = op.setting
        /\ op'.kind # "change" => op'.pc = "preflight"
        /\ op'.kind \in {"acquire", "update"} => op'.mode = "remote" /\ op'.profile \in Profiles
        /\ op'.kind = "change" => /\ op'.profile \notin RemoteProfiles
                                  /\ op'.mode \in {"automatic", "manual"}
                                  /\ op'.profile = None => op'.mode = "automatic"
    BY <1>1, <1>2, <1>13, <2>1, <2>2, <2>3, ResolvedShape
  <2>5. OpIsWellFormed'
    BY <1>2, <2>1, <2>4 DEF OpIsWellFormed, Idle
  <2>6. CleanupIsAuthorised'
    BY <2>4 DEF CleanupIsAuthorised
  <2>7. BodyIsAuthorised'
    BY <1>5, <2>1, <2>4 DEF BodyIsAuthorised, Leased
  <2>8. CandidateIsCurrent'
    BY <2>4 DEF CandidateIsCurrent, FirstAcquire
  <2>. QED  BY <1>6, <1>7, <1>8, <1>9, <1>10, <1>11, <2>4, <2>5, <2>6, <2>7, <2>8 DEF IndInv
<1>. QED  BY <1>12, <1>13 DEF ConfirmCleanup, EndOp

LEMMA ConfirmBodyPreserves == ASSUME IndInv, ConfirmBody PROVE IndInv'
<1>. SUFFICES ASSUME NEW d \in Devices, d = op.device PROVE IndInv'
  BY DEF ConfirmBody, Idle, IndInv, OpIsWellFormed
<1>1. /\ op.pc = "confirm" /\ op.stage = "body" /\ ~Idle /\ op \in OpRecords
      /\ UNCHANGED <<cleanup, watchers, disk, hw, now, lifecycle>>
      /\ phase # "cleared" /\ op' = NoOp
  BY DEF ConfirmBody, EndOp, Idle, IndInv, TypeOK, ClearedIsIdle
<1>2. /\ d \in Devices
      /\ NewSettings \in [Devices -> Profiles \cup {None}] /\ NewModes \in [Devices -> Modes]
      /\ NewTargets \in [Devices -> Targets]
      /\ \A x \in Devices : x # d => NewSettings[x] = settings[x] /\ NewModes[x] = modes[x]
      /\ NewModes[d] = CommitMode
      /\ op.kind \in {"acquire", "update", "change"}
      /\ op.kind = "change" => NewSettings[d] \notin RemoteProfiles /\ CommitMode # "remote"
  BY <1>1, CommitType
<1>3. settings' = NewSettings /\ modes' = NewModes /\ last_targets' = NewTargets
  BY DEF ConfirmBody, Commit
<1>4. /\ leases' \in [Devices -> LeaseRecords \cup {None}]
      /\ pre_remote' \in [Devices -> Snapshots \cup {None}]
      /\ timers' \in [Devices -> {Never} \cup Nat]
      => TypeOK'
  BY <1>1, <1>2, <1>3, NoOpType DEF IndInv, TypeOK, lifecycle
<1>5. ClearedIsIdle'
  BY <1>1 DEF ClearedIsIdle, lifecycle
<1>6. CASE op.kind = "change"
  <2>1. UNCHANGED <<leases, pre_remote, timers>> /\ ~Leased(d)
    BY <1>1, <1>6 DEF ConfirmBody, IndInv, BodyIsAuthorised
  <2>2. LeaseHasSnapshot' /\ UserProfileSurvives' /\ WatchdogArmed'
    BY <1>1, <2>1 DEF IndInv, LeaseHasSnapshot, UserProfileSurvives, WatchdogArmed,
                      Leased, Pending, Open, lifecycle
  <2>3. UnleasedIsUser'
    <3>. QED  BY <1>1, <1>2, <1>3, <1>6, <2>1 DEF IndInv, UnleasedIsUser, Leased
  <2>4. TypeOK'
    BY <1>4, <2>1 DEF IndInv, TypeOK
  <2>. QED  BY <1>1, <1>5, <2>2, <2>3, <2>4, IdleOp DEF IndInv
<1>7. CASE op.kind \in {"acquire", "update"}
  <2>1. /\ Renew(d, op.owner) /\ op.owner \in Owners
        /\ pre_remote' = IF FirstAcquire(op) THEN [pre_remote EXCEPT ![d] = op.candidate]
                         ELSE pre_remote
    BY <1>1, <1>7 DEF ConfirmBody, IndInv, OpIsWellFormed
  <2>2. /\ leases' \in [Devices -> LeaseRecords \cup {None}]
        /\ timers' \in [Devices -> {Never} \cup Nat]
        /\ leases'[d] # None
        /\ \A x \in Devices : x # d => leases'[x] = leases[x]
        /\ WatchdogArmed'
    BY <1>1, <1>2, <2>1, RenewKeeps DEF lifecycle
  <2>3. /\ pre_remote' \in [Devices -> Snapshots \cup {None}]
        /\ pre_remote'[d] \in Snapshots
        /\ disk.settings[d] = pre_remote'[d].power_settings
        /\ \A x \in Devices : x # d => pre_remote'[x] = pre_remote[x]
    <3>1. CASE FirstAcquire(op)
      <4>1. op.candidate \in Snapshots /\ disk.settings[d] = op.candidate.power_settings
        BY <1>1, <3>1 DEF IndInv, CandidateIsCurrent
      <4>2. pre_remote' = [pre_remote EXCEPT ![d] = op.candidate]
        BY <2>1, <3>1
      <4>. QED  BY <1>2, <4>1, <4>2 DEF IndInv, TypeOK
    <3>2. CASE ~FirstAcquire(op)
      <4>1. pre_remote[d] # None
        BY <1>1, <1>2, <1>7, <3>2 DEF FirstAcquire, IndInv, BodyIsAuthorised, LeaseHasSnapshot
      <4>2. pre_remote' = pre_remote /\ Leased(d) /\ pre_remote[d] \in Snapshots
        BY <1>2, <2>1, <3>2, <4>1 DEF IndInv, TypeOK, LeaseHasSnapshot
      <4>. QED  BY <1>2, <4>2 DEF IndInv, TypeOK, UserProfileSurvives
    <3>. QED  BY <3>1, <3>2
  <2>4. TypeOK'
    BY <1>4, <2>2, <2>3
  <2>5. \A x \in Snapshots : x # None
    BY ConstantAssumption
  <2>6. LeaseHasSnapshot' /\ UserProfileSurvives'
    <3>. QED  BY <1>1, <2>2, <2>3, <2>5 DEF IndInv, LeaseHasSnapshot, UserProfileSurvives,
                                          Leased, Pending
  <2>7. UnleasedIsUser'
    <3>. QED  BY <1>1, <1>2, <1>3, <2>2 DEF IndInv, UnleasedIsUser, Leased
  <2>. QED  BY <1>1, <1>5, <2>2, <2>4, <2>6, <2>7, IdleOp DEF IndInv
<1>. QED  BY <1>2, <1>6, <1>7

(***************************************************************************)
(* The surroundings.                                                        *)
(***************************************************************************)
LEMMA TickPreserves == ASSUME IndInv, Tick PROVE IndInv'
<1>1. UNCHANGED <<leaseVars, timerVars, memory, disk, hw, lifecycle, op>> /\ now' = now + 1
  BY DEF Tick
<1>2. TypeOK'
  BY <1>1 DEF IndInv, TypeOK, leaseVars, timerVars, memory, lifecycle
<1>3. LeaseHasSnapshot' /\ UserProfileSurvives' /\ UnleasedIsUser' /\ WatchdogArmed'
  BY <1>1 DEF IndInv, LeaseHasSnapshot, UserProfileSurvives, UnleasedIsUser, WatchdogArmed,
              Leased, Pending, Open, leaseVars, timerVars, memory, lifecycle
<1>4. ClearedIsIdle'
  BY <1>1 DEF IndInv, ClearedIsIdle, Idle, Leased, leaseVars, lifecycle
<1>5. OpIsWellFormed' /\ CleanupIsAuthorised' /\ BodyIsAuthorised' /\ CandidateIsCurrent'
  BY <1>1, SameOp DEF memory
<1>. QED  BY <1>2, <1>3, <1>4, <1>5 DEF IndInv

LEMMA LowLevelWritePreserves ==
    ASSUME IndInv, NEW d \in Devices, LowLevelWrite(d)
    PROVE  IndInv'
<1>1. UNCHANGED <<leaseVars, timerVars, memory, disk, now, lifecycle, op>>
  BY DEF LowLevelWrite
<1>2. hw' \in [Devices -> Registers]
  <2>1. PICK step \in RegisterWrites : WriteRegister(d, step)
    BY ConstantAssumption DEF LowLevelWrite
  <2>. QED  BY <2>1, WriteRegisterType DEF IndInv, TypeOK
<1>3. TypeOK'
  BY <1>1, <1>2 DEF IndInv, TypeOK, leaseVars, timerVars, memory, lifecycle
<1>4. LeaseHasSnapshot' /\ UserProfileSurvives' /\ UnleasedIsUser' /\ WatchdogArmed'
  BY <1>1 DEF IndInv, LeaseHasSnapshot, UserProfileSurvives, UnleasedIsUser, WatchdogArmed,
              Leased, Pending, Open, leaseVars, timerVars, memory, lifecycle
<1>5. ClearedIsIdle'
  BY <1>1 DEF IndInv, ClearedIsIdle, Idle, Leased, leaseVars, lifecycle
<1>6. OpIsWellFormed' /\ CleanupIsAuthorised' /\ BodyIsAuthorised' /\ CandidateIsCurrent'
  BY <1>1, SameOp DEF memory
<1>. QED  BY <1>3, <1>4, <1>5, <1>6 DEF IndInv

LEMMA CancelPreserves == ASSUME IndInv, Cancel PROVE IndInv'
<1>1. /\ op.pc \in {"preflight", "write"} /\ ~Idle /\ op \in OpRecords
      /\ op' = [op EXCEPT !.cancelled = TRUE]
      /\ UNCHANGED <<leaseVars, timerVars, memory, disk, hw, now, lifecycle>>
  BY DEF Cancel, Idle, IndInv, TypeOK
<1>2. /\ op' \in OpRecords /\ op'.pc = op.pc /\ op'.done = op.done
      /\ op'.stage = op.stage /\ op'.kind = op.kind /\ op'.device = op.device
      /\ op'.owner = op.owner /\ op'.profile = op.profile /\ op'.mode = op.mode
      /\ op'.setting = op.setting /\ op'.candidate = op.candidate
  <2>1. op' \in OpRecords
    BY <1>1, CancelOpType
  <2>. QED  BY <1>1, <2>1 DEF OpRecords
<1>3. TypeOK'
  BY <1>1, <1>2 DEF IndInv, TypeOK, leaseVars, timerVars, memory, lifecycle
<1>4. LeaseHasSnapshot' /\ UserProfileSurvives' /\ UnleasedIsUser' /\ WatchdogArmed'
  BY <1>1 DEF IndInv, LeaseHasSnapshot, UserProfileSurvives, UnleasedIsUser, WatchdogArmed,
              Leased, Pending, Open, leaseVars, timerVars, memory, lifecycle
<1>5. ClearedIsIdle'
  BY <1>1 DEF IndInv, ClearedIsIdle, lifecycle
<1>6. Steps(op)' = Steps(op)
  BY <1>1, <1>2 DEF Steps, leaseVars
<1>7. OpIsWellFormed' /\ CleanupIsAuthorised' /\ BodyIsAuthorised' /\ CandidateIsCurrent'
  BY <1>1, <1>2, <1>6 DEF IndInv, OpIsWellFormed, CleanupIsAuthorised, BodyIsAuthorised,
     CandidateIsCurrent, Idle, Leased, Pending, FirstAcquire, leaseVars, memory
<1>. QED  BY <1>3, <1>4, <1>5, <1>7 DEF IndInv

LEMMA StartClosingPreserves == ASSUME IndInv, StartClosing PROVE IndInv'
<1>1. /\ phase = "open" /\ phase' = "closing"
      /\ UNCHANGED <<leaseVars, timerVars, memory, disk, hw, now, readOnly, boots, op>>
  BY DEF StartClosing, Open
<1>2. TypeOK'
  BY <1>1 DEF IndInv, TypeOK, leaseVars, timerVars, memory
<1>3. /\ LeaseHasSnapshot' /\ UserProfileSurvives' /\ UnleasedIsUser' /\ WatchdogArmed'
      /\ ClearedIsIdle'
  BY <1>1 DEF IndInv, LeaseHasSnapshot, UserProfileSurvives, UnleasedIsUser, WatchdogArmed,
              ClearedIsIdle, Leased, Pending, Open, leaseVars, memory
<1>4. OpIsWellFormed' /\ CleanupIsAuthorised' /\ BodyIsAuthorised' /\ CandidateIsCurrent'
  BY <1>1, SameOp DEF memory
<1>. QED  BY <1>2, <1>3, <1>4 DEF IndInv

LEMMA ClosePreserves == ASSUME IndInv, Close PROVE IndInv'
<1>1. /\ phase = "closing" /\ phase' = "closed" /\ timers' = [d \in Devices |-> Never]
      /\ UNCHANGED <<leaseVars, watchers, memory, disk, hw, now, readOnly, boots, op>>
  BY DEF Close
<1>2. TypeOK'
  BY <1>1 DEF IndInv, TypeOK, leaseVars, memory
<1>3. /\ LeaseHasSnapshot' /\ UserProfileSurvives' /\ UnleasedIsUser' /\ WatchdogArmed'
      /\ ClearedIsIdle'
  BY <1>1 DEF IndInv, LeaseHasSnapshot, UserProfileSurvives, UnleasedIsUser, WatchdogArmed,
              ClearedIsIdle, Leased, Pending, Open, leaseVars, memory
<1>4. OpIsWellFormed' /\ CleanupIsAuthorised' /\ BodyIsAuthorised' /\ CandidateIsCurrent'
  BY <1>1, SameOp DEF memory
<1>. QED  BY <1>2, <1>3, <1>4 DEF IndInv

LEMMA ForgetLeasesKeeps ==
    ASSUME ForgetLeases, NoCleanup \notin 0..5
    PROVE  /\ leases' \in [Devices -> LeaseRecords \cup {None}]
           /\ pre_remote' \in [Devices -> Snapshots \cup {None}]
           /\ cleanup' \in [Devices -> {NoCleanup} \cup 0..5]
           /\ \A d \in Devices : ~Leased(d)'
           /\ LeaseHasSnapshot' /\ WatchdogArmed'
BY DEF ForgetLeases, Leased, Pending, LeaseHasSnapshot, WatchdogArmed

LEMMA ClearLeasesPreserves == ASSUME IndInv, ClearLeases PROVE IndInv'
<1>1. /\ phase = "closed" /\ op.pc = "idle" /\ phase' = "cleared" /\ ForgetLeases
      /\ UNCHANGED <<timerVars, memory, disk, hw, now, readOnly, boots, op>>
  BY DEF ClearLeases, Idle
<1>2. /\ leases' \in [Devices -> LeaseRecords \cup {None}]
      /\ pre_remote' \in [Devices -> Snapshots \cup {None}]
      /\ cleanup' \in [Devices -> {NoCleanup} \cup 0..5]
      /\ \A d \in Devices : ~Leased(d)'
      /\ LeaseHasSnapshot' /\ WatchdogArmed'
  BY <1>1, ForgetLeasesKeeps DEF NoCleanup
<1>3. TypeOK'
  BY <1>1, <1>2 DEF IndInv, TypeOK, timerVars, memory
<1>4. UserProfileSurvives' /\ UnleasedIsUser' /\ ClearedIsIdle'
  BY <1>1, <1>2 DEF IndInv, UserProfileSurvives, UnleasedIsUser, ClearedIsIdle, Idle, Leased
<1>5. op' = NoOp
  BY <1>1 DEF IndInv, OpIsWellFormed, Idle
<1>. QED  BY <1>2, <1>3, <1>4, <1>5, IdleOp DEF IndInv

LEMMA RestartPreserves == ASSUME IndInv, Restart PROVE IndInv'
<1>1. /\ phase' = "open" /\ ForgetLeases /\ op' = NoOp /\ boots' = boots + 1
      /\ timers' = [d \in Devices |-> Never] /\ watchers' = [d \in Devices |-> 0]
      /\ UNCHANGED <<disk, hw, now>>
  BY DEF Restart, EndOp
<1>2. /\ leases' \in [Devices -> LeaseRecords \cup {None}]
      /\ pre_remote' \in [Devices -> Snapshots \cup {None}]
      /\ cleanup' \in [Devices -> {NoCleanup} \cup 0..5]
      /\ \A d \in Devices : ~Leased(d)'
      /\ LeaseHasSnapshot' /\ WatchdogArmed'
  BY <1>1, ForgetLeasesKeeps DEF NoCleanup
<1>3. /\ settings' \in [Devices -> UserProfiles \cup {None}]
      /\ modes' \in [Devices -> {"automatic", "manual"}]
      /\ last_targets' \in [Devices -> Targets] /\ readOnly' \in BOOLEAN
  <2>1. CASE Load
    <3>1. /\ disk.settings \in [Devices -> Profiles \cup {None}]
          /\ disk.modes \in [Devices -> Modes] /\ disk.last_targets \in [Devices -> Targets]
      BY DEF IndInv, TypeOK
    <3>2. disk.settings \in [Devices -> UserProfiles \cup {None}]
      BY <3>1 DEF IndInv, UserProfileSurvives
    <3>. QED  BY <2>1, <3>1, <3>2 DEF Load, Modes
  <2>2. CASE LoadFails
    BY <2>2 DEF LoadFails, Targets
  <2>. QED  BY <2>1, <2>2 DEF Restart
<1>4. TypeOK'
  BY <1>1, <1>2, <1>3, NoOpType DEF IndInv, TypeOK, Profiles, Modes
<1>5. UserProfileSurvives' /\ ClearedIsIdle'
  BY <1>1, <1>2 DEF IndInv, UserProfileSurvives, ClearedIsIdle, Leased
<1>6. UnleasedIsUser'
  BY <1>3, ConstantAssumption DEF UnleasedIsUser, Profiles
<1>. QED  BY <1>1, <1>2, <1>4, <1>5, <1>6, IdleOp DEF IndInv

(***************************************************************************)
(* The invariant is established and kept by every step.                     *)
(***************************************************************************)
LEMMA InitEstablishes == ASSUME Init PROVE IndInv
<1>1. TypeOK
  <2>1. hw \in [Devices -> Registers]
    BY DEF Init
  <2>2. disk = [settings |-> settings, modes |-> modes, last_targets |-> last_targets]
    BY DEF Init
  <2>3. /\ settings \in [Devices -> Profiles \cup {None}] /\ modes \in [Devices -> Modes]
        /\ last_targets \in [Devices -> Targets]
    BY DEF Init, Modes, Targets
  <2>4. disk \in [settings : [Devices -> Profiles \cup {None}],
                  modes : [Devices -> Modes], last_targets : [Devices -> Targets]]
    BY <2>2, <2>3
  <2>. QED  BY <2>1, <2>3, <2>4, NoOpType DEF Init, TypeOK
<1>2. OpIsWellFormed /\ CleanupIsAuthorised /\ BodyIsAuthorised /\ CandidateIsCurrent
  BY DEF Init, NoOp, Idle, OpIsWellFormed, CleanupIsAuthorised, BodyIsAuthorised,
         CandidateIsCurrent
<1>3. LeaseHasSnapshot /\ UserProfileSurvives /\ WatchdogArmed
  BY DEF Init, LeaseHasSnapshot, UserProfileSurvives, WatchdogArmed, Leased, Pending
<1>4. UnleasedIsUser /\ ClearedIsIdle
  BY ConstantAssumption DEF Init, UnleasedIsUser, ClearedIsIdle, Profiles
<1>. QED  BY <1>1, <1>2, <1>3, <1>4 DEF IndInv

LEMMA StutterPreserves == ASSUME IndInv, UNCHANGED vars PROVE IndInv'
<1>1. UNCHANGED <<leaseVars, timerVars, memory, disk, hw, now, lifecycle, op>>
  BY DEF vars
<1>2. TypeOK'
  BY <1>1 DEF IndInv, TypeOK, leaseVars, timerVars, memory, lifecycle
<1>3. /\ LeaseHasSnapshot' /\ UserProfileSurvives' /\ UnleasedIsUser' /\ WatchdogArmed'
      /\ ClearedIsIdle'
  BY <1>1 DEF IndInv, LeaseHasSnapshot, UserProfileSurvives, UnleasedIsUser, WatchdogArmed,
     ClearedIsIdle, Idle, Leased, Pending, Open, leaseVars, timerVars, memory, lifecycle
<1>4. OpIsWellFormed' /\ CleanupIsAuthorised' /\ BodyIsAuthorised' /\ CandidateIsCurrent'
  BY <1>1, SameOp DEF memory
<1>. QED  BY <1>2, <1>3, <1>4 DEF IndInv

LEMMA RequestsPreserve ==
    ASSUME IndInv, NEW d \in Devices, Requests(d)
    PROVE  IndInv'
<1>1. ASSUME NEW p \in UserProfiles \cup {None}, NEW m \in ModeRequests, Change(d, p, m)
      PROVE  IndInv'
  BY <1>1, ChangePreserves
<1>2. ASSUME NEW s \in PolicySettings, WritePolicySetting(d, s)
      PROVE  IndInv'
  BY <1>2, WritePolicySettingPreserves
<1>3. ASSUME NEW o \in Owners, NEW p \in RemoteProfiles \cup {None}, Acquire(d, o, p)
      PROVE  IndInv'
  BY <1>3, AcquirePreserves
<1>4. ASSUME NEW o \in Owners, NEW p \in RemoteProfiles, Update(d, o, p)
      PROVE  IndInv'
  BY <1>4, UpdatePreserves
<1>5. ASSUME NEW o \in Owners, NEW s \in PolicySettings, RemoteSetting(d, o, s)
      PROVE  IndInv'
  BY <1>5, RemoteSettingPreserves
<1>6. ASSUME NEW o \in Owners, Heartbeat(d, o) \/ Release(d, o)
      PROVE  IndInv'
  BY <1>6, HeartbeatPreserves, ReleasePreserves
<1>. QED  BY <1>1, <1>2, <1>3, <1>4, <1>5, <1>6 DEF Requests

LEMMA RunningPreserves == ASSUME IndInv, Running PROVE IndInv'
<1>1. ASSUME PreflightFails \/ RefreshFails \/ SaveFails PROVE IndInv'
  <2>1. EndOp /\ UNCHANGED <<leaseVars, timerVars, memory, disk, hw, now, lifecycle>>
    BY <1>1 DEF PreflightFails, RefreshFails, SaveFails
  <2>. QED  BY <2>1, EndOpPreserves
<1>. QED  BY <1>1, PreflightPassesPreserves, StepVerifiedPreserves, StepFailsPreserves,
             RefreshCleanupPreserves, RefreshBodyPreserves, SavePreserves,
             ConfirmCleanupPreserves, ConfirmBodyPreserves DEF Running

LEMMA NextPreserves == ASSUME IndInv, [Next]_vars PROVE IndInv'
<1>1. ASSUME NEW d \in Devices,
             Requests(d) \/ TimerFires(d) \/ Watchdog(d) \/ LowLevelWrite(d)
      PROVE  IndInv'
  BY <1>1, RequestsPreserve, TimerFiresPreserves, WatchdogPreserves, LowLevelWritePreserves
<1>2. CASE Running
  BY <1>2, RunningPreserves
<1>3. CASE Tick \/ Cancel
  BY <1>3, TickPreserves, CancelPreserves
<1>4. CASE Abandon
  <2>1. EndOp /\ UNCHANGED <<leaseVars, timerVars, memory, disk, hw, now, lifecycle>>
    BY <1>4 DEF Abandon
  <2>. QED  BY <2>1, EndOpPreserves
<1>5. CASE StartClosing \/ Close \/ ClearLeases
  BY <1>5, StartClosingPreserves, ClosePreserves, ClearLeasesPreserves
<1>6. CASE Restart
  BY <1>6, RestartPreserves
<1>7. CASE UNCHANGED vars
  BY <1>7, StutterPreserves
<1>. QED  BY <1>1, <1>2, <1>3, <1>4, <1>5, <1>6, <1>7 DEF Next

\* Every reachable state satisfies the inductive invariant: the types, what is
\* known of the suspended operation, and the invariants below.
THEOREM Invariance == Spec => []IndInv
<1>1. Init => IndInv
  BY InitEstablishes
<1>2. IndInv /\ [Next]_vars => IndInv'
  BY NextPreserves
<1>. QED  BY <1>1, <1>2, PTL DEF Spec

\* Every variable of storage control keeps its type.
THEOREM TypeCorrect == Spec => []TypeOK
<1>1. IndInv => TypeOK
  BY DEF IndInv
<1>. QED  BY <1>1, Invariance, PTL

\* A lease always has the snapshot its cleanup gives back; no snapshot and no
\* pending cleanup outlives its lease.
THEOREM LeaseHasSnapshotAlways == Spec => []LeaseHasSnapshot
<1>1. IndInv => LeaseHasSnapshot
  BY DEF IndInv
<1>. QED  BY <1>1, Invariance, PTL

\* The storage file never holds a remote profile; for a leased device it holds
\* the profile its release gives back.
THEOREM UserProfileSurvivesAlways == Spec => []UserProfileSurvives
<1>1. IndInv => UserProfileSurvives
  BY DEF IndInv
<1>. QED  BY <1>1, Invariance, PTL

\* While the entry is open, only a leased device has a remote mode or profile.
THEOREM RemoteStateIsOwnedAlways == Spec => []RemoteStateIsOwned
<1>1. IndInv => RemoteStateIsOwned
  BY DEF IndInv, UnleasedIsUser, RemoteStateIsOwned, Open
<1>. QED  BY <1>1, Invariance, PTL

\* Dead-man switch: a lease that is not being cleaned up has a timer no later
\* than its deadline or a watchdog task in the queue.
THEOREM WatchdogArmedAlways == Spec => []WatchdogArmed
<1>1. IndInv => WatchdogArmed
  BY DEF IndInv
<1>. QED  BY <1>1, Invariance, PTL

=============================================================================
