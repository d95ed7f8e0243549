-------------------------- MODULE MeasurementProofs --------------------------
(***************************************************************************)
(* The rules of communication health, of the slow deadlines and of what     *)
(* readings are shown hold for every number of devices, every set of models,*)
(* every option and bound.                                                  *)
(***************************************************************************)
EXTENDS MeasurementProperties, TLAPS

(***************************************************************************)
(* Types of what the actions put together.                                  *)
(***************************************************************************)

LEMMA DevicesType == Devices \subseteq Nat /\ 1 \in Devices /\ NDevices \in Devices
  BY ConstantAssumption DEF Devices

LEMMA NoPayloadsType == NoPayloads \in Payloads
  BY DEF NoPayloads, Payloads

LEMMA OfflineType == Offline \in DeviceSnapshots
  BY NoPayloadsType DEF Offline, DeviceSnapshots

LEMMA NoPollType ==
  ASSUME NEW n \in Nat
  PROVE  NoPoll(n) \in Polls
<1>1. [d \in Devices |-> Offline] \in [Devices -> DeviceSnapshots]
  BY OfflineType
<1>2. 1 \in Devices
  BY DevicesType
<1> QED
  BY <1>1, <1>2, NoPayloadsType, ZenonT(60) DEF NoPoll, Polls

LEMMA StartPollType ==
  ASSUME NEW p \in Polls, NEW f \in BOOLEAN
  PROVE  [p EXCEPT !.pc = "device", !.force = f] \in Polls
  BY ZenonT(60) DEF Polls

LEMMA PcType ==
  ASSUME NEW p \in Polls, NEW pc \in {"retain", "health", "answer"}
  PROVE  [p EXCEPT !.pc = pc] \in Polls
  BY ZenonT(60) DEF Polls

LEMMA BeginType ==
  ASSUME NEW p \in Polls, NEW pc \in {"discover", "read"}, NEW started \in Nat,
         NEW full \in BOOLEAN, NEW layout \in Layouts \cup {None},
         NEW todo \in SUBSET Models
  PROVE  [p EXCEPT !.pc = pc, !.started = started, !.full = full, !.layout = layout,
                   !.todo = todo, !.reads = NoPayloads] \in Polls
  BY NoPayloadsType, ZenonT(60) DEF Polls

LEMMA DiscoverType ==
  ASSUME NEW p \in Polls, NEW pc \in {"read", "failed"},
         NEW layout \in Layouts \cup {None}, NEW todo \in SUBSET Models,
         NEW validated \in SUBSET Devices, NEW incompatible \in SUBSET Devices
  PROVE  [p EXCEPT !.pc = pc, !.layout = layout, !.todo = todo,
                   !.validated = validated, !.incompatible = incompatible] \in Polls
  BY ZenonT(60) DEF Polls

LEMMA ReadType ==
  ASSUME NEW p \in Polls, NEW todo \in SUBSET Models, NEW m \in Models, NEW s \in Snapshots
  PROVE  [p EXCEPT !.todo = todo, !.reads[m] = s] \in Polls
<1>1. [p.reads EXCEPT ![m] = s] \in Payloads
  BY DEF Polls, Payloads
<1> QED
  BY <1>1, ZenonT(60) DEF Polls

LEMMA EndType ==
  ASSUME NEW p \in Polls, NEW pc \in {"epochs", "device"}, NEW device \in Devices,
         NEW result \in [Devices -> DeviceSnapshots]
  PROVE  [p EXCEPT !.pc = pc, !.device = device, !.started = 0, !.full = FALSE,
                   !.layout = None, !.reads = NoPayloads, !.result = result] \in Polls
  BY NoPayloadsType, ZenonT(60) DEF Polls

LEMMA PollFields ==
  ASSUME NEW p \in Polls
  PROVE  /\ p.n \in Nat /\ p.force \in BOOLEAN /\ p.device \in Devices
         /\ p.started \in Nat /\ p.layout \in Layouts \cup {None}
         /\ p.todo \subseteq Models /\ p.reads \in Payloads
         /\ p.result \in [Devices -> DeviceSnapshots]
         /\ p.incompatible \subseteq Devices /\ p.validated \subseteq Devices
  BY DEF Polls

LEMMA CachedType ==
  ASSUME TypeOK, NEW d \in Devices, NEW layout
  PROVE  Cached(d, layout) \in Payloads
  BY NoPayloadsType DEF TypeOK, Cached, DeviceSnapshots

LEMMA AssembledType ==
  ASSUME TypeOK, NEW d \in Devices
  PROVE  Assembled(d) \in DeviceSnapshots
<1>1. poll.layout \in Layouts \cup {None} /\ poll.reads \in Payloads
  BY PollFields DEF TypeOK
<1>2. data[d].available \in BOOLEAN
  BY DEF TypeOK, DeviceSnapshots
<1>3. Cached(d, poll.layout) \in Payloads
  BY CachedType
<1>4. Readable(poll.reads) \in BOOLEAN
  BY DEF Readable
<1> DEFINE cached == Cached(d, poll.layout)
           read == {m \in Models : poll.reads[m] # None}
           models == [m \in Models |-> IF m \in read THEN poll.reads[m] ELSE cached[m]]
           available == IF read # {} THEN Readable(poll.reads) ELSE data[d].available
<1>5. models \in Payloads
  BY <1>1, <1>3 DEF Payloads
<1>6. available \in BOOLEAN
  BY <1>2, <1>4
<1>7. Assembled(d) = [layout |-> poll.layout, models |-> models, available |-> available]
  BY DEF Assembled
<1> HIDE DEF models, available
<1> QED
  BY <1>1, <1>5, <1>6, <1>7 DEF DeviceSnapshots

LEMMA KeptType ==
  ASSUME TypeOK, NEW d \in Devices, NEW m \in Models
  PROVE  Kept(d, m) \in Snapshots \cup {None}
<1>1. /\ poll.result[d].models[m] \in Snapshots \cup {None}
      /\ retained[d].models[m] \in Snapshots \cup {None}
      /\ poll.n \in Nat
  BY PollFields DEF TypeOK, DeviceSnapshots, Payloads
<1>2. Blank \in Snapshots
  BY <1>1 DEF Blank, Snapshots
<1> QED
  BY <1>1, <1>2 DEF Kept

LEMMA RetainedType ==
  ASSUME TypeOK, NEW d \in Devices
  PROVE  Retained(d) \in DeviceSnapshots
<1> DEFINE kept == [m \in Models |-> Kept(d, m)]
<1>1. kept \in Payloads
  BY KeptType DEF Payloads
<1>2. poll.result[d].layout \in Layouts \cup {None} /\ retained[d] \in DeviceSnapshots
  BY PollFields DEF TypeOK, DeviceSnapshots
<1>3. Readable(kept) \in BOOLEAN
  BY DEF Readable
<1>4. Retained(d) \in {Offline, retained[d],
         [layout |-> poll.result[d].layout, models |-> kept, available |-> Readable(kept)]}
  BY DEF Retained
<1> HIDE DEF kept
<1> QED
  BY <1>1, <1>2, <1>3, <1>4, OfflineType DEF DeviceSnapshots

LEMMA ResetType == Reset \in [Devices -> Layouts \cup {None}]
  BY DEF Reset

(* What Observe leaves of the types; the rest of an exchange is its caller's. *)
LEMMA ObserveType ==
  ASSUME TypeOK, NEW d \in Devices, NEW outcomes \in SUBSET Outcomes,
         NEW outcome \in Possible(outcomes), Observe(d, outcome)
  PROVE  /\ failing' \in [Devices -> Nat \cup {None}]
         /\ budget' \in Budgets
         /\ responded' \subseteq Devices /\ heard' \subseteq Devices
         /\ answered' \in [Devices -> Nat]
<1>1. Since(d, outcome) \in Nat \cup {None}
  BY DEF TypeOK, Since
<1>2. failing' \in [Devices -> Nat \cup {None}]
  BY <1>1 DEF Observe, TypeOK
<1>3. budget' \in Budgets
  <2>1. CASE outcome = "ok"
    BY <2>1 DEF Observe, Spend, TypeOK
  <2>2. CASE outcome # "ok"
    <3>1. budget.faults > 0 /\ budget \in Budgets
      BY <2>2 DEF Possible, TypeOK
    <3>2. budget.faults - 1 \in Nat
      BY <3>1 DEF Budgets
    <3>3. budget' = [budget EXCEPT !.faults = budget.faults - 1]
      BY <2>2 DEF Observe, Spend
    <3> QED
      BY <3>1, <3>2, <3>3 DEF Budgets
  <2> QED
    BY <2>1, <2>2
<1>4. responded' \subseteq Devices /\ heard' \subseteq Devices /\ answered' \in [Devices -> Nat]
  BY DEF Observe, TypeOK
<1> QED
  BY <1>2, <1>3, <1>4

LEMMA NextSlowType ==
  ASSUME TypeOK, NEW d \in Devices
  PROVE  NextSlow(d) \in Nat
<1>1. poll.started \in Nat /\ deadlines[d] \in Nat \cup {None} /\ SlowPeriod \in Nat \ {0}
  BY PollFields, ConstantAssumption DEF TypeOK
<1> DEFINE deadline == IF deadlines[d] = None THEN poll.started ELSE deadlines[d]
           passed == (poll.started - deadline) \div SlowPeriod
<1>2. deadline \in Nat
  BY <1>1
<1>3. ASSUME poll.started >= deadline  PROVE passed \in Nat
  BY <1>1, <1>2, <1>3
<1>4. NextSlow(d) = IF poll.started >= deadline
                      THEN deadline + (passed + 1) * SlowPeriod ELSE deadline
  BY DEF NextSlow
<1> HIDE DEF deadline, passed
<1> QED
  BY <1>1, <1>2, <1>3, <1>4

(***************************************************************************)
(* The type invariant.                                                      *)
(***************************************************************************)

LEMMA InitType == Init => TypeOK
<1> SUFFICES ASSUME Init  PROVE TypeOK
  OBVIOUS
<1>1. poll \in Polls
  BY NoPollType DEF Init
<1>2. /\ data \in [Devices -> DeviceSnapshots] /\ retained \in [Devices -> DeviceSnapshots]
      /\ sources \in [Devices -> Payloads]
  BY OfflineType, NoPayloadsType DEF Init
<1>3. budget \in Budgets
  BY ConstantAssumption DEF Init, Budgets
<1> QED
  BY <1>1, <1>2, <1>3, ConstantAssumption DEF Init, TypeOK

LEMMA StartPollKeepsType == TypeOK /\ StartPoll => TypeOK'
<1> SUFFICES ASSUME TypeOK, StartPoll  PROVE TypeOK'
  OBVIOUS
<1>1. poll.n + 1 \in Nat /\ force \in BOOLEAN
  BY PollFields DEF TypeOK
<1>2. poll' \in Polls
  BY <1>1, NoPollType, StartPollType DEF StartPoll
<1> QED
  BY <1>2 DEF StartPoll, TypeOK, results, health, outside, history

LEMMA BeginDeviceKeepsType == TypeOK /\ BeginDevice => TypeOK'
<1> SUFFICES ASSUME TypeOK, BeginDevice  PROVE TypeOK'
  OBVIOUS
<1> DEFINE d == poll.device
<1>1. d \in Devices /\ poll \in Polls /\ poll.force \in BOOLEAN
  BY PollFields DEF TypeOK
<1>2. PICK rediscover \in {live[d] = None, TRUE} :
         /\ slow_publication' = slow_publication \cup {x \in {d} : SlowDue(x)}
         /\ poll' = [poll EXCEPT
                !.pc = IF rediscover THEN "discover" ELSE "read",
                !.started = now, !.full = poll.force \/ rediscover \/ SlowDue(d),
                !.layout = IF rediscover THEN None ELSE live[d],
                !.todo = IF rediscover THEN {}
                         ELSE Selected(d, live[d], poll.force \/ rediscover \/ SlowDue(d)),
                !.reads = NoPayloads]
  BY DEF BeginDevice
<1>3. live[d] \in Layouts \cup {None} /\ now \in Nat
  BY <1>1 DEF TypeOK
<1>4. Selected(d, live[d], poll.force \/ rediscover \/ SlowDue(d)) \subseteq Models
  BY DEF Selected
<1>5. (poll.force \/ rediscover \/ SlowDue(d)) \in BOOLEAN
  OBVIOUS
<1> HIDE DEF d
<1>6. poll' \in Polls
  <2> DEFINE full == poll.force \/ rediscover \/ SlowDue(d)
             pc == IF rediscover THEN "discover" ELSE "read"
             layout == IF rediscover THEN None ELSE live[d]
             todo == IF rediscover THEN {} ELSE Selected(d, live[d], full)
  <2>1. /\ pc \in {"discover", "read"} /\ full \in BOOLEAN
        /\ layout \in Layouts \cup {None} /\ todo \in SUBSET Models
    BY <1>3, <1>4, <1>5
  <2>2. poll' = [poll EXCEPT !.pc = pc, !.started = now, !.full = full, !.layout = layout,
                            !.todo = todo, !.reads = NoPayloads]
    BY <1>2
  <2> HIDE DEF full, pc, layout, todo
  <2> QED
    BY <1>1, <1>3, <2>1, <2>2, BeginType
<1>7. slow_publication' \subseteq Devices
  BY <1>1, <1>2 DEF TypeOK
<1>8. /\ UNCHANGED <<force, live, deadlines, data, retained, epochs>>
      /\ UNCHANGED <<failing, responded, expired, revisions, sources>>
      /\ UNCHANGED <<timeout, now, unit, budget>>
      /\ UNCHANGED <<answered, heard, silent, expired_at, proven_at, requested, published>>
  BY DEF BeginDevice, results, health, outside, history
<1> QED
  BY <1>6, <1>7, <1>8 DEF TypeOK

LEMMA DiscoverKeepsType == TypeOK /\ Discover => TypeOK'
<1> SUFFICES ASSUME TypeOK, Discover  PROVE TypeOK'
  OBVIOUS
<1> DEFINE d == poll.device
<1>1. d \in Devices /\ poll \in Polls
  BY PollFields DEF TypeOK
<1>2. PICK outcome \in Possible(Outcomes \ {"invalid"}) :
         LET found == IF outcome = "ok" THEN unit[d].layout ELSE None
             done == outcome \in {"ok", "empty"}
         IN  /\ Observe(d, outcome)
             /\ live' = IF outcome \in Unanswered THEN Reset
                        ELSE [live EXCEPT ![d] = found]
             /\ poll' = [poll EXCEPT
                   !.pc = IF done THEN "read" ELSE "failed",
                   !.layout = found,
                   !.todo = IF found # None THEN Models ELSE {},
                   !.validated = IF done THEN poll.validated \cup {d} ELSE poll.validated,
                   !.incompatible = IF outcome = "incompatible"
                                      THEN poll.incompatible \cup {d} ELSE poll.incompatible]
  BY DEF Discover
<1> DEFINE found == IF outcome = "ok" THEN unit[d].layout ELSE None
<1>3. found \in Layouts \cup {None}
  BY <1>1 DEF TypeOK, Units
<1>4. live' \in [Devices -> Layouts \cup {None}]
  BY <1>1, <1>2, <1>3, ResetType DEF TypeOK
<1>5. poll.validated \cup {d} \in SUBSET Devices /\ poll.incompatible \cup {d} \in SUBSET Devices
      /\ poll.validated \in SUBSET Devices /\ poll.incompatible \in SUBSET Devices
  BY <1>1, PollFields
<1> HIDE DEF d, found
<1>6. poll' \in Polls
  <2> DEFINE pc == IF outcome \in {"ok", "empty"} THEN "read" ELSE "failed"
             todo == IF found # None THEN Models ELSE {}
             validated == IF outcome \in {"ok", "empty"} THEN poll.validated \cup {d}
                                                         ELSE poll.validated
             incompatible == IF outcome = "incompatible" THEN poll.incompatible \cup {d}
                                                         ELSE poll.incompatible
  <2>1. /\ pc \in {"read", "failed"} /\ todo \in SUBSET Models
        /\ validated \in SUBSET Devices /\ incompatible \in SUBSET Devices
    BY <1>5
  <2>2. poll' = [poll EXCEPT !.pc = pc, !.layout = found, !.todo = todo,
                            !.validated = validated, !.incompatible = incompatible]
    BY <1>2 DEF found
  <2> HIDE DEF pc, todo, validated, incompatible
  <2> QED
    BY <1>1, <1>3, <2>1, <2>2, DiscoverType
<1>7. /\ failing' \in [Devices -> Nat \cup {None}] /\ budget' \in Budgets
      /\ responded' \subseteq Devices /\ heard' \subseteq Devices
      /\ answered' \in [Devices -> Nat]
  BY <1>1, <1>2, ObserveType
<1>8. /\ UNCHANGED <<force, deadlines, slow_publication, data, retained, epochs>>
      /\ UNCHANGED <<expired, revisions, sources, timeout, now, unit>>
      /\ UNCHANGED <<silent, expired_at, proven_at, requested, published>>
  BY DEF Discover, results
<1> QED
  BY <1>4, <1>6, <1>7, <1>8 DEF TypeOK

LEMMA ReadModelKeepsType == TypeOK /\ ReadModel => TypeOK'
<1> SUFFICES ASSUME TypeOK, ReadModel  PROVE TypeOK'
  OBVIOUS
<1> DEFINE d == poll.device
           S(o) == [at |-> poll.n, of |-> IF o = "ok" THEN unit[d] ELSE None,
                    ok |-> IF o \in Unanswered THEN "failed" ELSE o]
<1>1. d \in Devices /\ poll \in Polls /\ poll.n \in Nat /\ poll.todo \subseteq Models
      /\ poll.reads \in Payloads
  BY PollFields DEF TypeOK
<1>2. PICK m \in poll.todo, outcome \in Possible({"ok", "failed", "partial", "invalid"}) :
         /\ Observe(d, outcome)
         /\ live' = IF outcome \in Unanswered THEN Reset ELSE live
         /\ poll' = [poll EXCEPT !.todo = poll.todo \ {m},
                                 !.reads[m] = S(outcome)]
  BY DEF ReadModel
<1>3. S(outcome) \in Snapshots
  <2>1. outcome \in {"ok", "failed", "partial", "invalid"}
    BY <1>2 DEF Possible
  <2>2. unit[d] \in Units
    BY <1>1 DEF TypeOK
  <2> QED
    BY <1>1, <2>1, <2>2 DEF Snapshots, Unanswered
<1>5. poll.todo \ {m} \in SUBSET Models /\ m \in Models
  BY <1>1
<1> HIDE DEF d, S
<1>6. poll' \in Polls
  <2> DEFINE todo == poll.todo \ {m}
             s == S(outcome)
  <2>1. todo \in SUBSET Models /\ s \in Snapshots
    BY <1>3, <1>5
  <2>2. poll' = [poll EXCEPT !.todo = todo, !.reads[m] = s]
    BY <1>2
  <2> HIDE DEF todo, s
  <2> QED
    BY <1>1, <1>5, <2>1, <2>2, ReadType
<1>7. live' \in [Devices -> Layouts \cup {None}]
  BY <1>2, ResetType DEF TypeOK
<1>8. {"ok", "failed", "partial", "invalid"} \subseteq Outcomes
  BY DEF Outcomes
<1>9. /\ failing' \in [Devices -> Nat \cup {None}] /\ budget' \in Budgets
      /\ responded' \subseteq Devices /\ heard' \subseteq Devices
      /\ answered' \in [Devices -> Nat]
  BY <1>1, <1>2, <1>8, ObserveType
<1>10. /\ UNCHANGED <<force, deadlines, slow_publication, data, retained, epochs>>
       /\ UNCHANGED <<expired, revisions, sources, timeout, now, unit>>
       /\ UNCHANGED <<silent, expired_at, proven_at, requested, published>>
  BY DEF ReadModel, results
<1> QED
  BY <1>6, <1>7, <1>9, <1>10 DEF TypeOK

(* The devices of an endpoint take turns.                                     *)
LEMMA NextDeviceType ==
  ASSUME NEW d \in Devices
  PROVE  NextDevice(d) \in Devices
<1>1. NDevices \in Nat /\ NDevices >= 1
  BY ConstantAssumption
<1>2. d \in Nat /\ 1 <= d /\ d <= NDevices
  BY <1>1 DEF Devices
<1>3. CASE d = NDevices
  BY <1>1, <1>3 DEF NextDevice, Devices
<1>4. CASE d # NDevices
  <2>1. d + 1 \in Nat /\ 1 <= d + 1 /\ d + 1 <= NDevices
    BY <1>1, <1>2, <1>4
  <2> QED
    BY <1>4, <2>1 DEF NextDevice, Devices
<1> QED
  BY <1>3, <1>4

LEMMA EndDeviceKeepsType == TypeOK /\ EndDevice => TypeOK'
<1> SUFFICES ASSUME TypeOK, EndDevice  PROVE TypeOK'
  OBVIOUS
<1> DEFINE d == poll.device
           snapshot == IF poll.pc = "failed" THEN Offline ELSE Assembled(d)
<1>1. d \in Devices /\ poll \in Polls /\ poll.result \in [Devices -> DeviceSnapshots]
  BY PollFields DEF TypeOK
<1>2. snapshot \in DeviceSnapshots
  BY <1>1, OfflineType, AssembledType
<1>3. NextDevice(d) \in Devices
  BY <1>1, NextDeviceType
<1>4. [poll.result EXCEPT ![d] = snapshot] \in [Devices -> DeviceSnapshots]
  <2> HIDE DEF snapshot
  <2> QED
    BY <1>1, <1>2
<1>5. /\ poll' = [poll EXCEPT
             !.pc = IF d = NDevices THEN "epochs" ELSE "device",
             !.device = NextDevice(d),
             !.started = 0, !.full = FALSE, !.layout = None, !.reads = NoPayloads,
             !.result = [poll.result EXCEPT ![d] = snapshot]]
      /\ live' \in {live, [live EXCEPT ![d] = None]}
      /\ deadlines' = [deadlines EXCEPT ![d] = NextSlow(d)]
      /\ silent' = [silent EXCEPT ![d] = IF d \in responded THEN None
                                         ELSE IF silent[d] = None THEN now ELSE silent[d]]
  BY DEF EndDevice
<1> HIDE DEF d, snapshot
<1>6. poll' \in Polls
  BY <1>1, <1>3, <1>4, <1>5, EndType
<1>7. live' \in [Devices -> Layouts \cup {None}]
  BY <1>5 DEF TypeOK
<1>8. deadlines' \in [Devices -> Nat \cup {None}]
  BY <1>1, <1>5, NextSlowType DEF TypeOK
<1>9. silent' \in [Devices -> Nat \cup {None}]
  BY <1>1, <1>5 DEF TypeOK
<1> QED
  BY <1>6, <1>7, <1>8, <1>9 DEF EndDevice, TypeOK, results, health, outside

LEMMA RetentionKeepsType == TypeOK /\ (BumpEpochs \/ Retain) => TypeOK'
<1>1. ASSUME TypeOK, BumpEpochs  PROVE TypeOK'
  <2>1. poll \in Polls /\ poll.n \in Nat
    BY <1>1, PollFields DEF TypeOK
  <2>2. poll' \in Polls
    BY <1>1, <2>1, PcType DEF BumpEpochs
  <2>3. epochs' \in [Devices -> Nat] /\ proven_at' \in [Devices -> Nat]
    BY <1>1, <2>1 DEF BumpEpochs, TypeOK
  <2> QED
    BY <1>1, <2>2, <2>3 DEF BumpEpochs, TypeOK, reading, health, outside
<1>2. ASSUME TypeOK, Retain  PROVE TypeOK'
  <2>1. poll' \in Polls
    BY <1>2, PcType DEF Retain, TypeOK
  <2>2. retained' \in [Devices -> DeviceSnapshots]
    BY <1>2, RetainedType DEF Retain
  <2> QED
    BY <1>2, <2>1, <2>2 DEF Retain, TypeOK, reading, health, outside, history
<1> QED
  BY <1>1, <1>2

LEMMA UpdateHealthKeepsType == TypeOK /\ UpdateHealth => TypeOK'
<1> SUFFICES ASSUME TypeOK, UpdateHealth  PROVE TypeOK'
  OBVIOUS
<1>1. poll' \in Polls /\ poll.n \in Nat
  BY PcType, PollFields DEF UpdateHealth, TypeOK
<1>2. \A d \in Devices : Suppressed(d) \in Payloads
  BY DEF Suppressed, TypeOK, DeviceSnapshots
<1>3. expired' \subseteq Devices /\ heard' \subseteq Devices /\ responded' \subseteq Devices
  BY DEF UpdateHealth, TypeOK
<1>4. revisions' \in [Devices -> Nat] /\ expired_at' \in [Devices -> Nat]
  BY <1>1 DEF UpdateHealth, TypeOK
<1>5. sources' \in [Devices -> Payloads]
  BY <1>2 DEF UpdateHealth, TypeOK
<1> QED
  BY <1>1, <1>3, <1>4, <1>5 DEF UpdateHealth, TypeOK, reading, results, outside

LEMMA EndKeepsType == TypeOK /\ (Publish \/ Abandon) => TypeOK'
<1> SUFFICES ASSUME TypeOK, Publish \/ Abandon  PROVE TypeOK'
  OBVIOUS
<1>1. poll.n \in Nat /\ poll.result \in [Devices -> DeviceSnapshots]
  BY PollFields DEF TypeOK
<1>2. poll' \in Polls
  BY <1>1, NoPollType DEF Publish, Abandon
<1>3. CASE Publish
  BY <1>1, <1>2, <1>3 DEF Publish, Adopted, TypeOK, reading, health, outside
<1>4. CASE Abandon
  <2>1. budget' \in Budgets
    BY <1>4 DEF Abandon, TypeOK, Budgets
  <2> QED
    BY <1>2, <1>4, <2>1 DEF Abandon, TypeOK, reading, results, health, history
<1> QED
  BY <1>3, <1>4

LEMMA OutsideKeepsType == TypeOK /\ Outside => TypeOK'
<1>1. ASSUME TypeOK, RequestRefresh  PROVE TypeOK'
  <2>1. budget' \in Budgets /\ requested' \in Nat
    BY <1>1, PollFields DEF RequestRefresh, TypeOK, Budgets
  <2> QED
    BY <1>1, <2>1 DEF RequestRefresh, TypeOK, results, health
<1>2. ASSUME TypeOK, SetTimeout  PROVE TypeOK'
  BY <1>2 DEF SetTimeout, TypeOK, reading, results, health, history
<1>3. ASSUME TypeOK, Tick  PROVE TypeOK'
  BY <1>3 DEF Tick, TypeOK, reading, results, health, history
<1>4. ASSUME TypeOK, NEW d \in Devices, Replace(d)  PROVE TypeOK'
  <2>1. budget' \in Budgets
    BY <1>4 DEF Replace, TypeOK, Budgets
  <2>2. live' \in [Devices -> Layouts \cup {None}]
    BY <1>4, ResetType DEF Replace, TypeOK
  <2> QED
    BY <1>4, <2>1, <2>2 DEF Replace, TypeOK, results, health, history
<1> QED
  BY <1>1, <1>2, <1>3, <1>4 DEF Outside

LEMMA StutteringKeepsType == TypeOK /\ UNCHANGED vars => TypeOK'
  BY DEF vars, TypeOK, reading, results, health, outside, history

(* The state keeps its type.                                                  *)
THEOREM TypeCorrect == Spec => []TypeOK
<1>1. TypeOK /\ [Next]_vars => TypeOK'
  BY StartPollKeepsType, BeginDeviceKeepsType, DiscoverKeepsType, ReadModelKeepsType,
     EndDeviceKeepsType, RetentionKeepsType, UpdateHealthKeepsType, EndKeepsType,
     OutsideKeepsType, StutteringKeepsType, Zenon
  DEF Next, Worker
<1> QED
  BY InitType, <1>1, PTL DEF Spec

(***************************************************************************)
(* Communication health.                                                    *)
(***************************************************************************)

(* A failure interval begins after the last answer; a device that answered    *)
(* in this poll has been heard since it expired.                              *)
HealthInv ==
    /\ \A d \in Devices : answered[d] <= now
    /\ \A d \in Devices : failing[d] # None => answered[d] <= failing[d] /\ failing[d] <= now
    /\ responded \cap expired \subseteq heard

LEMMA ObserveKeepsHealth ==
  ASSUME TypeOK, HealthInv, NEW d \in Devices, NEW outcome, Observe(d, outcome),
         UNCHANGED <<now, expired>>
  PROVE  HealthInv'
<1>1. answered' \in [Devices -> Nat] /\ now \in Nat
  BY DEF Observe, TypeOK
<1>2. ASSUME NEW x \in Devices  PROVE answered'[x] <= now'
  <2>1. answered'[x] \in {answered[x], now} /\ now' = now
    BY DEF Observe, TypeOK
  <2>2. answered[x] <= now /\ now <= now
    BY <1>1 DEF HealthInv
  <2> QED
    BY <2>1, <2>2
<1>3. ASSUME NEW x \in Devices, failing'[x] # None
      PROVE  answered'[x] <= failing'[x] /\ failing'[x] <= now'
  <2>1. CASE x # d
    <3>1. failing'[x] = failing[x] /\ answered'[x] = answered[x] /\ now' = now
      BY <2>1 DEF Observe, TypeOK
    <3> QED
      BY <1>3, <3>1 DEF HealthInv
  <2>2. CASE x = d
    <3>1. failing'[d] = Since(d, outcome) /\ now' = now
      BY DEF Observe, TypeOK
    <3>2. CASE outcome = "partial" \/ (failing[d] = None /\ outcome = "failed")
      <4>1. failing'[d] = now
        BY <3>1, <3>2 DEF Since, Unanswered
      <4> QED
        BY <1>1, <1>2, <2>2, <3>1, <4>1
    <3>3. CASE failing[d] # None /\ outcome = "failed"
      <4>1. failing'[d] = failing[d]
        BY <3>1, <3>3 DEF Since, Unanswered
      <4>2. answered' = answered
        BY <3>3 DEF Observe, Answering
      <4> QED
        BY <2>2, <3>1, <3>3, <4>1, <4>2 DEF HealthInv
    <3>4. CASE outcome \notin {"failed", "partial"}
      BY <1>3, <2>2, <3>1, <3>4 DEF Since, Unanswered
    <3> QED
      BY <3>2, <3>3, <3>4
  <2> QED
    BY <2>1, <2>2
<1>4. (responded \cap expired)' \subseteq heard'
  BY DEF Observe, HealthInv
<1> QED
  BY <1>2, <1>3, <1>4 DEF HealthInv

LEMMA UpdateHealthKeepsHealth == TypeOK /\ HealthInv /\ UpdateHealth => HealthInv'
<1> SUFFICES ASSUME HealthInv, UpdateHealth  PROVE HealthInv'
  OBVIOUS
<1>1. responded' = {} /\ UNCHANGED <<answered, failing, now>>
  BY DEF UpdateHealth, outside
<1> QED
  BY <1>1 DEF HealthInv

LEMMA TickKeepsHealth == TypeOK /\ HealthInv /\ Tick => HealthInv'
<1> SUFFICES ASSUME TypeOK, HealthInv, Tick  PROVE HealthInv'
  OBVIOUS
<1>1. now' = now + 1 /\ UNCHANGED <<answered, failing, responded, expired, heard>>
  BY DEF Tick, health, history
<1>2. now \in Nat /\ answered \in [Devices -> Nat] /\ failing \in [Devices -> Nat \cup {None}]
  BY DEF TypeOK
<1> QED
  BY <1>1, <1>2 DEF HealthInv

(* What the other actions do to communication health: nothing.               *)
Unhealthy == Discover \/ ReadModel \/ UpdateHealth \/ Tick

LEMMA OthersKeepHealth ==
  ASSUME [Next]_vars, ~Unhealthy
  PROVE  UNCHANGED <<failing, responded, expired, revisions, sources, now, answered, heard,
                     expired_at>>
<1>1. CASE StartPoll \/ BeginDevice \/ EndDevice \/ BumpEpochs \/ Retain
  BY <1>1 DEF StartPoll, BeginDevice, EndDevice, BumpEpochs, Retain, health, outside, history
<1>2. CASE Publish \/ Abandon \/ RequestRefresh \/ SetTimeout \/ \E d \in Devices : Replace(d)
  BY <1>2 DEF Publish, Abandon, RequestRefresh, SetTimeout, Replace, health, outside, history
<1>3. CASE UNCHANGED vars
  BY <1>3 DEF vars, health, outside, history
<1> QED
  BY <1>1, <1>2, <1>3 DEF Next, Worker, Outside, Unhealthy

LEMMA HealthInductive == TypeOK /\ HealthInv /\ [Next]_vars => HealthInv'
<1> SUFFICES ASSUME TypeOK, HealthInv, [Next]_vars  PROVE HealthInv'
  OBVIOUS
<1>1. poll.device \in Devices
  BY PollFields DEF TypeOK
<1>2. CASE Discover
  <2>1. PICK outcome : Observe(poll.device, outcome)
    BY <1>2 DEF Discover
  <2>2. UNCHANGED <<now, expired>>
    BY <1>2 DEF Discover
  <2> QED
    BY <1>1, <2>1, <2>2, ObserveKeepsHealth
<1>3. CASE ReadModel
  <2>1. PICK outcome : Observe(poll.device, outcome)
    BY <1>3 DEF ReadModel
  <2>2. UNCHANGED <<now, expired>>
    BY <1>3 DEF ReadModel
  <2> QED
    BY <1>1, <2>1, <2>2, ObserveKeepsHealth
<1>4. CASE ~Unhealthy
  BY <1>4, OthersKeepHealth DEF HealthInv
<1> QED
  BY <1>2, <1>3, <1>4, UpdateHealthKeepsHealth, TickKeepsHealth DEF Unhealthy

LEMMA HealthInvariance == Spec => [](TypeOK /\ HealthInv)
<1>1. Init => HealthInv
  BY DEF Init, HealthInv
<1> QED
  BY <1>1, HealthInductive, TypeCorrect, PTL DEF Spec

(* Only the end of a poll changes which devices count as silent.             *)
LEMMA OnlyHealthExpires ==
  ASSUME [Next]_vars, expired' # expired
  PROVE  UpdateHealth
<1>1. CASE Discover \/ ReadModel \/ Tick
  BY <1>1 DEF Discover, ReadModel, Tick, health
<1> QED
  BY <1>1, OthersKeepHealth DEF Unhealthy

(* A device expires only after a whole timeout without a response of its own. *)
THEOREM ExpiryNeedsSilenceAlways == Spec => ExpiryNeedsSilence
<1>1. TypeOK /\ HealthInv /\ [Next]_vars =>
        [\A d \in expired' \ expired : now - answered[d] >= timeout]_vars
  <2> SUFFICES ASSUME TypeOK, HealthInv, [Next]_vars, NEW d \in expired' \ expired
               PROVE  now - answered[d] >= timeout
    OBVIOUS
  <2>1. UpdateHealth
    BY OnlyHealthExpires
  <2>2. d \in Devices /\ Overdue(d)
    BY <2>1 DEF UpdateHealth
  <2>3. /\ failing[d] \in Nat /\ now - failing[d] >= timeout
        /\ answered[d] \in Nat /\ now \in Nat /\ timeout \in Nat
        /\ answered[d] <= failing[d]
    BY <2>2, ConstantAssumption DEF Overdue, TypeOK, HealthInv
  <2> QED
    BY <2>3
<1> QED
  BY <1>1, HealthInvariance, PTL DEF Spec, ExpiryNeedsSilence

(* No device recovers without a response of its own since it expired.        *)
THEOREM RecoveryNeedsAnswerAlways == Spec => RecoveryNeedsAnswer
<1>1. HealthInv /\ [Next]_vars => [expired \ expired' \subseteq heard]_vars
  <2> SUFFICES ASSUME HealthInv, [Next]_vars, NEW d \in expired \ expired'  PROVE d \in heard
    OBVIOUS
  <2>1. UpdateHealth
    BY OnlyHealthExpires
  <2>2. d \in responded
    BY <2>1 DEF UpdateHealth, Recovered
  <2> QED
    BY <2>2 DEF HealthInv
<1> QED
  BY <1>1, HealthInvariance, PTL DEF Spec, RecoveryNeedsAnswer

(***************************************************************************)
(* Silence is noticed.                                                      *)
(***************************************************************************)

(* Whose responses of this poll may be known, and where they ended a silence. *)
RespondedInTurn ==
    /\ poll.pc \in {"idle", "answer"} => responded = {}
    /\ poll.pc \in {"device", "discover", "read", "failed"} =>
          \A d \in responded : d <= poll.device /\ (d # poll.device => silent[d] = None)
    /\ poll.pc = "device" => poll.device \notin responded
    /\ poll.pc \in {"epochs", "retain", "health"} => \A d \in responded : silent[d] = None

(* A device that has left a poll unanswered fails since then or longer.       *)
SilentIsFailing ==
    \A d \in Devices : silent[d] # None /\ d \notin responded =>
        failing[d] # None /\ failing[d] <= silent[d]

(* The device that is polled answers, fails, or has still something to read.  *)
PolledIsAsked ==
    poll.pc \in {"read", "failed"} /\ poll.device \notin responded =>
        failing[poll.device] # None \/ (poll.pc = "read" /\ poll.todo # {})

SilenceInv == RespondedInTurn /\ SilentIsFailing /\ PolledIsAsked

(* What one exchange of the polled device means for its silence.              *)
LEMMA ObserveKeepsSilence ==
  ASSUME TypeOK, HealthInv, SilenceInv, poll.pc \in {"discover", "read"},
         NEW outcome \in Outcomes, Observe(poll.device, outcome), silent' = silent
  PROVE  /\ SilentIsFailing'
         /\ responded' \subseteq responded \cup {poll.device}
         /\ poll.device \notin responded' => failing'[poll.device] # None
<1> DEFINE d == poll.device
<1>1. d \in Devices /\ failing \in [Devices -> Nat \cup {None}] /\ now \in Nat
      /\ responded \subseteq Devices
  BY PollFields DEF TypeOK
<1>2. failing' = [failing EXCEPT ![d] = Since(d, outcome)]
  BY DEF Observe
<1>3. CASE outcome \in Answering
  <2>1. responded' = responded \cup {d}
    BY <1>3 DEF Observe
  <2>2. ASSUME NEW x \in Devices, silent'[x] # None, x \notin responded'
        PROVE  failing'[x] # None /\ failing'[x] <= silent'[x]
    <3>1. x # d /\ x \notin responded /\ failing'[x] = failing[x]
      BY <1>1, <1>2, <2>1, <2>2
    <3> QED
      BY <2>2, <3>1 DEF SilenceInv, SilentIsFailing
  <2> QED
    BY <2>1, <2>2 DEF SilentIsFailing
<1>4. CASE outcome = "failed"
  <2>1. responded' = responded
    BY <1>4 DEF Observe, Answering
  <2>2. failing'[d] = (IF failing[d] = None THEN now ELSE failing[d])
    BY <1>1, <1>2, <1>4 DEF Since, Unanswered
  <2>3. failing'[d] # None
    BY <1>1, <2>2, ConstantAssumption
  <2>4. ASSUME NEW x \in Devices, silent'[x] # None, x \notin responded'
        PROVE  failing'[x] # None /\ failing'[x] <= silent'[x]
    <3>1. failing[x] # None /\ failing[x] <= silent[x]
      BY <2>1, <2>4 DEF SilenceInv, SilentIsFailing
    <3>2. failing'[x] = failing[x]
      BY <1>1, <1>2, <2>2, <3>1
    <3> QED
      BY <3>1, <3>2
  <2> QED
    BY <2>1, <2>3, <2>4 DEF SilentIsFailing
<1> QED
  BY <1>3, <1>4 DEF Answering

LEMMA StartPollKeepsSilence == TypeOK /\ SilenceInv /\ StartPoll => SilenceInv'
<1> SUFFICES ASSUME TypeOK, SilenceInv, StartPoll  PROVE SilenceInv'
  OBVIOUS
<1>1. NoPoll(poll.n + 1) \in Polls
  BY NoPollType, PollFields DEF TypeOK
<1>2. poll'.pc = "device" /\ responded = {} /\ UNCHANGED <<responded, silent, failing>>
  BY <1>1 DEF StartPoll, SilenceInv, RespondedInTurn, NoPoll, health, history
<1> QED
  BY <1>2 DEF SilenceInv, RespondedInTurn, SilentIsFailing, PolledIsAsked

LEMMA BeginDeviceKeepsSilence ==
  FastModels # {} /\ TypeOK /\ SilenceInv /\ BeginDevice => SilenceInv'
<1> SUFFICES ASSUME FastModels # {}, TypeOK, SilenceInv, BeginDevice  PROVE SilenceInv'
  OBVIOUS
<1>1. poll \in Polls /\ poll.pc = "device" /\ UNCHANGED <<responded, silent, failing>>
  BY DEF TypeOK, BeginDevice, health, history
<1>2. /\ poll'.device = poll.device
      /\ poll'.pc = "discover" \/ (poll'.pc = "read" /\ FastModels \subseteq poll'.todo)
  BY <1>1, ConstantAssumption DEF BeginDevice, Polls, Selected
<1> QED
  BY <1>1, <1>2 DEF SilenceInv, RespondedInTurn, SilentIsFailing, PolledIsAsked

LEMMA DiscoverKeepsSilence == TypeOK /\ HealthInv /\ SilenceInv /\ Discover => SilenceInv'
<1> SUFFICES ASSUME TypeOK, HealthInv, SilenceInv, Discover  PROVE SilenceInv'
  OBVIOUS
<1>1. poll \in Polls /\ poll.pc = "discover" /\ silent' = silent
  BY DEF TypeOK, Discover
<1>2. PICK outcome \in Possible(Outcomes \ {"invalid"}) : Observe(poll.device, outcome)
  BY DEF Discover
<1>3. outcome \in Outcomes
  BY <1>2 DEF Possible
<1>4. poll'.device = poll.device /\ poll'.pc \in {"read", "failed"}
  BY <1>1 DEF Discover, Polls
<1>5. /\ SilentIsFailing'
      /\ responded' \subseteq responded \cup {poll.device}
      /\ poll.device \notin responded' => failing'[poll.device] # None
  BY <1>1, <1>2, <1>3, ObserveKeepsSilence
<1>6. poll.device <= poll.device
  <2>1. poll.device \in Nat
    BY <1>1, PollFields, DevicesType
  <2> QED
    BY <2>1
<1> QED
  BY <1>1, <1>4, <1>5, <1>6 DEF SilenceInv, RespondedInTurn, PolledIsAsked

LEMMA ReadModelKeepsSilence == TypeOK /\ HealthInv /\ SilenceInv /\ ReadModel => SilenceInv'
<1> SUFFICES ASSUME TypeOK, HealthInv, SilenceInv, ReadModel  PROVE SilenceInv'
  OBVIOUS
<1>1. poll \in Polls /\ poll.pc = "read" /\ silent' = silent
  BY DEF TypeOK, ReadModel
<1>2. PICK outcome \in Possible({"ok", "failed", "partial", "invalid"}) :
         Observe(poll.device, outcome)
  BY DEF ReadModel
<1>3. outcome \in Outcomes
  BY <1>2 DEF Possible, Outcomes
<1>4. poll'.device = poll.device /\ poll'.pc = "read"
  BY <1>1 DEF ReadModel, Polls
<1>5. /\ SilentIsFailing'
      /\ responded' \subseteq responded \cup {poll.device}
      /\ poll.device \notin responded' => failing'[poll.device] # None
  BY <1>1, <1>2, <1>3, ObserveKeepsSilence
<1>6. poll.device <= poll.device
  <2>1. poll.device \in Nat
    BY <1>1, PollFields, DevicesType
  <2> QED
    BY <2>1
<1> QED
  BY <1>1, <1>4, <1>5, <1>6 DEF SilenceInv, RespondedInTurn, PolledIsAsked

LEMMA EndDeviceKeepsSilence == TypeOK /\ HealthInv /\ SilenceInv /\ EndDevice => SilenceInv'
<1> SUFFICES ASSUME TypeOK, HealthInv, SilenceInv, EndDevice  PROVE SilenceInv'
  OBVIOUS
<1> DEFINE d == poll.device
<1>1. /\ poll \in Polls /\ d \in Devices /\ responded \subseteq Devices
      /\ silent \in [Devices -> Nat \cup {None}] /\ now \in Nat
  BY PollFields DEF TypeOK
<1>2. /\ poll.pc \in {"read", "failed"}
      /\ poll.pc = "read" => poll.todo = {}
      /\ UNCHANGED <<responded, failing, now>>
      /\ silent' = [silent EXCEPT ![d] = IF d \in responded THEN None
                                         ELSE IF silent[d] = None THEN now ELSE silent[d]]
  BY DEF EndDevice, health, outside
<1>3. /\ poll'.pc = (IF d = NDevices THEN "epochs" ELSE "device")
      /\ poll'.device = NextDevice(d)
  BY <1>1 DEF EndDevice, Polls
<1>4. \A x \in responded : x <= d /\ silent'[x] = None
  BY <1>1, <1>2 DEF SilenceInv, RespondedInTurn
<1>5. d \notin responded => failing[d] # None
  BY <1>2 DEF SilenceInv, PolledIsAsked
<1>6. ASSUME NEW x \in Devices, silent'[x] # None, x \notin responded
      PROVE  failing[x] # None /\ failing[x] <= silent'[x]
  <2>1. CASE silent[x] # None
    <3>1. silent'[x] = silent[x]
      BY <1>1, <1>2, <1>6, <2>1
    <3> QED
      BY <1>6, <2>1, <3>1 DEF SilenceInv, SilentIsFailing
  <2>2. CASE silent[x] = None
    <3>1. x = d /\ silent'[x] = now
      BY <1>1, <1>2, <1>6, <2>2
    <3>2. failing[x] # None
      BY <1>5, <1>6, <3>1
    <3> QED
      BY <3>1, <3>2 DEF HealthInv
  <2> QED
    BY <2>1, <2>2
<1>7. SilentIsFailing'
  BY <1>2, <1>6 DEF SilentIsFailing
<1>8. CASE d = NDevices
  BY <1>2, <1>3, <1>4, <1>7, <1>8 DEF SilenceInv, RespondedInTurn, PolledIsAsked
<1>9. CASE d # NDevices
  <2>1. poll'.device = d + 1 /\ poll'.pc = "device"
    BY <1>3, <1>9 DEF NextDevice
  <2>2. d + 1 \notin responded /\ \A x \in responded : x <= d + 1
    <3>1. d \in Nat /\ responded \subseteq Nat
      BY <1>1, DevicesType
    <3>2. \A x \in responded : x <= d
      BY <1>4
    <3> HIDE DEF d
    <3> QED
      BY <3>1, <3>2
  <2> QED
    BY <1>2, <1>4, <1>7, <2>1, <2>2 DEF SilenceInv, RespondedInTurn, PolledIsAsked
<1> QED
  BY <1>8, <1>9

LEMMA EvaluationKeepsSilence ==
  TypeOK /\ SilenceInv /\ (BumpEpochs \/ Retain \/ UpdateHealth \/ Publish \/ Abandon)
    => SilenceInv'
<1>1. ASSUME TypeOK, SilenceInv, BumpEpochs \/ Retain  PROVE SilenceInv'
  <2>1. /\ poll.pc \in {"epochs", "retain"} /\ poll'.pc \in {"retain", "health"}
        /\ UNCHANGED <<responded, silent, failing>>
    BY <1>1 DEF TypeOK, BumpEpochs, Retain, Polls, health, history
  <2> QED
    BY <1>1, <2>1 DEF SilenceInv, RespondedInTurn, SilentIsFailing, PolledIsAsked
<1>2. ASSUME TypeOK, SilenceInv, UpdateHealth  PROVE SilenceInv'
  <2>1. /\ poll.pc = "health" /\ poll'.pc = "answer" /\ responded' = {}
        /\ UNCHANGED <<silent, failing>>
    BY <1>2 DEF TypeOK, UpdateHealth, Polls
  <2> QED
    BY <1>2, <2>1 DEF SilenceInv, RespondedInTurn, SilentIsFailing, PolledIsAsked
<1>3. ASSUME TypeOK, SilenceInv, Publish \/ Abandon  PROVE SilenceInv'
  <2>1. /\ poll.pc = "answer" /\ poll'.pc = "idle"
        /\ UNCHANGED <<responded, silent, failing>>
    BY <1>3 DEF Publish, Abandon, NoPoll, health, history
  <2> QED
    BY <1>3, <2>1 DEF SilenceInv, RespondedInTurn, SilentIsFailing, PolledIsAsked
<1> QED
  BY <1>1, <1>2, <1>3

LEMMA OutsideKeepsSilence == SilenceInv /\ (Outside \/ UNCHANGED vars) => SilenceInv'
<1> SUFFICES ASSUME SilenceInv, Outside \/ UNCHANGED vars  PROVE SilenceInv'
  OBVIOUS
<1>1. UNCHANGED <<poll, responded, silent, failing>>
  BY DEF Outside, RequestRefresh, SetTimeout, Tick, Replace, vars, health, history
<1> QED
  BY <1>1 DEF SilenceInv, RespondedInTurn, SilentIsFailing, PolledIsAsked

LEMMA SilenceInvariance ==
  ASSUME FastModels # {}
  PROVE  Spec => []SilenceInv
<1>1. Init => SilenceInv
  BY DEF Init, NoPoll, SilenceInv, RespondedInTurn, SilentIsFailing, PolledIsAsked
<1>2. TypeOK /\ HealthInv /\ SilenceInv /\ [Next]_vars => SilenceInv'
  BY StartPollKeepsSilence, BeginDeviceKeepsSilence, DiscoverKeepsSilence,
     ReadModelKeepsSilence, EndDeviceKeepsSilence, EvaluationKeepsSilence,
     OutsideKeepsSilence, Zenon
  DEF Next, Worker
<1> QED
  BY <1>1, <1>2, HealthInvariance, PTL DEF Spec

(* Silence that has lasted for the timeout is noticed by the very next poll,  *)
(* provided that every poll asks every device for something: devices have      *)
(* fast models.                                                               *)
THEOREM SilenceExpiresAlways ==
  ASSUME FastModels # {}
  PROVE  Spec => SilenceExpires
<1>1. TypeOK /\ SilenceInv /\ [Next]_vars =>
        [poll.pc = "health" /\ poll'.pc = "answer" =>
            \A d \in Devices :
                silent[d] # None /\ now - silent[d] >= timeout => d \in expired']_vars
  <2> SUFFICES ASSUME TypeOK, SilenceInv, [Next]_vars,
                      poll.pc = "health", poll'.pc = "answer",
                      NEW d \in Devices, silent[d] # None, now - silent[d] >= timeout
               PROVE  d \in expired'
    OBVIOUS
  <2>1. UpdateHealth
    BY DEF Next, Worker, Outside, vars, StartPoll, BeginDevice, Discover, ReadModel,
           EndDevice, BumpEpochs, Retain, Publish, Abandon, RequestRefresh, SetTimeout,
           Tick, Replace
  <2>2. failing[d] # None /\ failing[d] <= silent[d]
    BY DEF SilenceInv, RespondedInTurn, SilentIsFailing
  <2>3. failing[d] \in Nat /\ silent[d] \in Nat /\ now \in Nat /\ timeout \in Nat
    BY <2>2, ConstantAssumption DEF TypeOK
  <2>4. Overdue(d)
    BY <2>2, <2>3 DEF Overdue
  <2> QED
    BY <2>1, <2>4 DEF UpdateHealth, Recovered
<1> QED
  BY <1>1, SilenceInvariance, TypeCorrect, PTL DEF Spec, SilenceExpires

(***************************************************************************)
(* Slow deadlines.                                                          *)
(***************************************************************************)

(* The next multiple of a period after a, and the remainder of any.           *)
LEMMA NextMultiple ==
  ASSUME NEW a \in Nat, NEW period \in Nat \ {0}
  PROVE  LET q == a \div period IN
         /\ q \in Nat
         /\ q * period <= a /\ a < (q + 1) * period
         /\ (q + 1) * period \in Nat
         /\ (q + 1) * period - period <= a
         /\ ((q + 1) * period) % period = 0
<1> DEFINE q == a \div period
<1>1. q \in Nat /\ q * period <= a /\ a < (q + 1) * period
  OBVIOUS
<1> HIDE DEF q
<1>2. (q + 1) * period \in Nat /\ (q + 1) * period = q * period + period
  BY <1>1
<1>3. \A k \in Nat : (k * period) % period = 0
  OBVIOUS
<1> QED
  BY <1>1, <1>2, <1>3 DEF q

(* Slow models are due once in every slow period, counted from the first.    *)
THEOREM SlowPeriodsStayAnchoredAlways == Spec => SlowPeriodsStayAnchored
<1> DEFINE Anchored(d) ==
      deadlines[d] # None /\ deadlines'[d] # deadlines[d] =>
          /\ deadlines'[d] > poll.started
          /\ deadlines'[d] - SlowPeriod <= poll.started
          /\ (deadlines'[d] - deadlines[d]) % SlowPeriod = 0
<1>1. TypeOK /\ [Next]_vars => [\A d \in Devices : Anchored(d)]_vars
  <2> SUFFICES ASSUME TypeOK, [Next]_vars, NEW d \in Devices,
                      deadlines[d] # None, deadlines'[d] # deadlines[d]
               PROVE  Anchored(d)
    OBVIOUS
  <2>1. EndDevice
    BY DEF Next, Worker, Outside, vars, reading, StartPoll, BeginDevice, Discover, ReadModel,
           BumpEpochs, Retain, UpdateHealth, Publish, Abandon, RequestRefresh, SetTimeout,
           Tick, Replace
  <2>2. deadlines'[d] = NextSlow(d)
    BY <2>1 DEF EndDevice, TypeOK
  <2>3. /\ poll.started \in Nat /\ deadlines[d] \in Nat
        /\ SlowPeriod \in Nat \ {0}
    BY PollFields, ConstantAssumption DEF TypeOK
  <2>4. poll.started >= deadlines[d]
    BY <2>2 DEF NextSlow
  <2> DEFINE late == poll.started - deadlines[d]
             skip == (late \div SlowPeriod + 1) * SlowPeriod
  <2>5. deadlines'[d] = deadlines[d] + skip
    BY <2>2, <2>4 DEF NextSlow
  <2>6. late \in Nat
    BY <2>3, <2>4
  <2> HIDE DEF late
  <2>7. skip \in Nat /\ late < skip /\ skip - SlowPeriod <= late /\ skip % SlowPeriod = 0
    BY <2>3, <2>6, NextMultiple
  <2> HIDE DEF skip
  <2>8. deadlines'[d] - deadlines[d] = skip
    BY <2>3, <2>5, <2>7
  <2> USE DEF late
  <2>9. deadlines'[d] > poll.started /\ deadlines'[d] - SlowPeriod <= poll.started
    BY <2>3, <2>5, <2>7
  <2> QED
    BY <2>7, <2>8, <2>9
<1> QED
  BY <1>1, TypeCorrect, PTL DEF Spec, SlowPeriodsStayAnchored

(***************************************************************************)
(* Readings from before a timeout.                                          *)
(***************************************************************************)

(* The payloads of fast models in a poll's result were read by this poll.    *)
ResultIsNew ==
    /\ \A m \in Models : poll.reads[m] # None => poll.reads[m].at = poll.n
    /\ poll.pc = "read" /\ poll.layout # None =>
          \A m \in FastModels : m \in poll.todo \/ poll.reads[m] # None
    /\ \A d \in Devices, m \in FastModels :
          poll.result[d].models[m] # None => poll.result[d].models[m].at = poll.n

LEMMA StartPollMakesNew == TypeOK /\ StartPoll => ResultIsNew'
<1> SUFFICES ASSUME TypeOK, StartPoll  PROVE ResultIsNew'
  OBVIOUS
<1>1. NoPoll(poll.n + 1) \in Polls
  BY NoPollType, PollFields DEF TypeOK
<1>2. /\ poll'.pc = "device" /\ poll'.reads = NoPayloads
      /\ poll'.result = [d \in Devices |-> Offline]
  BY <1>1 DEF StartPoll, NoPoll
<1> QED
  BY <1>2, ConstantAssumption DEF ResultIsNew, NoPayloads, Offline

LEMMA BeginDeviceKeepsNew == TypeOK /\ ResultIsNew /\ BeginDevice => ResultIsNew'
<1> SUFFICES ASSUME TypeOK, ResultIsNew, BeginDevice  PROVE ResultIsNew'
  OBVIOUS
<1>1. /\ poll'.n = poll.n /\ poll'.reads = NoPayloads /\ poll'.result = poll.result
      /\ poll'.pc = "discover" \/ (poll'.pc = "read" /\ FastModels \subseteq poll'.todo)
  BY ConstantAssumption DEF TypeOK, BeginDevice, Polls, Selected
<1> QED
  BY <1>1 DEF ResultIsNew, NoPayloads

LEMMA DiscoverKeepsNew == TypeOK /\ ResultIsNew /\ Discover => ResultIsNew'
<1> SUFFICES ASSUME TypeOK, ResultIsNew, Discover  PROVE ResultIsNew'
  OBVIOUS
<1>1. /\ poll'.n = poll.n /\ poll'.reads = poll.reads /\ poll'.result = poll.result
      /\ poll'.layout # None => poll'.todo = Models
  BY DEF TypeOK, Discover, Polls
<1> QED
  BY <1>1, ConstantAssumption DEF ResultIsNew

LEMMA ReadModelKeepsNew == TypeOK /\ ResultIsNew /\ ReadModel => ResultIsNew'
<1> SUFFICES ASSUME TypeOK, ResultIsNew, ReadModel  PROVE ResultIsNew'
  OBVIOUS
<1>1. poll \in Polls /\ poll.pc = "read" /\ poll.reads \in Payloads /\ poll.todo \subseteq Models
  BY PollFields DEF TypeOK, ReadModel
<1> DEFINE S(o) == [at |-> poll.n, of |-> IF o = "ok" THEN unit[poll.device] ELSE None,
                    ok |-> IF o \in Unanswered THEN "failed" ELSE o]
<1>2. PICK m \in poll.todo, outcome \in Possible({"ok", "failed", "partial", "invalid"}) :
         poll' = [poll EXCEPT !.todo = poll.todo \ {m}, !.reads[m] = S(outcome)]
  BY DEF ReadModel
<1> DEFINE s == S(outcome)
<1>3. s \in Snapshots /\ s.at = poll.n
  <2>1. outcome \in {"ok", "failed", "partial", "invalid"}
    BY <1>2 DEF Possible
  <2>2. unit[poll.device] \in Units /\ poll.n \in Nat
    BY <1>1, PollFields DEF TypeOK
  <2> QED
    BY <1>1, <2>1, <2>2 DEF Snapshots, Unanswered
<1> HIDE DEF S
<1>4. /\ poll'.n = poll.n /\ poll'.pc = poll.pc /\ poll'.layout = poll.layout
      /\ poll'.result = poll.result /\ poll'.todo = poll.todo \ {m}
      /\ poll'.reads = [poll.reads EXCEPT ![m] = s]
  BY <1>1, <1>2, Zenon DEF Polls
<1>5. s.at = poll.n /\ s # None /\ m \in Models
  BY <1>1, <1>2, <1>3, NoneAssumption
<1> HIDE DEF s
<1>6. \A x \in Models : poll'.reads[x] = IF x = m THEN s ELSE poll.reads[x]
  BY <1>1, <1>4 DEF Payloads
<1> QED
  BY <1>1, <1>4, <1>5, <1>6, ConstantAssumption DEF ResultIsNew

LEMMA EndDeviceKeepsNew == TypeOK /\ ResultIsNew /\ EndDevice => ResultIsNew'
<1> SUFFICES ASSUME TypeOK, ResultIsNew, EndDevice  PROVE ResultIsNew'
  OBVIOUS
<1> DEFINE d == poll.device
           snapshot == IF poll.pc = "failed" THEN Offline ELSE Assembled(d)
<1>1. /\ poll \in Polls /\ d \in Devices /\ poll.result \in [Devices -> DeviceSnapshots]
      /\ poll.reads \in Payloads /\ FastModels \subseteq Models
  BY PollFields, ConstantAssumption DEF TypeOK
<1>2. ASSUME NEW m \in FastModels, snapshot.models[m] # None
      PROVE  snapshot.models[m].at = poll.n
  <2>1. poll.pc = "read" /\ poll.todo = {}
    BY <1>1, <1>2 DEF EndDevice, Offline, NoPayloads
  <2>2. snapshot.models[m] = IF poll.reads[m] # None THEN poll.reads[m]
                             ELSE Cached(d, poll.layout)[m]
    BY <1>1, <2>1 DEF Assembled
  <2>3. poll.reads[m] # None
    <3>1. CASE poll.layout = None
      BY <1>1, <1>2, <2>2, <3>1 DEF Cached, NoPayloads
    <3>2. CASE poll.layout # None
      BY <2>1, <3>2 DEF ResultIsNew
    <3> QED
      BY <3>1, <3>2
  <2> QED
    BY <1>1, <2>2, <2>3 DEF ResultIsNew
<1> HIDE DEF d, snapshot
<1>3. /\ poll'.n = poll.n /\ poll'.reads = NoPayloads /\ poll'.pc # "read"
      /\ poll'.result = [poll.result EXCEPT ![d] = snapshot]
  BY <1>1 DEF EndDevice, Polls, d, snapshot
<1>4. \A x \in Devices : poll'.result[x] = IF x = d THEN snapshot ELSE poll.result[x]
  BY <1>1, <1>3
<1> QED
  BY <1>1, <1>2, <1>3, <1>4 DEF ResultIsNew, NoPayloads

LEMMA EvaluationKeepsNew ==
  TypeOK /\ ResultIsNew /\ (BumpEpochs \/ Retain \/ UpdateHealth) => ResultIsNew'
<1> SUFFICES ASSUME TypeOK, ResultIsNew, BumpEpochs \/ Retain \/ UpdateHealth
             PROVE  ResultIsNew'
  OBVIOUS
<1>1. /\ poll'.n = poll.n /\ poll'.reads = poll.reads /\ poll'.result = poll.result
      /\ poll'.pc # "read"
  BY DEF TypeOK, BumpEpochs, Retain, UpdateHealth, Polls
<1> QED
  BY <1>1 DEF ResultIsNew

LEMMA NoPollIsNew ==
  ASSUME TypeOK, poll' = NoPoll(poll.n)
  PROVE  ResultIsNew'
<1>1. /\ poll'.pc = "idle" /\ poll'.reads = NoPayloads
      /\ poll'.result = [d \in Devices |-> Offline]
  BY DEF NoPoll
<1> QED
  BY <1>1, ConstantAssumption DEF ResultIsNew, NoPayloads, Offline

LEMMA NewInvariance == Spec => []ResultIsNew
<1>1. Init => ResultIsNew
  <2> SUFFICES ASSUME Init  PROVE ResultIsNew
    OBVIOUS
  <2>1. /\ poll.pc = "idle" /\ poll.reads = NoPayloads
        /\ poll.result = [d \in Devices |-> Offline]
    BY DEF Init, NoPoll
  <2> QED
    BY <2>1, ConstantAssumption DEF ResultIsNew, NoPayloads, Offline
<1>2. TypeOK /\ ResultIsNew /\ [Next]_vars => ResultIsNew'
  <2> SUFFICES ASSUME TypeOK, ResultIsNew, [Next]_vars  PROVE ResultIsNew'
    OBVIOUS
  <2>1. CASE Publish \/ Abandon
    BY <2>1, NoPollIsNew DEF Publish, Abandon
  <2>2. CASE Outside \/ UNCHANGED vars
    <3>1. poll' = poll
      BY <2>2 DEF Outside, RequestRefresh, SetTimeout, Tick, Replace, vars
    <3> QED
      BY <3>1 DEF ResultIsNew
  <2> QED
    BY <2>1, <2>2, StartPollMakesNew, BeginDeviceKeepsNew, DiscoverKeepsNew,
       ReadModelKeepsNew, EndDeviceKeepsNew, EvaluationKeepsNew
    DEF Next, Worker
<1> QED
  BY <1>1, <1>2, TypeCorrect, PTL DEF Spec

(* The poll at which a device expired is over, or about to be published.      *)
ExpiryIsPast ==
    \A d \in Devices :
        /\ expired_at[d] <= poll.n
        /\ poll.pc \notin {"idle", "answer"} => expired_at[d] < poll.n

(* Of fast models, readings from before a timeout are exactly the suppressed. *)
OldIsSuppressed ==
    \A d \in Devices, m \in FastModels :
        LET held == retained[d].models[m] IN
        held # None /\ held # sources[d][m] => held.at > expired_at[d]

ExpiryInv == ExpiryIsPast /\ OldIsSuppressed

LEMMA ExpiryInductive == TypeOK /\ ResultIsNew /\ ExpiryInv /\ [Next]_vars => ExpiryInv'
<1> SUFFICES ASSUME TypeOK, ResultIsNew, ExpiryInv, [Next]_vars  PROVE ExpiryInv'
  OBVIOUS
<1>1. /\ poll \in Polls /\ poll.n \in Nat /\ expired_at \in [Devices -> Nat]
      /\ FastModels \subseteq Models
  BY PollFields, ConstantAssumption DEF TypeOK
<1>2. CASE StartPoll
  <2>1. UNCHANGED <<retained, sources, expired_at>> /\ poll'.n = poll.n + 1
    BY <1>2 DEF StartPoll, NoPoll, results, health, history
  <2>2. \A d \in Devices : expired_at[d] < poll.n + 1
    BY <1>1 DEF ExpiryInv, ExpiryIsPast
  <2> QED
    BY <1>1, <2>1, <2>2 DEF ExpiryInv, ExpiryIsPast, OldIsSuppressed
<1>3. CASE BeginDevice \/ Discover \/ ReadModel \/ EndDevice \/ BumpEpochs
  <2>1. /\ UNCHANGED <<retained, sources, expired_at>> /\ poll'.n = poll.n
        /\ poll.pc \notin {"idle", "answer"}
    <3>1. CASE BeginDevice
      BY <1>1, <3>1 DEF BeginDevice, Polls, results, health, history
    <3>2. CASE Discover
      BY <1>1, <3>2 DEF Discover, Polls, results
    <3>3. CASE ReadModel
      BY <1>1, <3>3 DEF ReadModel, Polls, results
    <3>4. CASE EndDevice
      BY <1>1, <3>4 DEF EndDevice, Polls, results, health, history
    <3>5. CASE BumpEpochs
      BY <1>1, <3>5 DEF BumpEpochs, Polls, results, health, history
    <3> QED
      BY <1>3, <3>1, <3>2, <3>3, <3>4, <3>5
  <2> QED
    BY <2>1 DEF ExpiryInv, ExpiryIsPast, OldIsSuppressed
<1>4. CASE Retain
  <2>1. /\ UNCHANGED <<sources, expired_at>> /\ poll'.n = poll.n /\ poll.pc = "retain"
        /\ retained' = [d \in Devices |-> Retained(d)]
    BY <1>1, <1>4 DEF Retain, Polls, health, history
  <2>2. ASSUME NEW d \in Devices, NEW m \in FastModels, retained'[d].models[m] # None
        PROVE  retained'[d].models[m] = retained[d].models[m] \/ retained'[d].models[m].at = poll.n
    <3>1. CASE d \in poll.incompatible
      BY <1>1, <2>1, <2>2, <3>1 DEF Retained, Offline, NoPayloads
    <3>2. CASE retained'[d] = retained[d]
      BY <3>2
    <3>3. CASE d \notin poll.incompatible /\ retained'[d] # retained[d]
      <4>1. retained'[d].models = [x \in Models |-> Kept(d, x)]
        BY <2>1, <3>3 DEF Retained
      <4>2. retained'[d].models[m] = Kept(d, m)
        BY <1>1, <4>1
      <4>3. Kept(d, m) \in {None, Blank, poll.result[d].models[m], retained[d].models[m]}
        BY DEF Kept
      <4> QED
        BY <2>2, <4>2, <4>3 DEF ResultIsNew, Blank
    <3> QED
      BY <3>1, <3>2, <3>3
  <2>3. \A d \in Devices : expired_at[d] < poll.n
    BY <2>1 DEF ExpiryInv, ExpiryIsPast
  <2>4. OldIsSuppressed'
    BY <1>1, <2>1, <2>2, <2>3 DEF ExpiryInv, OldIsSuppressed
  <2> QED
    BY <1>1, <2>1, <2>3, <2>4 DEF ExpiryInv, ExpiryIsPast
<1>5. CASE UpdateHealth
  <2>1. UNCHANGED retained /\ poll'.n = poll.n /\ poll.pc = "health" /\ poll'.pc = "answer"
    BY <1>1, <1>5 DEF UpdateHealth, Polls, results
  <2>2. ASSUME NEW d \in Devices
        PROVE  \/ expired_at'[d] = poll.n /\ sources'[d] = retained[d].models
               \/ expired_at'[d] = expired_at[d] /\ sources'[d] = sources[d]
    BY <1>5 DEF UpdateHealth, Suppressed
  <2>3. ExpiryIsPast'
    BY <1>1, <2>1, <2>2 DEF ExpiryInv, ExpiryIsPast
  <2>4. OldIsSuppressed'
    BY <1>1, <2>1, <2>2 DEF ExpiryInv, OldIsSuppressed
  <2> QED
    BY <2>3, <2>4 DEF ExpiryInv
<1>6. CASE Publish \/ Abandon
  <2>1. /\ UNCHANGED <<retained, sources, expired_at>>
        /\ poll'.n = poll.n /\ poll'.pc = "idle"
    BY <1>6 DEF Publish, Abandon, NoPoll, results, health, history
  <2> QED
    BY <2>1 DEF ExpiryInv, ExpiryIsPast, OldIsSuppressed
<1>7. CASE Outside \/ UNCHANGED vars
  <2>1. UNCHANGED <<poll, retained, sources, expired_at>>
    BY <1>7 DEF Outside, RequestRefresh, SetTimeout, Tick, Replace, vars, results, health, history
  <2> QED
    BY <2>1 DEF ExpiryInv, ExpiryIsPast, OldIsSuppressed
<1> QED
  BY <1>2, <1>3, <1>4, <1>5, <1>6, <1>7 DEF Next, Worker

LEMMA ExpiryInvariance == Spec => []ExpiryInv
<1>1. Init => ExpiryInv
  BY NoPollType, ConstantAssumption
  DEF Init, NoPoll, Offline, NoPayloads, ExpiryInv, ExpiryIsPast, OldIsSuppressed
<1> QED
  BY <1>1, ExpiryInductive, TypeCorrect, NewInvariance, PTL DEF Spec

(* Where all models are fast, a reading that was there when its device ran    *)
(* out of time is not shown again, whatever refreshes are cancelled.          *)
THEOREM ExpiredReadingStaysHiddenAlways ==
  ASSUME Models = FastModels
  PROVE  Spec => []ExpiredReadingStaysHidden
<1>1. ExpiryInv => ExpiredReadingStaysHidden
  BY DEF ExpiryInv, OldIsSuppressed, ExpiredReadingStaysHidden, Shown, Measurable
<1> QED
  BY <1>1, ExpiryInvariance, PTL

(***************************************************************************)
(* Where every reading comes from.  First, field by field, what the actions *)
(* do to the state that the invariants of readings speak of.                *)
(***************************************************************************)

Readings == <<data, retained, sources, expired_at, proven_at, unit, requested, published>>

(* All of poll but the steps within a device. *)
SamePoll == /\ poll'.n = poll.n /\ poll'.force = poll.force /\ poll'.result = poll.result
            /\ poll'.incompatible = poll.incompatible /\ poll'.validated = poll.validated

SameDevice == /\ poll'.device = poll.device /\ poll'.full = poll.full
              /\ poll'.layout = poll.layout /\ poll'.todo = poll.todo
              /\ poll'.reads = poll.reads

SameBudget == budget'.cancels = budget.cancels /\ budget'.swaps = budget.swaps

LEMMA ReadingTypes ==
  ASSUME TypeOK, NEW d \in Devices, NEW m \in Models
  PROVE  /\ data[d].models[m] \in Snapshots \cup {None}
         /\ retained[d].models[m] \in Snapshots \cup {None}
         /\ sources[d][m] \in Snapshots \cup {None}
         /\ poll.result[d].models[m] \in Snapshots \cup {None}
         /\ poll.reads[m] \in Snapshots \cup {None}
         /\ poll.n \in Nat /\ poll.device \in Devices
         /\ expired_at[d] \in Nat /\ proven_at[d] \in Nat
  BY PollFields DEF TypeOK, DeviceSnapshots, Payloads

LEMMA SnapshotFields ==
  ASSUME NEW s \in Snapshots
  PROVE  s.at \in Nat /\ s # None /\ s.ok \in {"ok", "failed", "invalid", "blank"}
  BY NoneAssumption DEF Snapshots

LEMMA NoPollFields ==
  ASSUME NEW n \in Nat
  PROVE  LET p == NoPoll(n) IN
         /\ p.pc = "idle" /\ p.n = n /\ p.force = FALSE /\ p.device = 1 /\ p.full = FALSE
         /\ p.layout = None /\ p.todo = {} /\ p.reads = NoPayloads
         /\ p.result = [d \in Devices |-> Offline]
         /\ p.incompatible = {} /\ p.validated = {}
  BY DEF NoPoll

LEMMA OfflineFields ==
  /\ Offline.layout = None /\ Offline.models = NoPayloads /\ Offline.available = FALSE
  /\ \A m \in Models : NoPayloads[m] = None
  BY DEF Offline, NoPayloads

LEMMA StartPollEffect ==
  ASSUME TypeOK, StartPoll
  PROVE  /\ poll.pc = "idle" /\ poll'.pc = "device" /\ poll'.n = poll.n + 1
         /\ poll'.force = force /\ poll'.device = 1 /\ poll'.full = FALSE
         /\ poll'.layout = None /\ poll'.todo = {} /\ poll'.reads = NoPayloads
         /\ poll'.result = [d \in Devices |-> Offline]
         /\ poll'.incompatible = {} /\ poll'.validated = {}
         /\ force' = FALSE /\ UNCHANGED <<Readings, live, failing, budget>>
<1>1. poll.n + 1 \in Nat
  BY PollFields DEF TypeOK
<1> DEFINE p == NoPoll(poll.n + 1)
<1>2. p \in Polls /\ poll' = [p EXCEPT !.pc = "device", !.force = force]
  BY <1>1, NoPollType DEF StartPoll
<1>3. /\ p.n = poll.n + 1 /\ p.device = 1 /\ p.full = FALSE
      /\ p.layout = None /\ p.todo = {} /\ p.reads = NoPayloads
      /\ p.result = [d \in Devices |-> Offline]
      /\ p.incompatible = {} /\ p.validated = {}
  BY <1>1, NoPollFields
<1> HIDE DEF p
<1>4. /\ poll'.pc = "device" /\ poll'.force = force
      /\ poll'.n = p.n /\ poll'.device = p.device /\ poll'.full = p.full
      /\ poll'.layout = p.layout /\ poll'.todo = p.todo /\ poll'.reads = p.reads
      /\ poll'.result = p.result
      /\ poll'.incompatible = p.incompatible /\ poll'.validated = p.validated
  BY <1>2 DEF Polls
<1> QED
  BY <1>3, <1>4 DEF StartPoll, Readings, results, health, outside, history

LEMMA BeginDeviceEffect ==
  ASSUME TypeOK, BeginDevice
  PROVE  /\ poll.pc = "device" /\ SamePoll /\ poll'.device = poll.device
         /\ poll'.reads = NoPayloads
         /\ \/ poll'.pc = "discover" /\ poll'.full = TRUE /\ poll'.layout = None /\ poll'.todo = {}
            \/ /\ poll'.pc = "read" /\ live[poll.device] # None
               /\ poll.force => poll'.full = TRUE
               /\ poll'.layout = live[poll.device]
               /\ poll'.todo = Selected(poll.device, live[poll.device], poll'.full)
         /\ UNCHANGED <<Readings, force, live, failing, budget>>
<1> DEFINE d == poll.device
<1>1. PICK rediscover \in {live[d] = None, TRUE} :
        poll' = [poll EXCEPT
                !.pc = IF rediscover THEN "discover" ELSE "read",
                !.started = now, !.full = poll.force \/ rediscover \/ SlowDue(d),
                !.layout = IF rediscover THEN None ELSE live[d],
                !.todo = IF rediscover THEN {}
                         ELSE Selected(d, live[d], poll.force \/ rediscover \/ SlowDue(d)),
                !.reads = NoPayloads]
  BY DEF BeginDevice
<1>2. poll \in Polls /\ rediscover \in BOOLEAN
  BY DEF TypeOK
<1>3. poll.pc = "device" /\ UNCHANGED <<Readings, force, live, failing, budget>>
  BY DEF BeginDevice, Readings, results, health, outside, history
<1>4. CASE rediscover
  <2>1. /\ poll'.pc = "discover" /\ poll'.full = TRUE /\ poll'.layout = None /\ poll'.todo = {}
        /\ poll'.reads = NoPayloads /\ poll'.device = poll.device /\ SamePoll
    BY <1>1, <1>2, <1>4 DEF Polls, SamePoll
  <2> QED
    BY <1>3, <2>1
<1>5. CASE ~rediscover
  <2> DEFINE full == poll.force \/ SlowDue(d)
             todo == Selected(d, live[d], full)
  <2>1. full \in BOOLEAN /\ (poll.force => full)
    OBVIOUS
  <2>2. live[d] # None
    BY <1>1, <1>5
  <2>3. poll' = [poll EXCEPT !.pc = "read", !.started = now, !.full = full,
                            !.layout = live[d], !.todo = todo, !.reads = NoPayloads]
    BY <1>1, <1>5
  <2> HIDE DEF full
  <2>4. /\ poll'.pc = "read" /\ poll'.full = full /\ poll'.layout = live[d]
        /\ poll'.todo = Selected(d, live[d], full)
        /\ poll'.reads = NoPayloads /\ poll'.device = poll.device /\ SamePoll
    BY <1>2, <2>3 DEF Polls, SamePoll
  <2>5. poll'.todo = Selected(d, live[d], poll'.full) /\ (poll.force => poll'.full = TRUE)
    BY <2>1, <2>4
  <2> QED
    BY <1>3, <2>2, <2>4, <2>5
<1> QED
  BY <1>2, <1>4, <1>5

(* What an exchange means for the health of its device, and for all sessions. *)
Exchanged(d) ==
    /\ \A x \in Devices \ {d} : failing'[x] = failing[x]
    /\ failing'[d] = None \/ live' = Reset

LEMMA ObserveEffect ==
  ASSUME TypeOK, NEW d \in Devices, NEW outcome \in Outcomes, Observe(d, outcome),
         outcome \in Unanswered => live' = Reset
  PROVE  Exchanged(d) /\ SameBudget
<1>1. failing' = [failing EXCEPT ![d] = Since(d, outcome)]
      /\ failing \in [Devices -> Nat \cup {None}]
  BY DEF Observe, TypeOK
<1>2. outcome \notin Unanswered => failing'[d] = None
  BY <1>1 DEF Since
<1>3. SameBudget
  BY DEF Observe, Spend, TypeOK, Budgets, SameBudget
<1> QED
  BY <1>1, <1>2, <1>3 DEF Exchanged

LEMMA DiscoverEffect ==
  ASSUME TypeOK, Discover
  PROVE  LET d == poll.device IN
         /\ poll.pc = "discover"
         /\ poll'.n = poll.n /\ poll'.force = poll.force /\ poll'.result = poll.result
         /\ poll'.device = d /\ poll'.full = poll.full /\ poll'.reads = poll.reads
         /\ \/ /\ poll'.pc = "read" /\ poll'.incompatible = poll.incompatible
               /\ live'[d] = poll'.layout
               /\ poll'.todo = IF poll'.layout # None THEN Models ELSE {}
               /\ live' = [live EXCEPT ![d] = poll'.layout] /\ failing'[d] = None
            \/ /\ poll'.pc = "failed" /\ live' \in {Reset, [live EXCEPT ![d] = None]}
               /\ live' = Reset \/ failing'[d] = None
               /\ poll'.incompatible \subseteq poll.incompatible \cup {d}
         /\ Exchanged(d) /\ SameBudget /\ UNCHANGED <<Readings, force>>
<1> DEFINE d == poll.device
<1>1. d \in Devices /\ poll \in Polls /\ live \in [Devices -> Layouts \cup {None}]
  BY PollFields DEF TypeOK
<1>2. PICK outcome \in Possible(Outcomes \ {"invalid"}) :
         /\ Observe(d, outcome)
         /\ live' = IF outcome \in Unanswered THEN Reset
                    ELSE [live EXCEPT ![d] = IF outcome = "ok" THEN unit[d].layout ELSE None]
         /\ poll' = [poll EXCEPT
               !.pc = IF outcome \in {"ok", "empty"} THEN "read" ELSE "failed",
               !.layout = IF outcome = "ok" THEN unit[d].layout ELSE None,
               !.todo = IF (IF outcome = "ok" THEN unit[d].layout ELSE None) # None
                          THEN Models ELSE {},
               !.validated = IF outcome \in {"ok", "empty"}
                               THEN poll.validated \cup {d} ELSE poll.validated,
               !.incompatible = IF outcome = "incompatible"
                                  THEN poll.incompatible \cup {d} ELSE poll.incompatible]
  BY DEF Discover
<1>3. outcome \in Outcomes \ {"invalid"}
  BY <1>2 DEF Possible
<1>4. Exchanged(d) /\ SameBudget
  BY <1>1, <1>2, <1>3, ObserveEffect
<1>5. outcome \notin Unanswered => failing'[d] = None
  BY <1>1, <1>2 DEF Observe, Since, TypeOK
<1> DEFINE found == IF outcome = "ok" THEN unit[d].layout ELSE None
           pc == IF outcome \in {"ok", "empty"} THEN "read" ELSE "failed"
           todo == IF found # None THEN Models ELSE {}
           validated == IF outcome \in {"ok", "empty"} THEN poll.validated \cup {d}
                                                       ELSE poll.validated
           incompatible == IF outcome = "incompatible" THEN poll.incompatible \cup {d}
                                                       ELSE poll.incompatible
<1>6. /\ poll'.pc = pc /\ poll'.layout = found /\ poll'.todo = todo
      /\ poll'.incompatible = incompatible
      /\ poll'.n = poll.n /\ poll'.force = poll.force /\ poll'.result = poll.result
      /\ poll'.device = d /\ poll'.full = poll.full /\ poll'.reads = poll.reads
  <2>1. poll' = [poll EXCEPT !.pc = pc, !.layout = found, !.todo = todo,
                            !.validated = validated, !.incompatible = incompatible]
    BY <1>2
  <2> HIDE DEF pc, found, todo, validated, incompatible
  <2> QED
    BY <1>1, <2>1, ZenonT(60) DEF Polls
<1>7. poll.pc = "discover" /\ UNCHANGED <<Readings, force>>
  BY DEF Discover, Readings, results
<1>8. CASE outcome \in {"ok", "empty"}
  <2>1. /\ live' = [live EXCEPT ![d] = found] /\ pc = "read"
        /\ incompatible = poll.incompatible /\ failing'[d] = None
    BY <1>2, <1>5, <1>8 DEF Unanswered
  <2> HIDE DEF found, pc, incompatible
  <2>2. live'[d] = poll'.layout /\ live' = [live EXCEPT ![d] = poll'.layout]
        /\ poll'.todo = IF poll'.layout # None THEN Models ELSE {}
    BY <1>1, <1>6, <2>1
  <2> QED
    BY <1>4, <1>6, <1>7, <2>1, <2>2
<1>9. CASE outcome \notin {"ok", "empty"}
  <2>1. /\ live' \in {Reset, [live EXCEPT ![d] = None]} /\ pc = "failed"
        /\ live' = Reset \/ failing'[d] = None
        /\ incompatible \subseteq poll.incompatible \cup {d}
    BY <1>2, <1>5, <1>9
  <2> HIDE DEF found, pc, incompatible
  <2> QED
    BY <1>4, <1>6, <1>7, <2>1
<1> QED
  BY <1>8, <1>9

LEMMA ReadModelEffect ==
  ASSUME TypeOK, ReadModel
  PROVE  LET d == poll.device IN
         /\ poll.pc = "read" /\ poll'.pc = "read" /\ SamePoll
         /\ poll'.device = d /\ poll'.full = poll.full /\ poll'.layout = poll.layout
         /\ \E m \in poll.todo, s \in Snapshots :
               /\ m \in Models
               /\ s.at = poll.n /\ s.ok # "blank" /\ (s.ok = "ok" => s.of = unit[d])
               /\ poll'.todo = poll.todo \ {m}
               /\ \A x \in Models : poll'.reads[x] = IF x = m THEN s ELSE poll.reads[x]
         /\ live' = live \/ live' = Reset
         /\ Exchanged(d) /\ SameBudget /\ UNCHANGED <<Readings, force>>
<1> DEFINE d == poll.device
           S(o) == [at |-> poll.n, of |-> IF o = "ok" THEN unit[d] ELSE None,
                    ok |-> IF o \in Unanswered THEN "failed" ELSE o]
<1>1. /\ poll \in Polls /\ poll.reads \in Payloads /\ poll.todo \subseteq Models
      /\ d \in Devices /\ poll.n \in Nat /\ unit[d] \in Units
  BY PollFields DEF TypeOK
<1>2. PICK m \in poll.todo, outcome \in Possible({"ok", "failed", "partial", "invalid"}) :
         /\ Observe(d, outcome)
         /\ live' = IF outcome \in Unanswered THEN Reset ELSE live
         /\ poll' = [poll EXCEPT !.todo = poll.todo \ {m}, !.reads[m] = S(outcome)]
  BY DEF ReadModel
<1>3. outcome \in {"ok", "failed", "partial", "invalid"}
  BY <1>2 DEF Possible
<1>4. Exchanged(d) /\ SameBudget
  BY <1>1, <1>2, <1>3, ObserveEffect DEF Outcomes
<1> DEFINE s == S(outcome)
<1>5. s \in Snapshots /\ s.at = poll.n /\ s.ok # "blank" /\ (s.ok = "ok" => s.of = unit[d])
  BY <1>1, <1>3 DEF Snapshots, Unanswered
<1>6. live' = live \/ live' = Reset
  BY <1>2
<1> HIDE DEF S
<1>7. /\ poll'.pc = poll.pc /\ SamePoll /\ poll'.device = d /\ poll'.full = poll.full
      /\ poll'.layout = poll.layout /\ poll'.todo = poll.todo \ {m}
      /\ poll'.reads = [poll.reads EXCEPT ![m] = s]
  BY <1>1, <1>2, ZenonT(60) DEF Polls, SamePoll
<1> HIDE DEF s
<1>8. m \in Models /\ \A x \in Models : poll'.reads[x] = IF x = m THEN s ELSE poll.reads[x]
  BY <1>1, <1>2, <1>7 DEF Payloads
<1>9. poll.pc = "read" /\ UNCHANGED <<Readings, force>>
  BY DEF ReadModel, Readings, results
<1>10. \E x \in poll.todo, y \in Snapshots :
               /\ x \in Models
               /\ y.at = poll.n /\ y.ok # "blank" /\ (y.ok = "ok" => y.of = unit[d])
               /\ poll'.todo = poll.todo \ {x}
               /\ \A z \in Models : poll'.reads[z] = IF z = x THEN y ELSE poll.reads[z]
  BY <1>2, <1>5, <1>7, <1>8
<1> QED
  BY <1>4, <1>6, <1>7, <1>9, <1>10

LEMMA AssembledFields ==
  ASSUME TypeOK, NEW d \in Devices
  PROVE  /\ Assembled(d).layout = poll.layout
         /\ \A m \in Models : Assembled(d).models[m] =
               IF poll.reads[m] # None THEN poll.reads[m] ELSE Cached(d, poll.layout)[m]
  BY DEF Assembled

LEMMA EndDeviceEffect ==
  ASSUME TypeOK, EndDevice
  PROVE  LET d == poll.device
             snapshot == IF poll.pc = "failed" THEN Offline ELSE Assembled(d)
         IN
         /\ \/ poll.pc = "failed"
            \/ poll.pc = "read" /\ poll.todo = {}
         /\ \/ d = NDevices /\ poll'.pc = "epochs" /\ poll'.device = 1
            \/ d # NDevices /\ poll'.pc = "device" /\ poll'.device = d + 1
         /\ poll'.n = poll.n /\ poll'.force = poll.force
         /\ poll'.incompatible = poll.incompatible /\ poll'.validated = poll.validated
         /\ poll'.todo = poll.todo /\ poll'.layout = None /\ poll'.full = FALSE
         /\ poll'.reads = NoPayloads
         /\ poll'.result[d] = snapshot
         /\ \A x \in Devices \ {d} : poll'.result[x] = poll.result[x]
         /\ \/ live' = [live EXCEPT ![d] = None]
            \/ live' = live /\ poll.pc = "read" /\ ~Unread(snapshot)
         /\ UNCHANGED <<Readings, force, failing, budget>>
<1> DEFINE d == poll.device
           snapshot == IF poll.pc = "failed" THEN Offline ELSE Assembled(d)
<1>1. d \in Devices /\ poll \in Polls /\ poll.result \in [Devices -> DeviceSnapshots]
  BY PollFields DEF TypeOK
<1>2. poll.pc = "failed" \/ (poll.pc = "read" /\ poll.todo = {})
  BY DEF EndDevice
<1>3. live' = [live EXCEPT ![d] = None] \/ (live' = live /\ poll.pc = "read" /\ ~Unread(snapshot))
  BY <1>2 DEF EndDevice
<1>4. poll' = [poll EXCEPT
             !.pc = IF d = NDevices THEN "epochs" ELSE "device",
             !.device = NextDevice(d),
             !.started = 0, !.full = FALSE, !.layout = None, !.reads = NoPayloads,
             !.result = [poll.result EXCEPT ![d] = snapshot]]
  BY DEF EndDevice
<1> HIDE DEF snapshot
<1> DEFINE result == [poll.result EXCEPT ![d] = snapshot]
           pc == IF d = NDevices THEN "epochs" ELSE "device"
           device == NextDevice(d)
<1>5. /\ poll'.pc = pc /\ poll'.device = device
      /\ poll'.n = poll.n /\ poll'.force = poll.force
      /\ poll'.incompatible = poll.incompatible /\ poll'.validated = poll.validated
      /\ poll'.todo = poll.todo /\ poll'.layout = None /\ poll'.full = FALSE
      /\ poll'.reads = NoPayloads /\ poll'.result = result
  <2> HIDE DEF result, pc, device, d
  <2> QED
    BY <1>1, <1>4, ZenonT(60) DEF Polls, result, pc, device
<1>6. result[d] = snapshot /\ \A x \in Devices \ {d} : result[x] = poll.result[x]
  BY <1>1
<1>7. \/ d = NDevices /\ pc = "epochs" /\ device = 1
      \/ d # NDevices /\ pc = "device" /\ device = d + 1
  BY DEF NextDevice
<1>8. UNCHANGED <<Readings, force, failing, budget>>
  BY DEF EndDevice, Readings, results, health, outside
<1> HIDE DEF result, pc, device
<1> QED
  BY <1>2, <1>3, <1>5, <1>6, <1>7, <1>8 DEF snapshot

LEMMA BumpEpochsEffect ==
  ASSUME TypeOK, BumpEpochs
  PROVE  /\ poll.pc = "epochs" /\ poll'.pc = "retain" /\ SamePoll /\ SameDevice
         /\ \A d \in Devices : proven_at'[d] = IF Changed(d) THEN poll.n ELSE proven_at[d]
         /\ UNCHANGED <<data, retained, sources, expired_at, unit, requested, published>>
         /\ UNCHANGED <<force, live, failing, budget>>
<1>1. poll \in Polls
  BY DEF TypeOK
<1>2. poll'.pc = "retain" /\ SamePoll /\ SameDevice
  BY <1>1 DEF BumpEpochs, Polls, SamePoll, SameDevice
<1> QED
  BY <1>2 DEF BumpEpochs, reading, health, outside

LEMMA RetainEffect ==
  ASSUME TypeOK, Retain
  PROVE  /\ poll.pc = "retain" /\ poll'.pc = "health" /\ SamePoll /\ SameDevice
         /\ \A d \in Devices : retained'[d] = Retained(d)
         /\ UNCHANGED <<data, sources, expired_at, proven_at, unit, requested, published>>
         /\ UNCHANGED <<force, live, failing, budget>>
<1>1. poll \in Polls
  BY DEF TypeOK
<1>2. poll'.pc = "health" /\ SamePoll /\ SameDevice
  BY <1>1 DEF Retain, Polls, SamePoll, SameDevice
<1> QED
  BY <1>2 DEF Retain, reading, health, outside, history

LEMMA UpdateHealthEffect ==
  ASSUME TypeOK, UpdateHealth
  PROVE  /\ poll.pc = "health" /\ poll'.pc = "answer" /\ SamePoll /\ SameDevice
         /\ \A d \in Devices :
              \/ /\ expired_at'[d] = poll.n /\ sources'[d] = retained[d].models
                 /\ failing[d] # None
              \/ expired_at'[d] = expired_at[d] /\ sources'[d] = sources[d]
         /\ UNCHANGED <<data, retained, proven_at, unit, requested, published>>
         /\ UNCHANGED <<force, live, failing, budget>>
<1>1. poll \in Polls
  BY DEF TypeOK
<1>2. poll'.pc = "answer" /\ SamePoll /\ SameDevice
  BY <1>1 DEF UpdateHealth, Polls, SamePoll, SameDevice
<1>3. ASSUME NEW d \in Devices
      PROVE  \/ /\ expired_at'[d] = poll.n /\ sources'[d] = retained[d].models
                /\ failing[d] # None
             \/ expired_at'[d] = expired_at[d] /\ sources'[d] = sources[d]
  BY DEF UpdateHealth, Suppressed, Overdue
<1> QED
  BY <1>2, <1>3 DEF UpdateHealth, reading, results, outside

(* poll between two polls. *)
Idle == /\ poll'.pc = "idle" /\ poll'.n = poll.n /\ poll'.force = FALSE /\ poll'.device = 1
        /\ poll'.full = FALSE /\ poll'.layout = None /\ poll'.todo = {}
        /\ poll'.reads = NoPayloads /\ poll'.result = [d \in Devices |-> Offline]
        /\ poll'.incompatible = {} /\ poll'.validated = {}

LEMMA PublishEffect ==
  ASSUME TypeOK, Publish
  PROVE  /\ poll.pc = "answer" /\ Idle
         /\ data' = poll.result /\ published' = poll.n
         /\ UNCHANGED <<retained, sources, expired_at, proven_at, unit, requested>>
         /\ UNCHANGED <<force, live, failing, budget>>
<1>1. poll.n \in Nat
  BY PollFields DEF TypeOK
<1>2. Idle
  BY <1>1, NoPollFields DEF Publish, Idle
<1> QED
  BY <1>2 DEF Publish, Adopted, reading, health, outside

LEMMA AbandonEffect ==
  ASSUME TypeOK, Abandon
  PROVE  /\ poll.pc = "answer" /\ Idle
         /\ budget.cancels > 0 /\ budget'.cancels = budget.cancels - 1
         /\ budget'.swaps = budget.swaps
         /\ UNCHANGED <<Readings, force, live, failing>>
<1>1. poll.n \in Nat
  BY PollFields DEF TypeOK
<1>2. Idle
  BY <1>1, NoPollFields DEF Abandon, Idle
<1>3. budget'.cancels = budget.cancels - 1 /\ budget'.swaps = budget.swaps
  BY DEF Abandon, TypeOK, Budgets
<1> QED
  BY <1>2, <1>3 DEF Abandon, Readings, reading, results, health, history

LEMMA RequestRefreshEffect ==
  ASSUME TypeOK, RequestRefresh
  PROVE  /\ poll' = poll /\ force' = TRUE /\ requested' = poll.n /\ SameBudget
         /\ UNCHANGED <<data, retained, sources, expired_at, proven_at, unit, published>>
         /\ UNCHANGED <<live, failing>>
<1>1. SameBudget
  BY DEF RequestRefresh, TypeOK, Budgets, SameBudget
<1> QED
  BY <1>1 DEF RequestRefresh, results, health

LEMMA ReplaceEffect ==
  ASSUME TypeOK, NEW d \in Devices, Replace(d)
  PROVE  /\ poll.pc = "idle" /\ poll' = poll
         /\ live' = live \/ live' = Reset
         /\ budget.swaps > 0 /\ budget'.swaps = budget.swaps - 1
         /\ budget'.cancels = budget.cancels
         /\ UNCHANGED <<data, retained, sources, expired_at, proven_at, requested, published>>
         /\ UNCHANGED <<force, failing>>
<1>1. budget'.swaps = budget.swaps - 1 /\ budget'.cancels = budget.cancels
  BY DEF Replace, TypeOK, Budgets
<1> QED
  BY <1>1 DEF Replace, results, health, history

LEMMA QuietEffect ==
  ASSUME SetTimeout \/ Tick \/ UNCHANGED vars
  PROVE  UNCHANGED <<poll, Readings, force, live, failing, budget>>
  BY DEF SetTimeout, Tick, vars, Readings, reading, results, health, outside, history

(* How the budgets of cancelled refreshes and replaced units are spent.       *)
LEMMA BudgetSteps ==
  ASSUME TypeOK, [Next]_vars
  PROVE  /\ {budget.cancels, budget.swaps} \subseteq Nat
         /\ \/ budget'.cancels = budget.cancels
            \/ Abandon /\ budget'.cancels = budget.cancels - 1
         /\ \/ budget'.swaps = budget.swaps
            \/ budget'.swaps = budget.swaps - 1 /\ \E d \in Devices : Replace(d)
         /\ ~Abandon => budget'.cancels = budget.cancels
<1>1. {budget.cancels, budget.swaps} \subseteq Nat
  BY DEF TypeOK, Budgets
<1>2. CASE StartPoll \/ BeginDevice
  BY <1>1, <1>2, StartPollEffect, BeginDeviceEffect DEF Readings
<1>3. CASE Discover \/ ReadModel
  BY <1>1, <1>3, DiscoverEffect, ReadModelEffect DEF SameBudget
<1>4. CASE EndDevice \/ BumpEpochs \/ Retain \/ UpdateHealth \/ Publish
  BY <1>1, <1>4, EndDeviceEffect, BumpEpochsEffect, RetainEffect, UpdateHealthEffect,
     PublishEffect
<1>5. CASE Abandon
  BY <1>1, <1>5, AbandonEffect
<1>6. CASE RequestRefresh
  BY <1>1, <1>6, RequestRefreshEffect DEF SameBudget
<1>7. ASSUME NEW d \in Devices, Replace(d)
      PROVE  budget'.cancels = budget.cancels /\ budget'.swaps = budget.swaps - 1
  BY <1>7, ReplaceEffect
<1>8. CASE SetTimeout \/ Tick \/ UNCHANGED vars
  BY <1>1, <1>8, QuietEffect
<1> QED
  BY <1>1, <1>2, <1>3, <1>4, <1>5, <1>6, <1>7, <1>8 DEF Next, Worker, Outside

(* What has been cancelled or replaced stays so.                              *)
LEMMA BudgetBackwards ==
  ASSUME TypeOK, BudgetIsSpent, [Next]_vars
  PROVE  /\ BudgetIsSpent'
         /\ Uncancelled' => Uncancelled /\ ~Abandon
         /\ budget'.swaps = MaxSwaps => budget.swaps = MaxSwaps /\ ~\E d \in Devices : Replace(d)
         /\ NamedAtOnce' => NamedAtOnce
         /\ Steady' => Steady /\ ~Abandon
<1>1. /\ {budget.cancels, budget.swaps, MaxCancels, MaxSwaps} \subseteq Nat
      /\ budget.cancels <= MaxCancels /\ budget.swaps <= MaxSwaps
  BY ConstantAssumption, BudgetSteps DEF BudgetIsSpent
<1>2. BudgetIsSpent'
  BY <1>1, BudgetSteps DEF BudgetIsSpent
<1>3. Uncancelled' => Uncancelled /\ ~Abandon
  <2>1. Abandon => budget'.cancels = budget.cancels - 1
    BY AbandonEffect
  <2> QED
    BY <1>1, <2>1, BudgetSteps DEF Uncancelled
<1>4. budget'.swaps = MaxSwaps => budget.swaps = MaxSwaps /\ ~\E d \in Devices : Replace(d)
  <2>1. \A d \in Devices : Replace(d) => budget'.swaps = budget.swaps - 1
    BY ReplaceEffect
  <2> QED
    BY <1>1, <2>1, BudgetSteps
<1>5. NamedAtOnce' => NamedAtOnce
  BY <1>4 DEF NamedAtOnce
<1> QED
  BY <1>2, <1>3, <1>4, <1>5 DEF Steady

LEMMA ResultIsPast ==
  ASSUME TypeOK, ReadingsArePast, CachedIsPublished, NEW d \in Devices, NEW m \in Models,
         poll.result[d].models[m] # None
  PROVE  poll.result[d].models[m].at <= poll.n
<1>1. poll.n \in Nat /\ poll.result[d].models[m].at \in Nat
  BY ReadingTypes, SnapshotFields
<1> QED
  BY <1>1 DEF ReadingsArePast, CachedIsPublished

LEMMA RetainedCases ==
  ASSUME TypeOK, NEW d \in Devices, NEW m \in Models
  PROVE  \/ d \in poll.incompatible /\ Retained(d).models[m] = None
         \/ /\ Retained(d) = retained[d] /\ ~Changed(d) /\ d \notin poll.incompatible
            /\ \A x \in Models : poll.result[d].models[x] = None
         \/ /\ d \notin poll.incompatible
            /\ Retained(d).layout = poll.result[d].layout
            /\ Retained(d).models[m] = Kept(d, m)
            /\ poll.result[d].models # NoPayloads \/ Changed(d)
<1>1. CASE d \in poll.incompatible
  BY <1>1, OfflineFields DEF Retained
<1>2. CASE d \notin poll.incompatible /\ poll.result[d].models = NoPayloads /\ ~Changed(d)
  BY <1>2, OfflineFields DEF Retained
<1>3. CASE d \notin poll.incompatible /\ ~(poll.result[d].models = NoPayloads /\ ~Changed(d))
  <2> DEFINE kept == [x \in Models |-> Kept(d, x)]
  <2>1. Retained(d) = [layout |-> poll.result[d].layout, models |-> kept,
                       available |-> Readable(kept)]
    BY <1>3 DEF Retained
  <2>2. kept[m] = Kept(d, m)
    OBVIOUS
  <2> HIDE DEF kept
  <2>3. Retained(d).layout = poll.result[d].layout /\ Retained(d).models = kept
    BY <2>1
  <2> QED
    BY <1>3, <2>2, <2>3
<1> QED
  BY <1>1, <1>2, <1>3

LEMMA KeptCases ==
  ASSUME TypeOK, NEW d \in Devices, NEW m \in Models
  PROVE  LET new == poll.result[d].models[m]
             old == retained[d].models[m]
         IN  \/ new = None /\ Kept(d, m) = None
             \/ new # None /\ Changed(d) /\ new = old /\ Kept(d, m) = Blank
             \/ new # None /\ Changed(d) /\ new # old /\ Kept(d, m) = new
             \/ /\ new # None /\ ~Changed(d) /\ new.ok = "failed"
                /\ old # None /\ Kept(d, m) = old
             \/ /\ new # None /\ ~Changed(d) /\ (new.ok # "failed" \/ old = None)
                /\ Kept(d, m) = new
  BY DEF Kept

LEMMA BlankFields ==
  ASSUME TypeOK
  PROVE  Blank # None /\ Blank.at = poll.n /\ Blank.ok = "blank"
<1>1. poll.n \in Nat
  BY PollFields DEF TypeOK
<1>2. Blank \in Snapshots
  BY <1>1 DEF Blank, Snapshots
<1> QED
  BY <1>2, NoneAssumption DEF Blank

(* What retention makes of one model.                                         *)
LEMMA RetainedFrom ==
  ASSUME TypeOK, NEW d \in Devices, NEW m \in Models
  PROVE  Retained(d).models[m] \in
            {None, Blank, poll.result[d].models[m], retained[d].models[m]}
  BY RetainedCases, KeptCases

LEMMA PastInductive ==
  ASSUME TypeOK, CachedIsPublished, ReadingsArePast, [Next]_vars
  PROVE  ReadingsArePast'
<1>1. ASSUME NEW d \in Devices, NEW m \in Models
      PROVE  /\ {data[d].models[m], retained[d].models[m], sources[d][m],
                 poll.result[d].models[m]} \subseteq Snapshots \cup {None}
             /\ poll.n \in Nat /\ proven_at[d] \in Nat
  BY ReadingTypes
<1>2. \A s \in Snapshots : s.at \in Nat
  BY SnapshotFields
<1>3. poll.n \in Nat /\ \A d \in Devices : proven_at[d] \in Nat
  BY PollFields DEF TypeOK
<1>4. CASE StartPoll
  <2>1. /\ poll'.n = poll.n + 1 /\ poll'.pc = "device"
        /\ UNCHANGED <<data, retained, sources, proven_at>>
    BY <1>4, StartPollEffect DEF Readings
  <2> QED
    BY <1>1, <1>2, <1>3, <2>1 DEF ReadingsArePast
<1>5. CASE BeginDevice \/ Discover \/ ReadModel \/ EndDevice
  <2>1. /\ poll'.n = poll.n /\ poll'.pc \notin {"idle", "health", "answer"}
        /\ poll.pc \notin {"idle", "health", "answer"}
        /\ UNCHANGED <<data, retained, sources, proven_at>>
    BY <1>5, BeginDeviceEffect, DiscoverEffect, ReadModelEffect, EndDeviceEffect
    DEF Readings, SamePoll
  <2> QED
    BY <2>1 DEF ReadingsArePast
<1>6. CASE BumpEpochs
  <2>1. /\ poll'.n = poll.n /\ poll.pc = "epochs" /\ poll'.pc = "retain"
        /\ UNCHANGED <<data, retained, sources>>
        /\ \A d \in Devices : proven_at'[d] \in {proven_at[d], poll.n}
    BY <1>6, BumpEpochsEffect DEF SamePoll
  <2> QED
    BY <1>3, <2>1 DEF ReadingsArePast
<1>7. CASE Retain
  <2>1. /\ poll'.n = poll.n /\ poll.pc = "retain" /\ poll'.pc = "health"
        /\ UNCHANGED <<data, sources, proven_at>>
        /\ \A d \in Devices : retained'[d] = Retained(d)
    BY <1>7, RetainEffect DEF SamePoll
  <2>2. ASSUME NEW d \in Devices, NEW m \in Models, retained'[d].models[m] # None
        PROVE  retained'[d].models[m].at <= poll.n
    <3>1. Retained(d).models[m] \in
             {None, Blank, poll.result[d].models[m], retained[d].models[m]}
      BY RetainedFrom
    <3>2. Blank.at = poll.n /\ poll.n <= poll.n
      BY <1>3, BlankFields
    <3>3. poll.result[d].models[m] # None => poll.result[d].models[m].at <= poll.n
      BY ResultIsPast
    <3>4. retained[d].models[m] # None => retained[d].models[m].at <= poll.n
      BY DEF ReadingsArePast
    <3> QED
      BY <2>1, <2>2, <3>1, <3>2, <3>3, <3>4
  <2> QED
    BY <2>1, <2>2 DEF ReadingsArePast
<1>8. CASE UpdateHealth
  <2>1. /\ poll'.n = poll.n /\ poll.pc = "health" /\ poll'.pc = "answer"
        /\ UNCHANGED <<data, retained, proven_at>>
        /\ \A d \in Devices : sources'[d] = sources[d] \/ sources'[d] = retained[d].models
    BY <1>8, UpdateHealthEffect DEF SamePoll
  <2> QED
    BY <2>1 DEF ReadingsArePast
<1>9. CASE Publish
  <2>1. /\ poll'.n = poll.n /\ poll.pc = "answer" /\ poll'.pc = "idle"
        /\ UNCHANGED <<retained, sources, proven_at>> /\ data' = poll.result
    BY <1>9, PublishEffect DEF Idle
  <2>2. \A d \in Devices, m \in Models :
          poll.result[d].models[m] # None => poll.result[d].models[m].at <= poll.n
    BY ResultIsPast
  <2> QED
    BY <2>1, <2>2 DEF ReadingsArePast
<1>10. CASE Abandon
  <2>1. /\ poll'.n = poll.n /\ poll.pc = "answer" /\ poll'.pc = "idle"
        /\ UNCHANGED <<data, retained, sources, proven_at>>
    BY <1>10, AbandonEffect DEF Idle, Readings
  <2> QED
    BY <2>1 DEF ReadingsArePast
<1>11. CASE Outside \/ UNCHANGED vars
  <2>1. UNCHANGED <<poll, data, retained, sources, proven_at>>
    BY <1>11, RequestRefreshEffect, ReplaceEffect, QuietEffect DEF Outside, Readings
  <2> QED
    BY <2>1 DEF ReadingsArePast
<1> QED
  BY <1>4, <1>5, <1>6, <1>7, <1>8, <1>9, <1>10, <1>11 DEF Next, Worker

LEMMA CompleteOffline == Complete(Offline)
  BY OfflineFields DEF Complete

LEMMA CachedCases ==
  ASSUME TypeOK, NEW d \in Devices, NEW layout, NEW m \in Models
  PROVE  \/ (layout = None \/ data[d].layout # layout) /\ Cached(d, layout)[m] = None
         \/ layout # None /\ data[d].layout = layout /\ Cached(d, layout)[m] = data[d].models[m]
  BY OfflineFields DEF Cached

(* A poll that has read its selection has made a complete snapshot.           *)
LEMMA AssembledIsComplete ==
  ASSUME TypeOK, DevicesAreComplete, poll.pc = "read", poll.todo = {}
  PROVE  Complete(Assembled(poll.device))
<1> DEFINE d == poll.device
<1>1. d \in Devices
  BY PollFields DEF TypeOK
<1>2. SUFFICES ASSUME NEW m \in Models
               PROVE  IF Assembled(d).layout = None THEN Assembled(d).models[m] = None
                      ELSE Assembled(d).models[m] # None /\ Assembled(d).models[m].ok # "blank"
  BY DEF Complete
<1>3. /\ Assembled(d).layout = poll.layout
      /\ Assembled(d).models[m] = IF poll.reads[m] # None THEN poll.reads[m]
                                  ELSE Cached(d, poll.layout)[m]
  BY <1>1, AssembledFields
<1>4. CASE poll.layout = None
  BY <1>1, <1>3, <1>4, CachedCases DEF DevicesAreComplete
<1>5. CASE poll.layout # None
  <2>1. poll.reads[m] # None \/ Cached(d, poll.layout)[m] # None
    BY <1>5 DEF DevicesAreComplete
  <2>2. poll.reads[m] # None => poll.reads[m].ok # "blank"
    BY DEF DevicesAreComplete
  <2>3. ASSUME Cached(d, poll.layout)[m] # None  PROVE Cached(d, poll.layout)[m].ok # "blank"
    <3>1. data[d].layout # None /\ Cached(d, poll.layout)[m] = data[d].models[m]
      BY <1>1, <2>3, CachedCases
    <3>2. Complete(data[d])
      BY <1>1 DEF DevicesAreComplete
    <3> QED
      BY <3>1, <3>2 DEF Complete
  <2> QED
    BY <1>3, <1>5, <2>1, <2>2, <2>3
<1> QED
  BY <1>4, <1>5

LEMMA CompleteInductive ==
  ASSUME TypeOK, DevicesAreComplete, [Next]_vars
  PROVE  DevicesAreComplete'
<1> DEFINE P == \A d \in Devices : Complete(data[d]) /\ Complete(poll.result[d])
           Q == \A m \in Models :
                  poll.reads[m] # None => poll.pc = "read" /\ poll.reads[m].ok # "blank"
           R == poll.pc = "read" =>
                  \A m \in Models :
                    IF poll.layout = None THEN m \notin poll.todo /\ poll.reads[m] = None
                    ELSE \/ m \in poll.todo \/ poll.reads[m] # None
                         \/ Cached(poll.device, poll.layout)[m] # None
<1>1. P /\ Q /\ R
  BY Zenon DEF DevicesAreComplete
<1>2. \A m \in Models : NoPayloads[m] = None
  BY OfflineFields
<1>3. SUFFICES P' /\ Q' /\ R'
  BY Zenon DEF DevicesAreComplete
<1>4. CASE StartPoll
  <2>1. /\ data' = data /\ poll'.result = [d \in Devices |-> Offline]
        /\ poll'.reads = NoPayloads /\ poll'.pc = "device"
    BY <1>4, StartPollEffect DEF Readings
  <2>2. P'
    <3>1. SUFFICES ASSUME NEW d \in Devices  PROVE Complete(data'[d]) /\ Complete(poll'.result[d])
      BY DEF Complete
    <3>2. data'[d] = data[d] /\ poll'.result[d] = Offline
      BY <2>1
    <3> QED
      BY <1>1, <3>2, CompleteOffline
  <2> QED
    BY <1>2, <2>1, <2>2
<1>5. CASE BeginDevice
  <2>1. /\ data' = data /\ poll'.result = poll.result /\ poll'.device = poll.device
        /\ poll'.reads = NoPayloads
        /\ \/ poll'.pc = "discover"
           \/ /\ poll'.pc = "read" /\ poll'.layout # None
              /\ poll'.todo = Selected(poll.device, poll'.layout, poll'.full)
    BY <1>5, BeginDeviceEffect DEF Readings, SamePoll
  <2>2. P'
    BY <1>1, <2>1 DEF Complete
  <2>3. ASSUME NEW m \in Models, poll'.pc = "read"
        PROVE  m \in poll'.todo \/ Cached(poll.device, poll'.layout)[m] # None
    BY <2>1, <2>3 DEF Selected
  <2>4. Cached(poll.device, poll'.layout) = Cached(poll.device, poll.layout)'
    BY <2>1 DEF Cached
  <2> QED
    BY <1>2, <2>1, <2>2, <2>3, <2>4
<1>6. CASE Discover
  <2>1. /\ data' = data /\ poll'.result = poll.result /\ poll'.reads = poll.reads
        /\ poll.pc = "discover"
        /\ poll'.pc = "read" => poll'.todo = IF poll'.layout # None THEN Models ELSE {}
    BY <1>6, DiscoverEffect DEF Readings
  <2>2. P'
    BY <1>1, <2>1 DEF Complete
  <2>3. \A m \in Models : poll'.reads[m] = None
    BY <1>1, <2>1
  <2> QED
    BY <2>1, <2>2, <2>3
<1>7. CASE ReadModel
  <2>1. /\ data' = data /\ poll'.result = poll.result /\ poll'.device = poll.device
        /\ poll'.layout = poll.layout /\ poll.pc = "read" /\ poll'.pc = "read"
    BY <1>7, ReadModelEffect DEF Readings, SamePoll
  <2>2. PICK m \in poll.todo, s \in Snapshots :
           /\ m \in Models /\ s.ok # "blank"
           /\ poll'.todo = poll.todo \ {m}
           /\ \A x \in Models : poll'.reads[x] = IF x = m THEN s ELSE poll.reads[x]
    BY <1>7, ReadModelEffect
  <2>3. P'
    BY <1>1, <2>1 DEF Complete
  <2>4. Cached(poll.device, poll.layout) = Cached(poll.device, poll.layout)'
    BY <2>1 DEF Cached
  <2>5. Q'
    BY <1>1, <2>1, <2>2
  <2>6. poll.layout # None
    BY <1>1, <2>1, <2>2
  <2>7. R'
    BY <1>1, <2>1, <2>2, <2>4, <2>6, SnapshotFields
  <2> QED
    BY <2>3, <2>5, <2>7
<1>8. CASE EndDevice
  <2> DEFINE d == poll.device
             snapshot == IF poll.pc = "failed" THEN Offline ELSE Assembled(d)
  <2>1. /\ data' = data /\ poll'.result[d] = snapshot
        /\ \A x \in Devices \ {d} : poll'.result[x] = poll.result[x]
        /\ poll'.reads = NoPayloads /\ poll'.pc # "read"
    BY <1>8, EndDeviceEffect DEF Readings
  <2>2. poll.pc = "failed" \/ (poll.pc = "read" /\ poll.todo = {})
    BY <1>8, EndDeviceEffect
  <2>3. Complete(snapshot)
    BY <2>2, AssembledIsComplete, CompleteOffline
  <2>4. P'
    <3>1. SUFFICES ASSUME NEW x \in Devices  PROVE Complete(data'[x]) /\ Complete(poll'.result[x])
      BY DEF Complete
    <3>2. data'[x] = data[x] /\ poll'.result[x] = IF x = d THEN snapshot ELSE poll.result[x]
      BY <2>1
    <3> HIDE DEF snapshot
    <3> QED
      BY <1>1, <2>3, <3>2
  <2> QED
    BY <1>2, <2>1, <2>4
<1>9. CASE BumpEpochs \/ Retain \/ UpdateHealth
  <2>1. /\ data' = data /\ poll'.result = poll.result /\ poll'.reads = poll.reads
        /\ poll.pc # "read" /\ poll'.pc # "read"
    BY <1>9, BumpEpochsEffect, RetainEffect, UpdateHealthEffect DEF SamePoll, SameDevice
  <2> QED
    BY <1>1, <2>1 DEF Complete
<1>10. CASE Publish \/ Abandon
  <2>1. /\ data' = data \/ data' = poll.result
        /\ poll'.result = [d \in Devices |-> Offline]
        /\ poll'.reads = NoPayloads /\ poll'.pc = "idle"
    BY <1>10, PublishEffect, AbandonEffect DEF Readings, Idle
  <2>2. P'
    <3>1. SUFFICES ASSUME NEW d \in Devices  PROVE Complete(data'[d]) /\ Complete(poll'.result[d])
      BY DEF Complete
    <3>2. data'[d] \in {data[d], poll.result[d]} /\ poll'.result[d] = Offline
      BY <2>1
    <3> QED
      BY <1>1, <3>2, CompleteOffline
  <2> QED
    BY <1>2, <2>1, <2>2
<1>11. CASE Outside \/ UNCHANGED vars
  <2>1. UNCHANGED <<poll, data>>
    BY <1>11, RequestRefreshEffect, ReplaceEffect, QuietEffect DEF Outside, Readings
  <2> QED
    BY <1>1, <2>1 DEF Complete, Cached
<1> QED
  BY <1>4, <1>5, <1>6, <1>7, <1>8, <1>9, <1>10, <1>11 DEF Next, Worker

(* What the end of a device adds to the result.                               *)
LEMMA EndedResult ==
  ASSUME TypeOK, ResultIsNew, DevicesAreComplete, EndDevice, NEW m \in Models,
         poll'.result[poll.device].models[m] # None
  PROVE  LET d == poll.device
             new == poll'.result[d].models[m]
         IN  /\ poll.pc = "read" /\ poll.todo = {} /\ poll.layout # None
             /\ poll'.result[d].layout = poll.layout
             /\ \/ poll.reads[m] # None /\ new = poll.reads[m] /\ new.at = poll.n
                \/ /\ poll.reads[m] = None /\ data[d].layout = poll.layout
                   /\ new = data[d].models[m]
<1> DEFINE d == poll.device
           new == poll'.result[d].models[m]
<1>1. d \in Devices
  BY PollFields DEF TypeOK
<1>2. poll'.result[d] = IF poll.pc = "failed" THEN Offline ELSE Assembled(d)
  BY EndDeviceEffect
<1>3. poll.pc = "read" /\ poll.todo = {}
  <2>1. poll.pc # "failed"
    BY <1>2, OfflineFields
  <2> QED
    BY <2>1, EndDeviceEffect
<1>4. /\ poll'.result[d].layout = poll.layout
      /\ new = IF poll.reads[m] # None THEN poll.reads[m] ELSE Cached(d, poll.layout)[m]
  BY <1>1, <1>2, <1>3, AssembledFields
<1>5. CASE poll.reads[m] # None
  <2>1. poll.reads[m].at = poll.n
    BY <1>5 DEF ResultIsNew
  <2>2. poll.layout # None
    BY <1>3, <1>5 DEF DevicesAreComplete
  <2> QED
    BY <1>3, <1>4, <1>5, <2>1, <2>2
<1>6. CASE poll.reads[m] = None
  <2>1. Cached(d, poll.layout)[m] # None
    BY <1>4, <1>6
  <2>2. poll.layout # None /\ data[d].layout = poll.layout /\ Cached(d, poll.layout)[m] = data[d].models[m]
    BY <1>1, <2>1, CachedCases
  <2> QED
    BY <1>3, <1>4, <1>6, <2>2
<1> QED
  BY <1>5, <1>6

LEMMA CachedInductive ==
  ASSUME TypeOK, ResultIsNew, DevicesAreComplete, CachedIsPublished, [Next]_vars
  PROVE  CachedIsPublished'
<1>1. CASE StartPoll
  <2>1. poll'.result = [d \in Devices |-> Offline]
    BY <1>1, StartPollEffect
  <2> QED
    BY <2>1, OfflineFields DEF CachedIsPublished
<1>2. CASE EndDevice
  <2>1. /\ data' = data /\ poll'.n = poll.n
        /\ \A x \in Devices \ {poll.device} : poll'.result[x] = poll.result[x]
    BY <1>2, EndDeviceEffect DEF Readings
  <2>2. ASSUME NEW m \in Models, poll'.result[poll.device].models[m] # None,
               poll'.result[poll.device].models[m].at # poll.n
        PROVE  /\ poll'.result[poll.device].models[m] = data[poll.device].models[m]
               /\ poll'.result[poll.device].layout = data[poll.device].layout
    BY <1>2, <2>2, EndedResult
  <2>3. ASSUME NEW d \in Devices, NEW m \in Models, poll'.result[d].models[m] # None,
               poll'.result[d].models[m].at # poll'.n
        PROVE  /\ poll'.result[d].models[m] = data'[d].models[m]
               /\ poll'.result[d].layout = data'[d].layout
    <3>1. CASE d = poll.device
      BY <2>1, <2>2, <2>3, <3>1
    <3>2. CASE d # poll.device
      BY <2>1, <2>3, <3>2 DEF CachedIsPublished
    <3> QED
      BY <3>1, <3>2
  <2> QED
    BY <2>3 DEF CachedIsPublished
<1>3. CASE BeginDevice \/ Discover \/ ReadModel
  <2>1. data' = data /\ poll'.n = poll.n /\ poll'.result = poll.result
    BY <1>3, BeginDeviceEffect, DiscoverEffect, ReadModelEffect DEF Readings, SamePoll
  <2> QED
    BY <2>1 DEF CachedIsPublished
<1>4. CASE BumpEpochs \/ Retain \/ UpdateHealth
  <2>1. data' = data /\ poll'.n = poll.n /\ poll'.result = poll.result
    BY <1>4, BumpEpochsEffect, RetainEffect, UpdateHealthEffect DEF SamePoll
  <2> QED
    BY <2>1 DEF CachedIsPublished
<1>5. CASE Publish \/ Abandon
  <2>1. poll'.result = [d \in Devices |-> Offline]
    BY <1>5, PublishEffect, AbandonEffect DEF Idle
  <2> QED
    BY <2>1, OfflineFields DEF CachedIsPublished
<1>6. CASE Outside \/ UNCHANGED vars
  <2>1. UNCHANGED <<poll, data>>
    BY <1>6, RequestRefreshEffect, ReplaceEffect, QuietEffect DEF Outside, Readings
  <2> QED
    BY <2>1 DEF CachedIsPublished
<1> QED
  BY <1>1, <1>2, <1>3, <1>4, <1>5, <1>6 DEF Next, Worker

LEMMA TogetherInductive ==
  ASSUME TypeOK, ResultIsNew, DevicesAreComplete, ReadingsArePast, SlowTogether, [Next]_vars
  PROVE  SlowTogether'
<1> DEFINE New(d, m) == poll.result[d].models[m]
           P == \A d \in Devices, m \in Models \ FastModels :
                  New(d, m) # None /\ New(d, m).at = poll.n => ReadAll(d)
           Q == poll.force => \A d \in Devices : ReadAll(d)
           F == poll.pc = "discover" \/ (poll.pc = "read" /\ poll.force) => poll.full
           S == poll.pc = "read" /\ poll.layout # None =>
                  IF poll.full \/ data[poll.device].layout # poll.layout
                    THEN \A m \in Models : m \in poll.todo \/ poll.reads[m] # None
                    ELSE \A m \in Models \ FastModels : m \notin poll.todo /\ poll.reads[m] = None
<1>1. P /\ Q /\ F /\ S
  BY Zenon DEF SlowTogether
<1>2. SUFFICES P' /\ Q' /\ F' /\ S'
  BY Zenon DEF SlowTogether
<1>3. ASSUME UNCHANGED <<data>>, poll'.n = poll.n, poll'.force = poll.force,
             poll'.result = poll.result
      PROVE  P' /\ Q'
  BY <1>1, <1>3 DEF ReadAll
<1>4. ASSUME poll'.result = [d \in Devices |-> Offline]
      PROVE  P' /\ Q'
  <2>1. \A d \in Devices, m \in Models : poll'.result[d].models[m] = None
    BY <1>4, OfflineFields
  <2> QED
    BY <2>1 DEF ReadAll
<1>5. CASE StartPoll
  <2>1. poll'.pc = "device" /\ poll'.result = [d \in Devices |-> Offline]
    BY <1>5, StartPollEffect
  <2> QED
    BY <1>4, <2>1
<1>6. CASE BeginDevice
  <2>1. /\ data' = data /\ poll'.n = poll.n /\ poll'.force = poll.force
        /\ poll'.result = poll.result /\ poll'.device = poll.device
        /\ poll'.reads = NoPayloads /\ poll.pc = "device"
    BY <1>6, BeginDeviceEffect DEF Readings, SamePoll
  <2>2. CASE poll'.pc = "discover"
    <3>1. poll'.full = TRUE
      BY <1>6, <2>2, BeginDeviceEffect
    <3> QED
      BY <1>3, <2>1, <2>2, <3>1
  <2>3. CASE poll'.pc # "discover"
    <3>1. /\ poll'.pc = "read" /\ poll.force => poll'.full = TRUE
          /\ poll'.layout # None
          /\ poll'.todo = Selected(poll.device, poll'.layout, poll'.full)
      BY <1>6, <2>3, BeginDeviceEffect
    <3>2. F'
      BY <1>6, <2>1, <2>3, BeginDeviceEffect
    <3>3. poll.device \in Devices
      BY PollFields DEF TypeOK
    <3>4. ASSUME poll'.full \/ data[poll.device].layout # poll'.layout, NEW m \in Models
          PROVE  m \in poll'.todo
      BY <3>1, <3>3, <3>4, CachedCases DEF Selected
    <3>5. ASSUME ~(poll'.full \/ data[poll.device].layout # poll'.layout),
                 NEW m \in Models \ FastModels
          PROVE  m \notin poll'.todo /\ poll'.reads[m] = None
      <4>1. data[poll.device].layout = poll'.layout /\ poll'.layout # None
        BY <3>1, <3>5
      <4>2. data[poll.device].models[m] # None
        BY <3>3, <4>1 DEF DevicesAreComplete, Complete
      <4>3. Cached(poll.device, poll'.layout)[m] # None
        BY <3>3, <4>1, <4>2, CachedCases
      <4> QED
        BY <2>1, <3>1, <3>5, <4>3, OfflineFields DEF Selected
    <3>6. S'
      BY <2>1, <3>4, <3>5
    <3> QED
      BY <1>3, <2>1, <3>2, <3>6
  <2> QED
    BY <2>2, <2>3
<1>7. CASE Discover
  <2>1. /\ data' = data /\ poll'.n = poll.n /\ poll'.force = poll.force
        /\ poll'.result = poll.result /\ poll'.device = poll.device
        /\ poll'.full = poll.full /\ poll.pc = "discover"
        /\ poll'.pc = "failed" \/ (poll'.pc = "read" /\
              poll'.todo = IF poll'.layout # None THEN Models ELSE {})
    BY <1>7, DiscoverEffect DEF Readings
  <2>2. poll.full
    BY <1>1, <2>1
  <2> QED
    BY <1>3, <2>1, <2>2
<1>8. CASE ReadModel
  <2>1. /\ data' = data /\ poll'.n = poll.n /\ poll'.force = poll.force
        /\ poll'.result = poll.result /\ poll'.device = poll.device
        /\ poll'.full = poll.full /\ poll'.layout = poll.layout
        /\ poll.pc = "read" /\ poll'.pc = "read"
    BY <1>8, ReadModelEffect DEF Readings, SamePoll
  <2>2. PICK m \in poll.todo, s \in Snapshots :
           /\ m \in Models /\ poll'.todo = poll.todo \ {m}
           /\ \A x \in Models : poll'.reads[x] = IF x = m THEN s ELSE poll.reads[x]
    BY <1>8, ReadModelEffect
  <2>3. s # None
    BY SnapshotFields
  <2>4. ASSUME poll.layout # None  PROVE
           IF poll.full \/ data[poll.device].layout # poll.layout
             THEN \A x \in Models : x \in poll'.todo \/ poll'.reads[x] # None
             ELSE \A x \in Models \ FastModels : x \notin poll'.todo /\ poll'.reads[x] = None
    <3>1. CASE poll.full \/ data[poll.device].layout # poll.layout
      BY <1>1, <2>1, <2>2, <2>3, <2>4, <3>1
    <3>2. CASE ~(poll.full \/ data[poll.device].layout # poll.layout)
      BY <1>1, <2>1, <2>2, <2>3, <2>4, <3>2
    <3> QED
      BY <3>1, <3>2
  <2>5. S'
    BY <2>1, <2>4
  <2>6. F'
    BY <1>1, <2>1
  <2> QED
    BY <1>3, <2>1, <2>5, <2>6
<1>9. CASE EndDevice
  <2> DEFINE d == poll.device
  <2>1. /\ data' = data /\ poll'.n = poll.n /\ poll'.force = poll.force
        /\ \A x \in Devices \ {d} : poll'.result[x] = poll.result[x]
        /\ poll'.pc \notin {"discover", "read"}
    BY <1>9, EndDeviceEffect DEF Readings
  <2>2. d \in Devices /\ poll.n \in Nat
    BY PollFields DEF TypeOK
  <2>3. ASSUME poll.full \/ data[d].layout # poll.layout, NEW m \in Models,
               poll'.result[d].models[m] # None
        PROVE  poll'.result[d].models[m].at = poll.n
    <3>1. poll.pc = "read" /\ poll.todo = {} /\ poll.layout # None
      BY <1>9, <2>3, EndedResult
    <3>2. poll.reads[m] # None
      BY <1>1, <2>3, <3>1
    <3> QED
      BY <1>9, <2>3, <3>2, EndedResult
  <2>4. ASSUME NEW m \in Models \ FastModels, poll'.result[d].models[m] # None,
               poll'.result[d].models[m].at = poll.n
        PROVE  poll.full \/ data[d].layout # poll.layout
    <3>1. poll.pc = "read" /\ poll.layout # None
      BY <1>9, <2>4, EndedResult
    <3>2. CASE poll.reads[m] # None
      BY <1>1, <3>1, <3>2
    <3>3. CASE poll.reads[m] = None
      <4>1. data[d].models[m] # None /\ data[d].models[m].at = poll.n
        BY <1>9, <2>4, <3>3, EndedResult
      <4>2. data[d].models[m].at < poll.n
        BY <2>2, <3>1, <4>1 DEF ReadingsArePast
      <4> QED
        BY <2>2, <4>1, <4>2
    <3> QED
      BY <3>2, <3>3
  <2>5. ASSUME NEW x \in Devices \ {d}  PROVE ReadAll(x)' <=> ReadAll(x)
    BY <2>1 DEF ReadAll
  <2>6. P'
    <3>1. SUFFICES ASSUME NEW x \in Devices, NEW m \in Models \ FastModels,
                          poll'.result[x].models[m] # None, poll'.result[x].models[m].at = poll'.n
                   PROVE  ReadAll(x)'
      OBVIOUS
    <3>2. CASE x = d
      BY <2>1, <2>3, <2>4, <3>1, <3>2 DEF ReadAll
    <3>3. CASE x # d
      BY <1>1, <2>1, <2>5, <3>1, <3>3
    <3> QED
      BY <3>2, <3>3
  <2>7. Q'
    <3>1. SUFFICES ASSUME poll.force, NEW x \in Devices  PROVE ReadAll(x)'
      BY <2>1
    <3>2. CASE x = d
      <4>1. SUFFICES ASSUME NEW m \in Models, poll'.result[d].models[m] # None
                     PROVE  poll'.result[d].models[m].at = poll.n
        BY <2>1, <3>2 DEF ReadAll
      <4>2. poll.pc = "read"
        BY <1>9, <4>1, EndedResult
      <4>3. poll.full
        BY <1>1, <3>1, <4>2
      <4> QED
        BY <2>3, <4>1, <4>3
    <3>3. CASE x # d
      BY <1>1, <2>5, <3>1, <3>3
    <3> QED
      BY <3>2, <3>3
  <2> QED
    BY <2>1, <2>6, <2>7
<1>10. CASE BumpEpochs \/ Retain \/ UpdateHealth
  <2>1. /\ data' = data /\ poll'.n = poll.n /\ poll'.force = poll.force
        /\ poll'.result = poll.result /\ poll'.pc \notin {"discover", "read"}
    BY <1>10, BumpEpochsEffect, RetainEffect, UpdateHealthEffect DEF SamePoll
  <2> QED
    BY <1>3, <2>1
<1>11. CASE Publish \/ Abandon
  <2>1. poll'.pc = "idle" /\ poll'.result = [d \in Devices |-> Offline]
    BY <1>11, PublishEffect, AbandonEffect DEF Idle
  <2> QED
    BY <1>4, <2>1
<1>12. CASE Outside \/ UNCHANGED vars
  <2>1. UNCHANGED <<poll, data>>
    BY <1>12, RequestRefreshEffect, ReplaceEffect, QuietEffect DEF Outside, Readings
  <2> QED
    BY <1>1, <2>1 DEF ReadAll
<1> QED
  BY <1>5, <1>6, <1>7, <1>8, <1>9, <1>10, <1>11, <1>12 DEF Next, Worker

LEMMA IncompatibleInductive ==
  ASSUME TypeOK, IncompatibleInTurn, [Next]_vars
  PROVE  IncompatibleInTurn'
<1>1. /\ poll.device \in Devices /\ poll.device \in Nat /\ Devices \subseteq Nat
      /\ \A x \in poll.incompatible : x \in Devices /\ x \in Nat /\ poll.result[x] = Offline
      /\ poll.pc \in {"device", "discover", "read"} =>
            \A x \in poll.incompatible : x < poll.device
      /\ poll.pc = "failed" => \A x \in poll.incompatible : x <= poll.device
  BY PollFields, DevicesType DEF TypeOK, IncompatibleInTurn
<1>2. CASE StartPoll
  <2>1. /\ poll'.incompatible = {} /\ poll'.result = [d \in Devices |-> Offline]
    BY <1>2, StartPollEffect
  <2> QED
    BY <2>1 DEF IncompatibleInTurn
<1>3. CASE BeginDevice
  <2>1. /\ poll'.incompatible = poll.incompatible /\ poll'.result = poll.result
        /\ poll'.device = poll.device /\ poll.pc = "device" /\ poll'.pc \in {"discover", "read"}
    BY <1>3, BeginDeviceEffect DEF SamePoll
  <2> QED
    BY <2>1 DEF IncompatibleInTurn
<1>4. CASE Discover
  <2>1. /\ poll'.result = poll.result /\ poll'.device = poll.device /\ poll.pc = "discover"
        /\ \/ poll'.pc = "read" /\ poll'.incompatible = poll.incompatible
           \/ poll'.pc = "failed" /\ poll'.incompatible \subseteq poll.incompatible \cup {poll.device}
    BY <1>4, DiscoverEffect
  <2>2. poll.result[poll.device] = Offline
    BY <1>1, <2>1 DEF IncompatibleInTurn
  <2>3. ASSUME NEW x \in poll'.incompatible
        PROVE  /\ poll'.result[x] = Offline /\ x <= poll.device
               /\ poll'.pc = "read" => x < poll.device
    <3>1. CASE x \in poll.incompatible
      BY <1>1, <2>1, <3>1
    <3>2. CASE x \notin poll.incompatible
      <4>1. x = poll.device /\ poll'.pc # "read"
        BY <2>1, <2>3, <3>2
      <4> QED
        BY <1>1, <2>1, <2>2, <4>1
    <3> QED
      BY <3>1, <3>2
  <2>4. \A d \in Devices : d >= poll'.device => poll'.result[d] = Offline
    BY <2>1 DEF IncompatibleInTurn
  <2> QED
    BY <2>1, <2>3, <2>4 DEF IncompatibleInTurn
<1>5. CASE ReadModel
  <2>1. /\ poll'.incompatible = poll.incompatible /\ poll'.result = poll.result
        /\ poll'.device = poll.device /\ poll.pc = "read" /\ poll'.pc = "read"
    BY <1>5, ReadModelEffect DEF SamePoll
  <2> QED
    BY <2>1 DEF IncompatibleInTurn
<1>6. CASE EndDevice
  <2> DEFINE d == poll.device
  <2>1. /\ poll'.incompatible = poll.incompatible
        /\ \A x \in Devices \ {d} : poll'.result[x] = poll.result[x]
        /\ \/ poll.pc = "failed" /\ poll'.result[d] = Offline
           \/ poll.pc = "read"
        /\ \/ poll'.pc = "epochs"
           \/ poll'.pc = "device" /\ poll'.device = d + 1
    BY <1>6, EndDeviceEffect
  <2>2. ASSUME NEW x \in poll.incompatible
        PROVE  x <= d /\ (poll.pc = "read" => x < d)
    BY <1>1, <2>1
  <2>3. ASSUME NEW x \in poll.incompatible
        PROVE  poll'.result[x] = Offline
    <3>1. CASE x = d
      <4>1. poll.pc # "read"
        BY <1>1, <2>2, <3>1
      <4> QED
        BY <2>1, <3>1, <4>1
    <3>2. CASE x # d
      BY <1>1, <2>1, <3>2
    <3> QED
      BY <3>1, <3>2
  <2>4. ASSUME poll'.pc = "device", NEW x \in Devices, x >= poll'.device
        PROVE  poll'.result[x] = Offline
    <3>1. x \in Nat /\ x >= d + 1
      BY <1>1, <2>1, <2>4
    <3>2. x >= d /\ x # d
      BY <1>1, <3>1
    <3> QED
      BY <2>1, <3>2 DEF IncompatibleInTurn
  <2>5. ASSUME poll'.pc = "device", NEW x \in poll.incompatible
        PROVE  x < poll'.device
    <3>1. poll'.device = d + 1 /\ d \in Nat /\ x \in Nat /\ x <= d
      BY <1>1, <2>1, <2>2, <2>5
    <3> HIDE DEF d
    <3> QED
      BY <3>1
  <2> QED
    BY <2>1, <2>3, <2>4, <2>5 DEF IncompatibleInTurn
<1>7. CASE BumpEpochs \/ Retain \/ UpdateHealth
  <2>1. /\ poll'.incompatible = poll.incompatible /\ poll'.result = poll.result
        /\ poll'.pc \in {"retain", "health", "answer"}
    BY <1>7, BumpEpochsEffect, RetainEffect, UpdateHealthEffect DEF SamePoll
  <2> QED
    BY <2>1 DEF IncompatibleInTurn
<1>8. CASE Publish \/ Abandon
  <2>1. poll'.incompatible = {} /\ poll'.pc = "idle"
    BY <1>8, PublishEffect, AbandonEffect DEF Idle
  <2> QED
    BY <2>1 DEF IncompatibleInTurn
<1>9. CASE Outside \/ UNCHANGED vars
  <2>1. UNCHANGED poll
    BY <1>9, RequestRefreshEffect, ReplaceEffect, QuietEffect DEF Outside
  <2> QED
    BY <2>1 DEF IncompatibleInTurn
<1> QED
  BY <1>2, <1>3, <1>4, <1>5, <1>6, <1>7, <1>8, <1>9 DEF Next, Worker

(* What a poll has proved does not change until it has been acted upon.       *)
LEMMA ChangedStays ==
  ASSUME poll'.result = poll.result, poll'.incompatible = poll.incompatible,
         poll'.validated = poll.validated, retained' = retained, NEW d \in Devices
  PROVE  Changed(d)' = Changed(d)
  BY DEF Changed, LayoutChanged, IdentityChanged

LEMMA EvidenceInductive ==
  ASSUME TypeOK, EvidenceIsNoted, [Next]_vars
  PROVE  EvidenceIsNoted'
<1>1. CASE BumpEpochs
  <2>1. /\ poll'.n = poll.n
        /\ \A d \in Devices : proven_at'[d] = IF Changed(d) THEN poll.n ELSE proven_at[d]
    BY <1>1, BumpEpochsEffect DEF SamePoll
  <2>2. ASSUME NEW d \in Devices, Changed(d)'  PROVE Changed(d)
    <3>1. retained' = retained /\ SamePoll
      BY <1>1, BumpEpochsEffect
    <3> QED
      BY <2>2, <3>1, ChangedStays DEF SamePoll
  <2> QED
    BY <2>1, <2>2 DEF EvidenceIsNoted
<1>2. CASE Outside \/ UNCHANGED vars
  <2>1. UNCHANGED <<poll, retained, proven_at>>
    BY <1>2, RequestRefreshEffect, ReplaceEffect, QuietEffect DEF Outside, Readings
  <2>2. \A d \in Devices : Changed(d)' = Changed(d)
    BY <2>1, ChangedStays
  <2> QED
    BY <2>1, <2>2 DEF EvidenceIsNoted
<1>3. CASE ~BumpEpochs /\ ~(Outside \/ UNCHANGED vars)
  <2>1. poll'.pc # "retain"
    BY <1>3, StartPollEffect, BeginDeviceEffect, DiscoverEffect, ReadModelEffect,
       EndDeviceEffect, RetainEffect, UpdateHealthEffect, PublishEffect, AbandonEffect
    DEF Next, Worker, Idle
  <2> QED
    BY <2>1 DEF EvidenceIsNoted
<1> QED
  BY <1>1, <1>2, <1>3

LEMMA SilentInductive ==
  ASSUME TypeOK, SilentIsNotLive, [Next]_vars
  PROVE  SilentIsNotLive'
<1>1. poll.device \in Devices /\ live \in [Devices -> Layouts \cup {None}]
  BY PollFields DEF TypeOK
<1>2. \A d \in Devices : Reset[d] = None
  BY DEF Reset
<1>3. CASE Discover
  <2> DEFINE d == poll.device
  <2>1. /\ Exchanged(d)
        /\ live' \in {Reset, [live EXCEPT ![d] = None], [live EXCEPT ![d] = poll'.layout]}
        /\ live' = Reset \/ failing'[d] = None
    BY <1>3, DiscoverEffect
  <2> QED
    BY <1>1, <1>2, <2>1 DEF SilentIsNotLive, Exchanged
<1>4. CASE ReadModel
  <2>1. Exchanged(poll.device) /\ (live' = live \/ live' = Reset)
    BY <1>4, ReadModelEffect
  <2> QED
    BY <1>1, <1>2, <2>1 DEF SilentIsNotLive, Exchanged
<1>5. CASE EndDevice
  <2>1. failing' = failing /\ (live' = live \/ live' = [live EXCEPT ![poll.device] = None])
    BY <1>5, EndDeviceEffect
  <2> QED
    BY <1>1, <2>1 DEF SilentIsNotLive
<1>6. CASE StartPoll \/ BeginDevice \/ BumpEpochs \/ Retain \/ UpdateHealth \/ Publish \/ Abandon
  <2>1. UNCHANGED <<failing, live>>
    BY <1>6, StartPollEffect, BeginDeviceEffect, BumpEpochsEffect, RetainEffect,
       UpdateHealthEffect, PublishEffect, AbandonEffect
  <2> QED
    BY <2>1 DEF SilentIsNotLive
<1>7. CASE Outside \/ UNCHANGED vars
  <2>1. UNCHANGED failing /\ (live' = live \/ live' = Reset)
    BY <1>7, RequestRefreshEffect, ReplaceEffect, QuietEffect DEF Outside
  <2> QED
    BY <1>2, <2>1 DEF SilentIsNotLive
<1> QED
  BY <1>3, <1>4, <1>5, <1>6, <1>7 DEF Next, Worker

LEMMA UnitInductive ==
  ASSUME TypeOK, ResultIsNew, DevicesAreComplete, BudgetIsSpent, UnitIsOne, [Next]_vars
  PROVE  UnitIsOne'
<1> SUFFICES ASSUME budget'.swaps = MaxSwaps
             PROVE  /\ \A d \in Devices, m \in Models :
                       /\ Decoded(data'[d].models[m]) => data'[d].models[m].of = unit'[d]
                       /\ Decoded(retained'[d].models[m]) => retained'[d].models[m].of = unit'[d]
                       /\ Decoded(poll'.result[d].models[m]) =>
                             poll'.result[d].models[m].of = unit'[d]
                    /\ \A m \in Models : Decoded(poll'.reads[m]) =>
                          poll'.reads[m].of = unit'[poll'.device]
  BY DEF UnitIsOne, Decoded
<1>1. budget.swaps = MaxSwaps /\ ~\E d \in Devices : Replace(d)
  BY BudgetBackwards
<1>2. /\ \A d \in Devices, m \in Models :
            /\ Decoded(data[d].models[m]) => data[d].models[m].of = unit[d]
            /\ Decoded(retained[d].models[m]) => retained[d].models[m].of = unit[d]
            /\ Decoded(poll.result[d].models[m]) => poll.result[d].models[m].of = unit[d]
      /\ \A m \in Models : Decoded(poll.reads[m]) => poll.reads[m].of = unit[poll.device]
  BY <1>1 DEF UnitIsOne
<1>3. ~Decoded(None) /\ \A m \in Models : NoPayloads[m] = None /\ Offline.models[m] = None
  BY OfflineFields DEF Decoded
<1>4. CASE StartPoll
  <2>1. /\ UNCHANGED <<data, retained, unit>> /\ poll'.reads = NoPayloads
        /\ poll'.result = [d \in Devices |-> Offline]
    BY <1>4, StartPollEffect DEF Readings
  <2> QED
    BY <1>2, <1>3, <2>1
<1>5. CASE BeginDevice
  <2>1. UNCHANGED <<data, retained, unit>> /\ poll'.reads = NoPayloads /\ poll'.result = poll.result
    BY <1>5, BeginDeviceEffect DEF Readings, SamePoll
  <2> QED
    BY <1>2, <1>3, <2>1
<1>6. CASE Discover
  <2>1. /\ UNCHANGED <<data, retained, unit>> /\ poll'.reads = poll.reads
        /\ poll'.result = poll.result /\ poll'.device = poll.device
    BY <1>6, DiscoverEffect DEF Readings
  <2> QED
    BY <1>2, <2>1
<1>7. CASE ReadModel
  <2>1. /\ UNCHANGED <<data, retained, unit>>
        /\ poll'.result = poll.result /\ poll'.device = poll.device
    BY <1>7, ReadModelEffect DEF Readings, SamePoll
  <2>2. PICK m \in poll.todo, s \in Snapshots :
           /\ s.ok = "ok" => s.of = unit[poll.device]
           /\ \A x \in Models : poll'.reads[x] = IF x = m THEN s ELSE poll.reads[x]
    BY <1>7, ReadModelEffect
  <2>3. \A x \in Models : Decoded(poll'.reads[x]) => poll'.reads[x].of = unit[poll.device]
    BY <1>2, <2>2 DEF Decoded
  <2> QED
    BY <1>2, <2>1, <2>3
<1>8. CASE EndDevice
  <2> DEFINE d == poll.device
  <2>1. /\ UNCHANGED <<data, retained, unit>> /\ poll'.reads = NoPayloads
        /\ \A x \in Devices \ {d} : poll'.result[x] = poll.result[x]
    BY <1>8, EndDeviceEffect DEF Readings
  <2>2. d \in Devices
    BY PollFields DEF TypeOK
  <2>3. ASSUME NEW m \in Models, Decoded(poll'.result[d].models[m])
        PROVE  poll'.result[d].models[m].of = unit[d]
    <3>1. poll'.result[d].models[m] # None
      BY <2>3 DEF Decoded
    <3>2. poll'.result[d].models[m] \in {poll.reads[m], data[d].models[m]}
      BY <1>8, <3>1, EndedResult
    <3> QED
      BY <1>2, <2>2, <2>3, <3>2
  <2>4. ASSUME NEW x \in Devices, NEW m \in Models, Decoded(poll'.result[x].models[m])
        PROVE  poll'.result[x].models[m].of = unit[x]
    <3>1. CASE x = d
      BY <2>3, <2>4, <3>1
    <3>2. CASE x # d
      BY <1>2, <2>1, <2>4, <3>2
    <3> QED
      BY <3>1, <3>2
  <2> QED
    BY <1>2, <1>3, <2>1, <2>4
<1>9. CASE BumpEpochs \/ UpdateHealth
  <2>1. /\ UNCHANGED <<data, retained, unit>> /\ poll'.result = poll.result
        /\ poll'.reads = poll.reads /\ poll'.device = poll.device
    BY <1>9, BumpEpochsEffect, UpdateHealthEffect DEF SamePoll, SameDevice
  <2> QED
    BY <1>2, <2>1
<1>10. CASE Retain
  <2>1. /\ UNCHANGED <<data, unit>> /\ poll'.result = poll.result
        /\ poll'.reads = poll.reads /\ poll'.device = poll.device
        /\ \A d \in Devices : retained'[d] = Retained(d)
    BY <1>10, RetainEffect DEF SamePoll, SameDevice
  <2>2. ASSUME NEW d \in Devices, NEW m \in Models, Decoded(retained'[d].models[m])
        PROVE  retained'[d].models[m].of = unit[d]
    <3>1. retained'[d].models[m] \in
             {None, Blank, poll.result[d].models[m], retained[d].models[m]}
      BY <2>1, RetainedFrom
    <3>2. ~Decoded(Blank)
      BY BlankFields DEF Decoded
    <3> QED
      BY <1>2, <1>3, <2>2, <3>1, <3>2
  <2> QED
    BY <1>2, <2>1, <2>2
<1>11. CASE Publish \/ Abandon
  <2>1. /\ UNCHANGED <<retained, unit>> /\ (data' = data \/ data' = poll.result)
        /\ poll'.result = [d \in Devices |-> Offline] /\ poll'.reads = NoPayloads
    BY <1>11, PublishEffect, AbandonEffect DEF Idle, Readings
  <2> QED
    BY <1>2, <1>3, <2>1
<1>12. CASE Outside \/ UNCHANGED vars
  <2>1. UNCHANGED <<poll, data, retained, unit>>
    BY <1>1, <1>12, RequestRefreshEffect, QuietEffect DEF Outside, Readings
  <2> QED
    BY <1>2, <2>1
<1> QED
  BY <1>4, <1>5, <1>6, <1>7, <1>8, <1>9, <1>10, <1>11, <1>12 DEF Next, Worker

(* Between two retentions the latest payloads are the data.                   *)
LEMMA HeldIsPublished ==
  ASSUME HeldIsLatest, Uncancelled, poll.pc \notin {"health", "answer"},
         NEW d \in Devices, NEW m \in Models
  PROVE  LET new == data[d].models[m]
             held == retained[d].models[m]
         IN  /\ new # None =>
                  /\ retained[d].layout = data[d].layout
                  /\ held # None
                  /\ held = new \/ new.ok = "failed" \/ held.ok = "blank"
                  /\ Steady => held.at <= new.at
             /\ Steady /\ held # None => held.ok # "blank"
  BY DEF HeldIsLatest

(* Evidence of another unit or layout only comes with payloads that were all  *)
(* read by the same poll.                                                     *)
LEMMA ChangedIsRead ==
  ASSUME TypeOK, CachedIsPublished, SlowTogether, IncompatibleInTurn, UnitIsOne,
         HeldIsLatest, Steady, poll.pc \in {"epochs", "retain"},
         NEW d \in Devices, Changed(d)
  PROVE  ReadAll(d)
<1>1. CASE d \in poll.incompatible
  BY <1>1, OfflineFields DEF IncompatibleInTurn, ReadAll
<1>2. CASE LayoutChanged(d)
  <2>1. SUFFICES ASSUME NEW m \in Models, poll.result[d].models[m] # None,
                        poll.result[d].models[m].at # poll.n
                 PROVE  FALSE
    BY DEF ReadAll
  <2>2. /\ poll.result[d].models[m] = data[d].models[m]
        /\ poll.result[d].layout = data[d].layout
    BY <2>1 DEF CachedIsPublished
  <2>3. retained[d].layout = data[d].layout
    BY <2>1, <2>2, HeldIsPublished DEF Steady
  <2> QED
    BY <1>2, <2>2, <2>3 DEF LayoutChanged
<1>3. CASE IdentityChanged(d)
  <2>1. PICK m \in IdModels :
          /\ poll.result[d].models[m] # None /\ retained[d].models[m] # None
          /\ poll.result[d].models[m].ok = "ok" /\ retained[d].models[m].ok = "ok"
          /\ poll.result[d].models[m].of.serial # retained[d].models[m].of.serial
    BY <1>3 DEF IdentityChanged
  <2>2. m \in Models
    BY ConstantAssumption
  <2>3. ASSUME poll.result[d].models[m].at # poll.n  PROVE FALSE
    <3>1. poll.result[d].models[m] = data[d].models[m]
      BY <2>1, <2>2, <2>3 DEF CachedIsPublished
    <3>2. retained[d].models[m] = data[d].models[m]
      BY <2>1, <2>2, <3>1, HeldIsPublished DEF Steady
    <3> QED
      BY <2>1, <3>1, <3>2
  <2>4. CASE IdModels \cap FastModels = {}
    BY <2>1, <2>2, <2>3, <2>4 DEF SlowTogether
  <2>5. CASE budget.swaps = MaxSwaps
    BY <2>1, <2>2, <2>5 DEF UnitIsOne, Decoded
  <2> QED
    BY <2>4, <2>5 DEF Steady, NamedAtOnce
<1> QED
  BY <1>1, <1>2, <1>3 DEF Changed

(* A payload that the poll has not read replaces no other.                    *)
LEMMA UnreadIsHeld ==
  ASSUME TypeOK, CachedIsPublished, HeldIsLatest, Uncancelled, poll.pc = "retain",
         NEW d \in Devices, NEW m \in Models,
         poll.result[d].models[m] # None, poll.result[d].models[m].at # poll.n
  PROVE  LET new == poll.result[d].models[m]
             held == retained[d].models[m]
         IN  /\ held # None
             /\ held = new \/ new.ok = "failed" \/ held.ok = "blank"
             /\ Steady => held.at <= new.at /\ held.ok # "blank"
<1>1. poll.result[d].models[m] = data[d].models[m]
  BY DEF CachedIsPublished
<1> QED
  BY <1>1, HeldIsPublished

LEMMA RetainKeepsLatest ==
  ASSUME TypeOK, DevicesAreComplete, ReadingsArePast, CachedIsPublished, SlowTogether,
         IncompatibleInTurn, UnitIsOne, HeldIsLatest, Retain
  PROVE  HeldIsLatest'
<1>1. /\ poll.pc = "retain" /\ poll'.pc = "health" /\ poll'.result = poll.result
      /\ data' = data /\ UNCHANGED budget
      /\ \A d \in Devices : retained'[d] = Retained(d)
  BY RetainEffect DEF SamePoll
<1>2. (Uncancelled' <=> Uncancelled) /\ (Steady' <=> Steady)
  BY <1>1 DEF Uncancelled, Steady, NamedAtOnce
<1>3. SUFFICES ASSUME Uncancelled, NEW d \in Devices, NEW m \in Models
               PROVE  LET new == poll.result[d].models[m]
                          held == Retained(d).models[m]
                      IN  /\ new # None =>
                               /\ Retained(d).layout = poll.result[d].layout
                               /\ held # None
                               /\ held = new \/ new.ok = "failed" \/ held.ok = "blank"
                               /\ Steady => held.at <= new.at
                          /\ Steady /\ held # None => held.ok # "blank"
  BY <1>1, <1>2 DEF HeldIsLatest
<1> DEFINE new == poll.result[d].models[m]
           old == retained[d].models[m]
           held == Retained(d).models[m]
<1>4. /\ new \in Snapshots \cup {None} /\ old \in Snapshots \cup {None} /\ poll.n \in Nat
  BY ReadingTypes
<1>5. new # None => new.ok # "blank" /\ new.at \in Nat
  BY <1>4, SnapshotFields DEF DevicesAreComplete, Complete
<1>6. old # None => old.at < poll.n /\ old.at \in Nat
  BY <1>1, <1>4, SnapshotFields DEF ReadingsArePast
<1>7. new # None /\ new.at # poll.n =>
         old # None /\ (Steady => old.at <= new.at)
  BY <1>1, <1>3, UnreadIsHeld
<1>8. Steady /\ old # None => old.ok # "blank"
  BY <1>1, <1>3, HeldIsPublished
<1>9. Steady /\ Changed(d) /\ new # None => new.at = poll.n
  BY <1>1, ChangedIsRead DEF ReadAll
<1>10. Blank # None /\ Blank.ok = "blank" /\ Blank.at = poll.n
  BY BlankFields
<1>11. new # None => d \notin poll.incompatible
  BY OfflineFields DEF IncompatibleInTurn
<1>12. CASE d \in poll.incompatible
  BY <1>11, <1>12, RetainedCases
<1>13. CASE Retained(d) = retained[d] /\ \A x \in Models : poll.result[d].models[x] = None
  BY <1>8, <1>13
<1>14. CASE Retained(d).layout = poll.result[d].layout /\ held = Kept(d, m)
  <2>1. CASE new = None
    BY <1>14, <2>1, KeptCases
  <2>2. CASE new # None /\ Changed(d) /\ new = old /\ Kept(d, m) = Blank
    <3>1. ~Steady
      BY <1>4, <1>6, <1>9, <2>2
    <3> QED
      BY <1>10, <1>14, <2>2, <3>1
  <2>3. CASE new # None /\ Kept(d, m) = new
    BY <1>5, <1>14, <2>3
  <2>4. CASE new # None /\ new.ok = "failed" /\ old # None /\ Kept(d, m) = old
    <3>1. Steady => old.at <= new.at
      BY <1>4, <1>5, <1>6, <1>7, <2>4
    <3> QED
      BY <1>8, <1>14, <2>4, <3>1
  <2> QED
    BY <2>1, <2>2, <2>3, <2>4, KeptCases
<1> QED
  BY <1>12, <1>13, <1>14, RetainedCases

LEMMA LatestInductive ==
  ASSUME TypeOK, DevicesAreComplete, ReadingsArePast, CachedIsPublished, SlowTogether,
         IncompatibleInTurn, BudgetIsSpent, UnitIsOne, HeldIsLatest, [Next]_vars
  PROVE  HeldIsLatest'
<1>1. CASE Retain
  BY <1>1, RetainKeepsLatest
<1> DEFINE latest == IF poll.pc \in {"health", "answer"} THEN poll.result ELSE data
<1>2. ASSUME latest' = latest, retained' = retained  PROVE HeldIsLatest'
  <2>1. (Uncancelled' => Uncancelled) /\ (Steady' => Steady)
    BY BudgetBackwards
  <2> QED
    BY <1>2, <2>1 DEF HeldIsLatest
<1>3. CASE StartPoll \/ BeginDevice \/ Discover \/ ReadModel
  <2>1. /\ UNCHANGED <<data, retained>>
        /\ poll.pc \notin {"health", "answer"} /\ poll'.pc \notin {"health", "answer"}
    BY <1>3, StartPollEffect, BeginDeviceEffect, DiscoverEffect, ReadModelEffect DEF Readings
  <2> QED
    BY <1>2, <2>1
<1>4. CASE EndDevice \/ BumpEpochs
  <2>1. /\ UNCHANGED <<data, retained>>
        /\ poll.pc \notin {"health", "answer"} /\ poll'.pc \notin {"health", "answer"}
    BY <1>4, EndDeviceEffect, BumpEpochsEffect DEF Readings
  <2> QED
    BY <1>2, <2>1
<1>5. CASE UpdateHealth
  <2>1. /\ UNCHANGED retained /\ poll'.result = poll.result
        /\ poll.pc = "health" /\ poll'.pc = "answer"
    BY <1>5, UpdateHealthEffect DEF SamePoll
  <2> QED
    BY <1>2, <2>1
<1>6. CASE Publish
  <2>1. /\ UNCHANGED retained /\ data' = poll.result
        /\ poll.pc = "answer" /\ poll'.pc = "idle"
    BY <1>6, PublishEffect DEF Idle
  <2> QED
    BY <1>2, <2>1
<1>7. CASE Abandon
  BY <1>7, BudgetBackwards DEF HeldIsLatest
<1>8. CASE Outside \/ UNCHANGED vars
  <2>1. UNCHANGED <<poll, data, retained>>
    BY <1>8, RequestRefreshEffect, ReplaceEffect, QuietEffect DEF Outside, Readings
  <2> QED
    BY <1>2, <2>1
<1> QED
  BY <1>1, <1>3, <1>4, <1>5, <1>6, <1>7, <1>8 DEF Next, Worker

LEMMA ProvenInductive ==
  ASSUME TypeOK, ReadingsArePast, CachedIsPublished, SlowTogether, IncompatibleInTurn,
         EvidenceIsNoted, BudgetIsSpent, UnitIsOne, HeldIsLatest, HeldIsOfProvenUnit,
         [Next]_vars
  PROVE  HeldIsOfProvenUnit'
<1>1. Steady' => Steady
  BY BudgetBackwards
<1>2. ASSUME NEW d \in Devices, NEW m \in Models, Steady, Decoded(retained[d].models[m]),
             poll.pc = "retain" => ~Changed(d)
      PROVE  retained[d].models[m].at >= proven_at[d]
  BY <1>2 DEF HeldIsOfProvenUnit
<1>3. SUFFICES ASSUME Steady, NEW d \in Devices, NEW m \in Models,
                      Decoded(retained'[d].models[m]),
                      poll'.pc = "retain" => ~Changed(d)'
               PROVE  retained'[d].models[m].at >= proven_at'[d]
  BY <1>1 DEF HeldIsOfProvenUnit, Decoded
<1>4. CASE BumpEpochs
  <2>1. /\ poll.pc = "epochs" /\ poll'.pc = "retain" /\ SamePoll /\ retained' = retained
        /\ proven_at'[d] = IF Changed(d) THEN poll.n ELSE proven_at[d]
    BY <1>4, BumpEpochsEffect
  <2>2. ~Changed(d)
    BY <1>3, <2>1, ChangedStays DEF SamePoll
  <2> QED
    BY <1>2, <1>3, <2>1, <2>2
<1>5. CASE Retain
  <2> DEFINE new == poll.result[d].models[m]
             old == retained[d].models[m]
  <2>1. /\ poll.pc = "retain" /\ proven_at' = proven_at /\ retained'[d] = Retained(d)
    BY <1>5, RetainEffect
  <2>2. /\ new \in Snapshots \cup {None} /\ poll.n \in Nat /\ proven_at[d] \in Nat
        /\ proven_at[d] <= poll.n
    BY ReadingTypes DEF ReadingsArePast
  <2>3. retained'[d].models[m] \in {None, Blank, new, old}
    BY <2>1, RetainedFrom
  <2>4. retained'[d].models[m] \in {new, old}
    BY <1>3, <2>3, BlankFields DEF Decoded
  <2>5. CASE Changed(d)
    <3>1. proven_at[d] = poll.n
      BY <2>1, <2>5 DEF EvidenceIsNoted
    <3>2. ReadAll(d)
      BY <1>3, <2>1, <2>5, ChangedIsRead
    <3>3. retained'[d].models[m] = Kept(d, m)
      BY <1>3, <2>1, <2>5, RetainedCases DEF Decoded
    <3>4. Kept(d, m) \in {None, Blank, new}
      BY <2>5, KeptCases
    <3>5. retained'[d].models[m] = new /\ new # None
      BY <1>3, <3>3, <3>4, BlankFields DEF Decoded
    <3>6. new.at = poll.n
      BY <3>2, <3>5 DEF ReadAll
    <3> QED
      BY <2>1, <2>2, <3>1, <3>5, <3>6
  <2>6. CASE ~Changed(d)
    <3>1. CASE retained'[d].models[m] = old
      BY <1>2, <1>3, <2>1, <2>6, <3>1
    <3>2. CASE retained'[d].models[m] = new /\ new.at = poll.n
      BY <2>1, <2>2, <3>2
    <3>3. CASE retained'[d].models[m] = new /\ new.at # poll.n
      <4>1. new # None /\ new.ok = "ok"
        BY <1>3, <3>3 DEF Decoded
      <4>2. old = new
        BY <1>3, <2>1, <3>3, <4>1, UnreadIsHeld DEF Steady
      <4> QED
        BY <1>2, <1>3, <2>1, <2>6, <3>3, <4>2
    <3> QED
      BY <2>4, <3>1, <3>2, <3>3
  <2> QED
    BY <2>5, <2>6
<1>6. CASE Outside \/ UNCHANGED vars
  <2>1. UNCHANGED <<poll, retained, proven_at>>
    BY <1>6, RequestRefreshEffect, ReplaceEffect, QuietEffect DEF Outside, Readings
  <2>2. Changed(d)' = Changed(d)
    BY <2>1, ChangedStays
  <2> QED
    BY <1>2, <1>3, <2>1, <2>2
<1>7. CASE StartPoll \/ BeginDevice \/ Discover \/ ReadModel \/ EndDevice
  <2>1. UNCHANGED <<retained, proven_at>> /\ poll.pc # "retain"
    BY <1>7, StartPollEffect, BeginDeviceEffect, DiscoverEffect, ReadModelEffect,
       EndDeviceEffect DEF Readings
  <2> QED
    BY <1>2, <1>3, <2>1
<1>8. CASE UpdateHealth \/ Publish \/ Abandon
  <2>1. UNCHANGED <<retained, proven_at>> /\ poll.pc # "retain"
    BY <1>8, UpdateHealthEffect, PublishEffect, AbandonEffect DEF Readings
  <2> QED
    BY <1>2, <1>3, <2>1
<1> QED
  BY <1>4, <1>5, <1>6, <1>7, <1>8 DEF Next, Worker

LEMMA ReadAgainInductive ==
  ASSUME TypeOK, ResultIsNew, ExpiryIsPast, DevicesAreComplete, SlowTogether,
         BudgetIsSpent, SilentIsNotLive, ExpiredIsReadAgain, [Next]_vars
  PROVE  ExpiredIsReadAgain'
<1>1. Uncancelled' => Uncancelled /\ ~Abandon
  BY BudgetBackwards
<1>2. SUFFICES ASSUME Uncancelled, ~Abandon, NEW d \in Devices, NEW m \in Models
      PROVE  LET live_one == data'[d].models[m]
                 new == poll'.result[d].models[m]
             IN  /\ live_one # None /\ live_one.at <= expired_at'[d] =>
                       /\ Awaited(d)' => live'[d] = None
                       /\ poll'.pc = "read" /\ d = poll'.device => poll'.full
                 /\ new # None /\ new.at <= expired_at'[d] =>
                       poll'.pc = "answer" /\ live'[d] = None
  BY <1>1 DEF ExpiredIsReadAgain
<1>3. /\ data[d].models[m] # None /\ data[d].models[m].at <= expired_at[d] =>
            /\ Awaited(d) => live[d] = None
            /\ poll.pc = "read" /\ d = poll.device => poll.full
      /\ poll.result[d].models[m] # None /\ poll.result[d].models[m].at <= expired_at[d] =>
            poll.pc = "answer" /\ live[d] = None
  BY <1>2 DEF ExpiredIsReadAgain
<1>4. /\ live \in [Devices -> Layouts \cup {None}] /\ poll.device \in Devices
      /\ poll.device \in Nat /\ d \in Nat /\ Reset[d] = None
      /\ poll.n \in Nat /\ expired_at[d] \in Nat
  BY PollFields, DevicesType DEF TypeOK, Reset
<1>5. Offline.models[m] = None
  BY OfflineFields
<1>6. CASE StartPoll
  <2>1. /\ UNCHANGED <<data, expired_at, live>> /\ poll.pc = "idle" /\ poll'.pc = "device"
        /\ poll'.result = [x \in Devices |-> Offline]
    BY <1>6, StartPollEffect DEF Readings
  <2> QED
    BY <1>3, <1>5, <2>1 DEF Awaited
<1>7. CASE BeginDevice
  <2>1. /\ UNCHANGED <<data, expired_at, live>> /\ poll'.result = poll.result
        /\ poll'.device = poll.device /\ poll.pc = "device"
        /\ poll'.pc = "discover" \/ (poll'.pc = "read" /\ live[poll.device] # None)
    BY <1>7, BeginDeviceEffect DEF Readings, SamePoll
  <2>2. Awaited(d)' => Awaited(d)
    BY <1>4, <2>1 DEF Awaited
  <2>3. d = poll.device => Awaited(d)
    BY <1>4, <2>1 DEF Awaited
  <2> QED
    BY <1>3, <2>1, <2>2, <2>3
<1>8. CASE Discover
  <2>1. /\ UNCHANGED <<data, expired_at>> /\ poll'.result = poll.result
        /\ poll'.device = poll.device /\ poll'.full = poll.full
        /\ poll.pc = "discover" /\ poll'.pc \in {"read", "failed"}
        /\ live' \in {Reset, [live EXCEPT ![poll.device] = None],
                      [live EXCEPT ![poll.device] = poll'.layout]}
    BY <1>8, DiscoverEffect DEF Readings
  <2>2. poll.full
    BY <2>1 DEF SlowTogether
  <2>3. Awaited(d)' => Awaited(d) /\ d # poll.device
    BY <1>4, <2>1 DEF Awaited
  <2>4. d # poll.device => live'[d] \in {live[d], None}
    BY <1>4, <2>1
  <2> QED
    BY <1>3, <2>1, <2>2, <2>3, <2>4
<1>9. CASE ReadModel
  <2>1. /\ UNCHANGED <<data, expired_at>> /\ poll'.result = poll.result
        /\ poll'.device = poll.device /\ poll'.full = poll.full
        /\ poll.pc = "read" /\ poll'.pc = "read" /\ (live' = live \/ live' = Reset)
    BY <1>9, ReadModelEffect DEF Readings, SamePoll
  <2>2. Awaited(d)' => Awaited(d)
    BY <2>1 DEF Awaited
  <2>3. live'[d] \in {live[d], None}
    BY <1>4, <2>1
  <2> QED
    BY <1>3, <2>1, <2>2, <2>3
<1>10. CASE EndDevice
  <2>1. /\ UNCHANGED <<data, expired_at>>
        /\ \A x \in Devices \ {poll.device} : poll'.result[x] = poll.result[x]
        /\ poll.pc \in {"read", "failed"}
        /\ \/ poll'.pc = "epochs"
           \/ poll'.pc = "device" /\ poll'.device = poll.device + 1
        /\ live' = live \/ live' = [live EXCEPT ![poll.device] = None]
    BY <1>10, EndDeviceEffect DEF Readings
  <2>2. Awaited(d)' => Awaited(d)
    <3>1. ASSUME Awaited(d)'  PROVE d > poll.device
      <4>1. d >= poll.device + 1
        BY <2>1, <3>1 DEF Awaited
      <4> QED
        BY <1>4, <4>1
    <3> QED
      BY <2>1, <3>1 DEF Awaited
  <2>3. live'[d] \in {live[d], None}
    BY <1>4, <2>1
  <2>4. ASSUME poll'.result[d].models[m] # None, poll'.result[d].models[m].at <= expired_at[d]
        PROVE  FALSE
    <3>1. CASE d = poll.device
      <4>1. expired_at[d] < poll.n
        BY <2>1 DEF ExpiryIsPast
      <4>2. poll'.result[d].models[m].at # poll.n
        BY <1>4, <2>4, <4>1
      <4>3. /\ poll.pc = "read" /\ poll.todo = {} /\ poll.layout # None
            /\ poll.reads[m] = None
            /\ poll'.result[d].models[m] = data[d].models[m]
        BY <1>10, <2>4, <3>1, <4>2, EndedResult
      <4>4. poll.full
        BY <1>3, <2>4, <3>1, <4>3
      <4> QED
        BY <4>3, <4>4 DEF SlowTogether
    <3>2. CASE d # poll.device
      BY <1>3, <2>1, <2>4, <3>2
    <3> QED
      BY <3>1, <3>2
  <2> QED
    BY <1>3, <2>1, <2>2, <2>3, <2>4
<1>11. CASE BumpEpochs \/ Retain
  <2>1. /\ UNCHANGED <<data, expired_at, live>> /\ poll'.result = poll.result
        /\ poll.pc \notin {"answer"} /\ poll'.pc \in {"retain", "health"}
    BY <1>11, BumpEpochsEffect, RetainEffect DEF SamePoll
  <2> QED
    BY <1>3, <2>1 DEF Awaited
<1>12. CASE UpdateHealth
  <2>1. /\ UNCHANGED <<data, live, failing>> /\ poll'.result = poll.result
        /\ poll.pc = "health" /\ poll'.pc = "answer"
        /\ failing[d] # None \/ expired_at'[d] = expired_at[d]
    BY <1>12, UpdateHealthEffect DEF SamePoll
  <2>2. failing[d] # None => live[d] = None
    BY DEF SilentIsNotLive
  <2> QED
    BY <1>3, <2>1, <2>2 DEF Awaited
<1>13. CASE Publish
  <2>1. /\ data' = poll.result /\ UNCHANGED <<expired_at, live>> /\ poll'.pc = "idle"
        /\ poll'.result = [x \in Devices |-> Offline]
    BY <1>13, PublishEffect DEF Idle
  <2> QED
    BY <1>3, <1>5, <2>1
<1>14. CASE Outside \/ UNCHANGED vars
  <2>1. UNCHANGED <<poll, data, expired_at>> /\ (live' = live \/ live' = Reset)
    BY <1>14, RequestRefreshEffect, ReplaceEffect, QuietEffect DEF Outside, Readings
  <2>2. (Awaited(d)' <=> Awaited(d)) /\ live'[d] \in {live[d], None}
    BY <1>4, <2>1 DEF Awaited
  <2> QED
    BY <1>3, <2>1, <2>2
<1> QED
  BY <1>2, <1>6, <1>7, <1>8, <1>9, <1>10, <1>11, <1>12, <1>13, <1>14 DEF Next, Worker

LEMMA SuppressedInductive ==
  ASSUME TypeOK, BudgetIsSpent, ExpiredIsReadAgain, HeldIsSuppressedOrNew, [Next]_vars
  PROVE  HeldIsSuppressedOrNew'
<1>1. Uncancelled' => Uncancelled
  BY BudgetBackwards
<1>2. SUFFICES ASSUME Uncancelled, NEW d \in Devices, NEW m \in Models,
                      Decoded(retained'[d].models[m]),
                      retained'[d].models[m] # sources'[d][m]
               PROVE  retained'[d].models[m].at > expired_at'[d]
  BY <1>1 DEF HeldIsSuppressedOrNew, Decoded
<1>3. Decoded(retained[d].models[m]) /\ retained[d].models[m] # sources[d][m] =>
         retained[d].models[m].at > expired_at[d]
  BY <1>2 DEF HeldIsSuppressedOrNew
<1>4. CASE Retain
  <2>1. /\ poll.pc = "retain" /\ UNCHANGED <<sources, expired_at>>
        /\ retained'[d] = Retained(d)
    BY <1>4, RetainEffect
  <2>2. retained'[d].models[m] \in {poll.result[d].models[m], retained[d].models[m]}
    BY <1>2, <2>1, RetainedFrom, BlankFields DEF Decoded
  <2>3. CASE retained'[d].models[m] = retained[d].models[m]
    BY <1>2, <1>3, <2>1, <2>3
  <2>4. CASE retained'[d].models[m] = poll.result[d].models[m]
    <3>1. poll.result[d].models[m] \in Snapshots /\ expired_at[d] \in Nat
      BY <1>2, <2>4, ReadingTypes DEF Decoded
    <3>2. ~(poll.result[d].models[m].at <= expired_at[d])
      BY <1>2, <2>1, <2>4 DEF ExpiredIsReadAgain, Decoded
    <3> QED
      BY <2>1, <2>4, <3>1, <3>2, SnapshotFields
  <2> QED
    BY <2>2, <2>3, <2>4
<1>5. CASE UpdateHealth
  <2>1. /\ retained' = retained
        /\ \/ sources'[d] = retained[d].models
           \/ expired_at'[d] = expired_at[d] /\ sources'[d] = sources[d]
    BY <1>5, UpdateHealthEffect
  <2> QED
    BY <1>2, <1>3, <2>1
<1>6. CASE StartPoll \/ BeginDevice \/ Discover \/ ReadModel \/ EndDevice
  <2>1. UNCHANGED <<retained, sources, expired_at>>
    BY <1>6, StartPollEffect, BeginDeviceEffect, DiscoverEffect, ReadModelEffect,
       EndDeviceEffect DEF Readings
  <2> QED
    BY <1>2, <1>3, <2>1
<1>7. CASE BumpEpochs \/ Publish \/ Abandon
  <2>1. UNCHANGED <<retained, sources, expired_at>>
    BY <1>7, BumpEpochsEffect, PublishEffect, AbandonEffect DEF Readings
  <2> QED
    BY <1>2, <1>3, <2>1
<1>8. CASE Outside \/ UNCHANGED vars
  <2>1. UNCHANGED <<retained, sources, expired_at>>
    BY <1>8, RequestRefreshEffect, ReplaceEffect, QuietEffect DEF Outside, Readings
  <2> QED
    BY <1>2, <1>3, <2>1
<1> QED
  BY <1>4, <1>5, <1>6, <1>7, <1>8 DEF Next, Worker

LEMMA ReadbackInductive ==
  ASSUME TypeOK, CachedIsPublished, SlowTogether, BudgetIsSpent, ReadbackIsUnderWay,
         [Next]_vars
  PROVE  ReadbackIsUnderWay'
<1> DEFINE Published(r) ==
              \A d \in Devices, m \in Models :
                 data[d].models[m] # None => data[d].models[m].at > r
           Counted == poll.n = IF poll.pc = "idle" THEN published ELSE published + 1
           Pending == requested # None =>
                        /\ requested <= poll.n
                        /\ requested = poll.n => force
                        /\ requested < poll.n /\ published <= requested => poll.force
                        /\ published > requested => Published(requested)
<1>1. Uncancelled' => Uncancelled /\ ~Abandon
  BY BudgetBackwards
<1>2. SUFFICES ASSUME Uncancelled, ~Abandon  PROVE Counted' /\ Pending'
  BY <1>1 DEF ReadbackIsUnderWay
<1>3. Counted /\ Pending
  BY <1>2 DEF ReadbackIsUnderWay
<1>4. poll.n \in Nat /\ published \in Nat /\ requested \in Nat \cup {None} /\ None \notin Nat
  BY PollFields, ConstantAssumption DEF TypeOK
<1>5. ASSUME UNCHANGED <<data, requested, published, force>>, poll'.n = poll.n,
             poll'.force = poll.force, poll.pc # "idle", poll'.pc # "idle"
      PROVE  Counted' /\ Pending'
  BY <1>3, <1>5
<1>6. CASE StartPoll
  <2>1. /\ UNCHANGED <<data, requested, published>> /\ poll'.n = poll.n + 1
        /\ poll.pc = "idle" /\ poll'.pc = "device" /\ poll'.force = force
    BY <1>6, StartPollEffect DEF Readings
  <2>2. poll.n = published
    BY <1>3, <2>1
  <2>3. Counted'
    BY <2>1, <2>2
  <2>4. ASSUME requested # None
        PROVE  /\ requested <= poll.n + 1 /\ requested # poll.n + 1
               /\ published <= requested => force
    BY <1>3, <1>4, <2>2, <2>4
  <2>5. Pending'
    BY <1>3, <2>1, <2>4
  <2> QED
    BY <2>3, <2>5
<1>7. CASE BeginDevice \/ Discover \/ ReadModel \/ EndDevice
  <2>1. /\ UNCHANGED <<data, requested, published, force>> /\ poll'.n = poll.n
        /\ poll'.force = poll.force /\ poll.pc # "idle" /\ poll'.pc # "idle"
    BY <1>7, BeginDeviceEffect, DiscoverEffect, ReadModelEffect, EndDeviceEffect
    DEF Readings, SamePoll
  <2> QED
    BY <1>5, <2>1
<1>8. CASE BumpEpochs \/ Retain \/ UpdateHealth
  <2>1. /\ UNCHANGED <<data, requested, published, force>> /\ poll'.n = poll.n
        /\ poll'.force = poll.force /\ poll.pc # "idle" /\ poll'.pc # "idle"
    BY <1>8, BumpEpochsEffect, RetainEffect, UpdateHealthEffect DEF SamePoll
  <2> QED
    BY <1>5, <2>1
<1>9. CASE Publish
  <2>1. /\ UNCHANGED <<requested, force>> /\ data' = poll.result /\ published' = poll.n
        /\ poll'.n = poll.n /\ poll.pc = "answer" /\ poll'.pc = "idle"
    BY <1>9, PublishEffect DEF Idle
  <2>2. ASSUME requested # None, poll.n > requested,
               NEW d \in Devices, NEW m \in Models, poll.result[d].models[m] # None
        PROVE  poll.result[d].models[m].at > requested
    <3>1. CASE poll.result[d].models[m].at = poll.n
      BY <2>2, <3>1
    <3>2. CASE poll.result[d].models[m].at # poll.n
      <4>1. poll.result[d].models[m] = data[d].models[m]
        BY <2>2, <3>2 DEF CachedIsPublished
      <4>2. ~poll.force
        BY <2>2, <3>2 DEF SlowTogether, ReadAll
      <4>3. published > requested
        BY <1>3, <1>4, <2>2, <4>2
      <4> QED
        BY <1>3, <2>2, <4>1, <4>3
    <3> QED
      BY <3>1, <3>2
  <2>3. Counted'
    BY <2>1
  <2>4. Pending'
    BY <1>3, <1>4, <2>1, <2>2
  <2> QED
    BY <2>3, <2>4
<1>10. CASE RequestRefresh
  <2>1. /\ UNCHANGED <<poll, data, published>> /\ force' = TRUE /\ requested' = poll.n
    BY <1>10, RequestRefreshEffect
  <2>2. ~(published > poll.n)
    BY <1>3, <1>4
  <2> QED
    BY <1>3, <1>4, <2>1, <2>2
<1>11. CASE SetTimeout \/ Tick \/ (\E d \in Devices : Replace(d)) \/ UNCHANGED vars
  <2>1. UNCHANGED <<poll, data, requested, published, force>>
    BY <1>11, ReplaceEffect, QuietEffect DEF Readings
  <2> QED
    BY <1>3, <2>1
<1> QED
  BY <1>2, <1>6, <1>7, <1>8, <1>9, <1>10, <1>11 DEF Next, Worker, Outside

LEMMA InitReadings == Init => ReadingsInv
<1> SUFFICES ASSUME Init  PROVE ReadingsInv
  OBVIOUS
<1>1. /\ poll.pc = "idle" /\ poll.n = 0 /\ poll.force = FALSE /\ poll.incompatible = {}
      /\ poll.reads = NoPayloads /\ poll.result = [d \in Devices |-> Offline]
      /\ data = [d \in Devices |-> Offline] /\ retained = [d \in Devices |-> Offline]
  BY NoPollFields DEF Init
<1>2. /\ \A d \in Devices : data[d] = Offline /\ retained[d] = Offline /\ poll.result[d] = Offline
      /\ \A d \in Devices, m \in Models :
            /\ data[d].models[m] = None /\ retained[d].models[m] = None
            /\ poll.result[d].models[m] = None /\ sources[d][m] = None
      /\ \A m \in Models : poll.reads[m] = None
  BY <1>1, OfflineFields DEF Init
<1>3. DevicesAreComplete
  BY <1>1, <1>2, CompleteOffline DEF DevicesAreComplete
<1>4. ReadingsArePast
  BY <1>1, <1>2 DEF Init, ReadingsArePast
<1>5. CachedIsPublished /\ SlowTogether
  BY <1>1, <1>2 DEF CachedIsPublished, SlowTogether
<1>6. IncompatibleInTurn /\ EvidenceIsNoted
  BY <1>1, <1>2 DEF IncompatibleInTurn, EvidenceIsNoted
<1>7. BudgetIsSpent
  BY ConstantAssumption DEF Init, BudgetIsSpent
<1>8. UnitIsOne /\ HeldIsLatest /\ HeldIsOfProvenUnit /\ HeldIsSuppressedOrNew
  BY <1>1, <1>2 DEF UnitIsOne, HeldIsLatest, HeldIsOfProvenUnit, HeldIsSuppressedOrNew, Decoded
<1>9. SilentIsNotLive /\ ExpiredIsReadAgain
  BY <1>1, <1>2 DEF Init, SilentIsNotLive, ExpiredIsReadAgain
<1>10. ReadbackIsUnderWay
  BY <1>1 DEF Init, ReadbackIsUnderWay
<1> QED
  BY <1>3, <1>4, <1>5, <1>6, <1>7, <1>8, <1>9, <1>10 DEF ReadingsInv

(* Every reading comes from where its age says: published payloads, held      *)
(* readings, readings hidden since a timeout, and the poll that is running    *)
(* agree with one another.  (_poll_devices, _retain_measurements)             *)
THEOREM ReadingsInvariance == Spec => []ReadingsInv
<1>1. TypeOK /\ ResultIsNew /\ ExpiryInv /\ ReadingsInv /\ [Next]_vars => ReadingsInv'
  <2> SUFFICES ASSUME TypeOK, ResultIsNew, ExpiryInv, ReadingsInv, [Next]_vars
               PROVE  ReadingsInv'
    OBVIOUS
  <2> USE DEF ReadingsInv
  <2>1. ExpiryIsPast
    BY DEF ExpiryInv
  <2>2. DevicesAreComplete' /\ ReadingsArePast'
    BY CompleteInductive, PastInductive
  <2>3. CachedIsPublished' /\ SlowTogether'
    BY CachedInductive, TogetherInductive
  <2>4. IncompatibleInTurn' /\ EvidenceIsNoted' /\ BudgetIsSpent'
    BY IncompatibleInductive, EvidenceInductive, BudgetBackwards
  <2>5. UnitIsOne' /\ HeldIsLatest'
    BY UnitInductive, LatestInductive
  <2>6. HeldIsOfProvenUnit' /\ SilentIsNotLive'
    BY ProvenInductive, SilentInductive
  <2>7. ExpiredIsReadAgain' /\ HeldIsSuppressedOrNew' /\ ReadbackIsUnderWay'
    BY <2>1, ReadAgainInductive, SuppressedInductive, ReadbackInductive
  <2> QED
    BY <2>2, <2>3, <2>4, <2>5, <2>6, <2>7
<1> QED
  BY <1>1, InitReadings, TypeCorrect, NewInvariance, ExpiryInvariance, PTL DEF Spec

(* As long as no refresh has been cancelled, no reading from before a timeout *)
(* is shown again, of slow models as of fast ones.                            *)
THEOREM ExpiredStaysHiddenUncancelled ==
  Spec => [](Uncancelled => ExpiredReadingStaysHidden)
<1>1. ReadingsInv => (Uncancelled => ExpiredReadingStaysHidden)
  BY DEF ReadingsInv, HeldIsSuppressedOrNew, ExpiredReadingStaysHidden, Shown, Measurable, Decoded
<1> QED
  BY <1>1, ReadingsInvariance, PTL

(* Of a replaced unit no reading is left, as long as no refresh has been      *)
(* cancelled and unless a fast model told the units apart before the slow     *)
(* ones were read.                                                            *)
THEOREM OldUnitStaysForgottenAlways == Spec => [](Steady => OldUnitStaysForgotten)
<1>1. ReadingsInv => (Steady => OldUnitStaysForgotten)
  BY DEF ReadingsInv, HeldIsOfProvenUnit, OldUnitStaysForgotten, Shown, Decoded
<1> QED
  BY <1>1, ReadingsInvariance, PTL

(* A requested refresh reads back what was written before it, as long as no   *)
(* refresh has been cancelled.                                                *)
THEOREM ReadbackIsPublishedAlways == Spec => [](Uncancelled => ReadbackIsPublished)
<1>1. ReadingsInv => (Uncancelled => ReadbackIsPublished)
  BY DEF ReadingsInv, ReadbackIsUnderWay, ReadbackIsPublished
<1> QED
  BY <1>1, ReadingsInvariance, PTL

(* Only retention and communication health change what sensors may show.      *)
LEMMA ShownSteps ==
  ASSUME TypeOK, [Next]_vars, ~Retain, ~UpdateHealth
  PROVE  UNCHANGED <<retained, sources, expired>>
<1>1. CASE StartPoll \/ BeginDevice \/ Discover \/ ReadModel \/ EndDevice \/ BumpEpochs
  BY <1>1 DEF StartPoll, BeginDevice, Discover, ReadModel, EndDevice, BumpEpochs, results, health
<1>2. CASE Publish \/ Abandon \/ Outside \/ UNCHANGED vars
  BY <1>2 DEF Publish, Abandon, Outside, RequestRefresh, SetTimeout, Tick, Replace, vars,
              results, health
<1> QED
  BY <1>1, <1>2 DEF Next, Worker

LEMMA RetainHolds ==
  ASSUME TypeOK, ReadingsInv, Uncancelled, Retain,
         NEW d \in Devices, NEW m \in Models, Shown(d, m), proven_at[d] # poll.n,
         ~(poll.result[d].models[m] # None /\ poll.result[d].models[m].ok = "invalid")
  PROVE  Shown(d, m)'
<1> DEFINE new == poll.result[d].models[m]
           old == retained[d].models[m]
<1> USE DEF ReadingsInv
<1>1. /\ poll.pc = "retain" /\ retained'[d] = Retained(d) /\ sources' = sources
      /\ expired' = expired
  BY RetainEffect DEF Retain, health
<1>2. /\ old # None /\ old.ok = "ok" /\ d \notin expired /\ old # sources[d][m]
      /\ retained[d].available
  BY DEF Shown, Measurable
<1>3. ~Changed(d) /\ d \notin poll.incompatible
  BY <1>1 DEF EvidenceIsNoted, Changed
<1>4. CASE Retained(d) = retained[d]
  BY <1>1, <1>2, <1>4 DEF Shown, Measurable
<1>5. CASE Retained(d) # retained[d]
  <2> DEFINE kept == [x \in Models |-> Kept(d, x)]
  <2>1. /\ Retained(d).models = kept /\ Retained(d).available = Readable(kept)
        /\ poll.result[d].models # NoPayloads
    BY <1>3, <1>5 DEF Retained
  <2>2. kept[m] = Kept(d, m)
    OBVIOUS
  <2>3. new # None /\ new.ok # "blank"
    <3>1. poll.result[d].layout # None
      <4>1. poll.result[d].models \in Payloads /\ Complete(poll.result[d])
        BY PollFields DEF TypeOK, DeviceSnapshots, DevicesAreComplete
      <4>2. SUFFICES ASSUME \A x \in Models : poll.result[d].models[x] = None  PROVE FALSE
        BY <4>1 DEF Complete
      <4>3. poll.result[d].models = NoPayloads
        BY <4>1, <4>2 DEF Payloads, NoPayloads
      <4> QED
        BY <2>1, <4>3
    <3> QED
      BY <3>1 DEF DevicesAreComplete, Complete
  <2>4. new.ok \in {"ok", "failed"}
    BY <2>3, ReadingTypes, SnapshotFields
  <2>5. Kept(d, m) = IF new.ok = "failed" THEN old ELSE new
    BY <1>2, <1>3, <2>3, KeptCases
  <2>6. Kept(d, m) # None /\ Kept(d, m).ok = "ok"
    BY <1>2, <2>3, <2>4, <2>5
  <2>7. Readable(kept)
    BY <2>2, <2>6 DEF Readable
  <2>8. Kept(d, m) # sources[d][m]
    <3>1. CASE new.ok = "failed"
      BY <1>2, <2>5, <3>1
    <3>2. CASE new.ok = "ok" /\ new.at = poll.n
      <4>1. sources[d][m] # None => sources[d][m].at < poll.n
        BY <1>1 DEF ReadingsArePast
      <4>2. poll.n \in Nat
        BY ReadingTypes
      <4> QED
        BY <2>3, <2>5, <3>2, <4>1, <4>2
    <3>3. CASE new.ok = "ok" /\ new.at # poll.n
      <4>1. old = new
        BY <1>1, <1>2, <2>3, <3>3, UnreadIsHeld
      <4> QED
        BY <1>2, <2>5, <3>3, <4>1
    <3> QED
      BY <2>4, <3>1, <3>2, <3>3
  <2> HIDE DEF kept
  <2> QED
    BY <1>1, <1>2, <2>1, <2>2, <2>6, <2>7, <2>8 DEF Shown, Measurable
<1> QED
  BY <1>4, <1>5

(* As long as no refresh is cancelled, only silence, an undecodable payload   *)
(* or evidence of another unit or layout takes a shown reading away.          *)
THEOREM HeldUntilDisprovedAlways == Spec => HeldUntilDisproved
<1>1. TypeOK /\ ReadingsInv /\ [Next]_vars =>
        [budget.cancels = MaxCancels =>
            \A d \in Devices, m \in Models :
                Shown(d, m) /\ ~Shown(d, m)' =>
                    \/ d \in expired'
                    \/ proven_at[d] = poll.n
                    \/ /\ poll.result[d].models[m] # None
                       /\ poll.result[d].models[m].ok = "invalid"]_vars
  <2> SUFFICES ASSUME TypeOK, ReadingsInv, [Next]_vars, budget.cancels = MaxCancels,
                      NEW d \in Devices, NEW m \in Models, Shown(d, m), ~Shown(d, m)'
               PROVE  \/ d \in expired'
                      \/ proven_at[d] = poll.n
                      \/ /\ poll.result[d].models[m] # None
                         /\ poll.result[d].models[m].ok = "invalid"
    OBVIOUS
  <2>1. Uncancelled
    BY DEF Uncancelled
  <2>2. CASE Retain
    BY <2>1, <2>2, RetainHolds
  <2>3. CASE UpdateHealth
    <3>1. retained' = retained /\ d \notin expired
      BY <2>3 DEF UpdateHealth, results, Shown, Measurable
    <3>2. CASE d \in {x \in Devices \ expired : Overdue(x)}
      BY <2>3, <3>1, <3>2 DEF UpdateHealth, Recovered
    <3>3. CASE d \notin {x \in Devices \ expired : Overdue(x)}
      <4>1. sources'[d] = sources[d]
        BY <2>3, <3>3 DEF UpdateHealth
      <4> QED
        BY <3>1, <4>1 DEF Shown, Measurable
    <3> QED
      BY <3>2, <3>3
  <2>4. CASE ~Retain /\ ~UpdateHealth
    <3>1. UNCHANGED <<retained, sources, expired>>
      BY <2>4, ShownSteps
    <3> QED
      BY <3>1 DEF Shown, Measurable
  <2> QED
    BY <2>2, <2>3, <2>4
<1> QED
  BY <1>1, TypeCorrect, ReadingsInvariance, PTL DEF Spec, HeldUntilDisproved

(* No sensor goes back to an older reading, as long as no refresh has been    *)
(* cancelled, where units are told apart by slow models or never replaced.    *)
THEOREM ReadingsAdvanceAlways ==
  ASSUME IdModels \cap FastModels = {} \/ MaxSwaps = 0
  PROVE  Spec => ReadingsAdvance
<1>1. TypeOK /\ ReadingsInv /\ [Next]_vars =>
        [budget.cancels = MaxCancels =>
            \A d \in Devices, m \in Models :
                LET old == retained[d].models[m]
                    new == retained'[d].models[m]
                IN  (old # None /\ new # None) => new.at >= old.at]_vars
  <2> SUFFICES ASSUME TypeOK, ReadingsInv, [Next]_vars, budget.cancels = MaxCancels,
                      NEW d \in Devices, NEW m \in Models,
                      retained[d].models[m] # None, retained'[d].models[m] # None
               PROVE  retained'[d].models[m].at >= retained[d].models[m].at
    OBVIOUS
  <2> DEFINE old == retained[d].models[m]
             new == poll.result[d].models[m]
  <2> USE DEF ReadingsInv
  <2>1. Steady
    <3>1. MaxSwaps = 0 => budget.swaps = MaxSwaps
      BY BudgetSteps DEF BudgetIsSpent
    <3> QED
      BY <3>1 DEF Steady, Uncancelled, NamedAtOnce
  <2>2. /\ old.at \in Nat /\ poll.n \in Nat /\ (new # None => new.at \in Nat)
        /\ old.at <= poll.n
    BY ReadingTypes, SnapshotFields DEF ReadingsArePast
  <2>3. CASE Retain
    <3>1. poll.pc = "retain" /\ retained'[d] = Retained(d)
      BY <2>3, RetainEffect
    <3>2. retained'[d].models[m] \in {Blank, new, old}
      BY <3>1, RetainedFrom
    <3>3. new # None => new.at >= old.at
      <4>1. CASE new.at = poll.n
        BY <2>2, <4>1
      <4>2. CASE new # None /\ new.at # poll.n
        BY <2>1, <2>2, <3>1, <4>2, UnreadIsHeld DEF Steady
      <4> QED
        BY <4>1, <4>2
    <3> QED
      BY <2>2, <3>2, <3>3, BlankFields
  <2>4. CASE ~Retain
    <3>1. retained' = retained
      <4>1. CASE UpdateHealth
        BY <4>1, UpdateHealthEffect
      <4>2. CASE ~UpdateHealth
        BY <2>4, <4>2, ShownSteps
      <4> QED
        BY <4>1, <4>2
    <3> QED
      BY <2>2, <3>1
  <2> QED
    BY <2>3, <2>4
<1> QED
  BY <1>1, TypeCorrect, ReadingsInvariance, PTL DEF Spec, ReadingsAdvance
=============================================================================
