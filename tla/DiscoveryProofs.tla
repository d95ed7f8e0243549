-------------------------- MODULE DiscoveryProofs --------------------------
(***************************************************************************)
(* Proofs about the walk over the models of a device, for every number of  *)
(* models, every header and every address space.                           *)
(***************************************************************************)
EXTENDS Discovery, TLAPS

\* The models found so far end where the next header is read, which has room.
AtHeader ==
    /\ header = (IF models = <<>> THEN Start + SignatureSize ELSE Behind(models[Len(models)]))
    /\ models # <<>> => header < MaxAddress

WalkInv == WalkTypeOK /\ ChainFits /\ (walk # "failed" => AtHeader)

LEMMA Initially == WalkInit => WalkInv
  BY StartAssumption, MaxModelsAssumption
  DEF WalkInit, WalkInv, WalkTypeOK, ChainFits, AtHeader, DiscoveredModel, SignatureSize

\* A walk that fails forgets what it found.
LEMMA FailureKeeps ==
  ASSUME WalkInv, walk' = "failed", models' = <<>>, header' = header
  PROVE  WalkInv'
  BY StartAssumption, MaxModelsAssumption
  DEF WalkInv, WalkTypeOK, ChainFits, AtHeader, DiscoveredModel

\* A step that leaves the models alone.
LEMMA StatusKeeps ==
  ASSUME WalkInv, walk # "failed", walk' \in {"walking", "found"}, UNCHANGED <<header, models>>
  PROVE  WalkInv'
  BY DEF WalkInv, WalkTypeOK, ChainFits, AtHeader, Behind, SignatureSize, HeaderSize

\* One more model, behind the others.
LEMMA ReadModelKeeps ==
  ASSUME WalkInv, NEW h \in Headers, ReadModel(h)
  PROVE  WalkInv'
<1> DEFINE m == [id |-> h[1], base |-> header + HeaderSize, length |-> h[2]]
<1> USE DEF HeaderSize, SignatureSize
<1>1. h[1] \in Nat /\ h[2] \in Nat /\ h[2] > 0 /\ header \in Nat /\ models \in Seq(DiscoveredModel)
  BY HeadersAssumption DEF ReadModel, WalkInv, WalkTypeOK
<1>2. m \in DiscoveredModel
  BY <1>1 DEF DiscoveredModel
<1>3. /\ models' = Append(models, m)
      /\ header' = header + 2 + h[2]
      /\ header' <= MaxAddress - 1
      /\ walk = "walking" /\ walk' = walk
      /\ h[1] # EndModel
      /\ Len(models) < MaxModels
  BY <1>1 DEF ReadModel, CanReadHeader
<1> HIDE DEF m
<1>4. /\ models' \in Seq(DiscoveredModel)
      /\ Len(models') = Len(models) + 1
      /\ DOMAIN models' = 1 .. Len(models) + 1
      /\ models'[Len(models) + 1] = m
      /\ \A i \in 1 .. Len(models) : models'[i] = models[i]
      /\ models' # <<>>
      /\ Len(models) \in Nat
  BY <1>1, <1>2, <1>3
<1>5. WalkTypeOK'
  BY <1>1, <1>3, <1>4 DEF WalkTypeOK
<1>6. m.base = header + 2 /\ m.length = h[2] /\ m.id = h[1]
  BY DEF m
<1>7. header' = m.base + m.length
  BY <1>1, <1>3, <1>6
<1>8. AtHeader'
  BY <1>3, <1>4, <1>7, MaxAddressAssumption, <1>1 DEF AtHeader, Behind
<1>9. ASSUME NEW i \in DOMAIN models'
      PROVE  /\ models'[i].base = 2 + (IF i = 1 THEN Start + 2 ELSE Behind(models'[i - 1]))
             /\ Behind(models'[i]) < MaxAddress
             /\ models'[i].id # EndModel
  <2>1. CASE i \in 1 .. Len(models)
    <3>1. models'[i] = models[i] /\ (i # 1 => models'[i - 1] = models[i - 1])
      BY <2>1, <1>4
    <3>2. i \in DOMAIN models
      BY <2>1, <1>1
    <3>3. /\ models[i].base = 2 + (IF i = 1 THEN Start + 2 ELSE Behind(models[i - 1]))
          /\ Behind(models[i]) < MaxAddress
          /\ models[i].id # EndModel
      BY <3>2 DEF WalkInv, ChainFits
    <3> QED
      BY <3>1, <3>3 DEF Behind
  <2>2. CASE i = Len(models) + 1
    <3>1. models'[i] = m
      BY <2>2, <1>4
    <3>2. header = (IF i = 1 THEN Start + 2 ELSE Behind(models'[i - 1]))
      <4>1. header = (IF models = <<>> THEN Start + 2 ELSE Behind(models[Len(models)]))
        BY <1>3 DEF WalkInv, AtHeader
      <4>2. CASE models = <<>>
        BY <4>1, <4>2, <2>2, <1>1
      <4>3. CASE models # <<>>
        <5>1. Len(models) \in 1 .. Len(models) /\ i # 1 /\ i - 1 = Len(models)
          BY <4>3, <2>2, <1>1
        <5> QED
          BY <4>1, <4>3, <5>1, <1>4
      <4> QED
        BY <4>2, <4>3
    <3>3. Behind(m) < MaxAddress
      BY <1>1, <1>3, <1>7, MaxAddressAssumption DEF Behind
    <3> QED
      BY <3>1, <3>2, <3>3, <1>1, <1>3, <1>6
  <2> QED
    BY <2>1, <2>2, <1>4
<1>10. ChainFits'
  BY <1>3, <1>4, <1>9, MaxModelsAssumption DEF ChainFits
<1> QED
  BY <1>5, <1>8, <1>10 DEF WalkInv

LEMMA StepKeeps == WalkInv /\ [Walk]_walkVars => WalkInv'
<1> SUFFICES ASSUME WalkInv, [Walk]_walkVars
             PROVE  WalkInv'
  OBVIOUS
<1>1. CASE VerifySignature
  BY <1>1, StatusKeeps DEF VerifySignature
<1>2. CASE Fail
  BY <1>2, FailureKeeps DEF Fail
<1>3. CASE ReadEnd
  BY <1>3, StatusKeeps DEF ReadEnd, CanReadHeader
<1>4. CASE \E h \in Headers : ReadModel(h)
  BY <1>4, ReadModelKeeps
<1>5. CASE \E h \in Headers : RefuseModel(h)
  BY <1>5, FailureKeeps DEF RefuseModel
<1>6. CASE Exceed
  BY <1>6, FailureKeeps DEF Exceed
<1>7. CASE UNCHANGED walkVars
  BY <1>7 DEF walkVars, WalkInv, WalkTypeOK, ChainFits, AtHeader, Behind
<1> QED
  BY <1>1, <1>2, <1>3, <1>4, <1>5, <1>6, <1>7 DEF Walk

\* Every reachable state of a walk satisfies the inductive invariant.
THEOREM WalkInvariance == WalkSpec => []WalkInv
<1>1. WalkInit => WalkInv
  BY Initially
<1>2. WalkInv /\ [Walk]_walkVars => WalkInv'
  BY StepKeeps
<1> QED
  BY <1>1, <1>2, PTL DEF WalkSpec

\* discover (sunspec.py): whatever the device answers, the models found follow
\* one another without overlap within the address space of Modbus.
THEOREM ChainFitsAlways == WalkSpec => []ChainFits
<1>1. WalkInv => ChainFits
  BY DEF WalkInv
<1> QED
  BY <1>1, WalkInvariance, PTL

\* discover (sunspec.py): every model found has an address, a number and data.
THEOREM WalkTypeCorrect == WalkSpec => []WalkTypeOK
<1>1. WalkInv => WalkTypeOK
  BY DEF WalkInv
<1> QED
  BY <1>1, WalkInvariance, PTL

\* Every model ends before the ones behind it, and before the next header.
Apart ==
    \A j \in DOMAIN models :
        /\ Behind(models[j]) <= header
        /\ \A i \in DOMAIN models : i < j => Behind(models[i]) <= models[j].base

\* One more model begins behind all others.
LEMMA ApartAtNext ==
  ASSUME WalkInv, Apart, NEW h \in Headers, ReadModel(h)
  PROVE  Apart'
<1> DEFINE m == [id |-> h[1], base |-> header + HeaderSize, length |-> h[2]]
<1>1. h[2] \in Nat /\ header \in Nat /\ models \in Seq(DiscoveredModel)
  BY HeadersAssumption DEF WalkInv, WalkTypeOK
<1>2. models' = Append(models, m) /\ header' = m.base + m.length
  BY DEF ReadModel
<1>3. m.base = header + 2 /\ m.length = h[2]
  BY DEF HeaderSize
<1> HIDE DEF m
<1>4. /\ DOMAIN models' = 1 .. Len(models) + 1
      /\ models'[Len(models) + 1] = m
      /\ \A i \in 1 .. Len(models) : models'[i] = models[i]
      /\ Len(models) \in Nat /\ DOMAIN models = 1 .. Len(models)
  BY <1>1, <1>2
<1>5. \A i \in DOMAIN models : Behind(models[i]) \in Nat /\ Behind(models[i]) <= header
  <2> SUFFICES ASSUME NEW i \in DOMAIN models
               PROVE  Behind(models[i]) \in Nat /\ Behind(models[i]) <= header
    OBVIOUS
  <2>1. models[i] \in DiscoveredModel
    BY <1>1
  <2> QED
    BY <2>1 DEF Apart, Behind, DiscoveredModel
<1>6. ASSUME NEW j \in DOMAIN models'
      PROVE  /\ Behind(models'[j]) <= header'
             /\ \A i \in DOMAIN models' : i < j => Behind(models'[i]) <= models'[j].base
  <2>1. CASE j \in DOMAIN models
    <3>1. models'[j] = models[j] /\ j \in 1 .. Len(models)
      BY <1>4, <2>1
    <3>2. Behind(models[j]) <= header'
      BY <1>1, <1>2, <1>3, <1>5, <2>1
    <3>3. ASSUME NEW i \in DOMAIN models', i < j
          PROVE  Behind(models'[i]) <= models'[j].base
      <4>1. i \in DOMAIN models /\ models'[i] = models[i]
        BY <1>4, <3>1, <3>3
      <4>2. Behind(models[i]) <= models[j].base
        BY <2>1, <3>3, <4>1, Zenon DEF Apart
      <4> QED
        BY <3>1, <4>1, <4>2
    <3> QED
      BY <3>1, <3>2, <3>3 DEF Behind
  <2>2. CASE j = Len(models) + 1
    <3>1. models'[j] = m /\ Behind(m) = header'
      BY <1>2, <1>4, <2>2 DEF Behind
    <3>2. header' \in Nat
      BY <1>1, <1>2, <1>3
    <3>3. ASSUME NEW i \in DOMAIN models', i < j
          PROVE  Behind(models'[i]) <= m.base
      <4>1. i \in DOMAIN models /\ models'[i] = models[i]
        BY <1>4, <2>2, <3>3
      <4>2. Behind(models'[i]) = Behind(models[i])
        BY <4>1, Zenon
      <4> QED
        BY <1>1, <1>3, <1>5, <4>1, <4>2
    <3> QED
      BY <3>1, <3>2, <3>3
  <2> QED
    BY <1>4, <2>1, <2>2
<1> QED
  BY <1>6, Zenon DEF Apart

LEMMA ApartKept == WalkInv /\ Apart /\ [Walk]_walkVars => Apart'
<1> SUFFICES ASSUME WalkInv, Apart, [Walk]_walkVars
             PROVE  Apart'
  OBVIOUS
<1>1. CASE UNCHANGED <<header, models>>
  BY <1>1 DEF Apart, Behind
<1>2. CASE models' = <<>>
  BY <1>2 DEF Apart
<1>3. CASE \E h \in Headers : ReadModel(h)
  BY <1>3, ApartAtNext
<1> QED
  BY <1>1, <1>2, <1>3
  DEF Walk, VerifySignature, Fail, ReadEnd, CanReadHeader, RefuseModel, Exceed, walkVars

\* No two models of a chain share an address.
THEOREM ModelsApart == WalkSpec => []Apart
<1>1. WalkInit => Apart
  BY DEF WalkInit, Apart
<1> QED
  BY <1>1, ApartKept, WalkInvariance, PTL DEF WalkSpec
=============================================================================
