-------------------------- MODULE PublicationProofs --------------------------
(***************************************************************************)
(* What is proved of the coordinator's measurements holds beside the        *)
(* sensors, too, and no derived value mixes readings of different polls,    *)
(* whatever it is derived from and whenever it is captured.                 *)
(***************************************************************************)
EXTENDS Publication, MeasurementProofs

(***************************************************************************)
(* Sensors only read what the coordinator has.                              *)
(***************************************************************************)

LEMMA StepsOfMeasurements == [PublicationNext]_allVars => [Next]_vars
<1>1. CASE PublicationNext
  BY <1>1 DEF PublicationNext, WorkAndMeasure, PublishAndCapture, Notify, Next
<1>2. CASE UNCHANGED allVars
  BY <1>2 DEF allVars
<1> QED
  BY <1>1, <1>2

(* Capturing for display changes nothing of the coordinator: with sensors it  *)
(* behaves as Measurements says, and all that is proved of those holds.       *)
THEOREM SensorsOnlyRead == PublicationSpec => Spec
<1>1. PublicationInit => Init
  BY DEF PublicationInit
<1> QED
  BY <1>1, StepsOfMeasurements, PTL DEF PublicationSpec, Spec

(***************************************************************************)
(* Types.                                                                   *)
(***************************************************************************)

LEMMA DependencyParts ==
  ASSUME NEW dependency \in Dependencies
  PROVE  dependency[1] \in Devices /\ dependency[2] \in FastModels /\ dependency[2] \in Models
  BY PublicationAssumption, ConstantAssumption

(* What sensors find was read, of every dependency, from the given data.      *)
LEMMA FoundAreRead ==
  ASSUME NEW from \in [Devices -> DeviceSnapshots], SourcesIn(from) # None
  PROVE  /\ SourcesIn(from) \in Sources
         /\ \A dependency \in Dependencies :
              /\ SourcesIn(from)[dependency] = from[dependency[1]].models[dependency[2]]
              /\ SourcesIn(from)[dependency] # None
<1> DEFINE found == [dependency \in Dependencies |-> from[dependency[1]].models[dependency[2]]]
<1>1. /\ SourcesIn(from) = found
      /\ \A dependency \in Dependencies : Valid(from[dependency[1]].models[dependency[2]])
  BY DEF SourcesIn
<1>2. ASSUME NEW dependency \in Dependencies
      PROVE  from[dependency[1]].models[dependency[2]] \in Snapshots
  BY <1>1, <1>2, DependencyParts DEF Valid, DeviceSnapshots, Payloads
<1>3. found \in Sources
  BY <1>2 DEF Sources
<1> QED
  BY <1>1, <1>3 DEF Valid

(* The window that a capture goes on with.                                    *)
WindowKept == IF Cleared THEN NoWindow ELSE window

(* What a capture makes of the samples.                                       *)
LEMMA CaptureForm ==
  ASSUME NEW from, NEW mode, CaptureDerived(from, mode)
  PROVE  \E new :
           /\ \/ new = {}
              \/ /\ SourcesIn(from) # None
                 /\ Windowed => mode = "eligible"
                 /\ new = {[time |-> measured, era |-> era'.n, sources |-> SourcesIn(from)]}
           /\ window' = IF Windowed THEN Observed(WindowKept, new, mode) ELSE window
           /\ \/ derived'.value = IF Windowed THEN window'.samples ELSE new
              \/ derived'.value = IF Cleared THEN {} ELSE derived.value
           /\ derived'.epochs = OfInvolved(epochs, derived.epochs)
<1> DEFINE last == IF Cleared THEN None ELSE derived.last
           found == SourcesIn(from)
           fresh == Fresh(found, last)
           sample == [time |-> measured, era |-> era'.n, sources |-> found]
<1>1. PICK defined \in {FALSE, Windowed => mode = "eligible"} :
         LET new == IF fresh /\ defined THEN {sample} ELSE {} IN
         /\ window' = IF Windowed THEN Observed(WindowKept, new, mode) ELSE window
         /\ derived' = [value |-> IF MayPublish(fresh /\ defined)
                                    THEN IF Windowed THEN window'.samples ELSE new
                                  ELSE IF Cleared THEN {} ELSE derived.value,
                        last |-> IF fresh THEN found ELSE last,
                        epochs |-> OfInvolved(epochs, derived.epochs),
                        revisions |-> Confirmed(fresh /\ defined)]
  BY DEF CaptureDerived, WindowKept
<1> DEFINE new == IF fresh /\ defined THEN {sample} ELSE {}
<1>2. fresh => found # None
  BY DEF Fresh
<1>3. new = {} \/ (found # None /\ (Windowed => mode = "eligible") /\ new = {sample})
  BY <1>1, <1>2
<1> HIDE DEF found, fresh, last, sample
<1>4. window' = IF Windowed THEN Observed(WindowKept, new, mode) ELSE window
  BY <1>1
<1>5. /\ \/ derived'.value = IF Windowed THEN window'.samples ELSE new
         \/ derived'.value = IF Cleared THEN {} ELSE derived.value
      /\ derived'.epochs = OfInvolved(epochs, derived.epochs)
  BY <1>1
<1> HIDE DEF new
<1> USE DEF found, sample
<1> QED
  BY <1>3, <1>4, <1>5

LEMMA CaptureDerivedType ==
  ASSUME TypeOK, PublicationTypeOK, NEW from \in [Devices -> DeviceSnapshots],
         NEW mode \in Modes \cup {None}, era'.n \in Nat, CaptureDerived(from, mode)
  PROVE  derived' \in DerivedSensors /\ window' \in Windows
<1> DEFINE last == IF Cleared THEN None ELSE derived.last
           kept == IF Cleared THEN NoWindow ELSE window
           found == SourcesIn(from)
           fresh == Fresh(found, last)
           sample == [time |-> measured, era |-> era'.n, sources |-> found]
<1>1. PICK defined \in BOOLEAN :
         LET new == IF fresh /\ defined THEN {sample} ELSE {} IN
         /\ window' = IF Windowed THEN Observed(kept, new, mode) ELSE window
         /\ derived' = [value |-> IF MayPublish(fresh /\ defined)
                                    THEN IF Windowed THEN window'.samples ELSE new
                                  ELSE IF Cleared THEN {} ELSE derived.value,
                        last |-> IF fresh THEN found ELSE last,
                        epochs |-> OfInvolved(epochs, derived.epochs),
                        revisions |-> Confirmed(fresh /\ defined)]
  BY DEF CaptureDerived
<1> DEFINE new == IF fresh /\ defined THEN {sample} ELSE {}
<1>2. /\ measured \in Nat /\ derived.value \in SUBSET Samples
      /\ derived.last \in Sources \cup {None}
      /\ derived.epochs \in [Devices -> Nat]
      /\ derived.revisions \in [Devices -> Nat \cup {None}]
  BY DEF PublicationTypeOK, DerivedSensors
<1>3. epochs \in [Devices -> Nat] /\ revisions \in [Devices -> Nat]
  BY DEF TypeOK
<1>4. OfInvolved(epochs, derived.epochs) \in [Devices -> Nat]
  BY <1>2, <1>3 DEF OfInvolved
<1>5. Confirmed(fresh /\ defined) \in [Devices -> Nat \cup {None}]
  BY <1>2, <1>3 DEF Confirmed, OfInvolved
<1>6. fresh => found \in Sources
  BY FoundAreRead DEF Fresh
<1>7. new \in SUBSET Samples
  BY <1>2, <1>6 DEF Samples
<1>8. kept \in Windows
  BY DEF NoWindow, Windows, PublicationTypeOK
<1>9. last \in Sources \cup {None}
  BY <1>2
<1> HIDE DEF new, kept, found, fresh, last, sample
<1>10. Observed(kept, new, mode) \in Windows
  <2>1. Remaining(kept, mode) \in SUBSET Samples
    BY <1>8 DEF Remaining, Windows
  <2>2. /\ Remaining(kept, mode) \cup new \in SUBSET Samples
        /\ (IF mode = None THEN kept.mode ELSE mode) \in Modes \cup {None}
    BY <1>7, <1>8, <2>1 DEF Windows
  <2> QED
    BY <2>2 DEF Observed, Windows
<1>11. window' \in Windows
  BY <1>1, <1>10 DEF PublicationTypeOK, new
<1>12. /\ (IF MayPublish(fresh /\ defined) THEN IF Windowed THEN window'.samples ELSE new
            ELSE IF Cleared THEN {} ELSE derived.value) \in SUBSET Samples
       /\ (IF fresh THEN found ELSE last) \in Sources \cup {None}
  BY <1>2, <1>6, <1>7, <1>9, <1>11 DEF Windows
<1>13. derived' = [value |-> IF MayPublish(fresh /\ defined)
                               THEN IF Windowed THEN window'.samples ELSE new
                             ELSE IF Cleared THEN {} ELSE derived.value,
                  last |-> IF fresh THEN found ELSE last,
                  epochs |-> OfInvolved(epochs, derived.epochs),
                  revisions |-> Confirmed(fresh /\ defined)]
  BY <1>1 DEF new
<1>14. derived' \in DerivedSensors
  BY <1>4, <1>5, <1>12, <1>13, Zenon DEF DerivedSensors
<1> QED
  BY <1>11, <1>14

LEMMA CaptureType ==
  ASSUME TypeOK, PublicationTypeOK, NEW from \in [Devices -> DeviceSnapshots],
         Capture(from), measured' = measured
  PROVE  PublicationTypeOK'
<1>1. operating' \in Modes \cup {None}
  BY DEF Capture, ModesIn, PublicationTypeOK
<1>2. era' \in [n : Nat, mode : Modes \cup {None}]
  <2>1. era.n \in Nat
    BY DEF PublicationTypeOK
  <2>2. era' = era \/ era' = [n |-> era.n + 1, mode |-> operating']
    BY DEF Capture
  <2> QED
    BY <1>1, <2>1, <2>2 DEF PublicationTypeOK
<1>3. derived' \in DerivedSensors /\ window' \in Windows
  BY <1>1, <1>2, CaptureDerivedType DEF Capture
<1>4. status' \in [Devices -> Statuses]
  <2>1. ASSUME NEW d \in Devices  PROVE CapturedStatus(from, d) \in Statuses
    <3>1. /\ status[d].held \in Nat \cup {None} /\ status[d].revision \in Nat
          /\ epochs[d] \in Nat /\ revisions[d] \in Nat
      BY DEF PublicationTypeOK, TypeOK, Statuses
    <3>2. Valid(from[d].models[StatusModel]) => from[d].models[StatusModel].at \in Nat
      BY PublicationAssumption, ConstantAssumption
      DEF Valid, DeviceSnapshots, Payloads, Snapshots
    <3> QED
      BY <3>1, <3>2 DEF CapturedStatus, Statuses
  <2> QED
    BY <2>1 DEF Capture
<1> QED
  BY <1>1, <1>2, <1>3, <1>4 DEF PublicationTypeOK

LEMMA PublicationTypeInductive ==
  TypeOK /\ PublicationTypeOK /\ [PublicationNext]_allVars => PublicationTypeOK'
<1> SUFFICES ASSUME TypeOK, PublicationTypeOK, [PublicationNext]_allVars
             PROVE  PublicationTypeOK'
  OBVIOUS
<1>1. CASE WorkAndMeasure
  <2>1. measured' \in Nat
    BY <1>1 DEF WorkAndMeasure, TypeOK, PublicationTypeOK
  <2> QED
    BY <1>1, <2>1 DEF WorkAndMeasure, PublicationTypeOK
<1>2. CASE UNCHANGED sensors
  BY <1>2 DEF sensors, PublicationTypeOK
<1>3. CASE PublishAndCapture
  <2>1. Adopted \in [Devices -> DeviceSnapshots]
    BY PollFields DEF Adopted, TypeOK
  <2> QED
    BY <1>3, <2>1, CaptureType DEF PublishAndCapture
<1>4. CASE Notify
  BY <1>4, CaptureType DEF Notify, TypeOK
<1> QED
  BY <1>1, <1>2, <1>3, <1>4 DEF PublicationNext, allVars

(* What sensors keep is of its type: readings of every dependency, never of   *)
(* some of them.                                                              *)
THEOREM PublicationTypeCorrect == PublicationSpec => [](TypeOK /\ PublicationTypeOK)
<1>1. PublicationInit => PublicationTypeOK
  BY InitType
  DEF PublicationInit, PublicationTypeOK, TypeOK, DerivedSensors, NoWindow, Windows, Statuses
<1> QED
  BY <1>1, PublicationTypeInductive, SensorsOnlyRead, TypeCorrect, PTL DEF PublicationSpec

(***************************************************************************)
(* Coherence.                                                               *)
(***************************************************************************)

(* The payloads of fast models in published data were read by one poll.      *)
DataIsOfOnePoll ==
    \A d \in Devices, m \in FastModels :
        data[d].models[m] # None => data[d].models[m].at = published

OfOnePoll(sample) ==
    \A one, other \in Dependencies : sample.sources[one].at = sample.sources[other].at

CoherenceInv ==
    /\ DataIsOfOnePoll
    /\ \A sample \in derived.value \cup window.samples : OfOnePoll(sample)

(* A capture of data that one poll has read takes samples of one poll.        *)
LEMMA CaptureIsCoherent ==
  ASSUME NEW from \in [Devices -> DeviceSnapshots], NEW n, NEW mode,
         \A d \in Devices, m \in FastModels :
             from[d].models[m] # None => from[d].models[m].at = n,
         \A sample \in derived.value \cup window.samples : OfOnePoll(sample),
         CaptureDerived(from, mode)
  PROVE  \A sample \in derived'.value \cup window'.samples : OfOnePoll(sample)
<1> DEFINE taken == [time |-> measured, era |-> era'.n, sources |-> SourcesIn(from)]
<1>1. SourcesIn(from) # None => OfOnePoll(taken)
  BY FoundAreRead, DependencyParts DEF OfOnePoll
<1>2. PICK new :
        /\ new = {} \/ (SourcesIn(from) # None /\ new = {taken})
        /\ window' = IF Windowed THEN Observed(WindowKept, new, mode) ELSE window
        /\ \/ derived'.value = IF Windowed THEN window'.samples ELSE new
           \/ derived'.value = IF Cleared THEN {} ELSE derived.value
  BY CaptureForm
<1> HIDE DEF taken
<1>3. \A sample \in new : OfOnePoll(sample)
  BY <1>1, <1>2
<1>4. window'.samples \subseteq window.samples \cup new
  BY <1>2 DEF Observed, Remaining, WindowKept, NoWindow
<1> QED
  BY <1>2, <1>3, <1>4

LEMMA CoherenceInductive ==
  TypeOK /\ ResultIsNew /\ CoherenceInv /\ [PublicationNext]_allVars => CoherenceInv'
<1> SUFFICES ASSUME TypeOK, ResultIsNew, CoherenceInv, [PublicationNext]_allVars
             PROVE  CoherenceInv'
  OBVIOUS
<1>1. CASE WorkAndMeasure
  <2>1. UNCHANGED <<data, published, derived, window>>
    BY <1>1 DEF WorkAndMeasure, Worker, StartPoll, BeginDevice, Discover, ReadModel, EndDevice,
                BumpEpochs, Retain, UpdateHealth, results, history
  <2> QED
    BY <2>1 DEF CoherenceInv, DataIsOfOnePoll
<1>2. CASE (Abandon \/ Outside) /\ UNCHANGED sensors
  <2>1. UNCHANGED <<data, published, derived, window>>
    BY <1>2 DEF Abandon, Outside, RequestRefresh, SetTimeout, Tick, Replace, results, history,
                sensors
  <2> QED
    BY <2>1 DEF CoherenceInv, DataIsOfOnePoll
<1>3. CASE PublishAndCapture
  <2>1. Adopted \in [Devices -> DeviceSnapshots]
    BY PollFields DEF Adopted, TypeOK
  <2>2. \A d \in Devices, m \in FastModels :
           Adopted[d].models[m] # None => Adopted[d].models[m].at = poll.n
    BY DEF Adopted, ResultIsNew
  <2>3. CaptureDerived(Adopted, operating') /\ data' = Adopted /\ published' = poll.n
    BY <1>3 DEF PublishAndCapture, Publish, Capture
  <2>4. \A sample \in derived'.value \cup window'.samples : OfOnePoll(sample)
    BY <2>1, <2>2, <2>3, CaptureIsCoherent DEF CoherenceInv
  <2>5. DataIsOfOnePoll'
    BY <2>2, <2>3 DEF DataIsOfOnePoll
  <2> QED
    BY <2>4, <2>5 DEF CoherenceInv
<1>4. CASE Notify
  <2>1. CaptureDerived(data, operating') /\ UNCHANGED <<data, published>>
    BY <1>4 DEF Notify, Capture, vars, results, history
  <2>2. \A sample \in derived'.value \cup window'.samples : OfOnePoll(sample)
    BY <2>1, CaptureIsCoherent DEF CoherenceInv, DataIsOfOnePoll, TypeOK
  <2> QED
    BY <2>1, <2>2 DEF CoherenceInv, DataIsOfOnePoll
<1>5. CASE UNCHANGED allVars
  <2>1. UNCHANGED <<data, published, derived, window>>
    BY <1>5 DEF allVars, vars, results, history, sensors
  <2> QED
    BY <2>1 DEF CoherenceInv, DataIsOfOnePoll
<1> QED
  BY <1>1, <1>2, <1>3, <1>4, <1>5 DEF PublicationNext

(* A value derived from several models, or the readings of any of its         *)
(* samples, never mix different polls.                                        *)
THEOREM DerivedIsCoherentAlways == PublicationSpec => []DerivedIsCoherent
<1>1. PublicationInit => CoherenceInv
  BY ConstantAssumption
  DEF PublicationInit, Init, Offline, NoPayloads, NoWindow, CoherenceInv, DataIsOfOnePoll
<1>2. CoherenceInv => DerivedIsCoherent
  BY DEF CoherenceInv, OfOnePoll, DerivedIsCoherent
<1> QED
  BY <1>1, <1>2, CoherenceInductive, SensorsOnlyRead, TypeCorrect, NewInvariance, PTL
  DEF PublicationSpec

(***************************************************************************)
(* The window of samples.                                                   *)
(***************************************************************************)

(* The samples of the window were taken since the operating mode last         *)
(* changed, and its mode is the one that was known last.                      *)
WindowIsOfOneMode ==
    /\ ~Windowed => window.samples = {}
    /\ window.samples # {} => window.mode = era.mode
    /\ \A sample \in window.samples : sample.era = era.n /\ sample.time <= measured

MedianInv == measured <= now /\ WindowIsOfOneMode /\ MedianIsOfOneMode

LEMMA CaptureKeepsMedian ==
  ASSUME PublicationTypeOK, MedianInv, NEW from, Capture(from), measured' = measured, now' = now
  PROVE  MedianInv'
<1> DEFINE mode == operating'
           taken == [time |-> measured, era |-> era'.n, sources |-> SourcesIn(from)]
<1>1. PICK new :
        /\ \/ new = {}
           \/ (Windowed => mode = "eligible") /\ new = {taken}
        /\ window' = IF Windowed THEN Observed(WindowKept, new, mode) ELSE window
        /\ \/ derived'.value = IF Windowed THEN window'.samples ELSE new
           \/ derived'.value = IF Cleared THEN {} ELSE derived.value
  BY CaptureForm DEF Capture
<1>2. era' = IF mode \in {None, era.mode} THEN era ELSE [n |-> era.n + 1, mode |-> mode]
  BY DEF Capture
<1>3. taken.time = measured /\ taken.era = era'.n
  OBVIOUS
<1>4. measured \in Nat /\ Window \in Nat /\ None # "eligible"
  BY PublicationAssumption DEF PublicationTypeOK, Modes
<1>5. \A sample \in window.samples : sample.time \in Nat
  BY DEF PublicationTypeOK, Windows, Samples
<1> HIDE DEF taken, mode
<1>6. WindowIsOfOneMode' /\ \A sample \in window'.samples : Windowed => sample.time + Window >= measured
  <2>1. CASE ~Windowed
    BY <1>1, <2>1 DEF MedianInv, WindowIsOfOneMode
  <2>2. CASE Windowed
    <3>1. /\ window'.samples = Remaining(WindowKept, mode) \cup new
          /\ window'.mode = IF mode = None THEN WindowKept.mode ELSE mode
      BY <1>1, <2>2 DEF Observed
    <3>2. new # {} => mode # None /\ new = {taken}
      BY <1>1, <1>4, <2>2
    <3>3. \A sample \in new : sample.era = era'.n /\ sample.time = measured
      BY <1>1, <1>3
    <3>4. ASSUME NEW sample \in Remaining(WindowKept, mode)
          PROVE  /\ sample \in window.samples /\ sample.time + Window >= measured
                 /\ WindowKept = window /\ mode \in {None, era.mode} /\ era' = era
      <4>1. sample \in WindowKept.samples /\ mode \in {None, WindowKept.mode}
            /\ sample.time + Window >= measured
        BY <3>4 DEF Remaining
      <4>2. WindowKept = window
        BY <4>1 DEF WindowKept, NoWindow
      <4>3. mode \in {None, era.mode}
        BY <4>1, <4>2 DEF MedianInv, WindowIsOfOneMode
      <4> QED
        BY <1>2, <4>1, <4>2, <4>3
    <3>5. ASSUME NEW sample \in window'.samples
          PROVE  /\ sample.era = era'.n /\ sample.time <= measured
                 /\ sample.time + Window >= measured
                 /\ window'.mode = era'.mode
      <4>1. CASE sample \in new
        <5>1. mode # None /\ sample.era = era'.n /\ sample.time = measured
          BY <3>2, <3>3, <4>1
        <5>2. era'.mode = mode
          BY <1>2, <5>1
        <5> QED
          BY <1>4, <3>1, <5>1, <5>2
      <4>2. CASE sample \in Remaining(WindowKept, mode)
        <5>1. /\ sample \in window.samples /\ sample.time + Window >= measured
              /\ WindowKept = window /\ mode \in {None, era.mode} /\ era' = era
          BY <3>4, <4>2
        <5>2. sample.era = era.n /\ sample.time <= measured /\ window.mode = era.mode
          BY <5>1 DEF MedianInv, WindowIsOfOneMode
        <5> QED
          BY <3>1, <5>1, <5>2
      <4> QED
        BY <3>1, <3>5, <4>1, <4>2
    <3> QED
      BY <2>2, <3>5 DEF WindowIsOfOneMode
  <2> QED
    BY <2>1, <2>2
<1>7. MedianIsOfOneMode'
  <2>1. CASE derived'.value = derived.value
    BY <2>1 DEF MedianInv, MedianIsOfOneMode
  <2>2. CASE derived'.value = {}
    BY <2>2 DEF MedianIsOfOneMode
  <2>3. CASE ~Windowed /\ derived'.value = new
    BY <1>1, <1>3, <1>4, <2>3 DEF MedianIsOfOneMode
  <2>4. CASE Windowed /\ derived'.value = window'.samples
    <3>1. ASSUME NEW one \in window'.samples, NEW other \in window'.samples
          PROVE  one.era = other.era /\ one.time <= other.time + Window
      <4>1. /\ one.era = era'.n /\ other.era = era'.n
            /\ one.time <= measured /\ other.time + Window >= measured
        BY <1>6, <2>4 DEF WindowIsOfOneMode
      <4>2. one.time \in Nat /\ other.time \in Nat
        <5>1. \A sample \in window'.samples : sample \in new \/ sample \in window.samples
          BY <1>1 DEF Observed, Remaining, WindowKept, NoWindow
        <5>2. \A sample \in new : sample.time \in Nat
          BY <1>1, <1>3, <1>4
        <5> QED
          BY <1>5, <5>1, <5>2
      <4> QED
        BY <1>4, <4>1, <4>2
    <3> QED
      BY <2>4, <3>1 DEF MedianIsOfOneMode
  <2> QED
    BY <1>1, <2>1, <2>2, <2>3, <2>4
<1> QED
  BY <1>6, <1>7 DEF MedianInv

LEMMA MedianInductive ==
  TypeOK /\ PublicationTypeOK /\ MedianInv /\ [PublicationNext]_allVars => MedianInv'
<1> SUFFICES ASSUME TypeOK, PublicationTypeOK, MedianInv, [PublicationNext]_allVars
             PROVE  MedianInv'
  OBVIOUS
<1>1. measured \in Nat /\ now \in Nat /\ measured <= now
  BY DEF TypeOK, PublicationTypeOK, MedianInv
<1>2. CASE WorkAndMeasure
  <2>1. UNCHANGED <<now, derived, window, era>> /\ measured' \in {measured, now}
    BY <1>2 DEF WorkAndMeasure, Worker, StartPoll, BeginDevice, Discover, ReadModel, EndDevice,
                BumpEpochs, Retain, UpdateHealth, outside
  <2>2. measured' <= now /\ measured <= measured' /\ measured' \in Nat
    BY <1>1, <2>1
  <2>3. \A sample \in window.samples : sample.time \in Nat
    BY DEF PublicationTypeOK, Windows, Samples
  <2>4. \A sample \in window.samples : sample.time <= measured'
    BY <1>1, <2>2, <2>3 DEF MedianInv, WindowIsOfOneMode
  <2>5. WindowIsOfOneMode'
    BY <2>1, <2>4 DEF MedianInv, WindowIsOfOneMode
  <2>6. MedianIsOfOneMode'
    BY <2>1 DEF MedianInv, MedianIsOfOneMode
  <2> QED
    BY <2>1, <2>2, <2>5, <2>6 DEF MedianInv
<1>3. CASE (Abandon \/ Outside) /\ UNCHANGED sensors
  <2>1. UNCHANGED <<derived, window, era, measured>> /\ now' \in {now, now + 1}
    BY <1>3 DEF Abandon, Outside, RequestRefresh, SetTimeout, Tick, Replace, sensors
  <2>2. measured' <= now'
    BY <1>1, <2>1
  <2> QED
    BY <2>1, <2>2 DEF MedianInv, WindowIsOfOneMode, MedianIsOfOneMode
<1>4. CASE PublishAndCapture
  BY <1>4, CaptureKeepsMedian DEF PublishAndCapture, Publish, outside
<1>5. CASE Notify
  BY <1>5, CaptureKeepsMedian DEF Notify, vars, outside
<1>6. CASE UNCHANGED allVars
  BY <1>6 DEF allVars, vars, outside, sensors, MedianInv, WindowIsOfOneMode, MedianIsOfOneMode
<1> QED
  BY <1>2, <1>3, <1>4, <1>5, <1>6 DEF PublicationNext

LEMMA MedianInvariance == PublicationSpec => []MedianInv
<1>1. PublicationInit => MedianInv
  BY DEF PublicationInit, Init, NoWindow, MedianInv, WindowIsOfOneMode, MedianIsOfOneMode
<1> QED
  BY <1>1, MedianInductive, PublicationTypeCorrect, PTL DEF PublicationSpec

(* No published median spans a change of the operating mode, or more time     *)
(* than the window is long.                                                   *)
THEOREM MedianIsOfOneModeAlways == PublicationSpec => []MedianIsOfOneMode
<1>1. MedianInv => MedianIsOfOneMode
  BY DEF MedianInv
<1> QED
  BY <1>1, MedianInvariance, PTL

(***************************************************************************)
(* Where listeners are called only by publications, epochs and revisions    *)
(* are those of the data that is captured.                                  *)
(***************************************************************************)

(* A control status shown under the present revision was classified from     *)
(* data read since the device last ran out of time.                          *)
StatusInv ==
    \A d \in Devices :
        /\ status[d].revision <= revisions[d]
        /\ status[d].held # None /\ status[d].revision = revisions[d] =>
              status[d].held >= expired_at[d]

LEMMA StatusInductive ==
  ASSUME Notices = FALSE
  PROVE  TypeOK /\ PublicationTypeOK /\ ResultIsNew /\ ExpiryInv /\ StatusInv
            /\ [PublicationNext]_allVars => StatusInv'
<1> SUFFICES ASSUME TypeOK, PublicationTypeOK, ResultIsNew, ExpiryInv, StatusInv,
                    [PublicationNext]_allVars
             PROVE  StatusInv'
  OBVIOUS
<1>1. /\ revisions \in [Devices -> Nat] /\ expired_at \in [Devices -> Nat] /\ poll \in Polls
      /\ poll.n \in Nat
      /\ \A d \in Devices : status[d].revision \in Nat /\ status[d].held \in Nat \cup {None}
  BY PollFields DEF TypeOK, PublicationTypeOK, Statuses
<1>2. CASE UpdateHealth /\ UNCHANGED status
  <2>1. ASSUME NEW d \in Devices
        PROVE  \/ revisions'[d] = revisions[d] + 1
               \/ revisions'[d] = revisions[d] /\ expired_at'[d] = expired_at[d]
    BY <1>2 DEF UpdateHealth
  <2> QED
    BY <1>1, <1>2, <2>1 DEF StatusInv
<1>3. CASE UNCHANGED <<status, revisions, expired_at>>
  BY <1>3 DEF StatusInv
<1>4. CASE PublishAndCapture
  <2>1. /\ UNCHANGED <<revisions, expired_at>> /\ poll.pc = "answer"
        /\ status' = [d \in Devices |-> CapturedStatus(Adopted, d)]
    BY <1>4 DEF PublishAndCapture, Publish, Capture, health
  <2>2. ASSUME NEW d \in Devices
        PROVE  /\ status'[d].revision <= revisions[d]
               /\ status'[d].held # None /\ status'[d].revision = revisions[d] =>
                     status'[d].held >= expired_at[d]
    <3> DEFINE live_now == Adopted[d].available /\ Valid(Adopted[d].models[StatusModel])
    <3>1. status'[d] = CapturedStatus(Adopted, d)
      BY <2>1
    <3>2. CASE live_now
      <4>1. status'[d].held = Adopted[d].models[StatusModel].at /\ status'[d].revision = revisions[d]
        BY <3>1, <3>2 DEF CapturedStatus
      <4>2. Adopted[d].models[StatusModel].at = poll.n
        BY <3>2, PublicationAssumption DEF Adopted, Valid, ResultIsNew
      <4>3. expired_at[d] <= poll.n
        BY DEF ExpiryInv, ExpiryIsPast
      <4> QED
        BY <1>1, <4>1, <4>2, <4>3
    <3>3. CASE ~live_now
      <4>1. /\ status'[d].held \in {None, status[d].held}
            /\ status'[d].revision = status[d].revision
        BY <3>1, <3>3 DEF CapturedStatus
      <4> QED
        BY <4>1 DEF StatusInv
    <3> QED
      BY <3>2, <3>3
  <2> QED
    BY <2>1, <2>2 DEF StatusInv
<1>5. CASE WorkAndMeasure
  <2>1. UpdateHealth \/ UNCHANGED <<revisions, expired_at>>
    BY <1>5 DEF WorkAndMeasure, Worker, StartPoll, BeginDevice, Discover, ReadModel, EndDevice,
                BumpEpochs, Retain, health, history
  <2> QED
    BY <1>2, <1>3, <1>5, <2>1 DEF WorkAndMeasure
<1>6. CASE (Abandon \/ Outside) /\ UNCHANGED sensors
  BY <1>3, <1>6 DEF Abandon, Outside, RequestRefresh, SetTimeout, Tick, Replace, health, history,
                    sensors
<1>7. CASE UNCHANGED allVars
  BY <1>3, <1>7 DEF allVars, vars, health, history, sensors
<1> QED
  BY <1>4, <1>5, <1>6, <1>7 DEF PublicationNext, Notify

(* Unless storage control calls the listeners during a poll, a control status *)
(* that is shown after a timeout was classified from a model read since.      *)
THEOREM StatusIsConfirmedAlways ==
  ASSUME Notices = FALSE
  PROVE  PublicationSpec => []StatusIsConfirmed
<1>1. PublicationInit => StatusInv
  BY DEF PublicationInit, Init, StatusInv
<1>2. StatusInv => StatusIsConfirmed
  BY DEF StatusInv, StatusIsConfirmed, StatusAvailable
<1> QED
  BY <1>1, <1>2, StatusInductive, PublicationTypeCorrect, SensorsOnlyRead, NewInvariance,
     ExpiryInvariance, PTL
  DEF PublicationSpec

(* Readings of d that a sensor uses are of the unit that answers now.         *)
Proven(samples, d) ==
    \A sample \in samples, dependency \in Dependencies :
        dependency[1] = d => sample.sources[dependency].at >= proven_at[d]

(* A sensor that has seen the last change of a unit has nothing from before.  *)
EpochInv ==
    \A d \in Devices :
        /\ proven_at[d] <= poll.n
        /\ derived.epochs[d] <= epochs[d]
        /\ d \in Involved /\ derived.epochs[d] = epochs[d] =>
              Proven(derived.value \cup window.samples, d)

(* After a publication everything is of the present units.                    *)
LEMMA PublicationForgets ==
  ASSUME TypeOK, PublicationTypeOK, ResultIsNew, MedianInv, EpochInv, PublishAndCapture
  PROVE  /\ EpochInv'
         /\ \A d \in Involved : Proven(derived'.value \cup window'.samples, d)
<1> DEFINE taken == [time |-> measured, era |-> era'.n, sources |-> SourcesIn(Adopted)]
<1>1. /\ UNCHANGED <<epochs, proven_at>> /\ poll'.n = poll.n
      /\ CaptureDerived(Adopted, operating')
  BY DEF PublishAndCapture, Publish, Capture, results, history, NoPoll
<1>2. Adopted \in [Devices -> DeviceSnapshots] /\ Involved \subseteq Devices
  BY PollFields, DependencyParts DEF Adopted, TypeOK, Involved
<1>3. PICK new :
        /\ new = {} \/ (SourcesIn(Adopted) # None /\ new = {taken})
        /\ window' = IF Windowed THEN Observed(WindowKept, new, operating') ELSE window
        /\ \/ derived'.value = IF Windowed THEN window'.samples ELSE new
           \/ derived'.value = IF Cleared THEN {} ELSE derived.value
        /\ derived'.epochs = OfInvolved(epochs, derived.epochs)
  BY <1>1, CaptureForm
<1>4. SourcesIn(Adopted) # None =>
         \A dependency \in Dependencies : taken.sources[dependency].at = poll.n
  <2> SUFFICES ASSUME SourcesIn(Adopted) # None, NEW dependency \in Dependencies
               PROVE  taken.sources[dependency].at = poll.n
    OBVIOUS
  <2>1. /\ SourcesIn(Adopted)[dependency] = Adopted[dependency[1]].models[dependency[2]]
        /\ SourcesIn(Adopted)[dependency] # None
    BY <1>2, FoundAreRead
  <2> QED
    BY <2>1, DependencyParts DEF Adopted, ResultIsNew
<1> HIDE DEF taken
<1>5. \A sample \in new, dependency \in Dependencies : sample.sources[dependency].at = poll.n
  BY <1>3, <1>4
<1>6. \A d \in Devices : proven_at[d] <= poll.n /\ proven_at[d] \in Nat /\ poll.n \in Nat
  BY PollFields DEF EpochInv, TypeOK
<1>7. \A d \in Devices : Proven(new, d)
  BY <1>5, <1>6 DEF Proven
<1>8. ASSUME NEW d \in Involved
      PROVE  Proven(derived'.value \cup window'.samples, d)
  <2>1. CASE Cleared
    <3>1. derived'.value \cup window'.samples \subseteq new
      BY <1>3, <2>1 DEF Observed, Remaining, WindowKept, NoWindow, MedianInv, WindowIsOfOneMode
    <3> QED
      BY <1>2, <1>7, <3>1 DEF Proven
  <2>2. CASE ~Cleared
    <3>1. Proven(derived.value \cup window.samples, d)
      BY <1>2, <2>2 DEF Cleared, EpochInv
    <3>2. derived'.value \cup window'.samples \subseteq derived.value \cup window.samples \cup new
      BY <1>3, <2>2 DEF Observed, Remaining, WindowKept
    <3> QED
      BY <1>2, <1>7, <3>1, <3>2 DEF Proven
  <2> QED
    BY <2>1, <2>2
<1>9. EpochInv'
  <2>1. \A d \in Devices : derived'.epochs[d] = IF d \in Involved THEN epochs[d] ELSE derived.epochs[d]
    BY <1>3 DEF OfInvolved
  <2>2. \A d \in Devices : epochs[d] \in Nat
    BY DEF TypeOK
  <2>3. \A d \in Devices : derived'.epochs[d] <= epochs[d]
    BY <2>1, <2>2 DEF EpochInv
  <2>4. \A d \in Involved : Proven(derived.value \cup window.samples, d)'
    BY <1>1, <1>8 DEF Proven
  <2> QED
    BY <1>1, <1>6, <2>3, <2>4 DEF EpochInv, Involved
<1> QED
  BY <1>8, <1>9

LEMMA EpochInductive ==
  ASSUME Notices = FALSE
  PROVE  TypeOK /\ PublicationTypeOK /\ ResultIsNew /\ MedianInv /\ EpochInv
            /\ [PublicationNext]_allVars => EpochInv'
<1> SUFFICES ASSUME TypeOK, PublicationTypeOK, ResultIsNew, MedianInv, EpochInv,
                    [PublicationNext]_allVars
             PROVE  EpochInv'
  OBVIOUS
<1>1. /\ epochs \in [Devices -> Nat] /\ proven_at \in [Devices -> Nat]
      /\ poll \in Polls /\ poll.n \in Nat /\ derived.epochs \in [Devices -> Nat]
  BY PollFields DEF TypeOK, PublicationTypeOK, DerivedSensors
<1>2. CASE BumpEpochs /\ UNCHANGED <<derived, window>>
  <2>1. poll'.n = poll.n
    BY <1>1, <1>2 DEF BumpEpochs, Polls
  <2>2. ASSUME NEW d \in Devices
        PROVE  \/ epochs'[d] = epochs[d] + 1 /\ proven_at'[d] = poll.n
               \/ epochs'[d] = epochs[d] /\ proven_at'[d] = proven_at[d]
    BY <1>2 DEF BumpEpochs
  <2>3. ASSUME NEW d \in Devices
        PROVE  proven_at'[d] <= poll.n /\ derived.epochs[d] <= epochs'[d]
    BY <1>1, <2>2 DEF EpochInv
  <2>4. ASSUME NEW d \in Devices, d \in Involved, derived.epochs[d] = epochs'[d]
        PROVE  Proven(derived.value \cup window.samples, d)'
    <3>1. epochs'[d] = epochs[d] /\ proven_at'[d] = proven_at[d]
      BY <1>1, <2>2, <2>4 DEF EpochInv
    <3>2. Proven(derived.value \cup window.samples, d)
      BY <2>4, <3>1 DEF EpochInv
    <3> QED
      BY <1>2, <3>1, <3>2 DEF Proven
  <2> QED
    BY <1>2, <2>1, <2>3, <2>4 DEF EpochInv
<1>3. ASSUME UNCHANGED <<derived, window, epochs, proven_at>>,
             poll'.n \in {poll.n, poll.n + 1}
      PROVE  EpochInv'
  <2>1. \A d \in Devices : proven_at[d] <= poll'.n
    BY <1>1, <1>3 DEF EpochInv
  <2> QED
    BY <1>3, <2>1 DEF EpochInv, Proven
<1>4. CASE WorkAndMeasure
  <2>1. CASE BumpEpochs
    BY <1>2, <1>4, <2>1 DEF WorkAndMeasure
  <2>2. CASE StartPoll
    BY <1>3, <1>4, <2>2 DEF WorkAndMeasure, StartPoll, NoPoll, results, history
  <2>3. CASE BeginDevice \/ Discover \/ ReadModel \/ EndDevice \/ Retain \/ UpdateHealth
    <3>1. UNCHANGED <<epochs, proven_at>> /\ poll'.n = poll.n
      BY <1>1, <2>3 DEF BeginDevice, Discover, ReadModel, EndDevice, Retain, UpdateHealth, Polls,
                        results, history
    <3> QED
      BY <1>3, <1>4, <3>1 DEF WorkAndMeasure
  <2> QED
    BY <1>4, <2>1, <2>2, <2>3 DEF WorkAndMeasure, Worker
<1>5. CASE (Abandon \/ Outside) /\ UNCHANGED sensors
  <2>1. UNCHANGED <<derived, window, epochs, proven_at>> /\ poll'.n = poll.n
    BY <1>5 DEF Abandon, Outside, RequestRefresh, SetTimeout, Tick, Replace, results, history,
                sensors, NoPoll
  <2> QED
    BY <1>3, <2>1
<1>6. CASE UNCHANGED allVars
  BY <1>3, <1>6 DEF allVars, vars, results, history, sensors
<1> QED
  BY <1>4, <1>5, <1>6, PublicationForgets DEF PublicationNext, Notify

(* Unless storage control calls the listeners during a poll, no sensor goes   *)
(* on with a value derived from the unit before.                              *)
THEOREM DerivedForgetsOldUnitAlways ==
  ASSUME Notices = FALSE
  PROVE  PublicationSpec => DerivedForgetsOldUnit
<1> DEFINE Forgets ==
      published' # published =>
          \A sample \in derived'.value, dependency \in Dependencies :
              sample.sources[dependency].at >= proven_at[dependency[1]]
<1>1. PublicationInit => EpochInv
  BY NoPollType DEF PublicationInit, Init, NoPoll, NoWindow, EpochInv, Proven
<1>2. TypeOK /\ PublicationTypeOK /\ ResultIsNew /\ MedianInv /\ EpochInv
         /\ [PublicationNext]_allVars => [Forgets]_allVars
  <2> SUFFICES ASSUME TypeOK, PublicationTypeOK, ResultIsNew, MedianInv, EpochInv,
                      PublicationNext, published' # published
               PROVE  Forgets
    BY Zenon DEF allVars, vars, history
  <2>1. PublishAndCapture
    BY DEF PublicationNext, Notify, vars, history, WorkAndMeasure, Worker, StartPoll, BeginDevice,
           Discover, ReadModel, EndDevice, BumpEpochs, Retain, UpdateHealth, Abandon, Outside,
           RequestRefresh, SetTimeout, Tick, Replace
  <2>2. \A d \in Involved : Proven(derived'.value \cup window'.samples, d)
    BY <2>1, PublicationForgets
  <2> QED
    BY <2>2 DEF Involved, Proven
<1> QED
  BY <1>1, <1>2, EpochInductive, MedianInvariance, PublicationTypeCorrect, SensorsOnlyRead,
     NewInvariance, PTL
  DEF PublicationSpec, DerivedForgetsOldUnit

(* What a power takes over: a value and the revisions under which it may be   *)
(* shown change together.                                                     *)
LEMMA PowerCaptured ==
  ASSUME ~Windowed, NEW from, NEW mode, CaptureDerived(from, mode)
  PROVE  \/ /\ SourcesIn(from) # None
            /\ \A sample \in derived'.value : sample.sources = SourcesIn(from)
            /\ derived'.revisions = OfInvolved(revisions, derived.revisions)
         \/ /\ derived'.value \subseteq derived.value
            /\ derived'.revisions = derived.revisions
<1> DEFINE last == IF Cleared THEN None ELSE derived.last
           found == SourcesIn(from)
           fresh == Fresh(found, last)
           sample == [time |-> measured, era |-> era'.n, sources |-> found]
<1>1. PICK defined \in {FALSE, Windowed => mode = "eligible"} :
         LET new == IF fresh /\ defined THEN {sample} ELSE {} IN
         derived' = [value |-> IF MayPublish(fresh /\ defined)
                                 THEN IF Windowed THEN window'.samples ELSE new
                               ELSE IF Cleared THEN {} ELSE derived.value,
                     last |-> IF fresh THEN found ELSE last,
                     epochs |-> OfInvolved(epochs, derived.epochs),
                     revisions |-> Confirmed(fresh /\ defined)]
  BY DEF CaptureDerived
<1>2. fresh => found # None
  BY DEF Fresh
<1>3. \A s \in {sample} : s.sources = found
  OBVIOUS
<1> HIDE DEF found, fresh, last, sample
<1>4. CASE fresh /\ defined
  <2>1. derived'.value = {sample} /\ derived'.revisions = OfInvolved(revisions, derived.revisions)
    BY <1>1, <1>4 DEF MayPublish, Confirmed
  <2> QED
    BY <1>2, <1>3, <1>4, <2>1 DEF found
<1>5. CASE ~(fresh /\ defined)
  <2>1. /\ derived'.value = IF Cleared THEN {} ELSE derived.value
        /\ derived'.revisions = derived.revisions
    BY <1>1, <1>5 DEF MayPublish, Confirmed
  <2> QED
    BY <2>1
<1> QED
  BY <1>4, <1>5

(* Readings of d that a sensor shows are not from before its last timeout.    *)
Confirming(samples, d) ==
    \A sample \in samples, dependency \in Dependencies :
        dependency[1] = d => sample.sources[dependency].at >= expired_at[d]

(* A value that may be shown under the present revision of a device is of     *)
(* readings made since the device last ran out of time.                       *)
RevisionInv ==
    \A d \in Involved :
        derived.revisions[d] # None =>
            /\ derived.revisions[d] <= revisions[d]
            /\ derived.revisions[d] = revisions[d] => Confirming(derived.value, d)

LEMMA RevisionInductive ==
  ASSUME Notices = FALSE, ~Windowed
  PROVE  TypeOK /\ PublicationTypeOK /\ ResultIsNew /\ ExpiryInv /\ RevisionInv
            /\ [PublicationNext]_allVars => RevisionInv'
<1> SUFFICES ASSUME TypeOK, PublicationTypeOK, ResultIsNew, ExpiryInv, RevisionInv,
                    [PublicationNext]_allVars
             PROVE  RevisionInv'
  OBVIOUS
<1>1. /\ revisions \in [Devices -> Nat] /\ expired_at \in [Devices -> Nat]
      /\ poll \in Polls /\ poll.n \in Nat /\ Involved \subseteq Devices
      /\ derived.revisions \in [Devices -> Nat \cup {None}]
  BY PollFields, DependencyParts DEF TypeOK, PublicationTypeOK, DerivedSensors, Involved
<1>2. CASE UpdateHealth /\ UNCHANGED derived
  <2> SUFFICES ASSUME NEW d \in Involved, derived.revisions[d] # None
               PROVE  /\ derived.revisions[d] <= revisions'[d]
                      /\ derived.revisions[d] = revisions'[d] => Confirming(derived.value, d)'
    BY <1>2 DEF RevisionInv
  <2>1. /\ derived.revisions[d] \in Nat /\ revisions[d] \in Nat
        /\ derived.revisions[d] <= revisions[d]
    BY <1>1 DEF RevisionInv
  <2>2. CASE revisions'[d] = revisions[d] + 1
    BY <2>1, <2>2
  <2>3. CASE revisions'[d] = revisions[d] /\ expired_at'[d] = expired_at[d]
    BY <1>2, <2>1, <2>3 DEF RevisionInv, Confirming
  <2> QED
    BY <1>1, <1>2, <2>2, <2>3 DEF UpdateHealth
<1>3. CASE UNCHANGED <<derived, revisions, expired_at>>
  BY <1>3 DEF RevisionInv, Confirming
<1>4. CASE PublishAndCapture
  <2>1. /\ UNCHANGED <<revisions, expired_at>> /\ CaptureDerived(Adopted, operating')
        /\ Adopted \in [Devices -> DeviceSnapshots]
    BY <1>4, PollFields DEF PublishAndCapture, Publish, Capture, health, Adopted, TypeOK
  <2>2. CASE /\ SourcesIn(Adopted) # None
             /\ \A sample \in derived'.value : sample.sources = SourcesIn(Adopted)
             /\ derived'.revisions = OfInvolved(revisions, derived.revisions)
    <3>1. \A dependency \in Dependencies : SourcesIn(Adopted)[dependency].at = poll.n
      <4> SUFFICES ASSUME NEW dependency \in Dependencies
                   PROVE  SourcesIn(Adopted)[dependency].at = poll.n
        OBVIOUS
      <4>1. /\ SourcesIn(Adopted)[dependency] = Adopted[dependency[1]].models[dependency[2]]
            /\ SourcesIn(Adopted)[dependency] # None
        BY <2>1, <2>2, FoundAreRead
      <4> QED
        BY <4>1, DependencyParts DEF Adopted, ResultIsNew
    <3>2. \A d \in Devices : expired_at[d] <= poll.n
      BY DEF ExpiryInv, ExpiryIsPast
    <3>3. \A d \in Involved : Confirming(derived'.value, d)
      BY <1>1, <2>2, <3>1, <3>2 DEF Confirming
    <3>4. \A d \in Involved : derived'.revisions[d] = revisions[d]
      BY <1>1, <2>2 DEF OfInvolved
    <3> QED
      BY <1>1, <2>1, <3>3, <3>4 DEF RevisionInv, Confirming
  <2>3. CASE derived'.value \subseteq derived.value /\ derived'.revisions = derived.revisions
    BY <2>1, <2>3 DEF RevisionInv, Confirming
  <2> QED
    BY <2>1, <2>2, <2>3, PowerCaptured
<1>5. CASE WorkAndMeasure
  <2>1. UpdateHealth \/ UNCHANGED <<revisions, expired_at>>
    BY <1>5 DEF WorkAndMeasure, Worker, StartPoll, BeginDevice, Discover, ReadModel, EndDevice,
                BumpEpochs, Retain, health, history
  <2> QED
    BY <1>2, <1>3, <1>5, <2>1 DEF WorkAndMeasure
<1>6. CASE (Abandon \/ Outside) /\ UNCHANGED sensors
  BY <1>3, <1>6 DEF Abandon, Outside, RequestRefresh, SetTimeout, Tick, Replace, health, history,
                    sensors
<1>7. CASE UNCHANGED allVars
  BY <1>3, <1>7 DEF allVars, vars, health, history, sensors
<1> QED
  BY <1>4, <1>5, <1>6, <1>7 DEF PublicationNext, Notify

(* Unless storage control calls the listeners during a poll, a power that is  *)
(* shown after one of its devices timed out was calculated from readings that *)
(* the poll noticing it made, or a later one.                                 *)
THEOREM DerivedIsNotRevivedAlways ==
  ASSUME Notices = FALSE
  PROVE  PublicationSpec => []DerivedIsNotRevived
<1>1. CASE Windowed
  <2>1. TypeOK => DerivedIsNotRevived
    BY <1>1 DEF DerivedIsNotRevived
  <2> QED
    BY <2>1, SensorsOnlyRead, TypeCorrect, PTL
<1>2. CASE ~Windowed
  <2>1. PublicationInit => RevisionInv
    BY DependencyParts DEF PublicationInit, RevisionInv, Involved
  <2>2. TypeOK /\ RevisionInv => DerivedIsNotRevived
    <3> SUFFICES ASSUME TypeOK, RevisionInv, DerivedAvailable,
                        NEW sample \in derived.value, NEW dependency \in Dependencies
                 PROVE  sample.sources[dependency].at >= expired_at[dependency[1]]
      BY DEF DerivedIsNotRevived
    <3>1. dependency[1] \in Involved /\ dependency[1] \in Devices
      BY DependencyParts DEF Involved
    <3>2. derived.revisions[dependency[1]] = revisions[dependency[1]]
      BY <3>1 DEF DerivedAvailable
    <3>3. derived.revisions[dependency[1]] # None
      BY <3>1, <3>2, ConstantAssumption DEF TypeOK
    <3> QED
      BY <3>1, <3>2, <3>3 DEF RevisionInv, Confirming
  <2> QED
    BY <1>2, <2>1, <2>2, RevisionInductive, PublicationTypeCorrect, SensorsOnlyRead, TypeCorrect,
       NewInvariance, ExpiryInvariance, PTL
    DEF PublicationSpec
<1> QED
  BY <1>1, <1>2
=============================================================================
