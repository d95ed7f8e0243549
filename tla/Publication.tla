---------------------------- MODULE Publication -----------------------------
(***************************************************************************)
(* What is made of the coordinator's data for display: a power or an       *)
(* efficiency derived from several models (measurement_entity.py,          *)
(* measurement.py) and the control status of each storage                  *)
(* (storage_status.py).  Both hold their last result.                      *)
(*                                                                         *)
(* They are captured when a refresh publishes, and whenever storage control*)
(* notifies the listeners: also in the middle of a refresh, when epochs and*)
(* revisions may be newer than the data.                                   *)
(***************************************************************************)
EXTENDS Measurements

CONSTANTS
    Dependencies,       \* the devices and models that the sensor is derived from,
                        \* all of them fast (model 120 of the lifetime is left out)
    Windowed,           \* is it an efficiency, the median of a window of samples?
    Window,             \* the length of the window: 60 seconds
    StatusModel,        \* the storage model: 124
    Notices             \* may storage control notify the listeners?

(* The operating modes: the one that the formula has results in, and others.  *)
Modes == {"eligible", "other"}

ASSUME PublicationAssumption ==
    /\ Dependencies \subseteq Devices \X FastModels /\ Dependencies # {}
    /\ StatusModel \in FastModels
    /\ {Windowed, Notices} \subseteq BOOLEAN
    /\ Window \in Nat /\ None \notin Modes

VARIABLES
    derived,        \* a MeasurementSolarEntity, see DerivedSensors
    window,         \* its EfficiencyWindow, see Windows
    measured,       \* measurement_time: when the worker last had read all devices
    operating,      \* what _mode() makes of the coordinator's data
    status,         \* the StorageControlStatus of each device, see Statuses
    era             \* history: how often a known mode replaced another, and by
                    \* which mode it was replaced last

sensors == <<derived, window, measured, operating, status, era>>
allVars == <<vars, sensors>>

Sources == [Dependencies -> Snapshots]

(* What one value was calculated from, and the era of the operating mode that *)
(* it was calculated in (history).                                            *)
Samples == [time : Nat, era : Nat, sources : Sources]

(* value: the samples of _published_value, none if there is none;             *)
(* last: _last_sources; and the epochs and revisions seen at the last capture *)
(* and the last calculation.                                                  *)
DerivedSensors == [value : SUBSET Samples, last : Sources \cup {None},
                   epochs : [Devices -> Nat], revisions : [Devices -> Nat \cup {None}]]

(* pending is always set where publish is called, and is left out.            *)
Windows == [samples : SUBSET Samples, mode : Modes \cup {None}]
NoWindow == [samples |-> {}, mode |-> None]

(* held: the poll that read what _held_status was classified from.            *)
Statuses == [held : Nat \cup {None}, epoch : Nat, revision : Nat]

PublicationTypeOK ==
    /\ derived \in DerivedSensors
    /\ window \in Windows
    /\ measured \in Nat /\ operating \in Modes \cup {None}
    /\ era \in [n : Nat, mode : Modes \cup {None}]
    /\ status \in [Devices -> Statuses]

PublicationInit ==
    /\ Init
    /\ derived = [value |-> {}, last |-> None, epochs |-> epochs,
                  revisions |-> [d \in Devices |-> None]]
    /\ window = NoWindow
    /\ measured = 0 /\ operating = None /\ era = [n |-> 0, mode |-> None]
    /\ status = [d \in Devices |-> [held |-> None, epoch |-> 0, revision |-> 0]]

Involved == {dependency[1] : dependency \in Dependencies}

(* What the entity keeps of f: its values for the devices involved. *)
OfInvolved(f, otherwise) == [d \in Devices |-> IF d \in Involved THEN f[d] ELSE otherwise[d]]

Valid(snapshot) == snapshot # None /\ snapshot.ok = "ok"

(* As SourcesIn, with readings that are only retained. *)
SourcesRetained(from) ==
    IF \A x \in Dependencies : Valid(retained[x[1]].models[x[2]])
      THEN [dependency \in Dependencies |-> retained[dependency[1]].models[dependency[2]]]
      ELSE None

(* As SourcesIn, with the dependencies that happen to be there. *)
SourcesPartial(from) ==
    [dependency \in {x \in Dependencies : Valid(from[x[1]].models[x[2]])} |->
        from[dependency[1]].models[dependency[2]]]

(* _sources: every dependency must be live, and retained for the same model.  *)
SourcesIn(from) ==
    IF \A dependency \in Dependencies :
          LET d == dependency[1]
              m == dependency[2]
          IN  /\ from[d].available
              /\ Valid(from[d].models[m])
              /\ retained[d].layout = from[d].layout
              /\ Valid(retained[d].models[m])
      THEN [dependency \in Dependencies |-> from[dependency[1]].models[dependency[2]]]
      ELSE None

(* Every dependency has a payload that was not used before.                   *)
Fresh(found, last) ==
    /\ found # None
    /\ last # None => \A dependency \in Dependencies : found[dependency] # last[dependency]

(* As Cleared, keeping what another unit left. *)
NeverCleared == FALSE

Cleared == \E d \in Involved : derived.epochs[d] # epochs[d]

(* As Confirmed, for every capture. *)
ConfirmedAlways(calculated) == OfInvolved(revisions, derived.revisions)

(* The revisions under which the sensor may show its value. *)
Confirmed(calculated) ==
    IF calculated THEN OfInvolved(revisions, derived.revisions) ELSE derived.revisions

(* _mode: told by the payload of a dependency; only another payload tells      *)
(* another mode.                                                              *)
ModesIn(from) ==
    LET source == CHOOSE dependency \in Dependencies : TRUE
        payload == from[source[1]].models[source[2]]
    IN  IF ~Windowed \/ ~Valid(payload) THEN {None}
        ELSE IF payload = data[source[1]].models[source[2]] THEN {operating}
        ELSE Modes \cup {None}

(* As Remaining, with samples of the mode before. *)
RemainingOfAllModes(kept, mode) == {s \in kept.samples : s.time + Window >= measured}

(* As Remaining, with samples of any age. *)
RemainingOfAllAges(kept, mode) == IF mode \notin {None, kept.mode} THEN {} ELSE kept.samples

(* The samples that stay in the window when a mode is observed.               *)
Remaining(kept, mode) ==
    IF mode \notin {None, kept.mode} THEN {}
    ELSE {s \in kept.samples : s.time + Window >= measured}

(* EfficiencyWindow.observe *)
Observed(kept, new, mode) ==
    [samples |-> Remaining(kept, mode) \cup new,
     mode |-> IF mode = None THEN kept.mode ELSE mode]

(* An efficiency is published when its device's slow models are due.          *)
MayPublish(calculated) ==
    calculated /\ (Windowed => Involved \subseteq slow_publication)

(* MeasurementSolarEntity._capture, in the given mode; a formula may have no   *)
(* result, and that of an efficiency has none in other modes.                 *)
CaptureDerived(from, mode) ==
    LET last == IF Cleared THEN None ELSE derived.last
        kept == IF Cleared THEN NoWindow ELSE window
        found == SourcesIn(from)
        fresh == Fresh(found, last)
    IN  \E defined \in {FALSE, Windowed => mode = "eligible"} :
            LET calculated == fresh /\ defined
                new == IF calculated
                         THEN {[time |-> measured, era |-> era'.n, sources |-> found]}
                         ELSE {}
            IN
            /\ window' = IF Windowed THEN Observed(kept, new, mode) ELSE window
            /\ derived' = [value |-> IF MayPublish(calculated)
                                       THEN IF Windowed THEN window'.samples ELSE new
                                     ELSE IF Cleared THEN {} ELSE derived.value,
                           last |-> IF fresh THEN found ELSE last,
                           epochs |-> OfInvolved(epochs, derived.epochs),
                           revisions |-> Confirmed(calculated)]

(* As CapturedStatus, accepting any answer as a confirmation. *)
CapturedUnconfirmed(from, d) ==
    LET held == IF status[d].epoch # epochs[d] THEN None ELSE status[d].held
        live_now == from[d].available /\ Valid(from[d].models[StatusModel])
    IN  [held |-> IF live_now THEN from[d].models[StatusModel].at ELSE held,
         epoch |-> epochs[d], revision |-> revisions[d]]

(* StorageControlStatus._capture_status *)
CapturedStatus(from, d) ==
    LET held == IF status[d].epoch # epochs[d] THEN None ELSE status[d].held
        live_now == from[d].available /\ Valid(from[d].models[StatusModel])
    IN  [held |-> IF live_now THEN from[d].models[StatusModel].at ELSE held,
         epoch |-> epochs[d],
         revision |-> IF live_now THEN revisions[d] ELSE status[d].revision]

(* The listeners are called while the coordinator's data is from.             *)
Capture(from) ==
    /\ operating' \in ModesIn(from)
    /\ era' = IF operating' \in {None, era.mode} THEN era
              ELSE [n |-> era.n + 1, mode |-> operating']
    /\ CaptureDerived(from, operating')
    /\ status' = [d \in Devices |-> CapturedStatus(from, d)]

PublishAndCapture == Publish /\ Capture(Adopted) /\ UNCHANGED measured

(* coordinator.async_update_listeners, called by storage control.             *)
Notify ==
    /\ Notices
    /\ Capture(data)
    /\ UNCHANGED <<vars, measured>>

(* measurement_time is written before the epochs are.                         *)
WorkAndMeasure ==
    /\ Worker
    /\ measured' = IF poll.pc # "epochs" /\ poll'.pc = "epochs" THEN now ELSE measured
    /\ UNCHANGED <<derived, window, operating, status, era>>

PublicationNext ==
    \/ WorkAndMeasure
    \/ (Abandon \/ Outside) /\ UNCHANGED sensors
    \/ PublishAndCapture
    \/ Notify

PublicationSpec == PublicationInit /\ [][PublicationNext]_allVars

(* MeasurementSolarEntity.available *)
DerivedAvailable ==
    /\ derived.value # {}
    /\ Involved \cap expired = {}
    /\ \A d \in Involved : derived.revisions[d] = revisions[d]

(* StorageControlStatus.available *)
StatusAvailable(d) ==
    /\ d \notin expired
    /\ status[d].held # None
    /\ status[d].revision = revisions[d]

----------------------------------------------------------------------------

(* A power that was there when one of its devices ran out of time is not      *)
(* shown again until it has been calculated from readings of all of them that *)
(* the poll noticing it made, or a later one.  (An efficiency is: its median  *)
(* waits for the slow models.)  (MeasurementSolarEntity.available)            *)
DerivedIsNotRevived ==
    DerivedAvailable /\ ~Windowed =>
        \A sample \in derived.value, dependency \in Dependencies :
            sample.sources[dependency].at >= expired_at[dependency[1]]

(* A derived value never mixes readings of different polls: a reading that    *)
(* is only held is never combined with a new one.                             *)
(* (MeasurementSolarEntity._sources)                                          *)
DerivedIsCoherent ==
    \A sample \in derived.value : \A one, other \in Dependencies :
        sample.sources[one].at = sample.sources[other].at

(* When a refresh has published that another unit answers, no sensor goes on  *)
(* with a value derived from the unit before.  (MeasurementSolarEntity.       *)
(* _capture, measurement_epochs)                                              *)
DerivedForgetsOldUnit ==
    [][published' # published =>
            \A sample \in derived'.value, dependency \in Dependencies :
                sample.sources[dependency].at >= proven_at[dependency[1]]]_allVars

(* A published efficiency is the median of samples without a change of the    *)
(* operating mode between them, no two further apart than the window is long: *)
(* a sample comes back neither with its mode nor after a gap.                 *)
(* (EfficiencyWindow)                                                         *)
MedianIsOfOneMode ==
    \A one, other \in derived.value :
        /\ one.era = other.era
        /\ one.time <= other.time + Window

(* A control status shown after its device ran out of time has been           *)
(* classified from a storage model read by the poll noticing it, or later.    *)
(* (StorageControlStatus.available)                                           *)
StatusIsConfirmed ==
    \A d \in Devices : StatusAvailable(d) => status[d].held >= expired_at[d]
=============================================================================
