----------------------- MODULE MeasurementProperties ------------------------
(* What sensors may rely on, whatever the polls met. *)
EXTENDS Measurements

(* A reading that was there when its device ran out of time is not shown      *)
(* again, whatever answers first and however often the device times out:      *)
(* only a newer one replaces it.  (measurement_available, _timeout_sources)   *)
ExpiredReadingStaysHidden ==
    \A d \in Devices, m \in Models :
        Shown(d, m) => retained[d].models[m].at > expired_at[d]

(* A device counts as silent only when no response has come from it for the   *)
(* whole timeout: failed models, failed chunks and failures of other devices  *)
(* cannot make it so.  (_observe_communication)                               *)
ExpiryNeedsSilence ==
    [][\A d \in expired' \ expired : now - answered[d] >= timeout]_vars

(* Silence that has lasted for the timeout is noticed by the very next poll.  *)
(* (_update_communication_availability)                                       *)
SilenceExpires ==
    [][poll.pc = "health" /\ poll'.pc = "answer" =>
        \A d \in Devices :
            silent[d] # None /\ now - silent[d] >= timeout => d \in expired']_vars

(* No device recovers without a response of its own since it expired, not     *)
(* even when the option is raised meanwhile.                                  *)
(* (_update_communication_availability)                                       *)
RecoveryNeedsAnswer == [][expired \ expired' \subseteq heard]_vars

(* As long as no refresh is cancelled, a reading that sensors show stays      *)
(* until something disproves it: silence, a payload that cannot be decoded,   *)
(* or evidence of another unit or layout.  (_retain_measurements)             *)
HeldUntilDisproved ==
    [][budget.cancels = MaxCancels =>
        \A d \in Devices, m \in Models :
            Shown(d, m) /\ ~Shown(d, m)' =>
                \/ d \in expired'
                \/ proven_at[d] = poll.n
                \/ /\ poll.result[d].models[m] # None
                   /\ poll.result[d].models[m].ok = "invalid"]_vars

(* As long as no refresh is cancelled, no sensor goes back to an older        *)
(* reading.  (_poll_devices reuses published payloads of slow models)         *)
ReadingsAdvance ==
    [][budget.cancels = MaxCancels =>
        \A d \in Devices, m \in Models :
            LET old == retained[d].models[m]
                new == retained'[d].models[m]
            IN  (old # None /\ new # None) => new.at >= old.at]_vars

(* Once a poll has proved that another unit answers, no reading of the unit   *)
(* before is left or comes back.  (_retain_measurements, _reading_identity)   *)
OldUnitStaysForgotten ==
    \A d \in Devices, m \in Models :
        Shown(d, m) /\ poll.pc \notin {"retain"} =>
            retained[d].models[m].at >= proven_at[d]

(* Slow models are due once in every slow period, counted from the first      *)
(* poll: late and long polls neither shift the periods nor are replayed.      *)
(* (_poll_devices, _slow_deadlines)                                           *)
SlowPeriodsStayAnchored ==
    [][\A d \in Devices :
        deadlines[d] # None /\ deadlines'[d] # deadlines[d] =>
            /\ deadlines'[d] > poll.started
            /\ deadlines'[d] - SlowPeriod <= poll.started
            /\ (deadlines'[d] - deadlines[d]) % SlowPeriod = 0]_vars

(* The first data that a poll begun after a requested refresh publishes has   *)
(* no payload from before the request.                                        *)
(* (async_request_refresh, _poll_devices)                                     *)
ReadbackIsPublished ==
    requested # None /\ published > requested =>
        \A d \in Devices, m \in Models :
            data[d].models[m] # None => data[d].models[m].at > requested
(***************************************************************************)
(* The inductive invariants behind the properties of readings: where every *)
(* payload comes from.                                                     *)
(***************************************************************************)

(* No refresh has been cancelled: the data is what the last poll made of it.  *)
Uncancelled == budget.cancels = MaxCancels

(* A unit is named only by payloads that are read with all others, or there   *)
(* has been one unit only.                                                    *)
NamedAtOnce == IdModels \cap FastModels = {} \/ budget.swaps = MaxSwaps

Steady == Uncancelled /\ NamedAtOnce

Decoded(snapshot) == snapshot # None /\ snapshot.ok = "ok"

(* A device has payloads of all its models or, without a layout, of none;     *)
(* retention alone makes blank ones.                                          *)
Complete(snapshot) ==
    \A m \in Models :
        LET payload == snapshot.models[m] IN
        IF snapshot.layout = None THEN payload = None
        ELSE payload # None /\ payload.ok # "blank"

DevicesAreComplete ==
    /\ \A d \in Devices : Complete(data[d]) /\ Complete(poll.result[d])
    /\ \A m \in Models : poll.reads[m] # None => poll.pc = "read" /\ poll.reads[m].ok # "blank"
    /\ poll.pc = "read" =>
         \A m \in Models :
            IF poll.layout = None THEN m \notin poll.todo /\ poll.reads[m] = None
            ELSE \/ m \in poll.todo \/ poll.reads[m] # None
                 \/ Cached(poll.device, poll.layout)[m] # None

(* Payloads are as old as the steps of a poll that make them.                 *)
ReadingsArePast ==
    \A d \in Devices :
        /\ proven_at[d] <= poll.n
        /\ \A m \in Models :
            LET live_one == data[d].models[m]
                held == retained[d].models[m]
                hidden == sources[d][m]
            IN  /\ live_one # None => live_one.at <= poll.n
                /\ live_one # None /\ poll.pc # "idle" => live_one.at < poll.n
                /\ held # None => held.at <= poll.n
                /\ held # None /\ poll.pc \notin {"idle", "health", "answer"} => held.at < poll.n
                /\ hidden # None => hidden.at <= poll.n
                /\ hidden # None /\ poll.pc \notin {"idle", "answer"} => hidden.at < poll.n

(* What a poll has not read it has taken from the data.                       *)
CachedIsPublished ==
    \A d \in Devices, m \in Models :
        LET new == poll.result[d].models[m] IN
        new # None /\ new.at # poll.n =>
            new = data[d].models[m] /\ poll.result[d].layout = data[d].layout

ReadAll(d) == \A m \in Models :
    poll.result[d].models[m] # None => poll.result[d].models[m].at = poll.n

(* Slow models are read together with all others, or not at all.              *)
SlowTogether ==
    /\ \A d \in Devices, m \in Models \ FastModels :
        poll.result[d].models[m] # None /\ poll.result[d].models[m].at = poll.n => ReadAll(d)
    /\ poll.force => \A d \in Devices : ReadAll(d)
    /\ poll.pc = "discover" \/ (poll.pc = "read" /\ poll.force) => poll.full
    /\ poll.pc = "read" /\ poll.layout # None =>
         IF poll.full \/ data[poll.device].layout # poll.layout
           THEN \A m \in Models : m \in poll.todo \/ poll.reads[m] # None
           ELSE \A m \in Models \ FastModels : m \notin poll.todo /\ poll.reads[m] = None

(* A device that was not yet polled has nothing to publish, nor has one       *)
(* without a SunSpec chain.                                                   *)
IncompatibleInTurn ==
    /\ \A d \in poll.incompatible : poll.result[d] = Offline
    /\ poll.pc \in {"device", "discover", "read", "failed"} =>
          \A d \in Devices : d >= poll.device => poll.result[d] = Offline
    /\ poll.pc = "idle" => poll.incompatible = {}
    /\ poll.pc \in {"device", "discover", "read"} => \A d \in poll.incompatible : d < poll.device
    /\ poll.pc = "failed" => \A d \in poll.incompatible : d <= poll.device

(* Evidence of another unit is remembered in the step that finds it.          *)
EvidenceIsNoted ==
    poll.pc = "retain" => \A d \in Devices : Changed(d) => proven_at[d] = poll.n

BudgetIsSpent == budget.cancels <= MaxCancels /\ budget.swaps <= MaxSwaps

(* As long as no unit was replaced, all decoded payloads are of the same.     *)
UnitIsOne ==
    budget.swaps = MaxSwaps =>
        /\ \A d \in Devices, m \in Models :
            /\ Decoded(data[d].models[m]) => data[d].models[m].of = unit[d]
            /\ Decoded(retained[d].models[m]) => retained[d].models[m].of = unit[d]
            /\ Decoded(poll.result[d].models[m]) => poll.result[d].models[m].of = unit[d]
        /\ \A m \in Models : Decoded(poll.reads[m]) => poll.reads[m].of = unit[poll.device]

(* What is published is what is retained, but for readings that failed or     *)
(* were blanked.                                                              *)
HeldIsLatest ==
    LET latest == IF poll.pc \in {"health", "answer"} THEN poll.result ELSE data IN
    Uncancelled => \A d \in Devices, m \in Models :
        LET new == latest[d].models[m]
            held == retained[d].models[m]
        IN  /\ new # None =>
                /\ retained[d].layout = latest[d].layout
                /\ held # None
                /\ held = new \/ new.ok = "failed" \/ held.ok = "blank"
                /\ Steady => held.at <= new.at
            /\ Steady /\ held # None => held.ok # "blank"

HeldIsOfProvenUnit ==
    Steady => \A d \in Devices, m \in Models :
        LET held == retained[d].models[m] IN
        Decoded(held) /\ (poll.pc = "retain" => ~Changed(d)) => held.at >= proven_at[d]

(* A device that does not answer is discovered again before it is read.       *)
SilentIsNotLive == \A d \in Devices : failing[d] # None => live[d] = None

(* The devices that this poll has still to begin with.                        *)
Awaited(d) ==
    \/ poll.pc = "idle"
    \/ poll.pc = "device" /\ d >= poll.device
    \/ poll.pc \in {"discover", "read", "failed"} /\ d > poll.device

(* So nothing that was read before a timeout is taken from the data again.    *)
ExpiredIsReadAgain ==
    Uncancelled => \A d \in Devices, m \in Models :
        LET live_one == data[d].models[m]
            new == poll.result[d].models[m]
        IN  /\ live_one # None /\ live_one.at <= expired_at[d] =>
                  /\ Awaited(d) => live[d] = None
                  /\ poll.pc = "read" /\ d = poll.device => poll.full
            /\ new # None /\ new.at <= expired_at[d] => poll.pc = "answer" /\ live[d] = None

HeldIsSuppressedOrNew ==
    Uncancelled => \A d \in Devices, m \in Models :
        LET held == retained[d].models[m] IN
        Decoded(held) /\ held # sources[d][m] => held.at > expired_at[d]

(* A requested readback is pending, in progress, or published.                *)
ReadbackIsUnderWay ==
    Uncancelled =>
        /\ poll.n = IF poll.pc = "idle" THEN published ELSE published + 1
        /\ requested # None =>
            /\ requested <= poll.n
            /\ requested = poll.n => force
            /\ requested < poll.n /\ published <= requested => poll.force
            /\ published > requested => \A d \in Devices, m \in Models :
                 data[d].models[m] # None => data[d].models[m].at > requested

ReadingsInv ==
    /\ DevicesAreComplete /\ ReadingsArePast /\ CachedIsPublished /\ SlowTogether
    /\ IncompatibleInTurn /\ EvidenceIsNoted /\ BudgetIsSpent /\ UnitIsOne
    /\ HeldIsLatest /\ HeldIsOfProvenUnit /\ SilentIsNotLive /\ ExpiredIsReadAgain
    /\ HeldIsSuppressedOrNew /\ ReadbackIsUnderWay
=============================================================================
