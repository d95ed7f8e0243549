---------------------------- MODULE Measurements ----------------------------
(***************************************************************************)
(* What the coordinator makes of a poll (coordinator.py, communication.py): *)
(* the live data it publishes, the readings it retains for sensors, and     *)
(* when a device counts as silent.                                          *)
(*                                                                          *)
(* A refresh is a worker, which reads one device after the other and then   *)
(* updates epochs, retained readings and communication health, and an HTTP  *)
(* request; only then the result becomes the coordinator's data, or is lost *)
(* if the refresh was cancelled.  Sessions are those of SessionAuthority,   *)
(* reduced to what a poll sees of them: a device is live or is rediscovered.*)
(***************************************************************************)
EXTENDS Naturals

CONSTANTS
    NDevices,           \* the device ids are 1..NDevices, polled in this order
    Models,             \* the supported models of every device
    FastModels,         \* those in FAST_MODEL_IDS
    IdModels,           \* those whose payload names the unit: 1 and 160
    Layouts, Serials,   \* where a unit has its models, and what it calls itself
    None,               \* absent
    Faults,             \* what may go wrong with an exchange, see Outcomes
    SlowPeriod,         \* slow_interval
    Timeouts,           \* values of the communication timeout option
    MaxFaults,          \* bound: exchanges that go wrong
    MaxSwaps,           \* bound: devices replaced by another unit
    MaxCancels,         \* bound: cancelled refreshes
    MaxRequests,        \* bound: requested refreshes
    MaxPolls,           \* bound: polls
    MaxTime             \* bound: last tick of the clock

Outcomes == {"ok", "failed", "partial", "invalid", "incompatible", "empty"}

ASSUME ConstantAssumption ==
    /\ {NDevices, SlowPeriod} \subseteq Nat \ {0}
    /\ {MaxFaults, MaxSwaps, MaxCancels, MaxRequests, MaxPolls, MaxTime} \subseteq Nat
    /\ FastModels \subseteq Models /\ IdModels \subseteq Models
    /\ Faults \subseteq Outcomes \ {"ok"}
    /\ Timeouts \subseteq Nat \ {0} /\ Timeouts # {}
    /\ None \notin Layouts \cup Nat

Devices == 1..NDevices
Units == [layout : Layouts, serial : Serials]

VARIABLES
    poll,           \* the refresh that is running, see Polls
    force,          \* _force_slow
    live,           \* live_models(d), the layout they were found at
    deadlines,      \* _slow_deadlines[d]
    slow_publication,   \* slow_publication_devices
    data,           \* coordinator.data
    retained,       \* _measurement_data
    epochs,         \* measurement_epochs[d]
    failing,        \* _communication_failures[d]
    responded,      \* _communication_responded
    expired,        \* communication_expired
    revisions,      \* communication_timeout_revisions[d]
    sources,        \* _timeout_sources[d]
    timeout,        \* the option
    now,            \* time.monotonic()
    unit,           \* the unit that answers for each device
    budget,         \* what may still go wrong, see Budgets
    (* History: *)
    answered,       \* when d last answered
    heard,          \* the devices that answered since they last expired
    silent,         \* the end of the first poll that d left unanswered
    expired_at,     \* the poll at which d last expired
    proven_at,      \* the poll that last proved another unit, or another layout
    requested,      \* the poll during or after which a readback was requested
    published       \* the poll whose result is the data

health  == <<failing, responded, expired, revisions, sources>>
reading == <<force, live, deadlines, slow_publication>>
results == <<data, retained, epochs>>
outside == <<timeout, now, unit, budget>>
history == <<answered, heard, silent, expired_at, proven_at, requested, published>>
vars == <<poll, reading, results, health, outside, history>>

(* A DecodedModelSnapshot; the poll that made it stands for its identity.    *)
(* "failed": not read; "invalid": not decoded; "blank": made by retention.   *)
Snapshots == [at : Nat, of : Units \cup {None},
              ok : {"ok", "failed", "invalid", "blank"}]

ASSUME NoneAssumption == None \notin Snapshots

(* The payloads of a device, None for a model it has not. *)
Payloads == [Models -> Snapshots \cup {None}]
NoPayloads == [m \in Models |-> None]

DeviceSnapshots == [layout : Layouts \cup {None}, models : Payloads,
                    available : BOOLEAN]
Offline == [layout |-> None, models |-> NoPayloads, available |-> FALSE]

Polls == [pc : {"idle", "device", "discover", "read", "failed", "epochs",
                "retain", "health", "answer"},
          n : Nat, force : BOOLEAN, device : Devices, started : Nat, full : BOOLEAN,
          layout : Layouts \cup {None}, todo : SUBSET Models, reads : Payloads,
          result : [Devices -> DeviceSnapshots],
          incompatible : SUBSET Devices, validated : SUBSET Devices]

NoPoll(n) ==
    [pc |-> "idle", n |-> n, force |-> FALSE, device |-> 1, started |-> 0,
     full |-> FALSE, layout |-> None, todo |-> {}, reads |-> NoPayloads,
     result |-> [d \in Devices |-> Offline], incompatible |-> {}, validated |-> {}]

Budgets == [faults : Nat, swaps : Nat, cancels : Nat, requests : Nat]

TypeOK ==
    /\ poll \in Polls
    /\ force \in BOOLEAN
    /\ live \in [Devices -> Layouts \cup {None}]
    /\ deadlines \in [Devices -> Nat \cup {None}]
    /\ slow_publication \subseteq Devices
    /\ data \in [Devices -> DeviceSnapshots]
    /\ retained \in [Devices -> DeviceSnapshots]
    /\ epochs \in [Devices -> Nat]
    /\ failing \in [Devices -> Nat \cup {None}]
    /\ responded \subseteq Devices /\ expired \subseteq Devices
    /\ revisions \in [Devices -> Nat]
    /\ sources \in [Devices -> Payloads]
    /\ timeout \in Timeouts /\ now \in Nat
    /\ unit \in [Devices -> Units]
    /\ budget \in Budgets
    /\ answered \in [Devices -> Nat] /\ heard \subseteq Devices
    /\ silent \in [Devices -> Nat \cup {None}]
    /\ expired_at \in [Devices -> Nat] /\ proven_at \in [Devices -> Nat]
    /\ requested \in Nat \cup {None} /\ published \in Nat

Init ==
    /\ poll = NoPoll(0)
    /\ force = FALSE
    /\ live = [d \in Devices |-> None]
    /\ deadlines = [d \in Devices |-> None]
    /\ slow_publication = {}
    /\ data = [d \in Devices |-> Offline]
    /\ retained = [d \in Devices |-> Offline]
    /\ epochs = [d \in Devices |-> 0]
    /\ failing = [d \in Devices |-> None]
    /\ responded = {} /\ expired = {}
    /\ revisions = [d \in Devices |-> 0]
    /\ sources = [d \in Devices |-> NoPayloads]
    /\ timeout \in Timeouts /\ now = 0
    /\ unit \in [Devices -> Units]
    /\ budget = [faults |-> MaxFaults, swaps |-> MaxSwaps, cancels |-> MaxCancels,
                 requests |-> MaxRequests]
    /\ answered = [d \in Devices |-> 0] /\ heard = {}
    /\ silent = [d \in Devices |-> None]
    /\ expired_at = [d \in Devices |-> 0] /\ proven_at = [d \in Devices |-> 0]
    /\ requested = None /\ published = 0

----------------------------------------------------------------------------
(* Exchanges with a device, seen by CommunicationReader.                     *)

(* The outcomes with a valid response, and those that end without one.       *)
Answering == Outcomes \ {"failed"}
Unanswered == {"failed", "partial"}

(* What may come of an exchange now. *)
Possible(outcomes) ==
    {o \in outcomes : o = "ok" \/ (o \in Faults /\ budget.faults > 0)}

Spend(outcome) ==
    IF outcome = "ok" THEN budget ELSE [budget EXCEPT !.faults = @ - 1]

(* As Since, with every failed exchange starting the interval again. *)
SinceLast(d, outcome) == IF outcome \in Unanswered THEN now ELSE None

(* As Since, with a response that does not end the interval. *)
SinceFirst(d, outcome) ==
    IF outcome \notin Unanswered THEN failing[d]
    ELSE IF failing[d] = None THEN now ELSE failing[d]

(* When the present interval without a valid response began. *)
Since(d, outcome) ==
    IF outcome \notin Unanswered THEN None
    ELSE IF outcome = "partial" \/ failing[d] = None THEN now
    ELSE failing[d]

(* _observe_communication, for all the responses of an exchange in a row;    *)
(* a transport failure also resets the session that all devices share.      *)
Observe(d, outcome) ==
    /\ outcome \in Outcomes
    /\ failing' = [failing EXCEPT ![d] = Since(d, outcome)]
    /\ budget' = Spend(outcome)
    /\ IF outcome \in Answering
         THEN /\ responded' = responded \cup {d}
              /\ answered' = [answered EXCEPT ![d] = now]
              /\ heard' = heard \cup {d}
         ELSE UNCHANGED <<responded, answered, heard>>

(* The session is gone, and with it what any discovery was worth. *)
Reset == [d \in Devices |-> None]

----------------------------------------------------------------------------
(* The worker: _poll_devices.                                                *)

StartPoll ==
    /\ poll.pc = "idle" /\ poll.n < MaxPolls
    /\ poll' = [NoPoll(poll.n + 1) EXCEPT !.pc = "device", !.force = force]
    /\ force' = FALSE
    /\ slow_publication' = {}
    /\ UNCHANGED <<live, deadlines, results, health, outside, history>>

(* The published payloads that a discovery still covers.                     *)
Cached(d, layout) ==
    IF layout # None /\ data[d].layout = layout THEN data[d].models ELSE NoPayloads

(* As Selected, leaving the slow models to their deadlines. *)
SelectedFast(d, layout, full) ==
    {m \in Models : m \in FastModels \/ Cached(d, layout)[m] = None}

Selected(d, layout, full) ==
    {m \in Models : full \/ m \in FastModels \/ Cached(d, layout)[m] = None}

(* Compares started with its deadline. *)
SlowDue(d) == deadlines[d] = None \/ now >= deadlines[d]

(* A discovery may have grown too old, whatever its session.                 *)
BeginDevice ==
    /\ poll.pc = "device"
    /\ LET d == poll.device IN
       \E rediscover \in {live[d] = None, TRUE} :
          LET full == poll.force \/ rediscover \/ SlowDue(d) IN
          /\ slow_publication' = slow_publication \cup {x \in {d} : SlowDue(x)}
          /\ poll' = [poll EXCEPT
                !.pc = IF rediscover THEN "discover" ELSE "read",
                !.started = now, !.full = full,
                !.layout = IF rediscover THEN None ELSE live[d],
                !.todo = IF rediscover THEN {} ELSE Selected(d, live[d], full),
                !.reads = NoPayloads]
    /\ UNCHANGED <<force, live, deadlines, results, health, outside, history>>

(* _discover_device: a chain, an empty chain, no valid chain, no answer.      *)
Discover ==
    /\ poll.pc = "discover"
    /\ \E outcome \in Possible(Outcomes \ {"invalid"}) :
          LET d == poll.device
              found == IF outcome = "ok" THEN unit[d].layout ELSE None
              done == outcome \in {"ok", "empty"}
          IN
          /\ Observe(d, outcome)
          /\ live' = IF outcome \in Unanswered THEN Reset
                     ELSE [live EXCEPT ![d] = found]
          /\ poll' = [poll EXCEPT
                !.pc = IF done THEN "read" ELSE "failed",
                !.layout = found,
                !.todo = IF found # None THEN Models ELSE {},
                !.validated = IF done THEN @ \cup {d} ELSE @,
                !.incompatible = IF outcome = "incompatible" THEN @ \cup {d} ELSE @]
    /\ UNCHANGED <<force, deadlines, slow_publication, results, expired, revisions,
                   sources, timeout, now, unit, silent, expired_at, proven_at,
                   requested, published>>

(* _poll_device, one model.                                                  *)
ReadModel ==
    /\ poll.pc = "read"
    /\ \E m \in poll.todo, outcome \in Possible({"ok", "failed", "partial", "invalid"}) :
          LET d == poll.device
              snapshot == [at |-> poll.n,
                           of |-> IF outcome = "ok" THEN unit[d] ELSE None,
                           ok |-> IF outcome \in Unanswered THEN "failed" ELSE outcome]
          IN
          /\ Observe(d, outcome)
          /\ live' = IF outcome \in Unanswered THEN Reset ELSE live
          /\ poll' = [poll EXCEPT !.todo = @ \ {m}, !.reads[m] = snapshot]
    /\ UNCHANGED <<force, deadlines, slow_publication, results, expired, revisions,
                   sources, timeout, now, unit, silent, expired_at, proven_at,
                   requested, published>>

Readable(payloads) == \E m \in Models : payloads[m] # None /\ payloads[m].ok = "ok"

(* The DeviceSnapshot of the device just read. *)
Assembled(d) ==
    LET cached == Cached(d, poll.layout)
        read == {m \in Models : poll.reads[m] # None}
    IN  [layout |-> poll.layout,
         models |-> [m \in Models |-> IF m \in read THEN poll.reads[m] ELSE cached[m]],
         available |-> IF read # {} THEN Readable(poll.reads) ELSE data[d].available]

Unread(snapshot) ==
    \E m \in Models : snapshot.models[m] # None /\ snapshot.models[m].ok # "ok"

(* As NextSlow, counted from the poll that was late. *)
NextSlowFromNow(d) == poll.started + SlowPeriod

(* As NextSlow, replaying the periods that were missed. *)
NextSlowReplayed(d) ==
    LET deadline == IF deadlines[d] = None THEN poll.started ELSE deadlines[d] IN
    IF poll.started >= deadline THEN deadline + SlowPeriod ELSE deadline

(* The end of the slow period that the poll of d began in.                   *)
NextSlow(d) ==
    LET deadline == IF deadlines[d] = None THEN poll.started ELSE deadlines[d] IN
    IF poll.started >= deadline
      THEN deadline + ((poll.started - deadline) \div SlowPeriod + 1) * SlowPeriod
      ELSE deadline

(* As NextDevice, one too far. *)
NextDevicePast(d) == d + 1

NextDevice(d) == IF d = NDevices THEN 1 ELSE d + 1

EndDevice ==
    /\ \/ poll.pc = "failed"
       \/ poll.pc = "read" /\ poll.todo = {}
    /\ LET d == poll.device
           snapshot == IF poll.pc = "failed" THEN Offline ELSE Assembled(d)
       IN
       /\ poll' = [poll EXCEPT
             !.pc = IF d = NDevices THEN "epochs" ELSE "device",
             !.device = NextDevice(d),
             !.started = 0, !.full = FALSE, !.layout = None, !.reads = NoPayloads,
             !.result[d] = snapshot]
       /\ live' = IF poll.pc = "failed" \/ Unread(snapshot)
                    THEN [live EXCEPT ![d] = None] ELSE live
       /\ deadlines' = [deadlines EXCEPT ![d] = NextSlow(d)]
       /\ silent' = [silent EXCEPT ![d] = IF d \in responded THEN None
                                          ELSE IF @ = None THEN now ELSE @]
    /\ UNCHANGED <<force, slow_publication, results, health, outside, answered,
                   heard, expired_at, proven_at, requested, published>>

----------------------------------------------------------------------------
(* Retention: _retain_measurements.                                          *)

LayoutChanged(d) ==
    LET new == poll.result[d] IN
    /\ retained[d].models # NoPayloads
    /\ new.layout # None \/ d \in poll.validated
    /\ new.layout # retained[d].layout

(* The same model names another unit than it did when it was last decoded.   *)
IdentityChanged(d) ==
    \E m \in IdModels :
        LET new == poll.result[d].models[m]
            old == retained[d].models[m]
        IN  /\ retained[d].layout = poll.result[d].layout
            /\ new # None /\ old # None
            /\ new.ok = "ok" /\ old.ok = "ok"
            /\ new.of.serial # old.of.serial

Changed(d) == d \in poll.incompatible \/ LayoutChanged(d) \/ IdentityChanged(d)

(* measurement_epochs is written before _measurement_data is.                *)
BumpEpochs ==
    /\ poll.pc = "epochs"
    /\ poll' = [poll EXCEPT !.pc = "retain"]
    /\ epochs' = [d \in Devices |-> IF Changed(d) THEN epochs[d] + 1 ELSE epochs[d]]
    /\ proven_at' = [d \in Devices |-> IF Changed(d) THEN poll.n ELSE proven_at[d]]
    /\ UNCHANGED <<reading, data, retained, health, outside, answered, heard, silent,
                   expired_at, requested, published>>

Blank == [at |-> poll.n, of |-> None, ok |-> "blank"]

(* As Kept, carrying cached readings over to another unit. *)
KeptRegardless(d, m) ==
    LET new == poll.result[d].models[m]
        old == retained[d].models[m]
    IN  IF new # None /\ new.ok = "failed" /\ old # None THEN old ELSE new

(* What becomes of one model of d. *)
Kept(d, m) ==
    LET new == poll.result[d].models[m]
        old == retained[d].models[m]
    IN  IF new = None THEN None
        ELSE IF Changed(d) THEN IF new = old THEN Blank ELSE new
        ELSE IF new.ok = "failed" /\ old # None THEN old
        ELSE new

(* As Retained, for a device whose discovery failed too. *)
RetainedIfPolled(d) ==
    LET kept == [m \in Models |-> Kept(d, m)] IN
    [layout |-> poll.result[d].layout, models |-> kept, available |-> Readable(kept)]

Retained(d) ==
    IF d \in poll.incompatible THEN Offline
    ELSE IF poll.result[d].models = NoPayloads /\ ~Changed(d) THEN retained[d]
    ELSE LET kept == [m \in Models |-> Kept(d, m)] IN
         [layout |-> poll.result[d].layout, models |-> kept,
          available |-> Readable(kept)]

Retain ==
    /\ poll.pc = "retain"
    /\ poll' = [poll EXCEPT !.pc = "health"]
    /\ retained' = [d \in Devices |-> Retained(d)]
    /\ UNCHANGED <<reading, data, epochs, health, outside, history>>

----------------------------------------------------------------------------
(* Communication health: _update_communication_availability.                 *)

Overdue(d) == failing[d] # None /\ now - failing[d] >= timeout

(* As Recovered, without waiting for a response. *)
RecoveredUnheard(d) == d \in expired /\ ~Overdue(d)

Recovered(d) == d \in expired /\ ~Overdue(d) /\ d \in responded

(* As Suppressed, with what the poll published. *)
SuppressedLive(d) == poll.result[d].models

(* The readings that a later response alone does not revive.                 *)
Suppressed(d) == retained[d].models

UpdateHealth ==
    /\ poll.pc = "health"
    /\ LET newly == {d \in Devices \ expired : Overdue(d)} IN
       /\ expired' = (expired \cup newly) \ {d \in Devices : Recovered(d)}
       /\ revisions' = [d \in Devices |-> IF d \in newly THEN revisions[d] + 1
                                          ELSE revisions[d]]
       /\ sources' = [d \in Devices |-> IF d \in newly THEN Suppressed(d)
                                        ELSE sources[d]]
       /\ expired_at' = [d \in Devices |-> IF d \in newly THEN poll.n
                                           ELSE expired_at[d]]
       /\ heard' = heard \ newly
    /\ responded' = {}
    /\ poll' = [poll EXCEPT !.pc = "answer"]
    /\ UNCHANGED <<reading, results, failing, outside, answered, silent, proven_at,
                   requested, published>>

----------------------------------------------------------------------------
(* The event loop.                                                           *)

(* As Adopted, dropping the new payloads of slow models. *)
AdoptedFast ==
    [d \in Devices |->
        [poll.result[d] EXCEPT !.models = [m \in Models |->
            IF m \in FastModels \/ data[d].models[m] = None THEN @[m]
            ELSE data[d].models[m]]]]

Adopted == poll.result

(* The refresh ends: the poll becomes the data, and listeners are called.    *)
Publish ==
    /\ poll.pc = "answer"
    /\ data' = Adopted
    /\ published' = poll.n
    /\ poll' = NoPoll(poll.n)
    /\ UNCHANGED <<reading, retained, epochs, health, outside, answered, heard, silent,
                   expired_at, proven_at, requested>>

(* The refresh was cancelled: the worker was drained, its result is dropped. *)
Abandon ==
    /\ poll.pc = "answer" /\ budget.cancels > 0
    /\ poll' = NoPoll(poll.n)
    /\ budget' = [budget EXCEPT !.cancels = @ - 1]
    /\ UNCHANGED <<reading, results, health, timeout, now, unit, history>>

(* async_request_refresh, after a write: read the slow models, too.          *)
RequestRefresh ==
    /\ budget.requests > 0
    /\ force' = TRUE
    /\ requested' = poll.n
    /\ budget' = [budget EXCEPT !.requests = @ - 1]
    /\ UNCHANGED <<poll, live, deadlines, slow_publication, results, health, timeout,
                   now, unit, answered, heard, silent, expired_at, proven_at, published>>

SetTimeout ==
    /\ timeout' \in Timeouts
    /\ UNCHANGED <<poll, reading, results, health, now, unit, budget, history>>

Tick ==
    /\ now < MaxTime
    /\ now' = now + 1
    /\ UNCHANGED <<poll, reading, results, health, timeout, unit, budget, history>>

(* Another unit takes the place of d between two polls.  One with another     *)
(* layout has restarted, which ends the session.                              *)
Replace(d) ==
    /\ poll.pc = "idle" /\ budget.swaps > 0
    /\ unit' \in [Devices -> Units]
    /\ unit'[d] # unit[d] /\ \A x \in Devices \ {d} : unit'[x] = unit[x]
    /\ live' = IF unit'[d].layout = unit[d].layout THEN live ELSE Reset
    /\ budget' = [budget EXCEPT !.swaps = @ - 1]
    /\ UNCHANGED <<poll, force, deadlines, slow_publication, results, health, timeout,
                   now, history>>

Worker == \/ StartPoll \/ BeginDevice \/ Discover \/ ReadModel
          \/ EndDevice \/ BumpEpochs \/ Retain \/ UpdateHealth
Outside == RequestRefresh \/ SetTimeout \/ Tick \/ \E d \in Devices : Replace(d)

Next == Worker \/ Publish \/ Abandon \/ Outside

Spec == Init /\ [][Next]_vars

----------------------------------------------------------------------------
(* What sensors see.                                                         *)

(* measurement_available, for one reading. *)
Measurable(d, m) == d \notin expired /\ retained[d].models[m] # sources[d][m]

(* FroniusPVSensor.available: the raw sensors of model m of d show a value.    *)
Shown(d, m) ==
    /\ retained[d].available
    /\ retained[d].models[m] # None /\ retained[d].models[m].ok = "ok"
    /\ Measurable(d, m)
=============================================================================
