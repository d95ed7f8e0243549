# Verification of Fronius PV Manager

TLA+ models of this Home Assistant integration, from the registers of a device to
remote control of its storage, TLC runs that check them on small instances, and
TLAPS proofs for every instance.
Paths without a prefix are under `src/custom_components/fronius_pv_manager/`.

## 1. The system

One config entry is one inverter endpoint (a TCP connection) with one or more
Modbus device ids behind it.  Everything but the blocking Modbus calls runs on
Home Assistant's event loop; those run in worker threads, one at a time.

| Component | State | Operations | Talks to |
|---|---|---|---|
| Storage control (`storage_control.py`) | `settings`, `modes`, `last_targets` (memory and one JSON file for all devices); `_leases`, `_pre_remote`, `_cleanup`, `_watchdogs`, `_watchdog_tasks`, `_closed`; one `asyncio.Lock` | change, power window, policy setting, acquire, heartbeat, remote window / reserve / grid, release, watchdog, load, shutdown | write runtime, HA Store, HA timers |
| Write runtime (`write_runtime.py`) | none; per call a prepared plan bound to one authority | `async_write`, `async_write_sequence` | coordinator's I/O lock, register writer, refresh |
| Register writer / reader (`register_writer.py`, `register_reader.py`) | none | prepare, execute with read-back, read | transport |
| Transport (`transport.py`) | `_connected`, `generation`, the client's socket | connect, close, reset, read, write | the device |
| Coordinator (`coordinator.py`) | discovered models per device with the session, revision and deadline of the discovery; published and retained data; slow deadlines; communication failures; `_closing`, `_closed`; the I/O lock | `async_run_io`, discovery, polling, refresh, stop, close | transport, discovery, decoder, entities |
| SunSpec discovery (`sunspec.py`) | none | signature, model chain walk | transport |
| Communication health (`communication.py`, `coordinator.py` 174-239) | when the present silence of a device began, expired devices, timeout revisions, suppressed readings | observe, update | reader |
| Topology cache (`topology.py`) | stored structure in the entry | validate, restore | coordinator |
| Codec, decoder (`codec.py`, `model_decoder.py`) | none | decode, encode | writer, reader, coordinator |
| Write policy (`write_policy*.py`) | a YAML file | load or create, validate a value | write runtime |
| Measurements (`measurement*.py`, `sensor.py`, `storage_status.py`) | held values and status with the epochs and revisions they belong to, samples of the last 60 s | capture, observe, publish | coordinator, storage control's notifications |
| Control entities (`number.py`, `select.py`, `switch.py`) | none | set a value, select, switch | storage control, write runtime |
| Lifecycle (`__init__.py`, `coordinator.py` 852-897) | the runtime object, stop task | set up, unload, stop | all of the above |
| Solar API, diagnostics log, config flow, entity names, register maps, tools | see `PROJECT.json` | | |

**What is hard in it.**  Leases expire while commands are running; a command
checks its rights once and uses them after several awaits; a register sequence
is neither atomic nor rolled back and its failing step may have been applied;
saving may fail after the file was written; one file holds the settings of all
devices while some of them are under temporary remote control; timers fire early
or late and wait for a lock; callers are cancelled while a worker thread is still
writing; the entry is unloaded or the process dies at any of these points.  A
refresh works in a worker thread on state that the event loop shows to entities
before the result of the refresh is published, or although it never is.
`PROJECT.json` lists the hazards at their lines.

**What makes each part correct.**

* Storage control: nobody but the owner (or the expiry) ends a lease; a lease
  can always be given back; the user's profile survives any remote session, on
  disk and in memory; power limits are off before anything else is restored;
  limits in force always belong to one profile; an abandoned lease ends.
* Write runtime and transport: a register is written only in the session and
  with the discovery its address came from; a reported success was applied.
* Coordinator: what is published is coherent and never older than what was
  published before; after an outage every device is rediscovered.
* Measurements: no sensor shows a reading from before its device's timeout or
  from a unit that has been replaced, and none loses one without a reason.
* Lifecycle: everything is drained before the transports are closed, once.
* Discovery and topology: a chain of models stays inside the address space and
  ends; entities do not appear or vanish because of a restart or a failed poll.
* Arithmetic: rounding stays inside the window the user asked for; encoding and
  decoding are inverse where defined; not-implemented markers are never values;
  what a user may ask for, a policy accepts, the codec writes and a poll decodes
  is one and the same value.

## 2. Modules

| Module | Models |
|---|---|
| `StorageLease` | abstract: what a remote lease promises |
| `StorageControl` | storage control on top of verified write sequences |
| `StorageProperties` | its properties, its inductive invariants, the refinement of `StorageLease` |
| `MCStorage` and `Storage*.cfg` | small instances |
| `StorageControlProofs` | proof of the invariants of leases, files and timers |
| `StorageLeaseProofs` | proof of the refinement and of the immutable snapshot |
| `StorageRegisterProofs` | proof of the properties of the registers |
| `SessionAuthority` | one endpoint shared by several devices: sessions, discoveries, polls, the plans of write sequences, closing |
| `SessionProperties` | its properties |
| `MCSession` and `Session*.cfg` | small instances |
| `SessionProofs` | its inductive invariant, and the proofs of the safety properties |
| `Measurements` | one refresh after the other: what is selected, read, published and retained, and communication health |
| `MeasurementProperties` | its properties, and the inductive invariants of readings |
| `Publication` | composes `Measurements` with a derived value (a power, or an efficiency with its window of samples) and the control status, and has their properties |
| `MCPublication`, `Publication*.cfg`, `Measurement*.cfg` | small instances of both |
| `MeasurementProofs`, `PublicationProofs` | proofs about both |
| `RegisterValues` | the codec: types, widths, words, markers, scale factors, ranges |
| `RegisterMaps` | the nine shipped models, what makes a definition well formed, and the decoding of a model |
| `WritePolicies` | what a policy file must say, the shipped file, what a policy accepts and an entity offers |
| `PowerWindow` | watts to rates, classification, validation of stored profiles and of snapshots |
| `Discovery` | the walk over the model chain, with `ChainFits` |
| `Topology` | what is stored of discovered devices, and how it is validated |
| `DeviceRegisters` | composes these six: one device from its first contact to a verified write |
| `DeviceProperties`, `MCDevice`, `Device.cfg` | their properties; a small instance |
| `DiscoveryProofs`, `RegisterProofs` | proofs about the walk, the codec and the window; about a device as a whole: verified writes, windows, snapshots, the stored topology |

`StorageControl` and `SessionAuthority` meet in the write sequence: the first has
the registers a sequence writes and what its failure leaves behind, the second
when a sequence may run at all and where its writes go.

### StorageControl

The code holds one lock from the beginning to the end of an operation, so the
model has one variable `op`, the operation past the lock, and `op.pc` names the
await at which it is suspended: `preflight` and `write` are inside the worker
(`write_runtime._sequence_once`), `refresh` is the coordinator's refresh, `save`
the store write and `confirm` the read-back.  `op.stage` is `cleanup` while
`_release_locked` runs, on its own (release, watchdog) or in front of a request
that found an expired lease (`_expire_locked`), and `body` for the request
itself.  Requests that the code rejects before any change are stuttering steps.

| Model | Code |
|---|---|
| `leases`, `pre_remote`, `cleanup` | `_leases`, `_pre_remote`, `_cleanup` (its `verified_steps`) |
| `timers`, `watchers` | `_watchdogs`; tasks that wait for the lock |
| `settings`, `modes`, `last_targets` | the same, in memory |
| `disk` | the document of the last store write that happened |
| `hw` | StorCtl_Mod, InWRte, OutWRte, MinRsvPct, ChaGriSet of each device |
| `phase` | open; `_closing` set; `_closed` set; leases cleared |
| `readOnly` | `store.make_read_only()` after a failed load |
| `Acquire`, `Update`, `RemoteSetting`, `Heartbeat`, `Release`, `Change`, `WritePolicySetting` | the public methods, up to their first await |
| `PreflightPasses` ... `StepFails` | one sequence, register by register; a failing step may or may not have been applied |
| `RecordProgress` | the `except` clauses of `_release_locked` |
| `Save`, `SaveFails`, `ConfirmBody`, `ConfirmCleanup` | the second half of `_apply_locked` and what follows it |
| `TimerFires`, `Watchdog` | `_schedule_watchdog`, `_async_watchdog` |
| `Cancel`, `Abandon` | cancellation inside the drained worker, and at any other await |
| `StartClosing`, `Close`, `ClearLeases`, `Restart` | unloading; a crash or reload and `async_load` |
| `LowLevelWrite` | the low-level number, select and switch entities; they wait for the same I/O lock, so never while a sequence is being written |

Profiles are opaque: a profile stands for a `PowerSettings` and for the window it
is translated to; user and remote profiles are kept apart because the properties
are about which of the two ends up where.  A device without saved settings has
the default profile (the code derives it from WChaMax).  Power arithmetic, input
validation and the wording of errors are left out.  A failed first acquisition
may leave limits in the device without a lease; the README of the integration
says so, and so does the model: no property excludes it.

### SessionAuthority

The I/O lock (`async_run_io`) admits one worker at a time, the `job`; its steps
are the calls of the shared client, and the rest of the world moves between
them.  The final close is a step of its own behind the same lock.

| Model | Code |
|---|---|
| `connected`, `generation` | `_connected`, `generation` of the endpoint |
| `socket` | the client's TCP session: none, up, dead (the peer is gone, nobody has noticed), lost (`client.connected` is false) |
| `discovered`, `live_gen`, `revision`, `deadline` | `discovered_models_by_device`, `_live_generations`, `_discovery_revisions`, `_discovery_deadlines` |
| `CallOk`, `CallFails`, `ConnectFails` | `read_holding_registers` and `write_holding_registers` with `_ensure_connected`, `connect` and `_reset_safely` |
| `Garbled` | an answer that cannot be decoded: no reset |
| `PollLive`, `PollDiscover`, `PollRead` | `_poll_devices`, `_discover_device`, `_poll_device`, one device and one model after the other |
| `StartWrite`, `Prepare`, `Capture`, `Write`, `WriteDeferred`, `Verify`, `AuthorityLost` | `_sequence_once` (and `_write_once`) behind `_AuthorityBoundTransport` |
| `BeginClose`, `Close` | `async_close`, `_close_transports` |
| `LoseSession`, `Move` | the network and the devices (external) |
| `layout`, `delivery` | where a device's model chain really is; the write that reached a device in the last step |

`generation` is counted exactly as the code does: one for every connection, one
for every reset, two when a call finds the session lost, because `_reset_safely`
then runs in `_ensure_connected` and again in the caller's `except`.  A device's
whole model chain is one value, its layout; a plan's address is the layout of the
authority that prepared it.  A device moves its registers only by restarting,
which breaks its TCP session, unless it is one of `Silent`: behind a gateway it may
move unseen.  The check that follows a guarded call is the first check of the
next step; a discovery is one step, because any failed read fails it as a whole.

### Measurements and Publication

`SessionAuthority` is about where reads and writes go; `Measurements` is about what
is made of the answers, and reduces a session to what a poll sees of it: a device
is live at some layout or must be rediscovered, and a transport failure resets all
devices of the endpoint.  One refresh runs at a time (`poll`); `poll.pc` names the
next step of its worker, and the clock, the options, requests and notifications
move between any two of them.

| Model | Code |
|---|---|
| `StartPoll`, `BeginDevice`, `Discover`, `ReadModel`, `EndDevice` | `_poll_devices`, one exchange at a time |
| `BumpEpochs`, `Retain` | `_retain_measurements`; `measurement_epochs` is written before `_measurement_data` |
| `UpdateHealth` | `_update_communication_availability` |
| `Publish`, `Abandon` | the end of `_async_update_data`: the data is assigned and listeners are called, or the refresh was cancelled |
| `RequestRefresh` | `async_request_refresh` sets `_force_slow` |
| `Since`, `Observe` | `_observe_communication` as `CommunicationReader` calls it |
| `Kept`, `Retained` | the choice between a new, a retained and a blank payload |
| `Measurable`, `Shown` | `measurement_available`, `FroniusPVSensor.available` |
| `Replace`, `Tick`, `Possible` | another unit, the clock, the network (external) |
| `CaptureDerived`, `DerivedAvailable` | `MeasurementSolarEntity._capture`, `.available` |
| `window`, `Remaining`, `Observed`, `MayPublish` | `EfficiencyWindow`, when an efficiency is published |
| `CapturedStatus`, `StatusAvailable` | `StorageControlStatus._capture_status`, `.available` |
| `PublishAndCapture`, `Notify` | the listeners, called by a refresh or by storage control |

A payload is the poll that read it, the unit it came from and whether it was read
and decoded; the code compares payloads by object identity, and so does the model
(a device's model is read at most once in a poll).  An exchange ends in one of
`Outcomes`: `partial` is a failure after valid responses, `invalid` a payload that
cannot be decoded, `incompatible` and `empty` are answered discoveries without a
valid chain or without models.  `live_models` may also expire at any time.  A
formula may have no result.  `unit` is the truth about which unit answers; the code
can only infer it from models 1 and 160 (`IdModels`).  History variables record what
properties refer to: when a device answered, expired, was proven replaced.

With `Windowed`, the derived value is an efficiency: a sample is taken with every
calculation, samples older than `Window` or of another operating mode are dropped,
and a median is published when the slow models of the device are due.  A published
efficiency is the set of its samples; `era`, a history variable, counts changes of
the mode, so that a sample of an earlier era can be told from one of the present.

### Registers: from RegisterValues to DeviceRegisters

These modules have the values that the other models leave opaque.  `DeviceRegisters`
is one device: its chain is walked with whatever headers it gives, its models get
some words, and then either the topology is saved, damaged, restored and saved again
by a poll in which some models fail, or one write or one power window is worked out.

| Model | Code |
|---|---|
| `Scale`, `Encode`, `Decode`, `Combine`, `Split`, `InRange`, `Known` | `codec.py` and the ranges of `models/register.py` |
| `ModelDefinitions`, `WellFormed` | `register_maps/model_*.py`, `RegisterDefinition` and `ModelDefinition` with their checks |
| `DecodeModel` | `model_decoder.py` |
| `LoadPolicies`, `PolicyAccepts`, `EntityOffers` | `write_policy_loader.py`, `write_policy.py`, and the limits and options of `number.py`, `select.py`, `switch.py` |
| `Walk` | `sunspec.py`, one header at a time |
| `Record`, `Validated`, `SaveAgain` | `topology.py`, and the merge in `_poll_devices` |
| `ReadRegister`, `LiveScale`, `Prepare`, `Write`, `Verified` | `register_reader.py`, `register_writer.py` |
| `Magnitude`, `Boundary`, `ManualWindow`, `Classify`, `ValidPolicySetting` | the functions at the beginning of `storage_control.py` |

A semantic value is a whole number of 10^-`Places`, which makes decimal scaling exact
as the code's `Decimal` does; the code's exact fractions are integer quotients.  The
word size `Base` is a parameter, and all widths and markers follow from it.  Labels of
enums and bits are their raw values, strings are opaque, names and descriptions of
entities are left out.  A write that is prepared may or may not reach the device, and
is then read back.

A model's registers are one function, put together from named rows (`Registers`,
`Single`); a name belongs to one row only, and `DefinitionsAssumption` says that each of
the nine is well formed, as the checks at import do.  The accepted topology is a function on the places of the
stored records: a record is at its place if it is valid and no valid one before it has
its address (the code's `seen`).  The order and the places of the others do not change,
so that "nothing else is lost" can be said record by record.

A policy's minimum and maximum are for numbers.  Given for a register with documented
options they are accepted and have no effect: `validate_policy_value` returns before it
compares them (`write_policy.py` 115-132).  `VerifiedWriteIsPolled` therefore asks for
the bounds of a policy only where the register has no options.

## 3. Runs

All runs set `CHECK_DEADLOCK FALSE`: the clock of an instance is bounded and an
unloaded entry stops.

| Run | Instance | Shows |
|---|---|---|
| `storage_control` | 1 device, 2 owners, both policy settings, lease of 2 ticks, clock up to 2, all faults, unloading, 1 restart | `TypeOK`, `LeaseHasSnapshot`, `WatchdogArmed`, `EnforcedWindowIsOneProfile`, `RecordedAutomaticIsNeutral`, `RemoteStateIsOwned`, `LeaseEndsRestored`, `NeutralBeforeRestore` |
| `storage_persistence` | 2 devices, 2 user profiles, failed saves | `UserProfileSurvives`, `ImplementsLease` |
| `storage_watchdog` | 1 device, 1 owner, lease of 1 tick, clock up to 2, fairness, all faults, unloading, others switch grid charging | `SnapshotIsImmutable`, `DeadlineIsEnforced` (liveness) |
| `storage_expired` | 1 device | refutes `ExpiredLeaseIsNotRenewed` |
| `session_safety` | 2 devices, one of them behind a gateway, 2 layouts, 2 models, sequences of 2 steps with every safety prefix, 2 faults, 2 ticks, discoveries of age 2 | `TypeOK`, `LiveModelsAreCurrent`, `NoMisdirectedWrite`, `ClosedForGood`, `StaleWriteIsBounded` |
| `session_recovery` | fairness, sequences of 1 step, 2 faults | `Recovers`, `Closes` (liveness) |
| `publication_health` | 2 devices with a fast model, timeouts of 1 and 2 ticks, 2 failed or half answered exchanges, 1 cancelled refresh, 3 polls, notifications, slow periods of 2 ticks, clock up to 5 (`HealthScope`) | `TypeOK`, `PublicationTypeOK`, `ExpiredReadingStaysHidden`, `DerivedIsNotRevived`, `DerivedIsCoherent`, `ExpiryNeedsSilence`, `SilenceExpires`, `RecoveryNeedsAnswer`, `SlowPeriodsStayAnchored` |
| `publication_units` | 1 device, a fast model and a slow one that names the unit, 2 layouts, 2 serials, 2 faults of four kinds, 1 replacement, 1 requested refresh, 3 polls, an efficiency with a window of 1 tick, clock up to 2 (`UnitsScope`) | `OldUnitStaysForgotten`, `ReadbackIsPublished`, `StatusIsConfirmed`, `MedianIsOfOneMode`, `HeldUntilDisproved`, `ReadingsAdvance`, `DerivedForgetsOldUnit` |
| `device_registers` | chains of up to 3 models in 150 addresses, words of 12 bits, 2 decimals, 8 policy files, storage and control models at the corners of their ranges and scale factors, 225 power settings | `ChainFits`, `VerifiedWriteIsPolled`, `WindowHonoursSettings`, `SnapshotIsRestorable`, `TopologySurvives` |
| `measurement_revival` | the fast model names the unit, too | refutes `OldUnitStaysForgotten` |
| `measurement_readback` | 1 cancelled refresh | refutes `ReadbackIsPublished` |
| `publication_notice` | 1 model, 1 replacement, notifications | refutes `DerivedForgetsOldUnit` |

Bounds.  A lease lasts one or two ticks, and the clock reaches the deadline of a
first lease everywhere and that of a lease renewed at once or after a tick in
`storage_watchdog`, so that leases are renewed, expire and are superseded; the real
90 seconds only matter through the order of renewal, deadline and timer.
One operation runs at a time by construction, so interference needs at most a
second owner (`storage_control`) or a second device (the shared file).  One queued
watchdog is a stale one as soon as another command has taken the lock before it;
further ones find nothing more to do.  One restart is enough: it forgets all but
`disk` and `hw`, and both are arbitrary by then.  What the bounds of these runs
leave open, all but `DeadlineIsEnforced` is proved without bounds (section 4).

In the session runs two devices are enough for one to break the session of the
other; two faults for a failure during the recovery from a failure; an age of
two ticks lets a discovery expire inside a sequence that was prepared in time.

In the publication runs a third poll is needed to bring something back: the first
reads it, the second hides or replaces it.  `publication_health` has no slow models
and no replacement, `publication_units` no second device: what hides a reading for
its age and what hides it for its unit are independent.  Two faults let a device fail while it
recovers; devices only share resets, so two are enough.

Time alone makes slow periods pass and samples grow old, so both clocks go on after
the ticks in which everything may happen.  The state constraints `HealthScope` and
`UnitsScope` (`MCPublication`) name how far.  All the faults, cancellations, requests
and replacements of the instance may have happened up to tick 1 (`publication_health`)
or in tick 0 (`publication_units`); all but one of them up to one tick later; and in
the ticks after that none, with the shortest timeout, so that polls, late ones
included, and notifications remain.  With a slow
period of two ticks and a clock of five, a poll starts before the deadline, on it,
after it, and after a further period was missed altogether, so that a next deadline of
one period more (missed periods replayed) differs from the code's.  With a window of
one tick and a clock of two, samples of neighbouring polls are used together and the
sample of two ticks ago drops out by its age.  Only safety is checked under the
constraints; neither run states fairness.

In `device_registers` a word of 12 bits is the smallest that holds +-100.00 in units of
a hundredth, the finest scale the rates have, so every scale factor from there to the
coarsest meets its limits; the markers and the sign bit are where they are in 16
bits, relative to the width.  The data of a model is zero but for the registers a
property is about, all ones, or only the sign bit; headers include a model without
data, one that is too long, unknown ones, and repeating blocks of every length that
is refused.  The reference power is 0, 3 and 7, so that a watt is a third, a seventh,
and no rate exactly.

**Fairness** (`FairSpec`).  In `StorageControl`: time passes; a due timer fires; a
running operation takes its next step (every Modbus call ends, by success, error or
timeout); shutdown proceeds.  `asyncio.Lock` is FIFO, so a watchdog or the shutdown
that waits for it gets it even though callers keep coming: strong fairness for those
two.  Nothing is assumed about callers: the abandoned lease is one nobody renews.
In `SessionAuthority`: a worker takes its next step, the close that waits is
executed, and the next scheduled poll gets the FIFO I/O lock although writes keep
coming (strong fairness).  Faults are finite in number, in any order; without
that nothing could recover.  `Measurements` and `Publication` need none: their
properties are about what a poll that ends has done.

**Divergences.**  Each of these runs has a counterexample of a few steps.

1. `storage_expired`: an update which passes its ownership check before the deadline
   renews the lease after it (`storage_control.py` 628-630, 764), while README.md 724
   says that an expired lease cannot be renewed by a remote update.  The watchdog
   that fired meanwhile waits for the lock and then sees a live lease.  Nothing unsafe
   follows from it: `WatchdogArmed` and `DeadlineIsEnforced` hold all the same.
2. `measurement_revival`: a poll of fast models proves another unit by its channel
   identities (model 160).  The slow payloads of the old unit are blanked in the
   retained view, but stay in the live data, from where the next poll caches them;
   the blank is not `available`, so nothing compares or rejects them
   (`coordinator.py` 283-286, 572-601).  They are shown until the slow models are due.
   `docs/measurement-publication.md` 118 and `docs/polling.md` 99 exclude it.
3. `measurement_readback`: the requested readback is a flag that the next poll resets
   when it starts (`coordinator.py` 555); when that refresh is cancelled its result is
   dropped, and the next one reads fast models only (`docs/polling.md` 27).
   Cancelled refreshes cost more than the readback: two of them around a timeout can
   bring a slow reading from before it back, since the payloads of the dropped poll
   were not published while its observation of health was.  `HeldUntilDisproved`,
   `ReadingsAdvance` and the theorems about readings name that condition.
4. `publication_notice`: between the worker's update of epochs and revisions and the
   publication of its data lies an HTTP request (up to 3 s).  When storage control
   notifies the listeners in that window, a cleared derived value is calculated again
   from the old unit's data and survives the publication if the new data has no
   result (`docs/measurement-publication.md` 96).  In the same window a status
   classified from data of before a timeout is stored with the new timeout revision
   (`docs/communication-availability.md` 72 asks for a fresh one), if the timeout
   passed within the poll itself: several silent devices, each read waiting for its
   own timeout, and the shortest option make it long enough.  `publication_units`
   therefore checks `StatusIsConfirmed` without notifications.  `DerivedIsNotRevived`
   holds in `publication_health`, which has notifications but no other unit; with both
   it fails in the same way.

## 4. Proofs

`StorageControlProofs` proves, for all devices, owners, profiles, reserves, lease
times and bounds and from `ConstantAssumption` alone, that `IndInv` is an
invariant (`Invariance`), and from it `TypeOK`, `LeaseHasSnapshot`,
`UserProfileSurvives`, `RemoteStateIsOwned` and `WatchdogArmed`.
`StorageLeaseProofs` proves `Spec => ImplementsLease` and
`Spec => SnapshotIsImmutable`.

None of the invariants is inductive alone: they talk about states between
operations, while an operation is suspended in the middle of its work.  `IndInv`
adds what a suspended operation may rely on: it is well formed, a cleanup still
has its lease, a request still has the rights its check established although the
clock went on (`CleanupIsAuthorised`, `BodyIsAuthorised`), and a first
acquisition carries the snapshot the file agrees with (`CandidateIsCurrent`).
That is the argument for checking rights once per lock: nothing else changes
`leases` meanwhile, except unloading, which waits for the lock, and a crash,
which forgets the operation too.  There is one lemma per action; the refinement
has one per action that the abstract lease can see.

`SessionProofs` proves, for every number of devices and layouts and every bound,
`LiveModelsAreCurrent`, `NoMisdirectedWrite`, `StaleWriteIsBounded` and
`ClosedForGood`.  The inductive invariant says that a discovery whose generation
is the present one belongs to the present session: a call either leaves session
and generation alone or advances the generation (`SessionKept`), and recorded
generations never exceed it, so that nothing becomes live again by itself.  A
plan whose authority is intact at a call therefore has the device's present
address whenever the call can reach the device.  One lemma (`CallPreserves`)
serves all steps but the discovery, the environment and the close.

`StorageRegisterProofs` proves `LeaseEndsRestored`, `NeutralBeforeRestore`,
`EnforcedWindowIsOneProfile` and `RecordedAutomaticIsNeutral` with a second
invariant on top of `IndInv`.  `RegisterInv` says what a sequence has reached in the
device by the number of its verified steps: a cleanup has the limits off after its
first step, both rates full after the third, and the reserve back after the fourth
(`CleanupReached`); a window is written with the limits off and has both rates
in place before they are switched on (`WindowReached`); and a lease that is not
being cleaned up belongs to a device recorded as remote (`HeldIsRemote`).  A failed or cancelled step leaves
these facts true for the steps before it, which is why the order of the steps is
enough.  Like the properties it is stated under `OwnWindow`: nobody else writes the
mode and the two rates.

`MeasurementProofs` proves `TypeOK`, `ExpiryNeedsSilence`, `RecoveryNeedsAnswer`,
`SilenceExpires` and `SlowPeriodsStayAnchored` for all devices, models, timeouts and
bounds.  `HealthInv` says that a recorded failure begins no earlier than the last
answer; `SilenceInv` that a poll observes every device it asked, in turn, and that one
which leaves a poll unanswered has been failing at least that long; `ExpiryInv` that
readings from before an expiry are suppressed.  `SilenceExpires` needs a fast model to
read, as every device has.

The properties of readings follow a payload over several polls: it is read, published,
retained, cached by a later poll, hidden, shown again.  None of them is inductive;
`ReadingsInv` (`ReadingsInvariance`) is about the provenance of every payload the
coordinator keeps, in four places at once:

* in a poll's result, a payload that the poll has not read is the published one, of
  the same layout (`CachedIsPublished`), and slow models are read with all others or
  not at all (`SlowTogether`);
* what is published is what is retained, but for failed readings and blanks
  (`HeldIsLatest`), and what is retained is of the proven unit (`HeldIsOfProvenUnit`);
* a device that is silent is not live (`SilentIsNotLive`), so that whatever was read
  before a timeout is read again instead of taken from the data (`ExpiredIsReadAgain`),
  and what is held is hidden or newer than the timeout (`HeldIsSuppressedOrNew`);
* a requested readback is pending, under way, or published (`ReadbackIsUnderWay`).

Each conjunct has a lemma per action that can disturb it; what the other actions leave
alone is stated once, in the lemmas about their effects.  The central argument is that
of `HeldIsOfProvenUnit`: when a poll finds evidence of another unit, whatever named the
unit was read by that poll; if only slow models name units, all models were read with
it, and nothing of the old unit is left to be cached.

The theorems have the hypotheses that the divergences show to be needed.

| Property | Proved | Without the hypothesis |
|---|---|---|
| `ExpiredReadingStaysHidden` | always, if all models are fast; with slow ones as long as no refresh is cancelled (`Uncancelled`) | two cancelled refreshes bring a slow reading back |
| `OldUnitStaysForgotten` | as long as no refresh is cancelled and the unit is named by slow models only, or was never replaced (`Steady`) | `measurement_revival`; one cancelled refresh |
| `ReadbackIsPublished` | `Uncancelled` | `measurement_readback` |
| `HeldUntilDisproved` | always (it is about uncancelled refreshes itself) | one cancelled refresh |
| `ReadingsAdvance` | if no fast model names the unit or no unit is replaced (it is about uncancelled refreshes itself) | the retained view is blanked and refilled from older data (divergence 2) |

`PublicationProofs` first shows that every step of the composition is one of
`Measurements` (`SensorsOnlyRead`), so that derived values and status never influence
a poll, and then proves `PublicationTypeOK`, `DerivedIsCoherent` and
`MedianIsOfOneMode`.  `StatusIsConfirmed`, `DerivedForgetsOldUnit` and
`DerivedIsNotRevived` are proved for `Notices = FALSE`; with notifications in the middle
of a poll they fail (divergence 4).  For the last one `RevisionInv` says that the timeout
revisions a power was captured with never run ahead of the devices', and that while
they are equal its readings are no older than the last timeout.

`DiscoveryProofs` proves `ChainFits` for every sequence of headers a device may
report, and that no two models of a chain share an address (`ModelsApart`).

`RegisterProofs` begins with the arithmetic: the rates written for a window are
rounded into it (`WindowIsInside`), a window is refused only if no rate lies in it
(`RefusedWindowIsEmpty`), and what is encoded is what is decoded
(`EncodedIsDecoded`), for every reference, resolution, width and scale factor.  On it
rest the properties of a device, for every word size, payload, policy file, request and
setting:

* `DeviceInvariance`: the words of a device are those of the models found, a pending
  write is one that was prepared from them and allowed, a pending window one that was
  computed from them.  The device's walk goes on as it does alone (`WalksAlone`), so
  that `ChainFits` and `ModelsApart` hold of the composition as well.
* `VerifiedWriteIsPolledAlways`: a write touches the words of its register only, no
  other register of a well-formed model overlaps them (`OthersAreKept`), a scale factor is
  never the target, and so the decoding of the whole model changes in one place.  That
  place has the requested value because the read-back was decoded with the scale that
  the whole model is decoded with.
* `WindowHonoursSettingsAlways`: `WindowIsInside` and `RefusedWindowIsEmpty`, and that the
  rates of a window can be encoded (`RateIsEncoded`), are classified as the integration's own, and load again.
* `SnapshotIsRestorableAlways`: a captured reserve or permission is a word that encodes
  to itself (`ReadIsEncoded`), and the installed policy allows every value of the range
  (`RestoringIsAllowed`, from the shipped policy text itself).
* `TopologySurvivesAlways`: a record of a model that was decoded is valid
  (`CompleteIsValid`), each way of damaging one makes it invalid and leaves its address
  alone or takes the record out of the comparison, and since no two models share an
  address no other record is affected; so the restored topology is exactly that of the
  known and undamaged models, and the next poll finds each of them at its place.

Two things came out of these proofs.  The bound on a module's ID had to be one on
the word that is stored, not on the fixed decimals of the model (`ValidModule`), and a policy's
bounds on registers with options turned out to have no effect (section 2).

The proofs rest on the named assumptions of the modules only, and TLC evaluates each of
them.  They are

* the types of the constants (`ConstantAssumption`, `PublicationAssumption`, those of
  `Discovery`, `BaseAssumption`, `PlacesAssumption`, `RequestsAssumption`,
  `SettingsAssumption`, `PayloadsAssumption`, `FilesAssumption`), with `SpaceAssumption` and
  `EndModelAssumption`: words and addresses are at most 16 bits wide, and the end of a
  chain is the greatest header;
* that `None` and `Malformed` are no values (`NoneAssumption`, `WindowAssumption`,
  `MalformedAssumption`, `PlansAssumption`, `StoredAssumption`).  A topology is a sequence of
  records, and TLA+ alone does not say that "none" is not one;
* facts the provers cannot calculate, because they have no theory of powers or because a
  table is too large for them: a unit of the fixed decimals is positive
  (`UnitAssumption`), one word has `Base` values (`ModulusAssumption`), and the nine shipped
  models are well formed (`DefinitionsAssumption`, `NamesAssumption`), and what can be
  written is one word and never a scale factor (`WritableAssumption`).  These have no parameter but the word size, so that TLC decides them for
  the size it is given;
* the bound of the model that scale factors stay within the decimal places it has
  (`ScalesAssumption`).

Every safety property that a run finds to hold is thereby proved, under the hypotheses
above.  Only model-checked are `DeadlineIsEnforced`, `Recovers` and `Closes`: liveness under
fairness is out of this prover's reach.

## 5. Not modelled

* Solar API, diagnostic logging and diagnostics, the semantics rules of the register
  maps, the command line tools, and the device records: read-only, evaluated once, or
  without behaviour.  Nothing reads their results back into control.
* Config and options flow: forms of Home Assistant without concurrency of their own.
  A change of options reloads the entry, which `StorageControl` has as unloading and
  restart.
* The order of set-up, unloading and draining around the components.
* Creating the policy file, its encoding and the parsing of YAML: `WritePolicies`
  starts from the parsed text.  `SnapshotIsRestorable` is about the default policy: one
  that narrows or disables the reserve or grid setting can make a cleanup fail, as the
  repository's README.md 783-791 says.
* The formulas, the rounding and the median of derived values: `Publication` has when
  they are calculated, held, cleared and shown.  The lifetime efficiencies also read
  the slow model 120, which is not a payload of the derived entity there.
* A stored topology record that was edited to claim the base address of another device.
* A store write that Home Assistant defers and performs after a later one: the
  store is not part of this repository.
* The order of `async_update_listeners` callbacks: they only re-read state.
* Chunked reads: a chunk that fails fails the read of its model.
* Several endpoints in one entry: `_close_transports` allows them, set-up never
  creates more than one.
* Malformed settings files: `LoadFails` covers the unreadable one, a partly
  malformed one only loses the malformed records.
* Set-up's own first refresh may overlap a requested one; all others pass through
  Home Assistant's debouncer one after the other, as in `Measurements`.
* A unit is replaced between polls only.  In the middle of one it would mix readings
  of two units, which the next poll that decodes model 1 resolves.
* Reading and resetting `_force_slow` is one step (two adjacent statements).
* A failure of the refresh as a whole (`last_update_success`): the poll itself
  handles every Modbus and SunSpec error.

## 6. Plan

1. `Lifecycle`: set-up, unloading, draining, closing once, the overlapping first
   refresh; composes with the I/O lock of `SessionAuthority`.
2. `Diagnostics`: the rate limits of log lines and the sanitised export.
3. Further refinements: an abstract specification of what a sensor may show (a register
   that is fresh, held or hidden) implemented by `Measurements`, and one of an exclusive
   endpoint implemented by `SessionAuthority`.
