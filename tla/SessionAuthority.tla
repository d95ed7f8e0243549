-------------------------- MODULE SessionAuthority --------------------------
(***************************************************************************)
(* One Modbus TCP endpoint shared by several devices: its sessions          *)
(* (transport.py), the discoveries that a session validates                 *)
(* (coordinator.py) and the write plans that such a discovery authorizes    *)
(* (write_runtime.py).                                                      *)
(*                                                                          *)
(* The I/O lock admits one worker, the job: a poll of all devices, a write  *)
(* sequence or the final close.  A worker is suspended between two calls of *)
(* the client; meanwhile the clock ticks, the peer goes away, a device      *)
(* comes back with its registers elsewhere, or the entry starts to close.   *)
(***************************************************************************)
EXTENDS Integers

CONSTANTS
    NDevices,           \* the device ids are 1..NDevices, polled in this order
    Layouts,            \* where a device may place its model chain
    None,               \* absent: a missing key
    MaxAge,             \* the 300 seconds of _discovery_deadlines
    Silent,             \* the devices behind a gateway: they may move unseen
    MaxModels,          \* bound: models of a device that one poll reads
    MaxSteps,           \* bound: steps of a write sequence
    MaxFaults,          \* bound: lost sessions, failed calls, garbled answers
    MaxTime             \* bound: last tick of the clock

Devices == 1..NDevices

ASSUME ConstantAssumption ==
    /\ {NDevices, MaxAge, MaxSteps} \subseteq Nat \ {0}
    /\ {MaxModels, MaxFaults, MaxTime} \subseteq Nat
    /\ None \notin Layouts
    /\ Layouts # {}
    /\ Silent \subseteq Devices

VARIABLES
    connected,      \* endpoint._connected
    socket,         \* the client's TCP session, see Sockets
    generation,     \* endpoint.generation
    discovered,     \* discovered_models_by_device[d], None when popped
    live_gen,       \* _live_generations[d]
    revision,       \* _discovery_revisions[d]
    deadline,       \* _discovery_deadlines[d]
    closing,        \* coordinator._closing, or hass.is_stopping
    closed,         \* coordinator._closed
    job,            \* the worker that holds the I/O lock
    now,            \* time.monotonic()
    layout,         \* where the registers of each device really are
    moved,          \* when they last moved behind a live session (of Silent ones)
    delivery,       \* the register write that reached a device in the last step
    faults          \* faults left

endpoint  == <<connected, socket, generation>>
topology  == <<discovered, live_gen, revision, deadline>>
lifecycle == <<closing, closed>>
device    == <<layout, moved>>
vars == <<endpoint, topology, lifecycle, job, now, device, delivery, faults>>

(* No session; a live one; one whose peer is gone without the client having *)
(* noticed; one that the client has noticed to be gone (client.connected).  *)
Sockets == {"none", "up", "dead", "lost"}

Authorities == Nat \X Nat \X (Layouts \cup {None})
NoAuthority == <<0, 0, None>>

Jobs == [kind : {"none", "poll", "write"}, device : Nat,
         pc : {"device", "read", "prepare", "capture", "write", "verify"},
         index : Nat, count : Nat, failed : BOOLEAN,
         authority : Authorities, prefix : Nat, bad : Nat]

NoJob == [kind |-> "none", device |-> 1, pc |-> "device", index |-> 1, count |-> 0,
          failed |-> FALSE, authority |-> NoAuthority, prefix |-> 0, bad |-> 0]

TypeOK ==
    /\ connected \in BOOLEAN /\ socket \in Sockets /\ generation \in Nat
    /\ discovered \in [Devices -> Layouts \cup {None}]
    /\ live_gen \in [Devices -> Nat]
    /\ revision \in [Devices -> Nat]
    /\ deadline \in [Devices -> Nat]
    /\ closing \in BOOLEAN /\ closed \in BOOLEAN
    /\ job \in Jobs
    /\ job.device \in Devices
    /\ now \in Nat
    /\ layout \in [Devices -> Layouts] /\ moved \in [Devices -> Nat]
    /\ delivery \in (Devices \X Layouts) \cup {None}
    /\ faults \in Nat

Init ==
    /\ connected = FALSE /\ socket = "none" /\ generation = 0
    /\ discovered = [d \in Devices |-> None]
    /\ live_gen = [d \in Devices |-> 0]
    /\ revision = [d \in Devices |-> 0]
    /\ deadline = [d \in Devices |-> 0]
    /\ closing = FALSE /\ closed = FALSE
    /\ job = NoJob
    /\ now = 0
    /\ layout \in [Devices -> Layouts] /\ moved = [d \in Devices |-> 0]
    /\ delivery = None
    /\ faults = MaxFaults

----------------------------------------------------------------------------
(* What a device's live discovery is worth.                                 *)

(* As Live, with a discovery that never ages. *)
LiveForever(d) == discovered[d] # None /\ live_gen[d] = generation

(* live_models(d) is not empty. *)
Live(d) ==
    /\ discovered[d] # None
    /\ live_gen[d] = generation
    /\ now < deadline[d]

(* write_authority(d) of a live device. *)
Authority(d) == <<generation, revision[d], discovered[d]>>

(* _AuthorityBoundTransport.check *)
Intact == Live(job.device) /\ Authority(job.device) = job.authority

----------------------------------------------------------------------------
(* The calls of the endpoint.                                               *)

Reachable == socket = "up" \/ ~connected

UseFault == faults > 0 /\ faults' = faults - 1

(* The request is answered, in a session of its own if there was none. *)
Answered ==
    /\ Reachable
    /\ connected' = TRUE /\ socket' = "up"
    /\ generation' = IF connected THEN generation ELSE generation + 1

(* As CallOk, in a client that replaces a lost session behind the endpoint. *)
CallOkReconnecting ==
    /\ Reachable \/ socket = "lost"
    /\ connected' = TRUE /\ socket' = "up"
    /\ generation' = IF connected THEN generation ELSE generation + 1
    /\ UNCHANGED faults

CallOk == Answered /\ UNCHANGED faults

(* As CallFails, without a new generation. *)
CallFailsSilently ==
    /\ connected' = FALSE /\ socket' = "none"
    /\ UNCHANGED generation
    /\ IF Reachable THEN UseFault ELSE UNCHANGED faults

(* The session is discarded.  A request that found the session lost resets   *)
(* it twice; one without a session counts its connection or the failure of   *)
(* connect() as well.                                                        *)
CallFails ==
    /\ connected' = FALSE /\ socket' = "none"
    /\ generation' = IF connected /\ socket # "lost" THEN generation + 1 ELSE generation + 2
    /\ IF Reachable THEN UseFault ELSE UNCHANGED faults

(* owner.connect() fails before any request. *)
ConnectFails ==
    /\ ~connected
    /\ connected' = FALSE /\ socket' = "none"
    /\ generation' = generation + 1
    /\ UseFault

(* The answer arrives and is unusable: no reset. *)
Garbled == Answered /\ UseFault

----------------------------------------------------------------------------
(* Polling all devices: _poll_devices, _discover_device, _poll_device.      *)

Done == job' = NoJob

(* As NextDevice, one device too far. *)
NextDeviceTooFar ==
    job' = IF job.device > NDevices
           THEN NoJob
           ELSE [NoJob EXCEPT !.kind = "poll", !.device = job.device + 1]

NextDevice ==
    job' = IF job.device = NDevices
           THEN NoJob
           ELSE [NoJob EXCEPT !.kind = "poll", !.device = job.device + 1]

ReadModels(n) ==
    IF n = 0 THEN NextDevice ELSE job' = [job EXCEPT !.pc = "read", !.index = 1, !.count = n]

(* As StartPoll, for a refresh that was queued before closing began. *)
StartPollLate ==
    /\ job.kind = "none"
    /\ job' = [NoJob EXCEPT !.kind = "poll"]
    /\ delivery' = None
    /\ UNCHANGED <<endpoint, topology, lifecycle, now, device, faults>>

StartPoll ==
    /\ job.kind = "none" /\ ~closing
    /\ job' = [NoJob EXCEPT !.kind = "poll"]
    /\ delivery' = None
    /\ UNCHANGED <<endpoint, topology, lifecycle, now, device, faults>>

(* As PollLive, with whatever discovery is cached. *)
PollCached ==
    /\ job.kind = "poll" /\ job.pc = "device" /\ discovered[job.device] # None
    /\ \E n \in 0..MaxModels : ReadModels(n)
    /\ delivery' = None
    /\ UNCHANGED <<endpoint, topology, lifecycle, now, device, faults>>

(* A device with live models is read as it is, only the models that are due. *)
PollLive ==
    /\ job.kind = "poll" /\ job.pc = "device" /\ Live(job.device)
    /\ \E n \in 0..MaxModels : ReadModels(n)
    /\ delivery' = None
    /\ UNCHANGED <<endpoint, topology, lifecycle, now, device, faults>>

DiscoverOk(d) ==
    /\ CallOk
    /\ discovered' = [discovered EXCEPT ![d] = layout[d]]
    /\ live_gen' = [live_gen EXCEPT ![d] = generation']
    /\ deadline' = [deadline EXCEPT ![d] = now + MaxAge]
    /\ \E n \in 0..MaxModels : ReadModels(n)

DiscoverFails(d) ==
    /\ ConnectFails \/ CallFails \/ Garbled
    /\ discovered' = [discovered EXCEPT ![d] = None]
    /\ UNCHANGED <<live_gen, deadline>>
    /\ NextDevice

(* _discover_device; its reads are one step, since a session that breaks     *)
(* under one of them fails it as a whole.                                    *)
PollDiscover ==
    /\ job.kind = "poll" /\ job.pc = "device" /\ ~Live(job.device)
    /\ revision' = [revision EXCEPT ![job.device] = revision[job.device] + 1]
    /\ DiscoverOk(job.device) \/ DiscoverFails(job.device)
    /\ delivery' = None
    /\ UNCHANGED <<lifecycle, now, device>>

(* A model that cannot be read or decoded does not stop the others; the     *)
(* device is rediscovered at the next poll.                                 *)
PollRead ==
    /\ job.kind = "poll" /\ job.pc = "read"
    /\ \E ok \in BOOLEAN :
        /\ IF ok THEN CallOk ELSE CallFails \/ Garbled
        /\ LET failed == job.failed \/ ~ok
           IN  IF job.index < job.count
               THEN /\ job' = [job EXCEPT !.index = job.index + 1, !.failed = failed]
                    /\ UNCHANGED discovered
               ELSE /\ discovered' = IF failed THEN [discovered EXCEPT ![job.device] = None]
                                               ELSE discovered
                    /\ NextDevice
    /\ delivery' = None
    /\ UNCHANGED <<live_gen, revision, deadline, lifecycle, now, device>>

----------------------------------------------------------------------------
(* Write sequences: _sequence_once; a single verified write (_write_once) is *)
(* a sequence of one step without safety prefix.  Every guarded call checks   *)
(* the authority before and after; the check after a call is the first one of *)
(* the step that follows.                                                     *)

StartWrite(d, steps, prefix) ==
    /\ job.kind = "none" /\ ~closing
    /\ Live(d)
    /\ job' = [NoJob EXCEPT !.kind = "write", !.device = d, !.pc = "prepare",
                            !.count = steps, !.prefix = prefix,
                            !.authority = Authority(d)]
    /\ delivery' = None
    /\ UNCHANGED <<endpoint, topology, lifecycle, now, device, faults>>

Writing(pc) == job.kind = "write" /\ job.pc = pc

AuthorityLost ==
    /\ job.kind = "write" /\ ~Intact
    /\ Done
    /\ delivery' = None
    /\ UNCHANGED <<endpoint, topology, lifecycle, now, device, faults>>

Advance(bad) ==
    job' = IF job.index < job.count
           THEN [job EXCEPT !.index = job.index + 1, !.bad = bad]
           ELSE [job EXCEPT !.pc = "capture", !.index = 1, !.bad = bad]

(* A request that policy, encoder or the values read refuse is deferred      *)
(* behind the safety prefix or ends the sequence; so does a failed read.     *)
Prepare ==
    /\ Writing("prepare") /\ Intact
    /\ \/ CallOk /\ Advance(job.bad)
       \/ /\ CallOk \/ UNCHANGED <<endpoint, faults>>
          /\ IF job.prefix = 0 \/ job.index <= job.prefix
             THEN Done
             ELSE Advance(IF job.bad = 0 THEN job.index ELSE job.bad)
       \/ CallFails /\ Done
    /\ delivery' = None
    /\ UNCHANGED <<topology, lifecycle, now, device>>

(* before_write: reads through the same guard, refuses, or is not given. *)
Capture ==
    /\ Writing("capture")
    /\ \/ UNCHANGED <<endpoint, faults>> /\ (job' = [job EXCEPT !.pc = "write"] \/ Done)
       \/ Intact /\ CallOk /\ (job' = [job EXCEPT !.pc = "write"] \/ Done)
       \/ Intact /\ CallFails /\ Done
    /\ delivery' = None
    /\ UNCHANGED <<topology, lifecycle, now, device>>

(* A write to the address of the discovery that prepared its plan. *)
Planned == <<job.device, job.authority[3]>>

(* A failed call may have reached the device before its answer was lost. *)
Write ==
    /\ Writing("write") /\ job.index # job.bad /\ Intact
    /\ \/ CallOk /\ delivery' = Planned /\ job' = [job EXCEPT !.pc = "verify"]
       \/ /\ CallFails
          /\ delivery' \in IF Reachable THEN {None, Planned} ELSE {None}
          /\ Done
    /\ UNCHANGED <<topology, lifecycle, now, device>>

(* The first step without a plan ends the sequence unwritten. *)
WriteDeferred ==
    /\ Writing("write") /\ job.index = job.bad
    /\ Done
    /\ delivery' = None
    /\ UNCHANGED <<endpoint, topology, lifecycle, now, device, faults>>

Verify ==
    /\ Writing("verify") /\ Intact
    /\ \/ CallOk /\ (Done \/ (job.index < job.count
                               /\ job' = [job EXCEPT !.pc = "write", !.index = job.index + 1]))
       \/ CallFails /\ Done
    /\ delivery' = None
    /\ UNCHANGED <<topology, lifecycle, now, device>>

----------------------------------------------------------------------------
(* Closing: async_close.                                                    *)

BeginClose ==
    /\ ~closing
    /\ closing' = TRUE
    /\ delivery' = None
    /\ UNCHANGED <<endpoint, topology, closed, job, now, device, faults>>

(* As Close, through the gate that closing shuts. *)
CloseRejected ==
    /\ ~closing /\ ~closed /\ job.kind = "none"
    /\ closed' = TRUE
    /\ connected' = FALSE /\ socket' = "none"
    /\ generation' = IF connected THEN generation + 1 ELSE generation
    /\ delivery' = None
    /\ UNCHANGED <<topology, closing, job, now, device, faults>>

Close ==
    /\ closing /\ ~closed /\ job.kind = "none"
    /\ closed' = TRUE
    /\ connected' = FALSE /\ socket' = "none"
    /\ generation' = IF connected THEN generation + 1 ELSE generation
    /\ delivery' = None
    /\ UNCHANGED <<topology, closing, job, now, device, faults>>

----------------------------------------------------------------------------
(* The surroundings.                                                        *)

Tick ==
    /\ now < MaxTime
    /\ now' = now + 1
    /\ delivery' = None
    /\ UNCHANGED <<endpoint, topology, lifecycle, job, device, faults>>

LoseSession ==
    /\ socket = "up" /\ UseFault
    /\ socket' \in {"dead", "lost"}
    /\ delivery' = None
    /\ UNCHANGED <<connected, generation, topology, lifecycle, job, now, device>>

(* A device that moves its registers restarts, and drops its session; behind *)
(* a gateway that keeps the session it moves silently.                       *)
Move(d, l) ==
    /\ d \in Silent \/ socket # "up"
    /\ layout[d] # l
    /\ layout' = [layout EXCEPT ![d] = l]
    /\ moved' = IF d \in Silent THEN [moved EXCEPT ![d] = now] ELSE moved
    /\ delivery' = None
    /\ UNCHANGED <<endpoint, topology, lifecycle, job, now, faults>>

----------------------------------------------------------------------------
PollStep == PollLive \/ PollDiscover \/ PollRead
WriteStep == AuthorityLost \/ Prepare \/ Capture \/ Write \/ WriteDeferred \/ Verify

Next ==
    \/ StartPoll
    \/ PollStep
    \/ \E d \in Devices, steps \in 1..MaxSteps : \E prefix \in 0..steps :
           StartWrite(d, steps, prefix)
    \/ WriteStep
    \/ BeginClose
    \/ Close
    \/ Tick
    \/ LoseSession
    \/ \E d \in Devices, l \in Layouts : Move(d, l)

Spec == Init /\ [][Next]_vars

(* Workers run to their end on the executor; a refresh that waits for the    *)
(* FIFO I/O lock gets it in the end, whatever else takes it in between.      *)
FairSpec == Spec /\ WF_vars(PollStep \/ WriteStep \/ Close) /\ SF_vars(StartPoll)

=============================================================================
