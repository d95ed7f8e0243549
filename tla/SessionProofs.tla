--------------------------- MODULE SessionProofs ----------------------------
(* The safety properties of SessionProperties hold for every number of        *)
(* devices, every set of layouts and every bound.                             *)
EXTENDS SessionProperties, TLAPS

(* The endpoint has a session exactly when it believes it is connected. *)
SessionIsKnown == connected <=> socket # "none"

(* Generations only grow, so a discovery never becomes live again. *)
LiveGenerationsAreOld == \A d \in Devices : live_gen[d] <= generation

(* A discovery of the current generation belongs to the current session, and *)
(* is still right unless the device has moved since, behind that session.     *)
DiscoveryIsCurrent ==
    \A d \in Devices :
        discovered[d] # None /\ live_gen[d] = generation =>
            /\ connected
            /\ socket = "up" =>
                 discovered[d] = layout[d] \/ (d \in Silent /\ deadline[d] <= moved[d] + MaxAge)

DeadlineIsNear == \A d \in Devices : deadline[d] <= now + MaxAge

DeliveryIsDue ==
    delivery # None =>
        \/ delivery[2] = layout[delivery[1]]
        \/ delivery[1] \in Silent /\ now < moved[delivery[1]] + MaxAge

ClosedIsClosing == closed => closing /\ job.kind = "none" /\ ~connected

IndInv ==
    /\ TypeOK
    /\ SessionIsKnown
    /\ LiveGenerationsAreOld
    /\ DiscoveryIsCurrent
    /\ DeadlineIsNear
    /\ DeliveryIsDue
    /\ ClosedIsClosing

(***************************************************************************)
(* Calls.                                                                   *)
(***************************************************************************)

EndpointType ==
    /\ connected \in BOOLEAN /\ socket \in Sockets /\ generation \in Nat /\ faults \in Nat
    /\ SessionIsKnown

(* What every call leaves: either the session as it was or a new generation. *)
SessionKept ==
    /\ EndpointType'
    /\ generation' >= generation
    /\ generation' = generation => connected' = connected /\ socket' = socket

LEMMA CallKeeps ==
    ASSUME EndpointType,
           CallOk \/ CallFails \/ ConnectFails \/ Garbled \/ UNCHANGED <<endpoint, faults>>
    PROVE  SessionKept
<1>1. ASSUME UseFault  PROVE faults' \in Nat
  BY <1>1 DEF UseFault, EndpointType
<1>2. ASSUME Answered, faults' \in Nat  PROVE SessionKept
  <2>1. /\ generation' \in Nat /\ generation' >= generation
        /\ ~connected => generation' # generation
    BY <1>2 DEF Answered, EndpointType
  <2>2. socket' \in Sockets /\ connected' \in BOOLEAN /\ SessionIsKnown'
    BY <1>2 DEF Answered, Sockets, SessionIsKnown
  <2>3. connected => connected' = connected /\ socket' = socket
    BY <1>2, Zenon DEF Answered, Reachable, EndpointType
  <2>4. EndpointType'
    BY <1>2, <2>1, <2>2 DEF EndpointType
  <2>. QED  BY <2>1, <2>3, <2>4 DEF SessionKept
<1>3. CASE CallOk \/ Garbled
  BY <1>1, <1>2, <1>3 DEF CallOk, Garbled, EndpointType
<1>4. ASSUME generation' \in Nat, generation' > generation, faults' \in Nat,
             connected' = FALSE, socket' = "none"
      PROVE  SessionKept
  <2>1. socket' \in Sockets /\ connected' \in BOOLEAN /\ SessionIsKnown'
    BY <1>4 DEF Sockets, SessionIsKnown
  <2>2. EndpointType'
    BY <1>4, <2>1 DEF EndpointType
  <2>3. generation' >= generation /\ generation' # generation
    BY <1>4 DEF EndpointType
  <2>. QED  BY <2>2, <2>3 DEF SessionKept
<1>5. CASE CallFails
  <2>1. faults' \in Nat
    BY <1>1, <1>5 DEF CallFails, EndpointType
  <2>2. generation' \in Nat /\ generation' > generation
    BY <1>5 DEF CallFails, EndpointType
  <2>. QED  BY <1>4, <1>5, <2>1, <2>2 DEF CallFails
<1>6. CASE ConnectFails
  <2>1. generation' \in Nat /\ generation' > generation
    BY <1>6 DEF ConnectFails, EndpointType
  <2>. QED  BY <1>1, <1>4, <1>6, <2>1 DEF ConnectFails
<1>7. CASE UNCHANGED <<endpoint, faults>>
  <2>1. EndpointType'
    BY <1>7, Zenon DEF EndpointType, SessionIsKnown, Sockets, endpoint
  <2>2. generation' >= generation
    BY <1>7 DEF EndpointType, endpoint
  <2>3. connected' = connected /\ socket' = socket
    BY <1>7 DEF endpoint
  <2>. QED  BY <2>1, <2>2, <2>3 DEF SessionKept
<1>. QED  BY <1>3, <1>5, <1>6, <1>7

(* A call, with whatever it does to discoveries that are not renewed. *)
LEMMA CallPreserves ==
    ASSUME IndInv, SessionKept, ~closed,
           discovered' \in [Devices -> Layouts \cup {None}],
           \A d \in Devices : discovered'[d] \in {discovered[d], None},
           revision' \in [Devices -> Nat], job' \in Jobs, job'.device \in Devices,
           UNCHANGED <<live_gen, deadline, lifecycle, now, device>>,
           \/ delivery' = None
           \/ /\ delivery' \in Devices \X Layouts
              /\ \/ delivery'[2] = layout[delivery'[1]]
                 \/ delivery'[1] \in Silent /\ now < moved[delivery'[1]] + MaxAge
    PROVE  IndInv'
<1>1. TypeOK'
  BY DEF IndInv, TypeOK, SessionKept, EndpointType, lifecycle, device
<1>2. SessionIsKnown'
  BY DEF SessionKept, EndpointType
<1>3. LiveGenerationsAreOld'
  BY DEF IndInv, TypeOK, LiveGenerationsAreOld, SessionKept, EndpointType
<1>4. DiscoveryIsCurrent'
  <2>. SUFFICES ASSUME NEW d \in Devices, discovered'[d] # None, live_gen'[d] = generation'
                PROVE  /\ connected'
                       /\ socket' = "up" => \/ discovered'[d] = layout'[d]
                                            \/ d \in Silent /\ deadline'[d] <= moved'[d] + MaxAge
    BY DEF DiscoveryIsCurrent
  <2>1. live_gen[d] \in Nat /\ generation \in Nat /\ generation' \in Nat
        /\ live_gen[d] <= generation /\ generation <= generation'
        /\ live_gen[d] = generation'
    BY DEF IndInv, TypeOK, LiveGenerationsAreOld, SessionKept, EndpointType
  <2>2. generation' = generation /\ live_gen[d] = generation
    BY <2>1
  <2>3. discovered'[d] = discovered[d] /\ discovered[d] # None
    OBVIOUS
  <2>4. connected' = connected /\ socket' = socket
    BY <2>2 DEF SessionKept
  <2>. QED  BY <2>2, <2>3, <2>4 DEF IndInv, DiscoveryIsCurrent, device
<1>5. DeadlineIsNear' /\ ClosedIsClosing'
  BY DEF IndInv, DeadlineIsNear, ClosedIsClosing, lifecycle
<1>6. DeliveryIsDue'
  BY DEF DeliveryIsDue, device
<1>. QED  BY <1>1, <1>2, <1>3, <1>4, <1>5, <1>6 DEF IndInv

(***************************************************************************)
(* Jobs.                                                                    *)
(***************************************************************************)
LEMMA NoJobType == NoJob \in Jobs /\ NoJob.device \in Devices /\ NoJob.kind = "none"
BY ConstantAssumption DEF NoJob, Jobs, NoAuthority, Authorities, Devices

LEMMA NextDeviceType ==
    ASSUME job \in Jobs, job.device \in Devices, NextDevice
    PROVE  job' \in Jobs /\ job'.device \in Devices
<1>1. CASE job.device = NDevices
  BY <1>1, NoJobType DEF NextDevice
<1>2. CASE job.device # NDevices
  <2>1. job.device + 1 \in Devices /\ job.device + 1 \in Nat
    BY <1>2, ConstantAssumption DEF Devices
  <2>2. job' = [NoJob EXCEPT !.kind = "poll", !.device = job.device + 1]
    BY <1>2 DEF NextDevice
  <2>. QED  BY <2>1, <2>2, NoJobType DEF Jobs
<1>. QED  BY <1>1, <1>2

LEMMA ReadModelsType ==
    ASSUME job \in Jobs, job.device \in Devices, NEW n \in 0..MaxModels, ReadModels(n)
    PROVE  job' \in Jobs /\ job'.device \in Devices
<1>1. CASE n = 0
  BY <1>1, NextDeviceType DEF ReadModels
<1>2. CASE n # 0
  <2>1. n \in Nat /\ 1 \in Nat
    BY ConstantAssumption
  <2>2. job' = [job EXCEPT !.pc = "read", !.index = 1, !.count = n]
    BY <1>2 DEF ReadModels
  <2>. QED  BY <2>1, <2>2 DEF Jobs
<1>. QED  BY <1>1, <1>2

LEMMA ReadOnType ==
    ASSUME job \in Jobs, NEW f \in BOOLEAN
    PROVE  LET next == [job EXCEPT !.index = job.index + 1, !.failed = f]
           IN  next \in Jobs /\ next.device = job.device
<1>1. job.index + 1 \in Nat
  BY DEF Jobs
<1>. QED  BY <1>1 DEF Jobs

LEMMA AdvanceType ==
    ASSUME job \in Jobs, job.device \in Devices, NEW bad \in Nat, Advance(bad)
    PROVE  job' \in Jobs /\ job'.device \in Devices
<1>1. job.index + 1 \in Nat /\ 1 \in Nat
  BY DEF Jobs
<1>2. [job EXCEPT !.index = job.index + 1, !.bad = bad] \in Jobs
  BY <1>1 DEF Jobs
<1>3. [job EXCEPT !.pc = "capture", !.index = 1, !.bad = bad] \in Jobs
  BY <1>1 DEF Jobs
<1>. QED  BY <1>1, <1>2, <1>3 DEF Advance, Jobs

LEMMA StepType ==
    ASSUME job \in Jobs, job.device \in Devices,
           \/ job' = [job EXCEPT !.pc = "write"]
           \/ job' = [job EXCEPT !.pc = "verify"]
           \/ job' = [job EXCEPT !.pc = "write", !.index = job.index + 1]
    PROVE  job' \in Jobs /\ job'.device \in Devices
<1>1. job.index + 1 \in Nat
  BY DEF Jobs
<1>. QED  BY <1>1 DEF Jobs

LEMMA JobIsOpen ==
    ASSUME IndInv, job.kind # "none" \/ ~closing
    PROVE  ~closed
BY DEF IndInv, ClosedIsClosing

(***************************************************************************)
(* One lemma per action.                                                    *)
(***************************************************************************)
LEMMA IndInvType ==
    ASSUME IndInv
    PROVE  /\ EndpointType /\ job \in Jobs /\ job.device \in Devices
           /\ discovered \in [Devices -> Layouts \cup {None}]
           /\ revision \in [Devices -> Nat]
BY DEF IndInv, TypeOK, EndpointType

LEMMA StartPollPreserves ==
    ASSUME IndInv, StartPoll
    PROVE  IndInv'
<1>1. job' \in Jobs /\ job'.device \in Devices
  <2>1. [NoJob EXCEPT !.kind = "poll"] \in Jobs
        /\ [NoJob EXCEPT !.kind = "poll"].device = NoJob.device
    BY NoJobType DEF Jobs
  <2>. QED  BY <2>1, NoJobType DEF StartPoll
<1>2. SessionKept /\ ~closed
  BY IndInvType, CallKeeps, JobIsOpen DEF StartPoll
<1>. QED  BY <1>1, <1>2, IndInvType, CallPreserves DEF StartPoll, topology

LEMMA PollLivePreserves ==
    ASSUME IndInv, PollLive
    PROVE  IndInv'
<1>1. job' \in Jobs /\ job'.device \in Devices
  BY IndInvType, ReadModelsType DEF PollLive
<1>2. SessionKept /\ ~closed
  BY IndInvType, CallKeeps, JobIsOpen DEF PollLive
<1>. QED  BY <1>1, <1>2, IndInvType, CallPreserves DEF PollLive, topology

LEMMA PollReadPreserves ==
    ASSUME IndInv, PollRead
    PROVE  IndInv'
<1>1. SessionKept /\ ~closed
  BY IndInvType, CallKeeps, JobIsOpen DEF PollRead
<1>2. PICK ok \in BOOLEAN :
        LET failed == job.failed \/ ~ok
        IN  IF job.index < job.count
            THEN /\ job' = [job EXCEPT !.index = job.index + 1, !.failed = failed]
                 /\ UNCHANGED discovered
            ELSE /\ discovered' = IF failed THEN [discovered EXCEPT ![job.device] = None]
                                            ELSE discovered
                 /\ NextDevice
  BY DEF PollRead
<1>3. (job.failed \/ ~ok) \in BOOLEAN
  OBVIOUS
<1>4. job' \in Jobs /\ job'.device \in Devices
  <2>1. CASE job.index < job.count
    BY <1>2, <1>3, <2>1, IndInvType, ReadOnType
  <2>2. CASE ~(job.index < job.count)
    BY <1>2, <2>2, IndInvType, NextDeviceType
  <2>. QED  BY <2>1, <2>2
<1>5. /\ discovered' \in [Devices -> Layouts \cup {None}]
      /\ \A d \in Devices : discovered'[d] \in {discovered[d], None}
  BY <1>2, IndInvType
<1>. QED  BY <1>1, <1>4, <1>5, IndInvType, CallPreserves DEF PollRead

LEMMA PollDiscoverPreserves ==
    ASSUME IndInv, PollDiscover
    PROVE  IndInv'
<1>. SUFFICES ASSUME NEW d \in Devices, d = job.device
              PROVE  IndInv'
  BY IndInvType
<1>1. ~closed /\ delivery' = None /\ UNCHANGED <<lifecycle, now, device>>
  BY IndInvType, JobIsOpen DEF PollDiscover
<1>2. revision' \in [Devices -> Nat]
  BY IndInvType DEF PollDiscover
<1>3. CASE DiscoverFails(d)
  <2>1. SessionKept
    BY <1>3, IndInvType, CallKeeps DEF DiscoverFails
  <2>2. job' \in Jobs /\ job'.device \in Devices
    BY <1>3, IndInvType, NextDeviceType DEF DiscoverFails
  <2>3. /\ discovered' \in [Devices -> Layouts \cup {None}]
        /\ \A x \in Devices : discovered'[x] \in {discovered[x], None}
        /\ UNCHANGED <<live_gen, deadline>>
    BY <1>3, IndInvType DEF DiscoverFails
  <2>. QED  BY <1>1, <1>2, <2>1, <2>2, <2>3, CallPreserves
<1>4. CASE DiscoverOk(d)
  <2>1. SessionKept
    BY <1>4, IndInvType, CallKeeps DEF DiscoverOk
  <2>2. job' \in Jobs /\ job'.device \in Devices
    BY <1>4, IndInvType, ReadModelsType DEF DiscoverOk
  <2>3. /\ generation \in Nat /\ generation' \in Nat /\ generation <= generation'
        /\ live_gen \in [Devices -> Nat] /\ deadline \in [Devices -> Nat]
        /\ now \in Nat /\ MaxAge \in Nat /\ now + MaxAge \in Nat
        /\ layout \in [Devices -> Layouts] /\ discovered \in [Devices -> Layouts \cup {None}]
    BY <2>1, ConstantAssumption DEF IndInv, TypeOK, SessionKept, EndpointType
  <2>4. /\ discovered' = [discovered EXCEPT ![d] = layout[d]]
        /\ live_gen' = [live_gen EXCEPT ![d] = generation']
        /\ deadline' = [deadline EXCEPT ![d] = now + MaxAge]
    BY <1>4 DEF DiscoverOk
  <2>5. TypeOK'
    BY <1>1, <1>2, <2>1, <2>2, <2>3, <2>4
       DEF IndInv, TypeOK, SessionKept, EndpointType, lifecycle, device
  <2>6. SessionIsKnown' /\ DeliveryIsDue'
    BY <1>1, <2>1 DEF SessionKept, EndpointType, DeliveryIsDue
  <2>7. LiveGenerationsAreOld'
    <3>1. \A x \in Devices : live_gen[x] <= generation
      BY DEF IndInv, LiveGenerationsAreOld
    <3>. QED  BY <2>3, <2>4, <3>1 DEF LiveGenerationsAreOld
  <2>8. connected' = TRUE
    BY <1>4, Zenon DEF DiscoverOk, CallOk, Answered
  <2>9. DiscoveryIsCurrent'
    <3>. SUFFICES ASSUME NEW x \in Devices, discovered'[x] # None, live_gen'[x] = generation'
                  PROVE  socket' = "up" => \/ discovered'[x] = layout'[x]
                                           \/ x \in Silent /\ deadline'[x] <= moved'[x] + MaxAge
      BY <2>8 DEF DiscoveryIsCurrent
    <3>1. CASE x = d
      BY <1>1, <2>3, <2>4, <3>1 DEF device
    <3>2. CASE x # d
      <4>1. /\ discovered'[x] = discovered[x] /\ live_gen'[x] = live_gen[x]
            /\ deadline'[x] = deadline[x]
        BY <2>3, <2>4, <3>2
      <4>2. live_gen[x] <= generation /\ live_gen[x] \in Nat
        BY <2>3 DEF IndInv, LiveGenerationsAreOld
      <4>3. generation' = generation /\ live_gen[x] = generation
        BY <2>3, <4>1, <4>2
      <4>4. socket' = socket
        BY <2>1, <4>3 DEF SessionKept
      <4>. QED  BY <1>1, <4>1, <4>3, <4>4 DEF IndInv, DiscoveryIsCurrent, device
    <3>. QED  BY <3>1, <3>2
  <2>10. DeadlineIsNear'
    <3>1. \A x \in Devices : deadline[x] <= now + MaxAge
      BY DEF IndInv, DeadlineIsNear
    <3>2. now' = now
      BY <1>1
    <3>. QED  BY <2>3, <2>4, <3>1, <3>2 DEF DeadlineIsNear
  <2>11. ClosedIsClosing'
    BY <1>1 DEF ClosedIsClosing, lifecycle
  <2>. QED  BY <2>5, <2>6, <2>7, <2>9, <2>10, <2>11 DEF IndInv
<1>. QED  BY <1>3, <1>4 DEF PollDiscover

LEMMA StartWritePreserves ==
    ASSUME IndInv, NEW d \in Devices, NEW steps \in 1..MaxSteps, NEW prefix \in 0..steps,
           StartWrite(d, steps, prefix)
    PROVE  IndInv'
<1>1. job' \in Jobs /\ job'.device \in Devices
  <2>1. Authority(d) \in Authorities
    BY DEF Authority, Authorities, IndInv, TypeOK
  <2>2. d \in Nat /\ steps \in Nat /\ prefix \in Nat
    BY ConstantAssumption DEF Devices
  <2>3. ASSUME NEW a \in Authorities
        PROVE  LET next == [NoJob EXCEPT !.kind = "write", !.device = d, !.pc = "prepare",
                                         !.count = steps, !.prefix = prefix,
                                         !.authority = a]
               IN  next \in Jobs /\ next.device = d
    BY <2>2, NoJobType DEF Jobs
  <2>. QED  BY <2>1, <2>3 DEF StartWrite
<1>2. SessionKept /\ ~closed
  BY IndInvType, CallKeeps, JobIsOpen DEF StartWrite
<1>. QED  BY <1>1, <1>2, IndInvType, CallPreserves DEF StartWrite, topology

LEMMA AuthorityLostPreserves ==
    ASSUME IndInv, AuthorityLost
    PROVE  IndInv'
<1>1. SessionKept /\ ~closed
  BY IndInvType, CallKeeps, JobIsOpen DEF AuthorityLost
<1>. QED  BY <1>1, NoJobType, IndInvType, CallPreserves DEF AuthorityLost, Done, topology

LEMMA PreparePreserves ==
    ASSUME IndInv, Prepare
    PROVE  IndInv'
<1>1. SessionKept /\ ~closed
  BY IndInvType, CallKeeps, JobIsOpen DEF Prepare, Writing
<1>2. job.bad \in Nat /\ job.index \in Nat
  BY IndInvType DEF Jobs
<1>3. CASE Done
  BY <1>1, <1>3, NoJobType, IndInvType, CallPreserves DEF Prepare, Done, topology
<1>4. CASE \E bad \in Nat : Advance(bad)
  BY <1>1, <1>4, AdvanceType, IndInvType, CallPreserves DEF Prepare, topology
<1>. QED  BY <1>2, <1>3, <1>4 DEF Prepare

LEMMA CapturePreserves ==
    ASSUME IndInv, Capture
    PROVE  IndInv'
<1>1. SessionKept /\ ~closed
  BY IndInvType, CallKeeps, JobIsOpen DEF Capture, Writing
<1>2. job' = [job EXCEPT !.pc = "write"] \/ Done
  BY DEF Capture
<1>3. job' \in Jobs /\ job'.device \in Devices
  BY <1>2, IndInvType, StepType, NoJobType DEF Done
<1>. QED  BY <1>1, <1>3, IndInvType, CallPreserves DEF Capture, topology

(* The authority is intact, so the planned address is the discovered one, and *)
(* a session in which a call can reach the device is the one that found it.   *)
LEMMA WritePreserves ==
    ASSUME IndInv, Write
    PROVE  IndInv'
<1>1. SessionKept /\ ~closed
  BY IndInvType, CallKeeps, JobIsOpen DEF Write, Writing
<1>2. job' = [job EXCEPT !.pc = "verify"] \/ Done
  BY DEF Write
<1>3. job' \in Jobs /\ job'.device \in Devices
  BY <1>2, IndInvType, StepType, NoJobType DEF Done
<1>4. delivery' = None \/ (Reachable /\ delivery' = Planned)
  <2>1. CASE CallOk /\ delivery' = Planned
    BY <2>1 DEF CallOk, Answered
  <2>2. CASE delivery' \in IF Reachable THEN {None, Planned} ELSE {None}
    BY <2>2
  <2>. QED  BY <2>1, <2>2 DEF Write
<1>5. ASSUME Reachable, delivery' = Planned
      PROVE  /\ delivery' \in Devices \X Layouts
             /\ \/ delivery'[2] = layout[delivery'[1]]
                \/ delivery'[1] \in Silent /\ now < moved[delivery'[1]] + MaxAge
  <2>. SUFFICES ASSUME NEW d \in Devices, d = job.device
                PROVE  /\ delivery' \in Devices \X Layouts
                       /\ \/ delivery'[2] = layout[delivery'[1]]
                          \/ delivery'[1] \in Silent /\ now < moved[delivery'[1]] + MaxAge
    BY IndInvType
  <2>1. Live(d) /\ Authority(d) = job.authority
    BY DEF Write, Intact
  <2>2. discovered[d] # None /\ live_gen[d] = generation /\ now < deadline[d]
    BY <2>1 DEF Live
  <2>3. job.authority[3] = discovered[d]
    BY <2>1 DEF Authority
  <2>4. delivery' = <<d, discovered[d]>>
    BY <1>5, <2>3 DEF Planned
  <2>5. discovered[d] \in Layouts
    BY <2>2, IndInvType
  <2>6. connected /\ socket = "up"
    BY <1>5, <2>2 DEF IndInv, DiscoveryIsCurrent, Reachable
  <2>7. discovered[d] = layout[d] \/ (d \in Silent /\ deadline[d] <= moved[d] + MaxAge)
    BY <2>2, <2>6 DEF IndInv, DiscoveryIsCurrent
  <2>8. /\ now \in Nat /\ deadline[d] \in Nat /\ moved[d] \in Nat /\ MaxAge \in Nat
        /\ moved[d] + MaxAge \in Nat
    BY ConstantAssumption DEF IndInv, TypeOK
  <2>9. deadline[d] <= moved[d] + MaxAge => now < moved[d] + MaxAge
    BY <2>2, <2>8
  <2>10. delivery'[1] = d /\ delivery'[2] = discovered[d]
    BY <2>4
  <2>. QED  BY <2>4, <2>5, <2>7, <2>9, <2>10
<1>. QED  BY <1>1, <1>3, <1>4, <1>5, IndInvType, CallPreserves DEF Write, topology

LEMMA WriteDeferredPreserves ==
    ASSUME IndInv, WriteDeferred
    PROVE  IndInv'
<1>1. SessionKept /\ ~closed
  BY IndInvType, CallKeeps, JobIsOpen DEF WriteDeferred, Writing
<1>. QED  BY <1>1, NoJobType, IndInvType, CallPreserves DEF WriteDeferred, Done, topology

LEMMA VerifyPreserves ==
    ASSUME IndInv, Verify
    PROVE  IndInv'
<1>1. SessionKept /\ ~closed
  BY IndInvType, CallKeeps, JobIsOpen DEF Verify, Writing
<1>2. job' = [job EXCEPT !.pc = "write", !.index = job.index + 1] \/ Done
  BY DEF Verify
<1>3. job' \in Jobs /\ job'.device \in Devices
  BY <1>2, IndInvType, StepType, NoJobType DEF Done
<1>. QED  BY <1>1, <1>3, IndInvType, CallPreserves DEF Verify, topology

LEMMA BeginClosePreserves ==
    ASSUME IndInv, BeginClose
    PROVE  IndInv'
<1>1. TypeOK'
  BY DEF IndInv, TypeOK, BeginClose, endpoint, topology, device
<1>2. SessionIsKnown' /\ LiveGenerationsAreOld' /\ DiscoveryIsCurrent' /\ DeadlineIsNear'
  BY DEF IndInv, SessionIsKnown, LiveGenerationsAreOld, DiscoveryIsCurrent, DeadlineIsNear,
         BeginClose, endpoint, topology, device
<1>3. DeliveryIsDue' /\ ClosedIsClosing'
  BY DEF IndInv, DeliveryIsDue, ClosedIsClosing, BeginClose, endpoint
<1>. QED  BY <1>1, <1>2, <1>3 DEF IndInv

LEMMA ClosePreserves ==
    ASSUME IndInv, Close
    PROVE  IndInv'
<1>1. /\ generation \in Nat /\ generation' \in Nat /\ generation <= generation'
      /\ connected => generation < generation'
      /\ live_gen \in [Devices -> Nat]
  BY DEF IndInv, TypeOK, Close
<1>2. /\ connected' = FALSE /\ socket' = "none" /\ UNCHANGED <<topology, job, now, device>>
      /\ delivery' = None /\ job.kind = "none" /\ closing /\ closing' = closing
  BY DEF Close
<1>3. TypeOK'
  BY <1>1, <1>2 DEF IndInv, TypeOK, Close, Sockets, topology, device
<1>4. SessionIsKnown' /\ DeliveryIsDue' /\ ClosedIsClosing'
  BY <1>2, Zenon DEF SessionIsKnown, DeliveryIsDue, ClosedIsClosing
<1>5. LiveGenerationsAreOld'
  <2>1. \A x \in Devices : live_gen[x] <= generation
    BY DEF IndInv, LiveGenerationsAreOld
  <2>. QED  BY <1>1, <1>2, <2>1 DEF LiveGenerationsAreOld, topology
<1>6. DiscoveryIsCurrent'
  <2>. SUFFICES ASSUME NEW x \in Devices, discovered[x] # None, live_gen[x] = generation'
                PROVE  FALSE
    BY <1>2 DEF DiscoveryIsCurrent, topology
  <2>1. live_gen[x] <= generation
    BY DEF IndInv, LiveGenerationsAreOld
  <2>2. live_gen[x] = generation /\ ~(generation < generation')
    BY <1>1, <2>1
  <2>. QED  BY <1>1, <2>2 DEF IndInv, DiscoveryIsCurrent
<1>7. DeadlineIsNear'
  BY <1>2 DEF IndInv, DeadlineIsNear, topology
<1>. QED  BY <1>3, <1>4, <1>5, <1>6, <1>7 DEF IndInv

LEMMA TickPreserves ==
    ASSUME IndInv, Tick
    PROVE  IndInv'
<1>1. TypeOK'
  BY DEF IndInv, TypeOK, Tick, endpoint, topology, lifecycle, device
<1>2. SessionIsKnown' /\ LiveGenerationsAreOld' /\ DiscoveryIsCurrent'
  BY DEF IndInv, SessionIsKnown, LiveGenerationsAreOld, DiscoveryIsCurrent,
         Tick, endpoint, topology, device
<1>3. DeadlineIsNear'
  <2>. SUFFICES ASSUME NEW d \in Devices
                PROVE  deadline'[d] <= now' + MaxAge
    BY DEF DeadlineIsNear
  <2>1. now \in Nat /\ deadline[d] \in Nat /\ MaxAge \in Nat /\ deadline[d] <= now + MaxAge
    BY ConstantAssumption DEF IndInv, TypeOK, DeadlineIsNear
  <2>2. now' = now + 1 /\ deadline' = deadline
    BY DEF Tick, topology
  <2>. QED  BY <2>1, <2>2
<1>4. DeliveryIsDue' /\ ClosedIsClosing'
  BY DEF IndInv, DeliveryIsDue, ClosedIsClosing, Tick, endpoint, lifecycle
<1>. QED  BY <1>1, <1>2, <1>3, <1>4 DEF IndInv

LEMMA LoseSessionPreserves ==
    ASSUME IndInv, LoseSession
    PROVE  IndInv'
<1>1. /\ socket = "up" /\ socket' \in {"dead", "lost"} /\ delivery' = None
      /\ UNCHANGED <<connected, generation, topology, lifecycle, job, now, device>>
  BY DEF LoseSession
<1>2. faults' \in Nat
  BY DEF IndInv, TypeOK, LoseSession, UseFault
<1>3. TypeOK'
  BY <1>1, <1>2 DEF IndInv, TypeOK, Sockets, topology, lifecycle, device
<1>4. SessionIsKnown' /\ LiveGenerationsAreOld' /\ DiscoveryIsCurrent' /\ DeadlineIsNear'
  BY <1>1 DEF IndInv, SessionIsKnown, LiveGenerationsAreOld, DiscoveryIsCurrent,
              DeadlineIsNear, topology
<1>5. DeliveryIsDue' /\ ClosedIsClosing'
  BY <1>1 DEF IndInv, DeliveryIsDue, ClosedIsClosing, lifecycle
<1>. QED  BY <1>3, <1>4, <1>5 DEF IndInv

LEMMA MovePreserves ==
    ASSUME IndInv, NEW d \in Devices, NEW l \in Layouts, Move(d, l)
    PROVE  IndInv'
<1>1. /\ UNCHANGED <<endpoint, topology, lifecycle, job, now, faults>>
      /\ delivery' = None /\ layout' = [layout EXCEPT ![d] = l]
      /\ moved' = IF d \in Silent THEN [moved EXCEPT ![d] = now] ELSE moved
      /\ d \in Silent \/ socket # "up"
  BY DEF Move
<1>2. TypeOK'
  BY <1>1 DEF IndInv, TypeOK, endpoint, topology, lifecycle
<1>3. SessionIsKnown' /\ LiveGenerationsAreOld' /\ DeadlineIsNear'
  BY <1>1 DEF IndInv, SessionIsKnown, LiveGenerationsAreOld, DeadlineIsNear,
              endpoint, topology
<1>4. DiscoveryIsCurrent'
  <2>. SUFFICES ASSUME NEW x \in Devices, discovered[x] # None, live_gen[x] = generation
                PROVE  /\ connected
                       /\ socket = "up" => \/ discovered[x] = layout'[x]
                                           \/ x \in Silent /\ deadline[x] <= moved'[x] + MaxAge
    BY <1>1 DEF DiscoveryIsCurrent, endpoint, topology
  <2>1. layout \in [Devices -> Layouts] /\ moved \in [Devices -> Nat]
    BY DEF IndInv, TypeOK
  <2>2. deadline[x] <= now + MaxAge
    BY DEF IndInv, DeadlineIsNear
  <2>3. CASE x = d
    BY <1>1, <2>1, <2>2, <2>3 DEF IndInv, DiscoveryIsCurrent
  <2>4. CASE x # d
    <3>1. layout'[x] = layout[x] /\ moved'[x] = moved[x]
      BY <1>1, <2>1, <2>4
    <3>. QED  BY <3>1 DEF IndInv, DiscoveryIsCurrent
  <2>. QED  BY <2>3, <2>4
<1>5. DeliveryIsDue' /\ ClosedIsClosing'
  BY <1>1 DEF IndInv, DeliveryIsDue, ClosedIsClosing, endpoint, lifecycle
<1>. QED  BY <1>2, <1>3, <1>4, <1>5 DEF IndInv

(***************************************************************************)
(* The invariant and what it implies.                                       *)
(***************************************************************************)
LEMMA InitEstablishes == Init => IndInv
<1>. SUFFICES ASSUME Init
              PROVE  IndInv
  OBVIOUS
<1>1. TypeOK
  BY NoJobType, ConstantAssumption DEF Init, TypeOK, Sockets
<1>2. SessionIsKnown /\ LiveGenerationsAreOld /\ DiscoveryIsCurrent /\ DeadlineIsNear
  BY ConstantAssumption DEF Init, SessionIsKnown, LiveGenerationsAreOld, DiscoveryIsCurrent,
                            DeadlineIsNear
<1>3. DeliveryIsDue /\ ClosedIsClosing
  BY DEF Init, DeliveryIsDue, ClosedIsClosing
<1>. QED  BY <1>1, <1>2, <1>3 DEF IndInv

LEMMA NextPreserves == IndInv /\ [Next]_vars => IndInv'
<1>. SUFFICES ASSUME IndInv, [Next]_vars
              PROVE  IndInv'
  OBVIOUS
<1>1. CASE StartPoll
  BY <1>1, StartPollPreserves
<1>2. CASE PollStep
  BY <1>2, PollLivePreserves, PollDiscoverPreserves, PollReadPreserves DEF PollStep
<1>3. CASE \E d \in Devices, steps \in 1..MaxSteps : \E prefix \in 0..steps :
               StartWrite(d, steps, prefix)
  BY <1>3, StartWritePreserves
<1>4. CASE WriteStep
  BY <1>4, AuthorityLostPreserves, PreparePreserves, CapturePreserves, WritePreserves,
     WriteDeferredPreserves, VerifyPreserves DEF WriteStep
<1>5. CASE BeginClose \/ Close
  BY <1>5, BeginClosePreserves, ClosePreserves
<1>6. CASE Tick \/ LoseSession
  BY <1>6, TickPreserves, LoseSessionPreserves
<1>7. CASE \E d \in Devices, l \in Layouts : Move(d, l)
  BY <1>7, MovePreserves
<1>8. CASE UNCHANGED vars
  <2>1. TypeOK'
    BY <1>8 DEF IndInv, TypeOK, vars, endpoint, topology, lifecycle, device
  <2>2. SessionIsKnown' /\ LiveGenerationsAreOld' /\ DiscoveryIsCurrent' /\ DeadlineIsNear'
    BY <1>8 DEF IndInv, SessionIsKnown, LiveGenerationsAreOld, DiscoveryIsCurrent,
                DeadlineIsNear, vars, endpoint, topology, device
  <2>3. DeliveryIsDue' /\ ClosedIsClosing'
    BY <1>8 DEF IndInv, DeliveryIsDue, ClosedIsClosing, vars, endpoint, lifecycle, device
  <2>. QED  BY <2>1, <2>2, <2>3 DEF IndInv
<1>. QED  BY <1>1, <1>2, <1>3, <1>4, <1>5, <1>6, <1>7, <1>8 DEF Next

(* The endpoint, the discoveries, the worker and the devices keep their types, *)
(* and the invariant above holds in every reachable state.                     *)
THEOREM Invariance == Spec => []IndInv
BY InitEstablishes, NextPreserves, PTL DEF Spec

(* Type correctness of the endpoint, the coordinator's discoveries and the job. *)
THEOREM TypeCorrect == Spec => []TypeOK
<1>1. IndInv => TypeOK
  BY DEF IndInv
<1>. QED  BY <1>1, Invariance, PTL

(* live_models never returns addresses of another session than the present one. *)
THEOREM LiveModelsAreCurrentAlways == Spec => []LiveModelsAreCurrent
<1>1. IndInv => LiveModelsAreCurrent
  BY DEF IndInv, LiveModelsAreCurrent, DiscoveryIsCurrent, Live
<1>. QED  BY <1>1, Invariance, PTL

(* Every register write arrives where its device has the register. *)
THEOREM NoMisdirectedWriteAlways == Spec => []NoMisdirectedWrite
<1>1. IndInv => NoMisdirectedWrite
  BY DEF IndInv, NoMisdirectedWrite, DeliveryIsDue
<1>. QED  BY <1>1, Invariance, PTL

(* Where a device can move unseen, wrong writes end 300 seconds after the move. *)
THEOREM StaleWriteIsBoundedAlways == Spec => []StaleWriteIsBounded
<1>1. ASSUME IndInv  PROVE StaleWriteIsBounded
  <2>. SUFFICES ASSUME delivery # None
                PROVE  \/ delivery[2] = layout[delivery[1]]
                       \/ now - moved[delivery[1]] < MaxAge
    BY DEF StaleWriteIsBounded
  <2>1. \/ delivery[2] = layout[delivery[1]]
        \/ now < moved[delivery[1]] + MaxAge
    BY <1>1 DEF IndInv, DeliveryIsDue
  <2>2. now \in Nat /\ MaxAge \in Nat /\ moved[delivery[1]] \in Nat
    BY <1>1, ConstantAssumption DEF IndInv, TypeOK
  <2>. QED  BY <2>1, <2>2
<1>2. IndInv => StaleWriteIsBounded
  BY <1>1
<1>. QED  BY <1>2, Invariance, PTL

(* A closed endpoint is never connected again and no worker runs on it. *)
THEOREM ClosedForGoodAlways == Spec => []ClosedForGood
<1>1. IndInv => ClosedForGood
  BY DEF IndInv, ClosedForGood, ClosedIsClosing
<1>. QED  BY <1>1, Invariance, PTL

=============================================================================
