---------------------------- MODULE StorageLease ----------------------------
(***************************************************************************)
(* What remote storage control promises, without registers, files, timers  *)
(* or tasks.  A device is free, held by one owner, or being cleaned up on   *)
(* behalf of its former owner.  Two things are promised:                    *)
(*                                                                          *)
(*   - ownership passes from one owner to another only through a completed  *)
(*     cleanup, and a lease whose cleanup has begun is never renewed;       *)
(*   - the power settings stored on disk for a device do not change while   *)
(*     the device is not free.                                              *)
(***************************************************************************)
CONSTANTS
    Devices,
    Owners,
    Saved,      \* what the disk can hold for one device
    None        \* the owner of a free device

VARIABLES
    owner,      \* owner[d]: who holds d, or whose lease is being cleaned up
    phase,      \* phase[d]: "free", "held" or "cleanup"
    saved       \* saved[d]: the power settings the disk holds for d

vars == <<owner, phase, saved>>

Free(d) == phase[d] = "free"

Init ==
    /\ owner = [d \in Devices |-> None]
    /\ phase = [d \in Devices |-> "free"]
    /\ saved \in [Devices -> Saved]

\* The first verified and persisted takeover of a free device.
Grant(d, o) ==
    /\ Free(d)
    /\ owner' = [owner EXCEPT ![d] = o]
    /\ phase' = [phase EXCEPT ![d] = "held"]
    /\ UNCHANGED saved

\* Release or expiry: from here on the lease can only end.
BeginCleanup(d) ==
    /\ phase[d] = "held"
    /\ phase' = [phase EXCEPT ![d] = "cleanup"]
    /\ UNCHANGED <<owner, saved>>

Finish(d) ==
    /\ phase[d] = "cleanup"
    /\ owner' = [owner EXCEPT ![d] = None]
    /\ phase' = [phase EXCEPT ![d] = "free"]
    /\ UNCHANGED saved

\* One document replaces the file, so several free devices may change at once.
Save ==
    /\ saved' \in [Devices -> Saved]
    /\ \A d \in Devices : ~Free(d) => saved'[d] = saved[d]
    /\ UNCHANGED <<owner, phase>>

\* Unloading or a crash: leases are runtime-only.
Discard ==
    /\ owner' = [d \in Devices |-> None]
    /\ phase' = [d \in Devices |-> "free"]
    /\ UNCHANGED saved

Next ==
    \/ \E d \in Devices : \/ \E o \in Owners : Grant(d, o)
                          \/ BeginCleanup(d)
                          \/ Finish(d)
    \/ Save
    \/ Discard

Spec == Init /\ [][Next]_vars
=============================================================================
