------------------------- MODULE SessionProperties --------------------------
(* What the endpoint, the discoveries and the write plans promise together. *)
EXTENDS SessionAuthority

(* A device counts as live only while the endpoint's session is the one that *)
(* validated it: whatever resets, reconnects or rediscovers in between, the   *)
(* model addresses that live_models returns are where the device has them.    *)
(* (live_models, _reset_safely, _discover_device)                             *)
LiveModelsAreCurrent ==
    \A d \in Devices \ Silent :
        Live(d) => /\ connected
                   /\ socket = "up" => discovered[d] = layout[d]

(* No register write ever reaches a device at an address it has left: not     *)
(* after a lost session, a reconnect, a rediscovery or an expiry in the       *)
(* middle of a sequence.  (_AuthorityBoundTransport, _ensure_connected)       *)
NoMisdirectedWrite ==
    delivery # None /\ delivery[1] \notin Silent => delivery[2] = layout[delivery[1]]

(* A device that moves its registers without breaking the session can be      *)
(* written at the old address for less than 300 seconds after the move.       *)
(* (live_models, _discovery_deadlines)                                        *)
StaleWriteIsBounded ==
    delivery # None =>
        \/ delivery[2] = layout[delivery[1]]
        \/ now - moved[delivery[1]] < MaxAge

(* Once the endpoint has been closed, no worker runs and none reconnects.     *)
(* (async_close, async_run_io)                                                *)
ClosedForGood == closed => job.kind = "none" /\ ~connected

(* Whatever failed, the polls make every device live again, all at once, over *)
(* and over.  (_poll_devices, _reset_safely)                                  *)
Recovers == []<>(closing \/ \A d \in Devices : Live(d))

(* A closing entry drains the worker and closes its endpoint.  (async_close)  *)
Closes == closing ~> closed
=============================================================================
