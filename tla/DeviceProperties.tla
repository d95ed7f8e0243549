-------------------------- MODULE DeviceProperties --------------------------
(* What must hold of the registers of a device, whatever they contain. *)
EXTENDS DeviceRegisters

\* A write that was reported as verified is what the next poll publishes, no
\* other register has changed, and the value is one both the register and the
\* policy allow: entity range, policy, encoding, words, read-back and decoding
\* of the whole model agree with one another (number.py, write_policy.py,
\* codec.py, register_writer.py, model_decoder.py).  A policy's bounds are for
\* numbers: those given for a register with documented options are accepted and
\* ignored (validate_policy_value returns before it looks at them).
VerifiedWriteIsPolled ==
    request # None /\ request.kind = "write" /\ request.done /\ Decoded(1) # None =>
        LET model == ModelDefinitions[models[1].id]
            register == model.registers[request.name]
            policy == request.policy
            before == DecodeModel(model, request.before).fixed
        IN /\ Decoded(1).fixed = [before EXCEPT ![request.name] = request.value]
           /\ InRange(register, request.value)
           /\ Known(register, request.value)
           /\ register.options = None =>
                /\ policy.lo # None => policy.lo <= request.value
                /\ policy.hi # None => request.value <= policy.hi
           /\ policy.values # None => request.value \in policy.values
           /\ policy.bits # None => Masks(request.value) \subseteq policy.bits

\* Power in one direction may lie from minus the other boundary to its own.
Most(window, d) == IF d = "charge" THEN window.InWRte ELSE window.OutWRte
Least(window, d) == -Most(window, Opposite(d))

\* Rates are multiples of the reference, watts are not.
AtLeast(rate, watts) == rate * Reference >= Numerator(watts)
AtMost(rate, watts) == rate * Reference <= Numerator(watts)

\* storage_control.power_window: a window never allows less than a minimum or
\* more than a maximum the user set, whatever the rounding of the rates does;
\* it can be written, is recognised as the integration's own afterwards, and
\* is accepted again from storage.  One is refused only when no rate the
\* register can express lies between the minimum and the maximum of a direction.
WindowHonoursSettings ==
    request # None /\ request.kind = "window" =>
        LET window == request.window
            settings == request.settings
            resolution == Scale("int16", RateFactor)
        IN IF window # None
           THEN /\ \A d \in Directions :
                    /\ Least(window, d) <= Most(window, d)
                    /\ settings.minimum[d] > 0 => AtLeast(Least(window, d), settings.minimum[d])
                    /\ settings.minimum[Opposite(d)] = 0 => AtMost(Most(window, d), settings.maximum[d])
                /\ \A name \in {"InWRte", "OutWRte"} :
                    Prepare(name, window[name], Storage124.registers, device[1]) # None
                /\ Classify(window, window) = "manual_hlc"
                /\ LoadsTarget(window) /\ LoadsProfile(settings)
           ELSE ValidPowerSettings(settings, Reference) /\ ValidResolution(resolution) =>
                \E d \in Directions : \A raw \in 0 .. Full \div resolution :
                    ~(AtLeast(raw * resolution, settings.minimum[d])
                        /\ AtMost(raw * resolution, settings.maximum[d]))

\* Every reserve and every permission that can be captured before remote
\* control can be written back when it ends, under the policy the integration
\* installs (storage_control.py capture and _release_locked,
\* write_policy.default.yaml): otherwise the cleanup of the lease could never
\* complete.
SnapshotIsRestorable ==
    Len(device) = 1 /\ models[1].id = 124 =>
        \A name \in {"MinRsvPct", "ChaGriSet"} :
            LET value == ReadRegister(name, Storage124.registers, device[1]) IN
            ValidPolicySetting(name, value) =>
                /\ PolicyAccepts(LoadPolicies(DefaultPolicyFile)[<<124, name>>],
                                 Storage124.registers[name], value)
                /\ Prepare(name, value, Storage124.registers, device[1]) # None

\* A restart restores what was saved of every model that is known, with the
\* same modules, so that no entity appears or disappears; a damaged record is
\* dropped, and takes no other record with it (topology.py).  The first poll
\* after that repairs the topology, and models that give it no data lose
\* nothing (coordinator.py _poll_devices).
TopologySurvives ==
    LET complete(i) == Record(models[i], Decoded(i))
        good == {i \in DOMAIN models : i # damaged /\ models[i].id # 0}
    IN /\ restored # None => restored = [i \in good |-> complete(i)]
       /\ missing # None => \A i \in DOMAIN models :
            i \in good \/ i \notin missing => kept[i] = complete(i)
=============================================================================
