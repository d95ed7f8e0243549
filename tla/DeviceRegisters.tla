-------------------------- MODULE DeviceRegisters --------------------------
(***************************************************************************)
(* One device from its first contact to a verified write: its chain is     *)
(* walked (Discovery), what was found is kept and restored (Topology), its *)
(* registers are decoded by polls and written through the policy of the    *)
(* installation (RegisterMaps, WritePolicies), and watts become rates      *)
(* (PowerWindow).  The module composes those; the order and the failures   *)
(* of the calls are the subject of SessionAuthority and StorageControl.    *)
(*                                                                         *)
(* Bounds: one model of the device is written, so requests are made to     *)
(* devices with a single model; the words of longer chains are Plain.      *)
(***************************************************************************)
EXTENDS Topology, WritePolicies, PowerWindow

CONSTANTS
    Payloads,   \* what the data of a model may be: function from numbers to sets of words
    Plain,      \* data for the models of chains
    Requests,   \* what users ask for: <<model, register, value>>
    Files,      \* write policy files
    Settings    \* power settings in watts

ASSUME RequestsAssumption == \A r \in Requests : r[3] \in Int
ASSUME SettingsAssumption == Settings \subseteq PowerSettings
ASSUME PayloadsAssumption ==
    /\ {h[1] : h \in Headers} \subseteq DOMAIN Payloads
    /\ \A id \in DOMAIN Payloads : \A words \in Payloads[id] : words \in Seq(0 .. Base - 1)

\* What stands in a file where a number belongs.
ASSUME FilesAssumption ==
    \A file \in Files \ {Malformed} : \A coordinate \in DOMAIN file.models :
        LET settings == file.models[coordinate] IN
        settings # Malformed =>
            \A key \in DOMAIN settings \cap {"minimum", "maximum", "step"} :
                settings[key] \in Int \cup {Malformed}

VARIABLES
    device,     \* the words of the models found, in order
    kept,       \* the stored topology, None before the first save
    damaged,    \* the record of it that was damaged, None if none was
    restored,   \* the topology accepted at a restart
    missing,    \* models that gave no data in the first poll after it, None before it
    request     \* the write or the window being worked on, None if none

vars == <<walk, header, models, device, kept, damaged, restored, missing, request>>

Init ==
    /\ WalkInit
    /\ device = <<>>
    /\ kept = None
    /\ damaged = None
    /\ restored = None
    /\ missing = None
    /\ request = None

-----------------------------------------------------------------------------
(* Discovery, and the first poll.                                          *)

Discover ==
    /\ Walk
    /\ UNCHANGED <<device, kept, damaged, restored, missing, request>>

\* The device has some data for every model.
Poll ==
    /\ walk = "found" /\ device = <<>> /\ models # <<>>
    /\ \E words \in [DOMAIN models -> UNION {Payloads[models[i].id] : i \in DOMAIN models}] :
        /\ \A i \in DOMAIN models :
            /\ words[i] \in Payloads[models[i].id] /\ Len(words[i]) = models[i].length
            /\ words[i] \in Plain \/ Len(models) = 1
        /\ device' = words
    /\ UNCHANGED <<walk, header, models, kept, damaged, restored, missing, request>>

\* What a poll decodes: unknown models are not read, others may be refused.
Decoded(i) ==
    IF models[i].id \in DOMAIN ModelDefinitions
    THEN DecodeModel(ModelDefinitions[models[i].id], device[i]) ELSE None

-----------------------------------------------------------------------------
(* The stored topology.                                                    *)

SaveTopology ==
    /\ device # <<>> /\ kept = None /\ request = None
    /\ kept' = [i \in DOMAIN models |-> Record(models[i], Decoded(i))]
    /\ UNCHANGED <<walk, header, models, device, damaged, restored, missing, request>>

\* The file is edited or damaged in one record.
Damage ==
    /\ kept # None /\ damaged = None /\ restored = None
    /\ \E i \in DOMAIN kept :
        /\ damaged' = i
        /\ \/ kept' = [kept EXCEPT ![i].model.length = Malformed]
           \/ kept' = [kept EXCEPT ![i].model.length = AddressSpace]
           \/ /\ DOMAIN kept[i].fixed # {}
              /\ kept' = [kept EXCEPT ![i].fixed["SN"] = Malformed]
           \/ /\ Len(kept[i].modules) > 1
              /\ kept' = [kept EXCEPT ![i].modules = Tail(@)]
           \/ /\ kept[i].modules # <<>>
              /\ kept' = [kept EXCEPT ![i].modules = Append(@, @[1])]
    /\ UNCHANGED <<walk, header, models, device, restored, missing, request>>

RestoreTopology ==
    /\ kept # None /\ restored = None
    /\ restored' = Validated(kept)
    /\ UNCHANGED <<walk, header, models, device, kept, damaged, missing, request>>

\* As Previous, looking for the model at any place.
PreviousAnywhere(model) ==
    LET same == {i \in DOMAIN restored : restored[i].model.id = model.id}
    IN IF same # {} THEN restored[CHOOSE i \in same : TRUE] ELSE Record(model, None)

\* A model without data keeps the record it had at the same place.
Previous(model) ==
    LET same == {i \in DOMAIN restored : restored[i].model = model}
    IN IF same # {} THEN restored[CHOOSE i \in same : TRUE] ELSE Record(model, None)

\* The first poll after a restart: the same chain, but some models fail.
SaveAgain ==
    /\ restored # None /\ missing = None
    /\ missing' \in SUBSET DOMAIN models
    /\ kept' = [i \in DOMAIN models |->
                  IF i \in missing' \/ Decoded(i) = None THEN Previous(models[i])
                  ELSE Record(models[i], Decoded(i))]
    /\ UNCHANGED <<walk, header, models, device, damaged, restored, request>>

-----------------------------------------------------------------------------
(* register_reader.py and register_writer.py: one register of the model.   *)

RegisterFits(register, length) == End(register) <= length

\* The factor a register is scaled with.
FactorOf(register, registers) == registers[register.scaleFactor]
FactorValue(register, registers, words) ==
    Decode("sunssf", Combine(Words(FactorOf(register, registers), 0, words)), 1, Base)

\* As LiveScale, taking a factor that is not implemented for none at all.
LiveScaleRegardless(register, registers, words) ==
    IF register.scaleFactor = None THEN Scale(register.type, None)
    ELSE IF ~RegisterFits(FactorOf(register, registers), Len(words)) THEN None
    ELSE Scale(register.type, FactorValue(register, registers, words))

\* The scale a register has now, or None if there is none that can be used.
LiveScale(register, registers, words) ==
    IF register.scaleFactor = None THEN Scale(register.type, None)
    ELSE IF \/ ~RegisterFits(FactorOf(register, registers), Len(words))
            \/ FactorValue(register, registers, words) = None THEN None
    ELSE Scale(register.type, FactorValue(register, registers, words))

\* Scale factors are within the decimal places that values have here.
Scaled(registers, words) ==
    \A name \in DOMAIN registers :
        LET register == registers[name] IN
        /\ register.scaleFactor # None
        /\ RegisterFits(FactorOf(register, registers), Len(words))
        /\ FactorValue(register, registers, words) # None
        => Scale(register.type, FactorValue(register, registers, words)) \in Nat \ {0}

ASSUME ScalesAssumption ==
    \A id \in DOMAIN Payloads \cap DOMAIN ModelDefinitions : \A words \in Payloads[id] :
        Scaled(ModelDefinitions[id].registers, words)

\* The value of a register when it is read alone; None, too, if that fails.
ReadRegister(name, registers, words) ==
    LET register == registers[name]
        scale == LiveScale(register, registers, words)
    IN IF ~RegisterFits(register, Len(words)) \/ scale = None THEN None
       ELSE Decode(register.type, Combine(Words(register, 0, words)), scale, Modulus(register.size))

\* The scale and the words of a write, or None if it is refused.
Prepare(name, value, registers, words) ==
    LET register == registers[name]
        scale == LiveScale(register, registers, words)
        bits == Encode(register, value, scale, Modulus(register.size))
    IN IF ~RegisterFits(register, Len(words)) \/ scale = None \/ bits = None THEN None
       ELSE [scale |-> scale, words |-> Split(bits, register.size)]

Plans == [scale : Nat, words : Seq(Nat)]

ASSUME PlansAssumption == None \notin Plans

Written(register, new, words) ==
    [i \in DOMAIN words |->
        IF i - register.offset \in DOMAIN new THEN new[i - register.offset] ELSE words[i]]

\* The read-back, in the scale the write was prepared with.
Verified(register, plan, value, words) ==
    Decode(register.type, Combine(Words(register, 0, words)), plan.scale, Modulus(register.size)) = value

-----------------------------------------------------------------------------
(* A write a user asks for, and power settings turned into rates.          *)

Idle == Len(device) = 1 /\ kept = None /\ request = None

\* The policies an entry may have been set up with.
Installed == {LoadPolicies(file) : file \in Files}

Write(policies, r) ==
    LET registers == ModelDefinitions[r[1]].registers
        register == registers[r[2]]
        coordinate == <<r[1], r[2]>>
        plan == Prepare(r[2], r[3], registers, device[1])
    IN /\ Idle /\ models[1].id = r[1]
       /\ EntityOffers(register, Enabled(policies, coordinate), r[3])
       /\ PolicyAccepts(policies[coordinate], register, r[3])
       /\ plan # None
       /\ \E words \in {Written(register, plan.words, device[1]), device[1]} :
            /\ device' = <<words>>
            /\ request' = [kind |-> "write", name |-> r[2], value |-> r[3], policy |-> policies[coordinate],
                           before |-> device[1], done |-> Verified(register, plan, r[3], words)]
       /\ UNCHANGED <<walk, header, models, kept, damaged, restored, missing>>

Reference == Decoded(1).fixed["WChaMax"]
RateFactor == Decoded(1).fixed["InOutWRte_SF"]

Manual(settings) ==
    /\ Idle /\ models[1].id = 124
    /\ Decoded(1) # None
    /\ Reference # None /\ RateFactor # None
    /\ request' = [kind |-> "window", settings |-> settings,
                   window |-> ManualWindow(settings, Reference, Scale("int16", RateFactor))]
    /\ UNCHANGED <<walk, header, models, device, kept, damaged, restored, missing>>

Next ==
    \/ Discover
    \/ Poll
    \/ SaveTopology
    \/ Damage
    \/ RestoreTopology
    \/ SaveAgain
    \/ \E policies \in Installed, r \in Requests : Write(policies, r)
    \/ \E settings \in Settings : Manual(settings)

Spec == Init /\ [][Next]_vars
=============================================================================
