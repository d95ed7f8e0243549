------------------------------ MODULE Topology ------------------------------
(***************************************************************************)
(* What is kept of the models of a device between runs of Home Assistant,  *)
(* so that its entities exist before the device answers (topology.py).     *)
(*                                                                         *)
(* A record has the coordinates of a model, the identity of a device       *)
(* (Model 1), and for Model 160 the coordinates and number of every        *)
(* module.                                                                 *)
(***************************************************************************)
EXTENDS RegisterMaps, Discovery

AddressSpace == 65536

\* A word can be an address, and the end of a chain is the greatest word.
ASSUME SpaceAssumption == Base <= AddressSpace /\ MaxAddress <= AddressSpace
ASSUME EndModelAssumption == EndModel \in Nat /\ \A h \in Headers : h[1] <= EndModel

Identity == {"Mn", "Md", "SN", "Vr"}

\* model_topology: model is [id, base, length], decoded what a poll read or None.
Record(model, decoded) ==
    [ model |-> model,
      fixed |-> IF model.id = 1 /\ decoded # None
                THEN [name \in Identity |-> decoded.fixed[name]] ELSE <<>>,
      modules |->
        IF decoded = None THEN <<>>
        ELSE [i \in DOMAIN decoded.repeating |->
                LET block == ModelDefinitions[model.id].block
                IN [index |-> i - 1, offset |-> block.offset + (i - 1) * block.size,
                    ID |-> decoded.repeating[i]["ID"]]] ]

\* What a file may have for a model, damaged or not.
StoredModule == [index : Nat, offset : Nat, ID : Nat \cup {None}]
StoredRecord ==
    [ model : [id : Nat, base : Nat, length : Nat \cup {Malformed}],
      fixed : {<<>>} \cup [Identity -> Seq(Nat) \cup {Malformed}],
      modules : Seq(StoredModule) ]

ASSUME StoredAssumption ==
    /\ None \notin Seq(StoredRecord)
    /\ Malformed \notin {None} \cup DiscoveredModel \cup StoredModule \cup Seq(Nat)

-----------------------------------------------------------------------------
(* validate_topology: damaged records are dropped, and so are records of   *)
(* an address that was seen before.                                        *)

ValidCoordinates(model) ==
    /\ model # Malformed
    /\ \A value \in Range(model) : value # Malformed
    /\ 1 <= model.id /\ model.id < EndModel
    /\ model.base >= 0 /\ model.length > 0
    /\ model.base + model.length <= AddressSpace

ValidIdentity(record) ==
    \A name \in DOMAIN record.fixed \cap Identity : record.fixed[name] # Malformed

ValidModule(module, i, block, length) ==
    /\ module # Malformed
    /\ module.index = i - 1
    /\ module.offset = block.offset + (i - 1) * block.size
    /\ module.offset + block.size <= length
    /\ module.ID # Malformed
    /\ module.ID # None => 0 <= module.ID /\ module.ID < AddressSpace * Unit

ValidRecord(record) ==
    /\ ValidCoordinates(record.model)
    /\ record.model.id = 1 => ValidIdentity(record)
    /\ record.modules # <<>> =>
        /\ record.model.id \in DOMAIN ModelDefinitions
        /\ ModelDefinitions[record.model.id].block # None
        /\ \A i \in DOMAIN record.modules :
            ValidModule(record.modules[i], i, ModelDefinitions[record.model.id].block,
                        record.model.length)

\* Only a Common model has an identity worth keeping.
Normalized(record) ==
    [record EXCEPT !.fixed =
        IF record.model.id = 1 /\ DOMAIN record.fixed # {}
        THEN [name \in Identity |-> IF name \in DOMAIN @ THEN @[name] ELSE None] ELSE <<>>]

\* What is accepted of the records, at the places they are stored at.
Validated(records) ==
    LET Accepted(i) ==
            /\ ValidRecord(records[i])
            /\ \A j \in DOMAIN records :
                j < i /\ ValidRecord(records[j]) => records[j].model.base # records[i].model.base
    IN [i \in {j \in DOMAIN records : Accepted(j)} |-> Normalized(records[i])]
=============================================================================
