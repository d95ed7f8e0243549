----------------------------- MODULE Discovery -----------------------------
(***************************************************************************)
(* Walking the chain of models of a device (sunspec.py).                   *)
(*                                                                         *)
(* Every model is a header of two registers, its number and length, and    *)
(* its data; a header with the end number follows the last one.  What a    *)
(* header says is chosen when it is read.                                  *)
(***************************************************************************)
EXTENDS Integers, Sequences

CONSTANTS
    Start,      \* transport address of the signature
    MaxAddress, \* the last register address of Modbus
    MaxModels,  \* how many headers a walk reads at most
    Headers,    \* what headers may say: <<number, length>>
    EndModel    \* the number in the header after the last model

ASSUME StartAssumption == Start \in Nat
ASSUME MaxAddressAssumption == MaxAddress \in Nat
ASSUME MaxModelsAssumption == MaxModels \in Nat \ {0}
ASSUME HeadersAssumption == \A h \in Headers : h[1] \in Nat /\ h[2] \in Nat

SignatureSize == 2
HeaderSize == 2

VARIABLES
    walk,       \* "signature", "walking", "found" or "failed"
    header,     \* address of the header to read next
    models      \* models found so far, in order

walkVars == <<walk, header, models>>

DiscoveredModel == [id : Nat, base : Nat, length : Nat \ {0}]

WalkTypeOK ==
    /\ walk \in {"signature", "walking", "found", "failed"}
    /\ header \in Nat
    /\ models \in Seq(DiscoveredModel)

WalkInit ==
    /\ walk = "signature"
    /\ header = Start + SignatureSize
    /\ models = <<>>

\* The signature is there.
VerifySignature ==
    /\ walk = "signature"
    /\ walk' = "walking"
    /\ UNCHANGED <<header, models>>

\* A refused or failed read, or a wrong signature: nothing is discovered.
Fail ==
    /\ walk \in {"signature", "walking"}
    /\ walk' = "failed"
    /\ models' = <<>>
    /\ UNCHANGED header

CanReadHeader ==
    /\ walk = "walking"
    /\ Len(models) < MaxModels
    /\ header <= MaxAddress - 1

ReadEnd ==
    /\ CanReadHeader
    /\ walk' = "found"
    /\ UNCHANGED <<header, models>>

\* As ReadModel, counting the data from the header.
ReadModelFromHeader(h) ==
    /\ CanReadHeader
    /\ h[1] # EndModel /\ h[2] > 0
    /\ header + h[2] <= MaxAddress - 1
    /\ models' = Append(models, [id |-> h[1], base |-> header + HeaderSize, length |-> h[2]])
    /\ header' = header + h[2]
    /\ UNCHANGED walk

ReadModel(h) ==
    LET base == header + HeaderSize
        next == base + h[2]
    IN /\ CanReadHeader
       /\ h[1] # EndModel
       /\ h[2] > 0
       /\ next <= MaxAddress - 1
       /\ models' = Append(models, [id |-> h[1], base |-> base, length |-> h[2]])
       /\ header' = next
       /\ UNCHANGED walk

\* A model without data, or one that leaves no room for the next header.
RefuseModel(h) ==
    /\ CanReadHeader
    /\ h[1] # EndModel
    /\ h[2] <= 0 \/ header + HeaderSize + h[2] > MaxAddress - 1
    /\ walk' = "failed"
    /\ models' = <<>>
    /\ UNCHANGED header

\* No header can be read any more, and no end has been seen.
Exceed ==
    /\ walk = "walking"
    /\ Len(models) >= MaxModels \/ header > MaxAddress - 1
    /\ walk' = "failed"
    /\ models' = <<>>
    /\ UNCHANGED header

Walk ==
    \/ VerifySignature
    \/ Fail
    \/ ReadEnd
    \/ \E h \in Headers : ReadModel(h) \/ RefuseModel(h)
    \/ Exceed

WalkSpec == WalkInit /\ [][Walk]_walkVars

-----------------------------------------------------------------------------

\* The address after the data of a model.
Behind(model) == model.base + model.length

\* discover: the models of a device follow one another without overlap, each
\* behind a header of its own, all of them and the header that ends the chain
\* within the addresses Modbus has; a walk that fails has found nothing.
ChainFits ==
    /\ \A i \in DOMAIN models :
        /\ models[i].base = HeaderSize + (IF i = 1 THEN Start + SignatureSize ELSE Behind(models[i - 1]))
        /\ Behind(models[i]) < MaxAddress
        /\ models[i].id # EndModel
    /\ Len(models) <= MaxModels
    /\ walk = "failed" => models = <<>>
=============================================================================
