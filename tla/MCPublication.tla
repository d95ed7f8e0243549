--------------------------- MODULE MCPublication ----------------------------
(* Publication on small instances. *)
EXTENDS Publication, MeasurementProperties, TLC

CONSTANTS fast, slow, l1, l2, s1, s2

ASSUME None \notin {fast, slow, l1, l2, s1, s2}

SerialSymmetry == Permutations({s1, s2})
LayoutAndSerialSymmetry == SerialSymmetry \cup Permutations({l1, l2})

(***************************************************************************)
(* Bounds.  Time alone makes slow periods pass and samples grow old: the   *)
(* clock goes on for what little has happened to.  All that the budget     *)
(* allows happens up to tick `all`, not all of it together up to tick      *)
(* `some`, and after that nothing has happened but polls and notifications.*)
(***************************************************************************)

(* No fault, replacement, cancellation or request yet; the shortest timeout. *)
Undisturbed ==
    /\ budget = [faults |-> MaxFaults, swaps |-> MaxSwaps, cancels |-> MaxCancels,
                  requests |-> MaxRequests]
    /\ \A t \in Timeouts : timeout <= t

Exhausted == budget = [faults |-> 0, swaps |-> 0, cancels |-> 0, requests |-> 0]

Scope(all, some) ==
    /\ now > all => ~Exhausted
    /\ now > some => Undisturbed

HealthScope == Scope(1, 2)
UnitsScope == Scope(0, 1)

(* Site consumption: the inverter of one device and the meter of another. *)
TwoDevices == { <<1, fast>>, <<2, fast>> }
(* Power of the modules or of the grid, efficiency: models of one device. *)
OneModel == { <<1, fast>> }
=============================================================================
