----------------------------- MODULE MCSession ------------------------------
(* SessionAuthority on small instances. *)
EXTENDS SessionProperties, TLC

CONSTANTS l1, l2

ASSUME None \notin {l1, l2}

LayoutSymmetry == Permutations({l1, l2})
=============================================================================
