----------------------------- MODULE MCStorage ------------------------------
(* StorageControl on small instances. *)
EXTENDS StorageProperties, TLC

CONSTANTS d1, d2, o1, o2, u1, u2, r1, r2, low, high

ASSUME {d1, d2, o1, o2, u1, u2, r1, r2, low, high} \cap {None, Full} = {}

AllPolicySettings == { <<"reserve", high>>, <<"grid", TRUE>> }
GridSetting == { <<"grid", TRUE>> }
NoPolicy == {}

KindsLease == AllKinds \ {"policy"}
KindsWatchdog == {"acquire", "update", "heartbeat", "release", "policy"}
KindsTakeover == {"acquire", "update"}
KindsShared == {"acquire", "change"}

AllFaults == {"preflight", "write", "refresh", "save", "cancel"}
SaveFaults == {"save"}
AllModes == {"keep", "automatic", "manual"}
KeepMode == {"keep"}

DeviceSymmetry == Permutations({d1, d2})
OwnerSymmetry == Permutations({o1, o2})
=============================================================================
