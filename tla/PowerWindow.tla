---------------------------- MODULE PowerWindow ----------------------------
(***************************************************************************)
(* How power settings in watts become the registers of the storage (the    *)
(* first functions of storage_control.py, and its checks of stored data).  *)
(*                                                                         *)
(* Watts are whole numbers.  The reference power (WChaMax as it was        *)
(* decoded), rates and percentages are in units of 10^-Places.  A rate is  *)
(* the semantic value of InWRte or OutWRte; resolution is what one raw     *)
(* count of them is worth.  The code computes with exact fractions.        *)
(***************************************************************************)
EXTENDS RegisterMaps

Full == 100 * Unit

Directions == {"charge", "discharge"}

PowerSettings == [minimum : [Directions -> Nat], maximum : [Directions -> Nat]]

Automatic == [StorCtl_Mod |-> 0, InWRte |-> Full, OutWRte |-> Full]

Windows == [StorCtl_Mod : {3}, InWRte : Int, OutWRte : Int]

ASSUME WindowAssumption == None \notin Windows

-----------------------------------------------------------------------------
(* Conversions between watts and percent of the reference.                 *)

ValidWatts(watts, reference) == reference > 0 /\ 0 <= watts /\ watts * Unit <= reference

\* watts is this fraction of the reference in counts of one resolution.
Numerator(watts) == watts * Unit * Full
Denominator(reference, resolution) == reference * resolution

Floor(n, d) == n \div d
Ceiling(n, d) == -((-n) \div d)

\* As Magnitude, rounding outwards.
MagnitudeOutward(watts, reference, resolution, minimum) ==
    LET n == Numerator(watts)
        d == Denominator(reference, resolution)
    IN (IF minimum THEN Floor(n, d) ELSE Ceiling(n, d)) * resolution

\* Rounded away from zero for a minimum and towards zero for a maximum.
Magnitude(watts, reference, resolution, minimum) ==
    LET n == Numerator(watts)
        d == Denominator(reference, resolution)
    IN (IF minimum THEN Ceiling(n, d) ELSE Floor(n, d)) * resolution

\* Both ends of the neutral window must have a raw value.
ValidResolution(resolution) ==
    \A end \in {Full, -Full} :
        Encode(Storage124.registers["InWRte"], end, resolution, Modulus(1)) # None

-----------------------------------------------------------------------------
(* validate_power_settings and power_window.                               *)

ValidPowerSettings(settings, reference) ==
    /\ \A d \in Directions :
        /\ ValidWatts(settings.minimum[d], reference)
        /\ ValidWatts(settings.maximum[d], reference)
        /\ settings.minimum[d] <= settings.maximum[d]
    /\ \E d \in Directions : settings.minimum[d] = 0

Opposite(direction) == IF direction = "charge" THEN "discharge" ELSE "charge"

\* The end of the window towards one direction: at most the maximum that way,
\* or, to force power the other way, at least the minimum of that.
Boundary(settings, reference, resolution, direction) ==
    LET forced == settings.minimum[Opposite(direction)] IN
    IF forced > 0
    THEN -Magnitude(forced, reference, resolution, TRUE)
    ELSE Magnitude(settings.maximum[direction], reference, resolution, FALSE)

\* The registers of a manual mode, or None if it is refused.
ManualWindow(settings, reference, resolution) ==
    LET in == Boundary(settings, reference, resolution, "charge")
        out == Boundary(settings, reference, resolution, "discharge")
    IN IF /\ ValidPowerSettings(settings, reference)
          /\ ValidResolution(resolution)
          /\ -in <= out
       THEN [StorCtl_Mod |-> 3, InWRte |-> in, OutWRte |-> out]
       ELSE None

-----------------------------------------------------------------------------
(* What the registers say, and what is accepted from storage.              *)

ValidPowerState(state) ==
    /\ state.StorCtl_Mod \in 0 .. 3
    /\ \A rate \in {state.InWRte, state.OutWRte} : -Full <= rate /\ rate <= Full
    /\ state.StorCtl_Mod = 3 => -state.InWRte <= state.OutWRte

Classify(current, lastTarget) ==
    IF ~ValidPowerState(current) THEN "unknown"
    ELSE IF current = Automatic THEN "automatic"
    ELSE IF lastTarget = None \/ ~ValidPowerState(lastTarget) THEN "unknown"
    ELSE IF current = lastTarget /\ current.StorCtl_Mod = 3 THEN "manual_hlc"
    ELSE "low_level_override"

LoadsProfile(settings) ==
    /\ \A d \in Directions : 0 <= settings.minimum[d] /\ settings.minimum[d] <= settings.maximum[d]
    /\ \E d \in Directions : settings.minimum[d] = 0

LoadsTarget(target) ==
    ValidPowerState(target) /\ (target.StorCtl_Mod = 3 \/ target = Automatic)

\* As ValidPolicySetting, within the range of the register.
ValidPolicySettingFromZero(name, value) ==
    IF name = "MinRsvPct" THEN value # None /\ 0 <= value /\ value <= Full
    ELSE value \in {0, 1}

\* What may be taken into a snapshot before remote control, and written back.
ValidPolicySetting(name, value) ==
    IF name = "MinRsvPct" THEN value # None /\ 5 * Unit <= value /\ value <= Full
    ELSE value \in {0, 1}
=============================================================================
