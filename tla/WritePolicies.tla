--------------------------- MODULE WritePolicies ---------------------------
(***************************************************************************)
(* Which values an installation allows to be written: the policy file as   *)
(* it is parsed (write_policy_loader.py), what a policy accepts            *)
(* (write_policy.py), and what the number and select entities offer        *)
(* (number.py, select.py).                                                 *)
(*                                                                         *)
(* A file is a version and a function from coordinates <<model, register>> *)
(* to settings; settings are a function from keys to what stands there.    *)
(* Labels of values and bits are given by their raw values; numbers are    *)
(* semantic values.                                                        *)
(***************************************************************************)
EXTENDS RegisterMaps

SettingKeys == {"enabled", "minimum", "maximum", "step", "values", "bits"}

-----------------------------------------------------------------------------
(* Parsing.  One bad entry refuses the whole file.                         *)

Given(settings, key, default) == IF key \in DOMAIN settings THEN settings[key] ELSE default

Documented(register) == IF register.options = None THEN {} ELSE register.options

\* A list of documented values without repetitions, for a register of that kind.
ValidList(settings, key, register, types) ==
    Given(settings, key, None) # None =>
        /\ register.type \in types
        /\ settings[key] # Malformed
        /\ Range(settings[key]) \subseteq Documented(register)
        /\ \A i, j \in DOMAIN settings[key] : settings[key][i] = settings[key][j] => i = j

ListOf(settings, key) ==
    IF Given(settings, key, None) = None THEN None ELSE Range(settings[key])

ParsedPolicy(settings) ==
    [ enabled |-> Given(settings, "enabled", TRUE), lo |-> Given(settings, "minimum", None),
      hi |-> Given(settings, "maximum", None), step |-> Given(settings, "step", None),
      values |-> ListOf(settings, "values"), bits |-> ListOf(settings, "bits") ]

\* The policy by itself, and as a narrowing of what the register allows.
ValidPolicy(policy, register) ==
    /\ policy.lo # None /\ policy.hi # None => policy.lo <= policy.hi
    /\ policy.step # None => policy.step > 0
    /\ register.writable
    /\ register.lo # None /\ policy.lo # None => policy.lo >= register.lo
    /\ register.hi # None /\ policy.hi # None => policy.hi <= register.hi
    /\ register.step # None /\ policy.step # None => policy.step % register.step = 0
    /\ policy.values # None => policy.values # {}

ValidSettings(coordinate, settings) ==
    /\ coordinate[1] \in DOMAIN ModelDefinitions
    /\ coordinate[2] \in DOMAIN ModelDefinitions[coordinate[1]].registers
    /\ settings # Malformed
    /\ DOMAIN settings \subseteq SettingKeys
    /\ \A key \in DOMAIN settings \ {"values", "bits"} : settings[key] # Malformed
    /\ LET register == ModelDefinitions[coordinate[1]].registers[coordinate[2]] IN
          /\ ValidList(settings, "values", register, {"enum16"})
          /\ ValidList(settings, "bits", register, BitFields)
          /\ ValidPolicy(ParsedPolicy(settings), register)

\* The policies of a file; an unreadable or invalid one disables all writes.
LoadPolicies(file) ==
    IF file # Malformed /\ file.version = 1
       /\ \A coordinate \in DOMAIN file.models : ValidSettings(coordinate, file.models[coordinate])
    THEN [coordinate \in DOMAIN file.models |-> ParsedPolicy(file.models[coordinate])]
    ELSE <<>>

-----------------------------------------------------------------------------
(* Accepting a value.                                                      *)

PolicyAccepts(policy, register, value) ==
    /\ policy.enabled
    /\ register.type = "enum16" /\ policy.values # None => value \in policy.values
    /\ register.type \in BitFields /\ policy.bits # None => Masks(value) \subseteq policy.bits
    /\ register.type \notin BitFields \cup {"enum16"} =>
          /\ policy.lo # None => value >= policy.lo
          /\ policy.hi # None => value <= policy.hi
          /\ policy.step # None =>
                (value - (IF policy.lo = None THEN 0 ELSE policy.lo)) % policy.step = 0

\* Only an enabled policy narrows what an entity shows.
Enabled(policies, coordinate) ==
    IF coordinate \in DOMAIN policies /\ policies[coordinate].enabled
    THEN policies[coordinate] ELSE None

Greater(a, b) == IF a = None THEN b ELSE IF b = None \/ a >= b THEN a ELSE b
Less(a, b) == IF a = None THEN b ELSE IF b = None \/ a <= b THEN a ELSE b

EffectiveRange(register, policy) ==
    [ lo |-> IF policy = None THEN register.lo ELSE Greater(register.lo, policy.lo),
      hi |-> IF policy = None THEN register.hi ELSE Less(register.hi, policy.hi) ]

\* Only a register with both bounds gets a number entity.
HasFiniteHardRange(register) == register.lo # None /\ register.hi # None

\* A number entity writes what lies in the range it shows.
NumberOffers(register, policy, value) ==
    LET range == EffectiveRange(register, policy) IN
    /\ HasFiniteHardRange(register)
    /\ policy # None
    /\ range.lo <= value /\ value <= range.hi

\* A select entity writes one of its options.
SelectOffers(register, policy, value) ==
    /\ policy # None
    /\ register.type = "enum16" =>
          value \in (IF policy.values = None THEN register.options ELSE policy.values)
    /\ register.type \in BitFields =>
          Masks(value) \subseteq (IF policy.bits = None THEN register.options ELSE policy.bits)

EntityOffers(register, policy, value) ==
    IF register.options # None THEN SelectOffers(register, policy, value)
    ELSE NumberOffers(register, policy, value)

-----------------------------------------------------------------------------
(* The file the integration installs when there is none.                   *)

WritableRegisters ==
    {c \in {123, 124} \X (DOMAIN Controls123.registers \cup DOMAIN Storage124.registers) :
        /\ c[2] \in DOMAIN ModelDefinitions[c[1]].registers
        /\ ModelDefinitions[c[1]].registers[c[2]].writable}

DefaultPolicyFile ==
    [ version |-> 1,
      models |->
        [ coordinate \in WritableRegisters |->
            CASE coordinate = <<124, "MinRsvPct">> ->
                    [enabled |-> TRUE, minimum |-> 5 * Unit, maximum |-> 100 * Unit]
              [] coordinate \in {124} \X {"StorCtl_Mod", "OutWRte", "InWRte", "ChaGriSet"} ->
                    [enabled |-> TRUE]
              [] OTHER -> [enabled |-> FALSE] ] ]

ASSUME MalformedAssumption ==
    /\ Malformed # DefaultPolicyFile
    /\ \A coordinate \in WritableRegisters : Malformed # DefaultPolicyFile.models[coordinate]
    /\ Malformed \notin BOOLEAN
=============================================================================
