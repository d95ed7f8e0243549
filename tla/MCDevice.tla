----------------------------- MODULE MCDevice ------------------------------
(* DeviceRegisters on small instances: words of twelve bits, two decimals. *)
EXTENDS DeviceProperties, TLC

MCHeaders == { <<0, 1>>, <<1, 65>>, <<123, 24>>, <<124, 24>>, <<124, 23>>,
               <<160, 28>>, <<160, 48>>, <<160, 30>>, <<999, 0>>, <<999, 300>> }

\* Zero everywhere but in the named registers.
With(model, length, values) ==
    [i \in 1 .. length |->
        IF \E name \in DOMAIN values : model.registers[name].offset = i - 1
        THEN values[CHOOSE name \in DOMAIN values : model.registers[name].offset = i - 1]
        ELSE 0]

Same(length, word) == [i \in 1 .. length |-> word]

Factor(sf) == (sf + Base) % Base

StoragePayloads ==
    {With(Storage124, 24, [WChaMax |-> reference, InOutWRte_SF |-> Factor(sf)]) :
        reference \in {0, 3, 7}, sf \in {-2, -1, 0, 1, 2}}
    \cup {With(Storage124, 24, [MinRsvPct |-> raw, MinRsvPct_SF |-> Factor(sf), ChaGriSet |-> raw % 3,
                                StorCtl_Mod |-> raw % 4]) :
            raw \in {0, 4, 5, 45, 50, 51, 100, 101, 500, 1000}, sf \in {-2, -1, 0, 1}}
    \cup {Same(24, Base - 1), Same(24, Base \div 2), Same(23, 0)}

MCPlain == {Same(n, w) : n \in {1, 23, 24, 28, 30, 48, 65}, w \in {0, Base - 1}}

MCPayloads ==
    0 :> {Same(1, 0)}
    @@ 1 :> {Same(65, 0), Same(65, Base - 1)}
    @@ 123 :> {Same(24, 0)} \cup {With(Controls123, 24, [WMaxLimPct_SF |-> Factor(sf)]) : sf \in {-2, -1, 0, 1}}
    @@ 124 :> StoragePayloads
    @@ 160 :> {Same(n, w) : n \in {28, 48, 30}, w \in {0, Base - 1}}
    @@ 999 :> {}

Percentages == {-10050, -10000, -5000, -50, 0, 50, 400, 450, 500, 510, 3333, 9999, 10000, 10100}

MCRequests ==
    {<<124, name, value>> : name \in {"MinRsvPct", "InWRte"}, value \in Percentages}
    \cup {<<123, "WMaxLimPct", value>> : value \in Percentages}
    \cup {<<123, "Conn_RvrtTms", seconds * Unit>> : seconds \in {0, 4094, 4095, 4096, 28800}}
    \cup {<<124, "StorCtl_Mod", mode>> : mode \in 0 .. 4}
    \cup {<<124, "ChaGriSet", permission>> : permission \in 0 .. 2}

\* The installed file with other settings for some registers.
Edited(changes) ==
    [DefaultPolicyFile EXCEPT !.models =
        [c \in DOMAIN @ |-> IF c[2] \in DOMAIN changes THEN changes[c[2]] ELSE @[c]]]

MCFiles ==
    { DefaultPolicyFile,
      Malformed,
      [DefaultPolicyFile EXCEPT !.version = 2],
      Edited([WMaxLimPct |-> [minimum |-> 400, step |-> 50], Conn_RvrtTms |-> [enabled |-> TRUE]]),
      Edited([InWRte |-> [minimum |-> -5000, maximum |-> 9999, step |-> 5000],
              MinRsvPct |-> [maximum |-> 510], StorCtl_Mod |-> [bits |-> <<2>>],
              ChaGriSet |-> [values |-> <<0>>]]),
      Edited([InWRte |-> [maximum |-> 10100]]),
      Edited([ChaGriSet |-> [minimum |-> 1]]),
      Edited([ChaGriSet |-> [values |-> <<1, 1>>]]),
      Edited([MinRsvPct |-> [minimum |-> Malformed]]) }

MCSettings ==
    [minimum : [Directions -> {0, 1, 2}], maximum : [Directions -> {0, 2, 3, 7, 8}]]
=============================================================================
