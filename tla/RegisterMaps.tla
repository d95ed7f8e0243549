---------------------------- MODULE RegisterMaps ----------------------------
(***************************************************************************)
(* The SunSpec models the integration knows (register_maps/), what makes   *)
(* their definitions well formed (models/register.py), and the decoding of *)
(* a whole model from its payload (model_decoder.py).                      *)
(*                                                                         *)
(* A model is a function from register names to registers.  Units,         *)
(* descriptions and entity metadata are left out, and so are the ranges    *)
(* and options of registers that cannot be written, which no code uses.    *)
(***************************************************************************)
EXTENDS RegisterValues, FiniteSets, Functions

\* The registers of all parts of a model; no two parts share a name.
Registers(parts) ==
    [ name \in UNION {DOMAIN parts[i] : i \in DOMAIN parts} |->
        parts[CHOOSE i \in DOMAIN parts : name \in DOMAIN parts[i]][name] ]

Single(name, register) == [n \in {name} |-> register]

Register(offset, size, type, scaleFactor) ==
    [ offset |-> offset, size |-> size, type |-> type, scaleFactor |-> scaleFactor,
      writable |-> FALSE, lo |-> None, hi |-> None, step |-> None, options |-> None ]

\* Consecutive registers of one type and scale factor, the first one at offset.
Row(offset, type, scaleFactor, names) ==
    [ name \in Range(names) |->
        LET before == (CHOOSE i \in DOMAIN names : names[i] = name) - 1
            size == ExpectedSize[type]
        IN Register(offset + before * size, size, type, scaleFactor) ]

Factors(offset, names) == Row(offset, "sunssf", None, names)
Text(offset, size, name) == Single(name, Register(offset, size, "string", None))
Flags(offset, names) == Row(offset, "bitfield32", None, names)

\* A register a user may write: whole semantic bounds, or documented options.
Setting(offset, type, scaleFactor, name, lo, hi) ==
    Single(name, [Register(offset, 1, type, scaleFactor) EXCEPT
                    !.writable = TRUE, !.lo = lo * Unit, !.hi = hi * Unit])
Choice(offset, type, name, options) ==
    Single(name, [Register(offset, 1, type, None) EXCEPT !.writable = TRUE, !.options = options])
Unbounded(offset, type, scaleFactor, name) ==
    Single(name, [Register(offset, 1, type, scaleFactor) EXCEPT !.writable = TRUE])

Model(registers, length) == [registers |-> registers, length |-> length, block |-> None]

-----------------------------------------------------------------------------
(* The shipped models.                                                     *)

Common1 ==
    Model(Registers(<<
        Text(0, 16, "Mn"), Text(16, 16, "Md"), Text(32, 8, "Opt"), Text(40, 8, "Vr"),
        Text(48, 16, "SN"), Row(64, "uint16", None, <<"DA">>) >>), 65)

InverterAC103 ==
    Registers(<<
        Row(0, "uint16", "A_SF", <<"A", "AphA", "AphB", "AphC">>), Factors(4, <<"A_SF">>),
        Row(5, "uint16", "V_SF", <<"PPVphAB", "PPVphBC", "PPVphCA", "PhVphA", "PhVphB",
            "PhVphC">>), Factors(11, <<"V_SF">>),
        Row(12, "int16", "W_SF", <<"W">>),
        Factors(13, <<"W_SF">>), Row(14, "uint16", "Hz_SF", <<"Hz">>),
        Factors(15, <<"Hz_SF">>), Row(16, "int16", "VA_SF", <<"VA">>),
        Factors(17, <<"VA_SF">>), Row(18, "int16", "VAr_SF", <<"VAr">>),
        Factors(19, <<"VAr_SF">>), Row(20, "int16", "PF_SF", <<"PF">>),
        Factors(21, <<"PF_SF">>), Row(22, "acc32", "WH_SF", <<"WH">>),
        Factors(24, <<"WH_SF">>) >>)

InverterDC103 ==
    Registers(<<
        Row(25, "uint16", "DCA_SF", <<"DCA">>), Factors(26, <<"DCA_SF">>),
        Row(27, "uint16", "DCV_SF", <<"DCV">>), Factors(28, <<"DCV_SF">>),
        Row(29, "int16", "DCW_SF", <<"DCW">>), Factors(30, <<"DCW_SF">>),
        Row(31, "int16", "Tmp_SF", <<"TmpCab", "TmpSnk", "TmpTrns", "TmpOt">>),
        Factors(35, <<"Tmp_SF">>), Row(36, "enum16", None, <<"St", "StVnd">>),
        Flags(38, <<"Evt1", "Evt2", "EvtVnd1", "EvtVnd2", "EvtVnd3", "EvtVnd4">>) >>)

PowerRatings120 ==
    Registers(<<
        Row(0, "enum16", None, <<"DERTyp">>), Row(1, "uint16", "WRtg_SF", <<"WRtg">>),
        Factors(2, <<"WRtg_SF">>), Row(3, "uint16", "VARtg_SF", <<"VARtg">>),
        Factors(4, <<"VARtg_SF">>),
        Row(5, "int16", "VArRtg_SF", <<"VArRtgQ1", "VArRtgQ2", "VArRtgQ3", "VArRtgQ4">>),
        Factors(9, <<"VArRtg_SF">>), Row(10, "uint16", "ARtg_SF", <<"ARtg">>),
        Factors(11, <<"ARtg_SF">>) >>)

StorageRatings120 ==
    Registers(<<
        Row(12, "int16", "PFRtg_SF", <<"PFRtgQ1", "PFRtgQ2", "PFRtgQ3", "PFRtgQ4">>),
        Factors(16, <<"PFRtg_SF">>), Row(17, "uint16", "WHRtg_SF", <<"WHRtg">>),
        Factors(18, <<"WHRtg_SF">>), Row(19, "uint16", "AhrRtg_SF", <<"AhrRtg">>),
        Factors(20, <<"AhrRtg_SF">>), Row(21, "uint16", "MaxChaRte_SF", <<"MaxChaRte">>),
        Factors(22, <<"MaxChaRte_SF">>),
        Row(23, "uint16", "MaxDisChaRte_SF", <<"MaxDisChaRte">>),
        Factors(24, <<"MaxDisChaRte_SF">>), Row(25, "uint16", None, <<"Pad">>) >>)

Nameplate120 == Model(Registers(<<PowerRatings120, StorageRatings120>>), 26)

PowerSettings121 ==
    Registers(<<
        Row(0, "uint16", "WMax_SF", <<"WMax">>), Row(1, "uint16", "VRef_SF", <<"VRef">>),
        Row(2, "int16", "VRefOfs_SF", <<"VRefOfs">>),
        Row(3, "uint16", "VMinMax_SF", <<"VMax", "VMin">>),
        Row(5, "uint16", "VAMax_SF", <<"VAMax">>),
        Row(6, "int16", "VArMax_SF", <<"VArMaxQ1", "VArMaxQ2", "VArMaxQ3", "VArMaxQ4">>),
        Row(10, "uint16", "WGra_SF", <<"WGra">>),
        Row(11, "int16", "PFMin_SF", <<"PFMinQ1", "PFMinQ2", "PFMinQ3", "PFMinQ4">>),
        Row(15, "enum16", None, <<"VArAct", "ClcTotVA">>) >>)

GridSettings121 ==
    Registers(<<
        Row(17, "uint16", "MaxRmpRte_SF", <<"MaxRmpRte">>),
        Row(18, "uint16", "ECPNomHz_SF", <<"ECPNomHz">>),
        Row(19, "enum16", None, <<"ConnPh">>),
        Factors(20, <<"WMax_SF", "VRef_SF", "VRefOfs_SF", "VMinMax_SF", "VAMax_SF",
            "VArMax_SF", "WGra_SF", "PFMin_SF", "MaxRmpRte_SF", "ECPNomHz_SF">>) >>)

BasicSettings121 == Model(Registers(<<PowerSettings121, GridSettings121>>), 30)

Measurements122 ==
    Registers(<<
        Row(0, "bitfield16", None, <<"PVConn", "StorConn", "ECPConn">>),
        Row(3, "acc64", None, <<"ActWh", "ActVAh", "ActVArhQ1", "ActVArhQ2", "ActVArhQ3",
            "ActVArhQ4">>),
        Row(27, "int16", "VArAval_SF", <<"VArAval">>), Factors(28, <<"VArAval_SF">>), Row(29, "uint16", "WAval_SF", <<"WAval">>),
        Factors(30, <<"WAval_SF">>) >>)

States122 ==
    Registers(<<
        Flags(31, <<"StSetLimMsk", "StActCtl">>), Text(35, 4, "TmSrc"),
        Row(39, "uint32", None, <<"Tms">>), Row(41, "bitfield16", None, <<"RtSt">>),
        Row(42, "uint16", "Ris_SF", <<"Ris">>), Factors(43, <<"Ris_SF">>) >>)

Status122 == Model(Registers(<<Measurements122, States122>>), 44)

Inverter103 == Model(Registers(<<InverterAC103, InverterDC103>>), 50)

ConnectionControls123 ==
    Registers(<<
        Setting(0, "uint16", None, "Conn_WinTms", 0, 300),
        Setting(1, "uint16", None, "Conn_RvrtTms", 0, 28800),
        Choice(2, "enum16", "Conn", {0, 1}),
        Setting(3, "uint16", "WMaxLimPct_SF", "WMaxLimPct", 0, 100),
        Setting(4, "uint16", None, "WMaxLimPct_WinTms", 0, 300),
        Setting(5, "uint16", None, "WMaxLimPct_RvrtTms", 0, 28800),
        Setting(6, "uint16", None, "WMaxLimPct_RmpTms", 0, 65534),
        Choice(7, "enum16", "WMaxLim_Ena", {0, 1}) >>)

PowerFactorControls123 ==
    Registers(<<
        Unbounded(8, "int16", "OutPFSet_SF", "OutPFSet"),
        Setting(9, "uint16", None, "OutPFSet_WinTms", 0, 300),
        Setting(10, "uint16", None, "OutPFSet_RvrtTms", 0, 28800),
        Setting(11, "uint16", None, "OutPFSet_RmpTms", 0, 65534),
        Choice(12, "enum16", "OutPFSet_Ena", {0, 1}),
        Row(13, "int16", "VArPct_SF", <<"VArWMaxPct">>),
        Setting(14, "int16", "VArPct_SF", "VArMaxPct", -100, 100),
        Row(15, "int16", "VArPct_SF", <<"VArAvalPct">>),
        Setting(16, "uint16", None, "VArPct_WinTms", 0, 300),
        Setting(17, "uint16", None, "VArPct_RvrtTms", 0, 28800),
        Setting(18, "uint16", None, "VArPct_RmpTms", 0, 65534),
        Row(19, "enum16", None, <<"VArPct_Mod">>),
        Choice(20, "enum16", "VArPct_Ena", {0, 1}),
        Factors(21, <<"WMaxLimPct_SF", "OutPFSet_SF", "VArPct_SF">>) >>)

Controls123 == Model(Registers(<<ConnectionControls123, PowerFactorControls123>>), 24)

StorageState124 ==
    Registers(<<
        Row(0, "uint16", "WChaMax_SF", <<"WChaMax">>),
        Row(1, "uint16", "WChaDisChaGra_SF", <<"WChaGra", "WDisChaGra">>),
        Choice(3, "bitfield16", "StorCtl_Mod", {1, 2}),
        Unbounded(4, "uint16", "VAChaMax_SF", "VAChaMax"),
        Setting(5, "uint16", "MinRsvPct_SF", "MinRsvPct", 0, 100),
        Row(6, "uint16", "ChaState_SF", <<"ChaState">>),
        Row(7, "uint16", "StorAval_SF", <<"StorAval">>),
        Row(8, "uint16", "InBatV_SF", <<"InBatV">>), Row(9, "enum16", None, <<"ChaSt">>) >>)

StorageRates124 ==
    Registers(<<
        Setting(10, "int16", "InOutWRte_SF", "OutWRte", -100, 100),
        Setting(11, "int16", "InOutWRte_SF", "InWRte", -100, 100),
        Row(12, "uint16", None, <<"InOutWRte_WinTms">>),
        Setting(13, "uint16", None, "InOutWRte_RvrtTms", 0, 28800),
        Row(14, "uint16", None, <<"InOutWRte_RmpTms">>),
        Choice(15, "enum16", "ChaGriSet", {0, 1}),
        Factors(16, <<"WChaMax_SF", "WChaDisChaGra_SF", "VAChaMax_SF", "MinRsvPct_SF",
            "ChaState_SF", "StorAval_SF", "InBatV_SF", "InOutWRte_SF">>) >>)

Storage124 == Model(Registers(<<StorageState124, StorageRates124>>), 24)

\* One block for each string of modules connected to the inverter.
Module160 ==
    Registers(<<
        Row(0, "uint16", None, <<"ID">>), Text(1, 8, "IDStr"),
        Row(9, "uint16", "DCA_SF", <<"DCA">>), Row(10, "uint16", "DCV_SF", <<"DCV">>),
        Row(11, "uint16", "DCW_SF", <<"DCW">>), Row(12, "acc32", "DCWH_SF", <<"DCWH">>),
        Row(14, "uint32", None, <<"Tms">>), Row(16, "int16", None, <<"Tmp">>),
        Row(17, "enum16", None, <<"DCSt">>), Flags(18, <<"DCEvt">>) >>)

FixedRegisters160 ==
    Registers(<<
        Factors(0, <<"DCA_SF", "DCV_SF", "DCW_SF", "DCWH_SF">>), Flags(4, <<"Evt">>),
        Row(6, "uint16", None, <<"N", "TmsPer">>) >>)

Modules160 ==
    [ Model(FixedRegisters160, 88)
        EXCEPT !.block = [offset |-> 8, size |-> 20, registers |-> Module160] ]

\* A quantity of the meter: values of three phases after their sum or average.
MeterPower203 ==
    Registers(<<
        Row(0, "int16", "A_SF", <<"A", "AphA", "AphB", "AphC">>), Factors(4, <<"A_SF">>),
        Row(5, "int16", "V_SF", <<"PhV", "PhVphA", "PhVphB", "PhVphC", "PPV", "PhVphAB",
            "PhVphBC", "PhVphCA">>), Factors(13, <<"V_SF">>),
        Row(14, "int16", "Hz_SF", <<"Hz">>), Factors(15, <<"Hz_SF">>),
        Row(16, "int16", "W_SF", <<"W", "WphA", "WphB", "WphC">>), Factors(20, <<"W_SF">>),
        Row(21, "int16", "VA_SF", <<"VA", "VAphA", "VAphB", "VAphC">>),
        Factors(25, <<"VA_SF">>),
        Row(26, "int16", "VAR_SF", <<"VAR", "VARphA", "VARphB", "VARphC">>),
        Factors(30, <<"VAR_SF">>),
        Row(31, "int16", "PF_SF", <<"PF", "PFphA", "PFphB", "PFphC">>),
        Factors(35, <<"PF_SF">>) >>)

MeterEnergy203 ==
    Registers(<<
        Row(36, "acc32", "TotWh_SF", <<"TotWhExp", "TotWhExpPhA", "TotWhExpPhB",
            "TotWhExpPhC", "TotWhImp", "TotWhImpPhA", "TotWhImpPhB", "TotWhImpPhC">>),
        Factors(52, <<"TotWh_SF">>),
        Row(53, "acc32", "TotVAh_SF", <<"TotVAhExp", "TotVAhExpPhA", "TotVAhExpPhB",
            "TotVAhExpPhC", "TotVAhImp", "TotVAhImpPhA", "TotVAhImpPhB", "TotVAhImpPhC">>),
        Factors(69, <<"TotVAh_SF">>),
        Row(70, "acc32", "TotVArh_SF", <<"TotVArhImpQ1", "TotVArhImpQ1PhA",
            "TotVArhImpQ1PhB", "TotVArhImpQ1PhC", "TotVArhImpQ2", "TotVArhImpQ2PhA",
            "TotVArhImpQ2PhB", "TotVArhImpQ2PhC", "TotVArhExpQ3", "TotVArhExpQ3PhA",
            "TotVArhExpQ3PhB", "TotVArhExpQ3PhC", "TotVArhExpQ4", "TotVArhExpQ4PhA",
            "TotVArhExpQ4PhB", "TotVArhExpQ4PhC">>), Factors(102, <<"TotVArh_SF">>),
        Flags(103, <<"Evt">>) >>)

Meter203 == Model(Registers(<<MeterPower203, MeterEnergy203>>), 105)

ModelDefinitions ==
    [ id \in {1, 103, 120, 121, 122, 123, 124, 160, 203} |->
        CASE id = 1 -> Common1 [] id = 103 -> Inverter103 [] id = 120 -> Nameplate120
          [] id = 121 -> BasicSettings121 [] id = 122 -> Status122 [] id = 123 -> Controls123
          [] id = 124 -> Storage124 [] id = 160 -> Modules160 [] id = 203 -> Meter203 ]

-----------------------------------------------------------------------------
(* What a definition must satisfy (models/register.py, model_decoder.py).  *)

End(register) == register.offset + register.size

Overlap(a, b) == a.offset < End(b) /\ b.offset < End(a)

\* A scaled register names a factor of the fixed part.
FactorDefined(register, factors) ==
    register.scaleFactor # None =>
        register.scaleFactor \in DOMAIN factors /\ register.type \in Scalable

ValidRange(register) ==
    /\ {register.lo, register.hi, register.step} \subseteq Int \cup {None}
    /\ register.lo # None /\ register.hi # None => register.lo <= register.hi
    /\ register.step # None => register.step > 0

ValidRegister(register) ==
    /\ register.offset \in Nat /\ register.size \in Nat \ {0}
    /\ register.type # "string" => register.size = ExpectedSize[register.type]
    /\ ValidRange(register)
    /\ register.options # None => register.type = "enum16" \/ register.type \in BitFields

ValidLayout(registers, length) ==
    \A name \in DOMAIN registers :
        /\ End(registers[name]) <= length
        /\ \A other \in DOMAIN registers \ {name} : ~Overlap(registers[name], registers[other])

ValidRegisters(registers, factors) ==
    \A name \in DOMAIN registers :
        ValidRegister(registers[name]) /\ FactorDefined(registers[name], factors)

ValidBlock(block, factors) ==
    ValidRegisters(block.registers, factors) /\ ValidLayout(block.registers, block.size)

WellFormed(model) ==
    /\ ValidRegisters(model.registers, model.registers)
    /\ ValidLayout(model.registers, model.length)
    /\ model.block # None =>
           /\ ValidBlock(model.block, model.registers)
           /\ End(model.block) <= model.length
           /\ \A name \in DOMAIN model.registers : ~Overlap(model.registers[name], model.block)

ASSUME DefinitionsAssumption ==
    \A id \in DOMAIN ModelDefinitions : WellFormed(ModelDefinitions[id])

ASSUME NamesAssumption ==
    \A id \in DOMAIN ModelDefinitions : None \notin DOMAIN ModelDefinitions[id].registers

\* What is written is one word, and never the factor of another register.
ASSUME WritableAssumption ==
    \A id \in DOMAIN ModelDefinitions :
        LET registers == ModelDefinitions[id].registers IN
        \A name \in DOMAIN registers :
            /\ registers[name].writable => registers[name].size = 1
            /\ registers[name].scaleFactor # None => ~registers[registers[name].scaleFactor].writable

-----------------------------------------------------------------------------
(* decode_model: a payload gives all values of a model, or it is refused.  *)

Words(register, base, payload) ==
    SubSeq(payload, base + register.offset + 1, base + End(register))

\* A register whose words start at base + offset; None if it has no value.
Value(register, base, payload, registers) ==
    LET words == Words(register, base, payload)
        factor == registers[register.scaleFactor]
        sf == IF register.scaleFactor = None THEN None
              ELSE Decode("sunssf", Combine(Words(factor, 0, payload)), 1, Base)
    IN IF register.type = "string" THEN words
       ELSE IF register.scaleFactor # None /\ sf = None THEN None
       ELSE Decode(register.type, Combine(words), Scale(register.type, sf), Modulus(register.size))

\* Every complete instance of the repeating block, and nothing left over.
Instances(model, length) ==
    IF model.block = None THEN 0 ELSE (length - model.block.offset) \div model.block.size

Decodable(model, length) ==
    /\ \A name \in DOMAIN model.registers : End(model.registers[name]) <= length
    /\ model.block # None =>
           /\ model.block.offset <= length
           /\ (length - model.block.offset) % model.block.size = 0

DecodeModel(model, payload) ==
    IF ~Decodable(model, Len(payload)) THEN None
    ELSE [ fixed |-> [name \in DOMAIN model.registers |->
                        Value(model.registers[name], 0, payload, model.registers)],
           repeating |-> [i \in 1 .. Instances(model, Len(payload)) |->
                            LET base == model.block.offset + (i - 1) * model.block.size
                            IN [name \in DOMAIN model.block.registers |->
                                  Value(model.block.registers[name], base, payload, model.registers)]] ]
=============================================================================
