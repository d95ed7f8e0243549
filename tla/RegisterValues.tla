--------------------------- MODULE RegisterValues ---------------------------
(***************************************************************************)
(* What the words of a register mean (codec.py).                           *)
(*                                                                         *)
(* A word has Base values (65536 in the code).  A semantic value is a      *)
(* whole number of units of 10^-Places, so that decimal scaling is exact   *)
(* as it is in the code, which computes with Decimal; scale factors below  *)
(* -Places have no counterpart here.  The value of an enum or of a bit     *)
(* field is its raw value, which stands for its label; strings are names,  *)
(* not numbers, and only their length matters.                             *)
(***************************************************************************)
EXTENDS Integers, Sequences, SequencesExt

CONSTANTS
    Base,       \* how many values one register word has
    Places,     \* decimal places of semantic values
    None,       \* no value, no constraint, or an error
    Malformed   \* a value of the wrong kind in a file

ASSUME BaseAssumption == Base \in Nat /\ Base >= 4 /\ Base % 2 = 0
ASSUME PlacesAssumption == Places \in Nat
ASSUME NoneAssumption == None \notin Int /\ Malformed \notin Int

-----------------------------------------------------------------------------
(* The data types: how many words each has, and how it is read.            *)

ExpectedSize ==
    [ uint16 |-> 1, int16 |-> 1, uint32 |-> 2, int32 |-> 2, uint64 |-> 4, sunssf |-> 1,
      enum16 |-> 1, bitfield16 |-> 1, bitfield32 |-> 2, acc32 |-> 2, acc64 |-> 4 ]

Types == DOMAIN ExpectedSize \cup {"string"}
Signed == {"int16", "int32", "sunssf"}
Accumulators == {"acc32", "acc64"}
BitFields == {"bitfield16", "bitfield32"}
Scalable == {"uint16", "int16", "uint32", "int32", "uint64"} \cup Accumulators
Encodable == DOMAIN ExpectedSize \ Accumulators

Unit == 10 ^ Places

ASSUME UnitAssumption == Unit \in Nat \ {0}

\* What one raw count is worth; None stands for a register without scale factor.
Scale(type, scaleFactor) ==
    IF type \notin Scalable THEN 1
    ELSE IF scaleFactor = None THEN Unit ELSE 10 ^ (Places + scaleFactor)

-----------------------------------------------------------------------------
(* Combined values.  m is how many of them the words of a register have.   *)

Modulus(words) == Base ^ words

ASSUME ModulusAssumption == Modulus(0) = 1 /\ Modulus(1) = Base

Combine(words) == FoldLeft(LAMBDA value, word : value * Base + word, 0, words)

\* Big-endian words of a combined value.
Split(bits, n) == [i \in 1 .. n |-> (bits \div Modulus(n - i)) % Base]

\* The combined value that means "not implemented".
Sentinel(type, m) ==
    IF type \in Accumulators THEN 0
    ELSE IF type \in Signed THEN m \div 2 ELSE m - 1

FromBits(type, bits, m) ==
    IF type \in Signed /\ bits >= m \div 2 THEN bits - m ELSE bits

ToBits(raw, m) == IF raw >= 0 THEN raw ELSE raw + m

Fits(type, raw, m) ==
    IF type \in Signed
    THEN -(m \div 2) <= raw /\ raw < m \div 2
    ELSE 0 <= raw /\ raw < m

\* The bits set in a raw value of one word.
Masks(raw) == {b \in {2 ^ i : i \in 0 .. 15} : (raw \div b) % 2 = 1}

-----------------------------------------------------------------------------
(* decode_register_value and encode_register_value.                        *)

\* None if the register is not implemented.
Decode(type, bits, scale, m) ==
    IF bits = Sentinel(type, m) THEN None ELSE FromBits(type, bits, m) * scale

\* Bounds and increment are semantic; increments start at the minimum.
InRange(register, value) ==
    /\ register.lo # None => value >= register.lo
    /\ register.hi # None => value <= register.hi
    /\ register.step # None =>
           (value - (IF register.lo = None THEN 0 ELSE register.lo)) % register.step = 0

\* Documented enum values; documented bits.
Known(register, raw) ==
    register.options # None =>
        /\ register.type = "enum16" => raw \in register.options
        /\ register.type \in BitFields => raw >= 0 /\ Masks(raw) \subseteq register.options

\* The combined value for a semantic one; None if it is refused.
Encode(register, value, scale, m) ==
    LET raw == value \div scale
        acceptable ==
            /\ register.writable
            /\ register.type \in Encodable
            /\ InRange(register, value)
            /\ value % scale = 0
            /\ Known(register, raw)
            /\ Fits(register.type, raw, m)
            /\ ToBits(raw, m) # Sentinel(register.type, m)
    IN IF acceptable THEN ToBits(raw, m) ELSE None
=============================================================================
