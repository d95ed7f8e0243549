--------------------------- MODULE RegisterProofs ---------------------------
(***************************************************************************)
(* The arithmetic of registers and power windows, for every rated power,   *)
(* every setting, every resolution of the rates and every width of a word; *)
(* and, from it, what holds of a device: its chain and the data of its     *)
(* models, the writes that were verified, the windows that were computed.  *)
(***************************************************************************)
EXTENDS DeviceProperties, DiscoveryProofs, SequenceTheorems, TLAPS

(***************************************************************************)
(* Quotients.                                                               *)
(***************************************************************************)

LEMMA Division ==
  ASSUME NEW n \in Int, NEW d \in Nat \ {0}
  PROVE  /\ n \div d \in Int
         /\ d * (n \div d) <= n /\ n < d * (n \div d) + d
  OBVIOUS

LEMMA Monotone ==
  ASSUME NEW a \in Int, NEW b \in Int, NEW d \in Nat \ {0}
  PROVE  /\ a * d \in Int /\ b * d \in Int
         /\ a <= b <=> a * d <= b * d
  OBVIOUS

LEMMA FloorIsGreatest ==
  ASSUME NEW n \in Nat, NEW d \in Nat \ {0}
  PROVE  /\ Floor(n, d) \in Nat
         /\ \A k \in Int : k <= Floor(n, d) <=> k * d <= n
<1> DEFINE q == n \div d
<1>1. q \in Int /\ d * q \in Int /\ d * q <= n /\ n < d * q + d
  BY Division
<1> HIDE DEF q
<1>2. ASSUME NEW k \in Int  PROVE k <= q <=> k * d <= n
  <2>1. ASSUME k <= q  PROVE k * d <= n
    <3>1. k * d <= q * d
      BY <1>1, <2>1, Monotone
    <3> QED
      BY <1>1, <3>1
  <2>2. ASSUME k > q  PROVE k * d > n
    <3>1. (q + 1) * d <= k * d /\ k * d \in Int
      <4>1. q + 1 \in Int /\ q + 1 <= k
        BY <1>1, <2>2
      <4> QED
        BY <4>1, Monotone
    <3>2. (q + 1) * d = d * q + d
      BY <1>1
    <3> QED
      BY <1>1, <3>1, <3>2
  <2> QED
    BY <1>1, <2>1, <2>2
<1>3. q \in Nat
  BY <1>1, <1>2
<1> QED
  BY <1>2, <1>3 DEF Floor, q

LEMMA CeilingIsLeast ==
  ASSUME NEW n \in Nat, NEW d \in Nat \ {0}
  PROVE  /\ Ceiling(n, d) \in Nat
         /\ \A k \in Int : Ceiling(n, d) <= k <=> n <= k * d
<1> DEFINE q == (-n) \div d
<1>1. q \in Int /\ d * q \in Int /\ d * q <= -n /\ -n < d * q + d
  BY Division
<1> HIDE DEF q
<1>2. ASSUME NEW k \in Int  PROVE -q <= k <=> n <= k * d
  <2>1. ASSUME -q <= k  PROVE n <= k * d
    <3>1. (-q) * d <= k * d /\ (-q) * d = -(d * q)
      BY <1>1, <2>1, Monotone
    <3> QED
      BY <1>1, <3>1
  <2>2. ASSUME k < -q  PROVE k * d < n
    <3>1. k * d <= (-q - 1) * d /\ k * d \in Int
      <4>1. -q - 1 \in Int /\ k <= -q - 1
        BY <1>1, <2>2
      <4> QED
        BY <4>1, Monotone
    <3>2. (-q - 1) * d = -(d * q) - d
      BY <1>1
    <3> QED
      BY <1>1, <3>1, <3>2
  <2> QED
    BY <1>1, <2>1, <2>2
<1>3. -q \in Nat
  <2>1. -q > -1
    BY <1>1, <1>2
  <2> QED
    BY <1>1, <2>1
<1> QED
  BY <1>2, <1>3 DEF Ceiling, q

(***************************************************************************)
(* Magnitudes, against the reference of the device.                         *)
(***************************************************************************)

LEMMA NumeratorType ==
  ASSUME NEW watts \in Nat
  PROVE  Numerator(watts) \in Nat
  BY UnitAssumption DEF Numerator, Full

(* Rates are resolutions; the reference makes them comparable to watts.       *)
LEMMA Counts ==
  ASSUME NEW k \in Int, NEW resolution \in Nat \ {0}, NEW reference \in Nat \ {0}
  PROVE  /\ reference * resolution \in Nat \ {0}
         /\ k * resolution \in Int
         /\ (k * resolution) * reference = k * (reference * resolution)
  OBVIOUS

(* A maximum is rounded to the greatest rate that does not exceed it.         *)
LEMMA MaximumIsGreatest ==
  ASSUME Reference \in Nat \ {0}, NEW resolution \in Nat \ {0}, NEW watts \in Nat
  PROVE  LET most == Magnitude(watts, Reference, resolution, FALSE) IN
         /\ most \in Nat /\ AtMost(most, watts)
         /\ \A raw \in Int : AtMost(raw * resolution, watts) => raw * resolution <= most
<1> DEFINE d == Reference * resolution
           n == Numerator(watts)
           q == Floor(n, d)
<1>1. n \in Nat /\ d \in Nat \ {0}
  BY NumeratorType, Counts
<1>2. q \in Nat /\ \A k \in Int : k <= q <=> k * d <= n
  <2> HIDE DEF n, d
  <2> QED
    BY <1>1, FloorIsGreatest
<1>3. Magnitude(watts, Reference, resolution, FALSE) = q * resolution
  BY DEF Magnitude, Denominator
<1> HIDE DEF n, q
<1>4. \A k \in Int : AtMost(k * resolution, watts) <=> k <= q
  BY <1>2, Counts DEF AtMost, n
<1>5. \A k \in Int : k <= q => k * resolution <= q * resolution
  BY <1>2, Monotone
<1>6. q * resolution \in Nat
  BY <1>2
<1>7. AtMost(q * resolution, watts)
  BY <1>2, <1>4
<1>8. \A raw \in Int : AtMost(raw * resolution, watts) => raw * resolution <= q * resolution
  BY <1>4, <1>5
<1> QED
  BY <1>3, <1>6, <1>7, <1>8, Zenon

(* A minimum is rounded to the least rate that reaches it.                    *)
LEMMA MinimumIsLeast ==
  ASSUME Reference \in Nat \ {0}, NEW resolution \in Nat \ {0}, NEW watts \in Nat
  PROVE  LET least == Magnitude(watts, Reference, resolution, TRUE) IN
         /\ least \in Nat /\ AtLeast(least, watts)
         /\ \A raw \in Int : AtLeast(raw * resolution, watts) => least <= raw * resolution
<1> DEFINE d == Reference * resolution
           n == Numerator(watts)
           q == Ceiling(n, d)
<1>1. n \in Nat /\ d \in Nat \ {0}
  BY NumeratorType, Counts
<1>2. q \in Nat /\ \A k \in Int : q <= k <=> n <= k * d
  <2> HIDE DEF n, d
  <2> QED
    BY <1>1, CeilingIsLeast
<1>3. Magnitude(watts, Reference, resolution, TRUE) = q * resolution
  BY DEF Magnitude, Denominator
<1>4. d \in Int /\ n \in Int
  BY <1>1
<1> HIDE DEF q
<1>5. \A k \in Int : AtLeast(k * resolution, watts) <=> q <= k
  <2> SUFFICES ASSUME NEW k \in Int
               PROVE  AtLeast(k * resolution, watts) <=> q <= k
    OBVIOUS
  <2>1. (k * resolution) * Reference = k * d /\ k * d \in Int
    BY <1>4, Counts
  <2> HIDE DEF d, n
  <2>2. k * d >= n <=> n <= k * d
    BY <1>4, <2>1
  <2> QED
    BY <1>2, <2>1, <2>2 DEF AtLeast, n
<1> HIDE DEF n, d
<1>6. \A k \in Int : q <= k => q * resolution <= k * resolution
  BY <1>2, Monotone
<1>7. q * resolution \in Nat
  BY <1>2
<1>8. AtLeast(q * resolution, watts)
  BY <1>2, <1>5
<1>9. \A raw \in Int : AtLeast(raw * resolution, watts) => q * resolution <= raw * resolution
  BY <1>5, <1>6
<1> QED
  BY <1>3, <1>7, <1>8, <1>9, Zenon

(***************************************************************************)
(* Windows.                                                                 *)
(***************************************************************************)

LEMMA BoundaryType ==
  ASSUME Reference \in Nat \ {0}, NEW resolution \in Nat \ {0},
         NEW settings \in PowerSettings, NEW direction \in Directions
  PROVE  Boundary(settings, Reference, resolution, direction) \in Int
<1>1. Opposite(direction) \in Directions
  BY DEF Opposite, Directions
<1>2. settings.maximum[direction] \in Nat /\ settings.minimum[Opposite(direction)] \in Nat
  BY <1>1 DEF PowerSettings
<1> DEFINE least == Magnitude(settings.minimum[Opposite(direction)], Reference, resolution, TRUE)
           most == Magnitude(settings.maximum[direction], Reference, resolution, FALSE)
<1>3. least \in Nat /\ most \in Nat
  BY <1>2, MaximumIsGreatest, MinimumIsLeast
<1>4. Boundary(settings, Reference, resolution, direction) \in {-least, most}
  BY DEF Boundary
<1> HIDE DEF least, most
<1> QED
  BY <1>3, <1>4

(* A manual window honours the settings it was made from, in both directions  *)
(* and whatever the rounding does: neither less than a minimum nor more than  *)
(* a maximum that the user set.  (storage_control.power_window)               *)
THEOREM WindowIsInside ==
  ASSUME Reference \in Nat \ {0}, NEW resolution \in Nat \ {0},
         NEW settings \in PowerSettings,
         ManualWindow(settings, Reference, resolution) # None,
         NEW d \in Directions
  PROVE  LET window == ManualWindow(settings, Reference, resolution) IN
         /\ Least(window, d) <= Most(window, d)
         /\ settings.minimum[d] > 0 => AtLeast(Least(window, d), settings.minimum[d])
         /\ settings.minimum[Opposite(d)] = 0 => AtMost(Most(window, d), settings.maximum[d])
<1> DEFINE window == ManualWindow(settings, Reference, resolution)
           B(x) == Boundary(settings, Reference, resolution, x)
<1>1. /\ window = [StorCtl_Mod |-> 3, InWRte |-> B("charge"), OutWRte |-> B("discharge")]
      /\ -B("charge") <= B("discharge")
  BY DEF ManualWindow
<1>2. /\ \A x \in Directions : B(x) \in Int /\ Opposite(x) \in Directions
      /\ \A x \in Directions : Opposite(Opposite(x)) = x
      /\ "charge" \in Directions /\ "discharge" \in Directions
  BY BoundaryType DEF Opposite, Directions
<1>3. \A x \in Directions : Most(window, x) = B(x)
  BY <1>1 DEF Most, Directions
<1>4. Least(window, d) = -B(Opposite(d)) /\ Most(window, d) = B(d)
  BY <1>2, <1>3 DEF Least
<1>5. -B(Opposite(d)) <= B(d)
  <2> HIDE DEF B
  <2> QED
    BY <1>1, <1>2 DEF Opposite, Directions
<1>6. settings.minimum[d] \in Nat /\ settings.maximum[d] \in Nat
  BY DEF PowerSettings
<1>7. ASSUME settings.minimum[d] > 0  PROVE AtLeast(-B(Opposite(d)), settings.minimum[d])
  <2> DEFINE least == Magnitude(settings.minimum[d], Reference, resolution, TRUE)
  <2>1. B(Opposite(d)) = -least
    BY <1>2, <1>7 DEF Boundary
  <2>2. least \in Nat /\ AtLeast(least, settings.minimum[d])
    BY <1>6, MinimumIsLeast
  <2> HIDE DEF least, B
  <2>3. -B(Opposite(d)) = least
    BY <2>1, <2>2
  <2> QED
    BY <2>2, <2>3
<1>8. ASSUME settings.minimum[Opposite(d)] = 0  PROVE AtMost(B(d), settings.maximum[d])
  <2>1. B(d) = Magnitude(settings.maximum[d], Reference, resolution, FALSE)
    BY <1>8 DEF Boundary
  <2> QED
    BY <1>6, <2>1, MaximumIsGreatest
<1> HIDE DEF window, B
<1> QED
  BY <1>4, <1>5, <1>7, <1>8 DEF window

(* A window of valid settings is refused only when no rate that the register  *)
(* can express lies between the minimum and the maximum of a direction.       *)
THEOREM RefusedWindowIsEmpty ==
  ASSUME Reference \in Nat \ {0}, NEW resolution \in Nat \ {0},
         NEW settings \in PowerSettings,
         ValidPowerSettings(settings, Reference), ValidResolution(resolution),
         ManualWindow(settings, Reference, resolution) = None
  PROVE  \E d \in Directions : \A raw \in Int :
            ~(/\ AtLeast(raw * resolution, settings.minimum[d])
              /\ AtMost(raw * resolution, settings.maximum[d]))
<1> DEFINE B(x) == Boundary(settings, Reference, resolution, x)
           M(x) == Magnitude(settings.minimum[x], Reference, resolution, TRUE)
           X(x) == Magnitude(settings.maximum[x], Reference, resolution, FALSE)
<1>1. ~(-B("charge") <= B("discharge"))
  <2>1. [StorCtl_Mod |-> 3, InWRte |-> B("charge"), OutWRte |-> B("discharge")] # None
    BY BoundaryType, WindowAssumption DEF Windows, Directions
  <2> QED
    BY <2>1 DEF ManualWindow
<1>2. /\ "charge" \in Directions /\ "discharge" \in Directions
      /\ \A x \in Directions : settings.minimum[x] \in Nat /\ settings.maximum[x] \in Nat
      /\ \A x \in Directions : M(x) \in Nat /\ X(x) \in Nat
  BY MinimumIsLeast, MaximumIsGreatest DEF Directions, PowerSettings
<1>3. \A x \in Directions :
         B(x) = IF settings.minimum[Opposite(x)] > 0 THEN -M(Opposite(x)) ELSE X(x)
  BY DEF Boundary
<1> HIDE DEF B, M, X
<1>4. PICK d \in Directions : settings.minimum[d] > 0 /\ X(d) < M(d)
  <2>1. /\ B("charge") = IF settings.minimum["discharge"] > 0 THEN -M("discharge") ELSE X("charge")
        /\ B("discharge") = IF settings.minimum["charge"] > 0 THEN -M("charge") ELSE X("discharge")
    BY <1>2, <1>3 DEF Opposite
  <2>2. settings.minimum["charge"] = 0 \/ settings.minimum["discharge"] = 0
    BY DEF ValidPowerSettings, Directions
  <2>3. CASE settings.minimum["discharge"] > 0
    BY <1>1, <1>2, <2>1, <2>2, <2>3
  <2>4. CASE settings.minimum["charge"] > 0
    BY <1>1, <1>2, <2>1, <2>2, <2>4
  <2>5. CASE settings.minimum["charge"] = 0 /\ settings.minimum["discharge"] = 0
    BY <1>1, <1>2, <2>1, <2>5
  <2> QED
    BY <1>2, <2>3, <2>4, <2>5
<1>5. ASSUME NEW raw \in Int,
             AtLeast(raw * resolution, settings.minimum[d]),
             AtMost(raw * resolution, settings.maximum[d])
      PROVE  FALSE
  <2>1. M(d) <= raw * resolution
    BY <1>2, <1>5, MinimumIsLeast DEF M
  <2>2. raw * resolution <= X(d)
    BY <1>2, <1>5, MaximumIsGreatest DEF X
  <2>3. raw * resolution \in Int
    OBVIOUS
  <2> QED
    BY <1>2, <1>4, <2>1, <2>2, <2>3
<1> QED
  BY <1>5

(***************************************************************************)
(* Encoding.                                                                *)
(***************************************************************************)

LEMMA Multiple ==
  ASSUME NEW value \in Int, NEW scale \in Nat \ {0}, value % scale = 0
  PROVE  value \div scale \in Int /\ (value \div scale) * scale = value
  OBVIOUS

(* What is not refused is encoded in the words of its register, as a value    *)
(* that is never taken for a missing one, and read back as what was asked for.*)
(* (encode_register_value and decode_register_value)                          *)
THEOREM EncodedIsDecoded ==
  ASSUME NEW register, NEW value \in Int, NEW scale \in Nat \ {0},
         NEW half \in Nat \ {0}, NEW m, m = 2 * half,
         Encode(register, value, scale, m) # None
  PROVE  LET bits == Encode(register, value, scale, m) IN
         /\ bits \in 0 .. m - 1
         /\ Decode(register.type, bits, scale, m) = value
         /\ InRange(register, value)
<1> DEFINE raw == value \div scale
           bits == ToBits(raw, m)
           type == register.type
<1>1. /\ Encode(register, value, scale, m) = bits
      /\ InRange(register, value) /\ value % scale = 0
      /\ Fits(type, raw, m) /\ bits # Sentinel(type, m)
  BY DEF Encode
<1>2. raw \in Int /\ raw * scale = value
  BY <1>1, Multiple
<1>3. m \in Nat /\ m \div 2 = half
  OBVIOUS
<1> HIDE DEF raw, bits, type
<1>4. bits \in 0 .. m - 1 /\ FromBits(type, bits, m) = raw
  <2>1. CASE type \in Signed
    <3>1. -half <= raw /\ raw < half
      BY <1>1, <1>3, <2>1 DEF Fits
    <3>2. bits = IF raw >= 0 THEN raw ELSE raw + m
      BY DEF bits, ToBits
    <3> QED
      BY <1>2, <1>3, <2>1, <3>1, <3>2 DEF FromBits
  <2>2. CASE type \notin Signed
    <3>1. 0 <= raw /\ raw < m
      BY <1>1, <2>2 DEF Fits
    <3> QED
      BY <1>2, <1>3, <2>2, <3>1 DEF FromBits, ToBits, bits
  <2> QED
    BY <2>1, <2>2
<1>5. Decode(type, bits, scale, m) = value
  BY <1>1, <1>2, <1>4 DEF Decode
<1> QED
  BY <1>1, <1>4, <1>5 DEF type


(***************************************************************************)
(* Words.                                                                   *)
(***************************************************************************)

(* A single word is its own value.  (The fold is its function on the subsets  *)
(* of {1}, which exists: it is written down.)                                 *)
LEMMA SingleWord ==
  ASSUME NEW w \in Nat
  PROVE  Combine(<<w>>) = w
<1> DEFINE Fold(f) == [s \in SUBSET {1} |->
                         IF s = {} THEN 0 ELSE f[s \ {Max(s)}] * Base + <<w>>[Max(s)]]
           fold == [s \in SUBSET {1} |-> IF s = {} THEN 0 ELSE w]
           iter == CHOOSE f : f = Fold(f)
<1>1. Combine(<<w>>) = iter[{1}]
  <2>1. DOMAIN <<w>> = {1}
    OBVIOUS
  <2> QED
    BY <2>1, Zenon DEF Combine, FoldLeft, MapThenFoldSet
<1>2. Max({1}) = 1
  BY DEF Max
<1>3. \A f : f[{}] = 0 => f[{1} \ {Max({1})}] * Base + <<w>>[Max({1})] = w
  <2> SUFFICES ASSUME NEW f, f[{}] = 0
               PROVE  f[{1} \ {Max({1})}] * Base + <<w>>[Max({1})] = w
    OBVIOUS
  <2>1. {1} \ {Max({1})} = {} /\ <<w>>[Max({1})] = w
    BY <1>2
  <2>2. 0 * Base + w = w
    BY BaseAssumption
  <2> QED
    BY <2>1, <2>2
<1>4. \A s \in SUBSET {1} : s = {} \/ s = {1}
  OBVIOUS
<1>5. fold = Fold(fold)
  <2>1. fold[{}] = 0
    OBVIOUS
  <2>2. \A s \in SUBSET {1} :
           (IF s = {} THEN 0 ELSE w)
             = IF s = {} THEN 0 ELSE fold[s \ {Max(s)}] * Base + <<w>>[Max(s)]
    <3> SUFFICES ASSUME NEW s \in SUBSET {1}
                 PROVE  (IF s = {} THEN 0 ELSE w)
                          = IF s = {} THEN 0 ELSE fold[s \ {Max(s)}] * Base + <<w>>[Max(s)]
      OBVIOUS
    <3>1. CASE s = {}
      BY <3>1
    <3>2. CASE s = {1}
      <4>1. w = fold[{1} \ {Max({1})}] * Base + <<w>>[Max({1})]
        BY <1>3, <2>1
      <4> HIDE DEF fold
      <4> QED
        BY <3>2, <4>1
    <3> QED
      BY <1>4, <3>1, <3>2
  <2> HIDE DEF fold
  <2> QED
    BY <2>2 DEF fold
<1>6. iter = Fold(iter)
  BY <1>5, Zenon
<1> HIDE DEF iter
<1>7. iter = [s \in SUBSET {1} |->
                IF s = {} THEN 0 ELSE iter[s \ {Max(s)}] * Base + <<w>>[Max(s)]]
  BY <1>6
<1>8. iter[{}] = 0
  BY <1>7
<1>9. iter[{1}] = iter[{1} \ {Max({1})}] * Base + <<w>>[Max({1})]
  <2>1. {1} \in SUBSET {1} /\ {1} # {}
    OBVIOUS
  <2> QED
    BY <1>7, <2>1
<1> QED
  BY <1>1, <1>3, <1>8, <1>9

(* What is known of the words of a register in a payload.                     *)
LEMMA WordsOf ==
  ASSUME NEW register, register.offset \in Nat, register.size \in Nat \ {0},
         NEW words \in Seq(0 .. Base - 1), RegisterFits(register, Len(words))
  PROVE  /\ Words(register, 0, words) \in Seq(0 .. Base - 1)
         /\ Len(Words(register, 0, words)) = register.size
         /\ \A i \in 1 .. register.size :
              Words(register, 0, words)[i] = words[register.offset + i]
<1>1. Words(register, 0, words) = SubSeq(words, register.offset + 1, End(register))
  <2>1. 0 + register.offset + 1 = register.offset + 1 /\ 0 + End(register) = End(register)
    BY DEF End
  <2> QED
    BY <2>1, Zenon DEF Words
<1>2. /\ register.offset + 1 \in Int /\ End(register) \in Int
      /\ register.offset + 1 <= End(register)
  BY DEF End
<1>3. End(register) - (register.offset + 1) + 1 = register.size
  BY DEF End
<1>4. \A i \in 1 .. register.size : (register.offset + 1) + i - 1 = register.offset + i
  OBVIOUS
<1>5. \A i \in register.offset + 1 .. End(register) : i \in 1 .. Len(words)
  BY <1>2 DEF RegisterFits
<1>6. \A i \in register.offset + 1 .. End(register) : words[i] \in 0 .. Base - 1
  BY <1>5, ElementOfSeq, Zenon
<1> DEFINE m == register.offset + 1
           n == End(register)
           S == 0 .. Base - 1
<1>7. /\ m \in Int /\ n \in Int /\ m <= n /\ n - m + 1 = register.size
      /\ \A i \in 1 .. register.size : m + i - 1 = register.offset + i
      /\ \A i \in m .. n : words[i] \in S
  BY <1>2, <1>3, <1>4, <1>6
<1>8. Words(register, 0, words) = SubSeq(words, m, n)
  BY <1>1
<1> HIDE DEF m, n, S
<1>9. /\ SubSeq(words, m, n) \in Seq(S)
      /\ Len(SubSeq(words, m, n)) = IF m <= n THEN n - m + 1 ELSE 0
      /\ \A i \in 1 .. n - m + 1 : SubSeq(words, m, n)[i] = words[m + i - 1]
  <2>1. m \in Int /\ n \in Int /\ \A i \in m .. n : words[i] \in S
    BY <1>7
  <2> QED
    BY ONLY <2>1, SubSeqProperties
<1>10. /\ SubSeq(words, m, n) \in Seq(S)
       /\ Len(SubSeq(words, m, n)) = register.size
       /\ \A i \in 1 .. register.size : SubSeq(words, m, n)[i] = words[register.offset + i]
  BY <1>7, <1>9
<1> QED
  BY <1>8, <1>10 DEF S

(* The value of a register of one word.                                       *)
LEMMA OneWord ==
  ASSUME NEW register, register.offset \in Nat, register.size = 1,
         NEW words \in Seq(0 .. Base - 1), RegisterFits(register, Len(words))
  PROVE  Combine(Words(register, 0, words)) \in 0 .. Base - 1
<1> DEFINE found == Words(register, 0, words)
<1>1. found \in Seq(0 .. Base - 1) /\ Len(found) = 1
  <2>1. register.size \in Nat \ {0}
    OBVIOUS
  <2> QED
    BY <2>1, WordsOf
<1> HIDE DEF found
<1>2. found = <<found[1]>> /\ found[1] \in 0 .. Base - 1
  <2>1. found[1] \in 0 .. Base - 1
    <3>1. 1 \in 1 .. Len(found)
      BY <1>1
    <3> QED
      BY <1>1, <3>1, ElementOfSeq, Zenon
  <2>2. <<found[1]>> \in Seq(0 .. Base - 1) /\ Len(<<found[1]>>) = 1
    BY <2>1
  <2>3. \A i \in 1 .. 1 : found[i] = <<found[1]>>[i]
    OBVIOUS
  <2> QED
    BY <1>1, <2>1, <2>2, <2>3, SeqEqual
<1>3. Combine(found) = found[1]
  <2>1. found[1] \in Nat
    BY <1>2, BaseAssumption
  <2> QED
    BY <1>2, <2>1, SingleWord
<1> QED
  BY <1>2, <1>3 DEF found


(***************************************************************************)
(* The storage model.                                                       *)
(***************************************************************************)

LEMMA InPart ==
  ASSUME NEW parts, NEW i \in DOMAIN parts, NEW name \in DOMAIN parts[i],
         \A j \in DOMAIN parts : name \in DOMAIN parts[j] => j = i
  PROVE  name \in DOMAIN Registers(parts) /\ Registers(parts)[name] = parts[i][name]
<1>1. name \in UNION {DOMAIN parts[j] : j \in DOMAIN parts}
  OBVIOUS
<1>2. (CHOOSE j \in DOMAIN parts : name \in DOMAIN parts[j]) = i
  OBVIOUS
<1> QED
  BY <1>1, <1>2, Zenon DEF Registers

LEMMA OfParts ==
  ASSUME NEW parts, NEW name
  PROVE  name \in DOMAIN Registers(parts) <=> \E i \in DOMAIN parts : name \in DOMAIN parts[i]
  BY Zenon DEF Registers

LEMMA Singled ==
  ASSUME NEW name, NEW register
  PROVE  DOMAIN Single(name, register) = {name} /\ Single(name, register)[name] = register
  BY DEF Single

LEMMA RowOfOne ==
  ASSUME NEW offset, NEW type, NEW scaleFactor, NEW name
  PROVE  DOMAIN Row(offset, type, scaleFactor, <<name>>) = {name}
  BY DEF Row, Range

(* Where the storage model has the registers that its control uses.           *)
LEMMA StateParts ==
  /\ \A name \in DOMAIN StorageState124 :
        name \in {"WChaMax", "WChaGra", "WDisChaGra", "StorCtl_Mod", "VAChaMax", "MinRsvPct",
                  "ChaState", "StorAval", "InBatV", "ChaSt"}
  /\ {"WChaMax", "MinRsvPct"} \subseteq DOMAIN StorageState124
  /\ StorageState124["WChaMax"] = Row(0, "uint16", "WChaMax_SF", <<"WChaMax">>)["WChaMax"]
  /\ StorageState124["MinRsvPct"] =
        Setting(5, "uint16", "MinRsvPct_SF", "MinRsvPct", 0, 100)["MinRsvPct"]
<1> DEFINE a1 == Row(0, "uint16", "WChaMax_SF", <<"WChaMax">>)
           a2 == Row(1, "uint16", "WChaDisChaGra_SF", <<"WChaGra", "WDisChaGra">>)
           a3 == Choice(3, "bitfield16", "StorCtl_Mod", {1, 2})
           a4 == Unbounded(4, "uint16", "VAChaMax_SF", "VAChaMax")
           a5 == Setting(5, "uint16", "MinRsvPct_SF", "MinRsvPct", 0, 100)
           a6 == Row(6, "uint16", "ChaState_SF", <<"ChaState">>)
           a7 == Row(7, "uint16", "StorAval_SF", <<"StorAval">>)
           a8 == Row(8, "uint16", "InBatV_SF", <<"InBatV">>)
           a9 == Row(9, "enum16", None, <<"ChaSt">>)
           parts == <<a1, a2, a3, a4, a5, a6, a7, a8, a9>>
<1>1. /\ DOMAIN a1 = {"WChaMax"} /\ DOMAIN a6 = {"ChaState"} /\ DOMAIN a7 = {"StorAval"}
      /\ DOMAIN a8 = {"InBatV"} /\ DOMAIN a9 = {"ChaSt"}
  BY RowOfOne DEF Row, Range
<1>2. DOMAIN a2 = {"WChaGra", "WDisChaGra"}
  BY DEF Row, Range
<1>3. DOMAIN a3 = {"StorCtl_Mod"} /\ DOMAIN a4 = {"VAChaMax"} /\ DOMAIN a5 = {"MinRsvPct"}
  BY Singled, Zenon DEF Setting, Choice, Unbounded
<1>4. StorageState124 = Registers(parts)
  BY Zenon DEF StorageState124
<1> HIDE DEF a1, a2, a3, a4, a5, a6, a7, a8, a9
<1>5. /\ DOMAIN parts = 1 .. 9
      /\ parts[1] = a1 /\ parts[2] = a2 /\ parts[3] = a3 /\ parts[4] = a4 /\ parts[5] = a5
      /\ parts[6] = a6 /\ parts[7] = a7 /\ parts[8] = a8 /\ parts[9] = a9
  OBVIOUS
<1>6. \A i \in 1 .. 9 : i \in {1, 2, 3, 4, 5, 6, 7, 8, 9}
  OBVIOUS
<1> HIDE DEF parts
<1>7. \A i \in DOMAIN parts :
        \A name \in DOMAIN parts[i] :
           name \in {"WChaMax", "WChaGra", "WDisChaGra", "StorCtl_Mod", "VAChaMax", "MinRsvPct",
                     "ChaState", "StorAval", "InBatV", "ChaSt"}
  BY <1>1, <1>2, <1>3, <1>5, <1>6
<1>8. \A i \in DOMAIN parts :
        /\ "WChaMax" \in DOMAIN parts[i] <=> i = 1
        /\ "MinRsvPct" \in DOMAIN parts[i] <=> i = 5
  BY <1>1, <1>2, <1>3, <1>5, <1>6
<1>9. /\ "WChaMax" \in DOMAIN Registers(parts) /\ Registers(parts)["WChaMax"] = a1["WChaMax"]
      /\ "MinRsvPct" \in DOMAIN Registers(parts) /\ Registers(parts)["MinRsvPct"] = a5["MinRsvPct"]
  BY <1>5, <1>8, InPart
<1>10. \A name \in DOMAIN Registers(parts) : \E i \in DOMAIN parts : name \in DOMAIN parts[i]
  BY OfParts
<1> QED
  BY <1>4, <1>7, <1>9, <1>10 DEF a1, a5


LEMMA RowDomain ==
  ASSUME NEW offset, NEW type, NEW scaleFactor, NEW names
  PROVE  DOMAIN Row(offset, type, scaleFactor, names) = Range(names)
  BY DEF Row

LEMMA RateParts ==
  /\ \A name \in DOMAIN StorageRates124 :
        name \in {"OutWRte", "InWRte", "InOutWRte_WinTms", "InOutWRte_RvrtTms",
                  "InOutWRte_RmpTms", "ChaGriSet", "WChaMax_SF", "WChaDisChaGra_SF",
                  "VAChaMax_SF", "MinRsvPct_SF", "ChaState_SF", "StorAval_SF", "InBatV_SF",
                  "InOutWRte_SF"}
  /\ {"OutWRte", "InWRte", "ChaGriSet", "InOutWRte_SF"} \subseteq DOMAIN StorageRates124
  /\ StorageRates124["OutWRte"] =
        Setting(10, "int16", "InOutWRte_SF", "OutWRte", -100, 100)["OutWRte"]
  /\ StorageRates124["InWRte"] =
        Setting(11, "int16", "InOutWRte_SF", "InWRte", -100, 100)["InWRte"]
  /\ StorageRates124["ChaGriSet"] = Choice(15, "enum16", "ChaGriSet", {0, 1})["ChaGriSet"]
  /\ StorageRates124["InOutWRte_SF"] =
        Factors(16, <<"WChaMax_SF", "WChaDisChaGra_SF", "VAChaMax_SF", "MinRsvPct_SF",
                      "ChaState_SF", "StorAval_SF", "InBatV_SF", "InOutWRte_SF">>)["InOutWRte_SF"]
<1> DEFINE a1 == Setting(10, "int16", "InOutWRte_SF", "OutWRte", -100, 100)
           a2 == Setting(11, "int16", "InOutWRte_SF", "InWRte", -100, 100)
           a3 == Row(12, "uint16", None, <<"InOutWRte_WinTms">>)
           a4 == Setting(13, "uint16", None, "InOutWRte_RvrtTms", 0, 28800)
           a5 == Row(14, "uint16", None, <<"InOutWRte_RmpTms">>)
           a6 == Choice(15, "enum16", "ChaGriSet", {0, 1})
           a7 == Factors(16, <<"WChaMax_SF", "WChaDisChaGra_SF", "VAChaMax_SF", "MinRsvPct_SF",
                               "ChaState_SF", "StorAval_SF", "InBatV_SF", "InOutWRte_SF">>)
           parts == <<a1, a2, a3, a4, a5, a6, a7>>
<1>1. DOMAIN a3 = {"InOutWRte_WinTms"} /\ DOMAIN a5 = {"InOutWRte_RmpTms"}
  BY RowOfOne DEF Row, Range
<1>2. /\ DOMAIN a1 = {"OutWRte"} /\ DOMAIN a2 = {"InWRte"} /\ DOMAIN a4 = {"InOutWRte_RvrtTms"}
      /\ DOMAIN a6 = {"ChaGriSet"}
  BY DEF Setting, Choice, Single
<1>3. DOMAIN a7 = {"WChaMax_SF", "WChaDisChaGra_SF", "VAChaMax_SF", "MinRsvPct_SF", "ChaState_SF",
                   "StorAval_SF", "InBatV_SF", "InOutWRte_SF"}
  <2> DEFINE names == <<"WChaMax_SF", "WChaDisChaGra_SF", "VAChaMax_SF", "MinRsvPct_SF",
                        "ChaState_SF", "StorAval_SF", "InBatV_SF", "InOutWRte_SF">>
  <2>1. DOMAIN a7 = Range(names)
    <3>1. a7 = Row(16, "sunssf", None, names)
      BY DEF Factors
    <3> HIDE DEF names, a7
    <3> QED
      BY <3>1, RowDomain
  <2>2. DOMAIN names = {1, 2, 3, 4, 5, 6, 7, 8}
    OBVIOUS
  <2>3. Range(names) = {names[1], names[2], names[3], names[4], names[5], names[6], names[7],
                        names[8]}
    <3> HIDE DEF names
    <3> QED
      BY <2>2 DEF Range
  <2> HIDE DEF a7
  <2> QED
    BY <2>1, <2>3
<1>4. StorageRates124 = Registers(parts)
  BY DEF StorageRates124
<1> HIDE DEF a1, a2, a3, a4, a5, a6, a7
<1>5. /\ DOMAIN parts = 1 .. 7
      /\ parts[1] = a1 /\ parts[2] = a2 /\ parts[3] = a3 /\ parts[4] = a4 /\ parts[5] = a5
      /\ parts[6] = a6 /\ parts[7] = a7
  OBVIOUS
<1>6. \A i \in 1 .. 7 : i \in {1, 2, 3, 4, 5, 6, 7}
  OBVIOUS
<1> HIDE DEF parts
<1>7. \A i \in DOMAIN parts :
        \A name \in DOMAIN parts[i] :
           name \in {"OutWRte", "InWRte", "InOutWRte_WinTms", "InOutWRte_RvrtTms",
                  "InOutWRte_RmpTms", "ChaGriSet", "WChaMax_SF", "WChaDisChaGra_SF",
                  "VAChaMax_SF", "MinRsvPct_SF", "ChaState_SF", "StorAval_SF", "InBatV_SF",
                  "InOutWRte_SF"}
  BY <1>1, <1>2, <1>3, <1>5, <1>6
<1>8. \A i \in DOMAIN parts :
        /\ "OutWRte" \in DOMAIN parts[i] <=> i = 1
        /\ "InWRte" \in DOMAIN parts[i] <=> i = 2
        /\ "ChaGriSet" \in DOMAIN parts[i] <=> i = 6
        /\ "InOutWRte_SF" \in DOMAIN parts[i] <=> i = 7
  BY <1>1, <1>2, <1>3, <1>5, <1>6
<1>9. /\ "OutWRte" \in DOMAIN Registers(parts) /\ Registers(parts)["OutWRte"] = a1["OutWRte"]
      /\ "InWRte" \in DOMAIN Registers(parts) /\ Registers(parts)["InWRte"] = a2["InWRte"]
      /\ "ChaGriSet" \in DOMAIN Registers(parts) /\ Registers(parts)["ChaGriSet"] = a6["ChaGriSet"]
      /\ "InOutWRte_SF" \in DOMAIN Registers(parts)
      /\ Registers(parts)["InOutWRte_SF"] = a7["InOutWRte_SF"]
  <2>1. ASSUME NEW name, NEW i \in DOMAIN parts,
               \A j \in DOMAIN parts : name \in DOMAIN parts[j] <=> j = i
        PROVE  name \in DOMAIN Registers(parts) /\ Registers(parts)[name] = parts[i][name]
    BY <2>1, InPart
  <2>2. 1 \in DOMAIN parts /\ 2 \in DOMAIN parts /\ 6 \in DOMAIN parts /\ 7 \in DOMAIN parts
    BY <1>5
  <2>3. /\ "OutWRte" \in DOMAIN Registers(parts) /\ Registers(parts)["OutWRte"] = parts[1]["OutWRte"]
        /\ "InWRte" \in DOMAIN Registers(parts) /\ Registers(parts)["InWRte"] = parts[2]["InWRte"]
    BY <1>8, <2>1, <2>2
  <2>4. /\ "ChaGriSet" \in DOMAIN Registers(parts)
        /\ Registers(parts)["ChaGriSet"] = parts[6]["ChaGriSet"]
        /\ "InOutWRte_SF" \in DOMAIN Registers(parts)
        /\ Registers(parts)["InOutWRte_SF"] = parts[7]["InOutWRte_SF"]
    BY <1>8, <2>1, <2>2
  <2> QED
    BY <1>5, <2>3, <2>4
<1>10. \A name \in DOMAIN Registers(parts) : \E i \in DOMAIN parts : name \in DOMAIN parts[i]
  BY OfParts
<1> QED
  BY <1>4, <1>7, <1>9, <1>10 DEF a1, a2, a6, a7

LEMMA StorageHas ==
  LET registers == Storage124.registers IN
  /\ {"WChaMax", "MinRsvPct", "OutWRte", "InWRte", "ChaGriSet", "InOutWRte_SF"}
        \subseteq DOMAIN registers
  /\ \A name \in {"WChaMax", "MinRsvPct"} : registers[name] = StorageState124[name]
  /\ \A name \in {"OutWRte", "InWRte", "ChaGriSet", "InOutWRte_SF"} :
        registers[name] = StorageRates124[name]
<1> DEFINE parts == <<StorageState124, StorageRates124>>
<1>1. Storage124.registers = Registers(parts)
  BY DEF Storage124, Model
<1>2. DOMAIN parts = {1, 2} /\ parts[1] = StorageState124 /\ parts[2] = StorageRates124
  OBVIOUS
<1> HIDE DEF parts
<1>3. \A name \in {"WChaMax", "MinRsvPct"} :
         name \in DOMAIN Registers(parts) /\ Registers(parts)[name] = parts[1][name]
  BY <1>2, StateParts, RateParts, InPart
<1>4. \A name \in {"OutWRte", "InWRte", "ChaGriSet", "InOutWRte_SF"} :
         name \in DOMAIN Registers(parts) /\ Registers(parts)[name] = parts[2][name]
  BY <1>2, StateParts, RateParts, InPart
<1> QED
  BY <1>1, <1>2, <1>3, <1>4

LEMMA RowFields ==
  ASSUME NEW offset, NEW type, NEW scaleFactor, NEW names, NEW name \in Range(names)
  PROVE  LET register == Row(offset, type, scaleFactor, names)[name] IN
         /\ register.size = ExpectedSize[type]
         /\ register.type = type /\ register.scaleFactor = scaleFactor
         /\ ~register.writable
  BY DEF Row, Register

(* The registers that the control of the storage reads and writes.            *)
LEMMA StorageRegisters ==
  LET registers == Storage124.registers
      reserve == registers["MinRsvPct"]
      permission == registers["ChaGriSet"]
      reference == registers["WChaMax"]
      factor == registers["InOutWRte_SF"]
  IN /\ {"WChaMax", "MinRsvPct", "OutWRte", "InWRte", "ChaGriSet", "InOutWRte_SF"}
           \subseteq DOMAIN registers
     /\ reserve.writable = TRUE /\ reserve.type = "uint16" /\ reserve.size = 1
     /\ reserve.lo = 0 /\ reserve.hi = Full /\ reserve.step = None /\ reserve.options = None
     /\ permission.writable = TRUE /\ permission.type = "enum16" /\ permission.size = 1
     /\ permission.lo = None /\ permission.hi = None /\ permission.step = None
     /\ permission.scaleFactor = None /\ permission.options = {0, 1}
     /\ \A name \in {"InWRte", "OutWRte"} :
           /\ registers[name].writable = TRUE /\ registers[name].type = "int16"
           /\ registers[name].size = 1
           /\ registers[name].lo = -Full /\ registers[name].hi = Full
           /\ registers[name].step = None /\ registers[name].options = None
           /\ registers[name].scaleFactor = "InOutWRte_SF"
     /\ reference.type = "uint16" /\ reference.size = 1 /\ reference.scaleFactor = "WChaMax_SF"
     /\ factor.type = "sunssf" /\ factor.size = 1 /\ factor.scaleFactor = None
<1> DEFINE registers == Storage124.registers
<1>1. registers["MinRsvPct"] = Setting(5, "uint16", "MinRsvPct_SF", "MinRsvPct", 0, 100)["MinRsvPct"]
  BY StorageHas, StateParts
<1>2. registers["ChaGriSet"] = Choice(15, "enum16", "ChaGriSet", {0, 1})["ChaGriSet"]
  BY StorageHas, RateParts
<1>3. /\ registers["InWRte"] = Setting(11, "int16", "InOutWRte_SF", "InWRte", -100, 100)["InWRte"]
      /\ registers["OutWRte"] = Setting(10, "int16", "InOutWRte_SF", "OutWRte", -100, 100)["OutWRte"]
  BY StorageHas, RateParts
<1>4. registers["WChaMax"] = Row(0, "uint16", "WChaMax_SF", <<"WChaMax">>)["WChaMax"]
  BY StorageHas, StateParts
<1>5. registers["InOutWRte_SF"] =
        Factors(16, <<"WChaMax_SF", "WChaDisChaGra_SF", "VAChaMax_SF", "MinRsvPct_SF",
                      "ChaState_SF", "StorAval_SF", "InBatV_SF", "InOutWRte_SF">>)["InOutWRte_SF"]
  BY StorageHas, RateParts
<1>6. 0 * Unit = 0 /\ 100 * Unit = Full /\ (-100) * Unit = -Full
  BY UnitAssumption DEF Full
<1>7. ExpectedSize["uint16"] = 1 /\ ExpectedSize["sunssf"] = 1
  BY DEF ExpectedSize
<1>8. /\ registers["WChaMax"].type = "uint16" /\ registers["WChaMax"].size = 1
      /\ registers["WChaMax"].scaleFactor = "WChaMax_SF"
  <2>1. "WChaMax" \in Range(<<"WChaMax">>)
    BY DEF Range
  <2> QED
    BY <1>4, <1>7, <2>1, RowFields
<1>9. /\ registers["InOutWRte_SF"].type = "sunssf" /\ registers["InOutWRte_SF"].size = 1
      /\ registers["InOutWRte_SF"].scaleFactor = None
  <2> DEFINE names == <<"WChaMax_SF", "WChaDisChaGra_SF", "VAChaMax_SF", "MinRsvPct_SF",
                        "ChaState_SF", "StorAval_SF", "InBatV_SF", "InOutWRte_SF">>
  <2>1. "InOutWRte_SF" \in Range(names)
    <3>1. 8 \in DOMAIN names /\ names[8] = "InOutWRte_SF"
      OBVIOUS
    <3> HIDE DEF names
    <3> QED
      BY <3>1 DEF Range
  <2>2. registers["InOutWRte_SF"] = Row(16, "sunssf", None, names)["InOutWRte_SF"]
    BY <1>5 DEF Factors
  <2> HIDE DEF names, registers
  <2> QED
    BY <1>7, <2>1, <2>2, RowFields
<1> HIDE DEF registers
<1>10. /\ registers["MinRsvPct"].writable = TRUE /\ registers["MinRsvPct"].type = "uint16"
       /\ registers["MinRsvPct"].size = 1 /\ registers["MinRsvPct"].lo = 0
       /\ registers["MinRsvPct"].hi = Full /\ registers["MinRsvPct"].step = None
       /\ registers["MinRsvPct"].options = None
  <2> DEFINE setting == Setting(5, "uint16", "MinRsvPct_SF", "MinRsvPct", 0, 100)["MinRsvPct"]
  <2>1. /\ setting.writable = TRUE /\ setting.type = "uint16" /\ setting.size = 1
        /\ setting.lo = 0 * Unit /\ setting.hi = 100 * Unit /\ setting.step = None
        /\ setting.options = None
    BY DEF Setting, Single, Register
  <2> HIDE DEF setting
  <2> QED
    BY <1>1, <1>6, <2>1 DEF setting
<1>11. /\ registers["ChaGriSet"].writable = TRUE /\ registers["ChaGriSet"].type = "enum16"
       /\ registers["ChaGriSet"].size = 1 /\ registers["ChaGriSet"].lo = None
       /\ registers["ChaGriSet"].hi = None /\ registers["ChaGriSet"].step = None
       /\ registers["ChaGriSet"].scaleFactor = None /\ registers["ChaGriSet"].options = {0, 1}
  <2> DEFINE choice == Choice(15, "enum16", "ChaGriSet", {0, 1})["ChaGriSet"]
  <2>1. /\ choice.writable = TRUE /\ choice.type = "enum16" /\ choice.size = 1
        /\ choice.lo = None /\ choice.hi = None /\ choice.step = None
        /\ choice.scaleFactor = None /\ choice.options = {0, 1}
    BY DEF Choice, Single, Register
  <2> HIDE DEF choice
  <2> QED
    BY <1>2, <2>1 DEF choice
<1>12. \A name \in {"InWRte", "OutWRte"} :
           /\ registers[name].writable = TRUE /\ registers[name].type = "int16"
           /\ registers[name].size = 1
           /\ registers[name].lo = -Full /\ registers[name].hi = Full
           /\ registers[name].step = None /\ registers[name].options = None
           /\ registers[name].scaleFactor = "InOutWRte_SF"
  <2> SUFFICES ASSUME NEW name \in {"InWRte", "OutWRte"}
               PROVE  /\ registers[name].writable = TRUE /\ registers[name].type = "int16"
                      /\ registers[name].size = 1
                      /\ registers[name].lo = -Full /\ registers[name].hi = Full
                      /\ registers[name].step = None /\ registers[name].options = None
                      /\ registers[name].scaleFactor = "InOutWRte_SF"
    OBVIOUS
  <2>2. ASSUME NEW register, register.lo = (-100) * Unit /\ register.hi = 100 * Unit
        PROVE  register.lo = -Full /\ register.hi = Full
    BY <1>6, <2>2
  <2>3. CASE name = "InWRte"
    <3> DEFINE rate == Setting(11, "int16", "InOutWRte_SF", "InWRte", -100, 100)["InWRte"]
    <3>1. registers[name] = rate
      BY <1>3, <2>3
    <3>2. /\ rate.writable = TRUE /\ rate.type = "int16" /\ rate.size = 1
          /\ rate.lo = (-100) * Unit /\ rate.hi = 100 * Unit
          /\ rate.step = None /\ rate.options = None
          /\ rate.scaleFactor = "InOutWRte_SF"
      BY DEF Setting, Single, Register
    <3> HIDE DEF rate
    <3> QED
      BY <2>2, <3>1, <3>2
  <2>4. CASE name = "OutWRte"
    <3> DEFINE rate == Setting(10, "int16", "InOutWRte_SF", "OutWRte", -100, 100)["OutWRte"]
    <3>1. registers[name] = rate
      BY <1>3, <2>4
    <3>2. /\ rate.writable = TRUE /\ rate.type = "int16" /\ rate.size = 1
          /\ rate.lo = (-100) * Unit /\ rate.hi = 100 * Unit
          /\ rate.step = None /\ rate.options = None
          /\ rate.scaleFactor = "InOutWRte_SF"
      BY DEF Setting, Single, Register
    <3> HIDE DEF rate
    <3> QED
      BY <2>2, <3>1, <3>2
  <2> QED
    BY <2>3, <2>4
<1>13. {"WChaMax", "MinRsvPct", "OutWRte", "InWRte", "ChaGriSet", "InOutWRte_SF"}
           \subseteq DOMAIN registers
  BY StorageHas DEF registers
<1> QED
  BY <1>8, <1>9, <1>10, <1>11, <1>12, <1>13 DEF registers


(***************************************************************************)
(* Writing one register.                                                    *)
(***************************************************************************)

Word == 0 .. Base - 1

RegistersOf(id) == ModelDefinitions[id].registers

LEMMA Layout ==
  ASSUME NEW id \in DOMAIN ModelDefinitions, NEW name \in DOMAIN RegistersOf(id)
  PROVE  LET register == RegistersOf(id)[name] IN
         /\ ValidRegister(register)
         /\ register.offset \in Nat /\ register.size \in Nat \ {0}
         /\ FactorDefined(register, RegistersOf(id))
         /\ \A other \in DOMAIN RegistersOf(id) \ {name} : ~Overlap(register, RegistersOf(id)[other])
<1>1. WellFormed(ModelDefinitions[id])
  BY DefinitionsAssumption
<1>2. /\ ValidRegisters(RegistersOf(id), RegistersOf(id))
      /\ ValidLayout(RegistersOf(id), ModelDefinitions[id].length)
  BY <1>1, Zenon DEF WellFormed, RegistersOf
<1>3. ValidRegister(RegistersOf(id)[name]) /\ FactorDefined(RegistersOf(id)[name], RegistersOf(id))
  BY <1>2, Zenon DEF ValidRegisters
<1>4. \A other \in DOMAIN RegistersOf(id) \ {name} :
         ~Overlap(RegistersOf(id)[name], RegistersOf(id)[other])
  BY <1>2, Zenon DEF ValidLayout
<1>5. RegistersOf(id)[name].offset \in Nat /\ RegistersOf(id)[name].size \in Nat \ {0}
  BY <1>3, Zenon DEF ValidRegister
<1> QED
  BY <1>3, <1>4, <1>5

(* A write changes words, not how many there are.                             *)
LEMMA WrittenWords ==
  ASSUME NEW register, register.offset \in Nat,
         NEW new \in Seq(Word), NEW words \in Seq(Word)
  PROVE  /\ Written(register, new, words) \in Seq(Word)
         /\ Len(Written(register, new, words)) = Len(words)
         /\ \A i \in 1 .. Len(words) :
               Written(register, new, words)[i] =
                  IF i - register.offset \in DOMAIN new THEN new[i - register.offset] ELSE words[i]
<1> DEFINE written == Written(register, new, words)
<1>1. /\ DOMAIN words = 1 .. Len(words) /\ Len(words) \in Nat
      /\ \A i \in 1 .. Len(words) : words[i] \in Word
  BY LenProperties, ElementOfSeq
<1>2. \A i \in DOMAIN new : new[i] \in Word
  BY ElementOfSeq
<1>3. written = [i \in 1 .. Len(words) |->
                   IF i - register.offset \in DOMAIN new THEN new[i - register.offset] ELSE words[i]]
  BY <1>1 DEF Written
<1> HIDE DEF written
<1>4. written \in [1 .. Len(words) -> Word]
  BY <1>1, <1>2, <1>3
<1>5. written \in Seq(Word)
  BY ONLY <1>1, <1>4, SeqDef
<1>6. Len(written) = Len(words)
  BY <1>1, <1>4, <1>5
<1> QED
  BY <1>3, <1>5, <1>6 DEF written

(* The words of a register that does not overlap it stay as they are.         *)
LEMMA OtherWords ==
  ASSUME NEW a, a.offset \in Nat, a.size \in Nat \ {0},
         NEW b, b.offset \in Nat, b.size \in Nat \ {0}, ~Overlap(a, b),
         NEW new \in Seq(Word), Len(new) = a.size,
         NEW words \in Seq(Word), RegisterFits(b, Len(words))
  PROVE  Words(b, 0, Written(a, new, words)) = Words(b, 0, words)
<1> DEFINE written == Written(a, new, words)
<1>1. /\ written \in Seq(Word) /\ Len(written) = Len(words)
      /\ \A i \in 1 .. Len(words) :
           written[i] = IF i - a.offset \in DOMAIN new THEN new[i - a.offset] ELSE words[i]
  BY WrittenWords
<1> HIDE DEF written
<1>2. /\ Words(b, 0, words) \in Seq(Word) /\ Len(Words(b, 0, words)) = b.size
      /\ \A i \in 1 .. b.size : Words(b, 0, words)[i] = words[b.offset + i]
  BY WordsOf DEF Word
<1>3. /\ Words(b, 0, written) \in Seq(Word) /\ Len(Words(b, 0, written)) = b.size
      /\ \A i \in 1 .. b.size : Words(b, 0, written)[i] = written[b.offset + i]
  <2>1. RegisterFits(b, Len(written))
    BY <1>1
  <2> QED
    BY <1>1, <2>1, WordsOf DEF Word
<1>4. ASSUME NEW i \in 1 .. b.size  PROVE written[b.offset + i] = words[b.offset + i]
  <2>1. b.offset + i \in 1 .. Len(words)
    BY DEF RegisterFits, End
  <2>2. DOMAIN new = 1 .. a.size
    BY LenProperties
  <2>3. b.offset + i - a.offset \notin 1 .. a.size
    <3>1. a.offset \in Int /\ a.size \in Int /\ b.offset \in Int /\ b.size \in Int
      OBVIOUS
    <3>2. b.offset + b.size <= a.offset \/ a.offset + a.size <= b.offset
      BY <3>1 DEF Overlap, End
    <3>3. i \in Int /\ 1 <= i /\ i <= b.size
      BY <3>1
    <3>4. ASSUME NEW x \in Int, NEW y \in Int, NEW p \in Int, NEW q \in Int,
                 y + q <= x \/ x + p <= y, 1 <= i, i <= q
          PROVE  ~(1 <= y + i - x /\ y + i - x <= p)
      BY <3>3, <3>4
    <3>5. ~(1 <= b.offset + i - a.offset /\ b.offset + i - a.offset <= a.size)
      BY <3>1, <3>2, <3>3, <3>4
    <3> QED
      BY <3>1, <3>3, <3>5
  <2> DEFINE j == b.offset + i
  <2>4. j \in 1 .. Len(words) /\ j - a.offset \notin DOMAIN new
    BY <2>1, <2>2, <2>3
  <2> HIDE DEF j
  <2>5. written[j] = words[j]
    BY <1>1, <2>4
  <2> QED
    BY <2>5 DEF j
<1>5. \A i \in 1 .. b.size : Words(b, 0, written)[i] = Words(b, 0, words)[i]
  BY <1>2, <1>3, <1>4
<1>6. Words(b, 0, written) = Words(b, 0, words)
  <2> DEFINE s == Words(b, 0, written)
             t == Words(b, 0, words)
  <2>1. s \in Seq(Word) /\ t \in Seq(Word) /\ Len(s) = Len(t) /\ \A i \in 1 .. Len(s) : s[i] = t[i]
    BY <1>2, <1>3, <1>5
  <2> HIDE DEF s, t
  <2>2. s = t
    BY <2>1, SeqEqual
  <2> QED
    BY <2>2 DEF s, t
<1> QED
  BY <1>6 DEF written

(* The scale of a register is known when its factor is there and implemented. *)
LEMMA LiveScales ==
  ASSUME NEW registers, NEW words, Scaled(registers, words), NEW name \in DOMAIN registers
  PROVE  LET register == registers[name]
             factor == FactorOf(register, registers)
         IN /\ LiveScale(register, registers, words) \in {None} \cup (Nat \ {0})
            /\ register.scaleFactor # None
                  => (LiveScale(register, registers, words) # None <=>
                        /\ RegisterFits(factor, Len(words))
                        /\ FactorValue(register, registers, words) # None)
            /\ register.scaleFactor = None => LiveScale(register, registers, words) # None
<1> DEFINE register == registers[name]
           fits == RegisterFits(FactorOf(register, registers), Len(words))
           sf == FactorValue(register, registers, words)
<1>1. CASE register.scaleFactor = None
  <2>1. LiveScale(register, registers, words) = Scale(register.type, None)
    BY <1>1, Zenon DEF LiveScale
  <2>2. Scale(register.type, None) \in Nat \ {0}
    BY UnitAssumption DEF Scale
  <2> HIDE DEF register
  <2> QED
    BY <1>1, <2>1, <2>2, NoneAssumption DEF register
<1>2. CASE register.scaleFactor # None
  <2>1. fits /\ sf # None => Scale(register.type, sf) \in Nat \ {0}
    BY <1>2, Zenon DEF Scaled
  <2>2. LiveScale(register, registers, words) =
           IF ~fits \/ sf = None THEN None ELSE Scale(register.type, sf)
    BY <1>2, Zenon DEF LiveScale
  <2>3. LiveScale(register, registers, words) \in {None} \cup (Nat \ {0})
    BY <2>1, <2>2
  <2>4. LiveScale(register, registers, words) # None <=> fits /\ sf # None
    BY <2>1, <2>2, NoneAssumption
  <2> QED
    BY <1>2, <2>3, <2>4
<1> QED
  BY <1>1, <1>2

(* What a write is prepared with.                                             *)
LEMMA Preparation ==
  ASSUME NEW id \in DOMAIN ModelDefinitions, NEW name \in DOMAIN RegistersOf(id),
         NEW value \in Int, NEW words \in Seq(Word), Scaled(RegistersOf(id), words),
         Prepare(name, value, RegistersOf(id), words) # None
  PROVE  LET register == RegistersOf(id)[name]
             plan == Prepare(name, value, RegistersOf(id), words)
         IN /\ RegisterFits(register, Len(words))
            /\ register.writable /\ register.size = 1 /\ register.type \in Encodable
            /\ plan.scale = LiveScale(register, RegistersOf(id), words)
            /\ plan.scale \in Nat \ {0}
            /\ plan.words \in Seq(Word) /\ Len(plan.words) = register.size
            /\ InRange(register, value)
            /\ Known(register, value \div plan.scale)
<1> DEFINE register == RegistersOf(id)[name]
           scale == LiveScale(register, RegistersOf(id), words)
           m == Modulus(register.size)
           bits == Encode(register, value, scale, m)
<1>1. /\ RegisterFits(register, Len(words)) /\ scale # None /\ bits # None
      /\ Prepare(name, value, RegistersOf(id), words)
            = [scale |-> scale, words |-> Split(bits, register.size)]
  BY Zenon DEF Prepare
<1>2. scale \in Nat \ {0}
  BY <1>1, LiveScales
<1>3. /\ register.writable /\ register.type \in Encodable
      /\ InRange(register, value) /\ Known(register, value \div scale)
      /\ bits = ToBits(value \div scale, m)
  BY <1>1, Zenon DEF Encode
<1>4. register.size = 1
  BY <1>3, WritableAssumption DEF RegistersOf
<1>5. value \div scale \in Int
  BY <1>2
<1>6. m = Base
  BY <1>4, ModulusAssumption
<1>7. bits \in Int
  BY <1>3, <1>5, <1>6, BaseAssumption DEF ToBits
<1> HIDE DEF bits, scale, m, register
<1>8. Split(bits, 1) \in Seq(Word) /\ Len(Split(bits, 1)) = 1
  <2>1. Split(bits, 1) = [i \in 1 .. 1 |-> (bits \div Modulus(1 - i)) % Base]
    BY DEF Split
  <2>2. \A i \in 1 .. 1 : (bits \div Modulus(1 - i)) % Base \in Word
    <3>1. Modulus(1 - 1) = 1
      BY ModulusAssumption
    <3>2. (bits \div 1) % Base \in Word
      <4>1. bits \div 1 \in Int
        BY <1>7
      <4> QED
        BY <4>1, BaseAssumption DEF Word
    <3>3. \A i \in 1 .. 1 : i = 1
      OBVIOUS
    <3> QED
      BY <3>1, <3>2, <3>3
  <2> DEFINE s == Split(bits, 1)
  <2>3. s \in [1 .. 1 -> Word]
    <3> DEFINE w(i) == (bits \div Modulus(1 - i)) % Base
    <3>1. s = [i \in 1 .. 1 |-> w(i)] /\ \A i \in 1 .. 1 : w(i) \in Word
      BY <2>1, <2>2
    <3> HIDE DEF w, s
    <3> QED
      BY <3>1
  <2> HIDE DEF s
  <2>4. s \in Seq(Word) /\ Len(s) = 1
    <3> DEFINE n == 1
    <3>1. n \in Nat /\ s \in [1 .. n -> Word]
      BY <2>3
    <3> HIDE DEF n
    <3>2. s \in Seq(Word)
      BY ONLY <3>1, SeqDef
    <3> QED
      BY <2>3, <3>2
  <2> QED
    BY <2>4 DEF s
<1>9. LET plan == Prepare(name, value, RegistersOf(id), words) IN
      plan.scale = scale /\ plan.words = Split(bits, 1)
  BY <1>1, <1>4 DEF register
<1> QED
  BY <1>1, <1>2, <1>3, <1>4, <1>8, <1>9, Zenon DEF register, scale


(* No other register, nor the factor of any, is touched by a write.           *)
LEMMA OthersAreKept ==
  ASSUME NEW id \in DOMAIN ModelDefinitions, NEW name \in DOMAIN RegistersOf(id),
         RegistersOf(id)[name].writable,
         NEW new \in Seq(Word), Len(new) = RegistersOf(id)[name].size,
         NEW words \in Seq(Word),
         NEW n \in DOMAIN RegistersOf(id)
  PROVE  LET registers == RegistersOf(id)
             written == Written(registers[name], new, words)
         IN /\ n # name /\ RegisterFits(registers[n], Len(words)) =>
                 Words(registers[n], 0, written) = Words(registers[n], 0, words)
            /\ registers[n].scaleFactor # None =>
                 LET factor == registers[registers[n].scaleFactor] IN
                 RegisterFits(factor, Len(words)) =>
                    Words(factor, 0, written) = Words(factor, 0, words)
            /\ LiveScale(registers[n], registers, written) = LiveScale(registers[n], registers, words)
<1> DEFINE registers == RegistersOf(id)
           written == Written(registers[name], new, words)
<1>1. ASSUME NEW other \in DOMAIN registers, other # name,
             RegisterFits(registers[other], Len(words))
      PROVE  Words(registers[other], 0, written) = Words(registers[other], 0, words)
  <2>1. ~Overlap(registers[name], registers[other])
    BY <1>1, Layout
  <2>2. /\ registers[name].offset \in Nat /\ registers[name].size \in Nat \ {0}
        /\ registers[other].offset \in Nat /\ registers[other].size \in Nat \ {0}
    BY Layout
  <2> DEFINE a == registers[name]
             b == registers[other]
  <2>3. /\ a.offset \in Nat /\ a.size \in Nat \ {0} /\ b.offset \in Nat /\ b.size \in Nat \ {0}
        /\ ~Overlap(a, b) /\ Len(new) = a.size /\ RegisterFits(b, Len(words))
    BY <1>1, <2>1, <2>2
  <2> HIDE DEF a, b
  <2>4. Words(b, 0, Written(a, new, words)) = Words(b, 0, words)
    BY <2>3, OtherWords
  <2> QED
    BY <2>4 DEF a, b
<1>2. Len(written) = Len(words)
  <2>1. registers[name].offset \in Nat
    BY Layout
  <2> QED
    BY <2>1, WrittenWords
<1>3. registers[n].scaleFactor # None =>
         registers[n].scaleFactor \in DOMAIN registers /\ registers[n].scaleFactor # name
  <2> SUFFICES ASSUME registers[n].scaleFactor # None
               PROVE  registers[n].scaleFactor \in DOMAIN registers
                      /\ registers[n].scaleFactor # name
    OBVIOUS
  <2>1. registers[n].scaleFactor \in DOMAIN registers
    BY Layout DEF FactorDefined
  <2>2. ~registers[registers[n].scaleFactor].writable
    BY WritableAssumption DEF RegistersOf
  <2> QED
    BY <2>1, <2>2
<1>4. registers[n].scaleFactor # None =>
        LET factor == registers[registers[n].scaleFactor] IN
        RegisterFits(factor, Len(words)) => Words(factor, 0, written) = Words(factor, 0, words)
  BY <1>1, <1>3
<1>5. LiveScale(registers[n], registers, written) = LiveScale(registers[n], registers, words)
  <2>1. CASE registers[n].scaleFactor = None
    BY <2>1, Zenon DEF LiveScale
  <2>2. CASE registers[n].scaleFactor # None
    <3> DEFINE factor == registers[registers[n].scaleFactor]
    <3>1. CASE RegisterFits(factor, Len(words))
      <4>1. Words(factor, 0, written) = Words(factor, 0, words)
        BY <1>4, <2>2, <3>1
      <4> QED
        BY <1>2, <4>1, Zenon DEF LiveScale, FactorOf, FactorValue
    <3>2. CASE ~RegisterFits(factor, Len(words))
      BY <1>2, <2>2, <3>2, Zenon DEF LiveScale, FactorOf
    <3> QED
      BY <3>1, <3>2
  <2> QED
    BY <2>1, <2>2
<1> QED
  BY <1>1, <1>4, <1>5

(* The poll of a whole model and the reading of a single register agree.      *)
LEMMA ValueIsRead ==
  ASSUME NEW register, NEW registers, NEW words, register.type # "string",
         LiveScale(register, registers, words) # None
  PROVE  Value(register, 0, words, registers)
           = Decode(register.type, Combine(Words(register, 0, words)),
                    LiveScale(register, registers, words), Modulus(register.size))
<1>1. CASE register.scaleFactor = None
  BY <1>1, Zenon DEF LiveScale, Value
<1>2. CASE register.scaleFactor # None
  <2> DEFINE sf == Decode("sunssf", Combine(Words(registers[register.scaleFactor], 0, words)), 1, Base)
  <2>1. sf # None /\ LiveScale(register, registers, words) = Scale(register.type, sf)
    BY <1>2, Zenon DEF LiveScale, FactorOf, FactorValue
  <2>2. Value(register, 0, words, registers)
          = Decode(register.type, Combine(Words(register, 0, words)), Scale(register.type, sf),
                   Modulus(register.size))
    BY <1>2, <2>1, Zenon DEF Value
  <2> QED
    BY <2>1, <2>2
<1> QED
  BY <1>1, <1>2

LEMMA OtherValues ==
  ASSUME NEW id \in DOMAIN ModelDefinitions, NEW name \in DOMAIN RegistersOf(id),
         RegistersOf(id)[name].writable,
         NEW new \in Seq(Word), Len(new) = RegistersOf(id)[name].size,
         NEW words \in Seq(Word),
         \A n \in DOMAIN RegistersOf(id) : RegisterFits(RegistersOf(id)[n], Len(words)),
         NEW n \in DOMAIN RegistersOf(id), n # name
  PROVE  Value(RegistersOf(id)[n], 0, Written(RegistersOf(id)[name], new, words), RegistersOf(id))
           = Value(RegistersOf(id)[n], 0, words, RegistersOf(id))
<1> DEFINE registers == RegistersOf(id)
           written == Written(registers[name], new, words)
<1>1. Words(registers[n], 0, written) = Words(registers[n], 0, words)
  BY OthersAreKept
<1>2. CASE registers[n].scaleFactor = None
  BY <1>1, <1>2, Zenon DEF Value
<1>3. CASE registers[n].scaleFactor # None
  <2> DEFINE factor == registers[registers[n].scaleFactor]
  <2>1. registers[n].scaleFactor \in DOMAIN registers
    BY <1>3, Layout DEF FactorDefined
  <2>2. Words(factor, 0, written) = Words(factor, 0, words)
    BY <1>3, <2>1, OthersAreKept
  <2> QED
    BY <1>1, <1>3, <2>2, Zenon DEF Value
<1> QED
  BY <1>2, <1>3

LEMMA ModelIsDecoded ==
  ASSUME NEW id \in DOMAIN ModelDefinitions, NEW words \in Seq(Word),
         Decodable(ModelDefinitions[id], Len(words))
  PROVE  /\ \A n \in DOMAIN RegistersOf(id) : RegisterFits(RegistersOf(id)[n], Len(words))
         /\ DecodeModel(ModelDefinitions[id], words).fixed
              = [n \in DOMAIN RegistersOf(id) |->
                   Value(RegistersOf(id)[n], 0, words, RegistersOf(id))]
<1>1. \A n \in DOMAIN RegistersOf(id) : RegisterFits(RegistersOf(id)[n], Len(words))
  BY Zenon DEF Decodable, RegistersOf, RegisterFits
<1>2. DecodeModel(ModelDefinitions[id], words).fixed
        = [n \in DOMAIN RegistersOf(id) |-> Value(RegistersOf(id)[n], 0, words, RegistersOf(id))]
  BY DEF DecodeModel, RegistersOf
<1> QED
  BY <1>1, <1>2

(* After a write that its read-back confirms, the model is what it was, with  *)
(* the value that was asked for in the register that was written.             *)
LEMMA WriteIsPolled ==
  ASSUME NEW id \in DOMAIN ModelDefinitions, NEW name \in DOMAIN RegistersOf(id),
         NEW value \in Int, NEW before \in Seq(Word), Scaled(RegistersOf(id), before),
         Prepare(name, value, RegistersOf(id), before) # None,
         NEW words,
         words \in {Written(RegistersOf(id)[name],
                            Prepare(name, value, RegistersOf(id), before).words, before), before},
         Verified(RegistersOf(id)[name], Prepare(name, value, RegistersOf(id), before), value, words),
         Decodable(ModelDefinitions[id], Len(words))
  PROVE  DecodeModel(ModelDefinitions[id], words).fixed
           = [DecodeModel(ModelDefinitions[id], before).fixed EXCEPT ![name] = value]
<1> DEFINE registers == RegistersOf(id)
           register == registers[name]
           plan == Prepare(name, value, registers, before)
           V(n, w) == Value(registers[n], 0, w, registers)
<1>1. /\ register.writable /\ register.type \in Encodable
      /\ plan.scale = LiveScale(register, registers, before)
      /\ plan.scale \in Nat \ {0}
      /\ plan.words \in Seq(Word) /\ Len(plan.words) = register.size
  BY Preparation
<1>2. words \in Seq(Word) /\ Len(words) = Len(before)
  <2>1. register.offset \in Nat
    BY Layout
  <2> DEFINE new == plan.words
  <2>2. new \in Seq(Word)
    BY <1>1
  <2>3. Written(register, new, before) \in Seq(Word) /\ Len(Written(register, new, before)) = Len(before)
    <3> HIDE DEF new, register
    <3> QED
      BY <2>1, <2>2, WrittenWords
  <2> QED
    BY <2>3
<1>3. /\ \A n \in DOMAIN registers : RegisterFits(registers[n], Len(before))
      /\ DecodeModel(ModelDefinitions[id], before).fixed = [n \in DOMAIN registers |-> V(n, before)]
      /\ DecodeModel(ModelDefinitions[id], words).fixed = [n \in DOMAIN registers |-> V(n, words)]
  BY <1>2, ModelIsDecoded
<1>4. ASSUME NEW n \in DOMAIN registers, n # name  PROVE V(n, words) = V(n, before)
  <2> DEFINE new == plan.words
  <2>1. V(n, Written(register, new, before)) = V(n, before)
    <3>1. registers[name].writable /\ new \in Seq(Word) /\ Len(new) = registers[name].size
      BY <1>1
    <3> HIDE DEF new, plan
    <3> QED
      BY ONLY <1>3, <1>4, <3>1, id \in DOMAIN ModelDefinitions, name \in DOMAIN registers,
              before \in Seq(Word), OtherValues
  <2> QED
    BY <2>1
<1>5. V(name, words) = value
  <2>1. LiveScale(register, registers, words) = plan.scale
    <3>1. LiveScale(register, registers, Written(register, plan.words, before))
            = LiveScale(register, registers, before)
      BY <1>1, OthersAreKept
    <3> QED
      BY <1>1, <3>1
  <2>2. plan.scale # None /\ register.type # "string"
    BY <1>1, NoneAssumption DEF Encodable, ExpectedSize
  <2>3. V(name, words) = Decode(register.type, Combine(Words(register, 0, words)), plan.scale,
                                Modulus(register.size))
    BY <2>1, <2>2, ValueIsRead
  <2> QED
    BY <2>3, Zenon DEF Verified
<1> HIDE DEF V
<1> QED
  BY <1>3, <1>4, <1>5


(***************************************************************************)
(* Policies.                                                                *)
(***************************************************************************)

Allowed(register, policy, value) ==
  /\ register.options = None =>
        /\ policy.lo # None => policy.lo <= value
        /\ policy.hi # None => value <= policy.hi
  /\ policy.values # None => value \in policy.values
  /\ policy.bits # None => Masks(value) \subseteq policy.bits

LEMMA PolicyIsLoaded ==
  ASSUME NEW policies \in Installed, NEW coordinate \in DOMAIN policies
  PROVE  \E file \in Files \ {Malformed} :
            /\ coordinate \in DOMAIN file.models
            /\ ValidSettings(coordinate, file.models[coordinate])
            /\ policies[coordinate] = ParsedPolicy(file.models[coordinate])
<1>1. PICK file \in Files : policies = LoadPolicies(file)
  BY DEF Installed
<1> DEFINE good == /\ file # Malformed /\ file.version = 1
                   /\ \A c \in DOMAIN file.models : ValidSettings(c, file.models[c])
<1>2. good
  <2>1. CASE ~good
    <3>1. policies = <<>>
      BY <1>1, <2>1, Zenon DEF LoadPolicies
    <3> QED
      BY <3>1
  <2> QED
    BY <2>1
<1>3. policies = [c \in DOMAIN file.models |-> ParsedPolicy(file.models[c])]
  BY <1>1, <1>2, Zenon DEF LoadPolicies
<1> QED
  BY <1>2, <1>3

LEMMA Bounds ==
  ASSUME NEW settings, NEW key \in {"minimum", "maximum", "step"},
         key \in DOMAIN settings => settings[key] \in Int
  PROVE  Given(settings, key, None) \in Int \cup {None}
  BY DEF Given

(* What is offered and accepted is what the policy, too, allows.              *)
LEMMA AcceptedIsAllowed ==
  ASSUME NEW policies \in Installed, NEW coordinate, NEW value \in Int,
         EntityOffers(RegistersOf(coordinate[1])[coordinate[2]], Enabled(policies, coordinate), value),
         PolicyAccepts(policies[coordinate], RegistersOf(coordinate[1])[coordinate[2]], value)
  PROVE  /\ coordinate[1] \in DOMAIN ModelDefinitions
         /\ coordinate[2] \in DOMAIN RegistersOf(coordinate[1])
         /\ Allowed(RegistersOf(coordinate[1])[coordinate[2]], policies[coordinate], value)
<1> DEFINE register == RegistersOf(coordinate[1])[coordinate[2]]
           policy == policies[coordinate]
<1>1. Enabled(policies, coordinate) # None
  BY Zenon DEF EntityOffers, SelectOffers, NumberOffers
<1>2. coordinate \in DOMAIN policies /\ Enabled(policies, coordinate) = policy
  BY <1>1, Zenon DEF Enabled
<1>3. PICK file \in Files \ {Malformed} :
            /\ coordinate \in DOMAIN file.models
            /\ ValidSettings(coordinate, file.models[coordinate])
            /\ policy = ParsedPolicy(file.models[coordinate])
  BY <1>2, PolicyIsLoaded
<1> DEFINE settings == file.models[coordinate]
<1>4. /\ coordinate[1] \in DOMAIN ModelDefinitions
      /\ coordinate[2] \in DOMAIN RegistersOf(coordinate[1])
      /\ settings # Malformed
      /\ \A key \in DOMAIN settings \ {"values", "bits"} : settings[key] # Malformed
      /\ ValidList(settings, "values", register, {"enum16"})
      /\ ValidList(settings, "bits", register, BitFields)
  BY <1>3, Zenon DEF ValidSettings, RegistersOf
<1>5. /\ policy.lo = Given(settings, "minimum", None)
      /\ policy.hi = Given(settings, "maximum", None)
      /\ policy.values = ListOf(settings, "values") /\ policy.bits = ListOf(settings, "bits")
  BY <1>3 DEF ParsedPolicy
<1>6. policy.lo \in Int \cup {None} /\ policy.hi \in Int \cup {None}
  <2>1. \A key \in DOMAIN settings \cap {"minimum", "maximum", "step"} : settings[key] \in Int
    BY <1>3, <1>4, FilesAssumption
  <2> HIDE DEF settings
  <2>2. \A key \in {"minimum", "maximum"} : Given(settings, key, None) \in Int \cup {None}
    BY <2>1, Bounds
  <2> QED
    BY <1>5, <2>2
<1>7. policy.values # None => register.type = "enum16"
  BY <1>4, <1>5, Zenon DEF ListOf, ValidList
<1>8. policy.bits # None => register.type \in BitFields
  BY <1>4, <1>5, Zenon DEF ListOf, ValidList
<1>9. policy.values # None => value \in policy.values
  BY <1>7, Zenon DEF PolicyAccepts
<1>10. policy.bits # None => Masks(value) \subseteq policy.bits
  BY <1>8, Zenon DEF PolicyAccepts
<1>11. ASSUME register.options = None
       PROVE  /\ policy.lo # None => policy.lo <= value
              /\ policy.hi # None => value <= policy.hi
  <2>1. NumberOffers(register, policy, value)
    BY <1>2, <1>11, Zenon DEF EntityOffers
  <2>2. /\ register.lo # None /\ register.hi # None
        /\ Greater(register.lo, policy.lo) <= value /\ value <= Less(register.hi, policy.hi)
    <3>1. policy # None
      BY <1>1, <1>2
    <3> HIDE DEF policy, register
    <3> QED
      BY <2>1, <3>1 DEF NumberOffers, EffectiveRange, HasFiniteHardRange
  <2>3. register.lo \in Int /\ register.hi \in Int
    <3>1. ValidRegister(register)
      BY <1>4, Layout
    <3> HIDE DEF register
    <3>2. ValidRange(register)
      BY <3>1, Zenon DEF ValidRegister
    <3> QED
      BY <2>2, <3>2 DEF ValidRange
  <2> DEFINE lo == register.lo
             hi == register.hi
             plo == policy.lo
             phi == policy.hi
  <2>4. /\ lo \in Int /\ hi \in Int /\ plo \in Int \cup {None} /\ phi \in Int \cup {None}
        /\ Greater(lo, plo) <= value /\ value <= Less(hi, phi)
    BY <1>6, <2>2, <2>3
  <2> HIDE DEF lo, hi, plo, phi
  <2>5. (plo # None => plo <= value) /\ (phi # None => value <= phi)
    <3>1. ASSUME plo # None  PROVE plo <= value
      <4>1. lo # None /\ plo \in Int
        BY <2>4, <3>1, NoneAssumption
      <4> QED
        BY <2>4, <3>1, <4>1 DEF Greater
    <3>2. ASSUME phi # None  PROVE value <= phi
      <4>1. hi # None /\ phi \in Int
        BY <2>4, <3>2, NoneAssumption
      <4> QED
        BY <2>4, <3>2, <4>1 DEF Less
    <3> QED
      BY <3>1, <3>2
  <2> QED
    BY <2>5 DEF plo, phi
<1> QED
  BY <1>4, <1>9, <1>10, <1>11, Zenon DEF Allowed


(***************************************************************************)
(* The device.                                                              *)
(***************************************************************************)

(* The walk goes on as it does alone: nothing else touches it.                *)
LEMMA WalksAlone == Spec => WalkSpec
<1>1. Init => WalkInit
  BY DEF Init
<1>2. [Next]_vars => [Walk]_walkVars
  BY DEF Next, vars, walkVars, Discover, Poll, SaveTopology, Damage, RestoreTopology, SaveAgain,
         Write, Manual
<1> QED
  BY <1>1, <1>2, PTL DEF Spec, WalkSpec

(* The chain of a device fits, however the device is used afterwards.         *)
(* (sunspec.discover)                                                         *)
THEOREM DeviceChainFits == Spec => []ChainFits
  BY WalksAlone, WalkInvariance, PTL DEF WalkInv

IdsAreRead == \A i \in DOMAIN models : models[i].id \in {h[1] : h \in Headers}

(* There is data for every model found, in words and with sane factors.       *)
DataIsSane ==
  device # <<>> =>
     /\ walk = "found"
     /\ device \in Seq(Seq(Word)) /\ Len(device) = Len(models)
     /\ \A i \in DOMAIN device :
          models[i].id \in DOMAIN ModelDefinitions => Scaled(RegistersOf(models[i].id), device[i])

(* The only model of the device, and what was written to it.                  *)
Only == models[1].id
Target == RegistersOf(Only)[request.name]
Plan == Prepare(request.name, request.value, RegistersOf(Only), request.before)

WriteIsPrepared ==
  request # None /\ request.kind = "write" =>
     /\ Len(device) = 1
     /\ Only \in DOMAIN ModelDefinitions /\ request.name \in DOMAIN RegistersOf(Only)
     /\ request.value \in Int
     /\ request.before \in Seq(Word) /\ Scaled(RegistersOf(Only), request.before)
     /\ Plan # None
     /\ device[1] \in {Written(Target, Plan.words, request.before), request.before}
     /\ request.done = Verified(Target, Plan, request.value, device[1])
     /\ Allowed(Target, request.policy, request.value)

WindowIsComputed ==
  request # None /\ request.kind = "window" =>
     /\ Len(device) = 1 /\ Only = 124
     /\ Decoded(1) # None /\ Reference # None /\ RateFactor # None
     /\ request.settings \in Settings
     /\ request.window = ManualWindow(request.settings, Reference, Scale("int16", RateFactor))

DeviceInv ==
  /\ WalkTypeOK
  /\ IdsAreRead
  /\ DataIsSane
  /\ WriteIsPrepared
  /\ WindowIsComputed

LEMMA DeviceInitially == Init => DeviceInv
<1> SUFFICES ASSUME Init PROVE DeviceInv
  OBVIOUS
<1>1. WalkTypeOK
  BY Initially DEF Init, WalkInv
<1>2. models = <<>> /\ device = <<>> /\ request = None
  BY DEF Init, WalkInit
<1>3. IdsAreRead /\ DataIsSane /\ WriteIsPrepared /\ WindowIsComputed
  BY <1>2 DEF IdsAreRead, DataIsSane, WriteIsPrepared, WindowIsComputed
<1> QED
  BY <1>1, <1>3 DEF DeviceInv

(* Steps that leave the device and the request alone.                         *)
LEMMA SameDevice ==
  ASSUME DeviceInv, UNCHANGED <<walk, header, models, device, request>>
  PROVE  DeviceInv'
<1>1. WalkTypeOK' /\ IdsAreRead'
  BY DEF DeviceInv, WalkTypeOK, IdsAreRead
<1>2. DataIsSane'
  BY DEF DeviceInv, DataIsSane
<1>3. WriteIsPrepared'
  BY DEF DeviceInv, WriteIsPrepared, Only, Target, Plan
<1>4. WindowIsComputed'
  BY DEF DeviceInv, WindowIsComputed, Only, Reference, RateFactor, Decoded
<1> QED
  BY <1>1, <1>2, <1>3, <1>4 DEF DeviceInv

(* A device without data has no request.                                      *)
LEMMA NoDataNoRequest ==
  ASSUME DeviceInv, device = <<>>
  PROVE  ~(request # None /\ request.kind \in {"write", "window"})
  BY DEF DeviceInv, WriteIsPrepared, WindowIsComputed

LEMMA DiscoverKeeps ==
  ASSUME DeviceInv, WalkInv, Discover
  PROVE  DeviceInv'
<1>1. UNCHANGED <<device, request>> /\ Walk
  BY DEF Discover
<1>2. device = <<>>
  <2>1. walk # "found"
    BY <1>1 DEF Walk, VerifySignature, Fail, ReadEnd, ReadModel, RefuseModel, Exceed, CanReadHeader
  <2> QED
    BY <2>1 DEF DeviceInv, DataIsSane
<1>3. WalkTypeOK'
  BY <1>1, StepKeeps DEF WalkInv
<1>4. IdsAreRead'
  <2>1. models \in Seq(DiscoveredModel)
    BY DEF DeviceInv, WalkTypeOK
  <2>2. models' \in {models, <<>>} \/ \E h \in Headers : ReadModel(h)
    BY <1>1 DEF Walk, VerifySignature, Fail, ReadEnd, RefuseModel, Exceed
  <2>3. CASE models' \in {models, <<>>}
    BY <2>3 DEF DeviceInv, IdsAreRead
  <2>4. ASSUME NEW h \in Headers, ReadModel(h)  PROVE IdsAreRead'
    <3> DEFINE m == [id |-> h[1], base |-> header + HeaderSize, length |-> h[2]]
    <3>1. models' = Append(models, m) /\ m.id = h[1]
      BY <2>4 DEF ReadModel
    <3> HIDE DEF m
    <3>2. /\ DOMAIN models' = 1 .. Len(models) + 1 /\ DOMAIN models = 1 .. Len(models)
          /\ Len(models) \in Nat
          /\ models'[Len(models) + 1] = m
          /\ \A i \in 1 .. Len(models) : models'[i] = models[i]
      BY <2>1, <3>1
    <3>3. \A i \in DOMAIN models' : i \in DOMAIN models \/ i = Len(models) + 1
      BY <3>2
    <3> QED
      BY <3>1, <3>2, <3>3 DEF DeviceInv, IdsAreRead
  <2> QED
    BY <2>2, <2>3, <2>4
<1>5. DataIsSane' /\ WriteIsPrepared' /\ WindowIsComputed'
  BY <1>1, <1>2 DEF DeviceInv, DataIsSane, WriteIsPrepared, WindowIsComputed
<1> QED
  BY <1>3, <1>4, <1>5 DEF DeviceInv

LEMMA PollKeeps ==
  ASSUME DeviceInv, Poll
  PROVE  DeviceInv'
<1>1. /\ walk = "found" /\ device = <<>>
      /\ UNCHANGED <<walk, header, models, request>>
  BY DEF Poll
<1>2. PICK words \in [DOMAIN models -> UNION {Payloads[models[i].id] : i \in DOMAIN models}] :
        /\ \A i \in DOMAIN models : words[i] \in Payloads[models[i].id]
        /\ device' = words
  BY DEF Poll
<1>3. models \in Seq(DiscoveredModel) /\ DOMAIN models = 1 .. Len(models) /\ Len(models) \in Nat
  BY DEF DeviceInv, WalkTypeOK
<1>4. \A i \in DOMAIN models : models[i].id \in DOMAIN Payloads
  BY PayloadsAssumption DEF DeviceInv, IdsAreRead
<1>5. \A i \in DOMAIN models : words[i] \in Seq(Word)
  BY <1>2, <1>4, PayloadsAssumption DEF Word
<1>6. words \in [1 .. Len(models) -> Seq(Word)]
  BY <1>2, <1>3, <1>5
<1>7. words \in Seq(Seq(Word)) /\ Len(words) = Len(models)
  <2>1. words \in Seq(Seq(Word))
    BY ONLY <1>3, <1>6, SeqDef
  <2> QED
    BY <1>3, <1>6, <2>1
<1>8. ASSUME NEW i \in DOMAIN models, models[i].id \in DOMAIN ModelDefinitions
      PROVE  Scaled(RegistersOf(models[i].id), words[i])
  BY <1>2, <1>4, <1>8, ScalesAssumption, Zenon DEF RegistersOf
<1>9. DataIsSane'
  <2>1. DOMAIN words = DOMAIN models
    BY <1>2
  <2> QED
    BY <1>1, <1>2, <1>7, <1>8, <2>1 DEF DataIsSane
<1>10. WalkTypeOK' /\ IdsAreRead'
  BY <1>1 DEF DeviceInv, WalkTypeOK, IdsAreRead
<1>11. WriteIsPrepared' /\ WindowIsComputed'
  <2>1. ~(request' # None /\ request'.kind \in {"write", "window"})
    BY <1>1, NoDataNoRequest
  <2> QED
    BY <2>1 DEF WriteIsPrepared, WindowIsComputed
<1> QED
  BY <1>9, <1>10, <1>11 DEF DeviceInv


(* The words of an idle device.                                               *)
LEMMA OnlyModel ==
  ASSUME DeviceInv, Len(device) = 1
  PROVE  /\ walk = "found" /\ Len(models) = 1 /\ device = <<device[1]>>
         /\ device[1] \in Seq(Word)
         /\ Only \in DOMAIN ModelDefinitions => Scaled(RegistersOf(Only), device[1])
<1>1. device # <<>>
  OBVIOUS
<1>2. /\ walk = "found" /\ device \in Seq(Seq(Word)) /\ Len(models) = 1
      /\ \A i \in DOMAIN device :
           models[i].id \in DOMAIN ModelDefinitions => Scaled(RegistersOf(models[i].id), device[i])
  BY <1>1 DEF DeviceInv, DataIsSane
<1>3. 1 \in DOMAIN device
  BY <1>2
<1>4. device[1] \in Seq(Word) /\ device = <<device[1]>>
  BY <1>2
<1> QED
  BY <1>2, <1>3, <1>4 DEF Only

(* What a write leaves in the device.                                         *)
LEMMA WrittenIsSane ==
  ASSUME NEW id \in DOMAIN ModelDefinitions, NEW name \in DOMAIN RegistersOf(id),
         NEW value \in Int, NEW before \in Seq(Word), Scaled(RegistersOf(id), before),
         Prepare(name, value, RegistersOf(id), before) # None
  PROVE  LET words == Written(RegistersOf(id)[name],
                              Prepare(name, value, RegistersOf(id), before).words, before)
         IN words \in Seq(Word) /\ Scaled(RegistersOf(id), words)
<1> DEFINE registers == RegistersOf(id)
           register == registers[name]
           new == Prepare(name, value, registers, before).words
           words == Written(register, new, before)
<1>1. register.writable /\ new \in Seq(Word) /\ Len(new) = register.size
  BY Preparation
<1> HIDE DEF new
<1>2. register.offset \in Nat
  BY Layout
<1>3. words \in Seq(Word) /\ Len(words) = Len(before)
  <2> HIDE DEF register
  <2> QED
    BY <1>1, <1>2, WrittenWords
<1>4. ASSUME NEW n \in DOMAIN registers, registers[n].scaleFactor # None,
             RegisterFits(FactorOf(registers[n], registers), Len(before))
      PROVE  FactorValue(registers[n], registers, words) = FactorValue(registers[n], registers, before)
  <2> DEFINE factor == registers[registers[n].scaleFactor]
  <2>1. RegisterFits(factor, Len(before))
    BY <1>4 DEF FactorOf
  <2>2. Words(factor, 0, words) = Words(factor, 0, before)
    BY <1>1, <1>4, <2>1, OthersAreKept
  <2> QED
    BY <2>2, Zenon DEF FactorValue, FactorOf
<1>5. Scaled(registers, words)
  <2> DEFINE Sane(n, w) ==
               /\ registers[n].scaleFactor # None
               /\ RegisterFits(FactorOf(registers[n], registers), Len(w))
               /\ FactorValue(registers[n], registers, w) # None
               => Scale(registers[n].type, FactorValue(registers[n], registers, w)) \in Nat \ {0}
  <2> HIDE DEF words, registers
  <2>1. \A n \in DOMAIN registers : Sane(n, before)
    <3>1. Scaled(registers, before)
      BY DEF registers
    <3> QED
      BY <3>1, Zenon DEF Scaled
  <2>2. \A n \in DOMAIN registers : Sane(n, words)
    BY <1>3, <1>4, <2>1
  <2> QED
    BY <2>2, Zenon DEF Scaled
<1> QED
  BY <1>3, <1>5 DEF new

LEMMA WriteKeeps ==
  ASSUME DeviceInv, NEW policies \in Installed, NEW r \in Requests, Write(policies, r)
  PROVE  DeviceInv'
<1> DEFINE id == r[1]
           name == r[2]
           value == r[3]
           registers == RegistersOf(id)
           register == registers[name]
           coordinate == <<id, name>>
           before == device[1]
           plan == Prepare(name, value, registers, before)
<1>1. /\ Len(device) = 1 /\ Only = id
      /\ EntityOffers(register, Enabled(policies, coordinate), value)
      /\ PolicyAccepts(policies[coordinate], register, value)
      /\ plan # None
      /\ UNCHANGED <<walk, header, models>>
  BY DEF Write, Idle, Only, RegistersOf
<1>2. PICK words \in {Written(register, plan.words, before), before} :
            /\ device' = <<words>>
            /\ request' = [kind |-> "write", name |-> name, value |-> value,
                           policy |-> policies[coordinate], before |-> before,
                           done |-> Verified(register, plan, value, words)]
  BY DEF Write, RegistersOf
<1>3. value \in Int
  BY RequestsAssumption
<1>4. /\ id \in DOMAIN ModelDefinitions /\ name \in DOMAIN registers
      /\ Allowed(register, policies[coordinate], value)
  <2>1. coordinate[1] = id /\ coordinate[2] = name
    OBVIOUS
  <2> HIDE DEF coordinate, id, name, value
  <2>2. /\ EntityOffers(RegistersOf(coordinate[1])[coordinate[2]], Enabled(policies, coordinate), value)
        /\ PolicyAccepts(policies[coordinate], RegistersOf(coordinate[1])[coordinate[2]], value)
    BY <1>1, <2>1
  <2>3. /\ coordinate[1] \in DOMAIN ModelDefinitions
        /\ coordinate[2] \in DOMAIN RegistersOf(coordinate[1])
        /\ Allowed(RegistersOf(coordinate[1])[coordinate[2]], policies[coordinate], value)
    BY <1>3, <2>2, AcceptedIsAllowed
  <2> QED
    BY <2>1, <2>3
<1>5. walk = "found" /\ Len(models) = 1 /\ before \in Seq(Word) /\ Scaled(registers, before)
  BY <1>1, <1>4, OnlyModel
<1> DEFINE written == Written(register, plan.words, before)
<1>6. written \in Seq(Word) /\ Scaled(registers, written)
  BY <1>1, <1>3, <1>4, <1>5, WrittenIsSane
<1>7. words \in Seq(Word) /\ Scaled(registers, words)
  BY <1>2, <1>5, <1>6
<1>8. WalkTypeOK' /\ IdsAreRead'
  BY <1>1 DEF DeviceInv, WalkTypeOK, IdsAreRead
<1>9. DataIsSane'
  <2> HIDE DEF registers
  <2>1. /\ <<words>> \in Seq(Seq(Word)) /\ Len(<<words>>) = 1
        /\ \A i \in DOMAIN <<words>> : i = 1 /\ <<words>>[i] = words
    BY <1>7
  <2>2. models[1].id = id /\ models' = models /\ walk' = walk
    BY <1>1 DEF Only
  <2>3. \A i \in DOMAIN <<words>> :
           models'[i].id \in DOMAIN ModelDefinitions => Scaled(RegistersOf(models'[i].id), <<words>>[i])
    BY <1>7, <2>1, <2>2 DEF registers
  <2> QED
    BY <1>2, <1>5, <2>1, <2>2, <2>3 DEF DataIsSane
<1>10. WriteIsPrepared'
  <2> DEFINE asked == [kind |-> "write", name |-> name, value |-> value,
                       policy |-> policies[coordinate], before |-> before,
                       done |-> Verified(register, plan, value, words)]
  <2>1. /\ asked.name = name /\ asked.value = value /\ asked.policy = policies[coordinate]
        /\ asked.before = before /\ asked.done = Verified(register, plan, value, words)
    OBVIOUS
  <2>2. request' = asked /\ Only' = id /\ device'[1] = words /\ Len(device') = 1
    BY <1>1, <1>2 DEF Only
  <2> HIDE DEF asked
  <2>3. Target' = register /\ Plan' = plan
    BY <2>1, <2>2 DEF Target, Plan
  <2> HIDE DEF plan, register, registers, before, value, name, id, coordinate
  <2>4. /\ Len(device') = 1
        /\ Only' \in DOMAIN ModelDefinitions /\ request'.name \in DOMAIN RegistersOf(Only')
        /\ request'.value \in Int
        /\ request'.before \in Seq(Word) /\ Scaled(RegistersOf(Only'), request'.before)
        /\ Plan' # None
    BY <1>1, <1>3, <1>4, <1>5, <2>1, <2>2, <2>3 DEF registers
  <2>5. /\ device'[1] \in {Written(Target', Plan'.words, request'.before), request'.before}
        /\ request'.done = Verified(Target', Plan', request'.value, device'[1])
        /\ Allowed(Target', request'.policy, request'.value)
    BY <1>2, <1>4, <2>1, <2>2, <2>3
  <2> QED
    BY <2>4, <2>5 DEF WriteIsPrepared
<1>11. WindowIsComputed'
  <2>1. request'.kind = "write"
    BY <1>2
  <2> QED
    BY <2>1 DEF WindowIsComputed
<1> QED
  BY <1>8, <1>9, <1>10, <1>11 DEF DeviceInv

LEMMA ManualKeeps ==
  ASSUME DeviceInv, NEW settings \in Settings, Manual(settings)
  PROVE  DeviceInv'
<1> DEFINE window == ManualWindow(settings, Reference, Scale("int16", RateFactor))
<1>1. /\ Len(device) = 1 /\ Only = 124
      /\ Decoded(1) # None /\ Reference # None /\ RateFactor # None
      /\ request' = [kind |-> "window", settings |-> settings, window |-> window]
      /\ UNCHANGED <<walk, header, models, device>>
  BY DEF Manual, Idle, Only
<1>2. WalkTypeOK' /\ IdsAreRead' /\ DataIsSane'
  BY <1>1 DEF DeviceInv, WalkTypeOK, IdsAreRead, DataIsSane
<1> HIDE DEF window
<1>3. request'.kind = "window" /\ request'.settings = settings /\ request'.window = window
  BY <1>1
<1>4. WriteIsPrepared'
  BY <1>3 DEF WriteIsPrepared
<1>5. WindowIsComputed'
  <2>1. Only' = Only /\ Decoded(1)' = Decoded(1)
    BY <1>1 DEF Only, Decoded
  <2>2. Reference' = Reference /\ RateFactor' = RateFactor
    BY <2>1 DEF Reference, RateFactor
  <2> QED
    BY <1>1, <1>3, <2>1, <2>2 DEF WindowIsComputed, window
<1> QED
  BY <1>2, <1>4, <1>5 DEF DeviceInv

LEMMA DeviceStep == DeviceInv /\ WalkInv /\ [Next]_vars => DeviceInv'
<1> SUFFICES ASSUME DeviceInv, WalkInv, [Next]_vars
             PROVE  DeviceInv'
  OBVIOUS
<1>1. CASE Discover
  BY <1>1, DiscoverKeeps
<1>2. CASE Poll
  BY <1>2, PollKeeps
<1>3. CASE SaveTopology
  BY <1>3, SameDevice DEF SaveTopology
<1>4. CASE Damage
  BY <1>4, SameDevice DEF Damage
<1>5. CASE RestoreTopology
  BY <1>5, SameDevice DEF RestoreTopology
<1>6. CASE SaveAgain
  BY <1>6, SameDevice DEF SaveAgain
<1>7. ASSUME NEW policies \in Installed, NEW r \in Requests, Write(policies, r)
      PROVE  DeviceInv'
  BY <1>7, WriteKeeps
<1>8. ASSUME NEW settings \in Settings, Manual(settings)
      PROVE  DeviceInv'
  BY <1>8, ManualKeeps
<1>9. CASE UNCHANGED vars
  BY <1>9, SameDevice DEF vars
<1> QED
  BY <1>1, <1>2, <1>3, <1>4, <1>5, <1>6, <1>7, <1>8, <1>9 DEF Next

(* What every reachable state of a device and its requests satisfies.         *)
THEOREM DeviceInvariance == Spec => []DeviceInv
<1>1. Init => DeviceInv
  BY DeviceInitially
<1>2. DeviceInv /\ WalkInv /\ [Next]_vars => DeviceInv'
  BY DeviceStep
<1> QED
  BY <1>1, <1>2, WalksAlone, WalkInvariance, PTL DEF Spec


(***************************************************************************)
(* Writes.                                                                  *)
(***************************************************************************)

(* What a poll decodes of the only model.                                     *)
LEMMA OnlyDecoded ==
  ASSUME DeviceInv, Len(device) = 1, Decoded(1) # None
  PROVE  /\ Only \in DOMAIN ModelDefinitions
         /\ Decoded(1) = DecodeModel(ModelDefinitions[Only], device[1])
         /\ Decodable(ModelDefinitions[Only], Len(device[1]))
<1>1. /\ Only \in DOMAIN ModelDefinitions
      /\ Decoded(1) = DecodeModel(ModelDefinitions[Only], device[1])
  BY Zenon DEF Decoded, Only
<1>2. Decodable(ModelDefinitions[Only], Len(device[1]))
  BY <1>1, Zenon DEF DecodeModel
<1> QED
  BY <1>1, <1>2

(* Values of registers with documented options are not scaled.                *)
LEMMA KnownValue ==
  ASSUME NEW id \in DOMAIN ModelDefinitions, NEW name \in DOMAIN RegistersOf(id),
         NEW words, NEW value \in Int,
         Known(RegistersOf(id)[name], value \div LiveScale(RegistersOf(id)[name], RegistersOf(id), words))
  PROVE  Known(RegistersOf(id)[name], value)
<1> DEFINE register == RegistersOf(id)[name]
           scale == LiveScale(register, RegistersOf(id), words)
<1>1. CASE register.options = None
  BY <1>1, Zenon DEF Known
<1>2. CASE register.options # None
  <2>1. ValidRegister(register) /\ FactorDefined(register, RegistersOf(id))
    BY Layout
  <2>2. register.type \in {"enum16", "bitfield16", "bitfield32"}
    BY <1>2, <2>1 DEF ValidRegister, BitFields
  <2>3. register.type \notin Scalable
    BY <2>2 DEF Scalable, Accumulators
  <2>4. register.scaleFactor = None
    BY <2>1, <2>3 DEF FactorDefined
  <2>5. scale = 1
    <3>1. scale = Scale(register.type, None)
      BY <2>4, Zenon DEF LiveScale
    <3> QED
      BY <2>3, <3>1, Zenon DEF Scale
  <2>6. value \div 1 = value
    OBVIOUS
  <2> QED
    BY <2>5, <2>6
<1> QED
  BY <1>1, <1>2

(* A write that was reported as verified is what the next poll publishes, no  *)
(* other register has changed, and the value is one that the register and the *)
(* policy allow.  (number.py, select.py, write_policy.py, codec.py,           *)
(* register_writer.py, model_decoder.py)                                      *)
THEOREM VerifiedWriteIsPolledAlways == Spec => []VerifiedWriteIsPolled
<1>1. DeviceInv => VerifiedWriteIsPolled
  <2> SUFFICES ASSUME DeviceInv, request # None, request.kind = "write", request.done,
                      Decoded(1) # None
               PROVE  /\ Decoded(1).fixed
                           = [DecodeModel(ModelDefinitions[Only], request.before).fixed
                                EXCEPT ![request.name] = request.value]
                      /\ InRange(Target, request.value)
                      /\ Known(Target, request.value)
                      /\ Allowed(Target, request.policy, request.value)
    BY Zenon DEF VerifiedWriteIsPolled, Allowed, Only, Target, RegistersOf
  <2>1. /\ Len(device) = 1
        /\ Only \in DOMAIN ModelDefinitions /\ request.name \in DOMAIN RegistersOf(Only)
        /\ request.value \in Int
        /\ request.before \in Seq(Word) /\ Scaled(RegistersOf(Only), request.before)
        /\ Plan # None
        /\ device[1] \in {Written(Target, Plan.words, request.before), request.before}
        /\ request.done = Verified(Target, Plan, request.value, device[1])
        /\ Allowed(Target, request.policy, request.value)
    BY DEF DeviceInv, WriteIsPrepared
  <2>2. /\ Decoded(1) = DecodeModel(ModelDefinitions[Only], device[1])
        /\ Decodable(ModelDefinitions[Only], Len(device[1]))
    BY <2>1, OnlyDecoded
  <2> DEFINE id == Only
             name == request.name
             value == request.value
             before == request.before
             words == device[1]
  <2>3. /\ id \in DOMAIN ModelDefinitions /\ name \in DOMAIN RegistersOf(id)
        /\ value \in Int /\ before \in Seq(Word) /\ Scaled(RegistersOf(id), before)
        /\ Prepare(name, value, RegistersOf(id), before) # None
        /\ words \in {Written(RegistersOf(id)[name],
                              Prepare(name, value, RegistersOf(id), before).words, before), before}
        /\ Verified(RegistersOf(id)[name], Prepare(name, value, RegistersOf(id), before), value, words)
        /\ Decodable(ModelDefinitions[id], Len(words))
    BY <2>1, <2>2, Zenon DEF Target, Plan
  <2>4. Target = RegistersOf(id)[name] /\ Decoded(1) = DecodeModel(ModelDefinitions[id], words)
    BY <2>2, Zenon DEF Target
  <2> HIDE DEF id, name, value, before, words
  <2>5. DecodeModel(ModelDefinitions[id], words).fixed
          = [DecodeModel(ModelDefinitions[id], before).fixed EXCEPT ![name] = value]
    BY ONLY <2>3, WriteIsPolled
  <2> DEFINE plan == Prepare(name, value, RegistersOf(id), before)
  <2>6. /\ InRange(RegistersOf(id)[name], value)
        /\ Known(RegistersOf(id)[name], value \div plan.scale)
        /\ plan.scale = LiveScale(RegistersOf(id)[name], RegistersOf(id), before)
    BY <2>3, Preparation
  <2>7. Known(RegistersOf(id)[name], value)
    <3>1. Known(RegistersOf(id)[name],
                value \div LiveScale(RegistersOf(id)[name], RegistersOf(id), before))
      BY <2>6
    <3> QED
      BY ONLY <2>3, <3>1, KnownValue
  <2> QED
    BY <2>1, <2>4, <2>5, <2>6, <2>7 DEF id, name, value, before
<1> QED
  BY <1>1, DeviceInvariance, PTL


(***************************************************************************)
(* Windows.                                                                 *)
(***************************************************************************)

LEMMA StorageModel ==
  124 \in DOMAIN ModelDefinitions /\ ModelDefinitions[124] = Storage124
  BY DEF ModelDefinitions

(* What the integration knows of a storage when it computes a window.         *)
LEMMA StorageIsDecoded ==
  ASSUME DeviceInv, Len(device) = 1, Only = 124,
         Decoded(1) # None, Reference # None, RateFactor # None
  PROVE  /\ Reference \in Nat
         /\ Scale("int16", RateFactor) \in Nat \ {0}
         /\ \A name \in {"InWRte", "OutWRte"} :
               /\ RegisterFits(Storage124.registers[name], Len(device[1]))
               /\ LiveScale(Storage124.registers[name], Storage124.registers, device[1])
                     = Scale("int16", RateFactor)
<1> DEFINE registers == RegistersOf(124)
           words == device[1]
           reference == registers["WChaMax"]
           factor == registers["InOutWRte_SF"]
<1>1. registers = Storage124.registers
  BY StorageModel DEF RegistersOf
<1>2. /\ words \in Seq(Word) /\ Scaled(registers, words)
      /\ Decoded(1) = DecodeModel(ModelDefinitions[124], words)
      /\ Decodable(ModelDefinitions[124], Len(words))
  BY OnlyModel, OnlyDecoded, StorageModel
<1>3. /\ \A n \in DOMAIN registers : RegisterFits(registers[n], Len(words))
      /\ Decoded(1).fixed = [n \in DOMAIN registers |-> Value(registers[n], 0, words, registers)]
  BY <1>2, ModelIsDecoded, StorageModel
<1>4. /\ {"WChaMax", "InWRte", "OutWRte", "InOutWRte_SF"} \subseteq DOMAIN registers
      /\ reference.type = "uint16" /\ reference.size = 1
      /\ factor.type = "sunssf" /\ factor.size = 1 /\ factor.scaleFactor = None
      /\ \A name \in {"InWRte", "OutWRte"} :
            registers[name].type = "int16" /\ registers[name].scaleFactor = "InOutWRte_SF"
  BY <1>1, StorageRegisters
<1>5. /\ Reference = Value(reference, 0, words, registers)
      /\ RateFactor = Value(factor, 0, words, registers)
  BY <1>3, <1>4 DEF Reference, RateFactor
<1> HIDE DEF registers, words, reference, factor
<1>6. "InOutWRte_SF" # None
  <2>1. None \notin DOMAIN registers
    BY StorageModel, NamesAssumption, Zenon DEF registers, RegistersOf
  <2> QED
    BY <1>4, <2>1
<1>7. RateFactor = Decode("sunssf", Combine(Words(factor, 0, words)), 1, Base)
  <2>1. Scale("sunssf", None) = 1
    BY DEF Scale, Scalable, Accumulators
  <2>2. RateFactor = Decode("sunssf", Combine(Words(factor, 0, words)), Scale("sunssf", None),
                            Modulus(1))
    <3>1. LiveScale(factor, registers, words) = Scale("sunssf", None)
      BY <1>4, Zenon DEF LiveScale
    <3>2. LiveScale(factor, registers, words) # None
      BY <2>1, <3>1, NoneAssumption
    <3>3. factor.type # "string"
      BY <1>4
    <3> QED
      BY <1>4, <1>5, <3>1, <3>2, <3>3, ValueIsRead
  <2> QED
    BY <2>1, <2>2, ModulusAssumption
<1>8. ASSUME NEW name \in {"InWRte", "OutWRte"}
      PROVE  /\ RegisterFits(registers[name], Len(words))
             /\ LiveScale(registers[name], registers, words) = Scale("int16", RateFactor)
             /\ Scale("int16", RateFactor) \in Nat \ {0}
  <2>1. /\ name \in DOMAIN registers /\ registers[name].type = "int16"
        /\ registers[name].scaleFactor # None
        /\ registers[name].scaleFactor = "InOutWRte_SF"
    BY <1>4, <1>6
  <2>2. /\ FactorOf(registers[name], registers) = factor
        /\ FactorValue(registers[name], registers, words) = RateFactor
    BY <1>7, <2>1, Zenon DEF FactorOf, FactorValue, factor
  <2>3. RegisterFits(registers[name], Len(words)) /\ RegisterFits(factor, Len(words))
    BY <1>3, <1>4, <2>1 DEF factor
  <2>4. LiveScale(registers[name], registers, words) = Scale("int16", RateFactor)
    BY <2>1, <2>2, <2>3, Zenon DEF LiveScale
  <2>5. Scale("int16", RateFactor) \in Nat \ {0}
    <3>1. LiveScale(registers[name], registers, words) # None
      BY <1>2, <2>1, <2>2, <2>3, LiveScales
    <3>2. LiveScale(registers[name], registers, words) \in {None} \cup (Nat \ {0})
      BY <1>2, <2>1, LiveScales
    <3> QED
      BY <2>4, <3>1, <3>2
  <2> QED
    BY <2>3, <2>4, <2>5
<1>9. Reference \in Nat
  <2> DEFINE scale == LiveScale(reference, registers, words)
             bits == Combine(Words(reference, 0, words))
  <2>1. scale \in {None} \cup (Nat \ {0})
    BY <1>2, <1>4, LiveScales DEF reference
  <2>2. scale # None
    <3>1. CASE reference.scaleFactor = None
      BY <1>2, <1>4, <3>1, LiveScales DEF reference
    <3>2. CASE reference.scaleFactor # None
      <4>1. reference.scaleFactor \in DOMAIN registers
        <5>1. FactorDefined(reference, registers)
          BY <1>4, StorageModel, Layout DEF reference, registers
        <5> QED
          BY <3>2, <5>1, Zenon DEF FactorDefined
      <4>2. RegisterFits(FactorOf(reference, registers), Len(words))
        BY <1>3, <4>1, Zenon DEF FactorOf
      <4>3. FactorValue(reference, registers, words) # None
        <5>1. CASE FactorValue(reference, registers, words) = None
          <6>1. reference.type # "string"
            BY <1>4
          <6>2. Value(reference, 0, words, registers) = None
            BY <3>2, <5>1, <6>1, Zenon DEF Value, FactorValue, FactorOf
          <6> QED
            BY <1>5, <6>2
        <5> QED
          BY <5>1
      <4> QED
        BY <1>2, <1>4, <3>2, <4>2, <4>3, LiveScales DEF reference
    <3> QED
      BY <3>1, <3>2
  <2>3. Reference = Decode("uint16", bits, scale, Base)
    <3>1. reference.type # "string"
      BY <1>4
    <3>2. Value(reference, 0, words, registers)
             = Decode(reference.type, bits, scale, Modulus(reference.size))
      BY <2>2, <3>1, ValueIsRead
    <3> QED
      BY <1>4, <1>5, <3>2, ModulusAssumption
  <2>4. bits \in 0 .. Base - 1
    <3>1. reference.offset \in Nat
      BY <1>4, StorageModel, Layout DEF reference, registers
    <3>2. RegisterFits(reference, Len(words))
      BY <1>3, <1>4 DEF reference
    <3> QED
      BY <1>2, <1>4, <3>1, <3>2, OneWord DEF Word
  <2> HIDE DEF bits, scale
  <2>5. Reference = bits * scale
    <3>1. FromBits("uint16", bits, Base) = bits
      BY DEF FromBits, Signed
    <3> QED
      BY <2>3, <3>1, Zenon DEF Decode
  <2>6. bits \in Nat /\ scale \in Nat
    BY <2>1, <2>2, <2>4, BaseAssumption
  <2> QED
    BY <2>5, <2>6
<1> QED
  BY <1>1, <1>8, <1>9 DEF words

(* Whole counts between the ends of the neutral window can be written.        *)
LEMMA RateIsEncoded ==
  ASSUME NEW resolution \in Nat \ {0}, ValidResolution(resolution),
         NEW q \in Int, -Full <= q * resolution, q * resolution <= Full,
         NEW name \in {"InWRte", "OutWRte"}
  PROVE  Encode(Storage124.registers[name], q * resolution, resolution, Modulus(1)) # None
<1> DEFINE half == Base \div 2
           most == Full \div resolution
           least == (-Full) \div resolution
           rate == q * resolution
           register == Storage124.registers[name]
<1>1. half \in Nat \ {0} /\ Base = 2 * half
  BY BaseAssumption
<1>2. Full \in Nat \ {0}
  BY UnitAssumption DEF Full
<1>3. \A end \in {Full, -Full} : Encode(Storage124.registers["InWRte"], end, resolution, Base) # None
  BY ModulusAssumption, Zenon DEF ValidResolution
<1>4. Storage124.registers["InWRte"].type = "int16"
  BY StorageRegisters
<1>5. /\ Full % resolution = 0 /\ Fits("int16", most, Base)
      /\ (-Full) % resolution = 0 /\ Fits("int16", least, Base)
      /\ ToBits(least, Base) # Sentinel("int16", Base)
  BY <1>3, <1>4, Zenon DEF Encode
<1>6. most \in Int /\ least \in Int /\ most * resolution = Full /\ least * resolution = -Full
  BY <1>2, <1>5, Multiple
<1> HIDE DEF most, least
<1>7. most < half /\ -half <= least
  BY <1>1, <1>5, <1>6 DEF Fits, Signed
<1>8. least # -half
  <2>1. Sentinel("int16", Base) = half
    BY DEF Sentinel, Signed, Accumulators
  <2>2. least < 0
    BY <1>2, <1>6
  <2> QED
    BY <1>1, <1>5, <1>6, <2>1, <2>2 DEF ToBits
<1>9. least <= q /\ q <= most
  BY <1>6, Monotone
<1>10. -half < q /\ q < half
  BY <1>1, <1>6, <1>7, <1>8, <1>9
<1>11. rate \div resolution = q /\ rate % resolution = 0
  OBVIOUS
<1>12. /\ register.writable /\ register.type = "int16"
       /\ register.lo = -Full /\ register.hi = Full /\ register.step = None
       /\ register.options = None
  BY StorageRegisters
<1>13. rate \in Int
  OBVIOUS
<1>14. InRange(register, rate) /\ Known(register, q)
  <2> HIDE DEF register
  <2>1. -Full <= rate /\ rate <= Full
    OBVIOUS
  <2> HIDE DEF rate
  <2> QED
    BY <1>2, <1>12, <1>13, <2>1 DEF InRange, Known
<1>15. Fits("int16", q, Base)
  BY <1>1, <1>10 DEF Fits, Signed
<1>16. ToBits(q, Base) # Sentinel("int16", Base) /\ ToBits(q, Base) # None
  <2>1. Sentinel("int16", Base) = half
    BY DEF Sentinel, Signed, Accumulators
  <2>2. ToBits(q, Base) \in Int
    BY BaseAssumption DEF ToBits
  <2>3. ToBits(q, Base) # half
    BY <1>1, <1>10 DEF ToBits
  <2> QED
    BY <2>1, <2>2, <2>3, NoneAssumption
<1>17. "int16" \in Encodable
  BY DEF Encodable, ExpectedSize, Accumulators
<1> HIDE DEF rate, register
<1>18. Encode(register, rate, resolution, Base) = ToBits(q, Base)
  BY <1>11, <1>12, <1>14, <1>15, <1>16, <1>17, Zenon DEF Encode
<1> QED
  BY <1>16, <1>18, ModulusAssumption DEF rate, register


(* Magnitudes are counts between zero and the whole reference.                *)
LEMMA MagnitudeIsCount ==
  ASSUME Reference \in Nat \ {0}, NEW resolution \in Nat \ {0}, ValidResolution(resolution),
         NEW watts \in Nat, ValidWatts(watts, Reference), NEW minimum \in BOOLEAN
  PROVE  \E q \in Int : /\ Magnitude(watts, Reference, resolution, minimum) = q * resolution
                        /\ 0 <= q * resolution /\ q * resolution <= Full
<1> DEFINE n == Numerator(watts)
           d == Denominator(Reference, resolution)
           q == IF minimum THEN Ceiling(n, d) ELSE Floor(n, d)
           rate == Magnitude(watts, Reference, resolution, minimum)
<1>1. Full \in Nat \ {0} /\ Unit \in Nat \ {0}
  BY UnitAssumption DEF Full
<1>2. n \in Nat /\ d \in Nat \ {0}
  BY NumeratorType, Counts DEF Denominator
<1>3. q \in Int
  <2>1. Floor(n, d) \in Int /\ Ceiling(n, d) \in Int
    <3> HIDE DEF n, d
    <3>1. Floor(n, d) \in Nat
      BY <1>2, FloorIsGreatest
    <3>2. Ceiling(n, d) \in Nat
      BY <1>2, CeilingIsLeast
    <3> QED
      BY <3>1, <3>2
  <2> HIDE DEF n, d
  <2> QED
    BY <2>1
<1>4. rate = q * resolution
  BY Zenon DEF Magnitude
<1>5. n <= Full * Reference /\ n \in Nat /\ Full * Reference \in Nat
  <2>1. watts * Unit <= Reference /\ watts * Unit \in Int
    BY <1>1 DEF ValidWatts
  <2>2. (watts * Unit) * Full <= Reference * Full
    BY <1>1, <2>1, Monotone
  <2>3. n = (watts * Unit) * Full /\ Reference * Full = Full * Reference
    BY <1>1 DEF Numerator
  <2> QED
    BY <1>1, <1>2, <2>2, <2>3
<1>6. rate \in Nat /\ rate <= Full
  <2>1. CASE minimum
    <3>1. PICK most \in Int : most * resolution = Full
      <4>1. Encode(Storage124.registers["InWRte"], Full, resolution, Modulus(1)) # None
        BY Zenon DEF ValidResolution
      <4>2. Full % resolution = 0
        BY <4>1, Zenon DEF Encode
      <4>3. Full \div resolution \in Int /\ (Full \div resolution) * resolution = Full
        BY <1>1, <4>2, Multiple
      <4> QED
        BY <4>3
    <3>2. AtLeast(most * resolution, watts)
      BY <1>5, <3>1 DEF AtLeast
    <3>3. rate = Magnitude(watts, Reference, resolution, TRUE)
      BY <2>1
    <3>4. rate \in Nat /\ rate <= most * resolution
      BY <3>2, <3>3, MinimumIsLeast
    <3> QED
      BY <3>1, <3>4
  <2>2. CASE ~minimum
    <3>1. rate = Magnitude(watts, Reference, resolution, FALSE)
      BY <2>2
    <3>2. rate \in Nat /\ AtMost(rate, watts)
      BY <3>1, MaximumIsGreatest
    <3> HIDE DEF rate
    <3>3. rate * Reference <= Full * Reference
      BY <1>5, <3>2 DEF AtMost
    <3> QED
      BY <1>1, <3>2, <3>3, Monotone
  <2> QED
    BY <2>1, <2>2
<1> HIDE DEF q, rate
<1> QED
  BY <1>3, <1>4, <1>6 DEF rate

LEMMA BoundaryIsCount ==
  ASSUME Reference \in Nat \ {0}, NEW resolution \in Nat \ {0}, ValidResolution(resolution),
         NEW settings \in PowerSettings, ValidPowerSettings(settings, Reference),
         NEW direction \in Directions
  PROVE  \E q \in Int : /\ Boundary(settings, Reference, resolution, direction) = q * resolution
                        /\ -Full <= q * resolution /\ q * resolution <= Full
<1> DEFINE opposite == Opposite(direction)
           forced == settings.minimum[opposite]
           allowed == settings.maximum[direction]
<1>1. opposite \in Directions
  BY DEF Opposite, Directions
<1>2. /\ forced \in Nat /\ allowed \in Nat
      /\ ValidWatts(forced, Reference) /\ ValidWatts(allowed, Reference)
  BY <1>1 DEF PowerSettings, ValidPowerSettings
<1> DEFINE least == Magnitude(forced, Reference, resolution, TRUE)
           most == Magnitude(allowed, Reference, resolution, FALSE)
<1>3. PICK p \in Int : least = p * resolution /\ 0 <= p * resolution /\ p * resolution <= Full
  <2> HIDE DEF forced
  <2> QED
    BY <1>2, MagnitudeIsCount
<1>4. PICK q \in Int : most = q * resolution /\ 0 <= q * resolution /\ q * resolution <= Full
  <2> HIDE DEF allowed
  <2> QED
    BY <1>2, MagnitudeIsCount
<1>5. Boundary(settings, Reference, resolution, direction) \in {-least, most}
  BY DEF Boundary
<1>6. /\ -p \in Int /\ (-p) * resolution = -(p * resolution) /\ p * resolution \in Int
      /\ Full \in Nat
  BY UnitAssumption DEF Full
<1> HIDE DEF least, most
<1>7. CASE Boundary(settings, Reference, resolution, direction) = -least
  <2>1. -least = (-p) * resolution
    BY <1>3, <1>6
  <2>2. -Full <= (-p) * resolution /\ (-p) * resolution <= Full
    BY <1>3, <1>6
  <2> QED
    BY <1>6, <1>7, <2>1, <2>2
<1>8. CASE Boundary(settings, Reference, resolution, direction) = most
  <2>1. -Full <= q * resolution
    BY <1>4, <1>6
  <2> QED
    BY <1>4, <1>8, <2>1
<1> QED
  BY <1>5, <1>7, <1>8

(* A window can be written, and is recognised afterwards.                     *)
LEMMA WindowIsUsable ==
  ASSUME Reference \in Nat \ {0}, NEW resolution \in Nat \ {0}, NEW settings \in PowerSettings,
         ManualWindow(settings, Reference, resolution) # None
  PROVE  LET window == ManualWindow(settings, Reference, resolution) IN
         /\ \A name \in {"InWRte", "OutWRte"} :
               /\ Encode(Storage124.registers[name], window[name], resolution, Modulus(1)) # None
               /\ window[name] \in Int
         /\ Classify(window, window) = "manual_hlc"
         /\ LoadsTarget(window) /\ LoadsProfile(settings)
<1> DEFINE window == ManualWindow(settings, Reference, resolution)
           in == Boundary(settings, Reference, resolution, "charge")
           out == Boundary(settings, Reference, resolution, "discharge")
<1>1. /\ ValidPowerSettings(settings, Reference) /\ ValidResolution(resolution) /\ -in <= out
      /\ window = [StorCtl_Mod |-> 3, InWRte |-> in, OutWRte |-> out]
  BY Zenon DEF ManualWindow
<1>2. "charge" \in Directions /\ "discharge" \in Directions
  BY DEF Directions
<1>3. PICK p \in Int : in = p * resolution /\ -Full <= p * resolution /\ p * resolution <= Full
  BY <1>1, <1>2, BoundaryIsCount
<1>4. PICK q \in Int : out = q * resolution /\ -Full <= q * resolution /\ q * resolution <= Full
  BY <1>1, <1>2, BoundaryIsCount
<1>5. /\ window.StorCtl_Mod = 3 /\ window.InWRte = in /\ window.OutWRte = out
      /\ window["InWRte"] = in /\ window["OutWRte"] = out
  BY <1>1
<1> HIDE DEF window, in, out
<1>6. in \in Int /\ out \in Int /\ -Full <= in /\ in <= Full /\ -Full <= out /\ out <= Full
  BY <1>3, <1>4
<1>7. ASSUME NEW name \in {"InWRte", "OutWRte"}
      PROVE  /\ Encode(Storage124.registers[name], window[name], resolution, Modulus(1)) # None
             /\ window[name] \in Int
  <2>1. CASE name = "InWRte"
    <3>1. Encode(Storage124.registers[name], p * resolution, resolution, Modulus(1)) # None
      BY <1>1, <1>3, RateIsEncoded
    <3> QED
      BY <1>3, <1>5, <1>6, <2>1, <3>1
  <2>2. CASE name = "OutWRte"
    <3>1. Encode(Storage124.registers[name], q * resolution, resolution, Modulus(1)) # None
      BY <1>1, <1>4, RateIsEncoded
    <3> QED
      BY <1>4, <1>5, <1>6, <2>2, <3>1
  <2> QED
    BY <2>1, <2>2
<1>8. ValidPowerState(window)
  <2>1. \A rate \in {window.InWRte, window.OutWRte} : -Full <= rate /\ rate <= Full
    BY <1>5, <1>6
  <2>2. window.StorCtl_Mod \in 0 .. 3 /\ -window.InWRte <= window.OutWRte
    BY <1>1, <1>5
  <2> QED
    BY <2>1, <2>2, Zenon DEF ValidPowerState
<1>9. window # Automatic
  BY <1>5 DEF Automatic
<1>10. window # None
  BY DEF window
<1>11. Classify(window, window) = "manual_hlc"
  BY <1>5, <1>8, <1>9, <1>10, Zenon DEF Classify
<1>12. LoadsTarget(window)
  BY <1>5, <1>8, Zenon DEF LoadsTarget
<1>13. LoadsProfile(settings)
  BY <1>1, Zenon DEF LoadsProfile, ValidPowerSettings, ValidWatts
<1> QED
  BY <1>7, <1>11, <1>12, <1>13 DEF window

LEMMA Prepared ==
  ASSUME NEW name, NEW value, NEW registers, NEW words,
         RegisterFits(registers[name], Len(words)), registers[name].size = 1,
         LiveScale(registers[name], registers, words) \in Nat,
         Encode(registers[name], value, LiveScale(registers[name], registers, words), Modulus(1))
            \in Nat
  PROVE  Prepare(name, value, registers, words) # None
<1> DEFINE scale == LiveScale(registers[name], registers, words)
           bits == Encode(registers[name], value, scale, Modulus(1))
           plan == [scale |-> scale, words |-> Split(bits, 1)]
<1>1. scale # None /\ bits # None
  BY NoneAssumption
<1>2. Prepare(name, value, registers, words) = plan
  BY <1>1, Zenon DEF Prepare
<1>3. plan \in Plans
  <2>1. Split(bits, 1) \in Seq(Nat)
    <3> DEFINE w(i) == (bits \div Modulus(1 - i)) % Base
               n == 1
    <3>1. \A i \in 1 .. 1 : w(i) \in Nat
      <4>1. \A i \in 1 .. 1 : Modulus(1 - i) = 1
        BY ModulusAssumption
      <4>2. bits \in Nat => (bits \div 1) % Base \in Nat
        <5> HIDE DEF bits
        <5> QED
          BY BaseAssumption
      <4> QED
        BY <4>1, <4>2
    <3>2. Split(bits, 1) = [i \in 1 .. 1 |-> w(i)]
      BY DEF Split
    <3> DEFINE s == Split(bits, 1)
    <3> HIDE DEF w, s
    <3>3. s \in [1 .. n -> Nat] /\ n \in Nat
      BY <3>1, <3>2 DEF s
    <3> HIDE DEF n
    <3>4. s \in Seq(Nat)
      BY ONLY <3>3, SeqDef
    <3> QED
      BY <3>4 DEF s
  <2> HIDE DEF bits
  <2> QED
    BY <2>1 DEF Plans
<1> QED
  BY <1>2, <1>3, PlansAssumption


(* What is not refused is a value of one word.                                *)
LEMMA EncodedWord ==
  ASSUME NEW register, NEW value \in Int, NEW scale \in Nat \ {0},
         Encode(register, value, scale, Modulus(1)) # None
  PROVE  Encode(register, value, scale, Modulus(1)) \in Nat
<1> DEFINE half == Base \div 2
           m == Modulus(1)
<1>1. half \in Nat \ {0} /\ m = 2 * half /\ m \in Nat
  BY BaseAssumption, ModulusAssumption
<1> HIDE DEF half, m
<1>2. Encode(register, value, scale, m) # None
  BY DEF m
<1>3. Encode(register, value, scale, m) \in 0 .. m - 1
  BY <1>1, <1>2, EncodedIsDecoded
<1>4. Encode(register, value, scale, m) \in Nat
  BY <1>1, <1>3
<1> QED
  BY <1>4 DEF m

(* A window never allows less than a minimum or more than a maximum the user  *)
(* set; it can be written, is recognised afterwards and is accepted again     *)
(* from storage; and one is refused only when no rate of the register lies    *)
(* between the minimum and the maximum of a direction.                        *)
(* (storage_control.power_window and the checks around it)                    *)
THEOREM WindowHonoursSettingsAlways == Spec => []WindowHonoursSettings
<1> DEFINE window == request.window
           settings == request.settings
           resolution == Scale("int16", RateFactor)
           honoured == /\ \A d \in Directions :
                            /\ Least(window, d) <= Most(window, d)
                            /\ settings.minimum[d] > 0 => AtLeast(Least(window, d), settings.minimum[d])
                            /\ settings.minimum[Opposite(d)] = 0
                                 => AtMost(Most(window, d), settings.maximum[d])
                       /\ \A name \in {"InWRte", "OutWRte"} :
                            Prepare(name, window[name], Storage124.registers, device[1]) # None
                       /\ Classify(window, window) = "manual_hlc"
                       /\ LoadsTarget(window) /\ LoadsProfile(settings)
           hopeless == \E d \in Directions : \A raw \in 0 .. Full \div resolution :
                          ~(AtLeast(raw * resolution, settings.minimum[d])
                              /\ AtMost(raw * resolution, settings.maximum[d]))
<1>1. ASSUME DeviceInv, request # None, request.kind = "window"
      PROVE  IF window # None THEN honoured
             ELSE ValidPowerSettings(settings, Reference) /\ ValidResolution(resolution) => hopeless
  <2>1. /\ Len(device) = 1 /\ Only = 124
        /\ Decoded(1) # None /\ Reference # None /\ RateFactor # None
        /\ settings \in PowerSettings
        /\ window = ManualWindow(settings, Reference, resolution)
    BY <1>1, SettingsAssumption DEF DeviceInv, WindowIsComputed
  <2>2. /\ Reference \in Nat /\ resolution \in Nat \ {0}
        /\ \A name \in {"InWRte", "OutWRte"} :
              /\ RegisterFits(Storage124.registers[name], Len(device[1]))
              /\ LiveScale(Storage124.registers[name], Storage124.registers, device[1]) = resolution
    BY <1>1, <2>1, StorageIsDecoded
  <2> HIDE DEF window, settings, resolution
  <2>3. CASE Reference = 0
    <3>1. ~ValidPowerSettings(settings, Reference)
      BY <2>3 DEF ValidPowerSettings, ValidWatts, Directions
    <3>2. window = None
      BY <2>1, <3>1, Zenon DEF ManualWindow
    <3> QED
      BY <3>1, <3>2
  <2>4. CASE Reference # 0
    <3>1. Reference \in Nat \ {0}
      BY <2>2, <2>4
    <3>2. ASSUME window # None  PROVE honoured
      <4>1. ASSUME NEW d \in Directions
            PROVE  /\ Least(window, d) <= Most(window, d)
                   /\ settings.minimum[d] > 0 => AtLeast(Least(window, d), settings.minimum[d])
                   /\ settings.minimum[Opposite(d)] = 0
                        => AtMost(Most(window, d), settings.maximum[d])
        BY <2>1, <2>2, <3>1, <3>2, WindowIsInside
      <4>2. /\ \A name \in {"InWRte", "OutWRte"} :
                 /\ Encode(Storage124.registers[name], window[name], resolution, Modulus(1)) # None
                 /\ window[name] \in Int
            /\ Classify(window, window) = "manual_hlc"
            /\ LoadsTarget(window) /\ LoadsProfile(settings)
        BY <2>1, <2>2, <3>1, <3>2, WindowIsUsable
      <4>3. ASSUME NEW name \in {"InWRte", "OutWRte"}
            PROVE  Prepare(name, window[name], Storage124.registers, device[1]) # None
        <5>1. Encode(Storage124.registers[name], window[name], resolution, Modulus(1)) \in Nat
          BY <2>2, <4>2, EncodedWord
        <5>2. Storage124.registers[name].size = 1
          BY StorageRegisters
        <5> DEFINE registers == Storage124.registers
                   words == device[1]
                   value == window[name]
        <5>3. /\ RegisterFits(registers[name], Len(words)) /\ registers[name].size = 1
              /\ LiveScale(registers[name], registers, words) \in Nat
              /\ Encode(registers[name], value, LiveScale(registers[name], registers, words), Modulus(1))
                   \in Nat
          BY <2>2, <5>1, <5>2
        <5> HIDE DEF registers, words, value
        <5>4. Prepare(name, value, registers, words) # None
          BY ONLY <5>3, Prepared
        <5> QED
          BY <5>4 DEF registers, words, value
      <4> QED
        BY <4>1, <4>2, <4>3
    <3>3. ASSUME window = None, ValidPowerSettings(settings, Reference), ValidResolution(resolution)
          PROVE  hopeless
      <4>1. \E d \in Directions : \A raw \in Int :
               ~(/\ AtLeast(raw * resolution, settings.minimum[d])
                 /\ AtMost(raw * resolution, settings.maximum[d]))
        BY <2>1, <2>2, <3>1, <3>3, RefusedWindowIsEmpty
      <4>2. \A raw \in 0 .. Full \div resolution : raw \in Int
        OBVIOUS
      <4> QED
        BY <4>1, <4>2
    <3> HIDE DEF honoured, hopeless
    <3> QED
      BY <3>2, <3>3
  <2> QED
    BY <2>3, <2>4
<1>2. DeviceInv => WindowHonoursSettings
  BY <1>1, Zenon DEF WindowHonoursSettings
<1> QED
  BY <1>2, DeviceInvariance, PTL

(***************************************************************************)
(* Snapshots.                                                               *)
(***************************************************************************)

(* Settings without lists are valid when their bounds narrow the register.    *)
LEMMA PlainSettings ==
  ASSUME NEW coordinate, NEW settings,
         coordinate[1] \in DOMAIN ModelDefinitions,
         coordinate[2] \in DOMAIN ModelDefinitions[coordinate[1]].registers,
         settings # Malformed,
         DOMAIN settings \subseteq {"enabled", "minimum", "maximum"},
         \A key \in DOMAIN settings : settings[key] # Malformed,
         ValidPolicy(ParsedPolicy(settings),
                     ModelDefinitions[coordinate[1]].registers[coordinate[2]])
  PROVE  ValidSettings(coordinate, settings)
<1>1. DOMAIN settings \subseteq SettingKeys
  BY DEF SettingKeys
<1>2. "values" \notin DOMAIN settings /\ "bits" \notin DOMAIN settings
  OBVIOUS
<1>3. Given(settings, "values", None) = None /\ Given(settings, "bits", None) = None
  BY <1>2, Zenon DEF Given
<1>4. \A register : /\ ValidList(settings, "values", register, {"enum16"})
                    /\ ValidList(settings, "bits", register, BitFields)
  BY <1>3, Zenon DEF ValidList
<1> QED
  BY <1>1, <1>4, Zenon DEF ValidSettings

LEMMA DefaultPolicy ==
  ASSUME NEW coordinate \in WritableRegisters
  PROVE  ValidSettings(coordinate, DefaultPolicyFile.models[coordinate])
<1> DEFINE settings == DefaultPolicyFile.models[coordinate]
           register == ModelDefinitions[coordinate[1]].registers[coordinate[2]]
           policy == ParsedPolicy(settings)
<1>1. /\ coordinate[1] \in {123, 124}
      /\ coordinate[2] \in DOMAIN ModelDefinitions[coordinate[1]].registers
      /\ register.writable
  BY DEF WritableRegisters
<1>2. coordinate[1] \in DOMAIN ModelDefinitions
  BY <1>1 DEF ModelDefinitions
<1>3. settings = IF coordinate = <<124, "MinRsvPct">>
                 THEN [enabled |-> TRUE, minimum |-> 5 * Unit, maximum |-> 100 * Unit]
                 ELSE IF coordinate \in {124} \X {"StorCtl_Mod", "OutWRte", "InWRte", "ChaGriSet"}
                 THEN [enabled |-> TRUE] ELSE [enabled |-> FALSE]
  BY DEF DefaultPolicyFile
<1>4. settings # Malformed
  BY MalformedAssumption
<1>5. /\ 5 * Unit \in Int /\ 100 * Unit \in Int /\ 0 <= 5 * Unit /\ 5 * Unit <= 100 * Unit
      /\ Malformed # 5 * Unit /\ Malformed # 100 * Unit
  BY UnitAssumption, NoneAssumption
<1>6. Malformed # TRUE /\ Malformed # FALSE
  BY MalformedAssumption
<1> HIDE DEF settings, register
<1>7. /\ DOMAIN settings \subseteq {"enabled", "minimum", "maximum"}
      /\ \A key \in DOMAIN settings : settings[key] # Malformed
      /\ ValidPolicy(policy, register)
  <2>1. CASE coordinate = <<124, "MinRsvPct">>
    <3>1. settings = [enabled |-> TRUE, minimum |-> 5 * Unit, maximum |-> 100 * Unit]
      BY <1>3, <2>1
    <3>2. /\ DOMAIN settings = {"enabled", "minimum", "maximum"}
          /\ settings["enabled"] = TRUE
          /\ settings["minimum"] = 5 * Unit /\ settings["maximum"] = 100 * Unit
      BY <3>1
    <3>3. \A key \in DOMAIN settings : settings[key] # Malformed
      BY <1>5, <1>6, <3>2
    <3>4. register.lo = 0 /\ register.hi = 100 * Unit /\ register.step = None
      <4>1. register = Storage124.registers["MinRsvPct"]
        BY <2>1, StorageModel DEF register
      <4> QED
        BY <4>1, StorageRegisters DEF Full
    <3>5. /\ policy.lo = 5 * Unit /\ policy.hi = 100 * Unit /\ policy.step = None
          /\ policy.values = None
      BY <3>2 DEF ParsedPolicy, Given, ListOf
    <3> HIDE DEF policy
    <3>6. ValidPolicy(policy, register)
      BY <1>1, <1>5, <3>4, <3>5 DEF ValidPolicy
    <3> QED
      BY <3>2, <3>3, <3>6
  <2>2. CASE coordinate # <<124, "MinRsvPct">>
    <3>1. PICK enabled \in BOOLEAN : settings = [enabled |-> enabled]
      BY <1>3, <2>2
    <3>2. DOMAIN settings = {"enabled"} /\ settings["enabled"] = enabled
      BY <3>1
    <3>3. \A key \in DOMAIN settings : settings[key] # Malformed
      BY <1>6, <3>2
    <3>4. policy.lo = None /\ policy.hi = None /\ policy.step = None /\ policy.values = None
      BY <3>2 DEF ParsedPolicy, Given, ListOf
    <3> HIDE DEF policy
    <3>5. ValidPolicy(policy, register)
      BY <1>1, <3>4, Zenon DEF ValidPolicy
    <3> QED
      BY <3>2, <3>3, <3>5
  <2> QED
    BY <2>1, <2>2
<1> QED
  BY <1>1, <1>2, <1>4, <1>7, PlainSettings DEF register, settings

(* What the installed policy says of what is restored.                        *)
LEMMA RestoringIsAllowed ==
  LET policies == LoadPolicies(DefaultPolicyFile) IN
  /\ policies[<<124, "MinRsvPct">>].enabled = TRUE
  /\ policies[<<124, "MinRsvPct">>].lo = 5 * Unit
  /\ policies[<<124, "MinRsvPct">>].hi = Full
  /\ policies[<<124, "MinRsvPct">>].step = None
  /\ policies[<<124, "ChaGriSet">>].enabled = TRUE
  /\ policies[<<124, "ChaGriSet">>].values = None
<1> DEFINE policies == LoadPolicies(DefaultPolicyFile)
           reserve == <<124, "MinRsvPct">>
           permission == <<124, "ChaGriSet">>
<1>1. DOMAIN DefaultPolicyFile.models = WritableRegisters /\ DefaultPolicyFile.version = 1
  BY DEF DefaultPolicyFile
<1>2. policies = [c \in WritableRegisters |-> ParsedPolicy(DefaultPolicyFile.models[c])]
  <2>1. DefaultPolicyFile # Malformed
    BY MalformedAssumption
  <2> QED
    BY <1>1, <2>1, DefaultPolicy, Zenon DEF LoadPolicies
<1>3. reserve \in WritableRegisters /\ permission \in WritableRegisters
  BY StorageRegisters, StorageModel DEF WritableRegisters
<1>4. /\ DefaultPolicyFile.models[reserve]
           = [enabled |-> TRUE, minimum |-> 5 * Unit, maximum |-> 100 * Unit]
      /\ DefaultPolicyFile.models[permission] = [enabled |-> TRUE]
  BY <1>3 DEF DefaultPolicyFile
<1> DEFINE r == ParsedPolicy([enabled |-> TRUE, minimum |-> 5 * Unit, maximum |-> 100 * Unit])
           p == ParsedPolicy([enabled |-> TRUE])
<1>5. policies[reserve] = r /\ policies[permission] = p
  BY <1>2, <1>3, <1>4
<1>6. r.enabled = TRUE /\ r.lo = 5 * Unit /\ r.hi = 100 * Unit /\ r.step = None
  BY DEF ParsedPolicy, Given
<1>7. p.enabled = TRUE /\ p.values = None
  BY DEF ParsedPolicy, Given, ListOf
<1> QED
  BY <1>5, <1>6, <1>7 DEF Full


(* A value that was read is written back as the word it was read from.        *)
LEMMA ReadIsEncoded ==
  ASSUME NEW register, register.type \in {"uint16", "enum16"}, register.writable,
         NEW bits \in Word, NEW scale \in Nat \ {0},
         Decode(register.type, bits, scale, Base) # None,
         InRange(register, bits * scale), Known(register, bits)
  PROVE  Encode(register, bits * scale, scale, Base) = bits
<1> DEFINE value == bits * scale
           type == register.type
<1>1. bits \in Nat /\ bits < Base
  BY BaseAssumption DEF Word
<1>2. type \notin Signed /\ type \in Encodable
  BY DEF Signed, Encodable, ExpectedSize, Accumulators
<1>3. bits # Sentinel(type, Base)
  BY Zenon DEF Decode
<1>4. value \div scale = bits /\ value % scale = 0
  BY <1>1
<1>5. Fits(type, bits, Base) /\ ToBits(bits, Base) = bits
  BY <1>1, <1>2 DEF Fits, ToBits
<1> HIDE DEF value
<1>6. Encode(register, value, scale, Base) = bits
  BY <1>2, <1>3, <1>4, <1>5, Zenon DEF Encode, value
<1> QED
  BY <1>6 DEF value

LEMMA ReadIsUnsigned ==
  ASSUME NEW type \in {"uint16", "enum16"}, NEW bits \in Word, NEW scale \in Nat \ {0},
         Decode(type, bits, scale, Base) # None
  PROVE  Decode(type, bits, scale, Base) = bits * scale
<1>1. FromBits(type, bits, Base) = bits
  BY DEF FromBits, Signed
<1> QED
  BY <1>1, Zenon DEF Decode

(* Every reserve and every permission that may be captured before remote      *)
(* control can be written back when it ends, under the policy the integration *)
(* installs.  (storage_control.py, write_policy.default.yaml)                 *)
THEOREM SnapshotIsRestorableAlways == Spec => []SnapshotIsRestorable
<1> DEFINE registers == Storage124.registers
           words == device[1]
           Read(name) == ReadRegister(name, registers, words)
           Restorable(name) ==
              /\ PolicyAccepts(LoadPolicies(DefaultPolicyFile)[<<124, name>>], registers[name], Read(name))
              /\ Prepare(name, Read(name), registers, words) # None
<1>1. ASSUME DeviceInv, Len(device) = 1, Only = 124,
             NEW name \in {"MinRsvPct", "ChaGriSet"}, ValidPolicySetting(name, Read(name))
      PROVE  Restorable(name)
  <2> DEFINE register == registers[name]
             scale == LiveScale(register, registers, words)
             bits == Combine(Words(register, 0, words))
             value == Read(name)
  <2>1. words \in Seq(Word) /\ Scaled(registers, words) /\ registers = RegistersOf(124)
    BY <1>1, OnlyModel, StorageModel DEF RegistersOf
  <2>2. /\ name \in DOMAIN registers /\ register.writable = TRUE /\ register.size = 1
        /\ register.type \in {"uint16", "enum16"}
        /\ register.offset \in Nat
    <3>1. /\ name \in DOMAIN registers /\ register.writable = TRUE /\ register.size = 1
          /\ register.type \in {"uint16", "enum16"}
      BY <1>1, StorageRegisters
    <3>2. register.offset \in Nat
      BY <2>1, <3>1, StorageModel, Layout
    <3> QED
      BY <3>1, <3>2
  <2>3. value # None
    BY <1>1, NoneAssumption DEF ValidPolicySetting
  <2>4. /\ RegisterFits(register, Len(words)) /\ scale # None
        /\ value = Decode(register.type, bits, scale, Base)
    <3>1. RegisterFits(register, Len(words)) /\ scale # None
      BY <2>3, Zenon DEF ReadRegister
    <3>2. value = Decode(register.type, bits, scale, Modulus(register.size))
      BY <3>1, Zenon DEF ReadRegister
    <3> QED
      BY <2>2, <3>1, <3>2, ModulusAssumption
  <2>5. scale \in Nat \ {0}
    BY <2>1, <2>2, <2>4, LiveScales
  <2>6. bits \in Word
    BY <2>1, <2>2, <2>4, OneWord DEF Word
  <2>7. value = bits * scale /\ bits \in Nat
    <3> HIDE DEF value, bits, scale
    <3>1. value = bits * scale
      BY <2>2, <2>3, <2>4, <2>5, <2>6, ReadIsUnsigned
    <3> QED
      BY <2>6, <3>1, BaseAssumption DEF Word
  <2> HIDE DEF value, bits, scale
  <2>8. /\ InRange(register, value) /\ Known(register, bits)
        /\ PolicyAccepts(LoadPolicies(DefaultPolicyFile)[<<124, name>>], register, value)
    <3>1. CASE name = "MinRsvPct"
      <4>1. 5 * Unit <= value /\ value <= Full /\ value \in Nat
        BY <1>1, <2>5, <2>7, <3>1 DEF ValidPolicySetting, value
      <4>2. /\ register.lo = 0 /\ register.hi = Full /\ register.step = None
            /\ register.options = None /\ register.type = "uint16"
        BY <3>1, StorageRegisters
      <4> DEFINE policy == LoadPolicies(DefaultPolicyFile)[<<124, name>>]
      <4>3. policy.enabled /\ policy.lo = 5 * Unit /\ policy.hi = Full /\ policy.step = None
        BY <3>1, RestoringIsAllowed
      <4> HIDE DEF policy, register
      <4>4. InRange(register, value) /\ Known(register, bits)
        BY <4>1, <4>2 DEF InRange, Known
      <4>5. PolicyAccepts(policy, register, value)
        BY <4>1, <4>2, <4>3 DEF PolicyAccepts, BitFields
      <4> QED
        BY <4>4, <4>5 DEF policy
    <3>2. CASE name = "ChaGriSet"
      <4>1. /\ register.lo = None /\ register.hi = None /\ register.step = None
            /\ register.options = {0, 1} /\ register.type = "enum16"
            /\ register.scaleFactor = None
        BY <3>2, StorageRegisters
      <4>2. value \in {0, 1}
        BY <1>1, <3>2 DEF ValidPolicySetting, value
      <4>3. scale = 1
        <5>1. scale = Scale(register.type, None)
          BY <4>1, Zenon DEF LiveScale, scale
        <5>2. "enum16" \notin Scalable
          BY DEF Scalable, Accumulators
        <5> QED
          BY <4>1, <5>1, <5>2 DEF Scale
      <4>4. bits = value
        BY <2>7, <4>3
      <4> DEFINE policy == LoadPolicies(DefaultPolicyFile)[<<124, name>>]
      <4>5. policy.enabled /\ policy.values = None
        BY <3>2, RestoringIsAllowed
      <4> HIDE DEF policy, register
      <4>6. InRange(register, value) /\ Known(register, bits)
        BY <4>1, <4>2, <4>4 DEF InRange, Known, BitFields
      <4>7. PolicyAccepts(policy, register, value)
        BY <4>1, <4>5 DEF PolicyAccepts, BitFields
      <4> QED
        BY <4>6, <4>7 DEF policy
    <3> QED
      BY <3>1, <3>2
  <2>9. Encode(register, value, scale, Modulus(1)) \in Nat
    <3>1. Decode(register.type, bits, scale, Base) # None
      BY <2>3, <2>4
    <3>2. InRange(register, bits * scale) /\ Known(register, bits)
      BY <2>7, <2>8
    <3> HIDE DEF register
    <3>3. Encode(register, bits * scale, scale, Base) = bits
      BY <2>2, <2>5, <2>6, <3>1, <3>2, ReadIsEncoded
    <3> QED
      BY <2>7, <3>3, ModulusAssumption
  <2>10. Prepare(name, value, registers, words) # None
    <3>1. /\ RegisterFits(registers[name], Len(words)) /\ registers[name].size = 1
          /\ LiveScale(registers[name], registers, words) \in Nat
          /\ Encode(registers[name], value, LiveScale(registers[name], registers, words), Modulus(1))
               \in Nat
      BY <2>2, <2>4, <2>5, <2>9 DEF scale
    <3> HIDE DEF registers, words
    <3> QED
      BY ONLY <3>1, Prepared
  <2> QED
    BY <2>8, <2>10 DEF value
<1>2. DeviceInv => SnapshotIsRestorable
  BY <1>1, Zenon DEF SnapshotIsRestorable, Only
<1> QED
  BY <1>2, DeviceInvariance, PTL

(***************************************************************************)
(* The stored topology.                                                     *)
(***************************************************************************)

LEMMA TextFields ==
  ASSUME NEW offset, NEW size, NEW name
  PROVE  /\ DOMAIN Text(offset, size, name) = {name}
         /\ Text(offset, size, name)[name].type = "string"
<1>1. Register(offset, size, "string", None).type = "string"
  BY DEF Register
<1> QED
  BY <1>1, Singled, Zenon DEF Text

(* The registers that identify a device are strings.                          *)
LEMMA Identities ==
  /\ 1 \in DOMAIN ModelDefinitions /\ ModelDefinitions[1] = Common1
  /\ \A name \in Identity : name \in DOMAIN RegistersOf(1) /\ RegistersOf(1)[name].type = "string"
<1> DEFINE a1 == Text(0, 16, "Mn")
           a2 == Text(16, 16, "Md")
           a3 == Text(32, 8, "Opt")
           a4 == Text(40, 8, "Vr")
           a5 == Text(48, 16, "SN")
           a6 == Row(64, "uint16", None, <<"DA">>)
           parts == <<a1, a2, a3, a4, a5, a6>>
<1>1. /\ DOMAIN a1 = {"Mn"} /\ DOMAIN a2 = {"Md"} /\ DOMAIN a3 = {"Opt"} /\ DOMAIN a4 = {"Vr"}
      /\ DOMAIN a5 = {"SN"} /\ DOMAIN a6 = {"DA"}
  <2>1. DOMAIN a6 = {"DA"}
    BY RowOfOne
  <2>2. \A offset, size, name : DOMAIN Text(offset, size, name) = {name}
    BY TextFields, Zenon
  <2>3. /\ DOMAIN a1 = {"Mn"} /\ DOMAIN a2 = {"Md"} /\ DOMAIN a3 = {"Opt"}
        /\ DOMAIN a4 = {"Vr"} /\ DOMAIN a5 = {"SN"}
    BY <2>2, Zenon
  <2> QED
    BY <2>1, <2>3, Zenon
<1>2. /\ a1["Mn"].type = "string" /\ a2["Md"].type = "string"
      /\ a4["Vr"].type = "string" /\ a5["SN"].type = "string"
  <2>1. \A offset, size, name : Text(offset, size, name)[name].type = "string"
    BY TextFields, Zenon
  <2> QED
    BY <2>1, Zenon
<1>3. 1 \in DOMAIN ModelDefinitions /\ ModelDefinitions[1] = Common1
  BY DEF ModelDefinitions
<1>4. RegistersOf(1) = Registers(parts)
  <2> HIDE DEF parts
  <2>1. Model(Registers(parts), 65).registers = Registers(parts)
    BY DEF Model
  <2>2. Common1 = Model(Registers(parts), 65)
    BY Zenon DEF Common1, parts
  <2> QED
    BY <1>3, <2>1, <2>2 DEF RegistersOf
<1> HIDE DEF a1, a2, a3, a4, a5, a6
<1>5. /\ DOMAIN parts = 1 .. 6
      /\ parts[1] = a1 /\ parts[2] = a2 /\ parts[3] = a3 /\ parts[4] = a4 /\ parts[5] = a5
      /\ parts[6] = a6
  OBVIOUS
<1>6. \A i \in 1 .. 6 : i \in {1, 2, 3, 4, 5, 6}
  OBVIOUS
<1> HIDE DEF parts
<1>7. \A i \in DOMAIN parts :
        /\ "Mn" \in DOMAIN parts[i] <=> i = 1
        /\ "Md" \in DOMAIN parts[i] <=> i = 2
        /\ "Vr" \in DOMAIN parts[i] <=> i = 4
        /\ "SN" \in DOMAIN parts[i] <=> i = 5
  BY <1>1, <1>5, <1>6
<1>8. /\ "Mn" \in DOMAIN Registers(parts) /\ Registers(parts)["Mn"] = a1["Mn"]
      /\ "Md" \in DOMAIN Registers(parts) /\ Registers(parts)["Md"] = a2["Md"]
      /\ "Vr" \in DOMAIN Registers(parts) /\ Registers(parts)["Vr"] = a4["Vr"]
      /\ "SN" \in DOMAIN Registers(parts) /\ Registers(parts)["SN"] = a5["SN"]
  <2>1. ASSUME NEW i \in DOMAIN parts, NEW name \in DOMAIN parts[i],
               \A j \in DOMAIN parts : name \in DOMAIN parts[j] => j = i
        PROVE  name \in DOMAIN Registers(parts) /\ Registers(parts)[name] = parts[i][name]
    BY <2>1, InPart, Zenon
  <2>2. {1, 2, 4, 5} \subseteq DOMAIN parts
    BY <1>5
  <2> QED
    BY <1>5, <1>7, <2>1, <2>2
<1> QED
  BY <1>2, <1>3, <1>4, <1>8 DEF Identity

(* Only the model of the modules has a repeating block; every block has an ID. *)
LEMMA ModuleRegisters ==
  LET block == Modules160.block IN
  /\ block.registers = Module160 /\ block.offset = 8 /\ block.size = 20
  /\ "ID" \in DOMAIN Module160
  /\ Module160["ID"] = Register(0, 1, "uint16", None)
<1> DEFINE a1 == Row(0, "uint16", None, <<"ID">>)
           a2 == Text(1, 8, "IDStr")
           a3 == Row(9, "uint16", "DCA_SF", <<"DCA">>)
           a4 == Row(10, "uint16", "DCV_SF", <<"DCV">>)
           a5 == Row(11, "uint16", "DCW_SF", <<"DCW">>)
           a6 == Row(12, "acc32", "DCWH_SF", <<"DCWH">>)
           a7 == Row(14, "uint32", None, <<"Tms">>)
           a8 == Row(16, "int16", None, <<"Tmp">>)
           a9 == Row(17, "enum16", None, <<"DCSt">>)
           a10 == Flags(18, <<"DCEvt">>)
           parts == <<a1, a2, a3, a4, a5, a6, a7, a8, a9, a10>>
<1>1. /\ DOMAIN a1 = {"ID"} /\ DOMAIN a3 = {"DCA"} /\ DOMAIN a4 = {"DCV"}
      /\ DOMAIN a5 = {"DCW"} /\ DOMAIN a6 = {"DCWH"} /\ DOMAIN a7 = {"Tms"}
      /\ DOMAIN a8 = {"Tmp"} /\ DOMAIN a9 = {"DCSt"}
  <2>1. DOMAIN a1 = {"ID"}
    BY RowOfOne
  <2>2. DOMAIN a3 = {"DCA"}
    BY RowOfOne
  <2>3. DOMAIN a4 = {"DCV"}
    BY RowOfOne
  <2>4. DOMAIN a5 = {"DCW"}
    BY RowOfOne
  <2>5. DOMAIN a6 = {"DCWH"}
    BY RowOfOne
  <2>6. DOMAIN a7 = {"Tms"}
    BY RowOfOne
  <2>7. DOMAIN a8 = {"Tmp"}
    BY RowOfOne
  <2>8. DOMAIN a9 = {"DCSt"}
    BY RowOfOne
  <2> QED
    BY <2>1, <2>2, <2>3, <2>4, <2>5, <2>6, <2>7, <2>8, Zenon
<1>2. DOMAIN a2 = {"IDStr"} /\ DOMAIN a10 = {"DCEvt"}
  <2>1. DOMAIN a10 = {"DCEvt"}
    BY RowOfOne DEF Flags
  <2>2. DOMAIN a2 = {"IDStr"}
    BY TextFields, Zenon
  <2> QED
    BY <2>1, <2>2, Zenon
<1>3. a1["ID"] = Register(0, 1, "uint16", None)
  <2> DEFINE names == <<"ID">>
  <2>1. Range(names) = {"ID"} /\ DOMAIN names = {1} /\ names[1] = "ID"
    BY DEF Range
  <2>2. (CHOOSE i \in DOMAIN names : names[i] = "ID") = 1
    BY <2>1
  <2> HIDE DEF names
  <2>3. ExpectedSize["uint16"] = 1
    BY DEF ExpectedSize
  <2>4. Row(0, "uint16", None, names)["ID"]
          = Register(0 + ((CHOOSE i \in DOMAIN names : names[i] = "ID") - 1) * ExpectedSize["uint16"],
                     ExpectedSize["uint16"], "uint16", None)
    BY <2>1, Zenon DEF Row
  <2>5. 0 + (1 - 1) * 1 = 0
    OBVIOUS
  <2> QED
    BY <2>2, <2>3, <2>4, <2>5 DEF names
<1>4. Module160 = Registers(parts)
  BY Zenon DEF Module160
<1> HIDE DEF a1, a2, a3, a4, a5, a6, a7, a8, a9, a10
<1>5. /\ DOMAIN parts = 1 .. 10
      /\ parts[1] = a1 /\ parts[2] = a2 /\ parts[3] = a3 /\ parts[4] = a4 /\ parts[5] = a5
      /\ parts[6] = a6 /\ parts[7] = a7 /\ parts[8] = a8 /\ parts[9] = a9 /\ parts[10] = a10
  OBVIOUS
<1>6. \A i \in 1 .. 10 : i \in {1, 2, 3, 4, 5, 6, 7, 8, 9, 10}
  OBVIOUS
<1> HIDE DEF parts
<1>7. \A i \in DOMAIN parts : "ID" \in DOMAIN parts[i] <=> i = 1
  BY <1>1, <1>2, <1>5, <1>6
<1>8. "ID" \in DOMAIN Registers(parts) /\ Registers(parts)["ID"] = a1["ID"]
  BY <1>5, <1>7, InPart
<1>9. /\ Modules160.block.registers = Module160
      /\ Modules160.block.offset = 8 /\ Modules160.block.size = 20
  BY DEF Modules160, Model
<1> QED
  BY <1>3, <1>4, <1>8, <1>9

LEMMA OnlyModulesRepeat ==
  ASSUME NEW id \in DOMAIN ModelDefinitions, ModelDefinitions[id].block # None
  PROVE  ModelDefinitions[id] = Modules160
<1>1. \A registers, length : Model(registers, length).block = None
  BY DEF Model
<1>2. /\ Common1.block = None /\ Inverter103.block = None /\ Nameplate120.block = None
      /\ BasicSettings121.block = None /\ Status122.block = None /\ Controls123.block = None
      /\ Storage124.block = None /\ Meter203.block = None
  BY <1>1, Zenon DEF Common1, Inverter103, Nameplate120, BasicSettings121, Status122, Controls123,
                     Storage124, Meter203
<1>3. /\ id \in {1, 103, 120, 121, 122, 123, 124, 160, 203}
      /\ ModelDefinitions[id] =
            CASE id = 1 -> Common1 [] id = 103 -> Inverter103 [] id = 120 -> Nameplate120
              [] id = 121 -> BasicSettings121 [] id = 122 -> Status122 [] id = 123 -> Controls123
              [] id = 124 -> Storage124 [] id = 160 -> Modules160 [] id = 203 -> Meter203
  BY DEF ModelDefinitions
<1> QED
  BY <1>2, <1>3

LEMMA OneOf ==
  ASSUME NEW words \in Seq(Word), NEW k \in 1 .. Len(words)
  PROVE  SubSeq(words, k, k) = <<words[k]>>
<1>1. k \in Int /\ k - k + 1 = 1 /\ \A i \in k .. k : i = k
  BY LenProperties
<1>2. words[k] \in Word
  BY ElementOfSeq, Zenon
<1>3. \A i \in k .. k : words[i] \in Word
  BY <1>1, <1>2
<1>4. /\ SubSeq(words, k, k) \in Seq(Word)
      /\ Len(SubSeq(words, k, k)) = IF k <= k THEN k - k + 1 ELSE 0
      /\ \A i \in 1 .. k - k + 1 : SubSeq(words, k, k)[i] = words[k + i - 1]
  BY ONLY <1>1, <1>3, SubSeqProperties
<1> DEFINE one == SubSeq(words, k, k)
<1>5. one \in Seq(Word) /\ Len(one) = 1 /\ one[1] = words[k]
  BY <1>1, <1>4
<1> HIDE DEF one
<1>6. one = <<one[1]>>
  <2>1. <<one[1]>> \in Seq(Word) /\ Len(<<one[1]>>) = 1
    BY <1>2, <1>5
  <2>2. \A i \in 1 .. 1 : one[i] = <<one[1]>>[i]
    OBVIOUS
  <2> QED
    BY <1>5, <2>1, <2>2, SeqEqual
<1> QED
  BY <1>5, <1>6 DEF one

(* The number of a module is a word, in units.                                *)
LEMMA ModuleNumber ==
  ASSUME NEW words \in Seq(Word), NEW base \in Nat, base + 1 <= Len(words), NEW registers
  PROVE  LET number == Value(Register(0, 1, "uint16", None), base, words, registers) IN
         number # None => number \in Nat /\ number < AddressSpace * Unit
<1> DEFINE register == Register(0, 1, "uint16", None)
           number == Value(register, base, words, registers)
           word == words[base + 1]
<1>1. /\ register.offset = 0 /\ register.size = 1
      /\ register.type = "uint16" /\ register.scaleFactor = None
  BY DEF Register
<1> HIDE DEF register
<1>2. word \in Word
  <2>1. base + 1 \in 1 .. Len(words)
    BY LenProperties
  <2> QED
    BY <2>1, ElementOfSeq, Zenon
<1>3. Words(register, base, words) = <<word>>
  <2>1. base + register.offset + 1 = base + 1 /\ base + End(register) = base + 1
    BY <1>1 DEF End
  <2>2. Words(register, base, words) = SubSeq(words, base + 1, base + 1)
    BY <2>1, Zenon DEF Words
  <2>3. base + 1 \in 1 .. Len(words)
    BY LenProperties
  <2> QED
    BY <2>2, <2>3, OneOf
<1> HIDE DEF word
<1>4. word \in Nat /\ word < Base /\ Base <= AddressSpace
  BY <1>2, BaseAssumption, SpaceAssumption DEF Word
<1>5. Combine(<<word>>) = word
  BY <1>4, SingleWord
<1>6. Scale("uint16", None) = Unit
  BY DEF Scale, Scalable
<1>7. number = Decode("uint16", word, Unit, Base)
  <2>1. number = Decode(register.type, Combine(<<word>>), Scale(register.type, None), Modulus(register.size))
    <3>1. register.type # "string"
      BY <1>1
    <3> QED
      BY <1>1, <1>3, <3>1, Zenon DEF Value
  <2> QED
    BY <1>1, <1>5, <1>6, <2>1, ModulusAssumption, Zenon
<1>8. number # None => number = word * Unit
  <2>1. FromBits("uint16", word, Base) = word
    BY DEF FromBits, Signed
  <2> QED
    BY <1>7, <2>1, Zenon DEF Decode
<1> HIDE DEF number
<1>9. word * Unit \in Nat /\ word * Unit < AddressSpace * Unit
  <2>1. Unit \in Nat \ {0}
    BY UnitAssumption
  <2>2. word \in Int /\ AddressSpace \in Int /\ word < AddressSpace
    BY <1>4, BaseAssumption DEF AddressSpace
  <2>3. ASSUME NEW a \in Int, NEW b \in Int, a < b  PROVE a * Unit < b * Unit
    BY <2>1, <2>3
  <2>4. word * Unit \in Nat
    BY <1>4, <2>1
  <2> QED
    BY <2>2, <2>3, <2>4
<1> QED
  BY <1>8, <1>9 DEF number, register

(* What a poll decodes has the modules that there is room for.                *)
LEMMA ModulesAreDecoded ==
  ASSUME NEW id \in DOMAIN ModelDefinitions, NEW words \in Seq(Word),
         DecodeModel(ModelDefinitions[id], words) # None
  PROVE  LET modules == DecodeModel(ModelDefinitions[id], words).repeating
             block == ModelDefinitions[id].block
         IN \E n \in Nat :
              /\ DOMAIN modules = 1 .. n
              /\ n > 0 => block # None /\ block.offset = 8 /\ block.size = 20
              /\ \A i \in 1 .. n :
                    /\ block.offset + (i - 1) * block.size \in Nat
                    /\ block.offset + (i - 1) * block.size + block.size <= Len(words)
                    /\ modules[i]["ID"] # None =>
                          modules[i]["ID"] \in Nat /\ modules[i]["ID"] < AddressSpace * Unit
<1> DEFINE model == ModelDefinitions[id]
           modules == DecodeModel(model, words).repeating
           n == Instances(model, Len(words))
           Offset(i) == model.block.offset + (i - 1) * model.block.size
<1>1. Decodable(model, Len(words))
  BY Zenon DEF DecodeModel
<1>2. modules = [i \in 1 .. n |->
                   [name \in DOMAIN model.block.registers |->
                      Value(model.block.registers[name], Offset(i), words, model.registers)]]
  <2> HIDE DEF model
  <2> QED
    BY <1>1 DEF DecodeModel
<1>3. DOMAIN modules = 1 .. n
  BY <1>2, Zenon
<1>4. Len(words) \in Nat
  BY LenProperties
<1>5. CASE model.block = None
  <2>1. n = 0
    BY <1>5, Zenon DEF Instances
  <2> HIDE DEF n, modules
  <2>2. n \in Nat /\ ~(n > 0) /\ \A i \in 1 .. n : FALSE
    BY <2>1
  <2> QED
    BY <1>3, <2>2 DEF modules
<1>6. CASE model.block # None
  <2>1. model = Modules160
    BY <1>6, OnlyModulesRepeat
  <2>2. /\ model.block.offset = 8 /\ model.block.size = 20
        /\ "ID" \in DOMAIN model.block.registers
        /\ model.block.registers["ID"] = Register(0, 1, "uint16", None)
    BY <2>1, ModuleRegisters
  <2>3. 8 <= Len(words)
    BY <1>1, <1>6, <2>2, Zenon DEF Decodable
  <2>4. n = (Len(words) - 8) \div 20
    BY <1>6, <2>2, Zenon DEF Instances
  <2>5. n \in Nat /\ 20 * n <= Len(words) - 8
    BY <1>4, <2>3, <2>4
  <2>6. ASSUME NEW i \in 1 .. n
        PROVE  /\ Offset(i) \in Nat /\ Offset(i) + model.block.size <= Len(words)
               /\ modules[i]["ID"] # None =>
                     modules[i]["ID"] \in Nat /\ modules[i]["ID"] < AddressSpace * Unit
    <3>1. Offset(i) = 8 + (i - 1) * 20
      BY <2>2
    <3> DEFINE start == Offset(i)
    <3>2. start \in Nat /\ start + 20 <= Len(words) /\ start + 1 <= Len(words)
      BY <1>4, <2>5, <3>1
    <3>3. modules[i]["ID"] = Value(Register(0, 1, "uint16", None), start, words, model.registers)
      <4> HIDE DEF modules, n, model
      <4> QED
        BY <1>2, <2>2
    <3> HIDE DEF start, modules
    <3>4. modules[i]["ID"] # None =>
             modules[i]["ID"] \in Nat /\ modules[i]["ID"] < AddressSpace * Unit
      BY <3>2, <3>3, ModuleNumber
    <3> QED
      BY <2>2, <3>2, <3>4 DEF start
  <2> HIDE DEF n, modules, model
  <2> QED
    BY <1>3, <1>6, <2>2, <2>5, <2>6 DEF modules, model
<1> QED
  BY <1>5, <1>6

(* What a poll decodes of the identity of a device are words.                 *)
LEMMA IdentityIsDecoded ==
  ASSUME NEW words \in Seq(Word), DecodeModel(ModelDefinitions[1], words) # None,
         NEW name \in Identity
  PROVE  DecodeModel(ModelDefinitions[1], words).fixed[name] \in Seq(Nat)
<1>1. 1 \in DOMAIN ModelDefinitions /\ name \in DOMAIN RegistersOf(1)
      /\ RegistersOf(1)[name].type = "string"
  BY Identities
<1>2. Decodable(ModelDefinitions[1], Len(words))
  BY Zenon DEF DecodeModel
<1>3. /\ RegisterFits(RegistersOf(1)[name], Len(words))
      /\ DecodeModel(ModelDefinitions[1], words).fixed[name]
           = Value(RegistersOf(1)[name], 0, words, RegistersOf(1))
  <2>1. /\ \A n \in DOMAIN RegistersOf(1) : RegisterFits(RegistersOf(1)[n], Len(words))
        /\ DecodeModel(ModelDefinitions[1], words).fixed
              = [n \in DOMAIN RegistersOf(1) |-> Value(RegistersOf(1)[n], 0, words, RegistersOf(1))]
    BY <1>1, <1>2, ModelIsDecoded
  <2> QED
    BY <1>1, <2>1, Zenon
<1>4. Value(RegistersOf(1)[name], 0, words, RegistersOf(1)) = Words(RegistersOf(1)[name], 0, words)
  BY <1>1, Zenon DEF Value
<1>5. Words(RegistersOf(1)[name], 0, words) \in Seq(Word)
  <2> DEFINE register == RegistersOf(1)[name]
  <2>1. register.offset \in Nat /\ register.size \in Nat \ {0}
    BY <1>1, Layout
  <2> HIDE DEF register
  <2>2. RegisterFits(register, Len(words))
    BY <1>3 DEF register
  <2> QED
    BY <2>1, <2>2, WordsOf DEF Word, register
<1>6. \A s \in Seq(Word) : s \in Seq(Nat)
  BY BaseAssumption DEF Word
<1> QED
  BY <1>3, <1>4, <1>5, <1>6

(* The record of a model with all that a poll read, and the models whose      *)
(* records are worth keeping.                                                 *)
Complete(i) == Record(models[i], Decoded(i))
Good == {i \in DOMAIN models : i # damaged /\ models[i].id # 0}

(* A poll reads as many words as the header of the model says.                *)
DataFits == device # <<>> => \A i \in DOMAIN models : Len(device[i]) = models[i].length

LEMMA RecordFields ==
  ASSUME NEW model, NEW decoded
  PROVE  /\ Record(model, decoded).model = model
         /\ Record(model, decoded).fixed =
              IF model.id = 1 /\ decoded # None
              THEN [name \in Identity |-> decoded.fixed[name]] ELSE <<>>
         /\ Record(model, decoded).modules =
              IF decoded = None THEN <<>>
              ELSE [i \in DOMAIN decoded.repeating |->
                      [index |-> i - 1,
                       offset |-> ModelDefinitions[model.id].block.offset
                                    + (i - 1) * ModelDefinitions[model.id].block.size,
                       ID |-> decoded.repeating[i]["ID"]]]
  BY DEF Record

LEMMA ModelOfChain ==
  ASSUME DeviceInv, WalkInv, NEW i \in DOMAIN models
  PROVE  /\ models[i] \in DiscoveredModel
         /\ models[i].id \in Nat /\ models[i].id < EndModel
         /\ models[i].base \in Nat \ {0} /\ models[i].length \in Nat \ {0}
         /\ models[i].base + models[i].length <= AddressSpace
<1>1. models \in Seq(DiscoveredModel)
  BY DEF DeviceInv, WalkTypeOK
<1>2. models[i] \in DiscoveredModel
  BY <1>1, ElementOfSeq
<1>3. models[i].id \in Nat /\ models[i].base \in Nat /\ models[i].length \in Nat \ {0}
  BY <1>2 DEF DiscoveredModel
<1>4. /\ models[i].base = HeaderSize + (IF i = 1 THEN Start + SignatureSize ELSE Behind(models[i - 1]))
      /\ Behind(models[i]) < MaxAddress
      /\ models[i].id # EndModel
  BY Zenon DEF WalkInv, ChainFits
<1>5. models[i].base # 0
  <2>1. CASE i = 1
    BY <1>4, <2>1, StartAssumption DEF HeaderSize, SignatureSize
  <2>2. CASE i # 1
    <3>1. models[i - 1] \in DiscoveredModel
      <4>1. i - 1 \in 1 .. Len(models)
        BY <1>1, <2>2, LenProperties
      <4> QED
        BY <1>1, <4>1, ElementOfSeq
    <3>2. Behind(models[i - 1]) \in Nat
      BY <3>1 DEF Behind, DiscoveredModel
    <3> QED
      BY <1>4, <2>2, <3>2 DEF HeaderSize
  <2> QED
    BY <2>1, <2>2
<1>6. models[i].id < EndModel
  <2>1. models[i].id \in {h[1] : h \in Headers}
    BY DEF DeviceInv, IdsAreRead
  <2>2. models[i].id <= EndModel /\ EndModel \in Nat
    BY <2>1, EndModelAssumption
  <2> QED
    BY <1>3, <1>4, <2>2
<1>7. models[i].base + models[i].length <= AddressSpace
  BY <1>3, <1>4, SpaceAssumption, MaxAddressAssumption DEF Behind, AddressSpace
<1> QED
  BY <1>2, <1>3, <1>5, <1>6, <1>7

LEMMA DecodedOfModel ==
  ASSUME DeviceInv, device # <<>>, NEW i \in DOMAIN models
  PROVE  /\ device[i] \in Seq(Word)
         /\ Decoded(i) # None =>
               /\ models[i].id \in DOMAIN ModelDefinitions
               /\ Decoded(i) = DecodeModel(ModelDefinitions[models[i].id], device[i])
<1>1. device \in Seq(Seq(Word)) /\ Len(device) = Len(models)
  BY DEF DeviceInv, DataIsSane
<1>2. i \in 1 .. Len(device)
  BY <1>1 DEF DeviceInv, WalkTypeOK
<1>3. device[i] \in Seq(Word)
  BY <1>1, <1>2, ElementOfSeq
<1>4. Decoded(i) # None =>
        /\ models[i].id \in DOMAIN ModelDefinitions
        /\ Decoded(i) = DecodeModel(ModelDefinitions[models[i].id], device[i])
  BY Zenon DEF Decoded
<1> QED
  BY <1>3, <1>4

(* The modules of a complete record are valid.                                *)
LEMMA ModulesAreValid ==
  ASSUME DeviceInv, WalkInv, DataFits, device # <<>>, NEW i \in DOMAIN models
  PROVE  /\ Complete(i).modules \in Seq(StoredModule)
         /\ Complete(i).modules # <<>> =>
               /\ models[i].id \in DOMAIN ModelDefinitions
               /\ ModelDefinitions[models[i].id].block # None
               /\ \A j \in DOMAIN Complete(i).modules :
                     ValidModule(Complete(i).modules[j], j, ModelDefinitions[models[i].id].block,
                                 models[i].length)
<1> DEFINE decoded == Decoded(i)
           modules == Complete(i).modules
           block == ModelDefinitions[models[i].id].block
<1>1. CASE decoded = None
  <2>1. modules = <<>>
    BY <1>1, RecordFields DEF Complete
  <2> HIDE DEF modules
  <2> QED
    BY <2>1 DEF modules
<1>2. CASE decoded # None
  <2>1. /\ device[i] \in Seq(Word) /\ models[i].id \in DOMAIN ModelDefinitions
        /\ decoded = DecodeModel(ModelDefinitions[models[i].id], device[i])
        /\ Len(device[i]) = models[i].length
    BY <1>2, DecodedOfModel DEF DataFits
  <2>2. PICK n \in Nat :
          /\ DOMAIN decoded.repeating = 1 .. n
          /\ n > 0 => block # None /\ block.offset = 8 /\ block.size = 20
          /\ \A j \in 1 .. n :
                /\ block.offset + (j - 1) * block.size \in Nat
                /\ block.offset + (j - 1) * block.size + block.size <= models[i].length
                /\ decoded.repeating[j]["ID"] # None =>
                      /\ decoded.repeating[j]["ID"] \in Nat
                      /\ decoded.repeating[j]["ID"] < AddressSpace * Unit
    <3> HIDE DEF decoded
    <3> DEFINE id == models[i].id
               words == device[i]
               repeating == DecodeModel(ModelDefinitions[id], words).repeating
    <3>1. id \in DOMAIN ModelDefinitions /\ words \in Seq(Word)
          /\ DecodeModel(ModelDefinitions[id], words) # None
      BY <1>2, <2>1 DEF decoded
    <3> HIDE DEF id, words
    <3>2. \E n \in Nat :
          /\ DOMAIN repeating = 1 .. n
          /\ n > 0 => /\ ModelDefinitions[id].block # None
                      /\ ModelDefinitions[id].block.offset = 8
                      /\ ModelDefinitions[id].block.size = 20
          /\ \A j \in 1 .. n :
                /\ ModelDefinitions[id].block.offset + (j - 1) * ModelDefinitions[id].block.size \in Nat
                /\ ModelDefinitions[id].block.offset + (j - 1) * ModelDefinitions[id].block.size
                     + ModelDefinitions[id].block.size <= Len(words)
                /\ repeating[j]["ID"] # None =>
                      repeating[j]["ID"] \in Nat /\ repeating[j]["ID"] < AddressSpace * Unit
      BY <3>1, ModulesAreDecoded, Zenon
    <3>3. repeating = decoded.repeating /\ Len(words) = models[i].length
      BY <2>1 DEF id, words
    <3> QED
      BY <3>2, <3>3 DEF id
  <2>3. modules = [j \in 1 .. n |->
                     [index |-> j - 1, offset |-> block.offset + (j - 1) * block.size,
                      ID |-> decoded.repeating[j]["ID"]]]
    <3>1. modules = [j \in DOMAIN decoded.repeating |->
                     [index |-> j - 1, offset |-> block.offset + (j - 1) * block.size,
                      ID |-> decoded.repeating[j]["ID"]]]
      <4> HIDE DEF decoded
      <4>1. modules = Record(models[i], decoded).modules
        BY Zenon DEF Complete, decoded
      <4> HIDE DEF modules
      <4> DEFINE model == models[i]
      <4>2. model.id = models[i].id
        OBVIOUS
      <4> HIDE DEF model, block
      <4>3. Record(model, decoded).modules
              = [j \in DOMAIN decoded.repeating |->
                   [index |-> j - 1,
                    offset |-> ModelDefinitions[model.id].block.offset
                                 + (j - 1) * ModelDefinitions[model.id].block.size,
                    ID |-> decoded.repeating[j]["ID"]]]
        <5>1. Record(model, decoded).modules
                = IF decoded = None THEN <<>>
                  ELSE [j \in DOMAIN decoded.repeating |->
                   [index |-> j - 1,
                    offset |-> ModelDefinitions[model.id].block.offset
                                 + (j - 1) * ModelDefinitions[model.id].block.size,
                    ID |-> decoded.repeating[j]["ID"]]]
          BY DEF Record
        <5> QED
          BY <1>2, <5>1, Zenon
      <4> QED
        BY <4>1, <4>3 DEF model, block
    <3> QED
      BY <2>2, <3>1, Zenon
  <2> HIDE DEF modules, decoded
  <2>4. ASSUME NEW j \in 1 .. n
        PROVE  modules[j] \in StoredModule /\ ValidModule(modules[j], j, block, models[i].length)
    <3> DEFINE number == decoded.repeating[j]["ID"]
               offset == block.offset + (j - 1) * block.size
    <3>1. /\ offset \in Nat /\ offset + block.size <= models[i].length
          /\ number # None => number \in Nat /\ number < AddressSpace * Unit
      BY <2>2
    <3>2. modules[j] = [index |-> j - 1, offset |-> offset, ID |-> number]
      BY <2>3
    <3>3. j - 1 \in Nat
      OBVIOUS
    <3> HIDE DEF number, offset
    <3>4. modules[j].index = j - 1 /\ modules[j].offset = offset /\ modules[j].ID = number
      BY <3>2
    <3>5. modules[j] \in StoredModule
      BY <3>1, <3>2, <3>3 DEF StoredModule
    <3>6. modules[j] # Malformed
      BY <3>5, StoredAssumption
    <3>7. number # Malformed
      BY <3>1, NoneAssumption, StoredAssumption
    <3> QED
      BY <3>1, <3>4, <3>5, <3>6, <3>7 DEF ValidModule, offset
  <2>5. modules \in Seq(StoredModule)
    <3>1. modules \in [1 .. n -> StoredModule]
      BY <2>3, <2>4
    <3> QED
      BY ONLY <2>2, <3>1, SeqDef
  <2>6. modules # <<>> => n > 0
    BY <2>2, <2>3
  <2> QED
    BY <2>1, <2>2, <2>3, <2>4, <2>5, <2>6 DEF modules
<1> QED
  BY <1>1, <1>2

LEMMA CompleteFields ==
  ASSUME NEW i
  PROVE  /\ Complete(i) = [model |-> models[i], fixed |-> Complete(i).fixed,
                           modules |-> Complete(i).modules]
         /\ Complete(i).model = models[i]
         /\ models[i].id # 1 \/ Decoded(i) = None => Complete(i).fixed = <<>>
         /\ models[i].id = 1 /\ Decoded(i) # None =>
               Complete(i).fixed = [name \in Identity |-> Decoded(i).fixed[name]]
<1> DEFINE model == models[i]
           decoded == Decoded(i)
<1>1. Complete(i) = Record(model, decoded)
  BY Zenon DEF Complete
<1> HIDE DEF model, decoded
<1>2. /\ Record(model, decoded) = [model |-> model, fixed |-> Record(model, decoded).fixed,
                                   modules |-> Record(model, decoded).modules]
      /\ Record(model, decoded).model = model
  BY DEF Record
<1>3. Record(model, decoded).fixed =
        IF model.id = 1 /\ decoded # None
        THEN [name \in Identity |-> decoded.fixed[name]] ELSE <<>>
  BY DEF Record
<1> QED
  BY <1>1, <1>2, <1>3, Zenon DEF model, decoded

(* What a complete record says of the identity.                               *)
LEMMA IdentityIsValid ==
  ASSUME DeviceInv, device # <<>>, NEW i \in DOMAIN models, models[i].id = 1
  PROVE  ValidIdentity(Complete(i))
<1> DEFINE fixed == Complete(i).fixed
<1>1. CASE Decoded(i) = None
  <2>1. fixed = <<>>
    BY <1>1, CompleteFields
  <2> HIDE DEF fixed
  <2>2. DOMAIN fixed = {}
    BY <2>1
  <2> QED
    BY <2>2 DEF ValidIdentity, fixed
<1>2. CASE Decoded(i) # None
  <2>1. fixed = [name \in Identity |-> Decoded(i).fixed[name]]
    BY <1>2, CompleteFields
  <2>2. device[i] \in Seq(Word) /\ Decoded(i) = DecodeModel(ModelDefinitions[1], device[i])
    BY <1>2, DecodedOfModel
  <2>3. \A name \in Identity : Decoded(i).fixed[name] \in Seq(Nat)
    BY <1>2, <2>2, IdentityIsDecoded
  <2> HIDE DEF fixed
  <2>4. \A name \in DOMAIN fixed \cap Identity : fixed[name] # Malformed
    BY <2>1, <2>3, StoredAssumption
  <2> QED
    BY <2>4 DEF ValidIdentity, fixed
<1> QED
  BY <1>1, <1>2

LEMMA NormalizedComplete ==
  ASSUME NEW i
  PROVE  Normalized(Complete(i)) = Complete(i)
<1> DEFINE fixed == Complete(i).fixed
           modules == Complete(i).modules
           model == models[i]
           record == [model |-> model, fixed |-> fixed, modules |-> modules]
           clean == IF model.id = 1 /\ DOMAIN fixed # {}
                    THEN [name \in Identity |-> IF name \in DOMAIN fixed THEN fixed[name] ELSE None]
                    ELSE <<>>
<1>1. Complete(i) = record
  BY CompleteFields
<1>2. clean = fixed
  <2>1. CASE model.id # 1 \/ Decoded(i) = None
    <3>1. fixed = <<>>
      BY <2>1, CompleteFields
    <3> HIDE DEF fixed
    <3>2. DOMAIN fixed = {}
      BY <3>1
    <3> QED
      BY <3>1, <3>2, Zenon
  <2>2. CASE model.id = 1 /\ Decoded(i) # None
    <3>1. fixed = [name \in Identity |-> Decoded(i).fixed[name]]
      BY <2>2, CompleteFields
    <3> HIDE DEF fixed, model
    <3>2. DOMAIN fixed = Identity /\ DOMAIN fixed # {}
      BY <3>1 DEF Identity
    <3>3. clean = [name \in Identity |-> IF name \in DOMAIN fixed THEN fixed[name] ELSE None]
      BY <2>2, <3>2, Zenon
    <3>4. \A name \in Identity : (IF name \in DOMAIN fixed THEN fixed[name] ELSE None) = Decoded(i).fixed[name]
      BY <3>1, <3>2
    <3> HIDE DEF clean
    <3> QED
      BY <3>1, <3>3, <3>4
  <2> QED
    BY <2>1, <2>2
<1> HIDE DEF fixed, modules, model
<1>3. /\ record.model = model /\ record.fixed = fixed
      /\ [record EXCEPT !.fixed = clean] = [model |-> model, fixed |-> clean, modules |-> modules]
  <2> HIDE DEF clean
  <2> QED
    OBVIOUS
<1>4. Normalized(record) = [record EXCEPT !.fixed = clean]
  <2> HIDE DEF record
  <2> QED
    BY <1>3 DEF Normalized, clean
<1> QED
  BY <1>1, <1>2, <1>3, <1>4, Zenon

LEMMA CompleteIsValid ==
  ASSUME DeviceInv, WalkInv, DataFits, device # <<>>, NEW i \in DOMAIN models
  PROVE  ValidRecord(Complete(i)) <=> models[i].id # 0
<1> DEFINE model == models[i]
           record == Complete(i)
<1>1. /\ model \in DiscoveredModel
      /\ model.id \in Nat /\ model.id < EndModel
      /\ model.base \in Nat \ {0} /\ model.length \in Nat \ {0}
      /\ model.base + model.length <= AddressSpace
  BY ModelOfChain
<1>2. ValidCoordinates(model) <=> model.id # 0
  <2> HIDE DEF model
  <2>1. model # Malformed
    BY <1>1, StoredAssumption
  <2>2. \A value \in Range(model) : value # Malformed
    <3>1. Range(model) = {model.id, model.base, model.length}
      BY <1>1 DEF Range, DiscoveredModel
    <3> QED
      BY <1>1, <3>1, NoneAssumption
  <2> QED
    BY <1>1, <2>1, <2>2 DEF ValidCoordinates
<1>3. record.model = model
  BY CompleteFields
<1>4. model.id = 1 => ValidIdentity(record)
  BY IdentityIsValid
<1>5. record.modules # <<>> =>
        /\ model.id \in DOMAIN ModelDefinitions
        /\ ModelDefinitions[model.id].block # None
        /\ \A j \in DOMAIN record.modules :
              ValidModule(record.modules[j], j, ModelDefinitions[model.id].block, model.length)
  BY ModulesAreValid
<1> HIDE DEF model, record
<1> QED
  BY <1>2, <1>3, <1>4, <1>5, Zenon DEF ValidRecord, model, record

(* Whatever is damaged of a complete record, it is not valid any more.        *)
LEMMA DamagedModel ==
  ASSUME DeviceInv, WalkInv, NEW i \in DOMAIN models, NEW length \in {Malformed, AddressSpace}
  PROVE  ~ValidRecord([Complete(i) EXCEPT !.model.length = length])
<1> DEFINE model == models[i]
           record == [Complete(i) EXCEPT !.model.length = length]
           other == [model EXCEPT !.length = length]
<1>1. model \in DiscoveredModel /\ model.base \in Nat \ {0}
  BY ModelOfChain
<1>2. record.model = other
  <2> DEFINE fixed == Complete(i).fixed
             modules == Complete(i).modules
             whole == Complete(i)
  <2>1. whole = [model |-> model, fixed |-> fixed, modules |-> modules]
    BY CompleteFields
  <2>2. record = [whole EXCEPT !.model.length = length]
    OBVIOUS
  <2> HIDE DEF fixed, modules, whole, model, record
  <2> QED
    BY <2>1, <2>2
<1> HIDE DEF model, record
<1>3. other.length = length /\ other.base = model.base /\ "length" \in DOMAIN other
  BY <1>1 DEF DiscoveredModel
<1> HIDE DEF other
<1>4. ~ValidCoordinates(other)
  <2>1. CASE length = Malformed
    <3>1. Malformed \in Range(other)
      BY <1>3, <2>1 DEF Range
    <3> QED
      BY <3>1, Zenon DEF ValidCoordinates
  <2>2. CASE length = AddressSpace
    <3>1. ~(other.base + other.length <= AddressSpace)
      BY <1>1, <1>3, <2>2 DEF AddressSpace
    <3> QED
      BY <3>1, Zenon DEF ValidCoordinates
  <2> QED
    BY <2>1, <2>2
<1> QED
  BY <1>2, <1>4, Zenon DEF ValidRecord, record

LEMMA DamagedIdentity ==
  ASSUME NEW i, DOMAIN Complete(i).fixed # {}
  PROVE  ~ValidRecord([Complete(i) EXCEPT !.fixed["SN"] = Malformed])
<1> DEFINE model == models[i]
           fixed == Complete(i).fixed
           modules == Complete(i).modules
           whole == Complete(i)
           record == [whole EXCEPT !.fixed["SN"] = Malformed]
<1>1. whole = [model |-> model, fixed |-> fixed, modules |-> modules]
  BY CompleteFields
<1>2. model.id = 1 /\ "SN" \in DOMAIN fixed
  <2>1. CASE model.id # 1 \/ Decoded(i) = None
    <3>1. fixed = <<>>
      BY <2>1, CompleteFields
    <3>2. DOMAIN fixed # {}
      OBVIOUS
    <3> HIDE DEF fixed
    <3> QED
      BY <3>1, <3>2
  <2>2. CASE model.id = 1 /\ Decoded(i) # None
    <3>1. fixed = [name \in Identity |-> Decoded(i).fixed[name]]
      BY <2>2, CompleteFields
    <3> HIDE DEF fixed
    <3> QED
      BY <2>2, <3>1 DEF Identity
  <2> QED
    BY <2>1, <2>2
<1> HIDE DEF model, fixed, modules, whole
<1>3. record.model = model /\ record.fixed = [fixed EXCEPT !["SN"] = Malformed]
  BY <1>1
<1> HIDE DEF record
<1>4. "SN" \in DOMAIN record.fixed \cap Identity /\ record.fixed["SN"] = Malformed
  BY <1>2, <1>3 DEF Identity
<1>5. ~ValidIdentity(record)
  BY <1>4, Zenon DEF ValidIdentity
<1> QED
  BY <1>2, <1>3, <1>5, Zenon DEF ValidRecord, record, whole

(* A module with another index than its place.                                *)
LEMMA Misplaced ==
  ASSUME NEW record, NEW j \in DOMAIN record.modules, record.modules # <<>>,
         record.modules[j].index # j - 1
  PROVE  ~ValidRecord(record)
<1>1. ASSUME NEW block, NEW length  PROVE ~ValidModule(record.modules[j], j, block, length)
  BY Zenon DEF ValidModule
<1> QED
  BY <1>1, Zenon DEF ValidRecord

LEMMA DamagedModules ==
  ASSUME DeviceInv, WalkInv, DataFits, device # <<>>, NEW i \in DOMAIN models,
         NEW changed,
         \/ Len(Complete(i).modules) > 1 /\ changed = Tail(Complete(i).modules)
         \/ Complete(i).modules # <<>> /\ changed = Append(Complete(i).modules, Complete(i).modules[1])
  PROVE  ~ValidRecord([Complete(i) EXCEPT !.modules = changed])
<1> DEFINE model == models[i]
           fixed == Complete(i).fixed
           modules == Complete(i).modules
           whole == Complete(i)
           record == [whole EXCEPT !.modules = changed]
           block == ModelDefinitions[model.id].block
<1>1. whole = [model |-> model, fixed |-> fixed, modules |-> modules]
  BY CompleteFields
<1>2. /\ modules \in Seq(StoredModule)
      /\ modules # <<>> => \A j \in DOMAIN modules : ValidModule(modules[j], j, block, model.length)
  BY ModulesAreValid
<1>3. \/ Len(modules) > 1 /\ changed = Tail(modules)
      \/ modules # <<>> /\ changed = Append(modules, modules[1])
  OBVIOUS
<1>4. record.modules = changed
  <2> HIDE DEF model, fixed, modules, whole
  <2> QED
    BY <1>1
<1> HIDE DEF model, fixed, modules, record, block
<1>5. modules # <<>> /\ DOMAIN modules = 1 .. Len(modules) /\ Len(modules) \in Nat /\ Len(modules) >= 1
  BY <1>2, <1>3
<1>6. \A j \in 1 .. Len(modules) : modules[j].index = j - 1
  BY <1>2, <1>5, Zenon DEF ValidModule
<1>7. CASE Len(modules) > 1 /\ changed = Tail(modules)
  <2>1. changed # <<>> /\ 1 \in DOMAIN changed /\ changed[1] = modules[2]
    BY <1>2, <1>7
  <2>2. modules[2].index = 2 - 1
    <3> DEFINE n == Len(modules)
    <3>1. n \in Nat /\ n > 1
      BY <1>5, <1>7, Zenon
    <3> HIDE DEF n
    <3>2. 2 \in 1 .. n
      BY <3>1
    <3> QED
      BY <1>6, <3>2 DEF n
  <2>3. changed[1].index # 1 - 1
    BY <2>1, <2>2
  <2> QED
    BY <1>4, <2>1, <2>3, Misplaced DEF record
<1>8. CASE modules # <<>> /\ changed = Append(modules, modules[1])
  <2> DEFINE last == Len(modules) + 1
  <2>1. modules[1] \in StoredModule
    BY <1>2, <1>5
  <2>2. changed # <<>> /\ last \in DOMAIN changed /\ changed[last] = modules[1]
    BY <1>2, <1>5, <1>8, <2>1
  <2>3. modules[1].index = 1 - 1
    BY <1>5, <1>6
  <2>4. changed[last].index # last - 1
    BY <1>5, <2>2, <2>3
  <2> HIDE DEF last
  <2> QED
    BY <1>4, <2>2, <2>4, Misplaced DEF record
<1> QED
  BY <1>3, <1>7, <1>8

(* What is saved, and what is damaged of it, is a file.                       *)
LEMMA CompleteIsStored ==
  ASSUME DeviceInv, WalkInv, DataFits, device # <<>>, NEW i \in DOMAIN models
  PROVE  Complete(i) \in StoredRecord /\ Record(models[i], None) \in StoredRecord
<1> DEFINE model == models[i]
           fixed == Complete(i).fixed
           modules == Complete(i).modules
<1>1. model \in [id : Nat, base : Nat, length : Nat \cup {Malformed}]
  <2>1. model \in DiscoveredModel
    BY ModelOfChain
  <2> HIDE DEF model
  <2> QED
    BY <2>1 DEF DiscoveredModel
<1>2. fixed \in {<<>>} \cup [Identity -> Seq(Nat) \cup {Malformed}]
  <2>1. CASE model.id # 1 \/ Decoded(i) = None
    <3>1. fixed = <<>>
      BY <2>1, CompleteFields
    <3> QED
      BY <3>1
  <2>2. CASE model.id = 1 /\ Decoded(i) # None
    <3>1. fixed = [name \in Identity |-> Decoded(i).fixed[name]]
      BY <2>2, CompleteFields
    <3>2. device[i] \in Seq(Word) /\ Decoded(i) = DecodeModel(ModelDefinitions[1], device[i])
      BY <2>2, DecodedOfModel
    <3>3. \A name \in Identity : Decoded(i).fixed[name] \in Seq(Nat)
      BY <2>2, <3>2, IdentityIsDecoded
    <3> HIDE DEF fixed
    <3> QED
      BY <3>1, <3>3
  <2> QED
    BY <2>1, <2>2
<1>3. modules \in Seq(StoredModule)
  BY ModulesAreValid
<1>4. Complete(i) = [model |-> model, fixed |-> fixed, modules |-> modules]
  BY CompleteFields
<1>5. Record(model, None) = [model |-> model, fixed |-> <<>>, modules |-> <<>>]
  <2> HIDE DEF model
  <2> QED
    BY DEF Record
<1> HIDE DEF model, fixed, modules
<1>6. Complete(i) \in StoredRecord
  BY <1>1, <1>2, <1>3, <1>4 DEF StoredRecord
<1>7. Record(model, None) \in StoredRecord
  BY <1>1, <1>5 DEF StoredRecord
<1> QED
  BY <1>6, <1>7 DEF model

LEMMA DamagedIsStored ==
  ASSUME NEW record \in StoredRecord, NEW new,
         \/ \E length \in {Malformed, AddressSpace} : new = [record EXCEPT !.model.length = length]
         \/ DOMAIN record.fixed # {} /\ new = [record EXCEPT !.fixed["SN"] = Malformed]
         \/ Len(record.modules) > 1 /\ new = [record EXCEPT !.modules = Tail(record.modules)]
         \/ /\ record.modules # <<>>
            /\ new = [record EXCEPT !.modules = Append(record.modules, record.modules[1])]
  PROVE  new \in StoredRecord
<1> DEFINE model == record.model
           fixed == record.fixed
           modules == record.modules
           Models == [id : Nat, base : Nat, length : Nat \cup {Malformed}]
           Fixed == {<<>>} \cup [Identity -> Seq(Nat) \cup {Malformed}]
<1>1. /\ record = [model |-> model, fixed |-> fixed, modules |-> modules]
      /\ model \in Models /\ fixed \in Fixed /\ modules \in Seq(StoredModule)
  BY DEF StoredRecord
<1>2. ASSUME NEW length \in {Malformed, AddressSpace}, new = [record EXCEPT !.model.length = length]
      PROVE  new \in StoredRecord
  <2>1. new = [model |-> [model EXCEPT !.length = length], fixed |-> fixed, modules |-> modules]
    <3> HIDE DEF model, fixed, modules
    <3> QED
      BY <1>1, <1>2
  <2>2. [model EXCEPT !.length = length] \in Models
    <3>1. length \in Nat \cup {Malformed}
      BY DEF AddressSpace
    <3> HIDE DEF model
    <3> QED
      BY <1>1, <3>1
  <2> HIDE DEF model, fixed, modules
  <2> QED
    BY <1>1, <2>1, <2>2 DEF StoredRecord
<1>3. CASE DOMAIN fixed # {} /\ new = [record EXCEPT !.fixed["SN"] = Malformed]
  <2>1. new = [model |-> model, fixed |-> [fixed EXCEPT !["SN"] = Malformed], modules |-> modules]
    <3> HIDE DEF model, fixed, modules
    <3> QED
      BY <1>1, <1>3
  <2>2. [fixed EXCEPT !["SN"] = Malformed] \in Fixed
    <3> HIDE DEF fixed
    <3>1. fixed # <<>>
      BY <1>3
    <3> QED
      BY <1>1, <3>1
  <2> HIDE DEF model, fixed, modules
  <2> QED
    BY <1>1, <2>1, <2>2 DEF StoredRecord
<1>4. ASSUME NEW changed \in Seq(StoredModule), new = [record EXCEPT !.modules = changed]
      PROVE  new \in StoredRecord
  <2>1. new = [model |-> model, fixed |-> fixed, modules |-> changed]
    <3> HIDE DEF model, fixed, modules
    <3> QED
      BY <1>1, <1>4
  <2> HIDE DEF model, fixed, modules
  <2> QED
    BY <1>1, <1>4, <2>1 DEF StoredRecord
<1>5. CASE Len(modules) > 1 /\ new = [record EXCEPT !.modules = Tail(modules)]
  <2>1. Tail(modules) \in Seq(StoredModule)
    <3> HIDE DEF modules
    <3> QED
      BY <1>1, <1>5
  <2> QED
    BY <1>4, <1>5, <2>1
<1>6. CASE modules # <<>> /\ new = [record EXCEPT !.modules = Append(modules, modules[1])]
  <2>1. Append(modules, modules[1]) \in Seq(StoredModule)
    <3> HIDE DEF modules
    <3> QED
      BY <1>1, <1>6
  <2> QED
    BY <1>4, <1>6, <2>1
<1> QED
  BY <1>2, <1>3, <1>5, <1>6

LEMMA FileIsStored ==
  ASSUME DeviceInv, NEW file, file = [i \in DOMAIN models |-> file[i]],
         \A i \in DOMAIN models : file[i] \in StoredRecord
  PROVE  file # None
<1>1. DOMAIN models = 1 .. Len(models) /\ Len(models) \in Nat
  BY DEF DeviceInv, WalkTypeOK
<1>2. file \in [1 .. Len(models) -> StoredRecord]
  BY <1>1
<1>3. file \in Seq(StoredRecord)
  BY ONLY <1>1, <1>2, SeqDef
<1> QED
  BY <1>3, StoredAssumption

LEMMA OnlyModelNext ==
  ASSUME DeviceInv', Len(device') = 1
  PROVE  device'[1] \in Seq(Word)
  BY DEF DeviceInv, DataIsSane

(* What is kept belongs to the data of the device.                            *)
KeptIsOfDevice ==
  /\ kept # None => device # <<>>
  /\ damaged # None => kept # None
  /\ restored # None => kept # None
  /\ missing # None => restored # None

(* Until it is read again, the file is complete but for what was damaged.     *)
FileIsComplete ==
  kept # None /\ restored = None =>
     /\ kept = [i \in DOMAIN models |-> kept[i]]
     /\ \A i \in DOMAIN models : i # damaged => kept[i] = Complete(i)
     /\ damaged # None => damaged \in DOMAIN models /\ ~ValidRecord(kept[damaged])

TopologyInv ==
  /\ DataFits
  /\ KeptIsOfDevice
  /\ FileIsComplete
  /\ TopologySurvives

LEMMA Survival ==
  TopologySurvives <=>
     /\ restored # None => restored = [i \in Good |-> Complete(i)]
     /\ missing # None => \A i \in DOMAIN models : i \in Good \/ i \notin missing => kept[i] = Complete(i)
  BY Zenon DEF TopologySurvives, Good, Complete

LEMMA SurvivalNext ==
  ASSUME restored' = [i \in Good' |-> Complete(i)'],
         \/ missing' = None
         \/ \A i \in DOMAIN models' : i \in Good' \/ i \notin missing' => kept'[i] = Complete(i)'
  PROVE  TopologySurvives'
<1>1. /\ restored' # None => restored' = [i \in Good' |-> Complete(i)']
      /\ missing' # None => \A i \in DOMAIN models' :
            i \in Good' \/ i \notin missing' => kept'[i] = Complete(i)'
  OBVIOUS
<1> QED
  BY <1>1, Zenon DEF TopologySurvives, Good, Complete

(* Before anything is saved there is nothing that could be damaged or lost.   *)
LEMMA NothingKept ==
  ASSUME TopologyInv, kept = None, UNCHANGED <<kept, damaged, restored, missing>>
  PROVE  KeptIsOfDevice' /\ FileIsComplete' /\ TopologySurvives'
<1>1. kept' = None /\ damaged' = None /\ restored' = None /\ missing' = None
  BY DEF TopologyInv, KeptIsOfDevice
<1>2. KeptIsOfDevice'
  BY <1>1, Zenon DEF KeptIsOfDevice
<1>3. FileIsComplete'
  BY <1>1, Zenon DEF FileIsComplete
<1>4. TopologySurvives'
  BY <1>1, Zenon DEF TopologySurvives
<1> QED
  BY <1>2, <1>3, <1>4

LEMMA SameTopology ==
  ASSUME TopologyInv, UNCHANGED <<models, device, kept, damaged, restored, missing>>
  PROVE  TopologyInv'
<1>1. DataFits'
  BY DEF TopologyInv, DataFits
<1>2. KeptIsOfDevice'
  BY DEF TopologyInv, KeptIsOfDevice
<1>3. FileIsComplete'
  BY DEF TopologyInv, FileIsComplete, Complete, Decoded
<1>4. TopologySurvives'
  BY DEF TopologyInv, TopologySurvives, Decoded
<1> QED
  BY <1>1, <1>2, <1>3, <1>4 DEF TopologyInv

(* A walk that is not over, or a poll, is before the first save.              *)
LEMMA NotYetKept ==
  ASSUME TopologyInv, device = <<>>
  PROVE  kept = None
  BY DEF TopologyInv, KeptIsOfDevice

LEMMA DiscoverKeepsTopology ==
  ASSUME DeviceInv, TopologyInv, Discover
  PROVE  TopologyInv'
<1>1. UNCHANGED <<device, kept, damaged, restored, missing>> /\ Walk
  BY DEF Discover
<1>2. device = <<>>
  <2>1. walk # "found"
    BY <1>1 DEF Walk, VerifySignature, Fail, ReadEnd, ReadModel, RefuseModel, Exceed, CanReadHeader
  <2> QED
    BY <2>1 DEF DeviceInv, DataIsSane
<1>3. DataFits'
  BY <1>1, <1>2 DEF DataFits
<1> QED
  BY <1>1, <1>2, <1>3, NotYetKept, NothingKept DEF TopologyInv

LEMMA PollKeepsTopology ==
  ASSUME DeviceInv, TopologyInv, Poll
  PROVE  TopologyInv'
<1>1. device = <<>> /\ UNCHANGED <<models, kept, damaged, restored, missing>>
  BY DEF Poll
<1>2. DataFits'
  <2>1. \A i \in DOMAIN models : Len(device'[i]) = models[i].length
    BY DEF Poll
  <2> QED
    BY <1>1, <2>1, Zenon DEF DataFits
<1> QED
  BY <1>1, <1>2, NotYetKept, NothingKept DEF TopologyInv

LEMMA WriteKeepsTopology ==
  ASSUME DeviceInv, DeviceInv', TopologyInv, NEW policies \in Installed, NEW r \in Requests,
         Write(policies, r)
  PROVE  TopologyInv'
<1>1. /\ Len(device) = 1 /\ kept = None
      /\ UNCHANGED <<models, kept, damaged, restored, missing>>
  BY DEF Write, Idle
<1>2. /\ Len(models) = 1 /\ models \in Seq(DiscoveredModel) /\ device[1] \in Seq(Word)
  BY <1>1, OnlyModel DEF DeviceInv, WalkTypeOK
<1>3. Len(device[1]) = models[1].length
  <2>1. device # <<>>
    BY <1>1
  <2>2. 1 \in DOMAIN models
    <3>1. DOMAIN models = 1 .. Len(models)
      BY <1>2, LenProperties
    <3> QED
      BY <1>2, <3>1
  <2> QED
    BY <2>1, <2>2 DEF TopologyInv, DataFits
<1>4. device' = <<device'[1]>> /\ DOMAIN device'[1] = DOMAIN device[1]
  <2> DEFINE register == ModelDefinitions[r[1]].registers[r[2]]
             new == Prepare(r[2], r[3], ModelDefinitions[r[1]].registers, device[1]).words
  <2>1. PICK words \in {Written(register, new, device[1]), device[1]} : device' = <<words>>
    BY Zenon DEF Write
  <2>2. DOMAIN Written(register, new, device[1]) = DOMAIN device[1]
    BY Zenon DEF Written
  <2>3. DOMAIN words = DOMAIN device[1]
    <3> HIDE DEF register, new
    <3> QED
      BY <2>1, <2>2
  <2>4. device'[1] = words
    BY <2>1
  <2> QED
    BY <2>1, <2>3, <2>4
<1>5. device'[1] \in Seq(Word)
  <2>1. Len(device') = 1
    BY <1>4
  <2> QED
    BY <2>1, OnlyModelNext
<1>6. Len(device'[1]) = models[1].length
  BY <1>2, <1>3, <1>4, <1>5
<1>7. DataFits'
  <2>1. \A i \in DOMAIN models : i = 1
    BY <1>2
  <2> QED
    BY <1>1, <1>6, <2>1 DEF DataFits
<1> QED
  BY <1>1, <1>7, NothingKept DEF TopologyInv

LEMMA SaveKeepsTopology ==
  ASSUME DeviceInv, WalkInv, TopologyInv, SaveTopology
  PROVE  TopologyInv'
<1>1. /\ device # <<>> /\ kept = None
      /\ kept' = [i \in DOMAIN models |-> Complete(i)]
      /\ UNCHANGED <<models, device, damaged, restored, missing>>
  BY Zenon DEF SaveTopology, Complete
<1>2. damaged' = None /\ restored' = None /\ missing' = None
  BY <1>1 DEF TopologyInv, KeptIsOfDevice
<1>3. DataFits'
  BY <1>1 DEF TopologyInv, DataFits
<1>4. KeptIsOfDevice'
  BY <1>1, <1>2 DEF KeptIsOfDevice
<1>5. FileIsComplete'
  <2>1. \A i \in DOMAIN models : Complete(i)' = Complete(i)
    BY <1>1 DEF Complete, Decoded
  <2>2. kept' = [i \in DOMAIN models |-> kept'[i]] /\ \A i \in DOMAIN models : kept'[i] = Complete(i)
    BY <1>1, Zenon
  <2> QED
    BY <1>1, <1>2, <2>1, <2>2 DEF FileIsComplete
<1>6. TopologySurvives'
  BY <1>2, Zenon DEF TopologySurvives
<1> QED
  BY <1>3, <1>4, <1>5, <1>6 DEF TopologyInv

LEMMA DamageKeepsTopology ==
  ASSUME DeviceInv, WalkInv, TopologyInv, Damage
  PROVE  TopologyInv'
<1>1. /\ kept # None /\ damaged = None /\ restored = None
      /\ UNCHANGED <<models, device, restored, missing>>
  BY DEF Damage
<1>2. /\ device # <<>> /\ DataFits /\ missing = None
      /\ kept = [i \in DOMAIN models |-> kept[i]] /\ DOMAIN kept = DOMAIN models
      /\ \A i \in DOMAIN models : kept[i] = Complete(i)
  <2>1. \A i \in DOMAIN models : i # damaged
    BY <1>1, NoneAssumption DEF DeviceInv, WalkTypeOK
  <2> QED
    BY <1>1, <2>1 DEF TopologyInv, KeptIsOfDevice, FileIsComplete
<1>3. PICK i \in DOMAIN kept :
        /\ damaged' = i
        /\ \/ kept' = [kept EXCEPT ![i].model.length = Malformed]
           \/ kept' = [kept EXCEPT ![i].model.length = AddressSpace]
           \/ /\ DOMAIN kept[i].fixed # {}
              /\ kept' = [kept EXCEPT ![i].fixed["SN"] = Malformed]
           \/ /\ Len(kept[i].modules) > 1
              /\ kept' = [kept EXCEPT ![i].modules = Tail(@)]
           \/ /\ kept[i].modules # <<>>
              /\ kept' = [kept EXCEPT ![i].modules = Append(@, @[1])]
  BY Zenon DEF Damage
<1> DEFINE record == kept[i]
           new == kept'[i]
<1>4. record = Complete(i) /\ i \in DOMAIN models
  BY <1>2
<1>5. kept' = [j \in DOMAIN models |-> kept'[j]] /\ \A j \in DOMAIN kept : j # i => kept'[j] = kept[j]
  <2>1. DOMAIN kept' = DOMAIN models /\ \A j \in DOMAIN kept : j # i => kept'[j] = kept[j]
    BY <1>2, <1>3
  <2>2. kept' = [j \in DOMAIN kept' |-> kept'[j]]
    BY <1>3
  <2> QED
    BY <2>1, <2>2
<1>6. ~ValidRecord(new)
  <2>1. ASSUME NEW length \in {Malformed, AddressSpace},
               kept' = [kept EXCEPT ![i].model.length = length]
        PROVE  ~ValidRecord(new)
    <3>1. new = [record EXCEPT !.model.length = length]
      BY <2>1
    <3> QED
      BY <1>4, <3>1, DamagedModel
  <2>2. CASE /\ DOMAIN kept[i].fixed # {}
             /\ kept' = [kept EXCEPT ![i].fixed["SN"] = Malformed]
    <3>1. new = [record EXCEPT !.fixed["SN"] = Malformed]
      BY <2>2
    <3> QED
      BY <1>4, <2>2, <3>1, DamagedIdentity
  <2>3. CASE /\ Len(kept[i].modules) > 1
             /\ kept' = [kept EXCEPT ![i].modules = Tail(@)]
    <3>1. new = [record EXCEPT !.modules = Tail(record.modules)]
      BY <2>3
    <3> QED
      BY <1>2, <1>4, <2>3, <3>1, DamagedModules
  <2>4. CASE /\ kept[i].modules # <<>>
             /\ kept' = [kept EXCEPT ![i].modules = Append(@, @[1])]
    <3>1. new = [record EXCEPT !.modules = Append(record.modules, record.modules[1])]
      BY <2>4
    <3> QED
      BY <1>2, <1>4, <2>4, <3>1, DamagedModules
  <2> QED
    BY <1>3, <2>1, <2>2, <2>3, <2>4
<1>7. DataFits'
  BY <1>1, <1>2 DEF DataFits
<1>8. kept' # None
  <2>1. \A j \in DOMAIN models : kept[j] \in StoredRecord
    BY <1>2, CompleteIsStored
  <2>2. new \in StoredRecord
    <3>1. \/ \E length \in {Malformed, AddressSpace} : new = [record EXCEPT !.model.length = length]
          \/ DOMAIN record.fixed # {} /\ new = [record EXCEPT !.fixed["SN"] = Malformed]
          \/ Len(record.modules) > 1 /\ new = [record EXCEPT !.modules = Tail(record.modules)]
          \/ /\ record.modules # <<>>
             /\ new = [record EXCEPT !.modules = Append(record.modules, record.modules[1])]
      BY <1>3
    <3>2. record \in StoredRecord
      BY <1>4, <2>1
    <3> HIDE DEF record, new
    <3> QED
      BY <3>1, <3>2, DamagedIsStored
  <2>3. \A j \in DOMAIN models : kept'[j] \in StoredRecord
    BY <1>2, <1>5, <2>1, <2>2
  <2> QED
    BY <1>5, <2>3, FileIsStored
<1>9. FileIsComplete'
  <2>1. \A j \in DOMAIN models : Complete(j)' = Complete(j)
    BY <1>1 DEF Complete, Decoded
  <2>2. \A j \in DOMAIN models : j # damaged' => kept'[j] = Complete(j)
    BY <1>2, <1>3, <1>5
  <2>3. damaged' \in DOMAIN models /\ ~ValidRecord(kept'[damaged'])
    BY <1>3, <1>4, <1>6
  <2> QED
    BY <1>1, <1>2, <1>5, <2>1, <2>2, <2>3, Zenon DEF FileIsComplete
<1>10. KeptIsOfDevice'
  BY <1>1, <1>2, <1>8 DEF KeptIsOfDevice
<1>11. TopologySurvives'
  BY <1>1, <1>2, Zenon DEF TopologySurvives
<1> QED
  BY <1>7, <1>9, <1>10, <1>11 DEF TopologyInv

(* No two models of a device have the same address.                           *)
LEMMA OwnAddress ==
  ASSUME DeviceInv, Apart, NEW i \in DOMAIN models, NEW j \in DOMAIN models, i # j
  PROVE  models[i].base # models[j].base
<1>1. models \in Seq(DiscoveredModel)
  BY DEF DeviceInv, WalkTypeOK
<1>2. ASSUME NEW a \in DOMAIN models, NEW b \in DOMAIN models, a < b
      PROVE  models[a].base < models[b].base
  <2>1. models[a] \in DiscoveredModel /\ models[b] \in DiscoveredModel
    BY <1>1, ElementOfSeq
  <2>2. Behind(models[a]) <= models[b].base
    BY <1>2, Zenon DEF Apart
  <2> QED
    BY <2>1, <2>2 DEF Behind, DiscoveredModel
<1>3. i \in Int /\ j \in Int
  BY <1>1
<1>4. i < j \/ j < i
  BY <1>3
<1>5. models[i].base \in Int /\ models[j].base \in Int
  <2>1. models[i] \in DiscoveredModel /\ models[j] \in DiscoveredModel
    BY <1>1, ElementOfSeq
  <2> QED
    BY <2>1 DEF DiscoveredModel
<1> QED
  BY <1>2, <1>4, <1>5

(* What is restored are the records of known models that were not damaged.    *)
LEMMA RestoreKeepsTopology ==
  ASSUME DeviceInv, WalkInv, Apart, TopologyInv, RestoreTopology
  PROVE  TopologyInv'
<1>1. /\ kept # None /\ restored = None
      /\ restored' = Validated(kept)
      /\ UNCHANGED <<models, device, kept, damaged, missing>>
  BY DEF RestoreTopology
<1>2. /\ device # <<>> /\ DataFits /\ missing = None
      /\ kept = [i \in DOMAIN models |-> kept[i]] /\ DOMAIN kept = DOMAIN models
      /\ \A i \in DOMAIN models : i # damaged => kept[i] = Complete(i)
      /\ damaged # None => damaged \in DOMAIN models /\ ~ValidRecord(kept[damaged])
  BY <1>1 DEF TopologyInv, KeptIsOfDevice, FileIsComplete
<1>3. ASSUME NEW i \in DOMAIN models
      PROVE  /\ ValidRecord(kept[i]) <=> i \in Good
             /\ i \in Good => kept[i] = Complete(i) /\ kept[i].model = models[i]
  <2>1. CASE i = damaged
    <3>1. damaged # None
      BY <2>1, NoneAssumption DEF DeviceInv, WalkTypeOK
    <3> QED
      BY <1>2, <2>1, <3>1 DEF Good
  <2>2. CASE i # damaged
    <3>1. kept[i] = Complete(i)
      BY <1>2, <2>2
    <3>2. ValidRecord(Complete(i)) <=> models[i].id # 0
      BY <1>2, CompleteIsValid
    <3>3. Complete(i).model = models[i]
      BY CompleteFields
    <3> QED
      BY <2>2, <3>1, <3>2, <3>3 DEF Good
  <2> QED
    BY <2>1, <2>2
<1> DEFINE Accepted(i) ==
             /\ ValidRecord(kept[i])
             /\ \A j \in DOMAIN kept :
                  j < i /\ ValidRecord(kept[j]) => kept[j].model.base # kept[i].model.base
<1>4. ASSUME NEW i \in DOMAIN models
      PROVE  Accepted(i) <=> i \in Good
  <2>1. CASE i \in Good
    <3>1. ValidRecord(kept[i]) /\ kept[i].model = models[i]
      BY <1>3, <2>1
    <3>2. ASSUME NEW j \in DOMAIN kept, j < i, ValidRecord(kept[j])
          PROVE  kept[j].model.base # kept[i].model.base
      <4>1. j \in DOMAIN models /\ j \in Good
        BY <1>2, <1>3, <3>2
      <4>2. kept[j].model = models[j]
        BY <1>3, <4>1
      <4>3. j # i
        <5>1. j \in Int /\ i \in Int
          BY <4>1 DEF DeviceInv, WalkTypeOK
        <5> QED
          BY <3>2, <5>1
      <4>4. models[j].base # models[i].base
        BY <4>1, <4>3, OwnAddress
      <4> QED
        BY <3>1, <4>2, <4>4
    <3> QED
      BY <2>1, <3>1, <3>2
  <2>2. CASE i \notin Good
    BY <1>3, <2>2
  <2> QED
    BY <2>1, <2>2
<1>5. restored' = [i \in {j \in DOMAIN kept : Accepted(j)} |-> Normalized(kept[i])]
  BY <1>1, Zenon DEF Validated
<1>6. {j \in DOMAIN kept : Accepted(j)} = Good
  <2> HIDE DEF Accepted
  <2>1. Good \subseteq DOMAIN models
    BY DEF Good
  <2> QED
    BY <1>2, <1>4, <2>1
<1>7. \A i \in Good : Normalized(kept[i]) = Complete(i)
  <2>1. \A i \in Good : i \in DOMAIN models
    BY DEF Good
  <2> QED
    BY <1>3, <2>1, NormalizedComplete
<1>8. restored' = [i \in Good |-> Complete(i)]
  <2> HIDE DEF Accepted
  <2>1. restored' = [i \in Good |-> Normalized(kept[i])]
    BY <1>5, <1>6, Zenon
  <2> QED
    BY <1>7, <2>1
<1>9. Good' = Good /\ \A i \in DOMAIN models : Complete(i)' = Complete(i)
  BY <1>1 DEF Good, Complete, Decoded
<1>10. TopologySurvives'
  <2>1. restored' = [i \in Good' |-> Complete(i)']
    <3>1. \A i \in Good : Complete(i)' = Complete(i)
      BY <1>9 DEF Good
    <3> QED
      BY <1>8, <1>9, <3>1
  <2>2. missing' = None
    BY <1>1, <1>2
  <2> QED
    BY <2>1, <2>2, SurvivalNext
<1>11. DataFits'
  BY <1>1, <1>2 DEF DataFits
<1>12. KeptIsOfDevice'
  BY <1>1, <1>2 DEF KeptIsOfDevice
<1>13. FileIsComplete'
  <2>1. \A i \in DOMAIN models : i # damaged => kept[i] = Complete(i)'
    BY <1>2, <1>9
  <2> QED
    BY <1>1, <1>2, <2>1 DEF FileIsComplete
<1> QED
  BY <1>10, <1>11, <1>12, <1>13 DEF TopologyInv

(* The record a model had before, if it was restored.                         *)
LEMMA PreviousRecord ==
  ASSUME DeviceInv, Apart, restored = [i \in Good |-> Complete(i)], NEW i \in DOMAIN models
  PROVE  Previous(models[i]) = IF i \in Good THEN Complete(i) ELSE Record(models[i], None)
<1> DEFINE same == {j \in DOMAIN restored : restored[j].model = models[i]}
<1>1. same = IF i \in Good THEN {i} ELSE {}
  <2>1. \A j \in Good : restored[j].model = models[j] /\ j \in DOMAIN models
    BY CompleteFields DEF Good
  <2>2. \A j \in Good : models[j] = models[i] => j = i
    BY <2>1, OwnAddress
  <2>3. DOMAIN restored = Good
    OBVIOUS
  <2> QED
    BY <2>1, <2>2, <2>3
<1>2. Previous(models[i]) =
        IF same # {} THEN restored[CHOOSE j \in same : TRUE] ELSE Record(models[i], None)
  BY Zenon DEF Previous
<1> HIDE DEF same
<1>3. CASE i \in Good
  <2>1. same = {i} /\ (CHOOSE j \in same : TRUE) = i
    BY <1>1, <1>3
  <2> QED
    BY <1>2, <1>3, <2>1
<1>4. CASE i \notin Good
  BY <1>1, <1>2, <1>4, Zenon
<1> QED
  BY <1>3, <1>4

LEMMA SaveAgainKeepsTopology ==
  ASSUME DeviceInv, WalkInv, Apart, TopologyInv, SaveAgain
  PROVE  TopologyInv'
<1>1. /\ restored # None
      /\ kept' = [i \in DOMAIN models |->
                    IF i \in missing' \/ Decoded(i) = None THEN Previous(models[i])
                    ELSE Complete(i)]
      /\ UNCHANGED <<models, device, damaged, restored>>
  BY Zenon DEF SaveAgain, Complete
<1>2. device # <<>> /\ DataFits /\ restored = [i \in Good |-> Complete(i)]
  BY <1>1, Survival DEF TopologyInv, KeptIsOfDevice
<1>3. ASSUME NEW i \in DOMAIN models
      PROVE  /\ kept'[i] \in StoredRecord
             /\ i \in Good \/ i \notin missing' => kept'[i] = Complete(i)
  <2>1. Previous(models[i]) = IF i \in Good THEN Complete(i) ELSE Record(models[i], None)
    BY <1>2, PreviousRecord
  <2>2. Complete(i) \in StoredRecord /\ Record(models[i], None) \in StoredRecord
    BY <1>2, CompleteIsStored
  <2>3. Decoded(i) = None => Complete(i) = Record(models[i], None)
    BY Zenon DEF Complete
  <2>4. kept'[i] = IF i \in missing' \/ Decoded(i) = None THEN Previous(models[i]) ELSE Complete(i)
    BY <1>1, Zenon
  <2>5. kept'[i] \in {Complete(i), Record(models[i], None)}
    BY <2>1, <2>4
  <2>6. CASE i \in Good
    BY <2>1, <2>2, <2>4, <2>6
  <2>7. CASE i \notin Good /\ i \notin missing'
    BY <2>1, <2>2, <2>3, <2>4, <2>7
  <2> QED
    BY <2>2, <2>5, <2>6, <2>7
<1>4. kept' # None
  <2>1. kept' = [i \in DOMAIN models |-> kept'[i]]
    BY <1>1
  <2> QED
    BY <1>3, <2>1, FileIsStored
<1>5. Good' = Good /\ \A i \in DOMAIN models : Complete(i)' = Complete(i)
  BY <1>1 DEF Good, Complete, Decoded
<1>6. TopologySurvives'
  <2>1. restored' = [i \in Good' |-> Complete(i)']
    <3>1. \A i \in Good : Complete(i)' = Complete(i)
      BY <1>5 DEF Good
    <3> QED
      BY <1>1, <1>2, <1>5, <3>1
  <2>2. \A i \in DOMAIN models' : i \in Good' \/ i \notin missing' => kept'[i] = Complete(i)'
    BY <1>1, <1>3, <1>5
  <2> QED
    BY <2>1, <2>2, SurvivalNext
<1>7. DataFits'
  BY <1>1, <1>2 DEF DataFits
<1>8. KeptIsOfDevice'
  BY <1>1, <1>2, <1>4 DEF KeptIsOfDevice
<1>9. FileIsComplete'
  BY <1>1 DEF FileIsComplete
<1> QED
  BY <1>6, <1>7, <1>8, <1>9 DEF TopologyInv

LEMMA TopologyStep ==
  DeviceInv /\ DeviceInv' /\ WalkInv /\ Apart /\ TopologyInv /\ [Next]_vars => TopologyInv'
<1> SUFFICES ASSUME DeviceInv, DeviceInv', WalkInv, Apart, TopologyInv, [Next]_vars
             PROVE  TopologyInv'
  OBVIOUS
<1>1. CASE Discover
  BY <1>1, DiscoverKeepsTopology
<1>2. CASE Poll
  BY <1>2, PollKeepsTopology
<1>3. CASE SaveTopology
  BY <1>3, SaveKeepsTopology
<1>4. CASE Damage
  BY <1>4, DamageKeepsTopology
<1>5. CASE RestoreTopology
  BY <1>5, RestoreKeepsTopology
<1>6. CASE SaveAgain
  BY <1>6, SaveAgainKeepsTopology
<1>7. ASSUME NEW policies \in Installed, NEW r \in Requests, Write(policies, r)
      PROVE  TopologyInv'
  BY <1>7, WriteKeepsTopology
<1>8. ASSUME NEW settings \in Settings, Manual(settings)
      PROVE  TopologyInv'
  BY <1>8, SameTopology DEF Manual
<1>9. CASE UNCHANGED vars
  BY <1>9, SameTopology DEF vars
<1> QED
  BY <1>1, <1>2, <1>3, <1>4, <1>5, <1>6, <1>7, <1>8, <1>9 DEF Next

(* A restart restores what was saved of every known model, a damaged record   *)
(* is dropped and takes no other with it, and models that give the first poll *)
(* no data lose nothing.  (topology.py, coordinator.py _poll_devices)         *)
THEOREM TopologySurvivesAlways == Spec => []TopologySurvives
<1>1. Init => TopologyInv
  <2> SUFFICES ASSUME Init PROVE TopologyInv
    OBVIOUS
  <2>1. device = <<>> /\ kept = None /\ damaged = None /\ restored = None /\ missing = None
    BY DEF Init
  <2>2. DataFits /\ KeptIsOfDevice /\ FileIsComplete
    BY <2>1 DEF DataFits, KeptIsOfDevice, FileIsComplete
  <2>3. TopologySurvives
    BY <2>1, Zenon DEF TopologySurvives
  <2> QED
    BY <2>2, <2>3 DEF TopologyInv
<1>2. DeviceInv /\ DeviceInv' /\ WalkInv /\ Apart /\ TopologyInv /\ [Next]_vars => TopologyInv'
  BY TopologyStep
<1>3. TopologyInv => TopologySurvives
  BY DEF TopologyInv
<1> QED
  BY <1>1, <1>2, <1>3, DeviceInvariance, WalksAlone, WalkInvariance, ModelsApart, PTL DEF Spec
=============================================================================
