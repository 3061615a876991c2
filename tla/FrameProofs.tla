---------------------------- MODULE FrameProofs ----------------------------
(***************************************************************************)
(* What the frames of ModbusFrame.tla promise for all registers and all    *)
(* bytes: what a slave builds is parsed back; a frame in which one byte,   *)
(* two neighbouring bytes or any two bits have changed, or that has lost a *)
(* byte, is refused; and the file's own tests pass.                        *)
(***************************************************************************)
EXTENDS ModbusFrame, SequenceTheorems, FiniteSetTheorems, WellFoundedInduction, TLAPS

-----------------------------------------------------------------------------
(* Bytes and words.                                                        *)

LEMMA PartsOfWord ==
    ASSUME NEW w \in Word16
    PROVE  /\ LowByte(w) \in Byte /\ HighByte(w) \in Byte
           /\ WordOf(HighByte(w), LowByte(w)) = w
<1>1. LowByte(w) \in Byte
    BY DEF Byte, LowByte
<1>2. \A i : i \in HighByte(w) <=> i \in 0 .. 7 /\ i + 8 \in w
    BY DEF Word16, HighByte
<1>3. HighByte(w) \in Byte
    BY <1>2 DEF Byte
<1>4. \A i : i \in WordOf(HighByte(w), LowByte(w)) <=> i \in w
    <2> TAKE i
    <2>1. i \in WordOf(HighByte(w), LowByte(w))
            <=> (\E j \in HighByte(w) : i = j + 8) \/ i \in LowByte(w)
        BY DEF WordOf
    <2>2. i \in LowByte(w) <=> i \in w /\ i \in 0 .. 7
        BY DEF LowByte
    <2>3. (\E j \in HighByte(w) : i = j + 8) <=> i \in w /\ i \in 8 .. 15
        <3>1. ASSUME i \in w, i \in 8 .. 15
              PROVE  i - 8 \in HighByte(w) /\ i = (i - 8) + 8
            BY <1>2, <3>1
        <3>2. ASSUME NEW j \in HighByte(w), i = j + 8
              PROVE  i \in w /\ i \in 8 .. 15
            BY <1>2, <3>2
        <3> QED BY <3>1, <3>2
    <2>4. i \in w => i \in 0 .. 7 \/ i \in 8 .. 15
        BY DEF Word16
    <2> QED BY <2>1, <2>2, <2>3, <2>4
<1>5. WordOf(HighByte(w), LowByte(w)) = w
    BY <1>4
<1> QED BY <1>1, <1>3, <1>5

LEMMA WordOfParts ==
    ASSUME NEW high \in Byte, NEW low \in Byte
    PROVE  /\ WordOf(high, low) \in Word16
           /\ HighByte(WordOf(high, low)) = high
           /\ LowByte(WordOf(high, low)) = low
<1> DEFINE w == WordOf(high, low)
<1>1. \A i : i \in w <=> (\E j \in high : i = j + 8) \/ i \in low
    BY DEF WordOf
<1>2. \A j : (j \in high => j \in 0 .. 7) /\ (j \in low => j \in 0 .. 7)
    BY DEF Byte
<1>3. w \in Word16
    <2>1. \A i : i \in w => i \in 0 .. 15
        BY <1>1, <1>2
    <2> QED BY <2>1 DEF Word16
<1>4. \A i : i \in LowByte(w) <=> i \in low
    BY <1>1, <1>2 DEF LowByte
<1>5. \A i : i \in HighByte(w) <=> i \in high
    <2>1. \A i : i \in HighByte(w) <=> \E k \in w : k \in 8 .. 15 /\ i = k - 8
        BY DEF HighByte
    <2> HIDE DEF w
    <2>2. ASSUME NEW i \in high
          PROVE  i + 8 \in w /\ i + 8 \in 8 .. 15 /\ i = (i + 8) - 8
        BY <1>1, <1>2
    <2>3. ASSUME NEW k \in w, k \in 8 .. 15
          PROVE  k - 8 \in high
        <3>1. PICK j \in high : k = j + 8
            BY <1>1, <1>2, <2>3
        <3> QED BY <1>2, <3>1
    <2> QED BY <2>1, <2>2, <2>3
<1> QED BY <1>3, <1>4, <1>5

LEMMA SymDiffWords ==
    ASSUME NEW v \in Word16, NEW w \in Word16
    PROVE  SymDiff(v, w) \in Word16
    BY DEF Word16, SymDiff

LEMMA ByteIsWord == Byte \subseteq Word16
    BY DEF Byte, Word16
-----------------------------------------------------------------------------
(* The CRC.  CrcPoly has bit 15, so that a step remembers the bit it       *)
(* shifts out: no two words have the same successor.                       *)

LEMMA StepBits ==
    ASSUME NEW crc \in Word16
    PROVE  /\ CrcStep[crc] \in Word16
           /\ 15 \in CrcStep[crc] <=> 0 \in crc
           /\ \A j \in 0 .. 14 :
                 j \in CrcStep[crc] <=> (j + 1 \in crc <=> ~(0 \in crc /\ j \in CrcPoly))
<1> DEFINE shifted == {i - 1 : i \in crc \ {0}}
<1>1. CrcStep[crc] = IF 0 \in crc THEN SymDiff(shifted, CrcPoly) ELSE shifted
    BY DEF CrcStep
<1>2. \A i \in crc : i \in 0 .. 15
    BY DEF Word16
<1>3. \A j : j \in shifted <=> j \in 0 .. 14 /\ j + 1 \in crc
    <2>1. ASSUME NEW i \in crc \ {0}
          PROVE  i - 1 \in 0 .. 14 /\ (i - 1) + 1 \in crc
        BY <1>2
    <2>2. ASSUME NEW j \in 0 .. 14, j + 1 \in crc
          PROVE  j + 1 \in crc \ {0} /\ j = (j + 1) - 1
        BY <2>2
    <2> QED BY <2>1, <2>2
<1> HIDE DEF shifted
<1>4. \A j : j \in CrcPoly => j \in 0 .. 15
    BY DEF CrcPoly
<1>5. \A j : j \in CrcStep[crc] <=>
                IF 0 \in crc THEN ~(j \in shifted <=> j \in CrcPoly) ELSE j \in shifted
    BY <1>1 DEF SymDiff
<1>6. CrcStep[crc] \in Word16
    <2>1. \A j : j \in CrcStep[crc] => j \in 0 .. 15
        BY <1>3, <1>4, <1>5
    <2> QED BY <2>1 DEF Word16
<1>7. 15 \in CrcStep[crc] <=> 0 \in crc
    <2>1. 15 \notin shifted
        BY <1>3
    <2>2. 15 \in CrcPoly
        BY DEF CrcPoly
    <2> QED BY <1>5, <2>1, <2>2
<1>8. ASSUME NEW j \in 0 .. 14
      PROVE  j \in CrcStep[crc] <=> (j + 1 \in crc <=> ~(0 \in crc /\ j \in CrcPoly))
    BY <1>3, <1>5, <1>8
<1> QED BY <1>6, <1>7, <1>8

LEMMA StepInjective ==
    ASSUME NEW c \in Word16, NEW d \in Word16, CrcStep[c] = CrcStep[d]
    PROVE  c = d
<1>1. 0 \in c <=> 0 \in d
    BY StepBits
<1>2. ASSUME NEW j \in 0 .. 14
      PROVE  j + 1 \in c <=> j + 1 \in d
    BY <1>1, <1>2, StepBits
<1>3. ASSUME NEW i \in 0 .. 15
      PROVE  i \in c <=> i \in d
    <2>1. CASE i = 0
        BY <1>1, <2>1
    <2>2. CASE i # 0
        <3>1. i - 1 \in 0 .. 14 /\ (i - 1) + 1 = i
            BY <2>2
        <3> QED BY <1>2, <3>1
    <2> QED BY <2>1, <2>2
<1>4. \A i : (i \in c => i \in 0 .. 15) /\ (i \in d => i \in 0 .. 15)
    BY DEF Word16
<1>5. \A i : i \in c <=> i \in d
    BY <1>3, <1>4
<1> QED BY <1>5

LEMMA ByteTurn ==
    ASSUME NEW crc \in Word16, NEW byte \in Byte
    PROVE  CrcByte[<<crc, byte>>] \in Word16
<1>1. SymDiff(crc, byte) \in Word16
    BY SymDiffWords, ByteIsWord
<1>2. \A w \in Word16 : CrcStep[w] \in Word16
    BY StepBits
<1> QED BY <1>1, <1>2 DEF CrcByte

LEMMA EightStepsInjective ==
    ASSUME NEW c \in Word16, NEW d \in Word16,
           CrcStep[CrcStep[CrcStep[CrcStep[CrcStep[CrcStep[CrcStep[CrcStep[c]]]]]]]]
             = CrcStep[CrcStep[CrcStep[CrcStep[CrcStep[CrcStep[CrcStep[CrcStep[d]]]]]]]]
    PROVE  c = d
<1>1. \A w \in Word16 : CrcStep[w] \in Word16
    BY StepBits
<1>2. \A v, w \in Word16 : CrcStep[v] = CrcStep[w] => v = w
    BY StepInjective
<1> DEFINE Two(w) == CrcStep[CrcStep[w]]
           Four(w) == Two(Two(w))
<1>3. \A w \in Word16 : Two(w) \in Word16
    BY <1>1
<1>4. \A v, w \in Word16 : Two(v) = Two(w) => v = w
    BY <1>1, <1>2
<1>5. Four(Four(c)) = Four(Four(d))
    OBVIOUS
<1> HIDE DEF Two
<1>6. \A w \in Word16 : Four(w) \in Word16
    BY <1>3
<1>7. \A v, w \in Word16 : Four(v) = Four(w) => v = w
    BY <1>3, <1>4
<1> HIDE DEF Four
<1> QED BY <1>5, <1>6, <1>7

-----------------------------------------------------------------------------
(* The CRC of a buffer, by induction on its length: what fails somewhere   *)
(* fails first at a least place.                                           *)

LEMMA LeastNat ==
    ASSUME NEW S, S \subseteq Nat, S # {}
    PROVE  \E x \in S : \A y \in S : x <= y
<1>1. \E x \in S : \A y \in S : <<y, x>> \notin OpToRel(<, Nat)
    BY NatLessThanWellFounded, WFMin
<1>2. ASSUME NEW x \in S, \A y \in S : <<y, x>> \notin OpToRel(<, Nat)
      PROVE  \A y \in S : x <= y
    <2> SUFFICES ASSUME NEW y \in S PROVE x <= y
        OBVIOUS
    <2>1. ~(y < x)
        BY <1>2 DEF OpToRel
    <2> QED BY <2>1
<1> QED BY <1>1, <1>2

(* crc is the function of CrcAfter as far as n. *)
Turns(crc, buf, n) ==
    crc = [k \in 0 .. n |-> IF k = 0 THEN 0 .. 15
                            ELSE CrcByte[<<crc[k - 1], buf[k]>>]]

LEMMA TurnsExist ==
    ASSUME NEW buf, NEW len \in Nat
    PROVE  \E crc : Turns(crc, buf, len)
<1> DEFINE Bad == {n \in Nat : ~\E crc : Turns(crc, buf, n)}
<1> SUFFICES ASSUME Bad # {} PROVE FALSE
    OBVIOUS
<1>1. PICK n \in Bad : \A m \in Bad : n <= m
    BY LeastNat
<1>2. CASE n = 0
    <2> DEFINE crc == [k \in 0 .. 0 |-> 0 .. 15]
    <2>1. crc = [k \in 0 .. 0 |-> IF k = 0 THEN 0 .. 15
                                  ELSE CrcByte[<<crc[k - 1], buf[k]>>]]
        OBVIOUS
    <2> QED BY <1>1, <1>2, <2>1 DEF Turns
<1>3. CASE n # 0
    <2>1. n \in Nat /\ n - 1 \in Nat /\ ~(n <= n - 1)
        BY <1>3
    <2>2. PICK g : Turns(g, buf, n - 1)
        BY <1>1, <2>1
    <2> DEFINE crc == [k \in 0 .. n |-> IF k = n THEN CrcByte[<<g[n - 1], buf[n]>>]
                                        ELSE g[k]]
    <2>3. ASSUME NEW k \in 0 .. n
          PROVE  crc[k] = IF k = 0 THEN 0 .. 15 ELSE CrcByte[<<crc[k - 1], buf[k]>>]
        <3>1. CASE k = n
            <4>1. n - 1 \in 0 .. n /\ n - 1 # n
                BY <2>1
            <4> QED BY <1>3, <3>1, <4>1
        <3>2. CASE k = 0
            BY <1>3, <2>2, <3>2, <2>1 DEF Turns
        <3>3. CASE k # 0 /\ k # n
            <4>1. k \in 0 .. n - 1 /\ k - 1 \in 0 .. n /\ k - 1 # n
                BY <2>1, <3>3
            <4>2. g[k] = CrcByte[<<g[k - 1], buf[k]>>]
                BY <2>2, <3>3, <4>1 DEF Turns
            <4> QED BY <3>3, <4>1, <4>2
        <3> QED BY <3>1, <3>2, <3>3
    <2>4. crc = [k \in 0 .. n |-> crc[k]]
        OBVIOUS
    <2> HIDE DEF crc
    <2>5. Turns(crc, buf, n)
        BY <2>3, <2>4 DEF Turns
    <2> QED BY <1>1, <2>5
<1> QED BY <1>2, <1>3

LEMMA CrcAfterTurns ==
    ASSUME NEW buf, NEW len \in Nat
    PROVE  Turns(CrcAfter(buf, len), buf, len)
    BY TurnsExist DEF CrcAfter, Turns

LEMMA CrcTurn ==
    ASSUME NEW buf, NEW len \in Nat
    PROVE  /\ CrcAfter(buf, len)[0] = 0 .. 15
           /\ \A k \in 1 .. len :
                 CrcAfter(buf, len)[k] = CrcByte[<<CrcAfter(buf, len)[k - 1], buf[k]>>]
<1> DEFINE crc == CrcAfter(buf, len)
<1>1. crc = [k \in 0 .. len |-> IF k = 0 THEN 0 .. 15
                               ELSE CrcByte[<<crc[k - 1], buf[k]>>]]
    BY CrcAfterTurns DEF Turns
<1> HIDE DEF crc
<1>2. \A k \in 0 .. len : crc[k] = IF k = 0 THEN 0 .. 15
                                   ELSE CrcByte[<<crc[k - 1], buf[k]>>]
    BY <1>1, Zenon
<1>3. 0 \in 0 .. len /\ \A k \in 1 .. len : k \in 0 .. len /\ k # 0
    OBVIOUS
<1>4. /\ crc[0] = 0 .. 15
      /\ \A k \in 1 .. len : crc[k] = CrcByte[<<crc[k - 1], buf[k]>>]
    BY <1>2, <1>3, Zenon
<1> QED BY <1>4 DEF crc

(* The first n elements of buf are bytes. *)
Bytes(buf, n) == \A k \in 1 .. n : buf[k] \in Byte

LEMMA CrcAfterType ==
    ASSUME NEW buf, NEW len \in Nat, Bytes(buf, len)
    PROVE  \A k \in 0 .. len : CrcAfter(buf, len)[k] \in Word16
<1> DEFINE crc == CrcAfter(buf, len)
           Bad == {k \in 0 .. len : crc[k] \notin Word16}
<1> SUFFICES ASSUME Bad # {} PROVE FALSE
    OBVIOUS
<1>1. PICK k \in Bad : \A m \in Bad : k <= m
    <2>1. Bad \subseteq Nat
        OBVIOUS
    <2> HIDE DEF Bad
    <2> QED BY <2>1, LeastNat
<1>2. crc[0] = 0 .. 15 /\ \A m \in 1 .. len : crc[m] = CrcByte[<<crc[m - 1], buf[m]>>]
    BY CrcTurn
<1> HIDE DEF crc
<1>3. CASE k = 0
    BY <1>1, <1>2, <1>3 DEF Word16
<1>4. CASE k # 0
    <2>1. k \in 1 .. len /\ k - 1 \in 0 .. len /\ ~(k <= k - 1)
        BY <1>1, <1>4
    <2>2. crc[k - 1] \in Word16
        BY <1>1, <2>1
    <2>3. crc[k] \in Word16
        BY <1>2, <2>1, <2>2, ByteTurn DEF Bytes
    <2> QED BY <1>1, <2>3
<1> QED BY <1>3, <1>4

LEMMA CrcOfSame ==
    ASSUME NEW a, NEW b, NEW n \in Nat, NEW m \in Nat, NEW i \in 0 .. n, i <= m,
           \A k \in 1 .. i : a[k] = b[k]
    PROVE  CrcAfter(a, n)[i] = CrcAfter(b, m)[i]
<1> DEFINE crca == CrcAfter(a, n)
           crcb == CrcAfter(b, m)
           Bad == {k \in 0 .. i : crca[k] # crcb[k]}
<1> SUFFICES ASSUME Bad # {} PROVE FALSE
    OBVIOUS
<1>1. PICK k \in Bad : \A l \in Bad : k <= l
    <2>1. Bad \subseteq Nat
        OBVIOUS
    <2> HIDE DEF Bad
    <2> QED BY <2>1, LeastNat
<1>2. crca[0] = 0 .. 15 /\ \A l \in 1 .. n : crca[l] = CrcByte[<<crca[l - 1], a[l]>>]
    BY CrcTurn
<1>3. crcb[0] = 0 .. 15 /\ \A l \in 1 .. m : crcb[l] = CrcByte[<<crcb[l - 1], b[l]>>]
    BY CrcTurn
<1> HIDE DEF crca, crcb
<1>4. CASE k = 0
    BY <1>1, <1>2, <1>3, <1>4
<1>5. CASE k # 0
    <2>1. k \in 1 .. n /\ k \in 1 .. m /\ k \in 1 .. i /\ k - 1 \in 0 .. i /\ ~(k <= k - 1)
        BY <1>1, <1>5
    <2>2. crca[k - 1] = crcb[k - 1]
        BY <1>1, <2>1
    <2>3. crca[k] = crcb[k]
        BY <1>2, <1>3, <2>1, <2>2
    <2> QED BY <1>1, <2>3
<1> QED BY <1>4, <1>5

-----------------------------------------------------------------------------
(* Numbers.                                                                *)

LEMMA Powers ==
    /\ 2^0 = 1 /\ 2^1 = 2 /\ 2^2 = 4 /\ 2^3 = 8
    /\ 2^4 = 16 /\ 2^5 = 32 /\ 2^6 = 64 /\ 2^7 = 128
    OBVIOUS

LEMMA NumByteType == ASSUME NEW w PROVE NumByte(w) \in Nat /\ NumByte(w) <= 255
<1>1. /\ BitValue(w, 0) \in {0, 1} /\ BitValue(w, 1) \in {0, 2}
      /\ BitValue(w, 2) \in {0, 4} /\ BitValue(w, 3) \in {0, 8}
      /\ BitValue(w, 4) \in {0, 16} /\ BitValue(w, 5) \in {0, 32}
      /\ BitValue(w, 6) \in {0, 64} /\ BitValue(w, 7) \in {0, 128}
    BY Powers DEF BitValue
<1> QED BY <1>1 DEF NumByte

LEMMA NumType ==
    ASSUME NEW w \in Word16
    PROVE  Num[w] \in Nat
<1>1. Num[w] = 256 * NumByte(HighByte(w)) + NumByte(LowByte(w))
    BY DEF Num
<1>2. NumByte(HighByte(w)) \in Nat /\ NumByte(LowByte(w)) \in Nat
    BY NumByteType
<1> DEFINE high == NumByte(HighByte(w))
           low == NumByte(LowByte(w))
<1> HIDE DEF high, low
<1>3. high \in Nat /\ low \in Nat => 256 * high + low \in Nat
    OBVIOUS
<1> QED BY <1>1, <1>2, <1>3 DEF high, low

LEMMA NumOfByte ==
    ASSUME NEW b \in Byte
    PROVE  Num[b] = NumByte(b)
<1>1. b \in Word16 /\ LowByte(b) = b /\ HighByte(b) = {}
    <2>1. \A i \in b : i \in 0 .. 7 /\ i \notin 8 .. 15
        BY DEF Byte
    <2>2. b \in Word16
        BY ByteIsWord
    <2>3. LowByte(b) = b
        BY <2>1 DEF LowByte
    <2>4. b \cap (8 .. 15) = {}
        BY <2>1
    <2>5. HighByte(b) = {}
        BY <2>4 DEF HighByte
    <2> QED BY <2>2, <2>3, <2>5
<1>2. NumByte({}) = 0
    BY DEF NumByte, BitValue
<1>3. Num[b] = 256 * NumByte(HighByte(b)) + NumByte(LowByte(b))
    BY <1>1 DEF Num
<1> QED BY <1>1, <1>2, <1>3, NumByteType

LEMMA BitsType == ASSUME NEW n \in Nat PROVE Bits(n) \in Word16
    BY DEF Bits, Word16

(* k has a 1 at the place worth p; b holds the binary digits of k. *)
Digit(k, p) == (k \div p) % 2 = 1
DigitsOf(b, k) ==
    /\ (0 \in b <=> Digit(k, 1))  /\ (1 \in b <=> Digit(k, 2))
    /\ (2 \in b <=> Digit(k, 4))  /\ (3 \in b <=> Digit(k, 8))
    /\ (4 \in b <=> Digit(k, 16)) /\ (5 \in b <=> Digit(k, 32))
    /\ (6 \in b <=> Digit(k, 64)) /\ (7 \in b <=> Digit(k, 128))

LEMMA DigitsSum ==
    ASSUME NEW k \in Nat, k <= 255
    PROVE  k = (IF Digit(k, 1) THEN 1 ELSE 0) + (IF Digit(k, 2) THEN 2 ELSE 0)
             + (IF Digit(k, 4) THEN 4 ELSE 0) + (IF Digit(k, 8) THEN 8 ELSE 0)
             + (IF Digit(k, 16) THEN 16 ELSE 0) + (IF Digit(k, 32) THEN 32 ELSE 0)
             + (IF Digit(k, 64) THEN 64 ELSE 0) + (IF Digit(k, 128) THEN 128 ELSE 0)
    BY DEF Digit

LEMMA DigitsGiveNumber ==
    ASSUME NEW b, NEW k \in Nat, k <= 255, DigitsOf(b, k)
    PROVE  NumByte(b) = k
<1>1. /\ BitValue(b, 0) = IF Digit(k, 1) THEN 1 ELSE 0
      /\ BitValue(b, 1) = IF Digit(k, 2) THEN 2 ELSE 0
      /\ BitValue(b, 2) = IF Digit(k, 4) THEN 4 ELSE 0
      /\ BitValue(b, 3) = IF Digit(k, 8) THEN 8 ELSE 0
      /\ BitValue(b, 4) = IF Digit(k, 16) THEN 16 ELSE 0
      /\ BitValue(b, 5) = IF Digit(k, 32) THEN 32 ELSE 0
      /\ BitValue(b, 6) = IF Digit(k, 64) THEN 64 ELSE 0
      /\ BitValue(b, 7) = IF Digit(k, 128) THEN 128 ELSE 0
    BY Powers DEF BitValue, DigitsOf
<1>2. NumByte(b) = (IF Digit(k, 1) THEN 1 ELSE 0) + (IF Digit(k, 2) THEN 2 ELSE 0)
                 + (IF Digit(k, 4) THEN 4 ELSE 0) + (IF Digit(k, 8) THEN 8 ELSE 0)
                 + (IF Digit(k, 16) THEN 16 ELSE 0) + (IF Digit(k, 32) THEN 32 ELSE 0)
                 + (IF Digit(k, 64) THEN 64 ELSE 0) + (IF Digit(k, 128) THEN 128 ELSE 0)
    BY <1>1 DEF NumByte
<1> QED BY <1>2, DigitsSum

LEMMA DigitsOfBits ==
    ASSUME NEW n \in Nat
    PROVE  /\ \A i \in 0 .. 15 : i \in Bits(n) <=> Digit(n, 2^i)
           /\ DigitsOf(Bits(n), n)
<1>1. \A i \in 0 .. 15 : i \in Bits(n) <=> Digit(n, 2^i)
    BY DEF Bits, Digit
<1>2. DigitsOf(Bits(n), n)
    BY <1>1, Powers DEF DigitsOf
<1> QED BY <1>1, <1>2

LEMMA NumOfBits ==
    ASSUME NEW n \in Nat, n <= 255
    PROVE  LowByte(Bits(n)) \in Byte /\ Num[LowByte(Bits(n))] = n
<1> DEFINE b == LowByte(Bits(n))
<1>1. b \in Byte
    BY DEF LowByte, Byte
<1>2. \A i \in 0 .. 7 : i \in b <=> i \in Bits(n)
    BY DEF LowByte
<1> HIDE DEF b
<1>3. n \in Nat
    OBVIOUS
<1>4. DigitsOf(b, n)
    BY <1>2, <1>3, DigitsOfBits DEF DigitsOf
<1>5. NumByte(b) = n
    BY <1>4, DigitsGiveNumber
<1> QED BY <1>1, <1>5, NumOfByte DEF b

-----------------------------------------------------------------------------
(* Frames.                                                                 *)

LEMMA CrcType ==
    ASSUME NEW buf, NEW len \in Nat \ {0}, Bytes(buf, len)
    PROVE  modbus_crc16(buf, len) = CrcAfter(buf, len)[len] /\ modbus_crc16(buf, len) \in Word16
    BY CrcAfterType DEF modbus_crc16

LEMMA WithCrcIs ==
    ASSUME NEW body \in Seq(Byte), Len(body) > 0
    PROVE  LET frame == WithCrc(body)
               n == Len(body)
           IN  /\ frame \in Seq(Byte) /\ Len(frame) = n + 2
               /\ \A k \in 1 .. n : frame[k] = body[k]
               /\ WordOf(frame[n + 2], frame[n + 1]) = modbus_crc16(frame, n)
<1> DEFINE n == Len(body)
           crc == modbus_crc16(body, n)
           frame == WithCrc(body)
<1>1. n \in Nat \ {0} /\ Bytes(body, n)
    BY DEF Bytes
<1>2. crc = CrcAfter(body, n)[n] /\ crc \in Word16
    BY <1>1, CrcType
<1>3. frame = body \o <<LowByte(crc), HighByte(crc)>>
    BY DEF WithCrc
<1> HIDE DEF n, crc, frame
<1>4. LowByte(crc) \in Byte /\ HighByte(crc) \in Byte /\ WordOf(HighByte(crc), LowByte(crc)) = crc
    BY <1>2, PartsOfWord
<1>5. /\ frame \in Seq(Byte) /\ Len(frame) = n + 2
      /\ \A k \in 1 .. n : frame[k] = body[k]
      /\ frame[n + 1] = LowByte(crc) /\ frame[n + 2] = HighByte(crc)
    BY <1>3, <1>4 DEF n
<1>6. Bytes(frame, n)
    BY <1>5, <1>1 DEF Bytes
<1>7. CrcAfter(frame, n)[n] = CrcAfter(body, n)[n]
    BY <1>1, <1>5, CrcOfSame
<1>8. modbus_crc16(frame, n) = crc
    BY <1>1, <1>2, <1>6, <1>7, CrcType
<1> QED BY <1>4, <1>5, <1>8 DEF n, frame

LEMMA SmallBits == \A n \in {1, 2, 3} : Bits(n) \subseteq 0 .. 6
<1>1. \A n \in {1, 2, 3}, p \in {128, 256, 512, 1024, 2048, 4096, 8192, 16384, 32768} :
        (n \div p) % 2 # 1
    OBVIOUS
<1>2. \A n \in {1, 2, 3} :
         /\ 7 \notin Bits(n) /\ 8 \notin Bits(n) /\ 9 \notin Bits(n)
         /\ 10 \notin Bits(n) /\ 11 \notin Bits(n) /\ 12 \notin Bits(n)
         /\ 13 \notin Bits(n) /\ 14 \notin Bits(n) /\ 15 \notin Bits(n)
    BY <1>1 DEF Bits
<1> QED BY <1>2, BitsType DEF Word16

LEMMA ResponseIs ==
    ASSUME NEW regs \in Seq(Word16), Len(regs) <= MaxRegisters
    PROVE  LET frame == build_test_response(regs)
           IN  /\ frame \in Seq(Byte) /\ Len(frame) = 2 * Len(regs) + 5
               /\ Acceptable(frame) /\ Num[frame[3]] = 2 * Len(regs)
               /\ frame[1] = Bits(1) /\ frame[2] = FuncReadHolding
               /\ frame[3] = LowByte(Bits(2 * Len(regs)))
               /\ \A i \in 1 .. Len(regs) :
                      /\ frame[2 * i + 2] = HighByte(regs[i])
                      /\ frame[2 * i + 3] = LowByte(regs[i])
                      /\ WordOf(frame[2 * i + 2], frame[2 * i + 3]) = regs[i]
<1> DEFINE n == Len(regs)
           header == <<Bits(1), FuncReadHolding, LowByte(Bits(2 * n))>>
           data == [k \in 1 .. 2 * n |-> IF k % 2 = 1 THEN HighByte(regs[(k + 1) \div 2])
                                        ELSE LowByte(regs[k \div 2])]
           frame == build_test_response(regs)
<1>1. n \in Nat /\ n <= 125
    BY DEF MaxRegisters
<1> HIDE DEF n
<1>2. LowByte(Bits(2 * n)) \in Byte /\ Num[LowByte(Bits(2 * n))] = 2 * n
    <2>1. 2 * n \in Nat /\ 2 * n <= 255
        BY <1>1
    <2> QED BY <2>1, NumOfBits
<1>3. Bits(1) \in Byte /\ FuncReadHolding \in Byte /\ 7 \notin FuncReadHolding
    BY SmallBits DEF FuncReadHolding, Byte
<1>4. header \in Seq(Byte) /\ Len(header) = 3
    BY <1>2, <1>3
<1>5. data \in Seq(Byte) /\ Len(data) = 2 * n
    <2>1. ASSUME NEW k \in 1 .. 2 * n PROVE data[k] \in Byte
        <3>1. CASE k % 2 = 1
            <4>1. (k + 1) \div 2 \in 1 .. n
                BY <1>1, <3>1
            <4>2. regs[(k + 1) \div 2] \in Word16
                BY <4>1 DEF n
            <4> QED BY <3>1, <4>2, PartsOfWord
        <3>2. CASE k % 2 # 1
            <4>1. k \div 2 \in 1 .. n
                BY <1>1, <3>2
            <4>2. regs[k \div 2] \in Word16
                BY <4>1 DEF n
            <4> QED BY <3>2, <4>2, PartsOfWord
        <3> QED BY <3>1, <3>2
    <2> QED BY <1>1, <2>1
<1>6. \A i \in 1 .. n : /\ 2 * i - 1 \in 1 .. 2 * n /\ data[2 * i - 1] = HighByte(regs[i])
                       /\ 2 * i \in 1 .. 2 * n /\ data[2 * i] = LowByte(regs[i])
    <2> TAKE i \in 1 .. n
    <2>1. /\ 2 * i - 1 \in 1 .. 2 * n /\ (2 * i - 1) % 2 = 1 /\ ((2 * i - 1) + 1) \div 2 = i
          /\ 2 * i \in 1 .. 2 * n /\ (2 * i) % 2 # 1 /\ (2 * i) \div 2 = i
        BY <1>1
    <2> QED BY <2>1
<1> DEFINE body == header \o data
<1>7. frame = WithCrc(body)
    BY DEF build_test_response, n
<1>8. header[1] = Bits(1) /\ header[2] = FuncReadHolding /\ header[3] = LowByte(Bits(2 * n))
    OBVIOUS
<1> HIDE DEF header, data, frame
<1>9. /\ body \in Seq(Byte) /\ Len(body) = 2 * n + 3
      /\ body[1] = header[1] /\ body[2] = header[2] /\ body[3] = header[3]
      /\ \A k \in 1 .. 2 * n : body[k + 3] = data[k]
    <2>1. body \in Seq(Byte) /\ Len(body) = Len(header) + Len(data)
            /\ \A i \in 1 .. Len(header) + Len(data) :
                   body[i] = IF i <= Len(header) THEN header[i] ELSE data[i - Len(header)]
        BY <1>4, <1>5, ConcatProperties
    <2>2. Len(body) = 2 * n + 3
        BY <1>1, <1>4, <1>5, <2>1
    <2>3. \A k \in 1 .. Len(header) : body[k] = header[k]
        <3>1. \A k \in 1 .. Len(header) :
                 k \in 1 .. Len(header) + Len(data) /\ k <= Len(header)
            BY <1>1, <1>4, <1>5
        <3> QED BY <2>1, <3>1
    <2>4. \A k \in 1 .. Len(data) : body[k + Len(header)] = data[k]
        <3>1. ASSUME NEW k \in 1 .. Len(data)
              PROVE  /\ k + Len(header) \in 1 .. Len(header) + Len(data)
                     /\ ~(k + Len(header) <= Len(header))
                     /\ (k + Len(header)) - Len(header) = k
            BY <1>1, <1>4, <1>5, <3>1
        <3> QED BY <2>1, <3>1
    <2> QED BY <1>4, <1>5, <2>1, <2>2, <2>3, <2>4
<1> HIDE DEF body
<1>10. /\ frame \in Seq(Byte) /\ Len(frame) = 2 * n + 5
       /\ \A k \in 1 .. 2 * n + 3 : frame[k] = body[k]
       /\ WordOf(frame[2 * n + 5], frame[2 * n + 4]) = modbus_crc16(frame, 2 * n + 3)
    <2>1. LET m == Len(body)
          IN  /\ frame \in Seq(Byte) /\ Len(frame) = m + 2
              /\ \A k \in 1 .. m : frame[k] = body[k]
              /\ WordOf(frame[m + 2], frame[m + 1]) = modbus_crc16(frame, m)
        <3>1. Len(body) > 0
            BY <1>1, <1>9
        <3> QED BY <1>7, <1>9, <3>1, WithCrcIs
    <2>2. (2 * n + 3) + 2 = 2 * n + 5 /\ (2 * n + 3) + 1 = 2 * n + 4
        BY <1>1
    <2> QED BY <1>9, <2>1, <2>2
<1>11. frame[1] = Bits(1) /\ frame[2] = FuncReadHolding /\ frame[3] = LowByte(Bits(2 * n))
    BY <1>1, <1>8, <1>9, <1>10
<1>12. Acceptable(frame)
    <2>1. /\ 2 * n + 5 >= ResponseMin
          /\ (2 * n + 5) - 1 = 2 * n + 4 /\ (2 * n + 5) - 2 = 2 * n + 3
        BY <1>1 DEF ResponseMin
    <2> QED BY <1>2, <1>3, <1>10, <1>11, <2>1 DEF Acceptable
<1>13. ASSUME NEW i \in 1 .. n
       PROVE  /\ frame[2 * i + 2] = HighByte(regs[i])
              /\ frame[2 * i + 3] = LowByte(regs[i])
              /\ WordOf(frame[2 * i + 2], frame[2 * i + 3]) = regs[i]
    <2>1. /\ 2 * i + 2 \in 1 .. 2 * n + 3 /\ 2 * i + 2 = (2 * i - 1) + 3
          /\ 2 * i + 3 \in 1 .. 2 * n + 3
        BY <1>1
    <2>2. frame[2 * i + 2] = HighByte(regs[i]) /\ frame[2 * i + 3] = LowByte(regs[i])
        BY <1>6, <1>9, <1>10, <2>1
    <2>3. regs[i] \in Word16
        BY DEF n
    <2> QED BY <2>2, <2>3, PartsOfWord
<1> QED BY <1>2, <1>10, <1>11, <1>12, <1>13 DEF n, frame

(* modbus_parse_response gives back the registers of every response that   *)
(* build_test_response makes, whatever they hold and however many they     *)
(* are, when the caller has room for them (RoundTrips checks five).        *)
THEOREM RoundTrip ==
    ASSUME NEW regs \in Seq(Word16), Len(regs) <= MaxRegisters,
           NEW max_values \in Nat, Len(regs) <= max_values
    PROVE  modbus_parse_response(build_test_response(regs), max_values)
             = [count |-> Len(regs), values |-> regs]
<1> DEFINE frame == build_test_response(regs)
           n == Len(regs)
<1>1. /\ Acceptable(frame) /\ Num[frame[3]] = 2 * n
      /\ \A i \in 1 .. n : WordOf(frame[2 * i + 2], frame[2 * i + 3]) = regs[i]
    BY ResponseIs
<1>2. n \in Nat /\ n <= max_values /\ (2 * n) \div 2 = n
    OBVIOUS
<1>3. regs = [i \in 1 .. n |-> regs[i]]
    OBVIOUS
<1> HIDE DEF n, frame
<1>4. Min({n, max_values}) = n
    <2>1. n \in {n, max_values} /\ \A y \in {n, max_values} : n <= y
        BY <1>2
    <2>2. \A x \in {n, max_values} : (\A y \in {n, max_values} : x <= y) => x = n
        BY <1>2
    <2> QED BY <2>1, <2>2 DEF Min
<1>5. modbus_parse_response(frame, max_values)
        = [count  |-> n,
           values |-> [i \in 1 .. n |-> WordOf(frame[2 * i + 2], frame[2 * i + 3])]]
    BY <1>1, <1>2, <1>4 DEF modbus_parse_response
<1>6. [i \in 1 .. n |-> WordOf(frame[2 * i + 2], frame[2 * i + 3])] = regs
    BY <1>1, <1>3
<1> QED BY <1>5, <1>6 DEF n, frame

-----------------------------------------------------------------------------
(* The CRC as arithmetic.  A word is a polynomial over two elements, its   *)
(* bit 15 the constant term: ^ adds, and a step multiplies by x modulo     *)
(* x^16 + x^15 + x^2 + 1.                                                  *)

Xor(a, b) == ~(a <=> b)

LEMMA SameBits ==
    ASSUME NEW v \in Word16, NEW w \in Word16,
           0 \in v <=> 0 \in w, 1 \in v <=> 1 \in w, 2 \in v <=> 2 \in w,
           3 \in v <=> 3 \in w, 4 \in v <=> 4 \in w, 5 \in v <=> 5 \in w,
           6 \in v <=> 6 \in w, 7 \in v <=> 7 \in w, 8 \in v <=> 8 \in w,
           9 \in v <=> 9 \in w, 10 \in v <=> 10 \in w, 11 \in v <=> 11 \in w,
           12 \in v <=> 12 \in w, 13 \in v <=> 13 \in w, 14 \in v <=> 14 \in w,
           15 \in v <=> 15 \in w
    PROVE  v = w
<1>1. \A i \in 0 .. 15 : i \in v <=> i \in w
    OBVIOUS
<1>2. \A i : (i \in v => i \in 0 .. 15) /\ (i \in w => i \in 0 .. 15)
    BY DEF Word16
<1>3. \A i : i \in v <=> i \in w
    BY <1>1, <1>2
<1> QED BY <1>3

(* The successor of a word, bit by bit. *)
LEMMA StepWord ==
    ASSUME NEW w \in Word16
    PROVE  /\ CrcStep[w] \in Word16
           /\ 15 \in CrcStep[w] <=> 0 \in w
           /\ 14 \in CrcStep[w] <=> 15 \in w
           /\ 13 \in CrcStep[w] <=> Xor(14 \in w, 0 \in w)
           /\ 12 \in CrcStep[w] <=> 13 \in w
           /\ 11 \in CrcStep[w] <=> 12 \in w
           /\ 10 \in CrcStep[w] <=> 11 \in w
           /\ 9 \in CrcStep[w] <=> 10 \in w
           /\ 8 \in CrcStep[w] <=> 9 \in w
           /\ 7 \in CrcStep[w] <=> 8 \in w
           /\ 6 \in CrcStep[w] <=> 7 \in w
           /\ 5 \in CrcStep[w] <=> 6 \in w
           /\ 4 \in CrcStep[w] <=> 5 \in w
           /\ 3 \in CrcStep[w] <=> 4 \in w
           /\ 2 \in CrcStep[w] <=> 3 \in w
           /\ 1 \in CrcStep[w] <=> 2 \in w
           /\ 0 \in CrcStep[w] <=> Xor(1 \in w, 0 \in w)
<1>1. CrcStep[w] \in Word16 /\ (15 \in CrcStep[w] <=> 0 \in w)
    BY StepBits
<1>2. \A j \in 0 .. 14 :
         j \in CrcStep[w] <=> (j + 1 \in w <=> ~(0 \in w /\ j \in CrcPoly))
    BY StepBits
<1>3. \A j \in 1 .. 14 : j # 13 => (j \in CrcStep[w] <=> j + 1 \in w)
    <2>1. \A j \in 1 .. 14 : j # 13 => j \in 0 .. 14 /\ j \notin CrcPoly
        BY DEF CrcPoly
    <2> QED BY <1>2, <2>1
<1>4. /\ 13 \in CrcStep[w] <=> Xor(14 \in w, 0 \in w)
      /\ 0 \in CrcStep[w] <=> Xor(1 \in w, 0 \in w)
    <2>1. 13 \in CrcPoly /\ 0 \in CrcPoly
        BY DEF CrcPoly
    <2> QED BY <1>2, <2>1 DEF Xor
<1> QED BY <1>1, <1>3, <1>4

LEMMA StepLinear ==
    ASSUME NEW v \in Word16, NEW w \in Word16
    PROVE  CrcStep[SymDiff(v, w)] = SymDiff(CrcStep[v], CrcStep[w])
<1>1. SymDiff(v, w) \in Word16 /\ CrcStep[v] \in Word16 /\ CrcStep[w] \in Word16
    BY SymDiffWords, StepBits
<1>2. SymDiff(CrcStep[v], CrcStep[w]) \in Word16 /\ CrcStep[SymDiff(v, w)] \in Word16
    BY <1>1, SymDiffWords, StepBits
<1>3. \A i : i \in SymDiff(v, w) <=> Xor(i \in v, i \in w)
    BY DEF SymDiff, Xor
<1>4. \A i : i \in SymDiff(CrcStep[v], CrcStep[w]) <=> Xor(i \in CrcStep[v], i \in CrcStep[w])
    BY DEF SymDiff, Xor
<1>5. \A j \in 0 .. 14 :
        j \in CrcStep[SymDiff(v, w)] <=> j \in SymDiff(CrcStep[v], CrcStep[w])
    <2> TAKE j \in 0 .. 14
    <2>1. /\ j \in CrcStep[v] <=> (j + 1 \in v <=> ~(0 \in v /\ j \in CrcPoly))
          /\ j \in CrcStep[w] <=> (j + 1 \in w <=> ~(0 \in w /\ j \in CrcPoly))
          /\ j \in CrcStep[SymDiff(v, w)]
               <=> (j + 1 \in SymDiff(v, w) <=> ~(0 \in SymDiff(v, w) /\ j \in CrcPoly))
        BY <1>1, StepBits
    <2> QED BY <1>3, <1>4, <2>1 DEF Xor
<1>6. 15 \in CrcStep[SymDiff(v, w)] <=> 15 \in SymDiff(CrcStep[v], CrcStep[w])
    BY <1>1, <1>3, <1>4, StepBits DEF Xor
<1>7. \A i \in 0 .. 15 :
        i \in CrcStep[SymDiff(v, w)] <=> i \in SymDiff(CrcStep[v], CrcStep[w])
    BY <1>5, <1>6
<1> QED BY <1>2, <1>7, SameBits

(* The square of a word: x^k goes to x^2k.  Bit 15 - k stands for x^k, so  *)
(* that bit m goes to bit 2m - 15, which the modulus folds back in.        *)
Middle(w) == Xor(Xor(Xor(1 \in w, 2 \in w), Xor(3 \in w, 4 \in w)), Xor(5 \in w, 6 \in w))
Square(w) ==
    {j \in 0 .. 15 :
        \/ j = 0 /\ Xor(Middle(w), Xor(0 \in w, 7 \in w))
        \/ j = 1 /\ Xor(1 \in w, 8 \in w)
        \/ j = 2 /\ 1 \in w
        \/ j = 3 /\ Xor(2 \in w, 9 \in w)
        \/ j = 4 /\ 2 \in w
        \/ j = 5 /\ Xor(3 \in w, 10 \in w)
        \/ j = 6 /\ 3 \in w
        \/ j = 7 /\ Xor(4 \in w, 11 \in w)
        \/ j = 8 /\ 4 \in w
        \/ j = 9 /\ Xor(5 \in w, 12 \in w)
        \/ j = 10 /\ 5 \in w
        \/ j = 11 /\ Xor(6 \in w, 13 \in w)
        \/ j = 12 /\ 6 \in w
        \/ j = 13 /\ Xor(14 \in w, Xor(0 \in w, 7 \in w))
        \/ j = 14 /\ Xor(Middle(w), 0 \in w)
        \/ j = 15 /\ Xor(Middle(w), Xor(7 \in w, 15 \in w))}

LEMMA SquareWord ==
    ASSUME NEW w
    PROVE  /\ Square(w) \in Word16
           /\ 0 \in Square(w) <=> Xor(Middle(w), Xor(0 \in w, 7 \in w))
           /\ 1 \in Square(w) <=> Xor(1 \in w, 8 \in w)
           /\ 2 \in Square(w) <=> 1 \in w
           /\ 3 \in Square(w) <=> Xor(2 \in w, 9 \in w)
           /\ 4 \in Square(w) <=> 2 \in w
           /\ 5 \in Square(w) <=> Xor(3 \in w, 10 \in w)
           /\ 6 \in Square(w) <=> 3 \in w
           /\ 7 \in Square(w) <=> Xor(4 \in w, 11 \in w)
           /\ 8 \in Square(w) <=> 4 \in w
           /\ 9 \in Square(w) <=> Xor(5 \in w, 12 \in w)
           /\ 10 \in Square(w) <=> 5 \in w
           /\ 11 \in Square(w) <=> Xor(6 \in w, 13 \in w)
           /\ 12 \in Square(w) <=> 6 \in w
           /\ 13 \in Square(w) <=> Xor(14 \in w, Xor(0 \in w, 7 \in w))
           /\ 14 \in Square(w) <=> Xor(Middle(w), 0 \in w)
           /\ 15 \in Square(w) <=> Xor(Middle(w), Xor(7 \in w, 15 \in w))
<1>1. Square(w) \in Word16
    BY DEF Square, Word16
<1> QED BY <1>1 DEF Square

(* The square of x w is x^2 times the square of w. *)
LEMMA SquareOfStep ==
    ASSUME NEW w \in Word16
    PROVE  Square(CrcStep[w]) = CrcStep[CrcStep[Square(w)]]
<1> DEFINE s == CrcStep[w]
           q == Square(w)
           p == CrcStep[q]
<1>1. q \in Word16 /\ s \in Word16
    BY SquareWord, StepWord
<1>2. p \in Word16
    BY <1>1, StepWord
<1>3. CrcStep[p] \in Word16 /\ Square(s) \in Word16
    BY <1>2, SquareWord, StepWord
<1> QED BY <1>1, <1>2, <1>3, StepWord, SquareWord, SameBits DEF Middle, Xor

-----------------------------------------------------------------------------
(* The powers of x: Power[k] is what k steps make of the word of 1.        *)

Orbit(f, n) == f[0] = {15} /\ \A k \in 1 .. n : f[k] = CrcStep[f[k - 1]]
Power[k \in Nat] == LET f == CHOOSE g : Orbit(g, k) IN f[k]

LEMMA OrbitExists == ASSUME NEW n \in Nat PROVE \E f : Orbit(f, n)
<1> DEFINE Bad == {m \in Nat : ~\E f : Orbit(f, m)}
<1> SUFFICES ASSUME Bad # {} PROVE FALSE
    OBVIOUS
<1>1. PICK m \in Bad : \A k \in Bad : m <= k
    BY LeastNat
<1>2. CASE m = 0
    <2> DEFINE f == [k \in {0} |-> {15}]
    <2>1. Orbit(f, 0)
        BY DEF Orbit
    <2> QED BY <1>1, <1>2, <2>1
<1>3. CASE m # 0
    <2>1. m \in Nat /\ m - 1 \in Nat /\ ~(m <= m - 1)
        BY <1>3
    <2>2. PICK g : Orbit(g, m - 1)
        BY <1>1, <2>1
    <2> DEFINE f == [k \in 0 .. m |-> IF k = m THEN CrcStep[g[m - 1]] ELSE g[k]]
    <2>3. f[0] = {15}
        BY <1>3, <2>1, <2>2 DEF Orbit
    <2>4. ASSUME NEW k \in 1 .. m PROVE f[k] = CrcStep[f[k - 1]]
        <3>1. k - 1 \in 0 .. m /\ k - 1 # m /\ f[k - 1] = g[k - 1]
            BY <2>1
        <3>2. CASE k = m
            BY <3>1, <3>2
        <3>3. CASE k # m
            <4>1. k \in 1 .. m - 1 /\ k \in 0 .. m
                BY <2>1, <3>3
            <4> QED BY <2>2, <3>1, <3>3, <4>1 DEF Orbit
        <3> QED BY <3>2, <3>3
    <2> HIDE DEF f
    <2>5. Orbit(f, m)
        BY <2>3, <2>4 DEF Orbit
    <2> QED BY <1>1, <2>5
<1> QED BY <1>2, <1>3

LEMMA OrbitsAgree ==
    ASSUME NEW n \in Nat, NEW m \in Nat, n <= m,
           NEW f, Orbit(f, n), NEW g, Orbit(g, m)
    PROVE  f[n] = g[n]
<1> DEFINE Bad == {k \in 0 .. n : f[k] # g[k]}
<1> SUFFICES ASSUME Bad # {} PROVE FALSE
    OBVIOUS
<1>1. PICK k \in Bad : \A l \in Bad : k <= l
    <2>1. Bad \subseteq Nat
        OBVIOUS
    <2> HIDE DEF Bad
    <2> QED BY <2>1, LeastNat
<1>2. k # 0
    BY <1>1 DEF Orbit
<1>3. k \in 1 .. n /\ k \in 1 .. m /\ k - 1 \in 0 .. n /\ ~(k <= k - 1)
    BY <1>1, <1>2
<1>4. f[k - 1] = g[k - 1]
    BY <1>1, <1>3
<1> QED BY <1>1, <1>3, <1>4 DEF Orbit

LEMMA PowerIs ==
    /\ Power[0] = {15}
    /\ \A k \in Nat : Power[k + 1] = CrcStep[Power[k]]
    /\ \A k \in Nat : Power[k] \in Word16
<1> DEFINE orbit(n) == CHOOSE g : Orbit(g, n)
<1>1. \A n \in Nat : Orbit(orbit(n), n) /\ Power[n] = orbit(n)[n]
    BY OrbitExists DEF Power
<1> HIDE DEF orbit
<1>2. Power[0] = {15}
    BY <1>1 DEF Orbit
<1>3. ASSUME NEW k \in Nat PROVE Power[k + 1] = CrcStep[Power[k]]
    <2>1. k + 1 \in Nat /\ k <= k + 1 /\ k + 1 \in 1 .. k + 1 /\ (k + 1) - 1 = k
        OBVIOUS
    <2>2. Orbit(orbit(k), k) /\ Orbit(orbit(k + 1), k + 1)
        BY <1>1, <2>1
    <2>3. orbit(k)[k] = orbit(k + 1)[k]
        BY <2>1, <2>2, OrbitsAgree
    <2>4. orbit(k + 1)[k + 1] = CrcStep[orbit(k + 1)[k]]
        BY <2>1, <2>2 DEF Orbit
    <2> QED BY <1>1, <2>1, <2>3, <2>4
<1>4. \A k \in Nat : Power[k] \in Word16
    <2> DEFINE Bad == {k \in Nat : Power[k] \notin Word16}
    <2> SUFFICES ASSUME Bad # {} PROVE FALSE
        OBVIOUS
    <2>1. PICK k \in Bad : \A l \in Bad : k <= l
        BY LeastNat
    <2>2. k # 0
        BY <1>2, <2>1 DEF Word16
    <2>3. k - 1 \in Nat /\ ~(k <= k - 1) /\ (k - 1) + 1 = k
        BY <2>1, <2>2
    <2>4. Power[k - 1] \in Word16 /\ Power[k] = CrcStep[Power[k - 1]]
        BY <1>3, <2>1, <2>3
    <2> QED BY <2>1, <2>4, StepWord
<1> QED BY <1>2, <1>3, <1>4

LEMMA PowerShift ==
    ASSUME NEW a \in Nat, NEW b \in Nat, NEW n \in Nat
    PROVE  Power[a + n] = Power[b + n] <=> Power[a] = Power[b]
<1> DEFINE Same(k) == Power[a + k] = Power[b + k] <=> Power[a] = Power[b]
           Bad == {k \in Nat : ~Same(k)}
<1> SUFFICES ASSUME n \in Bad PROVE FALSE
    <2> HIDE DEF Same
    <2>1. n \notin Bad => Same(n)
        OBVIOUS
    <2> QED BY <2>1 DEF Same
<1>1. PICK k \in Bad : \A l \in Bad : k <= l
    BY LeastNat
<1>2. k # 0
    BY <1>1
<1>3. /\ k - 1 \in Nat /\ ~(k <= k - 1)
      /\ a + (k - 1) \in Nat /\ b + (k - 1) \in Nat
      /\ (a + (k - 1)) + 1 = a + k /\ (b + (k - 1)) + 1 = b + k
    BY <1>1, <1>2
<1> DEFINE v == Power[a + (k - 1)]
           w == Power[b + (k - 1)]
<1>4. v = w <=> Power[a] = Power[b]
    BY <1>1, <1>3
<1>5. /\ Power[a + k] = CrcStep[v] /\ Power[b + k] = CrcStep[w]
      /\ v \in Word16 /\ w \in Word16
    <2>1. \A l \in Nat : Power[l + 1] = CrcStep[Power[l]] /\ Power[l] \in Word16
        BY PowerIs
    <2> QED BY <1>3, <2>1
<1>6. CrcStep[v] = CrcStep[w] <=> v = w
    BY <1>5, StepInjective
<1> QED BY <1>1, <1>4, <1>5, <1>6

LEMMA SquareOfPower ==
    ASSUME NEW n \in Nat
    PROVE  Square(Power[n]) = Power[2 * n]
<1> DEFINE Bad == {k \in Nat : Square(Power[k]) # Power[2 * k]}
<1> SUFFICES ASSUME Bad # {} PROVE FALSE
    OBVIOUS
<1>1. PICK k \in Bad : \A l \in Bad : k <= l
    BY LeastNat
<1>2. k # 0
    <2>1. Square({15}) = {15}
        <3>1. {15} \in Word16 /\ Square({15}) \in Word16
            BY SquareWord DEF Word16
        <3> QED BY <3>1, SquareWord, SameBits DEF Middle, Xor
    <2>2. Square(Power[0]) = Power[2 * 0]
        <3>1. Power[0] = {15} /\ 2 * 0 = 0
            BY PowerIs
        <3> QED BY <2>1, <3>1, Zenon
    <2> QED BY <1>1, <2>2
<1> DEFINE w == Power[k - 1]
<1>3. k - 1 \in Nat /\ ~(k <= k - 1) /\ (k - 1) + 1 = k
    BY <1>1, <1>2
<1>4. w \in Word16 /\ Power[k] = CrcStep[w] /\ Square(w) = Power[2 * (k - 1)]
    <2>1. Power[(k - 1) + 1] = CrcStep[w] /\ w \in Word16
        BY <1>3, PowerIs
    <2> QED BY <1>1, <1>3, <2>1
<1>5. Power[2 * k] = CrcStep[CrcStep[Power[2 * (k - 1)]]]
    <2>1. /\ 2 * (k - 1) \in Nat /\ 2 * (k - 1) + 1 \in Nat
          /\ (2 * (k - 1) + 1) + 1 = 2 * k
        BY <1>3
    <2> QED BY <2>1, PowerIs
<1>6. Square(Power[k]) = Power[2 * k]
    BY <1>4, <1>5, SquareOfStep
<1> QED BY <1>1, <1>6

(* The numbers of steps that bring a word back to itself.                  *)

Period(n) == n \in Nat /\ Power[n] = Power[0]

LEMMA PeriodsAdd ==
    ASSUME NEW n, Period(n), NEW m \in Nat
    PROVE  Period(n + m) <=> Period(m)
<1>1. n \in Nat /\ n + m \in Nat /\ 0 + m = m
    BY DEF Period
<1>2. Power[n] = Power[0]
    BY DEF Period
<1>3. Power[n + m] = Power[0 + m]
    BY <1>1, <1>2, PowerShift
<1> QED BY <1>1, <1>3 DEF Period

LEMMA PeriodsMultiply ==
    ASSUME NEW n, Period(n), NEW k \in Nat
    PROVE  Period(k * n)
<1> DEFINE Bad == {l \in Nat : ~Period(l * n)}
<1> SUFFICES ASSUME Bad # {} PROVE FALSE
    OBVIOUS
<1>1. PICK l \in Bad : \A m \in Bad : l <= m
    BY LeastNat
<1>2. n \in Nat
    BY DEF Period
<1>3. l # 0
    <2>1. 0 * n = 0 /\ Period(0)
        BY <1>2 DEF Period
    <2> QED BY <1>1, <2>1
<1>4. l - 1 \in Nat /\ ~(l <= l - 1) /\ l * n = n + (l - 1) * n /\ (l - 1) * n \in Nat
    BY <1>1, <1>2, <1>3
<1>5. Period((l - 1) * n)
    BY <1>1, <1>4
<1>6. Period(l * n)
    BY <1>4, <1>5, PeriodsAdd
<1> QED BY <1>1, <1>6

Prime(p) == \A a, b \in Nat : p = a * b => a = 1 \/ a = p

(* If m is no period and p times m is one, for a prime p, then p divides   *)
(* every period: the least l with l m a period divides p and is not 1.     *)
LEMMA PrimeDividesPeriods ==
    ASSUME NEW p \in Nat \ {0}, Prime(p),
           NEW m \in Nat, ~Period(m), Period(p * m),
           NEW d \in Nat, Period(d)
    PROVE  \E q \in Nat : d = q * p
<1> DEFINE S == {k \in Nat \ {0} : Period(k * m)}
<1>1. p \in S /\ S \subseteq Nat
    OBVIOUS
<1> HIDE DEF S
<1>2. PICK l \in S : \A k \in S : l <= k
    BY <1>1, LeastNat
<1>3. l \in Nat \ {0} /\ Period(l * m)
    BY <1>2 DEF S
<1>4. ASSUME NEW k \in Nat, Period(k * m)
      PROVE  \E q \in Nat : k = q * l
    <2>1. PICK q, r \in Nat : k = q * l + r /\ r < l
        <3>1. k = (k \div l) * l + (k % l) /\ k \div l \in Nat /\ k % l \in Nat /\ k % l < l
            BY <1>3
        <3> QED BY <3>1
    <2>2. q * (l * m) \in Nat /\ r * m \in Nat /\ k * m = q * (l * m) + r * m
        BY <1>3, <2>1
    <2>3. Period(q * (l * m))
        BY <1>3, PeriodsMultiply
    <2>4. Period(r * m)
        BY <1>4, <2>2, <2>3, PeriodsAdd
    <2>5. r = 0
        BY <1>2, <2>1, <2>4, <1>3 DEF S
    <2> QED BY <1>3, <2>1, <2>5
<1>5. \E q \in Nat : p = q * l
    BY <1>4
<1>6. l # 1
    <2>1. 1 * m = m
        OBVIOUS
    <2> QED BY <1>3, <2>1
<1>7. l = p
    <2>1. PICK q \in Nat : p = q * l
        BY <1>5
    <2>2. p = l * q
        BY <1>3, <2>1
    <2> QED BY <1>3, <1>6, <2>2 DEF Prime
<1>8. Period(d * m)
    <2>1. m * d = d * m
        OBVIOUS
    <2> QED BY <2>1, PeriodsMultiply
<1> QED BY <1>4, <1>7, <1>8

LEMMA SmallPrimes == Prime(7) /\ Prime(31) /\ Prime(151)
<1> SUFFICES ASSUME NEW p \in {7, 31, 151}, NEW a \in Nat, NEW b \in Nat, p = a * b
             PROVE  a = 1 \/ a = p
    BY DEF Prime
<1>1. a \in 1 .. p /\ b \in 1 .. p
    OBVIOUS
<1>2. a <= 12 \/ b <= 12
    <2>1. a \in Nat /\ b \in Nat
        OBVIOUS
    <2>2. ASSUME a >= 13, b >= 13 PROVE a * b >= 13 * 13
        BY <2>1, <2>2
    <2> QED BY <2>1, <2>2
<1>3. \A c \in 2 .. 12, e \in 1 .. p : c * e = p => c = p
    <2> SUFFICES ASSUME NEW c \in 2 .. 12, NEW e \in 1 .. p, c * e = p PROVE c = p
        OBVIOUS
    <2>1. \/ c = 2 \/ c = 3 \/ c = 4 \/ c = 5 \/ c = 6 \/ c = 7
          \/ c = 8 \/ c = 9 \/ c = 10 \/ c = 11 \/ c = 12
        OBVIOUS
    <2> QED BY <2>1
<1>4. CASE a <= 12
    <2>1. a = 1 \/ a \in 2 .. 12
        BY <1>1, <1>4
    <2> QED BY <1>1, <1>3, <2>1
<1>5. CASE b <= 12
    <2>1. b = 1 \/ b \in 2 .. 12
        BY <1>1, <1>5
    <2>2. b * a = p
        OBVIOUS
    <2>3. b = 1 \/ b = p
        BY <1>1, <1>3, <2>1, <2>2
    <2>4. b = 1 => a = p
        OBVIOUS
    <2>5. b = p => a = 1
        BY <1>1
    <2> QED BY <2>3, <2>4, <2>5
<1> QED BY <1>2, <1>4, <1>5

LEMMA SmallPowers == \A k \in 0 .. 15 : Power[k] = {15 - k}
<1> DEFINE Bad == {k \in 0 .. 15 : Power[k] # {15 - k}}
<1> SUFFICES ASSUME Bad # {} PROVE FALSE
    OBVIOUS
<1>1. PICK k \in Bad : \A l \in Bad : k <= l
    <2>1. Bad \subseteq Nat
        OBVIOUS
    <2> HIDE DEF Bad
    <2> QED BY <2>1, LeastNat
<1>2. k # 0
    BY <1>1, PowerIs
<1>3. /\ k - 1 \in Nat /\ k - 1 \in 0 .. 14 /\ ~(k <= k - 1)
      /\ (k - 1) + 1 = k /\ 15 - (k - 1) = 16 - k
    BY <1>1, <1>2
<1>4. Power[k - 1] = {16 - k} /\ Power[k] = CrcStep[Power[k - 1]]
    BY <1>1, <1>3, PowerIs
<1>5. CrcStep[{16 - k}] = {15 - k}
    <2>1. 16 - k \in 1 .. 15 /\ 15 - k = (16 - k) - 1
        BY <1>1, <1>2
    <2>2. {16 - k} \in Word16 /\ 0 \notin {16 - k} /\ {16 - k} \ {0} = {16 - k}
        BY <2>1 DEF Word16
    <2>3. {i - 1 : i \in {16 - k}} = {15 - k}
        BY <2>1
    <2> QED BY <2>2, <2>3 DEF CrcStep
<1> QED BY <1>1, <1>4, <1>5

Reaches(n, w) == n \in Nat /\ Power[n] = w

LEMMA Doubled ==
    ASSUME NEW n, NEW v, Reaches(n, v), NEW w, Square(v) = w
    PROVE  Reaches(2 * n, w)
    BY SquareOfPower DEF Reaches

LEMMA Stepped ==
    ASSUME NEW n, NEW v, Reaches(n, v), NEW w, CrcStep[v] = w
    PROVE  Reaches(n + 1, w)
    BY PowerIs DEF Reaches

(* 2^15 - 1 steps are a period: fifteen squares of x give x again.         *)
LEMMA WholePeriod == Period(32767)
<1>1. Reaches(8, {7})
    BY SmallPowers DEF Reaches
<1>2. Reaches(16, {0, 13, 15})
    <2>1. Square({7}) = {0, 13, 15}
        BY SquareWord, SameBits DEF Middle, Xor, Word16
    <2> QED BY <1>1, <2>1, Doubled
<1>3. Reaches(32, {0, 11, 13, 14, 15})
    <2>1. Square({0, 13, 15}) = {0, 11, 13, 14, 15}
        BY SquareWord, SameBits DEF Middle, Xor, Word16
    <2> QED BY <1>2, <2>1, Doubled
<1>4. Reaches(64, {0, 7, 11, 14, 15})
    <2>1. Square({0, 11, 13, 14, 15}) = {0, 7, 11, 14, 15}
        BY SquareWord, SameBits DEF Middle, Xor, Word16
    <2> QED BY <1>3, <2>1, Doubled
<1>5. Reaches(128, {7, 13, 14})
    <2>1. Square({0, 7, 11, 14, 15}) = {7, 13, 14}
        BY SquareWord, SameBits DEF Middle, Xor, Word16
    <2> QED BY <1>4, <2>1, Doubled
<1>6. Reaches(256, {0, 11, 15})
    <2>1. Square({7, 13, 14}) = {0, 11, 15}
        BY SquareWord, SameBits DEF Middle, Xor, Word16
    <2> QED BY <1>5, <2>1, Doubled
<1>7. Reaches(512, {0, 7, 13, 14, 15})
    <2>1. Square({0, 11, 15}) = {0, 7, 13, 14, 15}
        BY SquareWord, SameBits DEF Middle, Xor, Word16
    <2> QED BY <1>6, <2>1, Doubled
<1>8. Reaches(1024, {11, 13, 14})
    <2>1. Square({0, 7, 13, 14, 15}) = {11, 13, 14}
        BY SquareWord, SameBits DEF Middle, Xor, Word16
    <2> QED BY <1>7, <2>1, Doubled
<1>9. Reaches(2048, {7, 11, 13})
    <2>1. Square({11, 13, 14}) = {7, 11, 13}
        BY SquareWord, SameBits DEF Middle, Xor, Word16
    <2> QED BY <1>8, <2>1, Doubled
<1>10. Reaches(4096, {0, 7, 11, 13, 15})
    <2>1. Square({7, 11, 13}) = {0, 7, 11, 13, 15}
        BY SquareWord, SameBits DEF Middle, Xor, Word16
    <2> QED BY <1>9, <2>1, Doubled
<1>11. Reaches(8192, {7, 11, 14})
    <2>1. Square({0, 7, 11, 13, 15}) = {7, 11, 14}
        BY SquareWord, SameBits DEF Middle, Xor, Word16
    <2> QED BY <1>10, <2>1, Doubled
<1>12. Reaches(16384, {0, 7, 15})
    <2>1. Square({7, 11, 14}) = {0, 7, 15}
        BY SquareWord, SameBits DEF Middle, Xor, Word16
    <2> QED BY <1>11, <2>1, Doubled
<1>13. Reaches(32768, {14})
    <2>1. Square({0, 7, 15}) = {14}
        BY SquareWord, SameBits DEF Middle, Xor, Word16
    <2> QED BY <1>12, <2>1, Doubled
<1> QED
    <2>1. Power[32768] = {14} /\ 32767 + 1 = 32768
        BY <1>13 DEF Reaches
    <2>2. Power[0] = {15} /\ Power[32767 + 1] = CrcStep[Power[32767]] /\ Power[32767] \in Word16
        BY PowerIs
    <2>3. CrcStep[{15}] = {14} /\ {15} \in Word16
        BY StepWord, SameBits DEF Xor, Word16
    <2> QED BY <2>1, <2>2, <2>3, StepInjective DEF Period

(* A 151st, a 31st and a seventh of it are none. *)
LEMMA NoPeriod217 == ~Period(217)
<1>1. Reaches(13, {2})
    BY SmallPowers DEF Reaches
<1>2. Reaches(26, {0, 3, 4, 14, 15})
    <2>1. Square({2}) = {0, 3, 4, 14, 15}
        BY SquareWord, SameBits DEF Middle, Xor, Word16
    <2> QED BY <1>1, <2>1, Doubled
<1>3. Reaches(27, {0, 2, 3, 14, 15})
    <2>1. CrcStep[{0, 3, 4, 14, 15}] = {0, 2, 3, 14, 15}
        BY StepWord, SameBits DEF Xor, Word16
    <2> QED BY <1>2, <2>1, Stepped
<1>4. Reaches(54, {0, 3, 4, 5, 6, 14, 15})
    <2>1. Square({0, 2, 3, 14, 15}) = {0, 3, 4, 5, 6, 14, 15}
        BY SquareWord, SameBits DEF Middle, Xor, Word16
    <2> QED BY <1>3, <2>1, Doubled
<1>5. Reaches(108, {0, 5, 6, 7, 8, 9, 10, 11, 12, 14, 15})
    <2>1. Square({0, 3, 4, 5, 6, 14, 15}) = {0, 5, 6, 7, 8, 9, 10, 11, 12, 14, 15}
        BY SquareWord, SameBits DEF Middle, Xor, Word16
    <2> QED BY <1>4, <2>1, Doubled
<1>6. Reaches(216, {1, 3, 5, 7, 10, 11, 12, 13, 14})
    <2>1. Square({0, 5, 6, 7, 8, 9, 10, 11, 12, 14, 15}) = {1, 3, 5, 7, 10, 11, 12, 13, 14}
        BY SquareWord, SameBits DEF Middle, Xor, Word16
    <2> QED BY <1>5, <2>1, Doubled
<1>7. Reaches(217, {0, 2, 4, 6, 9, 10, 11, 12, 13})
    <2>1. CrcStep[{1, 3, 5, 7, 10, 11, 12, 13, 14}] = {0, 2, 4, 6, 9, 10, 11, 12, 13}
        BY StepWord, SameBits DEF Xor, Word16
    <2> QED BY <1>6, <2>1, Stepped
<1> QED BY <1>7, PowerIs DEF Period, Reaches

LEMMA NoPeriod1057 == ~Period(1057)
<1>1. Reaches(8, {7})
    BY SmallPowers DEF Reaches
<1>2. Reaches(16, {0, 13, 15})
    <2>1. Square({7}) = {0, 13, 15}
        BY SquareWord, SameBits DEF Middle, Xor, Word16
    <2> QED BY <1>1, <2>1, Doubled
<1>3. Reaches(32, {0, 11, 13, 14, 15})
    <2>1. Square({0, 13, 15}) = {0, 11, 13, 14, 15}
        BY SquareWord, SameBits DEF Middle, Xor, Word16
    <2> QED BY <1>2, <2>1, Doubled
<1>4. Reaches(33, {0, 10, 12, 14, 15})
    <2>1. CrcStep[{0, 11, 13, 14, 15}] = {0, 10, 12, 14, 15}
        BY StepWord, SameBits DEF Xor, Word16
    <2> QED BY <1>3, <2>1, Stepped
<1>5. Reaches(66, {0, 5, 9, 14, 15})
    <2>1. Square({0, 10, 12, 14, 15}) = {0, 5, 9, 14, 15}
        BY SquareWord, SameBits DEF Middle, Xor, Word16
    <2> QED BY <1>4, <2>1, Doubled
<1>6. Reaches(132, {3, 9, 10})
    <2>1. Square({0, 5, 9, 14, 15}) = {3, 9, 10}
        BY SquareWord, SameBits DEF Middle, Xor, Word16
    <2> QED BY <1>5, <2>1, Doubled
<1>7. Reaches(264, {0, 3, 6, 14, 15})
    <2>1. Square({3, 9, 10}) = {0, 3, 6, 14, 15}
        BY SquareWord, SameBits DEF Middle, Xor, Word16
    <2> QED BY <1>6, <2>1, Doubled
<1>8. Reaches(528, {0, 5, 6, 11, 12, 14, 15})
    <2>1. Square({0, 3, 6, 14, 15}) = {0, 5, 6, 11, 12, 14, 15}
        BY SquareWord, SameBits DEF Middle, Xor, Word16
    <2> QED BY <1>7, <2>1, Doubled
<1>9. Reaches(1056, {0, 7, 10, 11, 12, 14, 15})
    <2>1. Square({0, 5, 6, 11, 12, 14, 15}) = {0, 7, 10, 11, 12, 14, 15}
        BY SquareWord, SameBits DEF Middle, Xor, Word16
    <2> QED BY <1>8, <2>1, Doubled
<1>10. Reaches(1057, {0, 6, 9, 10, 11, 14, 15})
    <2>1. CrcStep[{0, 7, 10, 11, 12, 14, 15}] = {0, 6, 9, 10, 11, 14, 15}
        BY StepWord, SameBits DEF Xor, Word16
    <2> QED BY <1>9, <2>1, Stepped
<1> QED BY <1>10, PowerIs DEF Period, Reaches

LEMMA NoPeriod4681 == ~Period(4681)
<1>1. Reaches(9, {6})
    BY SmallPowers DEF Reaches
<1>2. Reaches(18, {0, 11, 12, 14, 15})
    <2>1. Square({6}) = {0, 11, 12, 14, 15}
        BY SquareWord, SameBits DEF Middle, Xor, Word16
    <2> QED BY <1>1, <2>1, Doubled
<1>3. Reaches(36, {0, 7, 9, 14, 15})
    <2>1. Square({0, 11, 12, 14, 15}) = {0, 7, 9, 14, 15}
        BY SquareWord, SameBits DEF Middle, Xor, Word16
    <2> QED BY <1>2, <2>1, Doubled
<1>4. Reaches(72, {3, 13, 14})
    <2>1. Square({0, 7, 9, 14, 15}) = {3, 13, 14}
        BY SquareWord, SameBits DEF Middle, Xor, Word16
    <2> QED BY <1>3, <2>1, Doubled
<1>5. Reaches(73, {2, 12, 13})
    <2>1. CrcStep[{3, 13, 14}] = {2, 12, 13}
        BY StepWord, SameBits DEF Xor, Word16
    <2> QED BY <1>4, <2>1, Stepped
<1>6. Reaches(146, {0, 3, 4, 9, 11, 14, 15})
    <2>1. Square({2, 12, 13}) = {0, 3, 4, 9, 11, 14, 15}
        BY SquareWord, SameBits DEF Middle, Xor, Word16
    <2> QED BY <1>5, <2>1, Doubled
<1>7. Reaches(292, {0, 3, 5, 6, 8, 14, 15})
    <2>1. Square({0, 3, 4, 9, 11, 14, 15}) = {0, 3, 5, 6, 8, 14, 15}
        BY SquareWord, SameBits DEF Middle, Xor, Word16
    <2> QED BY <1>6, <2>1, Doubled
<1>8. Reaches(584, {1, 5, 6, 9, 10, 11, 12})
    <2>1. Square({0, 3, 5, 6, 8, 14, 15}) = {1, 5, 6, 9, 10, 11, 12}
        BY SquareWord, SameBits DEF Middle, Xor, Word16
    <2> QED BY <1>7, <2>1, Doubled
<1>9. Reaches(585, {0, 4, 5, 8, 9, 10, 11})
    <2>1. CrcStep[{1, 5, 6, 9, 10, 11, 12}] = {0, 4, 5, 8, 9, 10, 11}
        BY StepWord, SameBits DEF Xor, Word16
    <2> QED BY <1>8, <2>1, Stepped
<1>10. Reaches(1170, {0, 1, 3, 5, 8, 9, 10, 13, 14})
    <2>1. Square({0, 4, 5, 8, 9, 10, 11}) = {0, 1, 3, 5, 8, 9, 10, 13, 14}
        BY SquareWord, SameBits DEF Middle, Xor, Word16
    <2> QED BY <1>9, <2>1, Doubled
<1>11. Reaches(2340, {2, 3, 6, 9, 10, 11, 15})
    <2>1. Square({0, 1, 3, 5, 8, 9, 10, 13, 14}) = {2, 3, 6, 9, 10, 11, 15}
        BY SquareWord, SameBits DEF Middle, Xor, Word16
    <2> QED BY <1>10, <2>1, Doubled
<1>12. Reaches(4680, {0, 4, 6, 7, 11, 12, 14})
    <2>1. Square({2, 3, 6, 9, 10, 11, 15}) = {0, 4, 6, 7, 11, 12, 14}
        BY SquareWord, SameBits DEF Middle, Xor, Word16
    <2> QED BY <1>11, <2>1, Doubled
<1>13. Reaches(4681, {0, 3, 5, 6, 10, 11, 15})
    <2>1. CrcStep[{0, 4, 6, 7, 11, 12, 14}] = {0, 3, 5, 6, 10, 11, 15}
        BY StepWord, SameBits DEF Xor, Word16
    <2> QED BY <1>12, <2>1, Stepped
<1> QED BY <1>13, PowerIs DEF Period, Reaches

(* x has the order 2^15 - 1: no fewer steps bring a word back to itself.   *)
LEMMA NoShortPeriod ==
    ASSUME NEW n \in Nat, Period(n), n # 0
    PROVE  n >= 32767
<1>1. Prime(7) /\ Prime(31) /\ Prime(151)
    BY SmallPrimes
<1>2. 7 * 4681 = 32767 /\ 31 * 1057 = 32767 /\ 151 * 217 = 32767
    OBVIOUS
<1>3. \E q \in Nat : n = q * 7
    BY <1>1, <1>2, WholePeriod, NoPeriod4681, PrimeDividesPeriods
<1>4. \E q \in Nat : n = q * 31
    BY <1>1, <1>2, WholePeriod, NoPeriod1057, PrimeDividesPeriods
<1>5. \E q \in Nat : n = q * 151
    BY <1>1, <1>2, WholePeriod, NoPeriod217, PrimeDividesPeriods
<1> QED BY <1>3, <1>4, <1>5

-----------------------------------------------------------------------------
(* How the words of two buffers differ.                                    *)

EightSteps(w) ==
    CrcStep[CrcStep[CrcStep[CrcStep[CrcStep[CrcStep[CrcStep[CrcStep[w]]]]]]]]
Parity(w) == Xor(Middle(w), Xor(0 \in w, 7 \in w))  \* of the low byte

TwoSteps(w) == CrcStep[CrcStep[w]]

LEMMA TwoStepsWord ==
    ASSUME NEW w \in Word16
    PROVE  /\ TwoSteps(w) \in Word16
           /\ 15 \in TwoSteps(w) <=> Xor(1 \in w, 0 \in w)
           /\ 14 \in TwoSteps(w) <=> 0 \in w
           /\ 13 \in TwoSteps(w) <=> Xor(15 \in w, Xor(1 \in w, 0 \in w))
           /\ 12 \in TwoSteps(w) <=> Xor(14 \in w, 0 \in w)
           /\ 11 \in TwoSteps(w) <=> 13 \in w
           /\ 10 \in TwoSteps(w) <=> 12 \in w
           /\ 9 \in TwoSteps(w) <=> 11 \in w
           /\ 8 \in TwoSteps(w) <=> 10 \in w
           /\ 7 \in TwoSteps(w) <=> 9 \in w
           /\ 6 \in TwoSteps(w) <=> 8 \in w
           /\ 5 \in TwoSteps(w) <=> 7 \in w
           /\ 4 \in TwoSteps(w) <=> 6 \in w
           /\ 3 \in TwoSteps(w) <=> 5 \in w
           /\ 2 \in TwoSteps(w) <=> 4 \in w
           /\ 1 \in TwoSteps(w) <=> 3 \in w
           /\ 0 \in TwoSteps(w) <=> Xor(2 \in w, Xor(1 \in w, 0 \in w))
<1>1. CrcStep[w] \in Word16
    BY StepWord
<1> QED BY <1>1, StepWord DEF Xor, TwoSteps

LEMMA EightStepsWord ==
    ASSUME NEW w \in Word16
    PROVE  /\ EightSteps(w) \in Word16
           /\ 15 \in EightSteps(w) <=> Parity(w)
           /\ 14 \in EightSteps(w) <=> Xor(Parity(w), 7 \in w)
           /\ 13 \in EightSteps(w) <=> Xor(7 \in w, 6 \in w)
           /\ 12 \in EightSteps(w) <=> Xor(6 \in w, 5 \in w)
           /\ 11 \in EightSteps(w) <=> Xor(5 \in w, 4 \in w)
           /\ 10 \in EightSteps(w) <=> Xor(4 \in w, 3 \in w)
           /\ 9 \in EightSteps(w) <=> Xor(3 \in w, 2 \in w)
           /\ 8 \in EightSteps(w) <=> Xor(2 \in w, 1 \in w)
           /\ 7 \in EightSteps(w) <=> Xor(15 \in w, Xor(1 \in w, 0 \in w))
           /\ 6 \in EightSteps(w) <=> Xor(14 \in w, 0 \in w)
           /\ 5 \in EightSteps(w) <=> 13 \in w
           /\ 4 \in EightSteps(w) <=> 12 \in w
           /\ 3 \in EightSteps(w) <=> 11 \in w
           /\ 2 \in EightSteps(w) <=> 10 \in w
           /\ 1 \in EightSteps(w) <=> 9 \in w
           /\ 0 \in EightSteps(w) <=> Xor(8 \in w, Parity(w))
<1> DEFINE w2 == TwoSteps(w)
           w4 == TwoSteps(w2)
           w6 == TwoSteps(w4)
           w8 == TwoSteps(w6)
<1>1. w2 \in Word16 /\ w4 \in Word16 /\ w6 \in Word16 /\ w8 \in Word16
    BY TwoStepsWord
<1>2. w8 = EightSteps(w)
    BY DEF EightSteps, TwoSteps
<1> QED BY <1>1, <1>2, TwoStepsWord DEF Parity, Middle, Xor

LEMMA EightStepsLinear ==
    ASSUME NEW v \in Word16, NEW w \in Word16
    PROVE  EightSteps(SymDiff(v, w)) = SymDiff(EightSteps(v), EightSteps(w))
<1>1. \A x \in Word16 : TwoSteps(x) \in Word16
    BY TwoStepsWord
<1>2. \A x, y \in Word16 : TwoSteps(SymDiff(x, y)) = SymDiff(TwoSteps(x), TwoSteps(y))
    BY StepLinear, StepWord DEF TwoSteps
<1>3. \A x : EightSteps(x) = TwoSteps(TwoSteps(TwoSteps(TwoSteps(x))))
    BY DEF EightSteps, TwoSteps
<1> QED BY <1>1, <1>2, <1>3

LEMMA EightStepsOfNothing ==
    ASSUME NEW w \in Word16
    PROVE  EightSteps(w) = {} <=> w = {}
<1>1. {} \in Word16
    BY DEF Word16
<1>2. EightSteps({}) = {}
    BY <1>1, EightStepsWord, SameBits DEF Parity, Middle, Xor
<1>3. EightSteps(w) = EightSteps({}) => w = {}
    BY <1>1, EightStepsInjective DEF EightSteps
<1> QED BY <1>2, <1>3

LEMMA EightStepsOfPower ==
    ASSUME NEW n \in Nat
    PROVE  EightSteps(Power[n]) = Power[n + 8]
<1>1. \A k \in Nat : Power[k + 2] = TwoSteps(Power[k])
    <2> TAKE k \in Nat
    <2>1. k + 1 \in Nat /\ (k + 1) + 1 = k + 2
        OBVIOUS
    <2> QED BY <2>1, PowerIs DEF TwoSteps
<1>2. /\ n + 2 \in Nat /\ (n + 2) + 2 = n + 4
      /\ n + 4 \in Nat /\ (n + 4) + 2 = n + 6
      /\ n + 6 \in Nat /\ (n + 6) + 2 = n + 8
    OBVIOUS
<1>3. Power[n + 8] = TwoSteps(TwoSteps(TwoSteps(TwoSteps(Power[n]))))
    BY <1>1, <1>2
<1> QED BY <1>3 DEF EightSteps, TwoSteps

(* Difference of the words of a and b after k of len bytes. *)
Apart(a, b, len, k) == SymDiff(CrcAfter(a, len)[k], CrcAfter(b, len)[k])

LEMMA ApartIs ==
    ASSUME NEW a, NEW b, NEW len \in Nat, Bytes(a, len), Bytes(b, len)
    PROVE  /\ Apart(a, b, len, 0) = {}
           /\ \A k \in 0 .. len : Apart(a, b, len, k) \in Word16
           /\ \A k \in 1 .. len :
                 Apart(a, b, len, k)
                   = EightSteps(SymDiff(Apart(a, b, len, k - 1), SymDiff(a[k], b[k])))
<1> DEFINE crca == CrcAfter(a, len)
           crcb == CrcAfter(b, len)
<1>1. /\ crca[0] = 0 .. 15 /\ crcb[0] = 0 .. 15
      /\ \A k \in 1 .. len : /\ crca[k] = CrcByte[<<crca[k - 1], a[k]>>]
                             /\ crcb[k] = CrcByte[<<crcb[k - 1], b[k]>>]
    BY CrcTurn
<1>2. \A k \in 0 .. len : crca[k] \in Word16 /\ crcb[k] \in Word16
    BY CrcAfterType
<1>3. \A k : Apart(a, b, len, k) = SymDiff(crca[k], crcb[k])
    BY DEF Apart
<1> HIDE DEF crca, crcb
<1>4. Apart(a, b, len, 0) = {}
    BY <1>1, <1>3 DEF SymDiff
<1>5. \A k \in 0 .. len : Apart(a, b, len, k) \in Word16
    BY <1>2, <1>3, SymDiffWords
<1>6. ASSUME NEW k \in 1 .. len
      PROVE  Apart(a, b, len, k)
               = EightSteps(SymDiff(Apart(a, b, len, k - 1), SymDiff(a[k], b[k])))
    <2> DEFINE v == crca[k - 1]
               w == crcb[k - 1]
    <2>1. v \in Word16 /\ w \in Word16 /\ a[k] \in Byte /\ b[k] \in Byte
        BY <1>2 DEF Bytes
    <2>2. /\ crca[k] = EightSteps(SymDiff(v, a[k]))
          /\ crcb[k] = EightSteps(SymDiff(w, b[k]))
        BY <1>1, <2>1 DEF CrcByte, EightSteps
    <2>3. SymDiff(v, a[k]) \in Word16 /\ SymDiff(w, b[k]) \in Word16
        BY <2>1, SymDiffWords, ByteIsWord
    <2>4. SymDiff(SymDiff(v, a[k]), SymDiff(w, b[k]))
            = SymDiff(SymDiff(v, w), SymDiff(a[k], b[k]))
        BY DEF SymDiff
    <2>5. SymDiff(crca[k], crcb[k]) = EightSteps(SymDiff(SymDiff(v, w), SymDiff(a[k], b[k])))
        BY <2>2, <2>3, <2>4, EightStepsLinear
    <2> QED BY <1>3, <2>5
<1> QED BY <1>4, <1>5, <1>6

LEMMA ApartTurn ==
    ASSUME NEW a, NEW b, NEW len \in Nat, Bytes(a, len), Bytes(b, len),
           NEW k \in 1 .. len
    PROVE  /\ Apart(a, b, len, k - 1) \in Word16
           /\ Apart(a, b, len, k)
                = EightSteps(SymDiff(Apart(a, b, len, k - 1), SymDiff(a[k], b[k])))
<1>1. k - 1 \in 0 .. len
    OBVIOUS
<1>2. Apart(a, b, len, k - 1) \in Word16
    BY <1>1, ApartIs
<1>3. Apart(a, b, len, k)
        = EightSteps(SymDiff(Apart(a, b, len, k - 1), SymDiff(a[k], b[k])))
    BY ApartIs
<1> QED BY <1>2, <1>3

LEMMA ApartBefore ==
    ASSUME NEW a, NEW b, NEW len \in Nat, NEW i \in 0 .. len,
           \A k \in 1 .. i : a[k] = b[k]
    PROVE  Apart(a, b, len, i) = {}
<1>1. i <= len
    OBVIOUS
<1>2. CrcAfter(a, len)[i] = CrcAfter(b, len)[i]
    BY <1>1, CrcOfSame
<1> QED BY <1>2 DEF Apart, SymDiff

LEMMA ApartAfter ==
    ASSUME NEW a, NEW b, NEW len \in Nat, Bytes(a, len), Bytes(b, len),
           NEW i \in 0 .. len, \A k \in i + 1 .. len : a[k] = b[k],
           Apart(a, b, len, len) = {}
    PROVE  Apart(a, b, len, i) = {}
<1> DEFINE S == {k \in i .. len : Apart(a, b, len, k) = {}}
<1>1. len \in S /\ S \subseteq Nat
    OBVIOUS
<1>2. PICK k \in S : \A l \in S : k <= l
    BY <1>1, LeastNat
<1>3. CASE k = i
    BY <1>2, <1>3
<1>4. CASE k # i
    <2>1. /\ k \in 1 .. len /\ k \in i + 1 .. len
          /\ k - 1 \in 0 .. len /\ k - 1 \in i .. len /\ ~(k <= k - 1)
        BY <1>2, <1>4
    <2>2. SymDiff(a[k], b[k]) = {}
        BY <2>1 DEF SymDiff
    <2> DEFINE w == Apart(a, b, len, k - 1)
    <2>3. w \in Word16 /\ Apart(a, b, len, k) = EightSteps(SymDiff(w, {}))
        <3>1. /\ w \in Word16
              /\ Apart(a, b, len, k) = EightSteps(SymDiff(w, SymDiff(a[k], b[k])))
            BY <2>1, ApartTurn
        <3> QED BY <2>2, <3>1
    <2>4. SymDiff(w, {}) = w
        BY DEF SymDiff
    <2>5. w = {}
        BY <1>2, <2>3, <2>4, EightStepsOfNothing
    <2> QED BY <1>2, <2>1, <2>5
<1> QED BY <1>3, <1>4

LEMMA EightStepsShift ==
    ASSUME NEW w \in Word16, w \cap (0 .. 7) = {}
    PROVE  EightSteps(w) = HighByte(w)
<1>1. HighByte(w) \in Word16
    BY PartsOfWord, ByteIsWord
<1>2. \A i : i \in HighByte(w) <=> i \in 0 .. 7 /\ i + 8 \in w
    BY DEF Word16, HighByte
<1>3. \A i \in 0 .. 7 : i \notin w
    OBVIOUS
<1> QED BY <1>1, <1>2, <1>3, EightStepsWord, SameBits DEF Parity, Middle, Xor

(* The CRC over a frame and its own CRC is zero. *)
LEMMA Residue ==
    ASSUME NEW buf \in Seq(Byte), Acceptable(buf)
    PROVE  CrcAfter(buf, Len(buf))[Len(buf)] = {}
<1> DEFINE len == Len(buf)
           crc == CrcAfter(buf, len)
<1>1. /\ len \in Nat /\ len >= 5 /\ Bytes(buf, len) /\ Bytes(buf, len - 2)
      /\ WordOf(buf[len], buf[len - 1]) = modbus_crc16(buf, len - 2)
    BY DEF Acceptable, ResponseMin, Bytes
<1>2. /\ len - 2 \in Nat \ {0} /\ len - 2 \in 0 .. len - 2 /\ len - 2 <= len
      /\ len - 1 \in 1 .. len /\ len \in 1 .. len /\ (len - 1) - 1 = len - 2
    BY <1>1
<1>3. crc[len - 2] = modbus_crc16(buf, len - 2) /\ crc[len - 2] \in Word16
    <2>1. modbus_crc16(buf, len - 2) = CrcAfter(buf, len - 2)[len - 2]
        BY <1>1, <1>2, CrcType
    <2> DEFINE m == len - 2
    <2>2. m \in Nat /\ m \in 0 .. m /\ m <= len /\ len \in Nat /\ m \in 0 .. len
        BY <1>1, <1>2
    <2> HIDE DEF m
    <2>3. CrcAfter(buf, m)[m] = CrcAfter(buf, len)[m]
        BY <2>2, CrcOfSame
    <2>4. CrcAfter(buf, len)[m] \in Word16
        BY <1>1, <2>2, CrcAfterType
    <2> QED BY <2>1, <2>3, <2>4 DEF m
<1>4. /\ crc[len - 1] = CrcByte[<<crc[len - 2], buf[len - 1]>>]
      /\ crc[len] = CrcByte[<<crc[len - 1], buf[len]>>]
    BY <1>1, <1>2, CrcTurn
<1> DEFINE w == crc[len - 2]
           low == buf[len - 1]
           high == buf[len]
<1>5. w \in Word16 /\ low \in Byte /\ high \in Byte /\ w = WordOf(high, low)
    BY <1>1, <1>2, <1>3 DEF Bytes
<1>6. low = LowByte(w) /\ high = HighByte(w)
    BY <1>5, WordOfParts
<1> HIDE DEF crc, low, high, w
<1>7. CrcByte[<<w, low>>] = high
    <2> DEFINE u == SymDiff(w, low)
    <2>1. \A i : i \in u <=> i \in w /\ i \notin 0 .. 7
        BY <1>6 DEF SymDiff, LowByte
    <2>2. u \in Word16 /\ u \cap (0 .. 7) = {} /\ HighByte(u) = HighByte(w)
        BY <1>5, <2>1 DEF Word16, HighByte
    <2>3. CrcByte[<<w, low>>] = EightSteps(u)
        BY <1>5 DEF CrcByte, EightSteps
    <2> QED BY <1>6, <2>2, <2>3, EightStepsShift
<1>8. CrcByte[<<high, high>>] = {}
    <2>1. SymDiff(high, high) = {} /\ {} \in Word16 /\ high \in Word16
        BY <1>5, ByteIsWord DEF SymDiff, Word16
    <2>2. CrcByte[<<high, high>>] = EightSteps({})
        BY <1>5, <2>1 DEF CrcByte, EightSteps
    <2> QED BY <2>1, <2>2, EightStepsOfNothing
<1> QED BY <1>4, <1>7, <1>8 DEF crc, w, low, high

LEMMA FramesApart ==
    ASSUME NEW a \in Seq(Byte), NEW b \in Seq(Byte), Acceptable(a), Acceptable(b),
           Len(b) = Len(a)
    PROVE  Apart(a, b, Len(a), Len(a)) = {}
    BY Residue DEF Apart, SymDiff

(* Two buffers that end with the same word and differ at i and j only: the *)
(* first difference, carried on, is the second.                            *)
LEMMA TwoBytesApart ==
    ASSUME NEW a, NEW b, NEW len \in Nat, Bytes(a, len), Bytes(b, len),
           NEW i \in 1 .. len, NEW j \in 1 .. len, i < j,
           \A k \in 1 .. len : k # i /\ k # j => a[k] = b[k],
           Apart(a, b, len, len) = {}
    PROVE  /\ Apart(a, b, len, i) = EightSteps(SymDiff(a[i], b[i]))
           /\ Apart(a, b, len, j - 1) = SymDiff(a[j], b[j])
<1>1. Apart(a, b, len, i) = EightSteps(SymDiff(a[i], b[i]))
    <2>1. i - 1 \in 0 .. len /\ \A k \in 1 .. i - 1 : a[k] = b[k]
        OBVIOUS
    <2>2. Apart(a, b, len, i - 1) = {}
        BY <2>1, ApartBefore
    <2>3. Apart(a, b, len, i)
            = EightSteps(SymDiff(Apart(a, b, len, i - 1), SymDiff(a[i], b[i])))
        BY ApartTurn
    <2>4. SymDiff({}, SymDiff(a[i], b[i])) = SymDiff(a[i], b[i])
        BY DEF SymDiff
    <2> QED BY <2>2, <2>3, <2>4
<1>2. Apart(a, b, len, j - 1) = SymDiff(a[j], b[j])
    <2> DEFINE w == Apart(a, b, len, j - 1)
               e == SymDiff(a[j], b[j])
    <2>1. j \in 0 .. len /\ \A k \in j + 1 .. len : a[k] = b[k]
        OBVIOUS
    <2>2. Apart(a, b, len, j) = {}
        BY <2>1, ApartAfter
    <2>3. w \in Word16 /\ EightSteps(SymDiff(w, e)) = {}
        BY <2>2, ApartTurn
    <2>4. e \in Word16
        BY SymDiffWords, ByteIsWord DEF Bytes
    <2> HIDE DEF w, e
    <2>5. SymDiff(w, e) = {}
        BY <2>3, <2>4, SymDiffWords, EightStepsOfNothing
    <2>6. w = e
        BY <2>5 DEF SymDiff
    <2> QED BY <2>6 DEF w, e
<1> QED BY <1>1, <1>2

(* Eight steps on a byte that is not 0 leave something in the high byte.   *)
LEMMA ByteMoves ==
    ASSUME NEW byte \in Byte, EightSteps(byte) \in Byte
    PROVE  byte = {}
<1>1. byte \in Word16 /\ {} \in Word16
    BY ByteIsWord DEF Word16
<1>2. \A i \in 8 .. 15 : i \notin byte /\ i \notin EightSteps(byte)
    BY DEF Byte
<1> QED BY <1>1, <1>2, EightStepsWord, SameBits DEF Parity, Middle, Xor

(* Two buffers that end with the same word and differ at two neighbouring  *)
(* places only do not differ.                                              *)
LEMMA NeighboursAgree ==
    ASSUME NEW a, NEW b, NEW len \in Nat, Bytes(a, len), Bytes(b, len),
           NEW i \in 1 .. len, NEW j \in 1 .. len, j = i + 1,
           \A k \in 1 .. len : k # i /\ k # j => a[k] = b[k],
           Apart(a, b, len, len) = {}
    PROVE  a[i] = b[i] /\ a[j] = b[j]
<1> DEFINE e == SymDiff(a[i], b[i])
           f == SymDiff(a[j], b[j])
<1>1. i < j /\ j - 1 = i
    OBVIOUS
<1>2. EightSteps(e) = f
    <2>1. /\ Apart(a, b, len, i) = EightSteps(e)
          /\ Apart(a, b, len, j - 1) = f
        BY <1>1, TwoBytesApart
    <2> QED BY <1>1, <2>1
<1>3. e \in Byte /\ f \in Byte
    <2>1. a[i] \in Byte /\ b[i] \in Byte /\ a[j] \in Byte /\ b[j] \in Byte
        BY DEF Bytes
    <2> QED BY <2>1 DEF Byte, SymDiff
<1> HIDE DEF e, f
<1>4. e = {}
    BY <1>2, <1>3, ByteMoves
<1>5. f = {}
    <2>1. {} \in Word16
        BY DEF Word16
    <2> QED BY <1>2, <1>4, <2>1, EightStepsOfNothing
<1> QED BY <1>4, <1>5 DEF e, f, SymDiff

(* A frame the parser accepts is refused once two neighbouring bytes, or   *)
(* one of them, have changed, whatever they have become.                   *)
THEOREM DamagedPairRefused ==
    ASSUME NEW frame \in Seq(Byte), Acceptable(frame),
           NEW other \in Seq(Byte), Len(other) = Len(frame), other # frame,
           NEW i \in 1 .. Len(frame) - 1,
           \A k \in 1 .. Len(frame) : k # i /\ k # i + 1 => frame[k] = other[k]
    PROVE  ~Acceptable(other)
<1> SUFFICES ASSUME Acceptable(other) PROVE FALSE
    OBVIOUS
<1> DEFINE len == Len(frame)
           j == i + 1
<1>1. len \in Nat /\ Bytes(frame, len) /\ Bytes(other, len)
    BY DEF Bytes
<1>2. Apart(frame, other, len, len) = {}
    BY FramesApart
<1>3. /\ i \in 1 .. len /\ j \in 1 .. len
      /\ \A k \in 1 .. len : k # i /\ k # j => frame[k] = other[k]
    OBVIOUS
<1>4. frame[i] = other[i] /\ frame[j] = other[j]
    <2> HIDE DEF len
    <2> QED BY <1>1, <1>2, <1>3, NeighboursAgree, SMTT(30)
<1>5. \A k \in 1 .. len : frame[k] = other[k]
    BY <1>3, <1>4
<1> QED BY <1>5

(* A frame the parser accepts is refused once one of its bytes has changed, *)
(* be it in the header, the registers or the CRC, in one bit or in all.     *)
THEOREM DamagedByteRefused ==
    ASSUME NEW frame \in Seq(Byte), Acceptable(frame),
           NEW other \in Seq(Byte), Len(other) = Len(frame),
           NEW i \in 1 .. Len(frame), other[i] # frame[i],
           \A k \in 1 .. Len(frame) : k # i => frame[k] = other[k]
    PROVE  ~Acceptable(other)
<1>1. Len(frame) >= 5
    BY DEF Acceptable, ResponseMin
<1>2. PICK j \in 1 .. Len(frame) - 1 : i = j \/ i = j + 1
    <2>1. CASE i = Len(frame)
        <3>1. i - 1 \in 1 .. Len(frame) - 1 /\ i = (i - 1) + 1
            BY <1>1, <2>1
        <3> QED BY <3>1
    <2>2. CASE i # Len(frame)
        BY <1>1, <2>2
    <2> QED BY <2>1, <2>2
<1>3. \A k \in 1 .. Len(frame) : k # j /\ k # j + 1 => frame[k] = other[k]
    BY <1>2
<1>4. other # frame
    OBVIOUS
<1> QED BY <1>3, <1>4, DamagedPairRefused

(* An error carried on from i over n further bytes without one. *)
LEMMA ErrorTravels ==
    ASSUME NEW a, NEW b, NEW len \in Nat, Bytes(a, len), Bytes(b, len),
           NEW i \in 1 .. len, NEW n \in Nat, i + n <= len,
           \A k \in i + 1 .. i + n : a[k] = b[k],
           NEW t \in Nat, Apart(a, b, len, i) = Power[t]
    PROVE  Apart(a, b, len, i + n) = Power[t + 8 * n]
<1> DEFINE Bad == {m \in 0 .. n : Apart(a, b, len, i + m) # Power[t + 8 * m]}
<1> SUFFICES ASSUME n \in Bad PROVE FALSE
    OBVIOUS
<1>1. PICK m \in Bad : \A l \in Bad : m <= l
    <2>1. Bad \subseteq Nat
        OBVIOUS
    <2> HIDE DEF Bad
    <2> QED BY <2>1, LeastNat
<1>2. m # 0
    <2>1. i + 0 = i /\ t + 8 * 0 = t
        OBVIOUS
    <2> QED BY <1>1, <2>1
<1>3. /\ m - 1 \in 0 .. n /\ ~(m <= m - 1) /\ i + m \in 1 .. len
      /\ i + m \in i + 1 .. i + n /\ (i + m) - 1 = i + (m - 1)
      /\ t + 8 * (m - 1) \in Nat /\ (t + 8 * (m - 1)) + 8 = t + 8 * m
    BY <1>1, <1>2
<1> DEFINE w == Apart(a, b, len, i + (m - 1))
           k == i + m
<1>4. w = Power[t + 8 * (m - 1)]
    BY <1>1, <1>3
<1>5. Apart(a, b, len, i + m) = EightSteps(SymDiff(w, SymDiff(a[i + m], b[i + m])))
    <2>1. k \in 1 .. len /\ k - 1 = i + (m - 1)
        BY <1>3
    <2> HIDE DEF k
    <2>2. Apart(a, b, len, k)
            = EightSteps(SymDiff(Apart(a, b, len, k - 1), SymDiff(a[k], b[k])))
        BY <2>1, ApartTurn
    <2> QED BY <2>1, <2>2 DEF k
<1>6. SymDiff(w, SymDiff(a[i + m], b[i + m])) = w
    <2>1. a[i + m] = b[i + m]
        BY <1>3
    <2> QED BY <2>1 DEF SymDiff
<1>7. Apart(a, b, len, i + m) = Power[t + 8 * m]
    BY <1>3, <1>4, <1>5, <1>6, EightStepsOfPower
<1> QED BY <1>1, <1>7

(* Two bits in different bytes: the first, carried on, would have to       *)
(* become the second, and within a frame x does not come round again.      *)
LEMMA BitsFarApart ==
    ASSUME NEW a, NEW b, NEW len \in 0 .. 260, Bytes(a, len), Bytes(b, len),
           NEW i \in 1 .. len, NEW j \in 1 .. len, i < j,
           \A k \in 1 .. len : k # i /\ k # j => a[k] = b[k],
           NEW s \in 8 .. 15, SymDiff(a[i], b[i]) = Power[s],
           NEW t \in 8 .. 15, SymDiff(a[j], b[j]) = Power[t]
    PROVE  Apart(a, b, len, len) # {}
<1> SUFFICES ASSUME Apart(a, b, len, len) = {} PROVE FALSE
    OBVIOUS
<1> DEFINE n == (j - 1) - i
           d == (s + 8 + 8 * n) - t
<1>1. /\ len \in Nat /\ s \in Nat /\ t \in Nat /\ s + 8 \in Nat
      /\ n \in Nat /\ i + n <= len /\ i + n = j - 1
      /\ d \in Nat /\ d # 0 /\ d < 32767 /\ (s + 8) + 8 * n = d + t /\ 0 + t = t
    OBVIOUS
<1>2. \A k \in i + 1 .. i + n : a[k] = b[k]
    <2>1. \A k \in i + 1 .. i + n : k \in 1 .. len /\ k # i /\ k # j
        BY <1>1
    <2> QED BY <2>1
<1> HIDE DEF n, d
<1>3. /\ Apart(a, b, len, i) = EightSteps(Power[s])
      /\ Apart(a, b, len, j - 1) = Power[t]
    BY <1>1, TwoBytesApart
<1>4. Apart(a, b, len, i) = Power[s + 8]
    BY <1>1, <1>3, EightStepsOfPower
<1>5. Apart(a, b, len, i + n) = Power[(s + 8) + 8 * n]
    BY <1>1, <1>2, <1>4, ErrorTravels
<1>6. Power[d + t] = Power[0 + t]
    BY <1>1, <1>3, <1>5
<1>7. Period(d)
    <2>1. Power[d + t] = Power[0 + t] <=> Power[d] = Power[0]
        BY <1>1, PowerShift
    <2> QED BY <1>1, <1>6, <2>1 DEF Period
<1> QED BY <1>1, <1>7, NoShortPeriod

LEMMA FrameLength ==
    ASSUME NEW frame \in Seq(Byte), Acceptable(frame)
    PROVE  Len(frame) \in 5 .. 260
<1> DEFINE len == Len(frame)
           n == Num[frame[3]]
<1>1. len \in Nat /\ len >= 5 /\ frame[3] \in Byte /\ len = n + 5
    BY DEF Acceptable, ResponseMin
<1>2. n \in Nat /\ n <= 255
    BY <1>1, NumOfByte, NumByteType
<1> HIDE DEF len, n
<1>3. len \in 5 .. 260
    BY <1>1, <1>2
<1> QED BY <1>3 DEF len

LEMMA BitOfByte == \A b \in 0 .. 7 : 15 - b \in 8 .. 15 /\ Power[15 - b] = {b}
<1>1. \A b \in 0 .. 7 : 15 - b \in 0 .. 15 /\ 15 - (15 - b) = b
    OBVIOUS
<1> QED BY <1>1, SmallPowers

(* What Flipped makes of a frame: another of the same length that differs  *)
(* from it by the bits of the error.                                       *)
Hit(error, i) == {e[2] : e \in {x \in error : x[1] = i}}

LEMMA FlippedIs ==
    ASSUME NEW frame \in Seq(Byte), NEW error \in SUBSET ((DOMAIN frame) \X (0 .. 7))
    PROVE  LET other == Flipped(frame, error)
           IN  /\ other \in Seq(Byte) /\ Len(other) = Len(frame)
               /\ \A k \in 1 .. Len(frame) : SymDiff(frame[k], other[k]) = Hit(error, k)
<1> DEFINE len == Len(frame)
           other == Flipped(frame, error)
<1>1. len \in Nat /\ DOMAIN frame = 1 .. len /\ \A k \in 1 .. len : frame[k] \in Byte
    OBVIOUS
<1>2. \A k : Hit(error, k) \in Byte
    <2>1. \A e \in error : e[2] \in 0 .. 7
        OBVIOUS
    <2> QED BY <2>1 DEF Hit, Byte
<1>3. other = [k \in 1 .. len |-> SymDiff(frame[k], Hit(error, k))]
    BY <1>1 DEF Flipped, Hit
<1> HIDE DEF len, other
<1>4. \A k \in 1 .. len : other[k] = SymDiff(frame[k], Hit(error, k))
    BY <1>3
<1>5. \A u, v \in Byte : SymDiff(u, v) \in Byte
    BY DEF Byte, SymDiff
<1>6. \A k \in 1 .. len : other[k] \in Byte
    BY <1>1, <1>2, <1>4, <1>5
<1>7. other \in [1 .. len -> Byte]
    BY <1>3, <1>6
<1>8. other \in Seq(Byte) /\ Len(other) = len
    BY <1>1, <1>7
<1>9. \A k \in 1 .. len : SymDiff(frame[k], other[k]) = Hit(error, k)
    <2>1. \A u, v : SymDiff(u, SymDiff(u, v)) = v
        BY DEF SymDiff
    <2> QED BY <1>4, <2>1, Zenon
<1> QED BY <1>8, <1>9 DEF len, other

(* No frame the parser accepts becomes another by one or two wrong bits,   *)
(* wherever in the frame they are, header and CRC included: two in one     *)
(* byte are seen like any damage of a byte, two in different bytes because *)
(* the polynomial's order, 2^15 - 1, exceeds the bits of a frame.          *)
THEOREM TwoBitsRefused ==
    ASSUME NEW frame \in Seq(Byte), Acceptable(frame),
           NEW p \in (DOMAIN frame) \X (0 .. 7), NEW r \in (DOMAIN frame) \X (0 .. 7)
    PROVE  ~Acceptable(Flipped(frame, {p, r}))
<1> DEFINE len == Len(frame)
           other == Flipped(frame, {p, r})
<1> SUFFICES ASSUME Acceptable(other) PROVE FALSE
    OBVIOUS
<1>1. len \in 5 .. 260 /\ DOMAIN frame = 1 .. len
    BY FrameLength
<1>2. /\ other \in Seq(Byte) /\ Len(other) = len
      /\ \A k \in 1 .. len : SymDiff(frame[k], other[k]) = Hit({p, r}, k)
    BY FlippedIs
<1>3. PICK i \in 1 .. len, a \in 0 .. 7 : p = <<i, a>>
    BY <1>1
<1>4. PICK j \in 1 .. len, b \in 0 .. 7 : r = <<j, b>>
    BY <1>1
<1>5. \A k : /\ k # i /\ k # j => Hit({p, r}, k) = {}
             /\ k = i /\ k # j => Hit({p, r}, k) = {a}
             /\ k # i /\ k = j => Hit({p, r}, k) = {b}
             /\ k = i /\ k = j => Hit({p, r}, k) = {a, b}
    <2>1. p[1] = i /\ p[2] = a /\ r[1] = j /\ r[2] = b
        BY <1>3, <1>4
    <2> QED BY <2>1 DEF Hit
<1>6. Bytes(frame, len) /\ Bytes(other, len) /\ Apart(frame, other, len, len) = {}
    <2>1. Bytes(frame, len)
        BY DEF Bytes
    <2>2. Bytes(other, len)
        BY <1>2 DEF Bytes
    <2>3. Apart(frame, other, len, len) = {}
        BY <1>2, FramesApart
    <2> QED BY <2>1, <2>2, <2>3
<1>7. \A k \in 1 .. len : k # i /\ k # j => frame[k] = other[k]
    <2>1. \A u, v : SymDiff(u, v) = {} => u = v
        BY DEF SymDiff
    <2> HIDE DEF other, len
    <2> QED BY <1>2, <1>5, <2>1, Zenon
<1>8. i # j
    <2> SUFFICES ASSUME i = j PROVE FALSE
        OBVIOUS
    <2>1. SymDiff(frame[i], other[i]) = {a, b}
        BY <1>2, <1>5
    <2>2. other[i] \in Byte /\ other[i] # frame[i]
        <3>1. other[i] \in Byte
            BY <1>2
        <3>2. \A u : SymDiff(u, u) = {}
            BY DEF SymDiff
        <3> QED BY <2>1, <3>1, <3>2
    <2>3. \A k \in 1 .. Len(frame) : k # i => frame[k] = other[k]
        BY <1>7
    <2> HIDE DEF other
    <2> QED BY <1>2, <2>2, <2>3, DamagedByteRefused
<1> DEFINE s == 15 - a
           t == 15 - b
<1>9. /\ s \in 8 .. 15 /\ SymDiff(frame[i], other[i]) = Power[s]
      /\ t \in 8 .. 15 /\ SymDiff(frame[j], other[j]) = Power[t]
    <2> HIDE DEF other, len
    <2>1. SymDiff(frame[i], other[i]) = {a} /\ SymDiff(frame[j], other[j]) = {b}
        BY <1>2, <1>5, <1>8
    <2> QED BY <2>1, BitOfByte
<1> HIDE DEF len, other, s, t
<1>10. len \in 0 .. 260 /\ i \in 1 .. len /\ j \in 1 .. len
    BY <1>1
<1>11. CASE i < j
    <2>1. Apart(frame, other, len, len) # {}
        BY <1>6, <1>7, <1>9, <1>10, <1>11, BitsFarApart, ZenonT(30)
    <2> QED BY <1>6, <2>1
<1>12. CASE j < i
    <2>1. \A k \in 1 .. len : k # j /\ k # i => frame[k] = other[k]
        BY <1>7
    <2>2. Apart(frame, other, len, len) # {}
        BY <1>6, <2>1, <1>9, <1>10, <1>12, BitsFarApart, ZenonT(30)
    <2> QED BY <1>6, <2>2
<1> QED BY <1>8, <1>11, <1>12

-----------------------------------------------------------------------------
(* Lost bytes.                                                             *)

LEMMA RemoveAtIs ==
    ASSUME NEW S, NEW s \in Seq(S), NEW i \in 1 .. Len(s)
    PROVE  /\ RemoveAt(s, i) \in Seq(S) /\ Len(RemoveAt(s, i)) = Len(s) - 1
           /\ \A k \in 1 .. Len(s) - 1 :
                 RemoveAt(s, i)[k] = IF k < i THEN s[k] ELSE s[k + 1]
<1> DEFINE a == SubSeq(s, 1, i - 1)
           b == SubSeq(s, i + 1, Len(s))
           n == Len(s)
<1>1. n \in Nat /\ i \in 1 .. n
    OBVIOUS
<1>2. /\ a \in Seq(S) /\ Len(a) = i - 1 /\ \A k \in 1 .. i - 1 : a[k] = s[k]
    OBVIOUS
<1>3. /\ b \in Seq(S) /\ Len(b) = n - i /\ \A k \in 1 .. n - i : b[k] = s[k + i]
    OBVIOUS
<1>4. RemoveAt(s, i) = a \o b
    BY DEF RemoveAt
<1> HIDE DEF a, b, n
<1>5. /\ a \o b \in Seq(S) /\ Len(a \o b) = Len(a) + Len(b)
      /\ \A k \in 1 .. Len(a) + Len(b) :
             (a \o b)[k] = IF k <= Len(a) THEN a[k] ELSE b[k - Len(a)]
    BY <1>2, <1>3, ConcatProperties
<1>6. Len(a) + Len(b) = n - 1
    BY <1>1, <1>2, <1>3
<1>7. ASSUME NEW k \in 1 .. n - 1
      PROVE  (a \o b)[k] = IF k < i THEN s[k] ELSE s[k + 1]
    <2>1. CASE k < i
        <3>1. k <= Len(a) /\ k \in 1 .. i - 1
            BY <1>1, <1>2, <2>1
        <3> QED BY <1>2, <1>5, <1>6, <2>1, <3>1
    <2>2. CASE ~(k < i)
        <3>1. ~(k <= Len(a)) /\ k - Len(a) \in 1 .. n - i /\ (k - Len(a)) + i = k + 1
            BY <1>1, <1>2, <2>2
        <3> QED BY <1>3, <1>5, <1>6, <2>2, <3>1
    <2> QED BY <2>1, <2>2
<1> QED BY <1>4, <1>5, <1>6, <1>7 DEF n

LEMMA NumOfFunction == Num[FuncReadHolding] = 3
<1>1. LowByte(Bits(3)) = Bits(3)
    BY SmallBits DEF LowByte
<1>2. Num[LowByte(Bits(3))] = 3
    BY NumOfBits
<1> QED BY <1>1, <1>2 DEF FuncReadHolding

LEMMA TurnIs ==
    ASSUME NEW c \in Word16, NEW b \in Byte
    PROVE  CrcByte[<<c, b>>] = EightSteps(SymDiff(c, b))
    BY DEF CrcByte, EightSteps

LEMMA BitsWord ==
    ASSUME NEW n \in Nat
    PROVE  /\ Bits(n) \in Word16
           /\ 0 \in Bits(n) <=> (n \div 1) % 2 = 1
           /\ 1 \in Bits(n) <=> (n \div 2) % 2 = 1
           /\ 2 \in Bits(n) <=> (n \div 4) % 2 = 1
           /\ 3 \in Bits(n) <=> (n \div 8) % 2 = 1
           /\ 4 \in Bits(n) <=> (n \div 16) % 2 = 1
           /\ 5 \in Bits(n) <=> (n \div 32) % 2 = 1
           /\ 6 \in Bits(n) <=> (n \div 64) % 2 = 1
           /\ 7 \in Bits(n) <=> (n \div 128) % 2 = 1
           /\ 8 \in Bits(n) <=> (n \div 256) % 2 = 1
           /\ 9 \in Bits(n) <=> (n \div 512) % 2 = 1
           /\ 10 \in Bits(n) <=> (n \div 1024) % 2 = 1
           /\ 11 \in Bits(n) <=> (n \div 2048) % 2 = 1
           /\ 12 \in Bits(n) <=> (n \div 4096) % 2 = 1
           /\ 13 \in Bits(n) <=> (n \div 8192) % 2 = 1
           /\ 14 \in Bits(n) <=> (n \div 16384) % 2 = 1
           /\ 15 \in Bits(n) <=> (n \div 32768) % 2 = 1
<1>1. /\ 2^8 = 256 /\ 2^9 = 512 /\ 2^10 = 1024 /\ 2^11 = 2048
      /\ 2^12 = 4096 /\ 2^13 = 8192 /\ 2^14 = 16384 /\ 2^15 = 32768
    OBVIOUS
<1>2. \A i \in 0 .. 15 : i \in Bits(n) <=> (n \div 2^i) % 2 = 1
    BY DEF Bits
<1> QED BY <1>1, <1>2, Powers, BitsType

(* What follows a lost byte brings both words to 0, so they agree before. *)
LEMMA TailsAgree ==
    ASSUME NEW a \in Seq(Byte), NEW b \in Seq(Byte), Acceptable(a), Acceptable(b),
           Len(a) = Len(b) + 1, NEW i \in 1 .. Len(b), \A k \in i .. Len(b) : b[k] = a[k + 1]
    PROVE  CrcAfter(a, Len(a))[i] = CrcAfter(b, Len(b))[i - 1]
<1> DEFINE n == Len(b)
           u == CrcAfter(a, Len(a))
           v == CrcAfter(b, n)
           S == {k \in i - 1 .. n : u[k + 1] = v[k]}
<1>1. n \in Nat /\ Len(a) = n + 1 /\ i \in 1 .. n
    OBVIOUS
<1>2. u[n + 1] = {} /\ v[n] = {}
    BY <1>1, Residue
<1>3. /\ \A k \in 0 .. n + 1 : u[k] \in Word16
      /\ \A k \in 1 .. n + 1 : u[k] = CrcByte[<<u[k - 1], a[k]>>] /\ a[k] \in Byte
    <2>1. Len(a) \in Nat /\ Bytes(a, Len(a))
        BY DEF Bytes
    <2>2. \A k \in 0 .. Len(a) : u[k] \in Word16
        BY <2>1, CrcAfterType
    <2>3. \A k \in 1 .. Len(a) : u[k] = CrcByte[<<u[k - 1], a[k]>>]
        BY <2>1, CrcTurn
    <2>4. \A k \in 1 .. Len(a) : a[k] \in Byte
        BY <2>1 DEF Bytes
    <2> HIDE DEF u, n
    <2> QED BY <1>1, <2>2, <2>3, <2>4
<1>4. /\ \A k \in 0 .. n : v[k] \in Word16
      /\ \A k \in 1 .. n : v[k] = CrcByte[<<v[k - 1], b[k]>>] /\ b[k] \in Byte
    <2>1. Bytes(b, n)
        BY DEF Bytes
    <2> QED BY <1>1, <2>1, CrcAfterType, CrcTurn DEF Bytes
<1> HIDE DEF n, u, v
<1>5. n \in S /\ S \subseteq Nat
    <2>1. n \in i - 1 .. n
        BY <1>1
    <2>2. i - 1 .. n \subseteq Nat
        BY <1>1
    <2>3. u[n + 1] = v[n]
        BY <1>2
    <2> QED BY <2>1, <2>2, <2>3
<1>6. PICK k \in S : \A l \in S : k <= l
    BY <1>5, LeastNat
<1>7. CASE k = i - 1
    BY <1>1, <1>6, <1>7 DEF n, u, v
<1>8. CASE k # i - 1
    <2>1. /\ k \in i .. n /\ k \in 1 .. n /\ k + 1 \in 1 .. n + 1 /\ (k + 1) - 1 = k
          /\ k \in 0 .. n + 1 /\ k - 1 \in 0 .. n /\ k - 1 \in i - 1 .. n /\ ~(k <= k - 1)
        BY <1>1, <1>6, <1>8
    <2>2. b[k] = a[k + 1]
        BY <2>1 DEF n
    <2> DEFINE w == u[k]
               x == v[k - 1]
               byte == b[k]
    <2>3. w \in Word16 /\ x \in Word16 /\ byte \in Byte
        BY <1>3, <1>4, <2>1
    <2>4. CrcByte[<<w, byte>>] = CrcByte[<<x, byte>>]
        <3>1. u[k + 1] = CrcByte[<<u[k], a[k + 1]>>]
            BY <1>3, <2>1
        <3>2. v[k] = CrcByte[<<v[k - 1], b[k]>>]
            BY <1>4, <2>1
        <3>3. u[k + 1] = v[k]
            BY <1>6
        <3> QED BY <2>2, <3>1, <3>2, <3>3
    <2>5. k - 1 \in S => FALSE
        BY <1>6, <2>1
    <2> HIDE DEF w, x, byte
    <2>6. SymDiff(w, byte) \in Word16 /\ SymDiff(x, byte) \in Word16
        BY <2>3, SymDiffWords, ByteIsWord
    <2>7. SymDiff(w, byte) = SymDiff(x, byte)
        <3>1. EightSteps(SymDiff(w, byte)) = EightSteps(SymDiff(x, byte))
            BY <2>3, <2>4, TurnIs
        <3> QED BY <2>6, <3>1, EightStepsInjective DEF EightSteps
    <2>8. w = x
        BY <2>7 DEF SymDiff
    <2>9. (k - 1) + 1 = k
        BY <2>1
    <2> QED BY <2>1, <2>5, <2>8, <2>9 DEF w, x
<1> QED BY <1>7, <1>8

(* The word after the address and the function of a response, and that no  *)
(* byte leaves it as it is.                                                *)
LEMMA HeaderTurns ==
    /\ CrcByte[<<0 .. 15, {0}>>] = {1, 2, 3, 4, 5, 6, 15}
    /\ CrcByte[<<{1, 2, 3, 4, 5, 6, 15}, {0, 1}>>] = {6, 8, 13}
    /\ \A byte \in Byte : CrcByte[<<{6, 8, 13}, byte>>] # {6, 8, 13}
<1>1. CrcByte[<<0 .. 15, {0}>>] = {1, 2, 3, 4, 5, 6, 15}
    <2>1. SymDiff(0 .. 15, {0}) = {1, 2, 3, 4, 5, 6, 7, 8, 9, 10, 11, 12, 13, 14, 15}
        BY DEF SymDiff
    <2>2. EightSteps({1, 2, 3, 4, 5, 6, 7, 8, 9, 10, 11, 12, 13, 14, 15}) = {1, 2, 3, 4, 5, 6, 15}
        BY EightStepsWord, SameBits DEF Parity, Middle, Xor, Word16
    <2>3. 0 .. 15 \in Word16 /\ {0} \in Byte
        BY DEF Word16, Byte
    <2> QED BY <2>1, <2>2, <2>3, TurnIs
<1>2. CrcByte[<<{1, 2, 3, 4, 5, 6, 15}, {0, 1}>>] = {6, 8, 13}
    <2>1. SymDiff({1, 2, 3, 4, 5, 6, 15}, {0, 1}) = {0, 2, 3, 4, 5, 6, 15}
        BY DEF SymDiff
    <2>2. EightSteps({0, 2, 3, 4, 5, 6, 15}) = {6, 8, 13}
        BY EightStepsWord, SameBits DEF Parity, Middle, Xor, Word16
    <2>3. {1, 2, 3, 4, 5, 6, 15} \in Word16 /\ {0, 1} \in Byte
        BY DEF Word16, Byte
    <2> QED BY <2>1, <2>2, <2>3, TurnIs
<1>3. ASSUME NEW byte \in Byte
      PROVE  CrcByte[<<{6, 8, 13}, byte>>] # {6, 8, 13}
    <2>1. {6, 8, 13} \in Word16
        BY DEF Word16
    <2> DEFINE w == SymDiff({6, 8, 13}, byte)
    <2>2. w \in Word16 /\ CrcByte[<<{6, 8, 13}, byte>>] = EightSteps(w)
        BY <2>1, TurnIs, SymDiffWords, ByteIsWord
    <2>3. 13 \in w
        BY DEF SymDiff, Byte
    <2> HIDE DEF w
    <2>4. 5 \in EightSteps(w)
        BY <2>2, <2>3, EightStepsWord
    <2> QED BY <2>2, <2>4
<1> QED BY <1>1, <1>2, <1>3

LEMMA HeaderWord ==
    ASSUME NEW buf, NEW len \in Nat, len >= 2, buf[1] = Bits(1), buf[2] = FuncReadHolding
    PROVE  CrcAfter(buf, len)[2] = {6, 8, 13}
<1> DEFINE crc == CrcAfter(buf, len)
<1>1. crc[0] = 0 .. 15 /\ \A k \in 1 .. len : crc[k] = CrcByte[<<crc[k - 1], buf[k]>>]
    BY CrcTurn
<1> HIDE DEF crc
<1>2. crc[1] = CrcByte[<<crc[0], buf[1]>>] /\ crc[2] = CrcByte[<<crc[1], buf[2]>>]
    <2>1. crc[1] = CrcByte[<<crc[1 - 1], buf[1]>>]
        <3>1. 1 \in 1 .. len
            OBVIOUS
        <3> QED BY <1>1, <3>1
    <2>2. crc[2] = CrcByte[<<crc[2 - 1], buf[2]>>]
        <3>1. 2 \in 1 .. len
            OBVIOUS
        <3> QED BY <1>1, <3>1
    <2>3. 1 - 1 = 0 /\ 2 - 1 = 1
        OBVIOUS
    <2> QED BY <2>1, <2>2, <2>3
<1>3. Bits(1) = {0}
    BY BitsWord, SameBits DEF Word16
<1>4. Bits(3) = {0, 1}
    BY BitsWord, SameBits DEF Word16
<1>5. crc[1] = {1, 2, 3, 4, 5, 6, 15}
    <2>1. crc[1] = CrcByte[<<0 .. 15, {0}>>]
        BY <1>1, <1>2, <1>3
    <2> QED BY <2>1, HeaderTurns
<1>6. crc[2] = CrcByte[<<{1, 2, 3, 4, 5, 6, 15}, {0, 1}>>]
    BY <1>2, <1>4, <1>5 DEF FuncReadHolding
<1>7. crc[2] = {6, 8, 13}
    BY <1>6, HeaderTurns
<1> QED BY <1>7 DEF crc

(* A response that has lost a byte is refused, whatever its registers hold *)
(* and however many they are: without one of the first two bytes the       *)
(* length stands where the function should, without a later one the length *)
(* is wrong.  Without the length itself the first register's high byte     *)
(* takes its place, and may happen to name the length of what is left;     *)
(* then the CRC does not fit.                                              *)
THEOREM LostByteRefused ==
    ASSUME NEW regs \in Seq(Word16), Len(regs) \in 1 .. MaxRegisters,
           NEW i \in DOMAIN build_test_response(regs)
    PROVE  ~Acceptable(RemoveAt(build_test_response(regs), i))
<1> DEFINE frame == build_test_response(regs)
           other == RemoveAt(frame, i)
           n == Len(regs)
<1> SUFFICES ASSUME Acceptable(other) PROVE FALSE
    OBVIOUS
<1>1. n \in 1 .. 125
    BY DEF MaxRegisters
<1>2. /\ frame \in Seq(Byte) /\ Len(frame) = 2 * n + 5 /\ Num[frame[3]] = 2 * n
      /\ Acceptable(frame) /\ frame[1] = Bits(1) /\ frame[2] = FuncReadHolding
    <2>1. n <= MaxRegisters
        <3> HIDE DEF n
        <3> QED BY <1>1 DEF MaxRegisters
    <2>2. frame \in Seq(Byte) /\ Acceptable(frame) /\ frame[1] = Bits(1)
        BY <2>1, ResponseIs
    <2>3. Len(frame) = 2 * n + 5 /\ Num[frame[3]] = 2 * n /\ frame[2] = FuncReadHolding
        BY <2>1, ResponseIs
    <2> QED BY <2>2, <2>3
<1>3. i \in DOMAIN frame
    OBVIOUS
<1> HIDE DEF frame
<1>4. i \in 1 .. 2 * n + 5 /\ other \in Seq(Byte)
    <2>1. i \in 1 .. Len(frame)
        BY <1>2, <1>3
    <2> QED BY <1>2, <2>1, RemoveAtIs
<1>5. /\ Len(other) = 2 * n + 4
      /\ \A k \in 1 .. 2 * n + 4 : other[k] = IF k < i THEN frame[k] ELSE frame[k + 1]
    <2> HIDE DEF n
    <2>1. i \in 1 .. Len(frame) /\ Len(frame) - 1 = 2 * n + 4
        BY <1>1, <1>2, <1>4
    <2>2. /\ Len(other) = Len(frame) - 1
          /\ \A k \in 1 .. Len(frame) - 1 :
                 other[k] = IF k < i THEN frame[k] ELSE frame[k + 1]
        BY <1>2, <2>1, RemoveAtIs
    <2> QED BY <2>1, <2>2
<1>6. other[2] = FuncReadHolding /\ Len(other) = Num[other[3]] + 5
    BY DEF Acceptable
<1>7. /\ 2 \in 1 .. 2 * n + 4 /\ 3 \in 1 .. 2 * n + 4
      /\ 2 * n # 3 /\ (2 * n) + 5 # 2 * n + 4
    BY <1>1
<1> HIDE DEF other, n
<1>8. CASE i <= 2
    <2>1. other[2] = frame[3]
        BY <1>4, <1>5, <1>7, <1>8
    <2> QED BY <1>2, <1>6, <1>7, <2>1, NumOfFunction
<1>9. CASE i = 3
    <2> DEFINE u == CrcAfter(frame, Len(frame))
               v == CrcAfter(other, Len(other))
    <2>1. /\ Len(frame) = Len(other) + 1 /\ 3 \in 1 .. Len(other)
          /\ \A k \in 3 .. Len(other) : other[k] = frame[k + 1]
        BY <1>1, <1>2, <1>5, <1>9
    <2>2. u[3] = v[2]
        <3>1. u[3] = v[3 - 1]
            BY <1>2, <1>4, <2>1, TailsAgree
        <3> QED BY <3>1
    <2>3. /\ Len(frame) \in Nat /\ Len(frame) >= 2 /\ 3 \in 1 .. Len(frame)
          /\ Len(other) \in Nat /\ Len(other) >= 2 /\ frame[3] \in Byte
        BY <1>1, <1>2, <1>5
    <2>4. other[1] = frame[1] /\ other[2] = frame[2]
        BY <1>1, <1>5, <1>9
    <2>5. u[2] = {6, 8, 13} /\ v[2] = {6, 8, 13}
        BY <1>2, <2>3, <2>4, HeaderWord
    <2>6. u[3] = CrcByte[<<u[2], frame[3]>>]
        <3>1. u[3] = CrcByte[<<u[3 - 1], frame[3]>>]
            BY <2>3, CrcTurn
        <3> QED BY <3>1
    <2> HIDE DEF u, v
    <2> QED BY <2>2, <2>3, <2>5, <2>6, HeaderTurns
<1>10. CASE i >= 4
    <2>1. other[3] = frame[3]
        <3>1. 3 < i
            BY <1>4, <1>10
        <3> QED BY <1>5, <1>7, <3>1
    <2> QED BY <1>2, <1>5, <1>6, <1>7, <2>1
<1> QED BY <1>4, <1>8, <1>9, <1>10

-----------------------------------------------------------------------------
(* The expectations of modbus_run_sensor_tests.                            *)

LEMMA RegsType ==
    ASSUME NEW numbers \in Seq(Nat)
    PROVE  Regs(numbers) \in Seq(Word16) /\ Len(Regs(numbers)) = Len(numbers)
<1>1. /\ DOMAIN numbers = 1 .. Len(numbers) /\ Len(numbers) \in Nat
      /\ \A i \in 1 .. Len(numbers) : numbers[i] \in Nat
    OBVIOUS
<1>2. Regs(numbers) \in [1 .. Len(numbers) -> Word16]
    BY <1>1, BitsType DEF Regs
<1> QED BY <1>1, <1>2

LEMMA RoundTripsHold ==
    ASSUME NEW numbers \in Seq(Nat), Len(numbers) <= 16
    PROVE  RoundTrips(numbers)
<1>1. /\ Regs(numbers) \in Seq(Word16) /\ Len(Regs(numbers)) = Len(numbers)
      /\ Len(Regs(numbers)) <= MaxRegisters /\ 16 \in Nat
    BY RegsType DEF MaxRegisters
<1> QED BY <1>1, RoundTrip DEF RoundTrips

LEMMA ExceptionIs ==
    LET frame == ExceptionResponse(2)
    IN  /\ frame \in Seq(Byte) /\ Len(frame) = 5 /\ 7 \in frame[2]
        /\ frame[2] = {0, 1, 7} /\ frame[3] = Bits(2)
<1> DEFINE body == <<Bits(1), {0, 1, 7}, Bits(2)>>
           frame == ExceptionResponse(2)
<1>1. body \in Seq(Byte) /\ Len(body) = 3 /\ body[2] = {0, 1, 7} /\ body[3] = Bits(2)
    <2>1. Bits(1) \in Byte /\ Bits(2) \in Byte /\ {0, 1, 7} \in Byte
        BY SmallBits DEF Byte
    <2> QED BY <2>1
<1>2. frame = WithCrc(body)
    BY DEF ExceptionResponse
<1> HIDE DEF body, frame
<1>3. /\ WithCrc(body) \in Seq(Byte) /\ Len(WithCrc(body)) = Len(body) + 2
      /\ \A k \in 1 .. Len(body) : WithCrc(body)[k] = body[k]
    <2>1. Len(body) > 0
        BY <1>1
    <2> QED BY <1>1, <2>1, WithCrcIs
<1>4. Len(frame) = 5 /\ frame[2] = {0, 1, 7} /\ frame[3] = Bits(2)
    BY <1>1, <1>2, <1>3
<1> QED BY <1>2, <1>3, <1>4 DEF frame

LEMMA HighByteIs ==
    ASSUME NEW w \in Word16
    PROVE  \A i : i \in HighByte(w) <=> i \in 0 .. 7 /\ i + 8 \in w
    BY DEF Word16, HighByte

(* The numbers in the frame of the first test. *)
LEMMA NormalNumbers ==
    /\ Bits(1) = {0}
    /\ Bits(3) = {0, 1}
    /\ Bits(14) = {1, 2, 3}
    /\ Bits(712) = {3, 6, 7, 9}
    /\ Bits(2534) = {1, 2, 5, 6, 7, 8, 11}
    /\ Bits(320) = {6, 8}
    /\ Bits(820) = {2, 4, 5, 8, 9}
    /\ Bits(1280) = {8, 10}
    /\ Bits(0) = {}
<1>1. Bits(1) = {0}
    BY BitsWord, SameBits DEF Word16
<1>2. Bits(3) = {0, 1}
    BY BitsWord, SameBits DEF Word16
<1>3. Bits(14) = {1, 2, 3}
    BY BitsWord, SameBits DEF Word16
<1>4. Bits(712) = {3, 6, 7, 9}
    BY BitsWord, SameBits DEF Word16
<1>5. Bits(2534) = {1, 2, 5, 6, 7, 8, 11}
    BY BitsWord, SameBits DEF Word16
<1>6. Bits(320) = {6, 8}
    BY BitsWord, SameBits DEF Word16
<1>7. Bits(820) = {2, 4, 5, 8, 9}
    BY BitsWord, SameBits DEF Word16
<1>8. Bits(1280) = {8, 10}
    BY BitsWord, SameBits DEF Word16
<1>9. Bits(0) = {}
    BY BitsWord, SameBits DEF Word16
<1> QED BY <1>1, <1>2, <1>3, <1>4, <1>5, <1>6, <1>7, <1>8, <1>9

LEMMA NormalRegsAre ==
    /\ NormalRegs \in Seq(Nat) /\ Len(NormalRegs) = 7
    /\ Regs(NormalRegs) \in Seq(Word16) /\ Len(Regs(NormalRegs)) = 7
    /\ Regs(NormalRegs)[1] = {3, 6, 7, 9}
    /\ Regs(NormalRegs)[2] = {1, 2, 5, 6, 7, 8, 11}
    /\ Regs(NormalRegs)[3] = {6, 8}
    /\ Regs(NormalRegs)[4] = {2, 4, 5, 8, 9}
    /\ Regs(NormalRegs)[5] = {}
    /\ Regs(NormalRegs)[6] = {}
    /\ Regs(NormalRegs)[7] = {8, 10}
<1>1. NormalRegs \in Seq(Nat) /\ Len(NormalRegs) = 7 /\ DOMAIN NormalRegs = 1 .. 7
    BY DEF NormalRegs
<1>2. /\ NormalRegs[1] = 712
      /\ NormalRegs[2] = 2534
      /\ NormalRegs[3] = 320
      /\ NormalRegs[4] = 820
      /\ NormalRegs[5] = 0
      /\ NormalRegs[6] = 0
      /\ NormalRegs[7] = 1280
    BY DEF NormalRegs
<1>3. \A i \in 1 .. 7 : Regs(NormalRegs)[i] = Bits(NormalRegs[i])
    BY <1>1 DEF Regs
<1>4. /\ Regs(NormalRegs)[1] = Bits(712) /\ Regs(NormalRegs)[2] = Bits(2534)
      /\ Regs(NormalRegs)[3] = Bits(320) /\ Regs(NormalRegs)[4] = Bits(820)
      /\ Regs(NormalRegs)[5] = Bits(0) /\ Regs(NormalRegs)[6] = Bits(0)
      /\ Regs(NormalRegs)[7] = Bits(1280)
    BY <1>2, <1>3
<1>5. Regs(NormalRegs) \in Seq(Word16) /\ Len(Regs(NormalRegs)) = 7
    BY <1>1, RegsType
<1> QED BY <1>1, <1>4, <1>5, NormalNumbers

(* What its bytes make of the word, from the initial one on. *)
LEMMA NormalTurns ==
    /\ CrcByte[<<0 .. 15, {0}>>] = {1, 2, 3, 4, 5, 6, 15}
    /\ CrcByte[<<{1, 2, 3, 4, 5, 6, 15}, {0, 1}>>] = {6, 8, 13}
    /\ CrcByte[<<{6, 8, 13}, {1, 2, 3}>>] = {0, 5, 7, 10, 12, 13}
    /\ CrcByte[<<{0, 5, 7, 10, 12, 13}, {1}>>] = {2, 4, 5, 6, 8, 11, 12, 13, 14}
    /\ CrcByte[<<{2, 4, 5, 6, 8, 11, 12, 13, 14}, {3, 6, 7}>>] = {3, 4, 5, 6, 8, 12, 13, 15}
    /\ CrcByte[<<{3, 4, 5, 6, 8, 12, 13, 15}, {0, 3}>>] = {0, 4, 5, 6, 10, 13}
    /\ CrcByte[<<{0, 4, 5, 6, 10, 13}, {1, 2, 5, 6, 7}>>] = {0, 2, 5, 6, 9, 10, 11, 13, 15}
    /\ CrcByte[<<{0, 2, 5, 6, 9, 10, 11, 13, 15}, {0}>>] = {0, 1, 2, 3, 5, 7, 8, 9, 11, 13, 14, 15}
    /\ CrcByte[<<{0, 1, 2, 3, 5, 7, 8, 9, 11, 13, 14, 15}, {6}>>] = {1, 3, 5, 7, 10, 11, 15}
    /\ CrcByte[<<{1, 3, 5, 7, 10, 11, 15}, {0, 1}>>] = {2, 3, 6, 9, 10, 11, 12, 13, 14}
    /\ CrcByte[<<{2, 3, 6, 9, 10, 11, 12, 13, 14}, {2, 4, 5}>>] = {1, 2, 3, 4, 5, 6, 9, 13}
    /\ CrcByte[<<{1, 2, 3, 4, 5, 6, 9, 13}, {}>>] = {1, 5, 7, 13}
    /\ CrcByte[<<{1, 5, 7, 13}, {}>>] = {0, 5, 7, 8, 11, 12, 13, 15}
    /\ CrcByte[<<{0, 5, 7, 8, 11, 12, 13, 15}, {}>>] = {3, 4, 5, 6, 11, 12, 13, 15}
    /\ CrcByte[<<{3, 4, 5, 6, 11, 12, 13, 15}, {}>>] = {3, 4, 5, 7, 9, 13}
    /\ CrcByte[<<{3, 4, 5, 7, 9, 13}, {0, 2}>>] = {1, 5, 6, 7, 8, 12, 13, 14}
    /\ CrcByte[<<{1, 5, 6, 7, 8, 12, 13, 14}, {}>>] = {0, 4, 5, 6, 7, 8, 11, 14}
<1>1. CrcByte[<<0 .. 15, {0}>>] = {1, 2, 3, 4, 5, 6, 15}
    BY HeaderTurns
<1>2. CrcByte[<<{1, 2, 3, 4, 5, 6, 15}, {0, 1}>>] = {6, 8, 13}
    BY HeaderTurns
<1>3. CrcByte[<<{6, 8, 13}, {1, 2, 3}>>] = {0, 5, 7, 10, 12, 13}
    <2>1. SymDiff({6, 8, 13}, {1, 2, 3}) = {1, 2, 3, 6, 8, 13}
        BY DEF SymDiff
    <2>2. EightSteps({1, 2, 3, 6, 8, 13}) = {0, 5, 7, 10, 12, 13}
        BY EightStepsWord, SameBits DEF Parity, Middle, Xor, Word16
    <2>3. {6, 8, 13} \in Word16 /\ {1, 2, 3} \in Byte
        BY DEF Word16, Byte
    <2> QED BY <2>1, <2>2, <2>3, TurnIs
<1>4. CrcByte[<<{0, 5, 7, 10, 12, 13}, {1}>>] = {2, 4, 5, 6, 8, 11, 12, 13, 14}
    <2>1. SymDiff({0, 5, 7, 10, 12, 13}, {1}) = {0, 1, 5, 7, 10, 12, 13}
        BY DEF SymDiff
    <2>2. EightSteps({0, 1, 5, 7, 10, 12, 13}) = {2, 4, 5, 6, 8, 11, 12, 13, 14}
        BY EightStepsWord, SameBits DEF Parity, Middle, Xor, Word16
    <2>3. {0, 5, 7, 10, 12, 13} \in Word16 /\ {1} \in Byte
        BY DEF Word16, Byte
    <2> QED BY <2>1, <2>2, <2>3, TurnIs
<1>5. CrcByte[<<{2, 4, 5, 6, 8, 11, 12, 13, 14}, {3, 6, 7}>>] = {3, 4, 5, 6, 8, 12, 13, 15}
    <2>1. SymDiff({2, 4, 5, 6, 8, 11, 12, 13, 14}, {3, 6, 7}) = {2, 3, 4, 5, 7, 8, 11, 12, 13, 14}
        BY DEF SymDiff
    <2>2. EightSteps({2, 3, 4, 5, 7, 8, 11, 12, 13, 14}) = {3, 4, 5, 6, 8, 12, 13, 15}
        BY EightStepsWord, SameBits DEF Parity, Middle, Xor, Word16
    <2>3. {2, 4, 5, 6, 8, 11, 12, 13, 14} \in Word16 /\ {3, 6, 7} \in Byte
        BY DEF Word16, Byte
    <2> QED BY <2>1, <2>2, <2>3, TurnIs
<1>6. CrcByte[<<{3, 4, 5, 6, 8, 12, 13, 15}, {0, 3}>>] = {0, 4, 5, 6, 10, 13}
    <2>1. SymDiff({3, 4, 5, 6, 8, 12, 13, 15}, {0, 3}) = {0, 4, 5, 6, 8, 12, 13, 15}
        BY DEF SymDiff
    <2>2. EightSteps({0, 4, 5, 6, 8, 12, 13, 15}) = {0, 4, 5, 6, 10, 13}
        BY EightStepsWord, SameBits DEF Parity, Middle, Xor, Word16
    <2>3. {3, 4, 5, 6, 8, 12, 13, 15} \in Word16 /\ {0, 3} \in Byte
        BY DEF Word16, Byte
    <2> QED BY <2>1, <2>2, <2>3, TurnIs
<1>7. CrcByte[<<{0, 4, 5, 6, 10, 13}, {1, 2, 5, 6, 7}>>] = {0, 2, 5, 6, 9, 10, 11, 13, 15}
    <2>1. SymDiff({0, 4, 5, 6, 10, 13}, {1, 2, 5, 6, 7}) = {0, 1, 2, 4, 7, 10, 13}
        BY DEF SymDiff
    <2>2. EightSteps({0, 1, 2, 4, 7, 10, 13}) = {0, 2, 5, 6, 9, 10, 11, 13, 15}
        BY EightStepsWord, SameBits DEF Parity, Middle, Xor, Word16
    <2>3. {0, 4, 5, 6, 10, 13} \in Word16 /\ {1, 2, 5, 6, 7} \in Byte
        BY DEF Word16, Byte
    <2> QED BY <2>1, <2>2, <2>3, TurnIs
<1>8. CrcByte[<<{0, 2, 5, 6, 9, 10, 11, 13, 15}, {0}>>] = {0, 1, 2, 3, 5, 7, 8, 9, 11, 13, 14, 15}
    <2>1. SymDiff({0, 2, 5, 6, 9, 10, 11, 13, 15}, {0}) = {2, 5, 6, 9, 10, 11, 13, 15}
        BY DEF SymDiff
    <2>2. EightSteps({2, 5, 6, 9, 10, 11, 13, 15}) = {0, 1, 2, 3, 5, 7, 8, 9, 11, 13, 14, 15}
        BY EightStepsWord, SameBits DEF Parity, Middle, Xor, Word16
    <2>3. {0, 2, 5, 6, 9, 10, 11, 13, 15} \in Word16 /\ {0} \in Byte
        BY DEF Word16, Byte
    <2> QED BY <2>1, <2>2, <2>3, TurnIs
<1>9. CrcByte[<<{0, 1, 2, 3, 5, 7, 8, 9, 11, 13, 14, 15}, {6}>>] = {1, 3, 5, 7, 10, 11, 15}
    <2>1. SymDiff({0, 1, 2, 3, 5, 7, 8, 9, 11, 13, 14, 15}, {6}) = {0, 1, 2, 3, 5, 6, 7, 8, 9, 11, 13, 14, 15}
        BY DEF SymDiff
    <2>2. EightSteps({0, 1, 2, 3, 5, 6, 7, 8, 9, 11, 13, 14, 15}) = {1, 3, 5, 7, 10, 11, 15}
        BY EightStepsWord, SameBits DEF Parity, Middle, Xor, Word16
    <2>3. {0, 1, 2, 3, 5, 7, 8, 9, 11, 13, 14, 15} \in Word16 /\ {6} \in Byte
        BY DEF Word16, Byte
    <2> QED BY <2>1, <2>2, <2>3, TurnIs
<1>10. CrcByte[<<{1, 3, 5, 7, 10, 11, 15}, {0, 1}>>] = {2, 3, 6, 9, 10, 11, 12, 13, 14}
    <2>1. SymDiff({1, 3, 5, 7, 10, 11, 15}, {0, 1}) = {0, 3, 5, 7, 10, 11, 15}
        BY DEF SymDiff
    <2>2. EightSteps({0, 3, 5, 7, 10, 11, 15}) = {2, 3, 6, 9, 10, 11, 12, 13, 14}
        BY EightStepsWord, SameBits DEF Parity, Middle, Xor, Word16
    <2>3. {1, 3, 5, 7, 10, 11, 15} \in Word16 /\ {0, 1} \in Byte
        BY DEF Word16, Byte
    <2> QED BY <2>1, <2>2, <2>3, TurnIs
<1>11. CrcByte[<<{2, 3, 6, 9, 10, 11, 12, 13, 14}, {2, 4, 5}>>] = {1, 2, 3, 4, 5, 6, 9, 13}
    <2>1. SymDiff({2, 3, 6, 9, 10, 11, 12, 13, 14}, {2, 4, 5}) = {3, 4, 5, 6, 9, 10, 11, 12, 13, 14}
        BY DEF SymDiff
    <2>2. EightSteps({3, 4, 5, 6, 9, 10, 11, 12, 13, 14}) = {1, 2, 3, 4, 5, 6, 9, 13}
        BY EightStepsWord, SameBits DEF Parity, Middle, Xor, Word16
    <2>3. {2, 3, 6, 9, 10, 11, 12, 13, 14} \in Word16 /\ {2, 4, 5} \in Byte
        BY DEF Word16, Byte
    <2> QED BY <2>1, <2>2, <2>3, TurnIs
<1>12. CrcByte[<<{1, 2, 3, 4, 5, 6, 9, 13}, {}>>] = {1, 5, 7, 13}
    <2>1. SymDiff({1, 2, 3, 4, 5, 6, 9, 13}, {}) = {1, 2, 3, 4, 5, 6, 9, 13}
        BY DEF SymDiff
    <2>2. EightSteps({1, 2, 3, 4, 5, 6, 9, 13}) = {1, 5, 7, 13}
        BY EightStepsWord, SameBits DEF Parity, Middle, Xor, Word16
    <2>3. {1, 2, 3, 4, 5, 6, 9, 13} \in Word16 /\ {} \in Byte
        BY DEF Word16, Byte
    <2> QED BY <2>1, <2>2, <2>3, TurnIs
<1>13. CrcByte[<<{1, 5, 7, 13}, {}>>] = {0, 5, 7, 8, 11, 12, 13, 15}
    <2>1. SymDiff({1, 5, 7, 13}, {}) = {1, 5, 7, 13}
        BY DEF SymDiff
    <2>2. EightSteps({1, 5, 7, 13}) = {0, 5, 7, 8, 11, 12, 13, 15}
        BY EightStepsWord, SameBits DEF Parity, Middle, Xor, Word16
    <2>3. {1, 5, 7, 13} \in Word16 /\ {} \in Byte
        BY DEF Word16, Byte
    <2> QED BY <2>1, <2>2, <2>3, TurnIs
<1>14. CrcByte[<<{0, 5, 7, 8, 11, 12, 13, 15}, {}>>] = {3, 4, 5, 6, 11, 12, 13, 15}
    <2>1. SymDiff({0, 5, 7, 8, 11, 12, 13, 15}, {}) = {0, 5, 7, 8, 11, 12, 13, 15}
        BY DEF SymDiff
    <2>2. EightSteps({0, 5, 7, 8, 11, 12, 13, 15}) = {3, 4, 5, 6, 11, 12, 13, 15}
        BY EightStepsWord, SameBits DEF Parity, Middle, Xor, Word16
    <2>3. {0, 5, 7, 8, 11, 12, 13, 15} \in Word16 /\ {} \in Byte
        BY DEF Word16, Byte
    <2> QED BY <2>1, <2>2, <2>3, TurnIs
<1>15. CrcByte[<<{3, 4, 5, 6, 11, 12, 13, 15}, {}>>] = {3, 4, 5, 7, 9, 13}
    <2>1. SymDiff({3, 4, 5, 6, 11, 12, 13, 15}, {}) = {3, 4, 5, 6, 11, 12, 13, 15}
        BY DEF SymDiff
    <2>2. EightSteps({3, 4, 5, 6, 11, 12, 13, 15}) = {3, 4, 5, 7, 9, 13}
        BY EightStepsWord, SameBits DEF Parity, Middle, Xor, Word16
    <2>3. {3, 4, 5, 6, 11, 12, 13, 15} \in Word16 /\ {} \in Byte
        BY DEF Word16, Byte
    <2> QED BY <2>1, <2>2, <2>3, TurnIs
<1>16. CrcByte[<<{3, 4, 5, 7, 9, 13}, {0, 2}>>] = {1, 5, 6, 7, 8, 12, 13, 14}
    <2>1. SymDiff({3, 4, 5, 7, 9, 13}, {0, 2}) = {0, 2, 3, 4, 5, 7, 9, 13}
        BY DEF SymDiff
    <2>2. EightSteps({0, 2, 3, 4, 5, 7, 9, 13}) = {1, 5, 6, 7, 8, 12, 13, 14}
        BY EightStepsWord, SameBits DEF Parity, Middle, Xor, Word16
    <2>3. {3, 4, 5, 7, 9, 13} \in Word16 /\ {0, 2} \in Byte
        BY DEF Word16, Byte
    <2> QED BY <2>1, <2>2, <2>3, TurnIs
<1>17. CrcByte[<<{1, 5, 6, 7, 8, 12, 13, 14}, {}>>] = {0, 4, 5, 6, 7, 8, 11, 14}
    <2>1. SymDiff({1, 5, 6, 7, 8, 12, 13, 14}, {}) = {1, 5, 6, 7, 8, 12, 13, 14}
        BY DEF SymDiff
    <2>2. EightSteps({1, 5, 6, 7, 8, 12, 13, 14}) = {0, 4, 5, 6, 7, 8, 11, 14}
        BY EightStepsWord, SameBits DEF Parity, Middle, Xor, Word16
    <2>3. {1, 5, 6, 7, 8, 12, 13, 14} \in Word16 /\ {} \in Byte
        BY DEF Word16, Byte
    <2> QED BY <2>1, <2>2, <2>3, TurnIs
<1> QED BY <1>1, <1>2, <1>3, <1>4, <1>5, <1>6, <1>7, <1>8, <1>9,
          <1>10, <1>11, <1>12, <1>13, <1>14, <1>15, <1>16, <1>17

LEMMA FirstTurns ==
    ASSUME NEW buf, NEW len \in Nat, len >= 17
    PROVE  LET crc == CrcAfter(buf, len)
           IN  /\ crc[0] = 0 .. 15
               /\ crc[1] = CrcByte[<<crc[0], buf[1]>>]
               /\ crc[2] = CrcByte[<<crc[1], buf[2]>>]
               /\ crc[3] = CrcByte[<<crc[2], buf[3]>>]
               /\ crc[4] = CrcByte[<<crc[3], buf[4]>>]
               /\ crc[5] = CrcByte[<<crc[4], buf[5]>>]
               /\ crc[6] = CrcByte[<<crc[5], buf[6]>>]
               /\ crc[7] = CrcByte[<<crc[6], buf[7]>>]
               /\ crc[8] = CrcByte[<<crc[7], buf[8]>>]
               /\ crc[9] = CrcByte[<<crc[8], buf[9]>>]
               /\ crc[10] = CrcByte[<<crc[9], buf[10]>>]
               /\ crc[11] = CrcByte[<<crc[10], buf[11]>>]
               /\ crc[12] = CrcByte[<<crc[11], buf[12]>>]
               /\ crc[13] = CrcByte[<<crc[12], buf[13]>>]
               /\ crc[14] = CrcByte[<<crc[13], buf[14]>>]
               /\ crc[15] = CrcByte[<<crc[14], buf[15]>>]
               /\ crc[16] = CrcByte[<<crc[15], buf[16]>>]
               /\ crc[17] = CrcByte[<<crc[16], buf[17]>>]
<1> DEFINE crc == CrcAfter(buf, len)
<1>1. crc[0] = 0 .. 15 /\ \A k \in 1 .. len : crc[k] = CrcByte[<<crc[k - 1], buf[k]>>]
    BY CrcTurn
<1> HIDE DEF crc
<1>2. \A k \in 0 .. 16 : crc[k + 1] = CrcByte[<<crc[k], buf[k + 1]>>]
    <2> TAKE k \in 0 .. 16
    <2>1. k + 1 \in 1 .. len /\ (k + 1) - 1 = k
        OBVIOUS
    <2> QED BY <1>1, <2>1
<1>3. /\ crc[1] = CrcByte[<<crc[0], buf[1]>>]
      /\ crc[2] = CrcByte[<<crc[1], buf[2]>>]
      /\ crc[3] = CrcByte[<<crc[2], buf[3]>>]
      /\ crc[4] = CrcByte[<<crc[3], buf[4]>>]
      /\ crc[5] = CrcByte[<<crc[4], buf[5]>>]
      /\ crc[6] = CrcByte[<<crc[5], buf[6]>>]
      /\ crc[7] = CrcByte[<<crc[6], buf[7]>>]
      /\ crc[8] = CrcByte[<<crc[7], buf[8]>>]
      /\ crc[9] = CrcByte[<<crc[8], buf[9]>>]
    BY <1>2
<1>4. /\ crc[10] = CrcByte[<<crc[9], buf[10]>>]
      /\ crc[11] = CrcByte[<<crc[10], buf[11]>>]
      /\ crc[12] = CrcByte[<<crc[11], buf[12]>>]
      /\ crc[13] = CrcByte[<<crc[12], buf[13]>>]
      /\ crc[14] = CrcByte[<<crc[13], buf[14]>>]
      /\ crc[15] = CrcByte[<<crc[14], buf[15]>>]
      /\ crc[16] = CrcByte[<<crc[15], buf[16]>>]
      /\ crc[17] = CrcByte[<<crc[16], buf[17]>>]
    BY <1>2
<1> QED BY <1>1, <1>3, <1>4 DEF crc

(* The CRC of the frame is not 0. *)
LEMMA NormalCrc ==
    ASSUME NEW buf, NEW len \in Nat, len >= 17,
           buf[1] = {0},
           buf[2] = {0, 1},
           buf[3] = {1, 2, 3},
           buf[4] = {1},
           buf[5] = {3, 6, 7},
           buf[6] = {0, 3},
           buf[7] = {1, 2, 5, 6, 7},
           buf[8] = {0},
           buf[9] = {6},
           buf[10] = {0, 1},
           buf[11] = {2, 4, 5},
           buf[12] = {},
           buf[13] = {},
           buf[14] = {},
           buf[15] = {},
           buf[16] = {0, 2},
           buf[17] = {}
    PROVE  CrcAfter(buf, len)[17] # {}
<1> DEFINE crc == CrcAfter(buf, len)
<1>1. /\ crc[0] = 0 .. 15
      /\ crc[1] = CrcByte[<<crc[0], buf[1]>>]
      /\ crc[2] = CrcByte[<<crc[1], buf[2]>>]
      /\ crc[3] = CrcByte[<<crc[2], buf[3]>>]
      /\ crc[4] = CrcByte[<<crc[3], buf[4]>>]
      /\ crc[5] = CrcByte[<<crc[4], buf[5]>>]
      /\ crc[6] = CrcByte[<<crc[5], buf[6]>>]
      /\ crc[7] = CrcByte[<<crc[6], buf[7]>>]
      /\ crc[8] = CrcByte[<<crc[7], buf[8]>>]
      /\ crc[9] = CrcByte[<<crc[8], buf[9]>>]
      /\ crc[10] = CrcByte[<<crc[9], buf[10]>>]
      /\ crc[11] = CrcByte[<<crc[10], buf[11]>>]
      /\ crc[12] = CrcByte[<<crc[11], buf[12]>>]
      /\ crc[13] = CrcByte[<<crc[12], buf[13]>>]
      /\ crc[14] = CrcByte[<<crc[13], buf[14]>>]
      /\ crc[15] = CrcByte[<<crc[14], buf[15]>>]
      /\ crc[16] = CrcByte[<<crc[15], buf[16]>>]
      /\ crc[17] = CrcByte[<<crc[16], buf[17]>>]
    BY FirstTurns
<1> HIDE DEF crc
<1>2. crc[4] = {2, 4, 5, 6, 8, 11, 12, 13, 14}
    BY <1>1, NormalTurns
<1>3. crc[8] = {0, 1, 2, 3, 5, 7, 8, 9, 11, 13, 14, 15}
    BY <1>1, <1>2, NormalTurns
<1>4. crc[12] = {1, 5, 7, 13}
    BY <1>1, <1>3, NormalTurns
<1>5. crc[17] = {0, 4, 5, 6, 7, 8, 11, 14}
    BY <1>1, <1>4, NormalTurns
<1>6. 4 \in crc[17]
    BY <1>5
<1> QED BY <1>6 DEF crc

(* The frame of the first test, byte by byte. *)
LEMMA NormalFrame ==
    LET frame == build_test_response(Regs(NormalRegs))
    IN  /\ frame \in Seq(Byte) /\ Len(frame) = 19 /\ Acceptable(frame)
        /\ modbus_crc16(frame, 17) # {}
<1> DEFINE regs == Regs(NormalRegs)
           frame == build_test_response(regs)
<1>1. /\ frame \in Seq(Byte) /\ Len(frame) = 19 /\ Acceptable(frame)
      /\ frame[1] = Bits(1) /\ frame[2] = Bits(3) /\ frame[3] = LowByte(Bits(14))
      /\ \A i \in 1 .. 7 : /\ frame[2 * i + 2] = HighByte(regs[i])
                            /\ frame[2 * i + 3] = LowByte(regs[i])
    <2>1. regs \in Seq(Word16) /\ Len(regs) = 7 /\ 7 <= MaxRegisters /\ 2 * 7 = 14 /\ 2 * 7 + 5 = 19
        BY NormalRegsAre DEF MaxRegisters
    <2> HIDE DEF regs
    <2>2. /\ frame \in Seq(Byte) /\ Len(frame) = 2 * Len(regs) + 5 /\ Acceptable(frame)
          /\ frame[1] = Bits(1) /\ frame[2] = FuncReadHolding
          /\ frame[3] = LowByte(Bits(2 * Len(regs)))
          /\ \A i \in 1 .. Len(regs) : /\ frame[2 * i + 2] = HighByte(regs[i])
                                       /\ frame[2 * i + 3] = LowByte(regs[i])
        BY <2>1, ResponseIs
    <2> HIDE DEF frame
    <2> QED BY <2>1, <2>2 DEF FuncReadHolding
<1> HIDE DEF regs, frame
<1>2. /\ frame[4] = HighByte(regs[1]) /\ frame[5] = LowByte(regs[1])
      /\ frame[6] = HighByte(regs[2]) /\ frame[7] = LowByte(regs[2])
      /\ frame[8] = HighByte(regs[3]) /\ frame[9] = LowByte(regs[3])
      /\ frame[10] = HighByte(regs[4]) /\ frame[11] = LowByte(regs[4])
      /\ frame[12] = HighByte(regs[5]) /\ frame[13] = LowByte(regs[5])
      /\ frame[14] = HighByte(regs[6]) /\ frame[15] = LowByte(regs[6])
      /\ frame[16] = HighByte(regs[7]) /\ frame[17] = LowByte(regs[7])
    BY <1>1
<1>3. HighByte({}) = {} /\ LowByte({}) = {}
    BY DEF HighByte, LowByte
<1>4. HighByte({6, 8}) = {0} /\ LowByte({6, 8}) = {6}
    BY HighByteIs, SameBits DEF LowByte, Word16
<1>5. HighByte({3, 6, 7, 9}) = {1} /\ LowByte({3, 6, 7, 9}) = {3, 6, 7}
    BY HighByteIs, SameBits DEF LowByte, Word16
<1>6. HighByte({2, 4, 5, 8, 9}) = {0, 1} /\ LowByte({2, 4, 5, 8, 9}) = {2, 4, 5}
    BY HighByteIs, SameBits DEF LowByte, Word16
<1>7. HighByte({8, 10}) = {0, 2} /\ LowByte({8, 10}) = {}
    BY HighByteIs, SameBits DEF LowByte, Word16
<1>8. HighByte({1, 2, 5, 6, 7, 8, 11}) = {0, 3} /\ LowByte({1, 2, 5, 6, 7, 8, 11}) = {1, 2, 5, 6, 7}
    BY HighByteIs, SameBits DEF LowByte, Word16
<1>9. LowByte({1, 2, 3}) = {1, 2, 3}
    BY DEF LowByte
<1>10. /\ regs[1] = {3, 6, 7, 9} /\ regs[2] = {1, 2, 5, 6, 7, 8, 11}
       /\ regs[3] = {6, 8} /\ regs[4] = {2, 4, 5, 8, 9}
       /\ regs[5] = {} /\ regs[6] = {} /\ regs[7] = {8, 10}
    BY NormalRegsAre DEF regs
<1>11. frame[1] = {0} /\ frame[2] = {0, 1} /\ frame[3] = {1, 2, 3}
    <2>1. Bits(1) = {0} /\ Bits(3) = {0, 1} /\ Bits(14) = {1, 2, 3}
        BY NormalNumbers
    <2>2. frame[1] = Bits(1) /\ frame[2] = Bits(3) /\ frame[3] = LowByte(Bits(14))
        BY <1>1
    <2> QED BY <1>9, <2>1, <2>2, Zenon
<1>12. /\ frame[4] = {1} /\ frame[5] = {3, 6, 7}
       /\ frame[6] = {0, 3} /\ frame[7] = {1, 2, 5, 6, 7}
       /\ frame[8] = {0} /\ frame[9] = {6}
       /\ frame[10] = {0, 1} /\ frame[11] = {2, 4, 5}
    BY <1>2, <1>4, <1>5, <1>6, <1>8, <1>10
<1>13. /\ frame[12] = {} /\ frame[13] = {} /\ frame[14] = {} /\ frame[15] = {}
       /\ frame[16] = {0, 2} /\ frame[17] = {}
    BY <1>2, <1>3, <1>7, <1>10
<1>14. CrcAfter(frame, 17)[17] # {}
    <2>1. 17 \in Nat /\ 17 >= 17
        OBVIOUS
    <2> QED BY <1>11, <1>12, <1>13, <2>1, NormalCrc
<1>15. modbus_crc16(frame, 17) # {}
    BY <1>14 DEF modbus_crc16
<1> QED BY <1>1, <1>15 DEF regs, frame

(* What modbus_run_sensor_tests expects of the frames holds: the five     *)
(* register sets are parsed back, and the exception, the frame with its   *)
(* CRC wiped out and the one cut to four bytes are refused.               *)
THEOREM SensorTestsHold == modbus_run_sensor_tests
<1> DEFINE normal == build_test_response(Regs(NormalRegs))
           damaged == [normal EXCEPT ![Len(normal) - 1] = {}, ![Len(normal)] = {}]
<1>1. RoundTrips(NormalRegs)
    <2>1. NormalRegs \in Seq(Nat) /\ Len(NormalRegs) <= 16
        BY NormalRegsAre
    <2> QED BY <2>1, RoundTripsHold
<1>2. /\ RoundTrips(<<0, 32767, 320, 820, 3, 0, 2048>>)
      /\ RoundTrips(<<450, 2500, 5000, 1500, 0, 5, 3072>>)
    <2> DEFINE fault == <<0, 32767, 320, 820, 3, 0, 2048>>
               alarm == <<450, 2500, 5000, 1500, 0, 5, 3072>>
    <2>1. /\ fault \in Seq(Nat) /\ Len(fault) <= 16
          /\ alarm \in Seq(Nat) /\ Len(alarm) <= 16
        OBVIOUS
    <2> HIDE DEF fault, alarm
    <2>2. RoundTrips(fault) /\ RoundTrips(alarm)
        BY <2>1, RoundTripsHold
    <2> QED BY <2>2 DEF fault, alarm
<1>3. RoundTrips([i \in 1 .. 7 |-> 0]) /\ RoundTrips([i \in 1 .. 7 |-> 65535])
    <2> DEFINE low == [i \in 1 .. 7 |-> 0]
               high == [i \in 1 .. 7 |-> 65535]
    <2>1. /\ low \in Seq(Nat) /\ Len(low) <= 16
          /\ high \in Seq(Nat) /\ Len(high) <= 16
        OBVIOUS
    <2> HIDE DEF low, high
    <2>2. RoundTrips(low) /\ RoundTrips(high)
        BY <2>1, RoundTripsHold
    <2> QED BY <2>2 DEF low, high
<1>4. ~Acceptable(ExceptionResponse(2))
    BY ExceptionIs DEF Acceptable
<1>5. normal \in Seq(Byte) /\ Len(normal) = 19 /\ Acceptable(normal)
    BY NormalFrame
<1>6. ~Acceptable(SubSeq(normal, 1, 4))
    <2> HIDE DEF normal
    <2>1. Len(SubSeq(normal, 1, 4)) = 4
        BY <1>5
    <2> QED BY <2>1 DEF Acceptable, ResponseMin
<1>7. ~Acceptable(damaged)
    <2>1. modbus_crc16(normal, 17) # {}
        BY NormalFrame
    <2> HIDE DEF normal
    <2>2. /\ damaged \in Seq(Byte) /\ Len(damaged) = 19
          /\ damaged[18] = {} /\ damaged[19] = {}
          /\ \A k \in 1 .. 19 : k # 18 /\ k # 19 => normal[k] = damaged[k]
        <3>1. {} \in Byte /\ 19 - 1 = 18
            BY DEF Byte
        <3>2. damaged = [normal EXCEPT ![18] = {}, ![19] = {}]
            BY <1>5, <3>1
        <3>3. DOMAIN normal = 1 .. 19
            BY <1>5
        <3> HIDE DEF damaged
        <3>4. /\ damaged = [k \in 1 .. 19 |-> damaged[k]]
              /\ \A k \in 1 .. 19 : damaged[k] = IF k \in {18, 19} THEN {} ELSE normal[k]
            BY <3>2, <3>3
        <3>5. \A k \in 1 .. 19 : damaged[k] \in Byte
            <4>1. \A k \in 1 .. 19 : normal[k] \in Byte
                <5>1. normal \in Seq(Byte)
                    BY <1>5
                <5>2. \A k \in 1 .. Len(normal) : normal[k] \in Byte
                    BY <5>1
                <5> QED BY <1>5, <5>2
            <4>2. ASSUME NEW k \in 1 .. 19 PROVE damaged[k] = {} \/ damaged[k] = normal[k]
                BY <3>4
            <4> QED BY <3>1, <4>1, <4>2
        <3>6. damaged \in Seq(Byte) /\ Len(damaged) = 19
            BY <3>4, <3>5
        <3> QED BY <3>4, <3>6
    <2> HIDE DEF damaged
    <2>3. WordOf(normal[19], normal[18]) = modbus_crc16(normal, 17)
        BY <1>5 DEF Acceptable
    <2>4. damaged # normal
        <3>1. WordOf({}, {}) = {}
            BY DEF WordOf
        <3> QED BY <2>1, <2>2, <2>3, <3>1
    <2>5. 18 \in 1 .. Len(normal) - 1 /\ 18 + 1 = 19
        BY <1>5
    <2> QED BY <1>5, <2>2, <2>4, <2>5, DamagedPairRefused
<1> QED BY <1>1, <1>2, <1>3, <1>4, <1>6, <1>7 DEF modbus_run_sensor_tests, modbus_parse_response

=============================================================================
