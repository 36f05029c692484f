--------------------------- MODULE Ds18b20Proofs ---------------------------
(***************************************************************************)
(* What a read of a thermometer finds, for any lines, sensors, clients,    *)
(* scratchpads and stretched slots.                                        *)
(***************************************************************************)
EXTENDS Ds18b20, FiniteSetTheorems, SequenceTheorems, TLAPS

Bits == [Slots -> {0, 1}]

(* The sum of the bits by their weights. *)
Value(bits) ==
  bits[1] + 2 * bits[2] + 4 * bits[3] + 8 * bits[4] + 16 * bits[5] + 32 * bits[6]
    + 64 * bits[7] + 128 * bits[8]

(* The recursion of ByteOf comes to that sum. *)
LEMMA ByteOfIs ==
  ASSUME NEW bits \in Bits
  PROVE  ByteOf(bits) = Value(bits)
<1> DEFINE F(b) == [i \in 0 .. 8 |-> IF i = 0 THEN 0 ELSE b[i - 1] + bits[i] * Weight[i]]
           s1 == bits[1]
           s2 == s1 + 2 * bits[2]
           s3 == s2 + 4 * bits[3]
           s4 == s3 + 8 * bits[4]
           s5 == s4 + 16 * bits[5]
           s6 == s5 + 32 * bits[6]
           s7 == s6 + 64 * bits[7]
           s8 == s7 + 128 * bits[8]
           s  == [i \in 0 .. 8 |-> << 0, s1, s2, s3, s4, s5, s6, s7, s8 >>[i + 1]]
           g  == CHOOSE b : b = F(b)
<1>1. s = F(s)
  BY DEF Weight, Slots, Bits
<1>2. g = F(g)
  BY <1>1
<1>3. ByteOf(bits) = g[8]
  BY DEF ByteOf
<1> HIDE DEF g
<1>4. /\ g[0] = 0 /\ g[1] = g[0] + bits[1] * Weight[1] /\ g[2] = g[1] + bits[2] * Weight[2]
      /\ g[3] = g[2] + bits[3] * Weight[3] /\ g[4] = g[3] + bits[4] * Weight[4]
      /\ g[5] = g[4] + bits[5] * Weight[5] /\ g[6] = g[5] + bits[6] * Weight[6]
      /\ g[7] = g[6] + bits[7] * Weight[7] /\ g[8] = g[7] + bits[8] * Weight[8]
  BY <1>2
<1> QED
  BY <1>3, <1>4 DEF Weight, Slots, Bits, Value

(* Shifting each bit in from the top, as the driver does, comes to the     *)
(* same sum.                                                               *)
LEMMA ReadBitsIs ==
  ASSUME NEW bits \in Bits
  PROVE  ReadBits(bits) = Value(bits)
<1> DEFINE F(b) == [i \in 0 .. 8 |-> IF i = 0 THEN 0 ELSE b[i - 1] \div 2 + 128 * bits[i]]
           s1 == 128 * bits[1]
           s2 == 64 * bits[1] + 128 * bits[2]
           s3 == 32 * bits[1] + 64 * bits[2] + 128 * bits[3]
           s4 == 16 * bits[1] + 32 * bits[2] + 64 * bits[3] + 128 * bits[4]
           s5 == 8 * bits[1] + 16 * bits[2] + 32 * bits[3] + 64 * bits[4] + 128 * bits[5]
           s6 == 4 * bits[1] + 8 * bits[2] + 16 * bits[3] + 32 * bits[4] + 64 * bits[5]
                   + 128 * bits[6]
           s7 == 2 * bits[1] + 4 * bits[2] + 8 * bits[3] + 16 * bits[4] + 32 * bits[5]
                   + 64 * bits[6] + 128 * bits[7]
           s8 == Value(bits)
           s  == [i \in 0 .. 8 |-> << 0, s1, s2, s3, s4, s5, s6, s7, s8 >>[i + 1]]
           g  == CHOOSE b : b = F(b)
<1>1. /\ bits[1] \in {0, 1} /\ bits[2] \in {0, 1} /\ bits[3] \in {0, 1} /\ bits[4] \in {0, 1}
      /\ bits[5] \in {0, 1} /\ bits[6] \in {0, 1} /\ bits[7] \in {0, 1} /\ bits[8] \in {0, 1}
  BY DEF Bits, Slots
<1>2. /\ bits[1] \in Int /\ bits[2] \in Int /\ bits[3] \in Int /\ bits[4] \in Int
      /\ bits[5] \in Int /\ bits[6] \in Int /\ bits[7] \in Int /\ bits[8] \in Int
  BY <1>1
<1>11. s1 = 0 \div 2 + 128 * bits[1]
  BY <1>1
<1>12. s2 = s1 \div 2 + 128 * bits[2]
  BY <1>1
<1>13. s3 = s2 \div 2 + 128 * bits[3]
  BY <1>1
<1>14. s4 = s3 \div 2 + 128 * bits[4]
  BY <1>1
<1>15. s5 = s4 \div 2 + 128 * bits[5]
  BY <1>1
<1>16. s6 = s5 \div 2 + 128 * bits[6]
  BY <1>1
<1>17. s7 = s6 \div 2 + 128 * bits[7]
  BY <1>1
<1>18. s8 = s7 \div 2 + 128 * bits[8]
  BY <1>1 DEF Value
<1>3. s = F(s)
  <2> HIDE DEF s1, s2, s3, s4, s5, s6, s7, s8
  <2>1. s[0] = 0
    OBVIOUS
  <2>2. s[1] = s[0] \div 2 + 128 * bits[1]
    BY <1>11
  <2>3. s[2] = s[1] \div 2 + 128 * bits[2]
    BY <1>12
  <2>4. s[3] = s[2] \div 2 + 128 * bits[3]
    BY <1>13
  <2>5. s[4] = s[3] \div 2 + 128 * bits[4]
    BY <1>14
  <2>6. s[5] = s[4] \div 2 + 128 * bits[5]
    BY <1>15
  <2>7. s[6] = s[5] \div 2 + 128 * bits[6]
    BY <1>16
  <2>8. s[7] = s[6] \div 2 + 128 * bits[7]
    BY <1>17
  <2>9. s[8] = s[7] \div 2 + 128 * bits[8]
    BY <1>18
  <2>10. s = [i \in 0 .. 8 |-> s[i]]
    OBVIOUS
  <2> HIDE DEF s
  <2>11. ASSUME NEW i \in 0 .. 8
         PROVE  s[i] = IF i = 0 THEN 0 ELSE s[i - 1] \div 2 + 128 * bits[i]
    <3>0. i \in {0, 1, 2, 3, 4, 5, 6, 7, 8}
      OBVIOUS
    <3>1. CASE i = 0
      BY <2>1, <3>1
    <3>2. CASE i = 1
      BY <2>2, <3>2
    <3>3. CASE i = 2
      BY <2>3, <3>3
    <3>4. CASE i = 3
      BY <2>4, <3>4
    <3>5. CASE i = 4
      BY <2>5, <3>5
    <3>6. CASE i = 5
      BY <2>6, <3>6
    <3>7. CASE i = 6
      BY <2>7, <3>7
    <3>8. CASE i = 7
      BY <2>8, <3>8
    <3>9. CASE i = 8
      BY <2>9, <3>9
    <3> QED
      BY <3>0, <3>1, <3>2, <3>3, <3>4, <3>5, <3>6, <3>7, <3>8, <3>9
  <2> QED
    BY <2>10, <2>11
<1>4. g = F(g)
  BY <1>3
<1>5. ReadBits(bits) = g[8]
  BY DEF ReadBits
<1> HIDE DEF g
<1>6. g[8] = s8
  <2>0. g[0] = 0
    BY <1>4
  <2>1. g[1] = s1
    <3>1. g[1] = g[0] \div 2 + 128 * bits[1]
      BY <1>4
    <3> HIDE DEF s1, s2, s3, s4, s5, s6, s7, s8
    <3> QED
      BY <2>0, <3>1, <1>11
  <2>2. g[2] = s2
    <3>1. g[2] = g[1] \div 2 + 128 * bits[2]
      BY <1>4
    <3> HIDE DEF s1, s2, s3, s4, s5, s6, s7, s8
    <3> QED
      BY <2>1, <3>1, <1>12
  <2>3. g[3] = s3
    <3>1. g[3] = g[2] \div 2 + 128 * bits[3]
      BY <1>4
    <3> HIDE DEF s1, s2, s3, s4, s5, s6, s7, s8
    <3> QED
      BY <2>2, <3>1, <1>13
  <2>4. g[4] = s4
    <3>1. g[4] = g[3] \div 2 + 128 * bits[4]
      BY <1>4
    <3> HIDE DEF s1, s2, s3, s4, s5, s6, s7, s8
    <3> QED
      BY <2>3, <3>1, <1>14
  <2>5. g[5] = s5
    <3>1. g[5] = g[4] \div 2 + 128 * bits[5]
      BY <1>4
    <3> HIDE DEF s1, s2, s3, s4, s5, s6, s7, s8
    <3> QED
      BY <2>4, <3>1, <1>15
  <2>6. g[6] = s6
    <3>1. g[6] = g[5] \div 2 + 128 * bits[6]
      BY <1>4
    <3> HIDE DEF s1, s2, s3, s4, s5, s6, s7, s8
    <3> QED
      BY <2>5, <3>1, <1>16
  <2>7. g[7] = s7
    <3>1. g[7] = g[6] \div 2 + 128 * bits[7]
      BY <1>4
    <3> HIDE DEF s1, s2, s3, s4, s5, s6, s7, s8
    <3> QED
      BY <2>6, <3>1, <1>17
  <2>8. g[8] = s8
    <3>1. g[8] = g[7] \div 2 + 128 * bits[8]
      BY <1>4
    <3> HIDE DEF s1, s2, s3, s4, s5, s6, s7, s8
    <3> QED
      BY <2>7, <3>1, <1>18
  <2> QED
    BY <2>8
<1> QED
  BY <1>5, <1>6

(* A byte is the sum of its bits. *)
LEMMA BitsAre ==
  ASSUME NEW x \in Byte
  PROVE  BitsOf(x) \in Bits /\ Value(BitsOf(x)) = x
<1>1. \A i \in Slots : (x \div Weight[i]) % 2 \in {0, 1}
  <2>1. x \in Int
    BY DEF Byte
  <2>2. \A i \in Slots : Weight[i] \in Nat \ {0}
    BY DEF Slots, Weight
  <2>3. \A i \in Slots : x \div Weight[i] \in Int
    BY <2>1, <2>2
  <2> QED
    BY <2>3
<1>2. BitsOf(x) \in Bits
  BY <1>1 DEF BitsOf, Bits
<1>3. x = (x % 2) + 2 * ((x \div 2) % 2) + 4 * ((x \div 4) % 2) + 8 * ((x \div 8) % 2)
            + 16 * ((x \div 16) % 2) + 32 * ((x \div 32) % 2) + 64 * ((x \div 64) % 2)
            + 128 * ((x \div 128) % 2)
  BY DEF Byte
<1> DEFINE b == BitsOf(x)
<1>4. /\ b[1] = (x \div 1) % 2 /\ b[2] = (x \div 2) % 2 /\ b[3] = (x \div 4) % 2
      /\ b[4] = (x \div 8) % 2 /\ b[5] = (x \div 16) % 2 /\ b[6] = (x \div 32) % 2
      /\ b[7] = (x \div 64) % 2 /\ b[8] = (x \div 128) % 2
  BY DEF BitsOf, Slots, Weight
<1>5. x \div 1 = x
  BY DEF Byte
<1> HIDE DEF b
<1>6. Value(b) = x
  BY <1>3, <1>4, <1>5 DEF Value
<1> QED
  BY <1>2, <1>6 DEF b

LEMMA ValueInHalves ==
  ASSUME NEW bits \in Bits
  PROVE  LET low  == bits[1] + 2 * bits[2] + 4 * bits[3] + 8 * bits[4]
             high == bits[5] + 2 * bits[6] + 4 * bits[7] + 8 * bits[8]
         IN  low \in 0 .. 15 /\ high \in 0 .. 15 /\ Value(bits) = low + 16 * high
<1>1. /\ bits[1] \in {0, 1} /\ bits[2] \in {0, 1} /\ bits[3] \in {0, 1} /\ bits[4] \in {0, 1}
      /\ bits[5] \in {0, 1} /\ bits[6] \in {0, 1} /\ bits[7] \in {0, 1} /\ bits[8] \in {0, 1}
  BY DEF Bits, Slots
<1> DEFINE low  == bits[1] + 2 * bits[2] + 4 * bits[3] + 8 * bits[4]
           high == bits[5] + 2 * bits[6] + 4 * bits[7] + 8 * bits[8]
<1>2. low \in 0 .. 15 /\ high \in 0 .. 15
  BY <1>1
<1>3. Value(bits) = low + 16 * high
  BY <1>1 DEF Value
<1> QED
  BY <1>2, <1>3

LEMMA ValueIsByte ==
  ASSUME NEW bits \in Bits
  PROVE  Value(bits) \in Byte
<1> DEFINE low  == bits[1] + 2 * bits[2] + 4 * bits[3] + 8 * bits[4]
           high == bits[5] + 2 * bits[6] + 4 * bits[7] + 8 * bits[8]
<1>1. low \in 0 .. 15 /\ high \in 0 .. 15 /\ Value(bits) = low + 16 * high
  BY ValueInHalves
<1> HIDE DEF low, high
<1> QED
  BY <1>1 DEF Byte

(* What is written is heard, and what is sent is read, when no slot is     *)
(* stretched.                                                              *)
LEMMA Unstretched ==
  ASSUME NEW x \in Byte
  PROVE  HeardByte(WriteBits(x)) = x /\ ReadBits(SentBits(x)) = x
  BY BitsAre, ByteOfIs, ReadBitsIs DEF HeardByte, WriteBits, SentBits

LEMMA XorIsByte ==
  ASSUME NEW x \in Byte, NEW y \in Byte
  PROVE  Xor(x, y) \in Byte
<1> DEFINE bits == [i \in Slots |-> (BitsOf(x)[i] + BitsOf(y)[i]) % 2]
<1>1. bits \in Bits
  BY BitsAre DEF Bits
<1> QED
  BY <1>1, ByteOfIs, ValueIsByte DEF Xor

LEMMA ShiftIsByte ==
  ASSUME NEW x \in Byte
  PROVE  ShiftCrc(x) \in Byte
<1>1. x \div 2 \in Byte /\ 140 \in Byte
  BY DEF Byte
<1> QED
  BY <1>1, XorIsByte DEF ShiftCrc

(* Eight shifts, which leave a byte a byte. *)
Shift2(x) == ShiftCrc(ShiftCrc(x))
Shift4(x) == Shift2(Shift2(x))
Shift8(x) == Shift4(Shift4(x))

LEMMA CrcIsShifts ==
  ASSUME NEW x \in Byte
  PROVE  CrcOf(x) = Shift8(x)
<1> DEFINE F(c) == [i \in 0 .. 8 |-> IF i = 0 THEN x ELSE ShiftCrc(c[i - 1])]
           s1 == ShiftCrc(x)
           s2 == ShiftCrc(s1)
           s3 == ShiftCrc(s2)
           s4 == ShiftCrc(s3)
           s5 == ShiftCrc(s4)
           s6 == ShiftCrc(s5)
           s7 == ShiftCrc(s6)
           s8 == ShiftCrc(s7)
           s  == [i \in 0 .. 8 |-> << x, s1, s2, s3, s4, s5, s6, s7, s8 >>[i + 1]]
           g  == CHOOSE c : c = F(c)
<1>1. s = F(s)
  <2>1. s[0] = x
    OBVIOUS
  <2>2. s[1] = ShiftCrc(s[0])
    OBVIOUS
  <2>3. s[2] = ShiftCrc(s[1])
    OBVIOUS
  <2>4. s[3] = ShiftCrc(s[2])
    OBVIOUS
  <2>5. s[4] = ShiftCrc(s[3])
    OBVIOUS
  <2>6. s[5] = ShiftCrc(s[4])
    OBVIOUS
  <2>7. s[6] = ShiftCrc(s[5])
    OBVIOUS
  <2>8. s[7] = ShiftCrc(s[6])
    OBVIOUS
  <2>9. s[8] = ShiftCrc(s[7])
    OBVIOUS
  <2>10. s = [i \in 0 .. 8 |-> s[i]]
    OBVIOUS
  <2> HIDE DEF s
  <2>11. ASSUME NEW i \in 0 .. 8
         PROVE  s[i] = IF i = 0 THEN x ELSE ShiftCrc(s[i - 1])
    <3>0. i \in {0, 1, 2, 3, 4, 5, 6, 7, 8}
      OBVIOUS
    <3>1. CASE i = 0
      BY <2>1, <3>1
    <3>2. CASE i = 1
      BY <2>2, <3>2
    <3>3. CASE i = 2
      BY <2>3, <3>3
    <3>4. CASE i = 3
      BY <2>4, <3>4
    <3>5. CASE i = 4
      BY <2>5, <3>5
    <3>6. CASE i = 5
      BY <2>6, <3>6
    <3>7. CASE i = 6
      BY <2>7, <3>7
    <3>8. CASE i = 7
      BY <2>8, <3>8
    <3>9. CASE i = 8
      BY <2>9, <3>9
    <3> QED
      BY <3>0, <3>1, <3>2, <3>3, <3>4, <3>5, <3>6, <3>7, <3>8, <3>9
  <2> QED
    BY <2>10, <2>11
<1>2. g = F(g)
  BY <1>1
<1>3. CrcOf(x) = g[8]
  BY DEF CrcOf
<1> HIDE DEF g
<1>4. g[0] = x /\ \A i \in 1 .. 8 : g[i] = ShiftCrc(g[i - 1])
  BY <1>2
<1>5. g[2] = Shift2(x) /\ g[4] = Shift2(g[2]) /\ g[6] = Shift2(g[4]) /\ g[8] = Shift2(g[6])
  BY <1>4 DEF Shift2
<1> QED
  BY <1>3, <1>5 DEF Shift4, Shift8

LEMMA CrcIsByte ==
  ASSUME NEW x \in Byte
  PROVE  CrcOf(x) \in Byte
<1>1. \A y \in Byte : Shift2(y) \in Byte
  BY ShiftIsByte DEF Shift2
<1> QED
  BY <1>1, CrcIsShifts DEF Shift4, Shift8

------------------------------------------------------------------------------
(* The register as it takes the first n bytes of the data.                 *)
Run(c, data, n) ==
  /\ c \in [0 .. n -> Byte]
  /\ c[0] = 0
  /\ \A i \in 1 .. n : c[i] = CrcOf(Xor(c[i - 1], data[i]))

(* There is such a register, for a scratchpad without its checksum and     *)
(* with it.                                                                *)
LEMMA RunExists ==
  ASSUME NEW n \in {8, 9}, NEW data, \A i \in 1 .. n : data[i] \in Byte
  PROVE  \E c : /\ Run(c, data, n)
                /\ c = [i \in 0 .. n |-> IF i = 0 THEN 0 ELSE CrcOf(Xor(c[i - 1], data[i]))]
<1> DEFINE s1 == CrcOf(Xor(0, data[1]))
           s2 == CrcOf(Xor(s1, data[2]))
           s3 == CrcOf(Xor(s2, data[3]))
           s4 == CrcOf(Xor(s3, data[4]))
           s5 == CrcOf(Xor(s4, data[5]))
           s6 == CrcOf(Xor(s5, data[6]))
           s7 == CrcOf(Xor(s6, data[7]))
           s8 == CrcOf(Xor(s7, data[8]))
           s9 == CrcOf(Xor(s8, data[9]))
           s  == [i \in 0 .. n |-> << 0, s1, s2, s3, s4, s5, s6, s7, s8, s9 >>[i + 1]]
<1> HIDE DEF s1, s2, s3, s4, s5, s6, s7, s8, s9
<1>0. /\ s[0] = 0 /\ s[1] = s1 /\ s[2] = s2 /\ s[3] = s3 /\ s[4] = s4
      /\ s[5] = s5 /\ s[6] = s6 /\ s[7] = s7 /\ s[8] = s8 /\ (n = 9 => s[9] = s9)
  OBVIOUS
<1>1. s = [i \in 0 .. n |-> s[i]]
  OBVIOUS
<1> HIDE DEF s
<1>2. /\ s[0] = 0
      /\ s[1] = CrcOf(Xor(s[0], data[1]))
      /\ s[2] = CrcOf(Xor(s[1], data[2]))
      /\ s[3] = CrcOf(Xor(s[2], data[3]))
      /\ s[4] = CrcOf(Xor(s[3], data[4]))
  BY <1>0 DEF s1, s2, s3, s4
<1>3. /\ s[5] = CrcOf(Xor(s[4], data[5]))
      /\ s[6] = CrcOf(Xor(s[5], data[6]))
      /\ s[7] = CrcOf(Xor(s[6], data[7]))
      /\ s[8] = CrcOf(Xor(s[7], data[8]))
      /\ n = 9 => s[9] = CrcOf(Xor(s[8], data[9]))
  BY <1>0 DEF s5, s6, s7, s8, s9
<1>4. ASSUME NEW i \in 1 .. n
      PROVE  s[i] = CrcOf(Xor(s[i - 1], data[i]))
  <2>1. i \in {1, 2, 3, 4, 5, 6, 7, 8} \/ (i = 9 /\ n = 9)
    OBVIOUS
  <2>2. CASE i \in {1, 2, 3, 4}
    BY <1>2, <2>2
  <2>3. CASE i \in {5, 6, 7, 8}
    BY <1>3, <2>3
  <2>4. CASE i = 9 /\ n = 9
    BY <1>3, <2>4
  <2> QED
    BY <2>1, <2>2, <2>3, <2>4
<1>5. ASSUME NEW i \in 1 .. n, s[i - 1] \in Byte
      PROVE  s[i] \in Byte
  BY <1>4, <1>5, XorIsByte, CrcIsByte
<1>6. 0 \in Byte
  BY DEF Byte
<1>7. s[0] \in Byte /\ s[1] \in Byte /\ s[2] \in Byte /\ s[3] \in Byte /\ s[4] \in Byte
  BY <1>2, <1>5, <1>6
<1>8. s[5] \in Byte /\ s[6] \in Byte /\ s[7] \in Byte /\ s[8] \in Byte
  BY <1>5, <1>7
<1>9. n = 9 => s[9] \in Byte
  BY <1>5, <1>8
<1>10. \A i \in 0 .. n : s[i] \in Byte
  <2> SUFFICES ASSUME NEW i \in 0 .. n PROVE s[i] \in Byte
    OBVIOUS
  <2>1. i \in {0, 1, 2, 3, 4} \/ i \in {5, 6, 7, 8} \/ (i = 9 /\ n = 9)
    OBVIOUS
  <2> QED
    BY <1>7, <1>8, <1>9, <2>1
<1>11. Run(s, data, n)
  <2>1. s \in [0 .. n -> Byte]
    BY <1>1, <1>10
  <2> QED
    BY <1>2, <1>4, <2>1 DEF Run
<1>12. s = [i \in 0 .. n |-> IF i = 0 THEN 0 ELSE CrcOf(Xor(s[i - 1], data[i]))]
  <2>1. ASSUME NEW i \in 0 .. n
        PROVE  s[i] = IF i = 0 THEN 0 ELSE CrcOf(Xor(s[i - 1], data[i]))
    BY <1>2, <1>4
  <2> QED
    BY <1>1, <2>1
<1> QED
  BY <1>11, <1>12

(* And one only. *)
LEMMA RunIsOne ==
  ASSUME NEW n \in {8, 9}, NEW data, NEW c, NEW e,
         c[0] = 0, \A i \in 1 .. 8 : c[i] = CrcOf(Xor(c[i - 1], data[i])),
         e[0] = 0, \A i \in 1 .. 8 : e[i] = CrcOf(Xor(e[i - 1], data[i])),
         n = 9 => c[9] = CrcOf(Xor(c[8], data[9])) /\ e[9] = CrcOf(Xor(e[8], data[9]))
  PROVE  \A i \in 0 .. n : c[i] = e[i]
<1>1. \A i \in 1 .. 8 : c[i - 1] = e[i - 1] => c[i] = e[i]
  OBVIOUS
<1>2. c[1] = e[1] /\ c[2] = e[2] /\ c[3] = e[3] /\ c[4] = e[4]
  BY <1>1
<1>3. c[5] = e[5] /\ c[6] = e[6] /\ c[7] = e[7] /\ c[8] = e[8]
  BY <1>1, <1>2
<1>4. n = 9 => c[9] = e[9]
  BY <1>3
<1> SUFFICES ASSUME NEW i \in 0 .. n PROVE c[i] = e[i]
  OBVIOUS
<1>5. i \in {0, 1, 2, 3, 4} \/ i \in {5, 6, 7, 8} \/ (i = 9 /\ n = 9)
  OBVIOUS
<1> QED
  BY <1>2, <1>3, <1>4, <1>5

(* The sensor's checksum is what its register holds in the end. *)
LEMMA SensorCrcIs ==
  ASSUME NEW pad \in Seq(Byte), Len(pad) = 8
  PROVE  \E c : Run(c, pad, 8) /\ SensorCrc(pad) = c[8]
<1> DEFINE F(c) == [i \in 0 .. Len(pad) |-> IF i = 0 THEN 0 ELSE CrcOf(Xor(c[i - 1], pad[i]))]
           g    == CHOOSE c : c = F(c)
<1>1. \A i \in 1 .. 8 : pad[i] \in Byte
  BY LenProperties
<1>2. PICK s : Run(s, pad, 8) /\ s = F(s)
  BY <1>1, RunExists
<1>3. g = F(g)
  BY <1>2
<1>4. SensorCrc(pad) = g[8]
  BY DEF SensorCrc
<1> HIDE DEF g
<1>5. g[0] = 0 /\ \A i \in 1 .. 8 : g[i] = CrcOf(Xor(g[i - 1], pad[i]))
  BY <1>3
<1> HIDE DEF F
<1>6. \A i \in 0 .. 8 : s[i] = g[i]
  BY <1>2, <1>5, RunIsOne DEF Run
<1> QED
  BY <1>2, <1>4, <1>6

LEMMA SensorCrcIsByte ==
  ASSUME NEW pad \in Seq(Byte), Len(pad) = 8
  PROVE  SensorCrc(pad) \in Byte
  BY SensorCrcIs DEF Run

LEMMA SealedIs ==
  ASSUME NEW pad \in Pads
  PROVE  /\ Sealed[pad] \in [1 .. 9 -> Byte]
         /\ \A i \in 1 .. 8 : Sealed[pad][i] = pad[i]
         /\ Sealed[pad][9] = SensorCrc(pad)
<1>1. pad \in Seq(Byte) /\ Len(pad) = 8 /\ SensorCrc(pad) \in Byte
  BY SensorCrcIsByte, Ds18b20Assumption
<1>2. ASSUME NEW c \in Byte
      PROVE  /\ Append(pad, c) \in [1 .. 9 -> Byte]
             /\ \A i \in 1 .. 8 : Append(pad, c)[i] = pad[i]
             /\ Append(pad, c)[9] = c
  <2>1. /\ Append(pad, c) \in Seq(Byte) /\ Len(Append(pad, c)) = Len(pad) + 1
        /\ \A i \in 1 .. Len(pad) : Append(pad, c)[i] = pad[i]
        /\ Append(pad, c)[Len(pad) + 1] = c
    <3>1. \A seq \in Seq(Byte), elt \in Byte :
            /\ Append(seq, elt) \in Seq(Byte) /\ Len(Append(seq, elt)) = Len(seq) + 1
            /\ \A i \in 1 .. Len(seq) : Append(seq, elt)[i] = seq[i]
            /\ Append(seq, elt)[Len(seq) + 1] = elt
      BY AppendProperties
    <3> QED
      BY <1>1, <1>2, <3>1
  <2>2. Len(Append(pad, c)) = 9
    BY <1>1, <2>1
  <2> QED
    BY <1>1, <2>1, <2>2, LenProperties
<1> QED
  BY <1>1, <1>2 DEF Sealed
------------------------------------------------------------------------------
(* Exclusive or, bit by bit. *)

LEMMA BitsOfValue ==
  ASSUME NEW bits \in Bits
  PROVE  BitsOf(Value(bits)) = bits
<1> DEFINE x == Value(bits)
<1>1. /\ bits[1] \in {0, 1} /\ bits[2] \in {0, 1} /\ bits[3] \in {0, 1} /\ bits[4] \in {0, 1}
      /\ bits[5] \in {0, 1} /\ bits[6] \in {0, 1} /\ bits[7] \in {0, 1} /\ bits[8] \in {0, 1}
  BY DEF Bits, Slots
<1>2. (x \div 1) % 2 = bits[1] /\ (x \div 2) % 2 = bits[2]
  BY <1>1 DEF Value
<1>3. (x \div 4) % 2 = bits[3] /\ (x \div 8) % 2 = bits[4]
  BY <1>1 DEF Value
<1>4. (x \div 16) % 2 = bits[5] /\ (x \div 32) % 2 = bits[6]
  BY <1>1 DEF Value
<1>5. (x \div 64) % 2 = bits[7] /\ (x \div 128) % 2 = bits[8]
  BY <1>1 DEF Value
<1> HIDE DEF x
<1>6. \A i \in Slots : (x \div Weight[i]) % 2 = bits[i]
  BY <1>2, <1>3, <1>4, <1>5 DEF Slots, Weight
<1>7. BitsOf(x) = [i \in Slots |-> bits[i]]
  BY <1>6 DEF BitsOf
<1> QED
  BY <1>7 DEF x, Bits

LEMMA SameBits ==
  ASSUME NEW x \in Byte, NEW y \in Byte, \A i \in Slots : BitsOf(x)[i] = BitsOf(y)[i]
  PROVE  x = y
<1>1. BitsOf(x) = BitsOf(y)
  BY BitsAre DEF Bits
<1> QED
  BY <1>1, BitsAre

LEMMA XorBits ==
  ASSUME NEW x \in Byte, NEW y \in Byte
  PROVE  /\ Xor(x, y) \in Byte
         /\ \A i \in Slots : BitsOf(Xor(x, y))[i] = (BitsOf(x)[i] + BitsOf(y)[i]) % 2
<1> DEFINE bits == [i \in Slots |-> (BitsOf(x)[i] + BitsOf(y)[i]) % 2]
<1>1. bits \in Bits
  BY BitsAre DEF Bits
<1>2. Xor(x, y) = Value(bits)
  BY <1>1, ByteOfIs DEF Xor
<1>3. BitsOf(Xor(x, y)) = bits
  BY <1>1, <1>2, BitsOfValue
<1> QED
  BY <1>3, XorIsByte

LEMMA BitIs ==
  ASSUME NEW x \in Byte, NEW i \in Slots
  PROVE  BitsOf(x)[i] \in {0, 1}
  BY BitsAre DEF Bits

(* The laws of exclusive or. *)
LEMMA XorCommutes ==
  ASSUME NEW x \in Byte, NEW y \in Byte
  PROVE  Xor(x, y) = Xor(y, x)
<1>1. \A i \in Slots : BitsOf(Xor(x, y))[i] = BitsOf(Xor(y, x))[i]
  BY XorBits, BitIs
<1> QED
  BY <1>1, XorBits, SameBits

LEMMA XorSwaps ==
  ASSUME NEW x \in Byte, NEW y \in Byte, NEW z \in Byte, NEW w \in Byte
  PROVE  Xor(Xor(x, y), Xor(z, w)) = Xor(Xor(x, z), Xor(y, w))
<1>1. ASSUME NEW i \in Slots
      PROVE  BitsOf(Xor(Xor(x, y), Xor(z, w)))[i] = BitsOf(Xor(Xor(x, z), Xor(y, w)))[i]
  <2> DEFINE a == BitsOf(x)[i]
             b == BitsOf(y)[i]
             c == BitsOf(z)[i]
             d == BitsOf(w)[i]
  <2>1. a \in {0, 1} /\ b \in {0, 1} /\ c \in {0, 1} /\ d \in {0, 1}
    BY BitIs
  <2>2. /\ BitsOf(Xor(Xor(x, y), Xor(z, w)))[i] = (((a + b) % 2) + ((c + d) % 2)) % 2
        /\ BitsOf(Xor(Xor(x, z), Xor(y, w)))[i] = (((a + c) % 2) + ((b + d) % 2)) % 2
    <3>1. /\ Xor(x, y) \in Byte /\ Xor(z, w) \in Byte
          /\ Xor(x, z) \in Byte /\ Xor(y, w) \in Byte
      BY XorBits
    <3>2. /\ BitsOf(Xor(x, y))[i] = (a + b) % 2
          /\ BitsOf(Xor(z, w))[i] = (c + d) % 2
          /\ BitsOf(Xor(x, z))[i] = (a + c) % 2
          /\ BitsOf(Xor(y, w))[i] = (b + d) % 2
      BY XorBits
    <3>3. BitsOf(Xor(Xor(x, y), Xor(z, w)))[i] = (BitsOf(Xor(x, y))[i] + BitsOf(Xor(z, w))[i]) % 2
      BY <3>1, XorBits
    <3>4. BitsOf(Xor(Xor(x, z), Xor(y, w)))[i] = (BitsOf(Xor(x, z))[i] + BitsOf(Xor(y, w))[i]) % 2
      BY <3>1, XorBits
    <3> HIDE DEF a, b, c, d
    <3> QED
      BY <3>2, <3>3, <3>4
  <2> HIDE DEF a, b, c, d
  <2>3. (((a + b) % 2) + ((c + d) % 2)) % 2 = (((a + c) % 2) + ((b + d) % 2)) % 2
    BY <2>1
  <2> QED
    BY <2>2, <2>3
<1> QED
  BY <1>1, XorBits, SameBits

LEMMA ZeroBits ==
  /\ 0 \in Byte
  /\ \A i \in Slots : BitsOf(0)[i] = 0
<1>1. \A i \in Slots : Weight[i] \in Nat \ {0}
  BY DEF Slots, Weight
<1>2. \A n \in Nat \ {0} : (0 \div n) % 2 = 0
  OBVIOUS
<1> QED
  BY <1>1, <1>2 DEF BitsOf, Byte

LEMMA XorZero ==
  ASSUME NEW x \in Byte, NEW y \in Byte
  PROVE  /\ Xor(x, 0) = x /\ Xor(0, x) = x
         /\ Xor(x, y) = 0 <=> x = y
<1>1. Xor(x, 0) = x
  <2>1. \A i \in Slots : BitsOf(Xor(x, 0))[i] = BitsOf(x)[i]
    BY XorBits, BitIs, ZeroBits
  <2> QED
    BY <2>1, XorBits, SameBits, ZeroBits
<1>2. Xor(0, x) = x
  BY <1>1, XorCommutes, ZeroBits
<1>3. ASSUME x = y PROVE Xor(x, y) = 0
  <2>1. \A i \in Slots : BitsOf(Xor(x, y))[i] = BitsOf(0)[i]
    BY <1>3, XorBits, BitIs, ZeroBits
  <2> QED
    BY <2>1, XorBits, SameBits, ZeroBits
<1>4. ASSUME Xor(x, y) = 0 PROVE x = y
  <2>1. ASSUME NEW i \in Slots PROVE BitsOf(x)[i] = BitsOf(y)[i]
    <3>1. (BitsOf(x)[i] + BitsOf(y)[i]) % 2 = 0
      BY <1>4, XorBits, ZeroBits
    <3>2. BitsOf(x)[i] \in {0, 1} /\ BitsOf(y)[i] \in {0, 1}
      BY BitIs
    <3> QED
      BY <3>1, <3>2
  <2> QED
    BY <2>1, SameBits
<1> QED
  BY <1>1, <1>2, <1>3, <1>4
------------------------------------------------------------------------------
(* The checksum's register. *)

LEMMA ShiftBits ==
  ASSUME NEW x \in Byte
  PROVE  LET b == BitsOf(x)
             c == BitsOf(ShiftCrc(x))
         IN  /\ c[1] = b[2] /\ c[2] = b[3] /\ c[3] = (b[1] + b[4]) % 2
             /\ c[4] = (b[1] + b[5]) % 2 /\ c[5] = b[6] /\ c[6] = b[7] /\ c[7] = b[8]
             /\ c[8] = b[1]
<1> DEFINE b == BitsOf(x)
           c == BitsOf(ShiftCrc(x))
           h == BitsOf(x \div 2)
           m == BitsOf(140)
<1>1. x \div 2 \in Byte /\ 140 \in Byte
  BY DEF Byte
<1>2. /\ h[1] = b[2] /\ h[2] = b[3] /\ h[3] = b[4] /\ h[4] = b[5]
      /\ h[5] = b[6] /\ h[6] = b[7] /\ h[7] = b[8] /\ h[8] = 0
  <2>1. x \in 0 .. 255
    BY DEF Byte
  <2>2. /\ ((x \div 2) \div 1) % 2 = (x \div 2) % 2
        /\ ((x \div 2) \div 2) % 2 = (x \div 4) % 2
        /\ ((x \div 2) \div 4) % 2 = (x \div 8) % 2
        /\ ((x \div 2) \div 8) % 2 = (x \div 16) % 2
    BY <2>1
  <2>3. /\ ((x \div 2) \div 16) % 2 = (x \div 32) % 2
        /\ ((x \div 2) \div 32) % 2 = (x \div 64) % 2
        /\ ((x \div 2) \div 64) % 2 = (x \div 128) % 2
        /\ ((x \div 2) \div 128) % 2 = 0
    BY <2>1
  <2> QED
    BY <2>2, <2>3 DEF BitsOf, Slots, Weight
<1>3. /\ m[1] = 0 /\ m[2] = 0 /\ m[3] = 1 /\ m[4] = 1
      /\ m[5] = 0 /\ m[6] = 0 /\ m[7] = 0 /\ m[8] = 1
  BY DEF BitsOf, Slots, Weight
<1>4. b[1] = x % 2
  <2>1. x \div 1 = x
    BY DEF Byte
  <2> QED
    BY <2>1 DEF BitsOf, Slots, Weight
<1>5. \A i \in Slots : b[i] \in {0, 1} /\ h[i] \in {0, 1}
  BY <1>1, BitIs
<1>6. CASE b[1] = 1
  <2>1. \A i \in Slots : c[i] = (h[i] + m[i]) % 2
    BY <1>1, <1>4, <1>6, XorBits DEF ShiftCrc
  <2> HIDE DEF b, c, h, m
  <2>2. /\ c[1] = (h[1] + m[1]) % 2 /\ c[2] = (h[2] + m[2]) % 2 /\ c[3] = (h[3] + m[3]) % 2
        /\ c[4] = (h[4] + m[4]) % 2 /\ c[5] = (h[5] + m[5]) % 2 /\ c[6] = (h[6] + m[6]) % 2
        /\ c[7] = (h[7] + m[7]) % 2 /\ c[8] = (h[8] + m[8]) % 2
    BY <2>1 DEF Slots
  <2>3. /\ b[1] \in {0, 1} /\ b[2] \in {0, 1} /\ b[3] \in {0, 1} /\ b[4] \in {0, 1}
        /\ b[5] \in {0, 1} /\ b[6] \in {0, 1} /\ b[7] \in {0, 1} /\ b[8] \in {0, 1}
    BY <1>5 DEF Slots
  <2>4. /\ c[1] = b[2] /\ c[2] = b[3] /\ c[3] = (b[1] + b[4]) % 2
        /\ c[4] = (b[1] + b[5]) % 2 /\ c[5] = b[6] /\ c[6] = b[7] /\ c[7] = b[8]
        /\ c[8] = b[1]
    BY <1>2, <1>3, <1>6, <2>2, <2>3
  <2> QED
    BY <2>4 DEF b, c
<1>7. CASE b[1] = 0
  <2>1. c = h
    BY <1>4, <1>7 DEF ShiftCrc
  <2> HIDE DEF b, c, h, m
  <2>2. b[4] \in {0, 1} /\ b[5] \in {0, 1}
    BY <1>5 DEF Slots
  <2>3. /\ c[1] = b[2] /\ c[2] = b[3] /\ c[3] = (b[1] + b[4]) % 2
        /\ c[4] = (b[1] + b[5]) % 2 /\ c[5] = b[6] /\ c[6] = b[7] /\ c[7] = b[8]
        /\ c[8] = b[1]
    BY <1>2, <1>7, <2>1, <2>2
  <2> QED
    BY <2>3 DEF b, c
<1>8. b[1] \in {0, 1}
  BY <1>5 DEF Slots
<1> QED
  BY <1>6, <1>7, <1>8

LEMMA Shift2Bits ==
  ASSUME NEW x \in Byte
  PROVE  /\ Shift2(x) \in Byte
         /\ LET b == BitsOf(x)
                c == BitsOf(Shift2(x))
            IN  /\ c[1] = b[3] /\ c[2] = (b[1] + b[4]) % 2 /\ c[3] = (b[1] + b[2] + b[5]) % 2
                /\ c[4] = (b[2] + b[6]) % 2 /\ c[5] = b[7] /\ c[6] = b[8] /\ c[7] = b[1]
                /\ c[8] = b[2]
<1> DEFINE y == ShiftCrc(x)
           b == BitsOf(x)
           s == BitsOf(y)
           c == BitsOf(Shift2(x))
<1>1. y \in Byte /\ Shift2(x) \in Byte
  BY ShiftIsByte, ShiftBits DEF Shift2
<1>2. /\ b[1] \in {0, 1} /\ b[2] \in {0, 1} /\ b[3] \in {0, 1} /\ b[4] \in {0, 1}
      /\ b[5] \in {0, 1} /\ b[6] \in {0, 1} /\ b[7] \in {0, 1} /\ b[8] \in {0, 1}
  BY BitIs DEF Slots
<1>3. /\ s[1] = b[2] /\ s[2] = b[3] /\ s[3] = (b[1] + b[4]) % 2 /\ s[4] = (b[1] + b[5]) % 2
      /\ s[5] = b[6] /\ s[6] = b[7] /\ s[7] = b[8] /\ s[8] = b[1]
  BY ShiftIsByte, ShiftBits
<1>4. /\ c[1] = s[2] /\ c[2] = s[3] /\ c[3] = (s[1] + s[4]) % 2 /\ c[4] = (s[1] + s[5]) % 2
      /\ c[5] = s[6] /\ c[6] = s[7] /\ c[7] = s[8] /\ c[8] = s[1]
  BY <1>1, ShiftIsByte, ShiftBits DEF Shift2
<1> HIDE DEF b, s, c
<1>5. /\ c[1] = b[3] /\ c[2] = (b[1] + b[4]) % 2 /\ c[3] = (b[1] + b[2] + b[5]) % 2
      /\ c[4] = (b[2] + b[6]) % 2 /\ c[5] = b[7] /\ c[6] = b[8] /\ c[7] = b[1] /\ c[8] = b[2]
  BY <1>2, <1>3, <1>4
<1> QED
  BY <1>1, <1>5 DEF b, c

LEMMA Shift4Bits ==
  ASSUME NEW x \in Byte
  PROVE  /\ Shift4(x) \in Byte
         /\ LET b == BitsOf(x)
                c == BitsOf(Shift4(x))
            IN  /\ c[1] = (b[1] + b[2] + b[5]) % 2 /\ c[2] = (b[2] + b[3] + b[6]) % 2
                /\ c[3] = (b[1] + b[3] + b[4] + b[7]) % 2 /\ c[4] = (b[1] + b[4] + b[8]) % 2
                /\ c[5] = b[1] /\ c[6] = b[2] /\ c[7] = b[3] /\ c[8] = (b[1] + b[4]) % 2
<1> DEFINE y == Shift2(x)
           b == BitsOf(x)
           s == BitsOf(y)
           c == BitsOf(Shift4(x))
<1>1. y \in Byte /\ Shift4(x) \in Byte
  BY Shift2Bits DEF Shift4
<1>2. /\ b[1] \in {0, 1} /\ b[2] \in {0, 1} /\ b[3] \in {0, 1} /\ b[4] \in {0, 1}
      /\ b[5] \in {0, 1} /\ b[6] \in {0, 1} /\ b[7] \in {0, 1} /\ b[8] \in {0, 1}
  BY BitIs DEF Slots
<1>3. /\ s[1] = b[3] /\ s[2] = (b[1] + b[4]) % 2 /\ s[3] = (b[1] + b[2] + b[5]) % 2
      /\ s[4] = (b[2] + b[6]) % 2 /\ s[5] = b[7] /\ s[6] = b[8] /\ s[7] = b[1] /\ s[8] = b[2]
  BY Shift2Bits
<1>4. /\ c[1] = s[3] /\ c[2] = (s[1] + s[4]) % 2 /\ c[3] = (s[1] + s[2] + s[5]) % 2
      /\ c[4] = (s[2] + s[6]) % 2 /\ c[5] = s[7] /\ c[6] = s[8] /\ c[7] = s[1] /\ c[8] = s[2]
  BY <1>1, Shift2Bits DEF Shift4
<1> HIDE DEF b, s, c
<1>5. /\ c[1] = (b[1] + b[2] + b[5]) % 2 /\ c[2] = (b[2] + b[3] + b[6]) % 2
      /\ c[3] = (b[1] + b[3] + b[4] + b[7]) % 2 /\ c[4] = (b[1] + b[4] + b[8]) % 2
      /\ c[5] = b[1] /\ c[6] = b[2] /\ c[7] = b[3] /\ c[8] = (b[1] + b[4]) % 2
  BY <1>2, <1>3, <1>4
<1> QED
  BY <1>1, <1>5 DEF b, c

LEMMA Shift8Bits ==
  ASSUME NEW x \in Byte
  PROVE  /\ Shift8(x) \in Byte
         /\ LET b == BitsOf(x)
                c == BitsOf(Shift8(x))
            IN  /\ c[1] = (b[3] + b[5] + b[6]) % 2 /\ c[2] = (b[1] + b[4] + b[6] + b[7]) % 2
                /\ c[3] = (b[1] + b[2] + b[5] + b[7] + b[8]) % 2
                /\ c[4] = (b[1] + b[2] + b[5] + b[8]) % 2 /\ c[5] = (b[1] + b[2] + b[5]) % 2
                /\ c[6] = (b[2] + b[3] + b[6]) % 2 /\ c[7] = (b[1] + b[3] + b[4] + b[7]) % 2
                /\ c[8] = (b[2] + b[4] + b[5] + b[8]) % 2
<1> DEFINE y == Shift4(x)
           b == BitsOf(x)
           s == BitsOf(y)
           c == BitsOf(Shift8(x))
<1>1. y \in Byte /\ Shift8(x) \in Byte
  BY Shift4Bits DEF Shift8, Shift4
<1>2. /\ b[1] \in {0, 1} /\ b[2] \in {0, 1} /\ b[3] \in {0, 1} /\ b[4] \in {0, 1}
      /\ b[5] \in {0, 1} /\ b[6] \in {0, 1} /\ b[7] \in {0, 1} /\ b[8] \in {0, 1}
  BY BitIs DEF Slots
<1>3. /\ s[1] = (b[1] + b[2] + b[5]) % 2 /\ s[2] = (b[2] + b[3] + b[6]) % 2
      /\ s[3] = (b[1] + b[3] + b[4] + b[7]) % 2 /\ s[4] = (b[1] + b[4] + b[8]) % 2
      /\ s[5] = b[1] /\ s[6] = b[2] /\ s[7] = b[3] /\ s[8] = (b[1] + b[4]) % 2
  BY Shift4Bits
<1>4. /\ c[1] = (s[1] + s[2] + s[5]) % 2 /\ c[2] = (s[2] + s[3] + s[6]) % 2
      /\ c[3] = (s[1] + s[3] + s[4] + s[7]) % 2 /\ c[4] = (s[1] + s[4] + s[8]) % 2
      /\ c[5] = s[1] /\ c[6] = s[2] /\ c[7] = s[3] /\ c[8] = (s[1] + s[4]) % 2
  BY <1>1, Shift4Bits DEF Shift8, Shift4
<1> HIDE DEF b, s, c
<1>5. /\ c[1] = (b[3] + b[5] + b[6]) % 2 /\ c[2] = (b[1] + b[4] + b[6] + b[7]) % 2
      /\ c[3] = (b[1] + b[2] + b[5] + b[7] + b[8]) % 2
      /\ c[4] = (b[1] + b[2] + b[5] + b[8]) % 2 /\ c[5] = (b[1] + b[2] + b[5]) % 2
      /\ c[6] = (b[2] + b[3] + b[6]) % 2 /\ c[7] = (b[1] + b[3] + b[4] + b[7]) % 2
      /\ c[8] = (b[2] + b[4] + b[5] + b[8]) % 2
  BY <1>2, <1>3, <1>4
<1> QED
  BY <1>1, <1>5 DEF b, c

(* The bits of a byte's checksum, and those of its entry in the table. *)
CrcBits(b) ==
  << (b[3] + b[5] + b[6]) % 2, (b[1] + b[4] + b[6] + b[7]) % 2,
     (b[1] + b[2] + b[5] + b[7] + b[8]) % 2, (b[1] + b[2] + b[5] + b[8]) % 2,
     (b[1] + b[2] + b[5]) % 2, (b[2] + b[3] + b[6]) % 2,
     (b[1] + b[3] + b[4] + b[7]) % 2, (b[2] + b[4] + b[5] + b[8]) % 2 >>

LEMMA CrcBitsAre ==
  ASSUME NEW x \in Byte, NEW i \in Slots
  PROVE  BitsOf(CrcOf(x))[i] = CrcBits(BitsOf(x))[i]
<1> DEFINE b == BitsOf(x)
           c == BitsOf(CrcOf(x))
<1>1. /\ c[1] = CrcBits(b)[1] /\ c[2] = CrcBits(b)[2] /\ c[3] = CrcBits(b)[3]
      /\ c[4] = CrcBits(b)[4] /\ c[5] = CrcBits(b)[5] /\ c[6] = CrcBits(b)[6]
      /\ c[7] = CrcBits(b)[7] /\ c[8] = CrcBits(b)[8]
  BY CrcIsShifts, Shift8Bits DEF CrcBits
<1> QED
  BY <1>1 DEF Slots

Entry(x) ==
  LET b1 == x % 2
      b2 == (x \div 2) % 2
      b3 == (x \div 4) % 2
      b4 == (x \div 8) % 2
      b5 == (x \div 16) % 2
      b6 == (x \div 32) % 2
      b7 == (x \div 64) % 2
      b8 == (x \div 128) % 2
  IN  ((b3 + b5 + b6) % 2) + 2 * ((b1 + b4 + b6 + b7) % 2) + 4 * ((b1 + b2 + b5 + b7 + b8) % 2)
        + 8 * ((b1 + b2 + b5 + b8) % 2) + 16 * ((b1 + b2 + b5) % 2)
        + 32 * ((b2 + b3 + b6) % 2) + 64 * ((b1 + b3 + b4 + b7) % 2)
        + 128 * ((b2 + b4 + b5 + b8) % 2)

LEMMA CrcIsEntry ==
  ASSUME NEW x \in Byte
  PROVE  CrcOf(x) = Entry(x)
<1> DEFINE b == BitsOf(x)
<1>1. /\ b[1] = (x \div 1) % 2 /\ b[2] = (x \div 2) % 2 /\ b[3] = (x \div 4) % 2
      /\ b[4] = (x \div 8) % 2 /\ b[5] = (x \div 16) % 2 /\ b[6] = (x \div 32) % 2
      /\ b[7] = (x \div 64) % 2 /\ b[8] = (x \div 128) % 2
  BY DEF BitsOf, Slots, Weight
<1>2. x \div 1 = x
  BY DEF Byte
<1>3. CrcOf(x) = Value(BitsOf(CrcOf(x)))
  BY CrcIsByte, BitsAre
<1>4. Value(BitsOf(CrcOf(x))) = Value(CrcBits(b))
  BY CrcBitsAre DEF Value, Slots
<1> HIDE DEF b
<1>5. Value(CrcBits(b)) = Entry(x)
  BY <1>1, <1>2 DEF Value, CrcBits, Entry
<1> QED
  BY <1>3, <1>4, <1>5 DEF b

LEMMA TableIsEntries == \A x \in Byte : CrcEntries[x + 1] = Entry(x)
<1>1. \A x \in 0 .. 15 : CrcEntries[x + 1] = Entry(x)
  BY DEF CrcEntries, Entry
<1>2. \A x \in 16 .. 31 : CrcEntries[x + 1] = Entry(x)
  BY DEF CrcEntries, Entry
<1>3. \A x \in 32 .. 47 : CrcEntries[x + 1] = Entry(x)
  BY DEF CrcEntries, Entry
<1>4. \A x \in 48 .. 63 : CrcEntries[x + 1] = Entry(x)
  BY DEF CrcEntries, Entry
<1>5. \A x \in 64 .. 79 : CrcEntries[x + 1] = Entry(x)
  BY DEF CrcEntries, Entry
<1>6. \A x \in 80 .. 95 : CrcEntries[x + 1] = Entry(x)
  BY DEF CrcEntries, Entry
<1>7. \A x \in 96 .. 111 : CrcEntries[x + 1] = Entry(x)
  BY DEF CrcEntries, Entry
<1>8. \A x \in 112 .. 127 : CrcEntries[x + 1] = Entry(x)
  BY DEF CrcEntries, Entry
<1>9. \A x \in 128 .. 143 : CrcEntries[x + 1] = Entry(x)
  BY DEF CrcEntries, Entry
<1>10. \A x \in 144 .. 159 : CrcEntries[x + 1] = Entry(x)
  BY DEF CrcEntries, Entry
<1>11. \A x \in 160 .. 175 : CrcEntries[x + 1] = Entry(x)
  BY DEF CrcEntries, Entry
<1>12. \A x \in 176 .. 191 : CrcEntries[x + 1] = Entry(x)
  BY DEF CrcEntries, Entry
<1>13. \A x \in 192 .. 207 : CrcEntries[x + 1] = Entry(x)
  BY DEF CrcEntries, Entry
<1>14. \A x \in 208 .. 223 : CrcEntries[x + 1] = Entry(x)
  BY DEF CrcEntries, Entry
<1>15. \A x \in 224 .. 239 : CrcEntries[x + 1] = Entry(x)
  BY DEF CrcEntries, Entry
<1>16. \A x \in 240 .. 255 : CrcEntries[x + 1] = Entry(x)
  BY DEF CrcEntries, Entry
<1>17. Byte = UNION { 0 .. 15, 16 .. 31, 32 .. 47, 48 .. 63, 64 .. 79, 80 .. 95, 96 .. 111,
                     112 .. 127, 128 .. 143, 144 .. 159, 160 .. 175, 176 .. 191, 192 .. 207,
                     208 .. 223, 224 .. 239, 240 .. 255 }
  BY DEF Byte
<1> QED
  BY <1>1, <1>2, <1>3, <1>4, <1>5, <1>6, <1>7, <1>8, <1>9, <1>10, <1>11, <1>12, <1>13, <1>14,
     <1>15, <1>16, <1>17

(* Each of the hand-typed entries is what the sensor's register makes of   *)
(* its index (ds18b20.c:49).                                               *)
THEOREM TableIsChecksum == TableIsCrc
  BY TableIsEntries, CrcIsEntry DEF TableIsCrc, CrcTable
------------------------------------------------------------------------------
(* How the checksum of a sum, and the number of its bits, come about. *)

LEMMA CrcIsLinear ==
  ASSUME NEW x \in Byte, NEW y \in Byte
  PROVE  CrcOf(Xor(x, y)) = Xor(CrcOf(x), CrcOf(y))
<1> DEFINE a == BitsOf(x)
           b == BitsOf(y)
           s == BitsOf(Xor(x, y))
<1>1. /\ Xor(x, y) \in Byte /\ CrcOf(x) \in Byte /\ CrcOf(y) \in Byte
      /\ CrcOf(Xor(x, y)) \in Byte /\ Xor(CrcOf(x), CrcOf(y)) \in Byte
  BY XorBits, CrcIsByte
<1>2. \A i \in Slots : s[i] = (a[i] + b[i]) % 2 /\ a[i] \in {0, 1} /\ b[i] \in {0, 1}
  BY XorBits, BitIs
<1>3. ASSUME NEW i \in Slots
      PROVE  BitsOf(CrcOf(Xor(x, y)))[i] = BitsOf(Xor(CrcOf(x), CrcOf(y)))[i]
  <2>1. /\ BitsOf(CrcOf(Xor(x, y)))[i] = CrcBits(s)[i]
        /\ BitsOf(CrcOf(x))[i] = CrcBits(a)[i]
        /\ BitsOf(CrcOf(y))[i] = CrcBits(b)[i]
    BY <1>1, CrcBitsAre
  <2>2. BitsOf(Xor(CrcOf(x), CrcOf(y)))[i] = (BitsOf(CrcOf(x))[i] + BitsOf(CrcOf(y))[i]) % 2
    BY <1>1, XorBits
  <2> HIDE DEF a, b, s
  <2>3. CrcBits(s)[i] = (CrcBits(a)[i] + CrcBits(b)[i]) % 2
    <3>1. /\ s[1] = (a[1] + b[1]) % 2 /\ s[2] = (a[2] + b[2]) % 2 /\ s[3] = (a[3] + b[3]) % 2
          /\ s[4] = (a[4] + b[4]) % 2 /\ s[5] = (a[5] + b[5]) % 2 /\ s[6] = (a[6] + b[6]) % 2
          /\ s[7] = (a[7] + b[7]) % 2 /\ s[8] = (a[8] + b[8]) % 2
      BY <1>2 DEF Slots
    <3>2. /\ a[1] \in {0, 1} /\ a[2] \in {0, 1} /\ a[3] \in {0, 1} /\ a[4] \in {0, 1}
          /\ a[5] \in {0, 1} /\ a[6] \in {0, 1} /\ a[7] \in {0, 1} /\ a[8] \in {0, 1}
      BY <1>2 DEF Slots
    <3>3. /\ b[1] \in {0, 1} /\ b[2] \in {0, 1} /\ b[3] \in {0, 1} /\ b[4] \in {0, 1}
          /\ b[5] \in {0, 1} /\ b[6] \in {0, 1} /\ b[7] \in {0, 1} /\ b[8] \in {0, 1}
      BY <1>2 DEF Slots
    <3>4. CASE i = 1
      BY <3>1, <3>2, <3>3, <3>4 DEF CrcBits
    <3>5. CASE i = 2
      BY <3>1, <3>2, <3>3, <3>5 DEF CrcBits
    <3>6. CASE i = 3
      BY <3>1, <3>2, <3>3, <3>6 DEF CrcBits
    <3>7. CASE i = 4
      BY <3>1, <3>2, <3>3, <3>7 DEF CrcBits
    <3>8. CASE i = 5
      BY <3>1, <3>2, <3>3, <3>8 DEF CrcBits
    <3>9. CASE i = 6
      BY <3>1, <3>2, <3>3, <3>9 DEF CrcBits
    <3>10. CASE i = 7
      BY <3>1, <3>2, <3>3, <3>10 DEF CrcBits
    <3>11. CASE i = 8
      BY <3>1, <3>2, <3>3, <3>11 DEF CrcBits
    <3>12. i \in {1, 2, 3, 4, 5, 6, 7, 8}
      BY DEF Slots
    <3> QED
      BY <3>4, <3>5, <3>6, <3>7, <3>8, <3>9, <3>10, <3>11, <3>12
  <2> QED
    BY <2>1, <2>2, <2>3 DEF a, b, s
<1> QED
  BY <1>1, <1>3, SameBits

(* The number of a byte's bits that are 1. *)
Ones(x) ==
  LET b == BitsOf(x) IN b[1] + b[2] + b[3] + b[4] + b[5] + b[6] + b[7] + b[8]

LEMMA BitsAreInt ==
  ASSUME NEW x \in Byte
  PROVE  LET b == BitsOf(x)
         IN  /\ b[1] \in {0, 1} /\ b[2] \in {0, 1} /\ b[3] \in {0, 1} /\ b[4] \in {0, 1}
             /\ b[5] \in {0, 1} /\ b[6] \in {0, 1} /\ b[7] \in {0, 1} /\ b[8] \in {0, 1}
  BY BitIs DEF Slots

LEMMA OnesAre ==
  ASSUME NEW x \in Byte
  PROVE  /\ Ones(x) \in 0 .. 8
         /\ Ones(x) = 0 <=> x = 0
         /\ Ones(x) = 1 => x \in { 1, 2, 4, 8, 16, 32, 64, 128 }
<1> DEFINE b == BitsOf(x)
<1>1. /\ b[1] \in 0 .. 1 /\ b[2] \in 0 .. 1 /\ b[3] \in 0 .. 1 /\ b[4] \in 0 .. 1
      /\ b[5] \in 0 .. 1 /\ b[6] \in 0 .. 1 /\ b[7] \in 0 .. 1 /\ b[8] \in 0 .. 1
  <2>1. /\ b[1] \in {0, 1} /\ b[2] \in {0, 1} /\ b[3] \in {0, 1} /\ b[4] \in {0, 1}
        /\ b[5] \in {0, 1} /\ b[6] \in {0, 1} /\ b[7] \in {0, 1} /\ b[8] \in {0, 1}
    BY BitsAreInt
  <2> HIDE DEF b
  <2>2. {0, 1} = 0 .. 1
    OBVIOUS
  <2> QED
    BY <2>1, <2>2, Zenon
<1>2. x = b[1] + 2 * b[2] + 4 * b[3] + 8 * b[4] + 16 * b[5] + 32 * b[6] + 64 * b[7] + 128 * b[8]
  BY BitsAre DEF Value
<1>3. Ones(x) = b[1] + b[2] + b[3] + b[4] + b[5] + b[6] + b[7] + b[8]
  BY DEF Ones
<1>4. x = 0 => b[1] = 0 /\ b[2] = 0 /\ b[3] = 0 /\ b[4] = 0
               /\ b[5] = 0 /\ b[6] = 0 /\ b[7] = 0 /\ b[8] = 0
  BY ZeroBits DEF Slots
<1> HIDE DEF b
<1>5. Ones(x) \in 0 .. 8
  BY <1>1, <1>3
<1>6. ASSUME Ones(x) = 0
      PROVE  x = 0
  <2>1. /\ b[1] = 0 /\ b[2] = 0 /\ b[3] = 0 /\ b[4] = 0
        /\ b[5] = 0 /\ b[6] = 0 /\ b[7] = 0 /\ b[8] = 0
    BY <1>1, <1>3, <1>6
  <2> QED
    BY <1>2, <2>1
<1>7. x = 0 => Ones(x) = 0
  BY <1>3, <1>4
<1>8. ASSUME Ones(x) = 1
      PROVE  x \in { 1, 2, 4, 8, 16, 32, 64, 128 }
  <2>1. CASE b[1] = 1
    <3>1. /\ b[2] = 0 /\ b[3] = 0 /\ b[4] = 0 /\ b[5] = 0
          /\ b[6] = 0 /\ b[7] = 0 /\ b[8] = 0
      BY <1>1, <1>3, <1>8, <2>1
    <3>2. x = 1
      BY <1>2, <2>1, <3>1
    <3> QED
      BY <3>2
  <2>2. CASE b[2] = 1
    <3>1. /\ b[1] = 0 /\ b[3] = 0 /\ b[4] = 0 /\ b[5] = 0
          /\ b[6] = 0 /\ b[7] = 0 /\ b[8] = 0
      BY <1>1, <1>3, <1>8, <2>2
    <3>2. x = 2
      BY <1>2, <2>2, <3>1
    <3> QED
      BY <3>2
  <2>3. CASE b[3] = 1
    <3>1. /\ b[1] = 0 /\ b[2] = 0 /\ b[4] = 0 /\ b[5] = 0
          /\ b[6] = 0 /\ b[7] = 0 /\ b[8] = 0
      BY <1>1, <1>3, <1>8, <2>3
    <3>2. x = 4
      BY <1>2, <2>3, <3>1
    <3> QED
      BY <3>2
  <2>4. CASE b[4] = 1
    <3>1. /\ b[1] = 0 /\ b[2] = 0 /\ b[3] = 0 /\ b[5] = 0
          /\ b[6] = 0 /\ b[7] = 0 /\ b[8] = 0
      BY <1>1, <1>3, <1>8, <2>4
    <3>2. x = 8
      BY <1>2, <2>4, <3>1
    <3> QED
      BY <3>2
  <2>5. CASE b[5] = 1
    <3>1. /\ b[1] = 0 /\ b[2] = 0 /\ b[3] = 0 /\ b[4] = 0
          /\ b[6] = 0 /\ b[7] = 0 /\ b[8] = 0
      BY <1>1, <1>3, <1>8, <2>5
    <3>2. x = 16
      BY <1>2, <2>5, <3>1
    <3> QED
      BY <3>2
  <2>6. CASE b[6] = 1
    <3>1. /\ b[1] = 0 /\ b[2] = 0 /\ b[3] = 0 /\ b[4] = 0
          /\ b[5] = 0 /\ b[7] = 0 /\ b[8] = 0
      BY <1>1, <1>3, <1>8, <2>6
    <3>2. x = 32
      BY <1>2, <2>6, <3>1
    <3> QED
      BY <3>2
  <2>7. CASE b[7] = 1
    <3>1. /\ b[1] = 0 /\ b[2] = 0 /\ b[3] = 0 /\ b[4] = 0
          /\ b[5] = 0 /\ b[6] = 0 /\ b[8] = 0
      BY <1>1, <1>3, <1>8, <2>7
    <3>2. x = 64
      BY <1>2, <2>7, <3>1
    <3> QED
      BY <3>2
  <2>8. CASE b[8] = 1
    <3>1. /\ b[1] = 0 /\ b[2] = 0 /\ b[3] = 0 /\ b[4] = 0
          /\ b[5] = 0 /\ b[6] = 0 /\ b[7] = 0
      BY <1>1, <1>3, <1>8, <2>8
    <3>2. x = 128
      BY <1>2, <2>8, <3>1
    <3> QED
      BY <3>2
  <2>9. \/ b[1] = 1 \/ b[2] = 1 \/ b[3] = 1 \/ b[4] = 1
        \/ b[5] = 1 \/ b[6] = 1 \/ b[7] = 1 \/ b[8] = 1
    BY <1>1, <1>3, <1>8
  <2> QED
    BY <2>1, <2>2, <2>3, <2>4, <2>5, <2>6, <2>7, <2>8, <2>9
<1> QED
  BY <1>5, <1>6, <1>7, <1>8

LEMMA OneCarries ==
  \A u, v \in {0, 1} : \E q \in {0, 1} : u + v = ((u + v) % 2) + 2 * q
  OBVIOUS

LEMMA XorOnes ==
  ASSUME NEW x \in Byte, NEW y \in Byte
  PROVE  Ones(Xor(x, y)) % 2 = (Ones(x) + Ones(y)) % 2
<1> DEFINE a == BitsOf(x)
           b == BitsOf(y)
           s == BitsOf(Xor(x, y))
<1>1. /\ a[1] \in {0, 1} /\ a[2] \in {0, 1} /\ a[3] \in {0, 1} /\ a[4] \in {0, 1}
      /\ a[5] \in {0, 1} /\ a[6] \in {0, 1} /\ a[7] \in {0, 1} /\ a[8] \in {0, 1}
  BY BitsAreInt
<1>2. /\ b[1] \in {0, 1} /\ b[2] \in {0, 1} /\ b[3] \in {0, 1} /\ b[4] \in {0, 1}
      /\ b[5] \in {0, 1} /\ b[6] \in {0, 1} /\ b[7] \in {0, 1} /\ b[8] \in {0, 1}
  BY BitsAreInt
<1>3. /\ s[1] = (a[1] + b[1]) % 2 /\ s[2] = (a[2] + b[2]) % 2 /\ s[3] = (a[3] + b[3]) % 2
      /\ s[4] = (a[4] + b[4]) % 2 /\ s[5] = (a[5] + b[5]) % 2 /\ s[6] = (a[6] + b[6]) % 2
      /\ s[7] = (a[7] + b[7]) % 2 /\ s[8] = (a[8] + b[8]) % 2
  BY XorBits DEF Slots
<1> HIDE DEF a, b, s
<1>4. (s[1] + s[2] + s[3] + s[4] + s[5] + s[6] + s[7] + s[8]) % 2
        = ((a[1] + a[2] + a[3] + a[4] + a[5] + a[6] + a[7] + a[8])
             + (b[1] + b[2] + b[3] + b[4] + b[5] + b[6] + b[7] + b[8])) % 2
  <2>1. PICK q1 \in {0, 1} : a[1] + b[1] = s[1] + 2 * q1
    BY <1>1, <1>2, <1>3, OneCarries
  <2>2. PICK q2 \in {0, 1} : a[2] + b[2] = s[2] + 2 * q2
    BY <1>1, <1>2, <1>3, OneCarries
  <2>3. PICK q3 \in {0, 1} : a[3] + b[3] = s[3] + 2 * q3
    BY <1>1, <1>2, <1>3, OneCarries
  <2>4. PICK q4 \in {0, 1} : a[4] + b[4] = s[4] + 2 * q4
    BY <1>1, <1>2, <1>3, OneCarries
  <2>5. PICK q5 \in {0, 1} : a[5] + b[5] = s[5] + 2 * q5
    BY <1>1, <1>2, <1>3, OneCarries
  <2>6. PICK q6 \in {0, 1} : a[6] + b[6] = s[6] + 2 * q6
    BY <1>1, <1>2, <1>3, OneCarries
  <2>7. PICK q7 \in {0, 1} : a[7] + b[7] = s[7] + 2 * q7
    BY <1>1, <1>2, <1>3, OneCarries
  <2>8. PICK q8 \in {0, 1} : a[8] + b[8] = s[8] + 2 * q8
    BY <1>1, <1>2, <1>3, OneCarries
  <2> DEFINE low(t)  == t[1] + t[2] + t[3] + t[4]
             high(t) == t[5] + t[6] + t[7] + t[8]
             carry1  == q1 + q2 + q3 + q4
             carry2  == q5 + q6 + q7 + q8
  <2>9. /\ a[1] \in Int /\ a[2] \in Int /\ a[3] \in Int /\ a[4] \in Int
        /\ a[5] \in Int /\ a[6] \in Int /\ a[7] \in Int /\ a[8] \in Int
    BY <1>1
  <2>10. /\ b[1] \in Int /\ b[2] \in Int /\ b[3] \in Int /\ b[4] \in Int
         /\ b[5] \in Int /\ b[6] \in Int /\ b[7] \in Int /\ b[8] \in Int
    BY <1>2
  <2>11. /\ s[1] \in Int /\ s[2] \in Int /\ s[3] \in Int /\ s[4] \in Int
         /\ s[5] \in Int /\ s[6] \in Int /\ s[7] \in Int /\ s[8] \in Int
    BY <1>3, <2>9, <2>10
  <2>12. /\ q1 \in Int /\ q2 \in Int /\ q3 \in Int /\ q4 \in Int
         /\ q5 \in Int /\ q6 \in Int /\ q7 \in Int /\ q8 \in Int
    OBVIOUS
  <2>13. low(a) \in Int /\ high(a) \in Int /\ low(b) \in Int /\ high(b) \in Int
    BY <2>9, <2>10
  <2>14. low(s) \in Int /\ high(s) \in Int /\ carry1 \in Int /\ carry2 \in Int
    BY <2>11, <2>12
  <2>15. low(a) + low(b) = low(s) + 2 * carry1
    BY <2>1, <2>2, <2>3, <2>4, <2>9, <2>10, <2>11, <2>12
  <2>16. high(a) + high(b) = high(s) + 2 * carry2
    BY <2>5, <2>6, <2>7, <2>8, <2>9, <2>10, <2>11, <2>12
  <2>17. /\ a[1] + a[2] + a[3] + a[4] + a[5] + a[6] + a[7] + a[8] = low(a) + high(a)
         /\ b[1] + b[2] + b[3] + b[4] + b[5] + b[6] + b[7] + b[8] = low(b) + high(b)
         /\ s[1] + s[2] + s[3] + s[4] + s[5] + s[6] + s[7] + s[8] = low(s) + high(s)
    BY <2>9, <2>10, <2>11
  <2> HIDE DEF low, high, carry1, carry2
  <2>18. /\ carry1 + carry2 \in Int
         /\ (low(a) + high(a)) + (low(b) + high(b)) = (low(s) + high(s)) + 2 * (carry1 + carry2)
    BY <2>13, <2>14, <2>15, <2>16
  <2>19. \A m, k \in Int : (m + 2 * k) % 2 = m % 2
    OBVIOUS
  <2> QED
    BY <2>14, <2>17, <2>18, <2>19
<1> QED
  BY <1>4 DEF Ones, a, b, s

(* A shift brings no bit into an empty register, and loses none of its     *)
(* bits but by pairs.                                                      *)
LEMMA ShiftOnes ==
  ASSUME NEW x \in Byte
  PROVE  /\ Ones(ShiftCrc(x)) % 2 = Ones(x) % 2
         /\ ShiftCrc(x) = 0 <=> x = 0
<1> DEFINE b == BitsOf(x)
           c == BitsOf(ShiftCrc(x))
<1>1. /\ b[1] \in {0, 1} /\ b[2] \in {0, 1} /\ b[3] \in {0, 1} /\ b[4] \in {0, 1}
      /\ b[5] \in {0, 1} /\ b[6] \in {0, 1} /\ b[7] \in {0, 1} /\ b[8] \in {0, 1}
  BY BitsAreInt
<1>2. /\ c[1] = b[2] /\ c[2] = b[3] /\ c[3] = (b[1] + b[4]) % 2
      /\ c[4] = (b[1] + b[5]) % 2 /\ c[5] = b[6] /\ c[6] = b[7] /\ c[7] = b[8]
      /\ c[8] = b[1]
  BY ShiftBits
<1>3. ASSUME ShiftCrc(x) = 0
      PROVE  x = 0
  <2>1. /\ c[1] = 0 /\ c[2] = 0 /\ c[3] = 0 /\ c[4] = 0
        /\ c[5] = 0 /\ c[6] = 0 /\ c[7] = 0 /\ c[8] = 0
    BY <1>3, ZeroBits DEF Slots
  <2> HIDE DEF b, c
  <2>2. b[2] = 0 /\ b[3] = 0 /\ b[6] = 0 /\ b[7] = 0 /\ b[8] = 0 /\ b[1] = 0
    BY <1>2, <2>1
  <2>3. b[4] = 0 /\ b[5] = 0
    BY <1>1, <1>2, <2>1, <2>2
  <2>4. \A i \in Slots : b[i] = 0
    BY <2>2, <2>3 DEF Slots
  <2> QED
    BY <2>4, ZeroBits, SameBits DEF b
<1>4. ASSUME x = 0
      PROVE  ShiftCrc(x) = 0
  <2>1. /\ b[1] = 0 /\ b[2] = 0 /\ b[3] = 0 /\ b[4] = 0
        /\ b[5] = 0 /\ b[6] = 0 /\ b[7] = 0 /\ b[8] = 0
    BY <1>4, ZeroBits DEF Slots
  <2> HIDE DEF b, c
  <2>2. \A i \in Slots : c[i] = 0
    BY <1>2, <2>1 DEF Slots
  <2> QED
    BY <2>2, ZeroBits, SameBits, ShiftIsByte DEF c
<1>5. Ones(ShiftCrc(x)) % 2 = Ones(x) % 2
  <2>1. /\ Ones(ShiftCrc(x)) = c[1] + c[2] + c[3] + c[4] + c[5] + c[6] + c[7] + c[8]
        /\ Ones(x) = b[1] + b[2] + b[3] + b[4] + b[5] + b[6] + b[7] + b[8]
    BY DEF Ones
  <2> HIDE DEF b, c
  <2>2. PICK q \in {0, 1} : b[1] + b[4] = c[3] + 2 * q
    BY <1>1, <1>2, OneCarries
  <2>3. PICK r \in {0, 1} : b[1] + b[5] = c[4] + 2 * r
    BY <1>1, <1>2, OneCarries
  <2> DEFINE carry == b[1] - q - r
  <2>4. carry \in Int /\ Ones(x) \in Int
    BY <1>1, <2>1
  <2>5. Ones(ShiftCrc(x)) = Ones(x) + 2 * carry
    <3>1. /\ b[1] \in Int /\ b[2] \in Int /\ b[3] \in Int /\ b[4] \in Int
          /\ b[5] \in Int /\ b[6] \in Int /\ b[7] \in Int /\ b[8] \in Int
      BY <1>1
    <3>2. c[3] = b[1] + b[4] - 2 * q /\ c[4] = b[1] + b[5] - 2 * r
      BY <1>2, <2>2, <2>3, <3>1
    <3> QED
      BY <1>2, <2>1, <3>1, <3>2
  <2> HIDE DEF carry
  <2> QED
    BY <2>4, <2>5
<1> QED
  BY <1>3, <1>4, <1>5

(* The register loses none of its bits but by pairs, and is empty only     *)
(* after an empty one.                                                     *)
LEMMA CrcOnes ==
  ASSUME NEW x \in Byte
  PROVE  /\ Ones(CrcOf(x)) % 2 = Ones(x) % 2
         /\ CrcOf(x) = 0 <=> x = 0
<1>1. /\ Shift4(x) \in Byte
      /\ CrcOf(x) = Shift4(Shift4(x))
  BY Shift4Bits, CrcIsShifts DEF Shift8
<1>2. ASSUME NEW y \in Byte
      PROVE  /\ Shift2(y) \in Byte
             /\ Ones(Shift2(y)) % 2 = Ones(y) % 2
             /\ Shift2(y) = 0 <=> y = 0
  <2>1. ShiftCrc(y) \in Byte /\ Shift2(y) = ShiftCrc(ShiftCrc(y)) /\ Shift2(y) \in Byte
    BY ShiftIsByte DEF Shift2
  <2> QED
    BY <2>1, ShiftOnes
<1>3. ASSUME NEW y \in Byte
      PROVE  /\ Ones(Shift4(y)) % 2 = Ones(y) % 2
             /\ Shift4(y) = 0 <=> y = 0
  <2>1. Shift2(y) \in Byte /\ Shift4(y) = Shift2(Shift2(y))
    BY <1>2 DEF Shift4
  <2> QED
    BY <1>2, <2>1
<1> QED
  BY <1>1, <1>3
------------------------------------------------------------------------------
(* Two wrong bits.  Eight shifts take a single bit eight places along this *)
(* trail, and it does not meet a single bit again for the length of a      *)
(* scratchpad.                                                             *)
Trail ==
  << 128, 64, 32, 16, 8, 4, 2, 1, 140, 70, 35, 157, 194, 97, 188, 94, 47,
     155, 193, 236, 118, 59, 145, 196, 98, 49, 148, 74, 37, 158, 79, 171,
     217, 224, 112, 56, 28, 14, 7, 143, 203, 233, 248, 124, 62, 31, 131, 205,
     234, 117, 182, 91, 161, 220, 110, 55, 151, 199, 239, 251, 241, 244, 122,
     61, 146, 73, 168, 84, 42, 21, 134, 67, 173, 218, 109, 186, 93, 162, 81,
     164 >>

LEMMA AlongTrail ==
  /\ \A n \in 1 .. 72 : Trail[n] \in Byte /\ CrcOf(Trail[n]) = Trail[n + 8]
  /\ \A n \in 1 .. 80 : Trail[n] \in Byte
<1>1. \A n \in 1 .. 18 : Trail[n] \in 0 .. 255 /\ CrcEntries[Trail[n] + 1] = Trail[n + 8]
  BY DEF Trail, CrcEntries
<1>2. \A n \in 19 .. 36 : Trail[n] \in 0 .. 255 /\ CrcEntries[Trail[n] + 1] = Trail[n + 8]
  BY DEF Trail, CrcEntries
<1>3. \A n \in 37 .. 54 : Trail[n] \in 0 .. 255 /\ CrcEntries[Trail[n] + 1] = Trail[n + 8]
  BY DEF Trail, CrcEntries
<1>4. \A n \in 55 .. 72 : Trail[n] \in 0 .. 255 /\ CrcEntries[Trail[n] + 1] = Trail[n + 8]
  BY DEF Trail, CrcEntries
<1>5. \A n \in 73 .. 80 : Trail[n] \in Byte
  BY DEF Trail, Byte
<1>6. ASSUME NEW n \in 1 .. 72
      PROVE  Trail[n] \in Byte /\ CrcEntries[Trail[n] + 1] = Trail[n + 8]
  <2>1. n \in 1 .. 18 \/ n \in 19 .. 36 \/ n \in 37 .. 54 \/ n \in 55 .. 72
    OBVIOUS
  <2>2. CASE n \in 1 .. 18
    BY <1>1, <2>2 DEF Byte
  <2>3. CASE n \in 19 .. 36
    BY <1>2, <2>3 DEF Byte
  <2>4. CASE n \in 37 .. 54
    BY <1>3, <2>4 DEF Byte
  <2>5. CASE n \in 55 .. 72
    BY <1>4, <2>5 DEF Byte
  <2> QED
    BY <2>1, <2>2, <2>3, <2>4, <2>5
<1>7. \A x \in Byte : CrcOf(x) = CrcEntries[x + 1]
  BY CrcIsEntry, TableIsEntries
<1>8. \A n \in 1 .. 80 : n \in 1 .. 72 \/ n \in 73 .. 80
  OBVIOUS
<1> QED
  BY <1>5, <1>6, <1>7, <1>8

LEMMA TrailIsLong ==
  /\ \A x \in { 1, 2, 4, 8, 16, 32, 64, 128 } : \E n \in 1 .. 8 : x = Trail[n]
  /\ \A n \in 9 .. 72 : Trail[n] \notin { 1, 2, 4, 8, 16, 32, 64, 128 }
<1>1. /\ Trail[1] = 128 /\ Trail[2] = 64 /\ Trail[3] = 32 /\ Trail[4] = 16
      /\ Trail[5] = 8 /\ Trail[6] = 4 /\ Trail[7] = 2 /\ Trail[8] = 1
  BY DEF Trail
<1>2. \A n \in 9 .. 72 : Trail[n] \notin { 1, 2, 4, 8, 16, 32, 64, 128 }
  BY DEF Trail
<1> QED
  BY <1>1, <1>2
------------------------------------------------------------------------------
(* What the check finds. *)

(* By the table the check does what the sensor's register does. *)
LEMMA CheckIs ==
  ASSUME NEW data \in [1 .. 9 -> Byte]
  PROVE  \E c : Run(c, data, 9) /\ crc_check(data, 9) = c[9]
<1> DEFINE F(c) == [i \in 0 .. 9 |-> IF i = 0 THEN 0 ELSE CrcOf(Xor(c[i - 1], data[i]))]
           G(c) == [i \in 0 .. 9 |-> IF i = 0 THEN 0 ELSE CrcTable[Xor(c[i - 1], data[i])]]
           g    == CHOOSE c : c = G(c)
<1>1. \A i \in 1 .. 9 : data[i] \in Byte
  OBVIOUS
<1>2. PICK s : Run(s, data, 9) /\ s = F(s)
  BY <1>1, RunExists
<1>3. s = G(s)
  <2>1. ASSUME NEW i \in 1 .. 9
        PROVE  CrcOf(Xor(s[i - 1], data[i])) = CrcTable[Xor(s[i - 1], data[i])]
    <3>1. s[i - 1] \in Byte
      BY <1>2 DEF Run
    <3> QED
      BY <1>1, <3>1, XorIsByte, TableIsChecksum DEF TableIsCrc
  <2>2. F(s) = G(s)
    BY <2>1
  <2> QED
    BY <1>2, <2>2
<1>4. g = G(g)
  BY <1>3
<1>5. crc_check(data, 9) = g[9]
  BY DEF crc_check
<1> HIDE DEF g
<1>6. g[0] = 0 /\ \A i \in 1 .. 9 : g[i] = CrcTable[Xor(g[i - 1], data[i])]
  BY <1>4
<1>7. s[0] = 0 /\ (\A i \in 0 .. 9 : s[i] \in Byte)
      /\ \A i \in 1 .. 9 : s[i] = CrcTable[Xor(s[i - 1], data[i])]
  BY <1>2, <1>3 DEF Run
<1> HIDE DEF F, G
<1>8. \A i \in 1 .. 9 : s[i - 1] = g[i - 1] => s[i] = g[i]
  BY <1>6, <1>7
<1>9. s[1] = g[1] /\ s[2] = g[2] /\ s[3] = g[3] /\ s[4] = g[4] /\ s[5] = g[5]
  BY <1>6, <1>7, <1>8
<1>10. s[9] = g[9]
  BY <1>8, <1>9
<1> QED
  BY <1>2, <1>5, <1>10

(* A scratchpad with its checksum passes. *)
LEMMA SealedChecks ==
  ASSUME NEW pad \in Pads
  PROVE  \E c : Run(c, Sealed[pad], 9) /\ c[9] = 0
<1>1. pad \in Seq(Byte) /\ Len(pad) = 8
  BY Ds18b20Assumption
<1>2. PICK s : Run(s, pad, 8) /\ SensorCrc(pad) = s[8]
  BY <1>1, SensorCrcIs
<1>3. /\ \A i \in 1 .. 8 : Sealed[pad][i] = pad[i]
      /\ Sealed[pad][9] = SensorCrc(pad)
      /\ \A i \in 1 .. 9 : Sealed[pad][i] \in Byte
  BY SealedIs
<1>4. PICK c : Run(c, Sealed[pad], 9)
  BY <1>3, RunExists
<1>5. c[8] = s[8]
  <2>1. c[0] = 0 /\ \A i \in 1 .. 8 : c[i] = CrcOf(Xor(c[i - 1], pad[i]))
    BY <1>3, <1>4 DEF Run
  <2>2. s[0] = 0 /\ \A i \in 1 .. 8 : s[i] = CrcOf(Xor(s[i - 1], pad[i]))
    BY <1>2 DEF Run
  <2> QED
    BY <2>1, <2>2, RunIsOne
<1>6. c[9] = CrcOf(Xor(c[8], c[8])) /\ c[8] \in Byte
  BY <1>2, <1>3, <1>4, <1>5 DEF Run
<1>7. c[9] = 0
  BY <1>6, XorZero, CrcOnes, ZeroBits
<1> QED
  BY <1>4, <1>7

(* The register for the difference of two readings is the difference of    *)
(* their registers: two that pass differ by one that passes.               *)
Differing(t, h) == [i \in 1 .. 9 |-> Xor(t[i], h[i])]

LEMMA DifferencePasses ==
  ASSUME NEW t \in [1 .. 9 -> Byte], crc_check(t, 9) = 0, NEW pad \in Pads
  PROVE  /\ Differing(t, Sealed[pad]) \in [1 .. 9 -> Byte]
         /\ \E c : Run(c, Differing(t, Sealed[pad]), 9) /\ c[9] = 0
<1> DEFINE h == Sealed[pad]
<1>1. PICK c : Run(c, t, 9) /\ c[9] = 0
  BY CheckIs
<1>2. PICK e : Run(e, h, 9) /\ e[9] = 0
  BY SealedChecks
<1>3. h \in [1 .. 9 -> Byte]
  BY SealedIs
<1> HIDE DEF h
<1> DEFINE d == Differing(t, h)
           s == [i \in 0 .. 9 |-> Xor(c[i], e[i])]
<1>4. d \in [1 .. 9 -> Byte]
  BY <1>3, XorIsByte DEF Differing
<1>5. /\ c \in [0 .. 9 -> Byte] /\ c[0] = 0
      /\ \A i \in 1 .. 9 : c[i] = CrcOf(Xor(c[i - 1], t[i]))
  BY <1>1 DEF Run
<1>6. /\ e \in [0 .. 9 -> Byte] /\ e[0] = 0
      /\ \A i \in 1 .. 9 : e[i] = CrcOf(Xor(e[i - 1], h[i]))
  BY <1>2 DEF Run
<1>7. ASSUME NEW i \in 1 .. 9
      PROVE  Xor(c[i], e[i]) = CrcOf(Xor(Xor(c[i - 1], e[i - 1]), Xor(t[i], h[i])))
  <2> DEFINE x == c[i - 1]
             y == e[i - 1]
             a == t[i]
             b == h[i]
  <2>1. x \in Byte /\ y \in Byte /\ a \in Byte /\ b \in Byte
    BY <1>3, <1>5, <1>6
  <2>2. c[i] = CrcOf(Xor(x, a)) /\ e[i] = CrcOf(Xor(y, b))
    BY <1>5, <1>6
  <2> HIDE DEF x, y, a, b
  <2>3. CrcOf(Xor(Xor(x, a), Xor(y, b))) = Xor(CrcOf(Xor(x, a)), CrcOf(Xor(y, b)))
    BY <2>1, XorIsByte, CrcIsLinear
  <2>4. Xor(Xor(x, a), Xor(y, b)) = Xor(Xor(x, y), Xor(a, b))
    BY <2>1, XorSwaps
  <2>5. Xor(c[i], e[i]) = CrcOf(Xor(Xor(x, y), Xor(a, b)))
    BY <2>2, <2>3, <2>4
  <2> QED
    BY <2>5 DEF x, y, a, b
<1>8. s \in [0 .. 9 -> Byte]
  BY <1>5, <1>6, XorIsByte
<1>9. s[0] = 0 /\ s[9] = 0
  BY <1>1, <1>2, <1>5, <1>6, XorZero, ZeroBits
<1>10. \A i \in 1 .. 9 : s[i] = CrcOf(Xor(s[i - 1], d[i]))
  BY <1>7 DEF Differing
<1> HIDE DEF s
<1>11. Run(s, d, 9)
  BY <1>8, <1>9, <1>10 DEF Run
<1> QED
  BY <1>4, <1>9, <1>11 DEF h
------------------------------------------------------------------------------
(* Up to three wrong bits are seen. *)

(* The wrong bits of nine bytes. *)
Weigh(e) ==
  Ones(e[1]) + Ones(e[2]) + Ones(e[3]) + Ones(e[4]) + Ones(e[5])
    + Ones(e[6]) + Ones(e[7]) + Ones(e[8]) + Ones(e[9])

(* What the register x of n bytes tells of the w wrong bits in them: their *)
(* parity; with none it is empty, a single one is on the trail past the    *)
(* single bits, and two do not cancel.                                     *)
Tells(x, w, n) ==
  /\ x \in Byte /\ w \in Nat
  /\ Ones(x) % 2 = w % 2
  /\ w = 0 => x = 0
  /\ w = 1 => \E k \in 9 .. 8 + 8 * n : x = Trail[k]
  /\ w = 2 => x # 0

LEMMA TellsOn ==
  ASSUME NEW n \in 0 .. 8, NEW x, NEW w, NEW e \in Byte, Tells(x, w, n)
  PROVE  Tells(CrcOf(Xor(x, e)), w + Ones(e), n + 1)
<1> DEFINE y == Xor(x, e)
           m == Ones(e)
<1>1. /\ x \in Byte /\ w \in Nat /\ m \in Nat /\ y \in Byte /\ CrcOf(y) \in Byte
  BY OnesAre, XorIsByte, CrcIsByte DEF Tells
<1>2. Ones(CrcOf(y)) % 2 = (w + m) % 2
  <2>1. Ones(CrcOf(y)) % 2 = Ones(y) % 2
    BY <1>1, CrcOnes
  <2>2. Ones(y) % 2 = (Ones(x) + m) % 2
    BY <1>1, XorOnes
  <2>3. Ones(x) % 2 = w % 2 /\ Ones(x) \in Nat
    BY <1>1, OnesAre DEF Tells
  <2> HIDE DEF m, y
  <2> QED
    BY <1>1, <2>1, <2>2, <2>3
<1>3. m = 0 => e = 0 /\ y = x
  BY <1>1, OnesAre, XorZero
<1>4. m = 1 => \E k \in 1 .. 8 : e = Trail[k]
  BY <1>1, OnesAre, TrailIsLong
<1>5. w = 0 => y = e
  BY <1>1, XorZero DEF Tells
<1>6. w + m = 0 => CrcOf(y) = 0
  BY <1>1, <1>3, CrcOnes, ZeroBits DEF Tells
<1>7. ASSUME w + m = 1
      PROVE  \E k \in 9 .. 8 + 8 * (n + 1) : CrcOf(y) = Trail[k]
  <2>1. (w = 1 /\ m = 0) \/ (w = 0 /\ m = 1)
    BY <1>1, <1>7
  <2>2. \E k \in 1 .. 8 + 8 * n : y = Trail[k]
    <3>1. CASE w = 1 /\ m = 0
      BY <1>3, <3>1 DEF Tells
    <3>2. CASE w = 0 /\ m = 1
      <4>1. PICK k \in 1 .. 8 : e = Trail[k]
        BY <1>4, <3>2
      <4>2. k \in 1 .. 8 + 8 * n /\ y = Trail[k]
        BY <1>5, <3>2, <4>1
      <4> QED
        BY <4>2
    <3> QED
      BY <2>1, <3>1, <3>2
  <2>3. PICK k \in 1 .. 8 + 8 * n : y = Trail[k]
    BY <2>2
  <2>4. k \in 1 .. 72 /\ k + 8 \in 9 .. 8 + 8 * (n + 1)
    OBVIOUS
  <2>5. CrcOf(y) = Trail[k + 8]
    BY <2>3, <2>4, AlongTrail
  <2> QED
    BY <2>4, <2>5
<1>8. ASSUME w + m = 2
      PROVE  CrcOf(y) # 0
  <2>1. (w = 2 /\ m = 0) \/ (w = 1 /\ m = 1) \/ (w = 0 /\ m = 2)
    BY <1>1, <1>8
  <2>2. y # 0
    <3>1. CASE w = 2 /\ m = 0
      BY <1>3, <3>1 DEF Tells
    <3>2. CASE w = 1 /\ m = 1
      <4>1. PICK k \in 9 .. 8 + 8 * n : x = Trail[k]
        BY <3>2 DEF Tells
      <4>2. k \in 9 .. 72
        OBVIOUS
      <4>3. x # e
        BY <3>2, <4>1, <4>2, OnesAre, TrailIsLong
      <4> QED
        BY <1>1, <4>3, XorZero
    <3>3. CASE w = 0 /\ m = 2
      BY <1>5, <3>3, OnesAre
    <3> QED
      BY <2>1, <3>1, <3>2, <3>3
  <2> QED
    BY <1>1, <2>2, CrcOnes
<1>9. w + m \in Nat
  BY <1>1
<1> QED
  BY <1>1, <1>2, <1>6, <1>7, <1>8, <1>9 DEF Tells

LEMMA FewAreSeen ==
  ASSUME NEW e \in [1 .. 9 -> Byte], NEW c, Run(c, e, 9), c[9] = 0, Weigh(e) <= 3
  PROVE  \A i \in 1 .. 9 : e[i] = 0
<1>1. \A i \in 1 .. 9 : e[i] \in Byte /\ Ones(e[i]) \in Nat
  BY OnesAre
<1>2. ASSUME NEW n \in 0 .. 8, NEW w, Tells(c[n], w, n)
      PROVE  Tells(c[n + 1], w + Ones(e[n + 1]), n + 1)
  <2>1. n + 1 \in 1 .. 9 /\ (n + 1) - 1 = n
    OBVIOUS
  <2>2. c[n + 1] = CrcOf(Xor(c[n], e[n + 1]))
    BY <2>1 DEF Run
  <2> QED
    BY <1>1, <1>2, <2>1, <2>2, TellsOn
<1>3. Tells(c[0], 0, 0)
  <2>1. c[0] = 0 /\ 0 \in Byte /\ Ones(0) = 0
    BY OnesAre, ZeroBits DEF Run
  <2> QED
    BY <2>1 DEF Tells
<1> DEFINE w1 == 0 + Ones(e[1])
           w2 == w1 + Ones(e[2])
           w3 == w2 + Ones(e[3])
           w4 == w3 + Ones(e[4])
           w5 == w4 + Ones(e[5])
           w6 == w5 + Ones(e[6])
           w7 == w6 + Ones(e[7])
           w8 == w7 + Ones(e[8])
           w9 == w8 + Ones(e[9])
<1>4. Weigh(e) = w9
  BY <1>1 DEF Weigh
<1>5. Tells(c[9], w9, 9)
  <2>1. Tells(c[1], w1, 1)
    BY <1>2, <1>3
  <2> HIDE DEF w1
  <2>2. Tells(c[2], w2, 2)
    BY <1>2, <2>1
  <2> HIDE DEF w2
  <2>3. Tells(c[3], w3, 3)
    BY <1>2, <2>2
  <2> HIDE DEF w3
  <2>4. Tells(c[4], w4, 4)
    BY <1>2, <2>3
  <2> HIDE DEF w4
  <2>5. Tells(c[5], w5, 5)
    BY <1>2, <2>4
  <2> HIDE DEF w5
  <2>6. Tells(c[6], w6, 6)
    BY <1>2, <2>5
  <2> HIDE DEF w6
  <2>7. Tells(c[7], w7, 7)
    BY <1>2, <2>6
  <2> HIDE DEF w7
  <2>8. Tells(c[8], w8, 8)
    BY <1>2, <2>7
  <2> HIDE DEF w8
  <2>9. Tells(c[9], w9, 9)
    BY <1>2, <2>8
  <2> QED
    BY <2>9
<1>6. Weigh(e) = 0
  <2>1. Tells(0, Weigh(e), 9) /\ Ones(0) = 0
    BY <1>4, <1>5, OnesAre, ZeroBits
  <2> HIDE DEF w9
  <2>2. Weigh(e) \in Nat /\ Weigh(e) % 2 = 0 /\ Weigh(e) # 2
    BY <2>1 DEF Tells
  <2> QED
    BY <2>2
<1>7. \A i \in 1 .. 9 : Ones(e[i]) = 0
  <2>1. \A a, b \in Nat : a + b \in Nat /\ (a + b = 0 => a = 0 /\ b = 0)
    OBVIOUS
  <2>2. /\ Ones(e[1]) \in Nat /\ Ones(e[2]) \in Nat /\ Ones(e[3]) \in Nat
        /\ Ones(e[4]) \in Nat /\ Ones(e[5]) \in Nat /\ Ones(e[6]) \in Nat
        /\ Ones(e[7]) \in Nat /\ Ones(e[8]) \in Nat /\ Ones(e[9]) \in Nat
    BY <1>1
  <2>3. /\ w1 \in Nat /\ w2 \in Nat /\ w3 \in Nat /\ w4 \in Nat
        /\ w5 \in Nat /\ w6 \in Nat /\ w7 \in Nat /\ w8 \in Nat
    BY <2>2
  <2> HIDE DEF w1, w2, w3, w4, w5, w6, w7, w8
  <2>4. w8 = 0 /\ Ones(e[9]) = 0
    BY <1>4, <1>6, <2>1, <2>2, <2>3
  <2>5. w7 = 0 /\ Ones(e[8]) = 0
    BY <2>1, <2>2, <2>3, <2>4 DEF w8
  <2>6. w6 = 0 /\ Ones(e[7]) = 0
    BY <2>1, <2>2, <2>3, <2>5 DEF w7
  <2>7. w5 = 0 /\ Ones(e[6]) = 0
    BY <2>1, <2>2, <2>3, <2>6 DEF w6
  <2>8. w4 = 0 /\ Ones(e[5]) = 0
    BY <2>1, <2>2, <2>3, <2>7 DEF w5
  <2>9. w3 = 0 /\ Ones(e[4]) = 0
    BY <2>1, <2>2, <2>3, <2>8 DEF w4
  <2>10. w2 = 0 /\ Ones(e[3]) = 0
    BY <2>1, <2>2, <2>3, <2>9 DEF w3
  <2>11. w1 = 0 /\ Ones(e[2]) = 0
    BY <2>1, <2>2, <2>3, <2>10 DEF w2
  <2>12. Ones(e[1]) = 0
    BY <2>2, <2>11 DEF w1
  <2>13. \A i \in 1 .. 9 : i \in {1, 2, 3, 4, 5, 6, 7, 8, 9}
    OBVIOUS
  <2> QED
    BY <2>4, <2>5, <2>6, <2>7, <2>8, <2>9, <2>10, <2>11, <2>12, <2>13
<1> QED
  BY <1>1, <1>7, OnesAre
------------------------------------------------------------------------------
(* The wrong bits, counted. *)

LEMMA Counted ==
  ASSUME NEW bits \in Bits
  PROVE  /\ IsFiniteSet({ i \in Slots : bits[i] = 1 })
         /\ Cardinality({ i \in Slots : bits[i] = 1 })
              = bits[1] + bits[2] + bits[3] + bits[4] + bits[5] + bits[6] + bits[7] + bits[8]
<1> DEFINE S(k) == { i \in 1 .. k : bits[i] = 1 }
<1>1. ASSUME NEW k \in 0 .. 7, NEW n \in Nat, IsFiniteSet(S(k)), Cardinality(S(k)) = n
      PROVE  IsFiniteSet(S(k + 1)) /\ Cardinality(S(k + 1)) = n + bits[k + 1]
  <2>1. bits[k + 1] \in {0, 1}
    BY DEF Bits, Slots
  <2>2. CASE bits[k + 1] = 0
    <3>1. S(k + 1) = S(k)
      BY <2>2
    <3> QED
      BY <1>1, <2>2, <3>1
  <2>3. CASE bits[k + 1] = 1
    <3>1. S(k + 1) = S(k) \cup {k + 1} /\ k + 1 \notin S(k)
      BY <2>3
    <3> HIDE DEF S
    <3> QED
      BY <1>1, <2>3, <3>1, FS_AddElement
  <2> QED
    BY <2>1, <2>2, <2>3
<1>2. IsFiniteSet(S(0)) /\ Cardinality(S(0)) = 0
  <2>1. S(0) = {}
    OBVIOUS
  <2> QED
    BY <2>1, FS_EmptySet
<1>3. /\ bits[1] \in Nat /\ bits[2] \in Nat /\ bits[3] \in Nat /\ bits[4] \in Nat
      /\ bits[5] \in Nat /\ bits[6] \in Nat /\ bits[7] \in Nat /\ bits[8] \in Nat
  BY DEF Bits, Slots
<1>4. S(8) = { i \in Slots : bits[i] = 1 }
  BY DEF Slots
<1> HIDE DEF S
<1>5. IsFiniteSet(S(1)) /\ Cardinality(S(1)) = 0 + bits[1]
  BY <1>1, <1>2
<1>6. IsFiniteSet(S(2)) /\ Cardinality(S(2)) = bits[1] + bits[2]
  BY <1>1, <1>3, <1>5
<1>7. IsFiniteSet(S(3)) /\ Cardinality(S(3)) = bits[1] + bits[2] + bits[3]
  BY <1>1, <1>3, <1>6
<1>8. IsFiniteSet(S(4)) /\ Cardinality(S(4)) = bits[1] + bits[2] + bits[3] + bits[4]
  BY <1>1, <1>3, <1>7
<1>9. IsFiniteSet(S(5)) /\ Cardinality(S(5)) = bits[1] + bits[2] + bits[3] + bits[4] + bits[5]
  BY <1>1, <1>3, <1>8
<1>10. IsFiniteSet(S(6))
       /\ Cardinality(S(6)) = bits[1] + bits[2] + bits[3] + bits[4] + bits[5] + bits[6]
  BY <1>1, <1>3, <1>9
<1>11. IsFiniteSet(S(7))
       /\ Cardinality(S(7)) = bits[1] + bits[2] + bits[3] + bits[4] + bits[5] + bits[6] + bits[7]
  BY <1>1, <1>3, <1>10
<1>12. IsFiniteSet(S(8))
       /\ Cardinality(S(8)) = bits[1] + bits[2] + bits[3] + bits[4] + bits[5] + bits[6] + bits[7]
                                + bits[8]
  BY <1>1, <1>3, <1>11
<1> QED
  BY <1>4, <1>12

(* The slots in which two bytes differ. *)
Unlike(x, y) == { i \in Slots : BitsOf(x)[i] # BitsOf(y)[i] }

LEMMA UnlikeAre ==
  ASSUME NEW x \in Byte, NEW y \in Byte
  PROVE  /\ IsFiniteSet(Unlike(x, y))
         /\ Cardinality(Unlike(x, y)) = Ones(Xor(x, y))
<1>1. BitsOf(Xor(x, y)) \in Bits
  BY XorBits, BitsAre
<1>2. ASSUME NEW i \in Slots
      PROVE  BitsOf(x)[i] # BitsOf(y)[i] <=> BitsOf(Xor(x, y))[i] = 1
  <2>1. BitsOf(x)[i] \in {0, 1} /\ BitsOf(y)[i] \in {0, 1}
    BY BitIs
  <2>2. BitsOf(Xor(x, y))[i] = (BitsOf(x)[i] + BitsOf(y)[i]) % 2
    BY XorBits
  <2> QED
    BY <2>1, <2>2
<1>3. Unlike(x, y) = { i \in Slots : BitsOf(Xor(x, y))[i] = 1 }
  BY <1>2 DEF Unlike
<1> QED
  BY <1>1, <1>3, Counted DEF Ones

(* The wrong bits of the first n bytes. *)
WrongOf(t, h, n) ==
  { e \in { i \in 1 .. 9 : i <= n /\ t[i] # h[i] } \X Slots :
      BitsOf(t[e[1]])[e[2]] # BitsOf(h[e[1]])[e[2]] }

LEMMA RangesAreFinite ==
  IsFiniteSet(Slots) /\ IsFiniteSet(1 .. 9)
<1>1. \A n \in Nat : IsFiniteSet(1 .. n)
  <2> SUFFICES ASSUME NEW n \in Nat PROVE IsFiniteSet(1 .. n)
    OBVIOUS
  <2>1. \A i \in 1 .. n : i \in Nat /\ i <= n
    OBVIOUS
  <2> QED
    BY <2>1, FS_BoundedSetOfNaturals
<1> QED
  BY <1>1 DEF Slots

LEMMA WrongIsFinite ==
  ASSUME NEW t, NEW h, NEW n
  PROVE  IsFiniteSet(WrongOf(t, h, n))
<1>1. IsFiniteSet((1 .. 9) \X Slots)
  BY RangesAreFinite, FS_Product
<1>2. WrongOf(t, h, n) \subseteq (1 .. 9) \X Slots
  BY DEF WrongOf
<1> QED
  BY <1>1, <1>2, FS_Subset

LEMMA WrongGrows ==
  ASSUME NEW t \in [1 .. 9 -> Byte], NEW h \in [1 .. 9 -> Byte], NEW n \in 1 .. 9,
         IsFiniteSet(WrongOf(t, h, n - 1))
  PROVE  /\ IsFiniteSet(WrongOf(t, h, n))
         /\ Cardinality(WrongOf(t, h, n))
              = Cardinality(WrongOf(t, h, n - 1)) + Cardinality(Unlike(t[n], h[n]))
<1> DEFINE before == WrongOf(t, h, n - 1)
           slots  == Unlike(t[n], h[n])
           more   == {n} \X slots
<1>1. WrongOf(t, h, n) = before \cup more
  <2>1. ASSUME NEW e \in WrongOf(t, h, n) PROVE e \in before \cup more
    <3>1. /\ e \in (1 .. 9) \X Slots /\ e = << e[1], e[2] >>
          /\ e[1] <= n /\ t[e[1]] # h[e[1]] /\ BitsOf(t[e[1]])[e[2]] # BitsOf(h[e[1]])[e[2]]
      BY DEF WrongOf
    <3>2. CASE e[1] = n
      BY <3>1, <3>2 DEF Unlike
    <3>3. CASE e[1] # n
      <4>1. e[1] <= n - 1
        BY <3>1, <3>3
      <4> QED
        BY <3>1, <4>1 DEF WrongOf
    <3> QED
      BY <3>2, <3>3
  <2>2. ASSUME NEW e \in before PROVE e \in WrongOf(t, h, n)
    <3>1. \A i \in 1 .. 9 : i <= n - 1 => i <= n
      OBVIOUS
    <3> QED
      BY <3>1 DEF WrongOf
  <2>3. ASSUME NEW e \in more PROVE e \in WrongOf(t, h, n)
    <3>1. /\ e = << e[1], e[2] >> /\ e[1] = n /\ e[2] \in Slots
          /\ BitsOf(t[n])[e[2]] # BitsOf(h[n])[e[2]]
      BY DEF Unlike
    <3>2. t[n] # h[n] /\ n <= n
      BY <3>1
    <3> QED
      BY <3>1, <3>2 DEF WrongOf
  <2> QED
    BY <2>1, <2>2, <2>3
<1>2. before \cap more = {}
  BY DEF WrongOf
<1>3. IsFiniteSet(slots)
  BY UnlikeAre
<1>4. IsFiniteSet(more) /\ Cardinality(more) = Cardinality(slots)
  <2>1. IsFiniteSet({n}) /\ Cardinality({n}) = 1
    BY FS_Singleton
  <2>2. Cardinality(slots) \in Nat
    BY <1>3, FS_CardinalityType
  <2> QED
    BY <1>3, <2>1, <2>2, FS_Product
<1>5. /\ IsFiniteSet(before \cup more)
      /\ Cardinality(before \cup more)
           = Cardinality(before) + Cardinality(more) - Cardinality(before \cap more)
  BY <1>4, FS_Union
<1>6. Cardinality(before) \in Nat /\ Cardinality(slots) \in Nat /\ Cardinality({}) = 0
  BY <1>3, FS_CardinalityType, FS_EmptySet
<1> HIDE DEF before, more, slots
<1>7. Cardinality(before \cup more) = Cardinality(before) + Cardinality(slots)
  <2>1. Cardinality(before \cup more) = Cardinality(before) + Cardinality(slots) - 0
    BY <1>2, <1>4, <1>5, <1>6, Zenon
  <2> QED
    BY <1>6, <2>1
<1> QED
  BY <1>1, <1>5, <1>7 DEF before, slots

LEMMA NoneWrong ==
  ASSUME NEW t, NEW h
  PROVE  IsFiniteSet(WrongOf(t, h, 0)) /\ Cardinality(WrongOf(t, h, 0)) = 0
<1>1. WrongOf(t, h, 0) = {}
  BY DEF WrongOf
<1> QED
  BY <1>1, FS_EmptySet

LEMMA WrongWeigh ==
  ASSUME NEW t \in [1 .. 9 -> Byte], NEW h \in [1 .. 9 -> Byte]
  PROVE  Cardinality(WrongOf(t, h, 9)) = Weigh(Differing(t, h))
<1> DEFINE d == Differing(t, h)
<1>1. ASSUME NEW n \in 1 .. 9
      PROVE  /\ d[n] = Xor(t[n], h[n]) /\ Ones(d[n]) \in Nat
             /\ Cardinality(Unlike(t[n], h[n])) = Ones(d[n])
  <2>1. t[n] \in Byte /\ h[n] \in Byte /\ d[n] = Xor(t[n], h[n])
    BY DEF Differing
  <2> HIDE DEF d
  <2>2. Xor(t[n], h[n]) \in Byte
    BY <2>1, XorIsByte
  <2> QED
    BY <2>1, <2>2, UnlikeAre, OnesAre
<1> HIDE DEF d
<1>2. ASSUME NEW n \in 1 .. 9, NEW w \in Nat,
             IsFiniteSet(WrongOf(t, h, n - 1)), Cardinality(WrongOf(t, h, n - 1)) = w
      PROVE  /\ IsFiniteSet(WrongOf(t, h, n))
             /\ Cardinality(WrongOf(t, h, n)) = w + Ones(d[n])
             /\ w + Ones(d[n]) \in Nat
  BY <1>1, <1>2, WrongGrows
<1> DEFINE C(n, w) == /\ IsFiniteSet(WrongOf(t, h, n))
                      /\ Cardinality(WrongOf(t, h, n)) = w /\ w \in Nat
           w1 == 0 + Ones(d[1])
           w2 == w1 + Ones(d[2])
           w3 == w2 + Ones(d[3])
           w4 == w3 + Ones(d[4])
           w5 == w4 + Ones(d[5])
           w6 == w5 + Ones(d[6])
           w7 == w6 + Ones(d[7])
           w8 == w7 + Ones(d[8])
           w9 == w8 + Ones(d[9])
<1>3. Weigh(d) = w9
  <2>1. Ones(d[1]) \in Nat
    BY <1>1
  <2> QED
    BY <2>1 DEF Weigh
<1>4. \A n \in 1 .. 9 : \A w : C(n - 1, w) => C(n, w + Ones(d[n]))
  BY <1>2
<1>5. C(0, 0)
  BY NoneWrong
<1>6. C(9, w9)
  <2> HIDE DEF C
  <2>1. C(1, w1)
    BY <1>4, <1>5
  <2> HIDE DEF w1
  <2>2. C(2, w2)
    BY <1>4, <2>1
  <2> HIDE DEF w2
  <2>3. C(3, w3)
    BY <1>4, <2>2
  <2> HIDE DEF w3
  <2>4. C(4, w4)
    BY <1>4, <2>3
  <2> HIDE DEF w4
  <2>5. C(5, w5)
    BY <1>4, <2>4
  <2> HIDE DEF w5
  <2>6. C(6, w6)
    BY <1>4, <2>5
  <2> HIDE DEF w6
  <2>7. C(7, w7)
    BY <1>4, <2>6
  <2> HIDE DEF w7
  <2>8. C(8, w8)
    BY <1>4, <2>7
  <2> HIDE DEF w8
  <2>9. C(9, w9)
    BY <1>4, <2>8
  <2> QED
    BY <2>9
<1> QED
  BY <1>3, <1>6 DEF d
------------------------------------------------------------------------------
(* A read torn by a conversion is seen. *)

(* The register stays empty until the first difference, and is never empty *)
(* again if that is the only one.                                          *)
LEMMA OneIsSeen ==
  ASSUME NEW e \in [1 .. 9 -> Byte], NEW c, Run(c, e, 9), c[9] = 0,
         NEW j \in {1, 2, 9}, \A i \in 1 .. 9 : i # j => e[i] = 0
  PROVE  e[j] = 0
<1>1. ASSUME NEW i \in 1 .. 9, i # j
      PROVE  c[i] = 0 <=> c[i - 1] = 0
  <2>1. c[i - 1] \in Byte /\ c[i] = CrcOf(Xor(c[i - 1], e[i])) /\ e[i] = 0
    BY <1>1 DEF Run
  <2>2. c[i] = CrcOf(c[i - 1])
    BY <2>1, XorZero
  <2> QED
    BY <2>1, <2>2, CrcOnes
<1>2. c[j - 1] = 0 /\ c[j] = 0 => e[j] = 0
  <2>1. j \in 1 .. 9 /\ c[j] = CrcOf(Xor(c[j - 1], e[j])) /\ e[j] \in Byte
    BY DEF Run
  <2>2. c[j - 1] = 0 => c[j] = CrcOf(e[j])
    BY <2>1, XorZero
  <2> QED
    BY <2>1, <2>2, CrcOnes
<1>3. c[0] = 0
  BY DEF Run
<1>4. CASE j = 1
  <2>1. c[8] = 0 /\ c[7] = 0 /\ c[6] = 0 /\ c[5] = 0
    BY <1>1, <1>4
  <2>2. c[4] = 0 /\ c[3] = 0 /\ c[2] = 0 /\ c[1] = 0
    BY <1>1, <1>4, <2>1
  <2> QED
    BY <1>2, <1>3, <1>4, <2>2
<1>5. CASE j = 2
  <2>1. c[8] = 0 /\ c[7] = 0 /\ c[6] = 0 /\ c[5] = 0
    BY <1>1, <1>5
  <2>2. c[4] = 0 /\ c[3] = 0 /\ c[2] = 0 /\ c[1] = 0
    BY <1>1, <1>3, <1>5, <2>1
  <2> QED
    BY <1>2, <1>5, <2>2
<1>6. CASE j = 9
  <2>1. c[1] = 0 /\ c[2] = 0 /\ c[3] = 0 /\ c[4] = 0
    BY <1>1, <1>3, <1>6
  <2>2. c[5] = 0 /\ c[6] = 0 /\ c[7] = 0 /\ c[8] = 0
    BY <1>1, <1>6, <2>1
  <2> QED
    BY <1>2, <1>6, <2>2
<1> QED
  BY <1>4, <1>5, <1>6

(* Two scratchpads differ in the temperature and the checksum only. *)
LEMMA PadsAreAlike ==
  ASSUME NEW p \in Pads, NEW q \in Pads, NEW i \in 3 .. 8
  PROVE  Sealed[p][i] = Sealed[q][i]
<1>1. ASSUME NEW pad \in Pads
      PROVE  SubSeq(pad, 3, 8)[i - 2] = Sealed[pad][i]
  <2>1. pad \in Seq(Byte) /\ Len(pad) = 8 /\ Sealed[pad][i] = pad[i]
    BY SealedIs, Ds18b20Assumption
  <2>2. \A k \in 3 .. 8 : pad[k] \in Byte
    <3>1. pad \in [1 .. 8 -> Byte]
      BY <2>1, LenProperties
    <3> QED
      BY <3>1
  <2>3. \A k \in 1 .. 8 - 3 + 1 : SubSeq(pad, 3, 8)[k] = pad[3 + k - 1]
    BY <2>2, SubSeqProperties
  <2>4. i - 2 \in 1 .. 8 - 3 + 1 /\ 3 + (i - 2) - 1 = i
    OBVIOUS
  <2> QED
    BY <2>1, <2>3, <2>4
<1> QED
  BY <1>1, Ds18b20Assumption

(* A reading that passes and has but one byte that may not be those of a   *)
(* scratchpad is the scratchpad.                                           *)
LEMMA NearlyIs ==
  ASSUME NEW t \in [1 .. 9 -> Byte], crc_check(t, 9) = 0, NEW pad \in Pads,
         NEW j \in {1, 2, 9}, \A i \in 1 .. 9 : i # j => t[i] = Sealed[pad][i]
  PROVE  t = Sealed[pad]
<1> DEFINE h == Sealed[pad]
           d == Differing(t, h)
<1>1. h \in [1 .. 9 -> Byte] /\ d \in [1 .. 9 -> Byte]
  BY SealedIs, DifferencePasses
<1>2. PICK c : Run(c, d, 9) /\ c[9] = 0
  BY DifferencePasses
<1>3. \A i \in 1 .. 9 : d[i] = Xor(t[i], h[i])
  BY DEF Differing
<1> HIDE DEF d
<1>4. \A i \in 1 .. 9 : d[i] = 0 <=> t[i] = h[i]
  BY <1>1, <1>3, XorZero
<1>5. \A i \in 1 .. 9 : i # j => d[i] = 0
  BY <1>4
<1>6. d[j] = 0
  BY <1>1, <1>2, <1>5, OneIsSeen
<1>7. \A i \in 1 .. 9 : t[i] = h[i]
  BY <1>4, <1>6
<1> HIDE DEF h
<1>8. t = h
  BY <1>1, <1>7
<1> QED
  BY <1>8 DEF h

(* Each byte of a torn reading is of one scratchpad or of the other; of    *)
(* the three in which they differ two are of the same.                     *)
LEMMA TornIsSeen ==
  ASSUME NEW t \in [1 .. 9 -> Byte], crc_check(t, 9) = 0, NEW p \in Pads, NEW q \in Pads,
         \A i \in 1 .. 9 : t[i] = Sealed[p][i] \/ t[i] = Sealed[q][i]
  PROVE  t = Sealed[p] \/ t = Sealed[q]
<1> DEFINE Of(pad, i) == t[i] = Sealed[pad][i]
<1>1. \A i \in 3 .. 8 : Of(p, i) /\ Of(q, i)
  BY PadsAreAlike
<1>2. \A i \in 1 .. 9 : i \in {1, 2, 9} \/ i \in 3 .. 8
  OBVIOUS
<1>3. /\ Of(p, 1) \/ Of(q, 1)
      /\ Of(p, 2) \/ Of(q, 2)
      /\ Of(p, 9) \/ Of(q, 9)
  OBVIOUS
<1> HIDE DEF Of
<1>4. \E pad \in {p, q}, j \in {1, 2, 9} : \A i \in {1, 2, 9} : i # j => Of(pad, i)
  <2>1. CASE Of(p, 1)
    <3>1. CASE Of(p, 2)
      BY <2>1, <3>1
    <3>2. CASE Of(q, 2)
      BY <1>3, <2>1, <3>2
    <3> QED
      BY <1>3, <3>1, <3>2
  <2>2. CASE Of(q, 1)
    <3>1. CASE Of(p, 2)
      BY <1>3, <2>2, <3>1
    <3>2. CASE Of(q, 2)
      BY <2>2, <3>2
    <3> QED
      BY <1>3, <3>1, <3>2
  <2> QED
    BY <1>3, <2>1, <2>2
<1>5. PICK pad \in {p, q}, j \in {1, 2, 9} : \A i \in {1, 2, 9} : i # j => Of(pad, i)
  BY <1>4
<1>6. \A i \in 1 .. 9 : i # j => Of(pad, i)
  BY <1>1, <1>2, <1>5
<1>7. t = Sealed[pad]
  BY <1>6, NearlyIs DEF Of
<1> QED
  BY <1>7

(* A reading with up to three wrong bits that passes has none. *)
LEMMA FewIs ==
  ASSUME NEW t \in [1 .. 9 -> Byte], crc_check(t, 9) = 0, NEW pad \in Pads,
         Cardinality(WrongOf(t, Sealed[pad], 9)) <= 3
  PROVE  t = Sealed[pad]
<1> DEFINE h == Sealed[pad]
           d == Differing(t, h)
<1>1. h \in [1 .. 9 -> Byte] /\ d \in [1 .. 9 -> Byte]
  BY SealedIs, DifferencePasses
<1>2. PICK c : Run(c, d, 9) /\ c[9] = 0
  BY DifferencePasses
<1>3. Weigh(d) <= 3
  BY <1>1, WrongWeigh
<1>4. \A i \in 1 .. 9 : d[i] = Xor(t[i], h[i])
  BY DEF Differing
<1> HIDE DEF d
<1>5. \A i \in 1 .. 9 : d[i] = 0
  BY <1>1, <1>2, <1>3, FewAreSeen
<1>6. \A i \in 1 .. 9 : t[i] = h[i]
  BY <1>1, <1>4, <1>5, XorZero
<1> HIDE DEF h
<1>7. t = h
  BY <1>1, <1>6
<1> QED
  BY <1>7 DEF h

LEMMA OnesBits ==
  \A i \in Slots : BitsOf(255)[i] = 1
<1>1. /\ (255 \div 1) % 2 = 1 /\ (255 \div 2) % 2 = 1 /\ (255 \div 4) % 2 = 1
      /\ (255 \div 8) % 2 = 1 /\ (255 \div 16) % 2 = 1 /\ (255 \div 32) % 2 = 1
      /\ (255 \div 64) % 2 = 1 /\ (255 \div 128) % 2 = 1
  OBVIOUS
<1> QED
  BY <1>1 DEF BitsOf, Slots, Weight

(* Nine bytes of a line pulled up do not pass. *)
LEMMA OnesFail ==
  ASSUME NEW t \in [1 .. 9 -> Byte], \A i \in 1 .. 9 : t[i] = 255
  PROVE  crc_check(t, 9) # 0
<1>1. ASSUME NEW x \in Byte PROVE Xor(x, 255) = 255 - x
  <2> DEFINE b == BitsOf(x)
             n == [i \in Slots |-> 1 - b[i]]
  <2>1. /\ b[1] \in {0, 1} /\ b[2] \in {0, 1} /\ b[3] \in {0, 1} /\ b[4] \in {0, 1}
        /\ b[5] \in {0, 1} /\ b[6] \in {0, 1} /\ b[7] \in {0, 1} /\ b[8] \in {0, 1}
        /\ \A i \in Slots : b[i] \in {0, 1}
    BY BitsAreInt, BitIs
  <2>2. b \in Bits /\ Value(b) = x
    BY BitsAre
  <2> HIDE DEF b
  <2>3. n \in Bits
    BY <2>1 DEF Bits
  <2>4. Value(n) = 255 - x
    <3> DEFINE low(d)  == d[1] + 2 * d[2] + 4 * d[3] + 8 * d[4]
               high(d) == d[5] + 2 * d[6] + 4 * d[7] + 8 * d[8]
    <3>1. /\ low(b) \in 0 .. 15 /\ high(b) \in 0 .. 15 /\ x = low(b) + 16 * high(b)
      BY <2>2, ValueInHalves
    <3>2. Value(n) = low(n) + 16 * high(n)
      BY <2>3, ValueInHalves
    <3>3. /\ n[1] = 1 - b[1] /\ n[2] = 1 - b[2] /\ n[3] = 1 - b[3] /\ n[4] = 1 - b[4]
          /\ n[5] = 1 - b[5] /\ n[6] = 1 - b[6] /\ n[7] = 1 - b[7] /\ n[8] = 1 - b[8]
      BY DEF Slots
    <3> HIDE DEF n
    <3>4. low(n) = 15 - low(b)
      BY <2>1, <3>3
    <3>5. high(n) = 15 - high(b)
      BY <2>1, <3>3
    <3> HIDE DEF low, high
    <3> QED
      BY <3>1, <3>2, <3>4, <3>5
  <2>5. 255 - x \in Byte /\ 255 \in Byte
    BY DEF Byte
  <2> HIDE DEF n
  <2>6. BitsOf(255 - x) = n
    BY <2>3, <2>4, BitsOfValue
  <2>7. \A i \in Slots : BitsOf(255)[i] = 1
    BY OnesBits
  <2>8. \A i \in Slots : BitsOf(Xor(x, 255))[i] = BitsOf(255 - x)[i]
    <3>1. ASSUME NEW i \in Slots PROVE (b[i] + 1) % 2 = 1 - b[i]
      BY <2>1
    <3>2. \A i \in Slots : BitsOf(Xor(x, 255))[i] = (b[i] + 1) % 2
      BY <2>5, <2>7, XorBits DEF b
    <3>3. \A i \in Slots : BitsOf(255 - x)[i] = 1 - b[i]
      BY <2>6 DEF n
    <3> QED
      BY <3>1, <3>2, <3>3
  <2> QED
    BY <2>5, <2>8, XorBits, SameBits
<1>2. PICK c : Run(c, t, 9) /\ crc_check(t, 9) = c[9]
  BY CheckIs
<1>3. ASSUME NEW i \in 1 .. 9
      PROVE  c[i] = CrcEntries[256 - c[i - 1]] /\ c[i - 1] \in 0 .. 255
  <2>1. c[i - 1] \in Byte /\ c[i] = CrcOf(Xor(c[i - 1], 255))
    BY <1>2 DEF Run
  <2>2. 255 - c[i - 1] \in Byte /\ c[i] = CrcOf(255 - c[i - 1])
    BY <1>1, <2>1 DEF Byte
  <2>3. c[i] = CrcEntries[(255 - c[i - 1]) + 1]
    BY <2>2, CrcIsEntry, TableIsEntries
  <2> QED
    BY <2>1, <2>3 DEF Byte
<1>4. c[0] = 0
  BY <1>2 DEF Run
<1> DEFINE next(v) == CrcEntries[256 - v]
<1>5. /\ next(0) = 53 /\ next(53) = 180 /\ next(180) = 102
      /\ next(102) = 141 /\ next(141) = 68 /\ next(68) = 18
      /\ next(18) = 20 /\ next(20) = 201 /\ next(201) = 99
  <2>1. /\ CrcEntries[256] = 53 /\ CrcEntries[203] = 180 /\ CrcEntries[76] = 102
        /\ CrcEntries[154] = 141 /\ CrcEntries[115] = 68 /\ CrcEntries[188] = 18
        /\ CrcEntries[238] = 20 /\ CrcEntries[236] = 201 /\ CrcEntries[55] = 99
    BY DEF CrcEntries
  <2> QED
    BY <2>1
<1>6. \A i \in 1 .. 9 : c[i] = next(c[i - 1])
  BY <1>3
<1> HIDE DEF next
<1>7. /\ c[1] = next(c[0]) /\ c[2] = next(c[1]) /\ c[3] = next(c[2])
      /\ c[4] = next(c[3]) /\ c[5] = next(c[4]) /\ c[6] = next(c[5])
      /\ c[7] = next(c[6]) /\ c[8] = next(c[7]) /\ c[9] = next(c[8])
  BY <1>6
<1>8. c[9] = 99
  BY <1>4, <1>5, <1>7
<1> QED
  BY <1>2, <1>8
------------------------------------------------------------------------------
(* The steps of ds18b20_proc. *)
LEMMA Steps ==
  /\ Len(Proc) = 8 /\ FirstRead = 9 /\ Done = 18
  /\ \A i \in 1 .. 8 : Proc[i] = Reset <=> i \in {1, 3, 6}
  /\ Proc[2] = READ_ROM /\ Proc[4] = SKIP_ROM /\ Proc[5] = CONVERT_T
  /\ Proc[7] = SKIP_ROM /\ Proc[8] = READ_SCRATCHPAD
  /\ \A i \in {2, 4, 5, 7, 8} : Proc[i] \in Byte
  BY DEF Proc, FirstRead, Done, Reset, READ_ROM, SKIP_ROM, CONVERT_T, READ_SCRATCHPAD, Byte

LEMMA Commands ==
  /\ READ_ROM = 51 /\ SKIP_ROM = 204 /\ CONVERT_T = 68 /\ READ_SCRATCHPAD = 190
  /\ After[1] = "rom" /\ After[2] = "deaf" /\ After[3] = "rom" /\ After[4] = "function"
  /\ After[5] = "deaf" /\ After[6] = "rom" /\ After[7] = "function"
  BY DEF READ_ROM, SKIP_ROM, CONVERT_T, READ_SCRATCHPAD, After

LEMMA Numbers == Len(Proc) = 8 /\ FirstRead = 9 /\ Done = 18
  BY Steps

(* What a sensor makes of a byte. *)
LEMMA Hears ==
  ASSUME NEW s \in SensorState, NEW byte \in Byte
  PROVE  /\ Hear(s, byte) \in SensorState
         /\ Hear(s, byte).pad = s.pad
         /\ Hear(s, byte).at = "sending" => Hear(s, byte).sent = 0
         /\ s.conversion # "idle" => Hear(s, byte).conversion = s.conversion
         /\ Hear(s, byte).conversion = "old" => s.conversion = "old"
         /\ (s.at = "rom" /\ byte = SKIP_ROM) =>
              Hear(s, byte).at = "function" /\ Hear(s, byte).conversion = s.conversion
         /\ (s.at = "rom" /\ byte = READ_ROM) =>
              Hear(s, byte).at = "deaf" /\ Hear(s, byte).conversion = s.conversion
         /\ (s.at = "function" /\ byte = CONVERT_T) =>
              /\ Hear(s, byte).at = "deaf"
              /\ s.conversion = "idle" => Hear(s, byte).conversion = "new"
         /\ (s.at = "function" /\ byte = READ_SCRATCHPAD) =>
              Hear(s, byte).at = "sending" /\ Hear(s, byte).conversion = s.conversion
<1>0. /\ s = [at |-> s.at, sent |-> s.sent, pad |-> s.pad, conversion |-> s.conversion]
      /\ s.sent \in 0 .. 9 /\ s.pad \in Pads
      /\ s.at \in { "deaf", "rom", "function", "sending" }
      /\ s.conversion \in { "idle", "new", "old" }
  BY DEF SensorState
<1>1. CASE s.at = "rom" /\ byte = SKIP_ROM
  <2> DEFINE h == [at |-> "function", sent |-> s.sent, pad |-> s.pad, conversion |-> s.conversion]
  <2>1. Hear(s, byte) = [s EXCEPT !.at = "function"]
    BY <1>1, Commands DEF Hear
  <2>2. Hear(s, byte) = h
    BY <1>0, <2>1
  <2>3. h \in SensorState
    BY <1>0 DEF SensorState
  <2> QED
    BY <1>0, <1>1, <2>2, <2>3, Commands
<1>2. CASE s.at = "function" /\ byte = CONVERT_T
  <2> DEFINE c == IF s.conversion = "idle" THEN "new" ELSE s.conversion
             h == [at |-> "deaf", sent |-> s.sent, pad |-> s.pad, conversion |-> c]
  <2>1. Hear(s, byte) = [s EXCEPT !.at = "deaf", !.conversion = c]
    BY <1>2, Commands DEF Hear
  <2>2. c \in { "new", "old" }
    BY <1>0
  <2>3. /\ c = "old" => s.conversion = "old"
        /\ s.conversion = "idle" => c = "new"
        /\ s.conversion # "idle" => c = s.conversion
    OBVIOUS
  <2> HIDE DEF c
  <2>4. Hear(s, byte) = h
    BY <1>0, <2>1
  <2>5. h \in SensorState
    BY <1>0, <2>2 DEF SensorState
  <2> QED
    BY <1>0, <1>2, <2>2, <2>3, <2>4, <2>5, Commands
<1>3. CASE s.at = "function" /\ byte = READ_SCRATCHPAD
  <2> DEFINE h == [at |-> "sending", sent |-> 0, pad |-> s.pad, conversion |-> s.conversion]
  <2>1. Hear(s, byte) = [s EXCEPT !.at = "sending", !.sent = 0]
    BY <1>3, Commands DEF Hear
  <2>2. Hear(s, byte) = h
    BY <1>0, <2>1
  <2>3. h \in SensorState
    BY <1>0 DEF SensorState
  <2> QED
    BY <1>0, <1>3, <2>2, <2>3, Commands
<1>4. CASE /\ ~ (s.at = "rom" /\ byte = SKIP_ROM)
           /\ ~ (s.at = "function" /\ byte = CONVERT_T)
           /\ ~ (s.at = "function" /\ byte = READ_SCRATCHPAD)
  <2>1. Hear(s, byte) = [s EXCEPT !.at = "deaf"]
    BY <1>4 DEF Hear
  <2> QED
    BY <1>0, <1>4, <2>1, Commands DEF SensorState
<1> QED
  BY <1>1, <1>2, <1>3, <1>4

(* The slots stretched are of those of the bit, and stay within the bound. *)
LEMMA StretchKeeps ==
  ASSUME hits \in 0 .. MaxHits, stretched \in Nat,
         NEW bits, NEW bit, NEW slots \in Stretchable(bits, bit), Stretch(slots)
  PROVE  /\ hits' \in 0 .. MaxHits /\ stretched' \in Nat /\ stretched <= stretched'
         /\ slots \subseteq { i \in Slots : bits[i] = bit }
         /\ stretched' = stretched + Cardinality(slots) /\ Cardinality(slots) \in Nat
         /\ ~ hit' => ~ hit /\ slots = {}
<1>1. PICK k \in 0 .. MaxHits - hits :
        Cardinality(slots) = k /\ slots \subseteq { i \in Slots : bits[i] = bit }
  BY DEF Stretchable, kSubset
<1>2. hits' = hits + k /\ stretched' = stretched + k
  BY <1>1 DEF Stretch
<1>3. hits' \in 0 .. MaxHits /\ stretched' \in Nat /\ stretched <= stretched'
  BY <1>2, Ds18b20Assumption
<1>4. IsFiniteSet(slots)
  <2>1. slots \subseteq Slots
    BY <1>1
  <2> QED
    BY <2>1, RangesAreFinite, FS_Subset
<1>5. k = 0 => slots = {}
  BY <1>1, <1>4, FS_EmptySet
<1>6. ~ hit' => stretched = 0 /\ k = 0
  BY <1>2 DEF hit
<1> QED
  BY <1>1, <1>2, <1>3, <1>5, <1>6 DEF hit

LEMMA DsInit == Init => DsInv
<1> SUFFICES ASSUME Init PROVE DsInv
  OBVIOUS
<1>1. TypeOK
  <2>1. sensor \in [Sensor -> SensorState]
    BY DEF Init, SensorState
  <2>2. 0 \in Byte /\ << 0, 0 >> \in Byte \X Byte /\ [i \in 1 .. 9 |-> 0] \in [1 .. 9 -> Byte]
    BY DEF Byte
  <2>3. 0 \in 0 .. Done /\ 0 \in 0 .. MaxReads /\ 0 \in 0 .. MaxHits
    BY Steps, Ds18b20Assumption
  <2>4. /\ loaded = FALSE /\ stretched = 0 /\ ahead = 0 /\ busy = FALSE /\ pin = NoLine /\ pc = 0 /\ reads = 0 /\ hits = 0
        /\ tmpdata = [i \in 1 .. 9 |-> 0] /\ lastdata = << 0, 0 >>
    BY DEF Init
  <2>5. stretched \in Nat /\ ahead \in 0 .. stretched
    BY <2>4
  <2>6. busy \in BOOLEAN
    BY <2>4
  <2> QED
    BY <2>1, <2>2, <2>3, <2>4, <2>5, <2>6 DEF TypeOK
<1>2. Fresh
  BY DEF Init, Fresh
<1>3. Listening /\ Arriving /\ Remembered /\ Delivered
  BY FS_EmptySet DEF Init, Listening, Arriving, Remembered, Delivered, Byte
<1>4. Garbled /\ Silent
  <2>1. pc = 0
    BY DEF Init
  <2> QED
    BY <2>1, Numbers DEF Garbled, Silent, Sending
<1> QED
  BY <1>1, <1>2, <1>3, <1>4 DEF DsInv

(* Loading, unloading and the ioctl choose the line, between reads.        *)
LEMMA ControlKeeps ==
  ASSUME DsInv,
         \/ Insmod \/ Rmmod \/ IoctlGarbage
         \/ \E r \in Requests : Ioctl(r[1], r[2])
  PROVE  DsInv'
<1>1. CASE Insmod
  BY <1>1 DEF Insmod, DsInv, TypeOK, Fresh, Listening, Arriving, Garbled, Silent, Sending,
              Wrong, Remembered, Delivered, Present, history, hit, Asked
<1>2. CASE Rmmod
  <2>1. 0 \in Byte
    BY DEF Byte
  <2>2. TypeOK' /\ pc' = 0
    BY <1>2, <2>1 DEF Rmmod, DsInv, TypeOK
  <2>3. Fresh' /\ Listening' /\ Arriving' /\ Remembered' /\ Delivered'
    BY <1>2, <2>1, <2>2 DEF Rmmod, DsInv, TypeOK, Fresh, Listening, Arriving, Remembered, Delivered
  <2>4. Garbled' /\ Silent'
    BY <2>2, Numbers DEF Garbled, Silent, Sending
  <2> QED
    BY <2>2, <2>3, <2>4 DEF DsInv
<1>3. ASSUME NEW r \in Requests, Ioctl(r[1], r[2])
      PROVE  pin' \in Line /\ pc = 0 /\ UNCHANGED << loaded, pc, tmpdata, lastdata, sensor,
                                                     reads, ahead, hits, held,
                                                     stretched, busy, good >>
  <2>1. r[1] \in Int /\ r[2] \in Int
    BY Ds18b20Assumption
  <2>2. r[1] \in 0 .. 3 => 32 * r[1] + r[2] \in Line
    BY Ds18b20Assumption
  <2>3. get_port_pin(r[1], r[2]) # -1 => get_port_pin(r[1], r[2]) = 32 * r[1] + r[2]
                                         /\ r[1] \in 0 .. 3
    BY DEF get_port_pin
  <2> QED
    BY <1>3, <2>2, <2>3 DEF Ioctl, history
<1>4. ASSUME IoctlGarbage
      PROVE  pin' \in Line /\ pc = 0 /\ UNCHANGED << loaded, pc, tmpdata, lastdata, sensor,
                                                     reads, ahead, hits, held,
                                                     stretched, busy, good >>
  BY <1>4 DEF IoctlGarbage, history
<1>5. ASSUME pin' \in Line, pc = 0, UNCHANGED << loaded, pc, tmpdata, lastdata, sensor,
                                                 reads, ahead, hits, held,
                                                 stretched, busy, good >>
      PROVE  DsInv'
  <2>1. Garbled' /\ Silent'
    BY <1>5, Numbers DEF Garbled, Silent, Sending
  <2> QED
    BY <1>5, <2>1 DEF DsInv, TypeOK, Fresh, Listening, Arriving, Remembered, Delivered
<1> QED
  BY <1>1, <1>2, <1>3, <1>4, <1>5

LEMMA BeginReadKeeps ==
  ASSUME DsInv, BeginRead
  PROVE  DsInv'
<1>1. /\ reads' = reads + 1 /\ reads < MaxReads /\ pc' = 1 /\ stretched' = 0
      /\ ahead' = 0 /\ busy' = FALSE /\ pc = 0
      /\ held' = IF Present THEN { Sealed[sensor[pin].pad] } ELSE {}
      /\ UNCHANGED << loaded, pin, tmpdata, lastdata, sensor, hits, good >>
  BY DEF BeginRead
<1>2. reads' \in 0 .. MaxReads
  BY <1>1, Ds18b20Assumption DEF DsInv, TypeOK
<1>3. TypeOK'
  <2>1. pc' \in 0 .. Done
    BY <1>1, Steps
  <2>2. TypeOK
    BY DEF DsInv
  <2>3. stretched' \in Nat /\ ahead' \in 0 .. stretched'
    BY <1>1
  <2>4. busy' \in BOOLEAN
    BY <1>1
  <2> QED
    BY <1>1, <1>2, <2>1, <2>2, <2>3, <2>4 DEF TypeOK
<1>4. Arriving'
  <2>1. IsFiniteSet(held')
    BY <1>1, FS_EmptySet, FS_Singleton
  <2>2. Present => sensor[pin].pad \in Pads
    BY DEF DsInv, TypeOK, SensorState, Present
  <2>3. held' \subseteq { Sealed[pad] : pad \in Pads }
    BY <1>1, <2>2
  <2>4. ~ \E i \in 1 .. 9 : i <= pc' - FirstRead
    BY <1>1, Steps
  <2> QED
    BY <1>1, <2>1, <2>3, <2>4 DEF Arriving, Present
<1>5. Fresh' /\ Listening' /\ Remembered' /\ Delivered'
  BY <1>1 DEF DsInv, Fresh, Listening, Remembered, Delivered
<1>6. Garbled' /\ Silent'
  <2>1. ~ (pc' >= FirstRead)
    BY <1>1, Numbers
  <2>2. Present => held' = { Sealed[sensor'[pin].pad] } /\ Cardinality(held') <= 2
    <3>1. \A x : Cardinality({x}) = 1
      BY FS_Singleton
    <3>2. Present => held' = { Sealed[sensor'[pin].pad] }
      BY <1>1
    <3>3. Present => Cardinality(held') = 1
      BY <3>1, <3>2
    <3> QED
      BY <3>2, <3>3
  <2>3. Present' = Present
    BY <1>1 DEF Present
  <2> QED
    BY <1>1, <2>1, <2>2, <2>3 DEF Garbled, Silent, Sending
<1> QED
  BY <1>3, <1>4, <1>5, <1>6 DEF DsInv

(* The steps of a read leave what was held, but for the sensor's hearing,  *)
(* and count on.                                                           *)
LEMMA ProcKeeps ==
  ASSUME DsInv, pc \in 1 .. 8, pc' = pc + 1,
         UNCHANGED << loaded, pin, tmpdata, lastdata, reads, ahead, held, good >>,
         hits' \in 0 .. MaxHits, stretched' \in Nat, stretched <= stretched',
         busy' \in BOOLEAN,
         sensor' \in [Sensor -> SensorState],
         Present => /\ sensor'[pin].pad = sensor[pin].pad
                    /\ sensor'[pin].conversion = "old" => sensor[pin].conversion = "old",
         Listening'
  PROVE  DsInv'
<1>1. TypeOK' /\ Fresh'
  <2>1. ahead' \in 0 .. stretched'
    BY DEF DsInv, TypeOK
  <2>2. pc' \in 0 .. Done /\ ~ (pc' <= 1)
    BY Steps
  <2> QED
    BY <2>1, <2>2 DEF DsInv, TypeOK, Fresh
<1>2. Arriving'
  <2>1. ~ \E i \in 1 .. 9 : i <= pc' - FirstRead
    BY Steps
  <2> QED
    BY <2>1 DEF DsInv, Arriving, Present
<1>3. Remembered' /\ Delivered'
  BY DEF DsInv, Remembered, Delivered
<1>4. Garbled' /\ Silent'
  <2>1. /\ \A h : Cardinality(WrongOf(tmpdata', h, pc' - FirstRead)) <= stretched'
        /\ ~ \E i \in 1 .. 9 : i <= pc' - FirstRead
    <3>1. ~ \E i \in 1 .. 9 : i <= pc' - FirstRead
      BY Numbers
    <3>2. \A h : WrongOf(tmpdata', h, pc' - FirstRead) = {}
      BY <3>1 DEF WrongOf
    <3>3. stretched' \in Nat
      OBVIOUS
    <3> QED
      BY <3>1, <3>2, <3>3, FS_EmptySet
  <2>2. \A h : Wrong(h)' = WrongOf(tmpdata', h, pc' - FirstRead)
    BY DEF Wrong, WrongOf, FirstRead
  <2>3. Present => /\ Cardinality(held') <= 2
                   /\ sensor'[pin].conversion = "old" => held' = { Sealed[sensor'[pin].pad] }
    BY DEF DsInv, Garbled
  <2>4. Present' = Present
    BY DEF Present
  <2> QED
    BY <2>1, <2>2, <2>3, <2>4 DEF Garbled, Silent
<1> QED
  BY <1>1, <1>2, <1>3, <1>4 DEF DsInv

LEMMA ResetKeeps ==
  ASSUME DsInv, ResetPulse
  PROVE  DsInv'
<1>1. /\ pc \in {1, 3, 6} /\ pc \in 1 .. 8 /\ pc' = pc + 1
      /\ UNCHANGED << loaded, pin, tmpdata, lastdata, reads, ahead, hits, held,
                      stretched, busy, good >>
  BY Steps DEF ResetPulse, history
<1>2. /\ sensor' \in [Sensor -> SensorState]
      /\ Present => sensor'[pin] = [sensor[pin] EXCEPT !.at = "rom"]
      /\ Present => sensor[pin] \in SensorState
  <2>1. sensor \in [Sensor -> SensorState]
    BY DEF DsInv, TypeOK
  <2>2. sensor' = [s \in Sensor |-> IF s = pin THEN [sensor[s] EXCEPT !.at = "rom"] ELSE sensor[s]]
    BY DEF ResetPulse
  <2>3. ASSUME NEW s \in Sensor
        PROVE  [sensor[s] EXCEPT !.at = "rom"] \in SensorState
    BY <2>1 DEF SensorState
  <2> QED
    BY <2>1, <2>2, <2>3 DEF Present
<1>3. Present => /\ sensor'[pin].at = "rom"
                 /\ sensor'[pin].pad = sensor[pin].pad
                 /\ sensor'[pin].conversion = sensor[pin].conversion
  BY <1>2 DEF SensorState
<1>4. Listening'
  <2>1. Listening /\ Present' = Present
    BY <1>1 DEF DsInv, Present
  <2>2. After[pc' - 1] = "rom" /\ pc' < 9 /\ (pc' > 5 => pc > 5) /\ (pc' <= 5 => pc <= 5)
    BY <1>1, Commands
  <2>3. ASSUME Present, ~ hit
        PROVE  /\ pc <= 5 => sensor[pin].conversion # "new"
               /\ pc > 5 => Asked
    <3>1. CASE pc = 1
      BY <2>3, <3>1 DEF DsInv, Fresh, Present
    <3>2. CASE pc # 1
      BY <1>1, <2>1, <2>3, <3>2 DEF Listening
    <3> QED
      BY <3>1, <3>2
  <2>5. Present => (Asked' <=> Asked)
    BY <1>1, <1>3 DEF Asked
  <2>4. hit' <=> hit
    BY <1>1 DEF hit
  <2> QED
    BY <1>1, <1>3, <2>1, <2>2, <2>3, <2>4, <2>5, Numbers DEF Listening
<1>5. /\ hits' \in 0 .. MaxHits /\ stretched' \in Nat /\ stretched <= stretched'
      /\ busy' \in BOOLEAN
  BY <1>1 DEF DsInv, TypeOK
<1> QED
  BY <1>1, <1>2, <1>3, <1>4, <1>5, ProcKeeps

LEMMA WriteByteKeeps ==
  ASSUME DsInv, WriteByte
  PROVE  DsInv'
<1> DEFINE bits(slots) == [i \in Slots |-> IF i \in slots THEN 0 ELSE WriteBits(Proc[pc])[i]]
<1>1. /\ pc \in {2, 4, 5, 7, 8} /\ pc \in 1 .. 8 /\ pc' = pc + 1 /\ Proc[pc] \in Byte
      /\ UNCHANGED << loaded, pin, tmpdata, lastdata, reads, ahead, held, good >>
      /\ busy' = IF pc = 5 THEN Present /\ sensor[pin].conversion # "idle" ELSE busy
  <2>1. /\ pc \in {2, 4, 5, 7, 8} /\ pc \in 1 .. 8 /\ pc' = pc + 1 /\ Proc[pc] \in Byte
        /\ UNCHANGED << loaded, pin, tmpdata, lastdata, reads, ahead, held, good >>
    BY Steps DEF WriteByte
  <2>2. Proc[pc] = CONVERT_T <=> pc = 5
    BY <2>1, Steps, Commands
  <2> QED
    BY <2>1, <2>2 DEF WriteByte
<1>2. PICK slots \in Stretchable(WriteBits(Proc[pc]), 1) :
        /\ Stretch(slots)
        /\ sensor' = [s \in Sensor |-> IF s = pin THEN Hear(sensor[s], HeardByte(bits(slots)))
                                       ELSE sensor[s]]
  BY DEF WriteByte
<1>3. /\ hits' \in 0 .. MaxHits /\ stretched' \in Nat /\ stretched <= stretched'
      /\ ~ hit' => ~ hit /\ slots = {}
  BY <1>2, StretchKeeps DEF DsInv, TypeOK
<1> DEFINE heard == HeardByte(bits(slots))
<1>4. heard \in Byte
  <2>1. WriteBits(Proc[pc]) \in Bits
    BY <1>1, BitsAre DEF WriteBits
  <2>2. bits(slots) \in Bits
    BY <2>1 DEF Bits
  <2> HIDE DEF bits
  <2> QED
    BY <2>2, ByteOfIs, ValueIsByte DEF HeardByte
<1>5. slots = {} => heard = Proc[pc]
  <2>1. WriteBits(Proc[pc]) \in Bits
    BY <1>1, BitsAre DEF WriteBits
  <2>2. slots = {} => bits(slots) = WriteBits(Proc[pc])
    BY <2>1 DEF Bits
  <2> HIDE DEF bits
  <2> QED
    BY <1>1, <2>2, Unstretched
<1> HIDE DEF heard
<1>6. /\ sensor' \in [Sensor -> SensorState]
      /\ Present => sensor[pin] \in SensorState /\ sensor'[pin] = Hear(sensor[pin], heard)
  <2>1. sensor \in [Sensor -> SensorState]
    BY DEF DsInv, TypeOK
  <2> QED
    BY <1>2, <1>4, <2>1, Hears DEF Present, heard
<1>7. Present => /\ sensor'[pin].pad = sensor[pin].pad
                 /\ sensor'[pin].conversion = "old" => sensor[pin].conversion = "old"
  BY <1>4, <1>6, Hears
<1>8. Listening'
  <2> SUFFICES ASSUME Present
               PROVE  /\ ~ hit' =>
                           /\ pc' < FirstRead => sensor'[pin].at = After[pc' - 1]
                           /\ pc' >= FirstRead => sensor'[pin].at = "sending"
                           /\ pc' <= 5 => sensor'[pin].conversion # "new"
                           /\ pc' > 5 => Asked'
                      /\ sensor'[pin].at = "sending" =>
                           sensor'[pin].sent = IF pc' < FirstRead THEN 0 ELSE pc' - FirstRead
    BY <1>1 DEF Listening, Present
  <2> DEFINE was == sensor[pin]
             is  == Hear(was, heard)
  <2>1. sensor'[pin] = is /\ was \in SensorState
    BY <1>6
  <2>0. pin' = pin /\ (pc # 5 => busy' = busy)
    BY <1>1
  <2>2. is.at = "sending" => is.sent = 0
    BY <1>4, <2>1, Hears
  <2>3. pc' < FirstRead \/ pc' - FirstRead = 0
    BY <1>1, Steps
  <2>4. ASSUME ~ hit'
        PROVE  /\ pc' < FirstRead => is.at = After[pc' - 1]
               /\ pc' >= FirstRead => is.at = "sending"
               /\ pc' <= 5 => is.conversion # "new"
               /\ pc' > 5 => Asked'
    <3>1. heard = Proc[pc] /\ ~ hit
      BY <1>3, <1>5, <2>4
    <3>2. /\ was.at = After[pc - 1]
          /\ pc <= 5 => was.conversion # "new"
          /\ pc > 5 => Asked
      BY <1>1, <3>1, Steps DEF DsInv, Listening
    <3>3. CASE pc = 2
      <4>1. was.at = "rom" /\ heard = READ_ROM
        BY <3>1, <3>2, <3>3, Steps, Commands
      <4>2. is.at = "deaf" /\ is.conversion = was.conversion
        BY <1>4, <2>1, <4>1, Hears
      <4> QED
        BY <1>1, <3>2, <3>3, <4>2, Commands, Numbers
    <3>4. CASE pc = 4
      <4>1. was.at = "rom" /\ heard = SKIP_ROM
        BY <3>1, <3>2, <3>4, Steps, Commands
      <4>2. is.at = "function" /\ is.conversion = was.conversion
        BY <1>4, <2>1, <4>1, Hears
      <4> QED
        BY <1>1, <3>2, <3>4, <4>2, Commands, Numbers
    <3>5. CASE pc = 5
      <4>1. was.at = "function" /\ heard = CONVERT_T
        BY <3>1, <3>2, <3>5, Steps, Commands
      <4>2. /\ is.at = "deaf"
            /\ was.conversion = "idle" => is.conversion = "new"
            /\ was.conversion # "idle" => is.conversion = was.conversion
        BY <1>4, <2>1, <4>1, Hears
      <4>3. was.conversion # "new"
        BY <3>2, <3>5
      <4>4. busy' <=> was.conversion # "idle"
        BY <1>1, <3>5
      <4>5. Asked'
        BY <2>0, <2>1, <4>2, <4>3, <4>4 DEF Asked
      <4> QED
        BY <1>1, <3>5, <4>2, <4>3, <4>5, Commands, Numbers
    <3>6. CASE pc = 7
      <4>1. was.at = "rom" /\ heard = SKIP_ROM
        BY <3>1, <3>2, <3>6, Steps, Commands
      <4>2. is.at = "function" /\ is.conversion = was.conversion
        BY <1>4, <2>1, <4>1, Hears
      <4>3. Asked' <=> Asked
        BY <2>0, <2>1, <3>6, <4>2 DEF Asked
      <4> QED
        BY <1>1, <3>2, <3>6, <4>2, <4>3, Commands, Numbers
    <3>7. CASE pc = 8
      <4>1. was.at = "function" /\ heard = READ_SCRATCHPAD
        BY <3>1, <3>2, <3>7, Steps, Commands
      <4>2. is.at = "sending" /\ is.conversion = was.conversion
        BY <1>4, <2>1, <4>1, Hears
      <4>3. Asked' <=> Asked
        BY <2>0, <2>1, <3>7, <4>2 DEF Asked
      <4> QED
        BY <1>1, <3>2, <3>7, <4>2, <4>3, Commands, Numbers
    <3> QED
      BY <1>1, <3>3, <3>4, <3>5, <3>6, <3>7
  <2> QED
    BY <2>1, <2>2, <2>3, <2>4
<1>9. busy' \in BOOLEAN
  BY <1>1 DEF DsInv, TypeOK, Present
<1> QED
  BY <1>1, <1>3, <1>6, <1>7, <1>8, <1>9, ProcKeeps

(* What is on the line while the driver reads a byte: what is held, or, if *)
(* no slot has been doubled, the byte whose turn it is.                    *)
LEMMA LineIs ==
  ASSUME DsInv, pc \in 9 .. 17, NEW doubled \in SUBSET Slots
  PROVE  /\ OnLine(doubled) \in Bits
         /\ ~ Sending => OnLine(doubled) = SentBits(IF pin \in Low THEN 0 ELSE 255)
         /\ Sending =>
              /\ Sealed[sensor[pin].pad] \in [1 .. 9 -> Byte]
              /\ ahead = 0 /\ doubled = {} =>
                   OnLine(doubled) = SentBits(Sealed[sensor[pin].pad][pc - 8])
<1> DEFINE shift(i) == Cardinality({ d \in doubled : d <= i })
<1>1. ASSUME NEW i \in Slots PROVE shift(i) \in Nat
  <2>1. IsFiniteSet({ d \in doubled : d <= i })
    BY RangesAreFinite, FS_Subset
  <2> QED
    BY <2>1, FS_CardinalityType
<1>2. ASSUME NEW i \in Slots, doubled = {} PROVE shift(i) = 0
  <2>1. { d \in doubled : d <= i } = {}
    BY <1>2
  <2> QED
    BY <2>1, FS_EmptySet
<1> HIDE DEF shift
<1>3. CASE ~ Sending
  <2> DEFINE mute == IF pin \in Low THEN 0 ELSE 255
  <2>1. OnLine(doubled) = [i \in Slots |-> IF pin \in Low THEN 0 ELSE 1]
    BY <1>3 DEF OnLine
  <2>2. \A i \in Slots : BitsOf(0)[i] = 0 /\ BitsOf(255)[i] = 1
    BY ZeroBits, OnesBits
  <2>3. BitsOf(mute) = [i \in Slots |-> BitsOf(mute)[i]]
    BY DEF BitsOf
  <2>4. OnLine(doubled) = BitsOf(mute)
    BY <2>1, <2>2, <2>3
  <2> QED
    BY <1>3, <2>1, <2>4 DEF Bits, SentBits
<1>4. CASE Sending
  <2> DEFINE pad == sensor[pin].pad
             from == 8 * sensor[pin].sent + ahead
  <2>1. /\ pad \in Pads /\ sensor[pin].sent = pc - 9 /\ ahead \in Nat
    <3>1. sensor[pin] \in SensorState /\ ahead \in Nat
      BY <1>4 DEF DsInv, TypeOK, Sending, Present
    <3>2. sensor[pin].sent = pc - 9
      BY <1>4, Numbers DEF DsInv, Listening, Sending
    <3> QED
      BY <3>1, <3>2 DEF SensorState
  <2>2. from \in Nat /\ Sealed[pad] \in [1 .. 9 -> Byte]
    BY <2>1, SealedIs
  <2>3. OnLine(doubled) = [i \in Slots |-> BitSent(pad, from + i + shift(i))]
    BY <1>4 DEF OnLine, shift
  <2> HIDE DEF pad
  <2>4. ASSUME NEW i \in Slots PROVE BitSent(pad, from + i + shift(i)) \in {0, 1}
    <3> DEFINE m == from + i + shift(i)
    <3>1. m \in Nat /\ m >= 1
      BY <1>1, <2>2 DEF Slots
    <3> HIDE DEF m
    <3>2. CASE m <= 72
      <4>1. ((m - 1) \div 8) + 1 \in 1 .. 9 /\ ((m - 1) % 8) + 1 \in Slots
        BY <3>1, <3>2 DEF Slots
      <4>2. SentBits(Sealed[pad][((m - 1) \div 8) + 1]) \in Bits
        BY <2>2, <4>1, BitsAre DEF SentBits
      <4>3. SentBits(Sealed[pad][((m - 1) \div 8) + 1])[((m - 1) % 8) + 1] \in {0, 1}
        BY <4>1, <4>2 DEF Bits
      <4> QED
        BY <3>2, <4>3 DEF BitSent, m
    <3>3. CASE ~ (m <= 72)
      BY <3>3 DEF BitSent, m
    <3> QED
      BY <3>2, <3>3
  <2>5. ASSUME ahead = 0, doubled = {}
        PROVE  OnLine(doubled) = SentBits(Sealed[pad][pc - 8])
    <3>1. SentBits(Sealed[pad][pc - 8]) \in Bits
      BY <2>2, BitsAre DEF SentBits
    <3>2. ASSUME NEW i \in Slots
          PROVE  BitSent(pad, from + i + shift(i)) = SentBits(Sealed[pad][pc - 8])[i]
      <4> DEFINE m == 8 * (pc - 9) + i
      <4>1. from + i + shift(i) = m
        BY <1>2, <2>1, <2>5 DEF Slots
      <4>2. m <= 72 /\ ((m - 1) \div 8) + 1 = pc - 8 /\ ((m - 1) % 8) + 1 = i
        BY DEF Slots
      <4> HIDE DEF m
      <4> QED
        BY <4>1, <4>2 DEF BitSent
    <3> QED
      BY <2>3, <3>1, <3>2 DEF Bits
  <2>6. OnLine(doubled) \in Bits
    BY <2>3, <2>4 DEF Bits
  <2> QED
    BY <1>4, <2>2, <2>5, <2>6 DEF pad
<1> QED
  BY <1>3, <1>4

LEMMA ReadByteKeeps ==
  ASSUME DsInv, ReadByte
  PROVE  DsInv'
<1> DEFINE n == pc - FirstRead + 1
           sends == Present /\ sensor[pin].at = "sending"
           byte  == Sealed[sensor[pin].pad][n]
           bits(line, slots) == [i \in Slots |-> IF i \in slots THEN 1 ELSE line[i]]
<1>1. /\ pc \in 9 .. 17 /\ pc' = pc + 1 /\ n \in 1 .. 9 /\ n = pc - 8
      /\ UNCHANGED << loaded, pin, lastdata, reads, held, busy, good >>
      /\ sensor' = [s \in Sensor |-> IF s = pin /\ sensor[s].at = "sending"
                                     THEN [sensor[s] EXCEPT !.sent = @ + 1] ELSE sensor[s]]
  BY Steps DEF ReadByte
<1>2. PICK doubled \in Doublable :
        \E slots \in IF Present THEN Stretchable(OnLine(doubled), 0) ELSE { {} } :
          /\ hits' = hits + Cardinality(slots) + DoubleCost * Cardinality(doubled)
          /\ hits' <= MaxHits
          /\ stretched' = stretched + Cardinality(slots) + Cardinality(doubled)
          /\ ahead' = ahead + Cardinality(doubled)
          /\ tmpdata' = [tmpdata EXCEPT ![n] = ReadBits(bits(OnLine(doubled), slots))]
  BY DEF ReadByte
<1> DEFINE line == OnLine(doubled)
<1>3. PICK slots \in IF Present THEN Stretchable(line, 0) ELSE { {} } :
        /\ hits' = hits + Cardinality(slots) + DoubleCost * Cardinality(doubled)
        /\ hits' <= MaxHits
        /\ stretched' = stretched + Cardinality(slots) + Cardinality(doubled)
        /\ ahead' = ahead + Cardinality(doubled)
        /\ tmpdata' = [tmpdata EXCEPT ![n] = ReadBits(bits(line, slots))]
  BY <1>2
<1> DEFINE read == ReadBits(bits(line, slots))
<1>4. Sending <=> sends
  BY <1>1, Numbers DEF Sending
<1>5. /\ doubled \in SUBSET Slots /\ Cardinality(doubled) \in Nat
      /\ Cardinality(doubled) = 0 <=> doubled = {}
      /\ ~ sends => doubled = {}
  <2>1. doubled \in SUBSET Slots /\ (~ sends => doubled = {})
    BY <1>2, <1>4 DEF Doublable
  <2> QED
    BY <2>1, RangesAreFinite, FS_Subset, FS_CardinalityType, FS_EmptySet
<1>6. /\ slots \subseteq { i \in Slots : line[i] = 0 } /\ Cardinality(slots) \in Nat
      /\ Cardinality(slots) = 0 <=> slots = {}
      /\ ~ Present => slots = {}
  <2>1. slots \subseteq { i \in Slots : line[i] = 0 } /\ (~ Present => slots = {})
    BY <1>3 DEF Stretchable, kSubset
  <2>2. slots \subseteq Slots
    BY <2>1
  <2> QED
    BY <2>1, <2>2, RangesAreFinite, FS_Subset, FS_CardinalityType, FS_EmptySet
<1>7. /\ stretched \in Nat /\ ahead \in 0 .. stretched /\ hits \in 0 .. MaxHits
      /\ hits' \in 0 .. MaxHits /\ stretched' \in Nat /\ ahead' \in 0 .. stretched'
      /\ ~ hit' => ~ hit /\ slots = {} /\ doubled = {} /\ ahead = 0
      /\ ahead' = 0 => ahead = 0 /\ doubled = {} /\ stretched' = stretched + Cardinality(slots)
  <2>1. stretched \in Nat /\ ahead \in 0 .. stretched /\ hits \in 0 .. MaxHits
    BY DEF DsInv, TypeOK
  <2>2. DoubleCost * Cardinality(doubled) \in Nat
    BY <1>5, Ds18b20Assumption
  <2> HIDE DEF line
  <2>3. hits' \in 0 .. MaxHits
    BY <1>3, <1>6, <2>1, <2>2, Ds18b20Assumption
  <2>4. stretched' \in Nat /\ ahead' \in 0 .. stretched'
    BY <1>3, <1>5, <1>6, <2>1
  <2>9. /\ stretched' = stretched + Cardinality(slots) + Cardinality(doubled)
        /\ ahead' = ahead + Cardinality(doubled)
    BY <1>3
  <2>5. stretched' = 0 => /\ stretched = 0 /\ ahead = 0
                          /\ Cardinality(slots) = 0 /\ Cardinality(doubled) = 0
    <3>1. \A a, b, c \in Nat : a + b + c = 0 => a = 0 /\ b = 0 /\ c = 0
      OBVIOUS
    <3>2. Cardinality(slots) \in Nat /\ Cardinality(doubled) \in Nat
      BY <1>5, <1>6
    <3>3. ASSUME stretched' = 0
          PROVE  stretched = 0 /\ Cardinality(slots) = 0 /\ Cardinality(doubled) = 0
      <4>1. stretched + Cardinality(slots) + Cardinality(doubled) = 0
        BY <2>9, <3>3
      <4>2. stretched \in Nat
        BY <2>1
      <4> QED
        BY <3>1, <3>2, <4>1, <4>2
    <3>4. stretched = 0 => ahead = 0
      BY <2>1
    <3> QED
      BY <3>3, <3>4, Zenon
  <2>6. ahead' = 0 => /\ ahead = 0 /\ Cardinality(doubled) = 0
                      /\ stretched' = stretched + Cardinality(slots)
    BY <2>9, <1>5, <1>6, <2>1
  <2>7. ~ hit' => ~ hit /\ slots = {} /\ doubled = {} /\ ahead = 0
    BY <1>5, <1>6, <2>5 DEF hit
  <2>8. ahead' = 0 => ahead = 0 /\ doubled = {} /\ stretched' = stretched + Cardinality(slots)
    BY <1>5, <2>6
  <2> QED
    BY <2>1, <2>3, <2>4, <2>7, <2>8, Zenon
<1>8. /\ sends => sensor[pin] \in SensorState /\ sensor[pin].sent = n - 1
      /\ Present => sensor[pin] \in SensorState
  BY <1>1, Steps DEF DsInv, TypeOK, Listening, Present
<1>9. /\ line \in Bits
      /\ ~ sends => line = SentBits(IF pin \in Low THEN 0 ELSE 255)
      /\ sends => byte \in Byte /\ Sealed[sensor[pin].pad] \in [1 .. 9 -> Byte]
      /\ sends /\ ahead = 0 /\ doubled = {} => line = SentBits(byte)
  BY <1>1, <1>4, <1>5, LineIs
<1> HIDE DEF line
<1>10. /\ bits(line, slots) \in Bits
       /\ slots = {} => bits(line, slots) = line
       /\ \A i \in Slots : bits(line, slots)[i] # line[i] <=> i \in slots
  BY <1>6, <1>9 DEF Bits
<1>11. read \in Byte /\ BitsOf(read) = bits(line, slots)
  <2> HIDE DEF bits
  <2> QED
    BY <1>10, ReadBitsIs, ValueIsByte, BitsOfValue
<1>12. ASSUME NEW b \in Byte, line = SentBits(b), slots = {}
       PROVE  read = b
  <2>1. bits(line, slots) = SentBits(b)
    BY <1>10, <1>12
  <2> HIDE DEF bits
  <2> QED
    BY <2>1, Unstretched
<1>13. ASSUME sends, ahead = 0, doubled = {}
       PROVE  /\ Unlike(read, byte) = slots
              /\ slots = {} => read = byte
  <2>1. line = BitsOf(byte) /\ byte \in Byte
    BY <1>9, <1>13 DEF SentBits
  <2> HIDE DEF read
  <2>2. Unlike(read, byte) = { i \in Slots : bits(line, slots)[i] # line[i] }
    BY <1>11, <2>1 DEF Unlike
  <2>3. slots \subseteq Slots
    BY <1>6
  <2>4. Unlike(read, byte) = slots
    BY <1>10, <2>2, <2>3
  <2> QED
    BY <1>9, <1>12, <1>13, <2>4
<1> HIDE DEF bits, read
<1>14. sensor' \in [Sensor -> SensorState]
  <2> SUFFICES ASSUME NEW s \in Sensor
               PROVE  (IF s = pin /\ sensor[s].at = "sending"
                       THEN [sensor[s] EXCEPT !.sent = @ + 1] ELSE sensor[s]) \in SensorState
    BY <1>1
  <2>1. sensor[s] \in SensorState
    BY DEF DsInv, TypeOK
  <2>2. CASE s = pin /\ sensor[s].at = "sending"
    <3>1. sensor[s].sent + 1 \in 0 .. 9
      BY <1>1, <1>8, <2>2 DEF Present
    <3> QED
      BY <2>1, <2>2, <3>1 DEF SensorState
  <2> QED
    BY <2>1, <2>2
<1>15. Present => /\ sensor'[pin].at = sensor[pin].at
                  /\ sensor'[pin].pad = sensor[pin].pad
                  /\ sensor'[pin].conversion = sensor[pin].conversion
                  /\ sends => sensor'[pin].sent = n
  <2> SUFFICES ASSUME Present PROVE /\ sensor'[pin].at = sensor[pin].at
                                    /\ sensor'[pin].pad = sensor[pin].pad
                                    /\ sensor'[pin].conversion = sensor[pin].conversion
                                    /\ sends => sensor'[pin].sent = n
    OBVIOUS
  <2>1. /\ sends => sensor'[pin] = [sensor[pin] EXCEPT !.sent = sensor[pin].sent + 1]
        /\ ~ sends => sensor'[pin] = sensor[pin]
    BY <1>1 DEF Present
  <2>2. sends => sensor[pin].sent + 1 = n
    BY <1>1, <1>8
  <2> QED
    BY <1>8, <2>1, <2>2 DEF SensorState
<1>16. TypeOK'
  <2>1. tmpdata' \in [1 .. 9 -> Byte]
    BY <1>1, <1>3, <1>11 DEF DsInv, TypeOK, read
  <2>2. pc' \in 0 .. Done
    BY <1>1, Steps
  <2> QED
    BY <1>1, <1>7, <1>14, <2>1, <2>2 DEF DsInv, TypeOK
<1>24. Fresh'
  BY <1>1 DEF Fresh
<1>17. /\ tmpdata \in [1 .. 9 -> Byte] /\ tmpdata' \in [1 .. 9 -> Byte]
       /\ tmpdata'[n] = read
       /\ \A i \in 1 .. 9 : i # n => tmpdata'[i] = tmpdata[i]
  BY <1>1, <1>3, <1>16 DEF DsInv, TypeOK, read
<1>18. Listening'
  <2>1. /\ pc >= FirstRead /\ pc' >= FirstRead /\ pc' > 5 /\ pc > 5 /\ pc' - FirstRead = n
        /\ ~ (pc < FirstRead) /\ ~ (pc' < FirstRead) /\ pc > 1
    BY <1>1, Steps
  <2>2. Present => /\ ~ hit => sensor[pin].at = "sending" /\ Asked
                   /\ sensor'[pin].at = "sending" => sensor'[pin].sent = n
    BY <1>15, <2>1 DEF DsInv, Listening
  <2>3. Present' = Present
    BY <1>1 DEF Present
  <2>4. Present => (Asked' <=> Asked)
    BY <1>1, <1>15 DEF Asked
  <2>5. Present => /\ ~ hit' => sensor'[pin].at = "sending" /\ Asked'
                   /\ sensor'[pin].at = "sending" => sensor'[pin].sent = n
    BY <1>7, <1>15, <2>2, <2>4
  <2> QED
    BY <1>1, <2>1, <2>3, <2>5 DEF Listening
<1>19. /\ (Present' <=> Present) /\ (Sending' <=> Sending) /\ (Sending <=> sends)
       /\ pc' - FirstRead = n /\ pc - FirstRead = n - 1
       /\ pc >= FirstRead /\ pc' >= FirstRead /\ pc' > 0 /\ pc > 0
  BY <1>1, <1>15, Numbers DEF Sending, Present
<1>20. Arriving'
  <2>1. IsFiniteSet(held') /\ held' \subseteq { Sealed[pad] : pad \in Pads }
    BY <1>1 DEF DsInv, Arriving
  <2>2. ASSUME Present PROVE Sealed[sensor'[pin].pad] \in held'
    BY <1>1, <1>15, <2>2 DEF DsInv, Arriving
  <2>3. ASSUME Present, ~ hit', NEW h \in held', held' = {h},
               NEW i \in 1 .. 9, i <= pc' - FirstRead
        PROVE  tmpdata'[i] = h[i]
    <3>1. i <= n
      BY <1>1, <2>3, Steps
    <3>2. ~ hit /\ slots = {} /\ doubled = {} /\ ahead = 0 /\ sends
      BY <1>1, <1>7, <2>3, Steps DEF DsInv, Listening
    <3>3. h = Sealed[sensor[pin].pad]
      BY <1>1, <2>3 DEF DsInv, Arriving
    <3>4. CASE i = n
      BY <1>13, <1>17, <3>2, <3>3, <3>4
    <3>5. CASE i # n
      <4>1. i <= pc - FirstRead
        BY <1>1, <3>1, <3>5, Steps
      <4>2. tmpdata[i] = h[i]
        BY <1>1, <2>3, <3>2, <4>1 DEF DsInv, Arriving
      <4> QED
        BY <1>17, <3>5, <4>2
    <3> QED
      BY <3>4, <3>5
  <2>4. Present' = Present /\ pin' = pin
    BY <1>1 DEF Present
  <2> QED
    BY <2>1, <2>2, <2>3, <2>4 DEF Arriving
<1>21. Remembered' /\ Delivered'
  BY <1>1 DEF DsInv, Remembered, Delivered
<1>22. Garbled'
  <2>1. ASSUME Present
        PROVE  /\ Cardinality(held') <= 2
               /\ sensor'[pin].conversion = "old" => held' = { Sealed[sensor'[pin].pad] }
    BY <1>1, <1>15, <1>19, <2>1 DEF DsInv, Garbled
  <2>2. ASSUME sends, ahead' = 0, NEW h \in held, held = {h}
        PROVE  Cardinality(WrongOf(tmpdata', h, n)) <= stretched'
    <3>1. h = Sealed[sensor[pin].pad] /\ h \in [1 .. 9 -> Byte] /\ h[n] = byte
      BY <1>9, <1>19, <2>2 DEF DsInv, Arriving
    <3>2. WrongOf(tmpdata', h, n - 1) = WrongOf(tmpdata, h, n - 1)
      BY <1>17 DEF WrongOf
    <3>3. WrongOf(tmpdata, h, n - 1) = Wrong(h)
      BY <1>19 DEF Wrong, WrongOf
    <3>4. Cardinality(Wrong(h)) <= stretched
      BY <1>7, <1>19, <2>2 DEF DsInv, Garbled
    <3>5. IsFiniteSet(Wrong(h)) /\ Cardinality(Wrong(h)) \in Nat
      BY <3>3, WrongIsFinite, FS_CardinalityType
    <3>6. Cardinality(WrongOf(tmpdata', h, n))
            = Cardinality(WrongOf(tmpdata', h, n - 1)) + Cardinality(Unlike(tmpdata'[n], h[n]))
      BY <1>1, <1>17, <3>1, <3>2, <3>3, <3>5, WrongGrows
    <3>7. Unlike(tmpdata'[n], h[n]) = slots
      BY <1>7, <1>13, <1>17, <2>2, <3>1
    <3>8. Cardinality(WrongOf(tmpdata', h, n)) = Cardinality(Wrong(h)) + Cardinality(slots)
      BY <3>2, <3>3, <3>6, <3>7
    <3> QED
      BY <1>6, <1>7, <2>2, <3>4, <3>5, <3>8
  <2>3. ASSUME sends, ~ hit', NEW i \in 1 .. 9, i <= n
        PROVE  \E h \in held : tmpdata'[i] = h[i]
    <3>1. ~ hit /\ slots = {} /\ doubled = {} /\ ahead = 0
      BY <1>7, <2>3
    <3>2. CASE i = n
      <4>1. tmpdata'[n] = Sealed[sensor[pin].pad][n]
        BY <1>13, <1>17, <2>3, <3>1
      <4>2. Sealed[sensor[pin].pad] \in held
        BY <1>19, <2>3 DEF DsInv, Arriving
      <4> QED
        BY <3>2, <4>1, <4>2
    <3>3. CASE i # n
      <4>1. i <= pc - FirstRead
        BY <1>1, <1>19, <2>3, <3>3
      <4>2. \E h \in held : tmpdata[i] = h[i]
        BY <1>19, <2>3, <3>1, <4>1 DEF DsInv, Garbled
      <4> QED
        BY <1>17, <3>3, <4>2
    <3> QED
      BY <3>2, <3>3
  <2>4. \A h : Wrong(h)' = WrongOf(tmpdata', h, n)
    BY <1>19 DEF Wrong, WrongOf
  <2> QED
    BY <1>1, <1>19, <2>1, <2>2, <2>3, <2>4 DEF Garbled
<1>23. Silent'
  <2> DEFINE mute == IF pin \in Low THEN 0 ELSE 255
  <2> SUFFICES ASSUME ~ sends, NEW i \in 1 .. 9, i <= n PROVE tmpdata'[i] = mute
    BY <1>1, <1>19 DEF Silent
  <2>1. CASE i = n
    <3>1. line = SentBits(mute) /\ mute \in Byte
      <4>1. 0 \in Byte /\ 255 \in Byte
        BY DEF Byte
      <4> QED
        BY <1>9, <4>1
    <3>2. slots = {}
      <4>1. CASE Present
        <5>1. line = SentBits(255)
          BY <3>1, <4>1, Ds18b20Assumption DEF Present
        <5>2. \A j \in Slots : SentBits(255)[j] = 1
          BY OnesBits DEF SentBits
        <5> QED
          BY <1>6, <5>1, <5>2
      <4>2. CASE ~ Present
        BY <1>6, <4>2
      <4> QED
        BY <4>1, <4>2
    <3> HIDE DEF mute
    <3>3. read = mute
      BY <1>12, <3>1, <3>2
    <3> QED
      BY <1>17, <2>1, <3>3
  <2>2. CASE i # n
    <3>1. i <= pc - FirstRead
      BY <1>1, <1>19, <2>2
    <3>2. tmpdata[i] = mute
      BY <1>19, <3>1 DEF DsInv, Silent
    <3> QED
      BY <1>17, <2>2, <3>2
  <2> QED
    BY <2>1, <2>2
<1> QED
  BY <1>16, <1>18, <1>20, <1>21, <1>22, <1>23, <1>24 DEF DsInv

LEMMA CopyOutKeeps ==
  ASSUME DsInv, CopyOut
  PROVE  DsInv'
<1>1. /\ tmpdata \in [1 .. 9 -> Byte] /\ good \in Byte \X Byte
      /\ lastdata \in Byte \X Byte /\ lastdata = << good[2], good[1] >>
      /\ sensor \in [Sensor -> SensorState]
  BY DEF DsInv, TypeOK, Remembered
<1>2. tmpdata[1] \in Byte /\ tmpdata[2] \in Byte
  BY <1>1
<1>3. SubSeq(tmpdata, 1, 2) = << tmpdata[1], tmpdata[2] >>
  <2> DEFINE two == SubSeq(tmpdata, 1, 2)
  <2>1. \A i \in 1 .. 2 : tmpdata[i] \in Byte
    BY <1>1
  <2>2. /\ two \in Seq(Byte)
        /\ Len(two) = IF 1 <= 2 THEN 2 - 1 + 1 ELSE 0
        /\ \A i \in 1 .. 2 - 1 + 1 : two[i] = tmpdata[1 + i - 1]
    BY <2>1, SubSeqProperties
  <2>3. Len(two) = 2 /\ two[1] = tmpdata[1] /\ two[2] = tmpdata[2]
    BY <2>2
  <2> HIDE DEF two
  <2>4. << tmpdata[1], tmpdata[2] >> \in Seq(Byte)
    BY <1>2
  <2>5. two = << tmpdata[1], tmpdata[2] >>
    BY <2>2, <2>3, <2>4, SeqEqual
  <2> QED
    BY <2>5 DEF two
<1>4. /\ good' \in Byte \X Byte
      /\ Result = << good'[2], good'[1] >>
      /\ lastdata' = Result
      /\ Result \in Byte \X Byte
  BY <1>1, <1>2, <1>3 DEF CopyOut, Result, Kept
<1>5. /\ tmpdata' \in [1 .. 9 -> Byte]
      /\ tmpdata'[1] = Result[1] /\ tmpdata'[2] = Result[2]
  BY <1>1, <1>4 DEF CopyOut
<1>6. sensor' \in [Sensor -> SensorState]
  BY <1>1 DEF CopyOut, SensorState
<1>7. pc' = 0 /\ UNCHANGED << loaded, pin, reads, ahead, hits, held, stretched, busy >>
  BY DEF CopyOut
<1>8. TypeOK'
  BY <1>4, <1>5, <1>6, <1>7, Steps DEF DsInv, TypeOK
<1>9. Fresh' /\ Listening' /\ Arriving'
  <2>1. Fresh'
    BY <1>1 DEF CopyOut, SensorState, Fresh
  <2> QED
    BY <1>7, <2>1 DEF DsInv, Listening, Arriving
<1>10. Remembered' /\ Delivered'
  BY <1>4, <1>5 DEF Remembered, Delivered
<1>11. Garbled' /\ Silent'
  BY <1>7, Numbers DEF Garbled, Silent, Sending
<1> QED
  BY <1>8, <1>9, <1>10, <1>11 DEF DsInv

LEMMA ConversionKeeps ==
  ASSUME DsInv, NEW s \in Sensor, ConversionEnds(s)
  PROVE  DsInv'
<1>1. PICK pad \in Pads :
        sensor' = [sensor EXCEPT ![s].pad = pad, ![s].conversion = "idle"]
  BY DEF ConversionEnds
<1>2. /\ held' = IF s = pin /\ pc # 0 THEN held \cup { Sealed[sensor'[s].pad] } ELSE held
      /\ UNCHANGED << loaded, pin, pc, tmpdata, lastdata, reads, ahead, hits, stretched,
                      busy, good >>
      /\ sensor[s].conversion = "old"
  BY DEF ConversionEnds
<1>3. /\ sensor' \in [Sensor -> SensorState]
      /\ sensor'[s].pad = pad
  <2> DEFINE is == [sensor[s] EXCEPT !.pad = pad, !.conversion = "idle"]
  <2>1. sensor \in [Sensor -> SensorState]
    BY DEF DsInv, TypeOK
  <2>2. sensor' = [sensor EXCEPT ![s] = is]
    BY <1>1, <2>1
  <2>3. is \in SensorState /\ is.pad = pad
    BY <2>1 DEF SensorState
  <2> QED
    BY <2>1, <2>2, <2>3
<1>4. Present => /\ sensor'[pin].at = sensor[pin].at /\ sensor'[pin].sent = sensor[pin].sent
                 /\ s # pin => sensor'[pin] = sensor[pin]
                 /\ s = pin => sensor'[pin].conversion = "idle"
  BY <1>1 DEF DsInv, TypeOK, SensorState, Present
<1>5. Present' = Present /\ hit' = hit
  BY <1>2 DEF Present, hit
<1>6. TypeOK' /\ Fresh'
  <2>1. TypeOK'
    BY <1>2, <1>3 DEF DsInv, TypeOK
  <2>2. \A r \in Sensor : sensor[r].conversion # "new" => sensor'[r].conversion # "new"
    BY <1>1 DEF DsInv, TypeOK, SensorState
  <2>3. pc \in Nat /\ pc' = pc
    BY <1>2, Numbers DEF DsInv, TypeOK
  <2> QED
    BY <2>1, <2>2, <2>3 DEF DsInv, Fresh
<1>7. Listening'
  <2>1. Listening /\ pc \in 0 .. 18
    BY Steps DEF DsInv, TypeOK
  <2>2. Present => (Asked' <=> Asked)
    <3>1. CASE s = pin
      BY <1>2, <1>4, <3>1 DEF Asked
    <3>2. CASE s # pin
      BY <1>2, <1>4, <3>2 DEF Asked
    <3> QED
      BY <3>1, <3>2
  <2>3. Present /\ sensor'[pin].conversion = "new" => sensor[pin].conversion = "new"
    BY <1>4
  <2> QED
    BY <1>2, <1>4, <1>5, <2>1, <2>2, <2>3 DEF Listening
<1>8. Arriving'
  <2>1. /\ IsFiniteSet(held) /\ held \subseteq { Sealed[q] : q \in Pads }
        /\ Present /\ pc > 0 => Sealed[sensor[pin].pad] \in held
    BY DEF DsInv, Arriving
  <2>2. IsFiniteSet(held') /\ held' \subseteq { Sealed[q] : q \in Pads }
    BY <1>2, <1>3, <2>1, FS_AddElement
  <2>3. Present /\ pc > 0 => Sealed[sensor'[pin].pad] \in held'
    BY <1>2, <1>4, <2>1
  <2>4. ASSUME Present, pc > 0, NEW h \in held', held' = {h}
        PROVE  h \in held /\ held = {h}
    BY <1>2, <2>1, <2>4
  <2>5. ASSUME Present, pc > 0, ~ hit, NEW h \in held', held' = {h},
               NEW i \in 1 .. 9, i <= pc - FirstRead
        PROVE  tmpdata[i] = h[i]
    BY <2>4, <2>5 DEF DsInv, Arriving
  <2> QED
    BY <1>2, <1>5, <2>2, <2>3, <2>5 DEF Arriving
<1>9. Remembered' /\ Delivered'
  BY <1>2 DEF DsInv, Remembered, Delivered
<1>10. Sending' = Sending
  BY <1>2, <1>4, <1>5 DEF Sending
<1>11. Silent'
  BY <1>2, <1>10 DEF DsInv, Silent
<1>12. Garbled'
  <2>1. held \subseteq held' /\ IsFiniteSet(held)
    BY <1>2 DEF DsInv, Arriving
  <2>2. ASSUME Present, pc > 0
        PROVE  /\ Cardinality(held') <= 2
               /\ sensor'[pin].conversion = "old" => held' = { Sealed[sensor'[pin].pad] }
    <3>1. CASE s = pin
      <4>1. held = { Sealed[sensor[pin].pad] }
        BY <2>2, <3>1 DEF DsInv, Garbled, ConversionEnds
      <4>2. Cardinality(held) = 1
        BY <4>1, FS_Singleton
      <4>3. held' = held \cup { Sealed[sensor'[s].pad] }
        BY <1>2, <2>2, <3>1
      <4>4. Cardinality(held') = 1 \/ Cardinality(held') = 1 + 1
        BY <2>1, <4>2, <4>3, FS_AddElement
      <4>5. sensor'[pin].conversion = "idle"
        BY <1>4, <2>2, <3>1
      <4> QED
        BY <4>4, <4>5
    <3>2. CASE s # pin
      BY <1>2, <1>4, <2>2, <3>2 DEF DsInv, Garbled
    <3> QED
      BY <3>1, <3>2
  <2>3. ASSUME Sending, ahead = 0, NEW h \in held', held' = {h}
        PROVE  Cardinality(Wrong(h)) <= stretched
    <3>1. held # {}
      BY <2>3, Numbers DEF DsInv, Arriving, Sending, TypeOK
    <3>2. h \in held /\ held = {h}
      BY <2>1, <2>3, <3>1
    <3> QED
      BY <2>3, <3>2 DEF DsInv, Garbled
  <2>4. ASSUME Sending, ~ hit, NEW i \in 1 .. 9, i <= pc - FirstRead
        PROVE  \E h \in held' : tmpdata[i] = h[i]
    BY <2>1, <2>4 DEF DsInv, Garbled
  <2>5. \A h : Wrong(h)' = Wrong(h)
    BY <1>2 DEF Wrong
  <2> QED
    BY <1>2, <1>5, <1>10, <2>2, <2>3, <2>4, <2>5 DEF Garbled
<1> QED
  BY <1>6, <1>7, <1>8, <1>9, <1>11, <1>12 DEF DsInv

LEMMA DsStep == DsInv /\ [Next]_vars => DsInv'
<1> SUFFICES ASSUME DsInv, [Next]_vars PROVE DsInv'
  OBVIOUS
<1>1. CASE UNCHANGED vars
  BY <1>1 DEF vars, history, DsInv, TypeOK, Fresh, Listening, Arriving, Garbled, Silent, Sending,
              Wrong, Remembered, Delivered, Present, hit, Asked
<1> QED
  BY <1>1, ControlKeeps, BeginReadKeeps, ResetKeeps, WriteByteKeeps, ReadByteKeeps,
     CopyOutKeeps, ConversionKeeps DEF Next
------------------------------------------------------------------------------
(* At each step of a read a sensor that no slot was stretched for is where *)
(* the commands should have brought it, and what was read is its           *)
(* scratchpad; whatever was before the read (ds18b20.c:145-177).           *)
THEOREM DsInvariant == Spec => []DsInv
<1> QED
  BY DsInit, DsStep, PTL DEF Spec

(* A read that nothing disturbs gets the scratchpad of the sensor, and has *)
(* started a conversion, unless one that an earlier read had started was   *)
(* under way when it asked for one, and then it has started none           *)
(* (ds18b20.c:145-177).                                                    *)
THEOREM QuietReadHolds == Spec => []QuietRead
<1>1. DsInv => QuietRead
  <2> SUFFICES ASSUME DsInv, pc = Done, Present, ~ hit
               PROVE  /\ Cardinality(held) = 1 => tmpdata \in held
                      /\ Asked
    BY DEF QuietRead
  <2>1. ASSUME Cardinality(held) = 1 PROVE tmpdata \in held
    <3>1. PICK h : held = {h}
      BY <2>1, FS_Singleton DEF DsInv, Arriving
    <3>2. \A i \in 1 .. 9 : tmpdata[i] = h[i]
      BY <3>1, Steps DEF DsInv, Arriving
    <3>3. h \in [1 .. 9 -> Byte] /\ tmpdata \in [1 .. 9 -> Byte]
      BY <3>1, SealedIs DEF DsInv, TypeOK, Arriving
    <3>4. tmpdata = h
      BY <3>2, <3>3
    <3> QED
      BY <3>1, <3>4
  <2>2. Asked
    BY Steps DEF DsInv, Listening
  <2> QED
    BY <2>1, <2>2
<1> QED
  BY <1>1, DsInvariant, PTL

(* What is copied to the user is the last reading accepted, most           *)
(* significant byte first, whoever's it was (ds18b20.c:266-293).           *)
THEOREM DeliveredHolds == Spec => []Delivered
<1>1. DsInv => Delivered
  BY DEF DsInv
<1> QED
  BY <1>1, DsInvariant, PTL

(* The table of the driver is what eight shifts of the sensor's register   *)
(* make of each byte, so the two compute the same checksum                 *)
(* (ds18b20.c:49).                                                         *)
THEOREM ChecksumsAgreeHolds == Spec => []ChecksumsAgree
<1>1. ChecksumsAgree
  BY TableIsChecksum DEF ChecksumsAgree
<1> QED
  BY <1>1, PTL

(* Whatever up to three slots of a read are stretched, and wherever in a   *)
(* read that is not stretched a conversion ends, the check passes only the *)
(* nine bytes of a scratchpad the sensor had, or the zeros of a line held  *)
(* low (ds18b20.c:266).  Of a read that lost a bit to a doubled slot       *)
(* nothing is said.                                                        *)
THEOREM AcceptedIntactHolds == Spec => []AcceptedIntact
<1>1. DsInv => AcceptedIntact
  <2> SUFFICES ASSUME DsInv, pc = Done, Accepted, stretched <= Detected, ahead = 0,
                      ~ (hit /\ Cardinality(held) > 1)
               PROVE  tmpdata \in held \/ (pin \in Low /\ tmpdata = Zeros)
    BY DEF AcceptedIntact
  <2>1. /\ tmpdata \in [1 .. 9 -> Byte] /\ crc_check(tmpdata, 9) = 0
        /\ pc - FirstRead = 9 /\ pc >= FirstRead /\ pc > 0 /\ stretched <= 3
    BY Numbers DEF DsInv, TypeOK, Accepted, Detected
  <2>2. CASE Sending
    <3>1. /\ IsFiniteSet(held) /\ held \subseteq { Sealed[pad] : pad \in Pads }
          /\ Sealed[sensor[pin].pad] \in held /\ Cardinality(held) <= 2
      BY <2>1, <2>2 DEF DsInv, Arriving, Garbled, Sending
    <3>2. ASSUME NEW h \in held, held = {h} PROVE tmpdata \in held
      <4>1. PICK pad \in Pads : h = Sealed[pad]
        BY <3>1
      <4>2. Cardinality(Wrong(h)) <= 3
        <5>1. Cardinality(Wrong(h)) <= stretched
          BY <2>2, <3>2 DEF DsInv, Garbled
        <5>2. stretched \in Nat /\ Wrong(h) = WrongOf(tmpdata, h, 9)
          BY <2>1 DEF DsInv, TypeOK, Wrong, WrongOf
        <5>3. Cardinality(Wrong(h)) \in Nat
          BY <5>2, WrongIsFinite, FS_CardinalityType
        <5> QED
          BY <2>1, <5>1, <5>2, <5>3
      <4>3. Cardinality(WrongOf(tmpdata, Sealed[pad], 9)) <= 3
        BY <2>1, <4>1, <4>2 DEF Wrong, WrongOf
      <4> QED
        BY <2>1, <3>2, <4>1, <4>3, FewIs
    <3>3. ASSUME NEW h \in held, held # {h} PROVE tmpdata \in held
      <4>1. PICK g \in held : g # h
        BY <3>3
      <4>2. held = {g, h} /\ Cardinality(held) > 1
        <5>1. Cardinality({g, h}) = 2 /\ IsFiniteSet({g, h})
          <6>1. {g, h} = {g} \cup {h} /\ h \notin {g}
            BY <4>1
          <6>2. IsFiniteSet({g}) /\ Cardinality({g}) = 1
            BY FS_Singleton
          <6>3. /\ IsFiniteSet({g} \cup {h})
                /\ Cardinality({g} \cup {h}) = Cardinality({g}) + 1
            BY <6>1, <6>2, FS_AddElement
          <6> QED
            BY <6>1, <6>2, <6>3
        <5>2. /\ {g, h} \subseteq held /\ Cardinality(held) \in Nat
              /\ Cardinality({g, h}) <= Cardinality(held)
          BY <3>1, <3>3, <4>1, FS_Subset, FS_CardinalityType
        <5>3. Cardinality(held) = Cardinality({g, h})
          BY <3>1, <5>1, <5>2
        <5> QED
          BY <3>1, <5>1, <5>2, <5>3, FS_Subset
      <4>3. \A i \in 1 .. 9 : tmpdata[i] = g[i] \/ tmpdata[i] = h[i]
        BY <2>1, <2>2, <4>2 DEF DsInv, Garbled
      <4>4. PICK p \in Pads, q \in Pads : g = Sealed[p] /\ h = Sealed[q]
        BY <3>1, <3>3, <4>1
      <4> QED
        BY <2>1, <4>2, <4>3, <4>4, TornIsSeen
    <3> QED
      BY <3>1, <3>2, <3>3
  <2>3. CASE ~ Sending /\ pin \in Low
    <3>1. \A i \in 1 .. 9 : tmpdata[i] = 0
      BY <2>1, <2>3 DEF DsInv, Silent
    <3> QED
      BY <2>1, <2>3, <3>1 DEF Zeros
  <2>4. CASE ~ Sending /\ pin \notin Low
    <3>1. \A i \in 1 .. 9 : tmpdata[i] = 255
      BY <2>1, <2>4 DEF DsInv, Silent
    <3> QED
      BY <2>1, <3>1, OnesFail
  <2> QED
    BY <2>2, <2>3, <2>4
<1> QED
  BY <1>1, DsInvariant, PTL
============================================================================
