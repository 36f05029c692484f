------------------------------- MODULE OneWire -------------------------------
(***************************************************************************)
(* ds18b20/ds18b20.c: what a byte is on the one-wire bus, and the checksum *)
(* of what the sensor sends.                                               *)
(***************************************************************************)
EXTENDS Integers, Sequences

Byte  == 0 .. 255
Slots == 1 .. 8          \* the time slots of a byte, in the order of the bus

(* What the bit of a slot is worth, and the bits of a byte. *)
Weight == << 1, 2, 4, 8, 16, 32, 64, 128 >>
BitsOf(byte) == [i \in Slots |-> (byte \div Weight[i]) % 2]

ByteOf(bits) ==
  LET byte[i \in 0 .. 8] == IF i = 0 THEN 0 ELSE byte[i - 1] + bits[i] * Weight[i]
  IN  byte[8]

Xor(a, b) == ByteOf([i \in Slots |-> (BitsOf(a)[i] + BitsOf(b)[i]) % 2])
------------------------------------------------------------------------------
(* The driver's side. *)

(* ds18b20_write_byte: the bit sent in each slot. *)
WriteBits(byte) == BitsOf(byte)

(* ds18b20_read_byte: the byte made of the bits sampled in each slot. *)
ReadBits(bits) ==
  LET byte[i \in 0 .. 8] == IF i = 0 THEN 0 ELSE byte[i - 1] \div 2 + 128 * bits[i]
  IN  byte[8]

CrcEntries == <<
    0,  94, 188, 226,  97,  63, 221, 131, 194, 156, 126,  32, 163, 253,  31,  65,
  157, 195,  33, 127, 252, 162,  64,  30,  95,   1, 227, 189,  62,  96, 130, 220,
   35, 125, 159, 193,  66,  28, 254, 160, 225, 191,  93,   3, 128, 222,  60,  98,
  190, 224,   2,  92, 223, 129,  99,  61, 124,  34, 192, 158,  29,  67, 161, 255,
   70,  24, 250, 164,  39, 121, 155, 197, 132, 218,  56, 102, 229, 187,  89,   7,
  219, 133, 103,  57, 186, 228,   6,  88,  25,  71, 165, 251, 120,  38, 196, 154,
  101,  59, 217, 135,   4,  90, 184, 230, 167, 249,  27,  69, 198, 152, 122,  36,
  248, 166,  68,  26, 153, 199,  37, 123,  58, 100, 134, 216,  91,   5, 231, 185,
  140, 210,  48, 110, 237, 179,  81,  15,  78,  16, 242, 172,  47, 113, 147, 205,
   17,  79, 173, 243, 112,  46, 204, 146, 211, 141, 111,  49, 178, 236,  14,  80,
  175, 241,  19,  77, 206, 144, 114,  44, 109,  51, 209, 143,  12,  82, 176, 238,
   50, 108, 142, 208,  83,  13, 239, 177, 240, 174,  76,  18, 145, 207,  45, 115,
  202, 148, 118,  40, 171, 245,  23,  73,   8,  86, 180, 234, 105,  55, 213, 139,
   87,   9, 235, 181,  54, 104, 138, 212, 149, 203,  41, 119, 244, 170,  72,  22,
  233, 183,  85,  11, 136, 214,  52, 106,  43, 117, 151, 201,  74,  20, 246, 168,
  116,  42, 200, 150,  21,  75, 169, 247, 182, 232,  10,  84, 215, 137, 107,  53 >>

(* Seeded fault: a digit of the table mistyped. *)
MistypedTable == [b \in Byte |-> IF b = 190 THEN 67 ELSE CrcEntries[b + 1]]

CrcTable == [b \in Byte |-> CrcEntries[b + 1]]

(* crc_check, of the first n bytes. *)
crc_check(data, n) ==
  LET crc[i \in 0 .. n] == IF i = 0 THEN 0 ELSE CrcTable[Xor(crc[i - 1], data[i])]
  IN  crc[n]
------------------------------------------------------------------------------
(* The sensor's side: bits go least significant first, and the checksum is *)
(* a shift register with taps at x^8 + x^5 + x^4 + 1.                      *)
SentBits(byte)  == BitsOf(byte)
HeardByte(bits) == ByteOf(bits)

ShiftCrc(crc) == IF crc % 2 = 1 THEN Xor(crc \div 2, 140) ELSE crc \div 2

CrcOf(byte) ==
  LET crc[i \in 0 .. 8] == IF i = 0 THEN byte ELSE ShiftCrc(crc[i - 1])
  IN  crc[8]

SensorCrc(data) ==
  LET crc[i \in 0 .. Len(data)] == IF i = 0 THEN 0 ELSE CrcOf(Xor(crc[i - 1], data[i]))
  IN  crc[Len(data)]
------------------------------------------------------------------------------
(* Each entry of the table is what eight shifts of the sensor's register   *)
(* make of its index.                                                      *)
TableIsCrc == \A b \in Byte : CrcTable[b] = CrcOf(b)
==============================================================================
