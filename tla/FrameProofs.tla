---------------------------- MODULE FrameProofs -----------------------------
(***************************************************************************)
(* WebSocket frames: what create_websocket_frame() writes has the size     *)
(* that calculate_frame_size() reads and the payload where                 *)
(* parse_websocket_frame() looks for it, for every length; the receiver    *)
(* never loses step; and stream, sizing and parsing implement              *)
(* MessageChannel for texts, whichever frames come, in pieces of any size. *)
(***************************************************************************)
EXTENDS FrameProperties, SequenceTheorems, WellFoundedInduction, TLAPS

(* Membership of Byte, without the interval's elements one by one.         *)
LEMMA Bytes256 == \A n : n \in Byte <=> n \in Nat /\ n < 256
BY DEF Byte

(* What Number's recursion gives: it has one solution, which is shown.     *)
LEMMA NumberOfTwo ==
    ASSUME NEW a \in Byte, NEW b \in Byte
    PROVE  Number(<<a, b>>) = 256 * a + b
<1> DEFINE Step(g) == [k \in 0 .. 2 |-> IF k = 0 THEN 0 ELSE 256 * g[k - 1] + <<a, b>>[k]]
<1>1. Number(<<a, b>>) = (CHOOSE g : g = Step(g))[2]
  BY DEF Number
<1>2. PICK f : f = [k \in 0 .. 2 |-> IF k = 0 THEN 0 ELSE IF k = 1 THEN a ELSE 256 * a + b]
  OBVIOUS
<1>3. f = Step(f)
  <2>1. f[0] = 0 /\ f[1] = a /\ f[2] = 256 * a + b
    BY <1>2
  <2>2. \A k \in 0 .. 2 : f[k] = IF k = 0 THEN 0 ELSE 256 * f[k - 1] + <<a, b>>[k]
    BY <2>1, Bytes256
  <2> QED
    BY <1>2, <2>2
<1>4. PICK g : g = (CHOOSE h : h = Step(h)) /\ g = Step(g)
  BY <1>3
<1>5. g[0] = 0 /\ g[1] = 256 * g[0] + a /\ g[2] = 256 * g[1] + b
  BY <1>4
<1> QED
  BY <1>1, <1>4, <1>5, Bytes256

LEMMA NumberOfEight ==
    ASSUME NEW a \in Byte, NEW b \in Byte, NEW c \in Byte, NEW d \in Byte
    PROVE  Number(<<0, 0, 0, 0, a, b, c, d>>) = 256 * (256 * (256 * a + b) + c) + d
<1> DEFINE bytes == <<0, 0, 0, 0, a, b, c, d>>
           Step(g) == [k \in 0 .. 8 |-> IF k = 0 THEN 0 ELSE 256 * g[k - 1] + bytes[k]]
<1>1. Number(bytes) = (CHOOSE g : g = Step(g))[8]
  BY DEF Number
<1>2. PICK f : f = [k \in 0 .. 8 |->
                       CASE k <= 4 -> 0
                         [] k = 5 -> a
                         [] k = 6 -> 256 * a + b
                         [] k = 7 -> 256 * (256 * a + b) + c
                         [] k = 8 -> 256 * (256 * (256 * a + b) + c) + d]
  OBVIOUS
<1>3. a \in Nat /\ b \in Nat /\ c \in Nat /\ d \in Nat
  BY Bytes256
<1>4. f = Step(f)
  <2>1. /\ f[0] = 0 /\ f[1] = 0 /\ f[2] = 0 /\ f[3] = 0 /\ f[4] = 0
        /\ f[5] = a /\ f[6] = 256 * a + b /\ f[7] = 256 * (256 * a + b) + c
        /\ f[8] = 256 * (256 * (256 * a + b) + c) + d
    BY <1>2
  <2>2. /\ bytes[1] = 0 /\ bytes[2] = 0 /\ bytes[3] = 0 /\ bytes[4] = 0
        /\ bytes[5] = a /\ bytes[6] = b /\ bytes[7] = c /\ bytes[8] = d
    OBVIOUS
  <2> HIDE DEF bytes
  <2>3. \A k \in 0 .. 8 : f[k] = IF k = 0 THEN 0 ELSE 256 * f[k - 1] + bytes[k]
    BY <1>3, <2>1, <2>2
  <2> QED
    BY <1>2, <2>3
<1>5. PICK g : g = (CHOOSE h : h = Step(h)) /\ g = Step(g)
  BY <1>4
<1>6. /\ g[0] = 0 /\ g[1] = 256 * g[0] + 0 /\ g[2] = 256 * g[1] + 0 /\ g[3] = 256 * g[2] + 0
      /\ g[4] = 256 * g[3] + 0 /\ g[5] = 256 * g[4] + a /\ g[6] = 256 * g[5] + b
      /\ g[7] = 256 * g[6] + c /\ g[8] = 256 * g[7] + d
  BY <1>5
<1>7. g[5] = a
  BY <1>3, <1>6
<1>8. g[8] = 256 * (256 * (256 * a + b) + c) + d
  BY <1>3, <1>6, <1>7
<1> QED
  BY <1>1, <1>5, <1>8

(* Lengths come back from their bytes.                                     *)
LEMMA LengthOfTwo ==
    ASSUME NEW n \in Lengths, n < 65536
    PROVE  n \div 256 \in Byte /\ n % 256 \in Byte /\ 256 * (n \div 256) + (n % 256) = n
BY Bytes256 DEF Lengths

LEMMA LengthOfEight ==
    ASSUME NEW n \in Lengths
    PROVE  /\ n \div 16777216 \in Byte /\ (n \div 65536) % 256 \in Byte
           /\ (n \div 256) % 256 \in Byte /\ n % 256 \in Byte
           /\ 256 * (256 * (256 * (n \div 16777216) + ((n \div 65536) % 256))
                       + ((n \div 256) % 256)) + (n % 256) = n
BY Bytes256 DEF Lengths

-----------------------------------------------------------------------------
(* The key of a mask.                                                      *)

(* Halved seven times.                                                     *)
LEMMA Doubled ==
    ASSUME NEW m \in Nat, NEW a \in Nat, NEW b \in Nat, NEW c \in Nat, NEW d \in Nat,
           NEW e \in Nat, NEW f \in Nat, NEW g \in Nat, NEW h \in Nat,
           NEW p \in Nat, NEW q \in Nat, NEW r \in Nat, NEW s \in Nat, NEW t \in Nat,
           NEW u \in Nat,
           m = a + 2 * p, p = b + 2 * q, q = c + 2 * r, r = d + 2 * s, s = e + 2 * t,
           t = f + 2 * u, u = g + 2 * h
    PROVE  m = a + 2 * b + 4 * c + 8 * d + 16 * e + 32 * f + 64 * g + 128 * h
OBVIOUS

(* A byte is its bits, and the sum of eight bits has these bits.           *)
LEMMA BitsOfByte ==
    ASSUME NEW m \in Byte
    PROVE  /\ \A w \in {1, 2, 4, 8, 16, 32, 64, 128} : Bit(m, w) \in {0, 1}
           /\ m = Bit(m, 1) + 2 * Bit(m, 2) + 4 * Bit(m, 4) + 8 * Bit(m, 8)
                   + 16 * Bit(m, 16) + 32 * Bit(m, 32) + 64 * Bit(m, 64) + 128 * Bit(m, 128)
<1>1. m \in Nat /\ m < 256
  BY Bytes256
<1>2. \A w \in {1, 2, 4, 8, 16, 32, 64, 128} : Bit(m, w) \in {0, 1}
  BY <1>1 DEF Bit
<1>3. m = Bit(m, 1) + 2 * (m \div 2) /\ m \div 2 \in Nat
  BY <1>1 DEF Bit
<1>4. m \div 2 = Bit(m, 2) + 2 * (m \div 4) /\ m \div 4 \in Nat
  BY <1>1 DEF Bit
<1>5. m \div 4 = Bit(m, 4) + 2 * (m \div 8) /\ m \div 8 \in Nat
  BY <1>1 DEF Bit
<1>6. m \div 8 = Bit(m, 8) + 2 * (m \div 16) /\ m \div 16 \in Nat
  BY <1>1 DEF Bit
<1>7. m \div 16 = Bit(m, 16) + 2 * (m \div 32) /\ m \div 32 \in Nat
  BY <1>1 DEF Bit
<1>8. m \div 32 = Bit(m, 32) + 2 * (m \div 64) /\ m \div 64 \in Nat
  BY <1>1 DEF Bit
<1>9. m \div 64 = Bit(m, 64) + 2 * (m \div 128) /\ m \div 128 = Bit(m, 128)
  BY <1>1 DEF Bit
<1>10. /\ Bit(m, 1) \in Nat /\ Bit(m, 2) \in Nat /\ Bit(m, 4) \in Nat /\ Bit(m, 8) \in Nat
       /\ Bit(m, 16) \in Nat /\ Bit(m, 32) \in Nat /\ Bit(m, 64) \in Nat /\ Bit(m, 128) \in Nat
  BY <1>2
<1>11. m = Bit(m, 1) + 2 * Bit(m, 2) + 4 * Bit(m, 4) + 8 * Bit(m, 8)
           + 16 * Bit(m, 16) + 32 * Bit(m, 32) + 64 * Bit(m, 64) + 128 * Bit(m, 128)
  BY <1>1, <1>3, <1>4, <1>5, <1>6, <1>7, <1>8, <1>9, <1>10, Doubled
<1> QED
  BY <1>2, <1>11

LEMMA ByteOfBits ==
    ASSUME NEW a \in {0, 1}, NEW b \in {0, 1}, NEW c \in {0, 1}, NEW d \in {0, 1},
           NEW e \in {0, 1}, NEW f \in {0, 1}, NEW g \in {0, 1}, NEW h \in {0, 1},
           NEW m, m = a + 2 * b + 4 * c + 8 * d + 16 * e + 32 * f + 64 * g + 128 * h
    PROVE  /\ m \in Byte
           /\ Bit(m, 1) = a /\ Bit(m, 2) = b /\ Bit(m, 4) = c /\ Bit(m, 8) = d
           /\ Bit(m, 16) = e /\ Bit(m, 32) = f /\ Bit(m, 64) = g /\ Bit(m, 128) = h
<1>1. m \in Byte
  BY Bytes256
<1>2. m \div 1 = m /\ Bit(m, 1) = a
  BY DEF Bit
<1>3. m \div 2 = b + 2 * c + 4 * d + 8 * e + 16 * f + 32 * g + 64 * h /\ Bit(m, 2) = b
  BY DEF Bit
<1>4. m \div 4 = c + 2 * d + 4 * e + 8 * f + 16 * g + 32 * h /\ Bit(m, 4) = c
  BY DEF Bit
<1>5. m \div 8 = d + 2 * e + 4 * f + 8 * g + 16 * h /\ Bit(m, 8) = d
  BY DEF Bit
<1>6. m \div 16 = e + 2 * f + 4 * g + 8 * h /\ Bit(m, 16) = e
  BY DEF Bit
<1>7. m \div 32 = f + 2 * g + 4 * h /\ Bit(m, 32) = f
  BY DEF Bit
<1>8. m \div 64 = g + 2 * h /\ Bit(m, 64) = g
  BY DEF Bit
<1>9. m \div 128 = h /\ Bit(m, 128) = h
  BY DEF Bit
<1> QED
  BY <1>1, <1>2, <1>3, <1>4, <1>5, <1>6, <1>7, <1>8, <1>9

(* The bits of what Xor gives.                                             *)
LEMMA BitsOfXor ==
    ASSUME NEW m \in Byte, NEW n \in Byte
    PROVE  /\ Xor(m, n) \in Byte
           /\ \A w \in {1, 2, 4, 8, 16, 32, 64, 128} :
                 Bit(Xor(m, n), w) = (Bit(m, w) + Bit(n, w)) % 2
<1> DEFINE Sum(w) == (Bit(m, w) + Bit(n, w)) % 2
<1>1. \A w \in {1, 2, 4, 8, 16, 32, 64, 128} : Sum(w) \in {0, 1}
  BY BitsOfByte
<1>2. /\ Sum(1) \in {0, 1} /\ Sum(2) \in {0, 1} /\ Sum(4) \in {0, 1} /\ Sum(8) \in {0, 1}
      /\ Sum(16) \in {0, 1} /\ Sum(32) \in {0, 1} /\ Sum(64) \in {0, 1} /\ Sum(128) \in {0, 1}
  BY <1>1
<1>3. Xor(m, n) = 1 * Sum(1) + 2 * Sum(2) + 4 * Sum(4) + 8 * Sum(8)
                  + 16 * Sum(16) + 32 * Sum(32) + 64 * Sum(64) + 128 * Sum(128)
  BY DEF Xor, OneOf
<1> HIDE DEF Sum
<1>4. Xor(m, n) = Sum(1) + 2 * Sum(2) + 4 * Sum(4) + 8 * Sum(8)
                  + 16 * Sum(16) + 32 * Sum(32) + 64 * Sum(64) + 128 * Sum(128)
  BY <1>2, <1>3
<1>5. /\ Xor(m, n) \in Byte
      /\ Bit(Xor(m, n), 1) = Sum(1) /\ Bit(Xor(m, n), 2) = Sum(2)
      /\ Bit(Xor(m, n), 4) = Sum(4) /\ Bit(Xor(m, n), 8) = Sum(8)
      /\ Bit(Xor(m, n), 16) = Sum(16) /\ Bit(Xor(m, n), 32) = Sum(32)
      /\ Bit(Xor(m, n), 64) = Sum(64) /\ Bit(Xor(m, n), 128) = Sum(128)
  BY <1>2, <1>4, ByteOfBits
<1> QED
  BY <1>5 DEF Sum

(* The key twice is no key.                                                *)
LEMMA XorTwice ==
    ASSUME NEW m \in Byte, NEW n \in Byte
    PROVE  Xor(m, n) \in Byte /\ Xor(Xor(m, n), n) = m
<1>1. PICK x \in Byte : x = Xor(m, n)
  BY BitsOfXor
<1>2. PICK y \in Byte : y = Xor(x, n)
  BY BitsOfXor
<1>3. ASSUME NEW w \in {1, 2, 4, 8, 16, 32, 64, 128}
      PROVE  Bit(y, w) = Bit(m, w)
  <2>1. Bit(m, w) \in {0, 1} /\ Bit(n, w) \in {0, 1}
    BY BitsOfByte
  <2>2. Bit(x, w) = (Bit(m, w) + Bit(n, w)) % 2
    BY <1>1, BitsOfXor
  <2>3. Bit(y, w) = (Bit(x, w) + Bit(n, w)) % 2
    BY <1>2, BitsOfXor
  <2> QED
    BY <2>1, <2>2, <2>3
<1>4. /\ Bit(y, 1) = Bit(m, 1) /\ Bit(y, 2) = Bit(m, 2) /\ Bit(y, 4) = Bit(m, 4)
      /\ Bit(y, 8) = Bit(m, 8) /\ Bit(y, 16) = Bit(m, 16) /\ Bit(y, 32) = Bit(m, 32)
      /\ Bit(y, 64) = Bit(m, 64) /\ Bit(y, 128) = Bit(m, 128)
  BY <1>3
<1>5. y = m
  <2>1. y = Bit(y, 1) + 2 * Bit(y, 2) + 4 * Bit(y, 4) + 8 * Bit(y, 8)
                   + 16 * Bit(y, 16) + 32 * Bit(y, 32) + 64 * Bit(y, 64) + 128 * Bit(y, 128)
    BY BitsOfByte
  <2>2. m = Bit(m, 1) + 2 * Bit(m, 2) + 4 * Bit(m, 4) + 8 * Bit(m, 8)
                   + 16 * Bit(m, 16) + 32 * Bit(m, 32) + 64 * Bit(m, 64) + 128 * Bit(m, 128)
    BY BitsOfByte
  <2> QED
    BY <1>4, <2>1, <2>2
<1> QED
  BY <1>1, <1>2, <1>5

-----------------------------------------------------------------------------
(* Headers.                                                                *)

(* The three forms of a length.                                            *)
LEMMA FieldForms ==
    ASSUME NEW n \in Lengths
    PROVE  /\ n < 126 => LengthField(n) = <<n>>
           /\ 126 <= n /\ n < 65536 =>
                 \E a, b \in Byte : LengthField(n) = <<126, a, b>> /\ 256 * a + b = n
           /\ 65536 <= n =>
                 \E a, b, c, d \in Byte :
                    /\ LengthField(n) = <<127, 0, 0, 0, 0, a, b, c, d>>
                    /\ 256 * (256 * (256 * a + b) + c) + d = n
<1>1. n \in Nat
  BY DEF Lengths
<1>2. CASE n < 126
  BY <1>1, <1>2 DEF LengthField
<1>3. CASE 126 <= n /\ n < 65536
  <2>1. LengthField(n) = <<126, n \div 256, n % 256>>
    BY <1>1, <1>3 DEF LengthField, InTwoBytes
  <2> QED
    BY <1>1, <1>3, <2>1, LengthOfTwo
<1>4. CASE 65536 <= n
  <2>1. LengthField(n) = <<127, 0, 0, 0, 0, n \div 16777216, (n \div 65536) % 256,
                           (n \div 256) % 256, n % 256>>
    BY <1>1, <1>4 DEF LengthField, InEightBytes
  <2> QED
    BY <1>1, <1>4, <2>1, LengthOfEight
<1> QED
  BY <1>1, <1>2, <1>3, <1>4

(* The bytes of a length, and how many follow the first according to it.   *)
LEMMA FieldType ==
    ASSUME NEW n \in Lengths
    PROVE  LET field == LengthField(n)
           IN  /\ field \in Seq(Byte) /\ Len(field) \in Nat \ {0}
               /\ field[1] \in Nat /\ field[1] < 128
               /\ Len(field) = 1 + ExtraLength(field[1])
               /\ PayloadLength(field[1], Tail(field)) = n
<1>1. n \in Nat /\ n < 2147483648
  BY DEF Lengths
<1>2. CASE n < 126
  <2>1. LengthField(n) = <<n>>
    BY <1>2, FieldForms
  <2>2. n \in Byte /\ Code(n) = n /\ Tail(<<n>>) = <<>>
    BY <1>1, <1>2, Bytes256 DEF Code
  <2>3. ExtraLength(n) = 0
    BY <1>1, <1>2, <2>2 DEF ExtraLength
  <2>4. PayloadLength(n, Tail(<<n>>)) = n
    BY <2>2 DEF PayloadLength
  <2>5. <<n>> \in Seq(Byte) /\ Len(<<n>>) = 1
    BY <2>2
  <2> QED
    BY <1>1, <1>2, <2>1, <2>2, <2>3, <2>4, <2>5
<1>3. CASE 126 <= n /\ n < 65536
  <2>1. PICK a \in Byte, b \in Byte : LengthField(n) = <<126, a, b>> /\ 256 * a + b = n
    BY <1>3, FieldForms
  <2>3. 126 \in Byte /\ ExtraLength(126) = 2 /\ Tail(<<126, a, b>>) = <<a, b>>
    BY Bytes256 DEF ExtraLength, Code
  <2>4. PayloadLength(126, <<a, b>>) = n
    BY <2>1, NumberOfTwo DEF PayloadLength
  <2>5. <<126, a, b>> \in Seq(Byte) /\ Len(<<126, a, b>>) = 3
    BY <2>3
  <2> QED
    BY <2>1, <2>3, <2>4, <2>5
<1>4. CASE 65536 <= n
  <2>1. PICK a \in Byte, b \in Byte, c \in Byte, d \in Byte :
            /\ LengthField(n) = <<127, 0, 0, 0, 0, a, b, c, d>>
            /\ 256 * (256 * (256 * a + b) + c) + d = n
    BY <1>4, FieldForms
  <2>3. /\ 127 \in Byte /\ 0 \in Byte /\ ExtraLength(127) = 8
        /\ Tail(<<127, 0, 0, 0, 0, a, b, c, d>>) = <<0, 0, 0, 0, a, b, c, d>>
    BY Bytes256 DEF ExtraLength, Code
  <2>4. PayloadLength(127, <<0, 0, 0, 0, a, b, c, d>>) = n
    BY <2>1, NumberOfEight DEF PayloadLength
  <2>5. /\ <<127, 0, 0, 0, 0, a, b, c, d>> \in Seq(Byte)
        /\ Len(<<127, 0, 0, 0, 0, a, b, c, d>>) = 9
    BY <2>3
  <2> QED
    BY <2>1, <2>3, <2>4, <2>5
<1> QED
  BY <1>1, <1>2, <1>3, <1>4

(* The mask bit changes nothing about the length.                          *)
LEMMA MaskBit ==
    ASSUME NEW first \in Nat, first < 128, NEW masked \in BOOLEAN,
           NEW second, second = first + (IF masked THEN Mask ELSE 0)
    PROVE  /\ second \in Byte
           /\ Masked(second) <=> masked
           /\ ExtraLength(second) = ExtraLength(first)
           /\ \A extra : PayloadLength(second, extra) = PayloadLength(first, extra)
<1>1. second \in Byte /\ (Masked(second) <=> masked) /\ Code(second) = Code(first)
  BY Bytes256 DEF Masked, Mask, Code
<1> QED
  BY <1>1 DEF ExtraLength, PayloadLength

(* Bytes that begin as a header with this second byte and this field, as   *)
(* far as they go.                                                         *)
BeginsWith(bytes, second, field) ==
    /\ Len(bytes) >= 2 => bytes[2] = second
    /\ \A k \in 2 .. Len(field) : k + 1 <= Len(bytes) => bytes[k + 1] = field[k]

(* calculate_frame_size() waits for the length and then has the size.      *)
LEMMA SizeIsRead ==
    ASSUME NEW bytes \in Seq(Byte), NEW n \in Lengths, NEW masked \in BOOLEAN,
           NEW field, field = LengthField(n),
           NEW second, second = field[1] + (IF masked THEN Mask ELSE 0),
           BeginsWith(bytes, second, field)
    PROVE  /\ Len(bytes) <= Len(field) => FrameSize(bytes) = 0
           /\ Len(bytes) > Len(field) =>
                 /\ FrameSize(bytes) = Len(field) + 1 + (IF masked THEN 4 ELSE 0) + n
                 /\ PayloadLength(bytes[2], SubSeq(bytes, 3, 2 + ExtraLength(bytes[2]))) = n
<1>1. field \in Seq(Byte)
  BY FieldType
<1>2. /\ field[1] \in Nat /\ field[1] < 128
      /\ Len(field) = 1 + ExtraLength(field[1])
      /\ PayloadLength(field[1], Tail(field)) = n
  BY FieldType
<1>4. /\ Masked(second) <=> masked
      /\ ExtraLength(second) = ExtraLength(field[1])
      /\ PayloadLength(second, Tail(field)) = n
  BY <1>2, MaskBit
<1>5. PICK extra \in {0, 2, 8} : extra = ExtraLength(second) /\ Len(field) = 1 + extra
  BY <1>2, <1>4 DEF ExtraLength
<1>6. CASE Len(bytes) < 2
  <2>1. FrameSize(bytes) = 0
    BY <1>6 DEF FrameSize
  <2>2. ~(Len(bytes) > Len(field))
    BY <1>5, <1>6
  <2> QED
    BY <2>1, <2>2
<1>7. CASE Len(bytes) >= 2
  <2>1. bytes[2] = second
    BY <1>7 DEF BeginsWith
  <2>2. CASE Len(bytes) < 2 + extra
    BY <1>1, <1>5, <2>1, <2>2 DEF FrameSize
  <2>3. CASE Len(bytes) >= 2 + extra
    <3>1. \A k \in 2 .. 1 + extra : bytes[k + 1] = field[k]
      BY <1>5, <2>3 DEF BeginsWith
    <3>2. PICK tail \in Seq(Byte) :
             tail = Tail(field) /\ Len(tail) = extra /\ \A k \in 1 .. extra : tail[k] = field[k + 1]
      <4>1. Len(field) \in Nat /\ Len(field) - 1 = extra /\ field # <<>>
        BY <1>5
      <4>2. Tail(field) \in Seq(Byte)
        BY <1>1, <4>1
      <4>4. Len(Tail(field)) = extra
        BY <1>1, <4>1
      <4>3. \A k \in 1 .. extra : Tail(field)[k] = field[k + 1]
        BY <4>1
      <4> QED
        BY <4>2, <4>3, <4>4
    <3>4. PICK read \in Seq(Byte) :
             /\ read = SubSeq(bytes, 3, 2 + extra) /\ Len(read) = extra
             /\ \A k \in 1 .. extra : read[k] = bytes[k + 2]
      <4>1. PICK c \in Nat : c = 2 + extra /\ c <= Len(bytes) /\ c - 2 = extra
        BY <1>5, <2>3
      <4>2. SubSeq(bytes, 3, c) \in Seq(Byte)
        BY <4>1
      <4>3. Len(SubSeq(bytes, 3, c)) = extra
        BY <1>5, <4>1
      <4>4. \A k \in 1 .. extra : SubSeq(bytes, 3, c)[k] = bytes[k + 2]
        BY <1>5, <4>1
      <4> QED
        BY <4>1, <4>2, <4>3, <4>4
    <3>6. ASSUME NEW k \in 1 .. extra
          PROVE  read[k] = tail[k]
      <4>1. k + 1 \in 2 .. 1 + extra /\ k + 1 + 1 = k + 2
        OBVIOUS
      <4> QED
        BY <3>1, <3>2, <3>4, <4>1
    <3>7. read = tail
      BY <3>2, <3>4, <3>6, SeqEqual
    <3>8. PayloadLength(second, SubSeq(bytes, 3, 2 + extra)) = n
      BY <1>4, <3>2, <3>4, <3>7
    <3>9. n \in Nat
      BY DEF Lengths
    <3>10. FrameSize(bytes) = 2 + extra + (IF Masked(second) THEN 4 ELSE 0) + n
      BY <1>5, <1>7, <2>1, <2>3, <3>8 DEF FrameSize
    <3> QED
      BY <1>1, <1>4, <1>5, <2>1, <2>3, <3>8, <3>9, <3>10
  <2> QED
    BY <1>5, <2>2, <2>3
<1> QED
  BY <1>6, <1>7

(* parse_websocket_frame() finds where the payload begins, and its length. *)
LEMMA PlaceIsRead ==
    ASSUME NEW bytes \in Seq(Byte), NEW n \in Lengths, NEW masked \in BOOLEAN,
           NEW field, field = LengthField(n),
           NEW second, second = field[1] + (IF masked THEN Mask ELSE 0),
           BeginsWith(bytes, second, field), Len(bytes) > Len(field)
    PROVE  /\ bytes[2] = second
           /\ second >= 128 <=> masked
           /\ HeaderLength(second) = Len(field) + 1 + (IF masked THEN 4 ELSE 0)
           /\ StatedLength(bytes) = n
<1>1. n \in Nat /\ n < 2147483648
  BY DEF Lengths
<1>2. field \in Seq(Byte) /\ Len(field) \in Nat \ {0} /\ field[1] \in Nat /\ field[1] < 128
  BY FieldType
<1>3. bytes[2] = second
  BY <1>2 DEF BeginsWith
<1>4. second % 128 = field[1] /\ (second >= 128 <=> masked)
  BY <1>2 DEF Mask
<1>5. \A k \in 2 .. Len(field) : bytes[k + 1] = field[k]
  BY <1>2 DEF BeginsWith
<1>6. CASE n < 126
  <2>1. field = <<n>>
    BY <1>6, FieldForms
  <2>2. Len(field) = 1 /\ field[1] = n
    BY <2>1
  <2>3. second % 128 # 126 /\ second % 128 # 127
    BY <1>1, <1>4, <1>6, <2>2
  <2> QED
    BY <1>1, <1>3, <1>4, <2>2, <2>3 DEF HeaderLength, StatedLength
<1>7. CASE 126 <= n /\ n < 65536
  <2>1. PICK a \in Byte, b \in Byte : field = <<126, a, b>> /\ 256 * a + b = n
    BY <1>7, FieldForms
  <2>2. Len(field) = 3 /\ field[1] = 126 /\ field[2] = a /\ field[3] = b
    BY <2>1
  <2>3. bytes[3] = a /\ bytes[4] = b
    <3>1. 2 \in 2 .. Len(field) /\ 3 \in 2 .. Len(field) /\ 2 + 1 = 3 /\ 3 + 1 = 4
      BY <2>2
    <3> QED
      BY <1>5, <2>2, <3>1
  <2>4. HeaderLength(second) = 4 + (IF masked THEN 4 ELSE 0)
    BY <1>4, <2>2 DEF HeaderLength
  <2>5. StatedLength(bytes) = n
    BY <1>3, <1>4, <2>1, <2>2, <2>3 DEF StatedLength
  <2> QED
    BY <1>3, <1>4, <2>2, <2>4, <2>5
<1>8. CASE 65536 <= n
  <2>1. PICK a \in Byte, b \in Byte, c \in Byte, d \in Byte :
            /\ field = <<127, 0, 0, 0, 0, a, b, c, d>>
            /\ 256 * (256 * (256 * a + b) + c) + d = n
    BY <1>8, FieldForms
  <2>2. /\ Len(field) = 9 /\ field[1] = 127
        /\ field[2] = 0 /\ field[3] = 0 /\ field[4] = 0 /\ field[5] = 0
        /\ field[6] = a /\ field[7] = b /\ field[8] = c /\ field[9] = d
    BY <2>1
  <2>3. \A k \in 3 .. 10 : bytes[k] = field[k - 1]
    <3> TAKE k \in 3 .. 10
    <3>1. k - 1 \in 2 .. Len(field) /\ (k - 1) + 1 = k
      BY <2>2
    <3> QED
      BY <1>5, <3>1
  <2>4. PICK eight \in Seq(Byte) :
            eight = SubSeq(bytes, 3, 10) /\ Len(eight) = 8 /\ \A k \in 1 .. 8 : eight[k] = bytes[k + 2]
    <3>1. Len(bytes) \in Nat /\ Len(bytes) >= 10
      BY <2>2
    <3>2. SubSeq(bytes, 3, 10) \in Seq(Byte)
      BY <3>1
    <3>3. Len(SubSeq(bytes, 3, 10)) = 8
      BY <3>1
    <3>4. \A k \in 1 .. 8 : SubSeq(bytes, 3, 10)[k] = bytes[k + 2]
      BY <3>1
    <3> QED
      BY <3>2, <3>3, <3>4
  <2>5. PICK number \in Seq(Byte) :
            /\ number = <<0, 0, 0, 0, a, b, c, d>> /\ Len(number) = 8
            /\ number[1] = 0 /\ number[2] = 0 /\ number[3] = 0 /\ number[4] = 0
            /\ number[5] = a /\ number[6] = b /\ number[7] = c /\ number[8] = d
    <3>1. 0 \in Byte
      BY DEF Byte
    <3>2. <<0, 0, 0, 0, a, b, c, d>> \in Seq(Byte)
      BY <3>1
    <3> QED
      BY <3>2
  <2>6. \A k \in 1 .. 8 : eight[k] = number[k]
    <3>1. \A k \in 1 .. 8 : eight[k] = field[k + 1]
      <4> TAKE k \in 1 .. 8
      <4>1. k + 2 \in 3 .. 10 /\ (k + 2) - 1 = k + 1
        OBVIOUS
      <4> QED
        BY <2>3, <2>4, <4>1
    <3>2. /\ eight[1] = field[2] /\ eight[2] = field[3] /\ eight[3] = field[4]
          /\ eight[4] = field[5] /\ eight[5] = field[6] /\ eight[6] = field[7]
          /\ eight[7] = field[8] /\ eight[8] = field[9]
      BY <3>1
    <3> QED
      BY <2>2, <2>5, <3>2
  <2>7. eight = number
    BY <2>4, <2>5, <2>6, SeqEqual
  <2>8. Number(SubSeq(bytes, 3, 10)) = n
    <3>1. Number(<<0, 0, 0, 0, a, b, c, d>>) = n
      BY <2>1, NumberOfEight
    <3> QED
      BY <2>4, <2>5, <2>7, <3>1, Zenon
  <2>9. HeaderLength(second) = 10 + (IF masked THEN 4 ELSE 0)
    BY <1>4, <2>2 DEF HeaderLength
  <2>10. StatedLength(bytes) = n
    BY <1>3, <1>4, <2>2, <2>8 DEF StatedLength
  <2> QED
    BY <1>3, <1>4, <2>2, <2>9, <2>10
<1> QED
  BY <1>1, <1>6, <1>7, <1>8

(* A sequence of bytes behind another one, element by element.             *)
LEMMA Joined ==
    ASSUME NEW s \in Seq(Byte), NEW t \in Seq(Byte)
    PROVE  \E u \in Seq(Byte), m \in Nat, n \in Nat :
              /\ u = s \o t /\ m = Len(s) /\ n = Len(t)
              /\ Len(u) = m + n
              /\ \A k \in 1 .. m : u[k] = s[k]
              /\ \A k \in 1 .. n : u[m + k] = t[k]
<1>1. s \o t \in Seq(Byte)
  OBVIOUS
<1>2. Len(s) \in Nat /\ Len(t) \in Nat /\ Len(s \o t) = Len(s) + Len(t)
  OBVIOUS
<1>3. \A k \in 1 .. Len(s) : (s \o t)[k] = s[k]
  OBVIOUS
<1>4. \A k \in 1 .. Len(t) : (s \o t)[Len(s) + k] = t[k]
  OBVIOUS
<1> QED
  BY <1>1, <1>2, <1>3, <1>4

(* The first k of some bytes, and the others.                              *)
LEMMA Beginning ==
    ASSUME NEW s \in Seq(Byte), NEW k \in Nat, k <= Len(s)
    PROVE  \E u \in Seq(Byte) :
              /\ u = SubSeq(s, 1, k) /\ Len(u) = k
              /\ \A j \in 1 .. k : u[j] = s[j]
<1>1. SubSeq(s, 1, k) \in Seq(Byte)
  OBVIOUS
<1>2. Len(SubSeq(s, 1, k)) = k
  OBVIOUS
<1>3. \A j \in 1 .. k : SubSeq(s, 1, k)[j] = s[j]
  OBVIOUS
<1> QED
  BY <1>1, <1>2, <1>3

LEMMA Ending ==
    ASSUME NEW s \in Seq(Byte), NEW k \in Nat, k <= Len(s)
    PROVE  \E u \in Seq(Byte) :
              /\ u = SubSeq(s, k + 1, Len(s)) /\ Len(u) = Len(s) - k
              /\ \A j \in 1 .. Len(s) - k : u[j] = s[j + k]
<1>1. SubSeq(s, k + 1, Len(s)) \in Seq(Byte)
  OBVIOUS
<1>2. Len(SubSeq(s, k + 1, Len(s))) = Len(s) - k
  OBVIOUS
<1>3. \A j \in 1 .. Len(s) - k : SubSeq(s, k + 1, Len(s))[j] = s[j + k]
  OBVIOUS
<1> QED
  BY <1>1, <1>2, <1>3

SecondByte(n, masked) == LengthField(n)[1] + (IF masked THEN Mask ELSE 0)

(* A header is its first byte, the field of the length, with the mask bit, *)
(* and the masking key.                                                    *)
LEMMA HeaderForm ==
    ASSUME NEW first \in Byte, NEW n \in Lengths, NEW masked \in BOOLEAN
    PROVE  /\ Header(first, n, masked) \in Seq(Byte)
           /\ Len(Header(first, n, masked)) = Len(LengthField(n)) + 1 + (IF masked THEN 4 ELSE 0)
           /\ Header(first, n, masked)[1] = first
           /\ BeginsWith(Header(first, n, masked), SecondByte(n, masked), LengthField(n))
           /\ masked => \A j \in 1 .. 4 :
                 Header(first, n, masked)[Len(LengthField(n)) + 1 + j] = MaskingKey[j]
<1>1. PICK field : field = LengthField(n)
  OBVIOUS
<1>2. PICK second : second = field[1] + (IF masked THEN Mask ELSE 0)
  OBVIOUS
<1>3. PICK K : K = IF masked THEN 4 ELSE 0
  OBVIOUS
<1>4. field \in Seq(Byte) /\ Len(field) \in Nat \ {0} /\ field[1] \in Nat /\ field[1] < 128
  BY <1>1, FieldType
<1>5. second \in Byte
  BY <1>4, <1>2, MaskBit
<1>6. PICK key \in Seq(Byte) : key = (IF masked THEN MaskingKey ELSE <<>>) /\ Len(key) = K
  <2>1. 18 \in Byte /\ 52 \in Byte /\ 86 \in Byte /\ 120 \in Byte
    BY DEF Byte
  <2>2. MaskingKey \in Seq(Byte)
    BY <2>1 DEF MaskingKey
  <2>3. Len(MaskingKey) = 4
    BY DEF MaskingKey
  <2>4. <<>> \in Seq(Byte) /\ Len(<<>>) = 0
    OBVIOUS
  <2>5. CASE masked
    <3>1. (IF masked THEN MaskingKey ELSE <<>>) = MaskingKey /\ K = 4
      BY <1>3, <2>5
    <3> QED
      BY <2>2, <2>3, <3>1
  <2>6. CASE ~masked
    <3>1. (IF masked THEN MaskingKey ELSE <<>>) = <<>> /\ K = 0
      BY <1>3, <2>6
    <3> QED
      BY <2>4, <3>1, Zenon
  <2> QED
    BY <2>5, <2>6
<1>7. PICK L \in Nat : L = Len(field) - 1 /\ Len(field) = L + 1
  <2>1. Len(field) - 1 \in Nat /\ Len(field) = (Len(field) - 1) + 1
    BY <1>4
  <2> QED
    BY <2>1, Zenon
<1>8. PICK tail \in Seq(Byte) :
          tail = Tail(field) /\ Len(tail) = L /\ \A k \in 1 .. L : tail[k] = field[k + 1]
  <2>1. field # <<>>
    BY <1>4
  <2>2. Tail(field) \in Seq(Byte)
    BY <1>4, <2>1
  <2>3. Len(Tail(field)) = L
    BY <1>4, <1>7, <2>1
  <2>4. \A k \in 1 .. L : Tail(field)[k] = field[k + 1]
    BY <1>4, <1>7, <2>1
  <2> QED
    BY <2>2, <2>3, <2>4
<1>9. PICK two \in Seq(Byte) :
          two = <<first, second>> /\ Len(two) = 2 /\ two[1] = first /\ two[2] = second
  <2>1. <<first, second>> \in Seq(Byte)
    BY <1>5
  <2>2. /\ Len(<<first, second>>) = 2
        /\ <<first, second>>[1] = first /\ <<first, second>>[2] = second
    OBVIOUS
  <2> QED
    BY <2>1, <2>2
<1>10. PICK front \in Seq(Byte) :
          /\ front = two \o tail /\ Len(front) = 2 + L
          /\ \A k \in 1 .. 2 : front[k] = two[k]
          /\ \A k \in 1 .. L : front[2 + k] = tail[k]
  <2>1. PICK u \in Seq(Byte), m \in Nat, l \in Nat :
          /\ u = two \o tail /\ m = Len(two) /\ l = Len(tail)
          /\ Len(u) = m + l
          /\ \A k \in 1 .. m : u[k] = two[k]
          /\ \A k \in 1 .. l : u[m + k] = tail[k]
    BY Joined
  <2>2. m = 2 /\ l = L
    BY <1>8, <1>9, <2>1
  <2>3. /\ Len(u) = 2 + L
        /\ \A k \in 1 .. 2 : u[k] = two[k]
        /\ \A k \in 1 .. L : u[2 + k] = tail[k]
    BY <2>1, <2>2
  <2> QED
    BY <2>1, <2>3
<1>11. K \in Nat
  BY <1>3
<1>12. PICK header \in Seq(Byte) :
          /\ header = front \o key /\ Len(header) = 2 + L + K
          /\ \A k \in 1 .. 2 + L : header[k] = front[k]
          /\ \A k \in 1 .. K : header[2 + L + k] = key[k]
  <2>1. PICK u \in Seq(Byte), m \in Nat, l \in Nat :
          /\ u = front \o key /\ m = Len(front) /\ l = Len(key)
          /\ Len(u) = m + l
          /\ \A k \in 1 .. m : u[k] = front[k]
          /\ \A k \in 1 .. l : u[m + k] = key[k]
    BY Joined
  <2>2. m = 2 + L /\ l = K
    BY <1>6, <1>10, <2>1
  <2> QED
    BY <2>1, <2>2
<1>13. header = Header(first, n, masked)
  BY <1>1, <1>2, <1>6, <1>8, <1>9, <1>10, <1>12 DEF Header
<1>14. header[1] = first /\ header[2] = second
  <2>1. 1 \in 1 .. 2 /\ 2 \in 1 .. 2 /\ 1 \in 1 .. 2 + L /\ 2 \in 1 .. 2 + L
    OBVIOUS
  <2> QED
    BY <1>9, <1>10, <1>12, <2>1
<1>15. ASSUME NEW k \in 2 .. Len(field)
       PROVE  header[k + 1] = field[k]
  <2>1. PICK j \in 1 .. L : j = k - 1 /\ k = j + 1 /\ k + 1 = 2 + j /\ 2 + j \in 1 .. 2 + L
    BY <1>7
  <2>2. header[2 + j] = tail[j]
    BY <1>10, <1>12, <2>1
  <2> QED
    BY <1>8, <2>1, <2>2
<1>16. BeginsWith(header, second, field)
  BY <1>14, <1>15 DEF BeginsWith
<1>17. Len(header) = Len(field) + 1 + K
  BY <1>7, <1>11, <1>12
<1>18. ASSUME masked, NEW j \in 1 .. 4
       PROVE  header[Len(field) + 1 + j] = MaskingKey[j]
  <2>1. key = MaskingKey /\ j \in 1 .. K
    BY <1>3, <1>6, <1>18
  <2>2. Len(field) + 1 + j = 2 + L + j
    BY <1>7
  <2> QED
    BY <1>12, <2>1, <2>2
<1> QED
  BY <1>1, <1>2, <1>3, <1>13, <1>14, <1>16, <1>17, <1>18 DEF SecondByte

(* Whatever the length of a payload: calculate_frame_size() waits for the  *)
(* length and then has the size that create_websocket_frame() made.        *)
LEMMA EverySizeIsReadBack ==
    ASSUME request \in Lengths
    PROVE  SizesAreReadBack
<1>1. PICK n \in Lengths : n = request
  OBVIOUS
<1>2. PICK first \in Byte : first = Fin + OpText
  <2>1. Fin + OpText \in Byte
    BY DEF Byte, Fin, OpText
  <2> QED
    BY <2>1
<1>3. PICK field \in Seq(Byte), L \in Nat : field = LengthField(n) /\ L = Len(field)
  <2>1. LengthField(n) \in Seq(Byte)
    BY FieldType
  <2> QED
    BY <2>1
<1>4. PICK masked \in BOOLEAN : masked = TRUE
  OBVIOUS
<1>5. PICK second : second = field[1] + (IF masked THEN Mask ELSE 0)
  OBVIOUS
<1>6. PICK K : K = IF masked THEN 4 ELSE 0
  OBVIOUS
<1>7. K = 4
  BY <1>4, <1>6
<1>8. PICK header \in Seq(Byte) :
          /\ header = Header(first, n, masked)
          /\ Len(header) = L + 1 + K
          /\ BeginsWith(header, second, field)
  <2>1. second = SecondByte(n, masked)
    BY <1>3, <1>5 DEF SecondByte
  <2> QED
    BY <1>3, <1>6, <2>1, HeaderForm
<1>9. n \in Nat
  BY DEF Lengths
<1>10. ASSUME NEW k \in 0 .. Len(header)
      PROVE  /\ k <= L => FrameSize(SubSeq(header, 1, k)) = 0
             /\ k > L => FrameSize(SubSeq(header, 1, k)) = L + 1 + K + n
  <2>1. k \in Nat /\ k <= Len(header)
    OBVIOUS
  <2>2. PICK s \in Seq(Byte) : s = SubSeq(header, 1, k) /\ Len(s) = k
                               /\ \A j \in 1 .. k : s[j] = header[j]
    BY <2>1, Beginning
  <2>3. BeginsWith(s, second, field)
    <3>1. ASSUME Len(s) >= 2
          PROVE  s[2] = second
      <4>1. 2 \in 1 .. k /\ Len(header) >= 2
        BY <2>1, <2>2, <3>1
      <4>2. header[2] = second
        BY <1>8, <4>1 DEF BeginsWith
      <4> QED
        BY <2>2, <4>1, <4>2
    <3>2. ASSUME NEW j \in 2 .. L, j + 1 <= Len(s)
          PROVE  s[j + 1] = field[j]
      <4>1. j + 1 \in 1 .. k /\ j + 1 <= Len(header)
        BY <2>1, <2>2, <3>2
      <4>2. header[j + 1] = field[j]
        BY <1>3, <1>8, <4>1 DEF BeginsWith
      <4> QED
        BY <2>2, <4>1, <4>2
    <3> QED
      BY <1>3, <3>1, <3>2 DEF BeginsWith
  <2>4. /\ Len(s) <= L => FrameSize(s) = 0
        /\ Len(s) > L => FrameSize(s) = L + 1 + K + n
    BY <1>3, <1>4, <1>5, <1>7, <2>3, SizeIsRead
  <2> QED
    BY <1>9, <2>2, <2>4
<1>11. PICK size \in Nat : size = Len(header) + n /\ size = L + 1 + K + n
  <2>1. Len(header) + n \in Nat /\ Len(header) + n = L + 1 + K + n
    BY <1>3, <1>7, <1>8, <1>9
  <2> QED
    BY <2>1
<1>12. \A k \in 0 .. Len(header) : FrameSize(SubSeq(header, 1, k)) \in {0, size}
  BY <1>10, <1>11
<1>13. FrameSize(SubSeq(header, 1, Len(header))) = size
  <2>1. Len(header) \in 0 .. Len(header) /\ Len(header) > L
    BY <1>3, <1>7, <1>8
  <2> QED
    BY <1>10, <1>11, <2>1
<1>14. HeaderLength(header[2]) = Len(header) /\ StatedLength(header) = n
  <2>1. Len(header) > Len(field)
    BY <1>3, <1>7, <1>8
  <2> QED
    BY <1>3, <1>5, <1>6, <1>8, <2>1, PlaceIsRead
<1> QED
  BY <1>1, <1>2, <1>4, <1>8, <1>11, <1>12, <1>13, <1>14 DEF SizesAreReadBack

-----------------------------------------------------------------------------
(* Frames of the exchange.                                                 *)

(* What is told from a first byte: the opcode of a text, and RSV1.         *)
LEMMA FirstBytes ==
    \A kind \in Kinds :
        /\ FirstByte(kind) \in Byte
        /\ kind \in {"json", "masked", "other", "fragment"} =>
              FirstByte(kind) % 16 = OpText /\ (FirstByte(kind) \div 64) % 2 = 0
        /\ kind \in {"compressed", "dependent"} =>
              FirstByte(kind) % 16 = OpText /\ (FirstByte(kind) \div 64) % 2 = 1
        /\ kind \in {"continuation", "binary", "close", "ping", "pong"} =>
              FirstByte(kind) % 16 # OpText
<1>1. /\ FirstByte("json") = 129 /\ FirstByte("masked") = 129 /\ FirstByte("other") = 129
      /\ FirstByte("compressed") = 193 /\ FirstByte("dependent") = 193
      /\ FirstByte("fragment") = 1 /\ FirstByte("continuation") = 128
      /\ FirstByte("binary") = 130 /\ FirstByte("close") = 136
      /\ FirstByte("ping") = 137 /\ FirstByte("pong") = 138
  BY DEF FirstByte, Fin, OpText
<1> QED
  BY <1>1, Bytes256 DEF Kinds, OpText

(* A payload is as many bytes as it is long; so it is with the key.        *)
LEMMA PayloadForm ==
    ASSUME NEW kind \in Kinds, NEW n \in Nat
    PROVE  \E payload \in Seq(Byte) : payload = Payload(kind, n) /\ Len(payload) = n
<1>1. 0 \in Byte /\ JsonStart \in Byte /\ Independent \in Byte
  BY Bytes256 DEF JsonStart, Independent
<1>2. \A k \in 1 .. n : Payload(kind, n)[k] \in Byte
  <2> TAKE k \in 1 .. n
  <2>1. k % 256 \in Byte
    BY Bytes256
  <2> QED
    BY <1>1, <2>1 DEF Payload
<1>3. Payload(kind, n) \in [1 .. n -> Byte]
  BY <1>2 DEF Payload
<1>4. Payload(kind, n) \in Seq(Byte) /\ Len(Payload(kind, n)) = n
  BY <1>3
<1> QED
  BY <1>4

(* The key that is written, byte by byte.                                  *)
LEMMA KeyForm ==
    /\ MaskingKey \in Seq(Byte) /\ Len(MaskingKey) = 4
    /\ \A k \in Nat \ {0} : 1 + ((k - 1) % 4) \in 1 .. 4
<1>1. 18 \in Byte /\ 52 \in Byte /\ 86 \in Byte /\ 120 \in Byte
  BY Bytes256
<1>2. MaskingKey \in Seq(Byte)
  BY <1>1 DEF MaskingKey
<1>3. Len(MaskingKey) = 4
  BY DEF MaskingKey
<1>4. \A k \in Nat \ {0} : 1 + ((k - 1) % 4) \in 1 .. 4
  OBVIOUS
<1> QED
  BY <1>2, <1>3, <1>4, Zenon

LEMMA WithKeyForm ==
    ASSUME NEW payload \in Seq(Byte), NEW key \in Seq(Byte), Len(key) = 4
    PROVE  /\ WithKey(payload, key) \in Seq(Byte)
           /\ Len(WithKey(payload, key)) = Len(payload)
           /\ \A k \in 1 .. Len(payload) :
                 /\ key[1 + ((k - 1) % 4)] \in Byte
                 /\ WithKey(payload, key)[k] = Xor(payload[k], key[1 + ((k - 1) % 4)])
<1>1. \A k \in 1 .. Len(payload) : key[1 + ((k - 1) % 4)] \in Byte
  <2> TAKE k \in 1 .. Len(payload)
  <2>1. k \in Nat \ {0}
    OBVIOUS
  <2>2. 1 + ((k - 1) % 4) \in 1 .. 4
    BY <2>1, KeyForm
  <2>3. PICK j \in 1 .. 4 : j = 1 + ((k - 1) % 4)
    BY <2>2
  <2>4. j \in 1 .. Len(key)
    OBVIOUS
  <2>5. key[j] \in Byte
    BY <2>4, ElementOfSeq
  <2> QED
    BY <2>3, <2>5
<1>2. WithKey(payload, key) \in [1 .. Len(payload) -> Byte]
  <2>1. \A k \in 1 .. Len(payload) : Xor(payload[k], key[1 + ((k - 1) % 4)]) \in Byte
    BY <1>1, XorTwice
  <2> QED
    BY <2>1 DEF WithKey
<1>3. WithKey(payload, key) \in Seq(Byte) /\ Len(WithKey(payload, key)) = Len(payload)
  BY <1>2
<1> QED
  BY <1>1, <1>3 DEF WithKey

(* What masks a payload unmasks it.                                        *)
LEMMA KeyTwice ==
    ASSUME NEW payload \in Seq(Byte), NEW key \in Seq(Byte), Len(key) = 4
    PROVE  WithKey(WithKey(payload, key), key) = payload
<1>1. PICK coded \in Seq(Byte) :
          /\ coded = WithKey(payload, key) /\ Len(coded) = Len(payload)
          /\ \A k \in 1 .. Len(payload) : coded[k] = Xor(payload[k], key[1 + ((k - 1) % 4)])
  BY WithKeyForm
<1>2. PICK plain \in Seq(Byte) :
          /\ plain = WithKey(coded, key) /\ Len(plain) = Len(coded)
          /\ \A k \in 1 .. Len(coded) : plain[k] = Xor(coded[k], key[1 + ((k - 1) % 4)])
  BY WithKeyForm
<1>3. ASSUME NEW k \in 1 .. Len(payload)
      PROVE  plain[k] = payload[k]
  <2>1. PICK byte \in Byte : byte = payload[k]
    OBVIOUS
  <2>2. PICK part \in Byte : part = key[1 + ((k - 1) % 4)]
    BY WithKeyForm, Zenon
  <2>3. coded[k] = Xor(byte, part) /\ plain[k] = Xor(coded[k], part)
    BY <1>1, <1>2, <2>1, <2>2
  <2> QED
    BY <2>1, <2>3, XorTwice
<1>4. plain = payload
  BY <1>1, <1>2, <1>3, SeqEqual
<1> QED
  BY <1>1, <1>2, <1>4

(* What a frame of the exchange carries behind its header.                 *)
Coded(kind, n) ==
    IF kind = "masked" THEN WithKey(Payload(kind, n), MaskingKey) ELSE Payload(kind, n)

(* A frame of the exchange: its first byte, the field of its length, the   *)
(* key if it has one, and its payload.                                     *)
Layout(f, kind, n, field, second, masked, K, L, bytes) ==
    /\ f = [kind |-> kind, length |-> n] /\ f.kind = kind /\ f.length = n
    /\ n \in Nat /\ field = LengthField(n) /\ L = Len(field) /\ L > 0
    /\ masked <=> kind = "masked"
    /\ K = IF masked THEN 4 ELSE 0
    /\ second = field[1] + (IF masked THEN Mask ELSE 0)
    /\ bytes = Bytes[f] /\ Len(bytes) = L + 1 + K + n
    /\ bytes[1] = FirstByte(kind)
    /\ BeginsWith(bytes, second, field)
    /\ masked => \A j \in 1 .. 4 : bytes[L + 1 + j] = MaskingKey[j]
    /\ \A k \in 1 .. n : bytes[L + 1 + K + k] = Coded(kind, n)[k]

LEMMA FrameForm ==
    ASSUME NEW f \in Frames
    PROVE  \E kind \in Kinds, n \in Lengths, field \in Seq(Byte), bytes \in Seq(Byte), L \in Nat,
              masked \in BOOLEAN, K \in Nat, second \in Byte :
              Layout(f, kind, n, field, second, masked, K, L, bytes)
<1>1. PICK kind \in Kinds, n \in Lengths : f = [kind |-> kind, length |-> n]
  BY FramesAssumption DEF FramesAssumption
<1>2. f.kind = kind /\ f.length = n /\ n \in Nat
  BY <1>1 DEF Lengths
<1>3. PICK first \in Byte : first = FirstByte(kind)
  BY FirstBytes
<1>4. PICK field \in Seq(Byte), L \in Nat :
          field = LengthField(n) /\ L = Len(field) /\ L > 0 /\ field[1] \in Nat /\ field[1] < 128
  <2>1. LengthField(n) \in Seq(Byte) /\ LengthField(n)[1] \in Nat /\ LengthField(n)[1] < 128
    BY FieldType
  <2>2. Len(LengthField(n)) > 0 /\ Len(LengthField(n)) \in Nat
    BY FieldType
  <2> QED
    BY <2>1, <2>2
<1>5. PICK masked \in BOOLEAN : masked = (kind = "masked")
  OBVIOUS
<1>6. PICK second \in Byte : second = field[1] + (IF masked THEN Mask ELSE 0)
  BY <1>4, MaskBit
<1>7. PICK K \in Nat : K = IF masked THEN 4 ELSE 0
  OBVIOUS
<1>8. PICK header \in Seq(Byte) :
          /\ header = Header(first, n, masked)
          /\ Len(header) = L + 1 + K
          /\ header[1] = first
          /\ BeginsWith(header, second, field)
          /\ masked => \A j \in 1 .. 4 : header[L + 1 + j] = MaskingKey[j]
  <2>1. second = SecondByte(n, masked)
    BY <1>4, <1>6 DEF SecondByte
  <2> QED
    BY <1>4, <1>7, <2>1, HeaderForm
<1>9. PICK coded \in Seq(Byte) : coded = Coded(kind, n) /\ Len(coded) = n
  <2>1. PICK payload \in Seq(Byte) : payload = Payload(kind, n) /\ Len(payload) = n
    BY <1>2, PayloadForm
  <2>2. WithKey(payload, MaskingKey) \in Seq(Byte) /\ Len(WithKey(payload, MaskingKey)) = n
    BY <2>1, KeyForm, WithKeyForm
  <2> QED
    BY <2>1, <2>2 DEF Coded
<1>10. PICK bytes \in Seq(Byte), m \in Nat, l \in Nat :
          /\ bytes = header \o coded /\ m = Len(header) /\ l = Len(coded)
          /\ Len(bytes) = m + l
          /\ \A k \in 1 .. m : bytes[k] = header[k]
          /\ \A k \in 1 .. l : bytes[m + k] = coded[k]
  BY Joined
<1>11. m = L + 1 + K /\ l = n
  BY <1>8, <1>9, <1>10
<1>12. bytes = Bytes[f]
  <2>1. Bytes[f] = Header(first, n, masked) \o Coded(kind, n)
    BY <1>2, <1>3, <1>5 DEF Bytes, FrameBytes, Coded
  <2> QED
    BY <1>8, <1>9, <1>10, <2>1
<1>13. Len(bytes) = L + 1 + K + n
  BY <1>10, <1>11
<1>14. bytes[1] = first /\ bytes[2] = second
  <2>1. 1 \in 1 .. m /\ 2 \in 1 .. m /\ Len(header) >= 2
    BY <1>4, <1>10, <1>11
  <2>2. header[2] = second
    BY <1>8, <2>1 DEF BeginsWith
  <2> QED
    BY <1>8, <1>10, <2>1, <2>2
<1>15. ASSUME NEW k \in 2 .. L
       PROVE  bytes[k + 1] = field[k]
  <2>1. k + 1 \in 1 .. m /\ k + 1 <= Len(header)
    BY <1>10, <1>11
  <2>2. header[k + 1] = field[k]
    BY <1>4, <1>8, <2>1 DEF BeginsWith
  <2> QED
    BY <1>10, <2>1, <2>2
<1>16. BeginsWith(bytes, second, field)
  BY <1>4, <1>14, <1>15 DEF BeginsWith
<1>17. ASSUME masked, NEW j \in 1 .. 4
       PROVE  bytes[L + 1 + j] = MaskingKey[j]
  <2>1. L + 1 + j \in 1 .. m
    BY <1>7, <1>11, <1>17
  <2> QED
    BY <1>8, <1>10, <1>17, <2>1
<1>18. \A k \in 1 .. n : bytes[L + 1 + K + k] = Coded(kind, n)[k]
  BY <1>9, <1>10, <1>11
<1>19. Layout(f, kind, n, field, second, masked, K, L, bytes)
  BY <1>1, <1>2, <1>3, <1>4, <1>5, <1>6, <1>7, <1>12, <1>13, <1>14, <1>16, <1>17, <1>18 DEF Layout
<1> QED
  BY <1>19

(* The bytes in the buffer and behind it are a frame and the rest, and the *)
(* buffer is found to hold a complete frame.                               *)
FrameAhead(f, buffer, behind, rest) ==
    /\ f \in Frames
    /\ buffer \in Seq(Byte) /\ behind \in Seq(Byte) /\ rest \in Seq(Byte)
    /\ buffer \o behind = Bytes[f] \o rest
    /\ FrameSize(buffer) # 0
    /\ FrameSize(buffer) <= Len(buffer)

(* Then it is this frame.                                                  *)
LEMMA CompleteFrame ==
    ASSUME NEW f, NEW buffer, NEW behind, NEW rest, FrameAhead(f, buffer, behind, rest)
    PROVE  /\ SubSeq(buffer, 1, FrameSize(buffer)) = Bytes[f]
           /\ SubSeq(buffer, FrameSize(buffer) + 1, Len(buffer)) \in Seq(Byte)
           /\ SubSeq(buffer, FrameSize(buffer) + 1, Len(buffer)) \o behind = rest
<1>1. /\ f \in Frames
      /\ buffer \in Seq(Byte) /\ behind \in Seq(Byte) /\ rest \in Seq(Byte)
      /\ buffer \o behind = Bytes[f] \o rest
      /\ FrameSize(buffer) # 0
      /\ FrameSize(buffer) <= Len(buffer)
  BY DEF FrameAhead
<1>2. PICK size : size = FrameSize(buffer)
  OBVIOUS
<1>3. PICK kind \in Kinds, n \in Lengths, field \in Seq(Byte), bytes \in Seq(Byte), L \in Nat,
           masked \in BOOLEAN, K \in Nat, second \in Byte :
          /\ Layout(f, kind, n, field, second, masked, K, L, bytes)
          /\ n \in Nat /\ field = LengthField(n) /\ L = Len(field) /\ L > 0
          /\ K = (IF masked THEN 4 ELSE 0) /\ second = field[1] + (IF masked THEN Mask ELSE 0)
          /\ bytes = Bytes[f] /\ Len(bytes) = L + 1 + K + n
          /\ BeginsWith(bytes, second, field)
  <2>1. PICK kind \in Kinds, n \in Lengths, field \in Seq(Byte), bytes \in Seq(Byte), L \in Nat,
             masked \in BOOLEAN, K \in Nat, second \in Byte :
                Layout(f, kind, n, field, second, masked, K, L, bytes)
    BY <1>1, FrameForm
  <2>2. /\ n \in Nat /\ field = LengthField(n) /\ L = Len(field) /\ L > 0
        /\ K = (IF masked THEN 4 ELSE 0) /\ second = field[1] + (IF masked THEN Mask ELSE 0)
        /\ bytes = Bytes[f] /\ Len(bytes) = L + 1 + K + n
        /\ BeginsWith(bytes, second, field)
    BY <2>1 DEF Layout
  <2> HIDE DEF Layout
  <2> QED
    BY <2>1, <2>2, Zenon
<1>4. PICK all \in Seq(Byte), B \in Nat, H \in Nat :
          /\ all = buffer \o behind /\ B = Len(buffer) /\ H = Len(behind)
          /\ Len(all) = B + H
          /\ \A k \in 1 .. B : all[k] = buffer[k]
          /\ \A k \in 1 .. H : all[B + k] = behind[k]
  BY <1>1, Joined
<1>5. PICK T \in Nat, R \in Nat :
          /\ T = Len(bytes) /\ R = Len(rest)
          /\ Len(all) = T + R
          /\ \A k \in 1 .. T : all[k] = bytes[k]
          /\ \A k \in 1 .. R : all[T + k] = rest[k]
  <2>1. PICK u \in Seq(Byte), T \in Nat, R \in Nat :
          /\ u = bytes \o rest /\ T = Len(bytes) /\ R = Len(rest)
          /\ Len(u) = T + R
          /\ \A k \in 1 .. T : u[k] = bytes[k]
          /\ \A k \in 1 .. R : u[T + k] = rest[k]
    BY <1>1, Joined
  <2>2. u = all
    BY <1>1, <1>3, <1>4, <2>1
  <2>3. /\ T = Len(bytes) /\ R = Len(rest)
        /\ Len(all) = T + R
        /\ \A k \in 1 .. T : all[k] = bytes[k]
        /\ \A k \in 1 .. R : all[T + k] = rest[k]
    BY <2>1, <2>2
  <2> QED
    BY <2>3
<1>6. ASSUME NEW k \in 1 .. B, k <= T
      PROVE  buffer[k] = bytes[k]
  <2>1. k \in 1 .. T
    BY <1>6
  <2> QED
    BY <1>4, <1>5, <2>1
<1>7. BeginsWith(buffer, second, field)
  <2>1. T = L + 1 + K + n
    BY <1>3, <1>5
  <2>2. ASSUME B >= 2
        PROVE  buffer[2] = second
    <3>1. 2 \in 1 .. B /\ 2 <= T
      BY <1>3, <2>1, <2>2
    <3>2. bytes[2] = second
      BY <1>3, <1>5, <3>1 DEF BeginsWith
    <3> QED
      BY <1>6, <3>1, <3>2
  <2>3. ASSUME NEW k \in 2 .. L, k + 1 <= B
        PROVE  buffer[k + 1] = field[k]
    <3>1. k + 1 \in 1 .. B /\ k + 1 <= T
      BY <1>3, <2>1, <2>3
    <3>2. bytes[k + 1] = field[k]
      BY <1>3, <1>5, <3>1 DEF BeginsWith
    <3> QED
      BY <1>6, <3>1, <3>2
  <2> QED
    BY <1>3, <1>4, <2>2, <2>3 DEF BeginsWith
<1>8. size = T /\ T <= B
  <2>1. /\ B <= L => size = 0
        /\ B > L => size = L + 1 + K + n
    <3>1. /\ Len(buffer) <= Len(field) => FrameSize(buffer) = 0
          /\ Len(buffer) > Len(field) =>
                FrameSize(buffer) = Len(field) + 1 + (IF masked THEN 4 ELSE 0) + n
      BY <1>1, <1>3, <1>7, SizeIsRead
    <3> QED
      BY <1>2, <1>3, <1>4, <3>1
  <2>2. size # 0 /\ size <= B
    BY <1>1, <1>2, <1>4
  <2> QED
    BY <1>3, <1>4, <1>5, <2>1, <2>2
<1>9. SubSeq(buffer, 1, size) = bytes
  <2>1. PICK head \in Seq(Byte) : head = SubSeq(buffer, 1, T) /\ Len(head) = T
                                  /\ \A j \in 1 .. T : head[j] = buffer[j]
    BY <1>1, <1>4, <1>8, Beginning
  <2>2. \A j \in 1 .. T : head[j] = bytes[j]
    BY <1>6, <1>8, <2>1
  <2>3. head = bytes
    BY <1>5, <2>1, <2>2, SeqEqual
  <2> QED
    BY <1>8, <2>1, <2>3
<1>10. PICK tail \in Seq(Byte) : /\ tail = SubSeq(buffer, T + 1, Len(buffer)) /\ Len(tail) = B - T
                                /\ \A j \in 1 .. B - T : tail[j] = buffer[j + T]
  BY <1>1, <1>4, <1>8, Ending
<1>11. PICK left \in Seq(Byte), D \in Nat :
          /\ left = tail \o behind /\ D = Len(tail)
          /\ Len(left) = D + H
          /\ \A k \in 1 .. D : left[k] = tail[k]
          /\ \A k \in 1 .. H : left[D + k] = behind[k]
  <2>1. PICK u \in Seq(Byte), l \in Nat, h \in Nat :
          /\ u = tail \o behind /\ l = Len(tail) /\ h = Len(behind)
          /\ Len(u) = l + h
          /\ \A k \in 1 .. l : u[k] = tail[k]
          /\ \A k \in 1 .. h : u[l + k] = behind[k]
    BY <1>1, Joined
  <2>2. h = H
    BY <1>4, <2>1
  <2>3. /\ u = tail \o behind /\ l = Len(tail)
        /\ Len(u) = l + H
        /\ \A k \in 1 .. l : u[k] = tail[k]
        /\ \A k \in 1 .. H : u[l + k] = behind[k]
    BY <2>1, <2>2
  <2> QED
    BY <2>3
<1>12. D = B - T /\ R = D + H
  BY <1>4, <1>5, <1>8, <1>10, <1>11
<1>13. ASSUME NEW j \in 1 .. R
       PROVE  left[j] = rest[j]
  <2>1. all[T + j] = rest[j]
    BY <1>5
  <2>2. CASE j <= D
    <3>1. j \in 1 .. D /\ j + T \in 1 .. B /\ j + T = T + j /\ j \in 1 .. B - T
      BY <1>8, <1>12, <2>2
    <3>2. all[T + j] = buffer[T + j]
      BY <1>4, <3>1
    <3>3. left[j] = buffer[T + j]
      BY <1>10, <1>11, <3>1
    <3> QED
      BY <2>1, <3>2, <3>3
  <2>3. CASE ~(j <= D)
    <3>1. PICK i \in 1 .. H : i = j - D /\ D + i = j /\ B + i = T + j
      <4>1. j - D \in 1 .. H /\ D + (j - D) = j /\ B + (j - D) = T + j
        BY <1>8, <1>12, <2>3
      <4> QED
        BY <4>1
    <3>2. all[T + j] = behind[i]
      BY <1>4, <3>1
    <3>3. left[j] = behind[i]
      BY <1>11, <3>1
    <3> QED
      BY <2>1, <3>2, <3>3
  <2> QED
    BY <2>2, <2>3
<1>14. left = rest
  <2>1. Len(left) = R /\ Len(rest) = R
    BY <1>5, <1>11, <1>12
  <2> QED
    BY <1>1, <1>13, <2>1, SeqEqual
<1> QED
  BY <1>2, <1>3, <1>4, <1>8, <1>9, <1>10, <1>11, <1>14

(* parse_websocket_frame() gives the payload that the exchange framed.     *)
LEMMA PayloadIsParsed ==
    ASSUME NEW f \in Frames
    PROVE  /\ IsWhole(Bytes[f])
           /\ PayloadOf(Bytes[f]) = Payload(f.kind, f.length)
           /\ Bytes[f][1] = FirstByte(f.kind)
<1>1. PICK kind \in Kinds, n \in Lengths, field \in Seq(Byte), bytes \in Seq(Byte), L \in Nat,
           masked \in BOOLEAN, K \in Nat, second \in Byte :
              Layout(f, kind, n, field, second, masked, K, L, bytes)
  BY FrameForm
<1>2. /\ f.kind = kind /\ f.length = n /\ n \in Nat
      /\ field = LengthField(n) /\ L = Len(field) /\ L > 0
      /\ K = (IF masked THEN 4 ELSE 0)
      /\ second = field[1] + (IF masked THEN Mask ELSE 0)
      /\ bytes = Bytes[f] /\ Len(bytes) = L + 1 + K + n
      /\ bytes[1] = FirstByte(kind)
      /\ BeginsWith(bytes, second, field)
  BY <1>1 DEF Layout
<1>3. /\ masked <=> kind = "masked"
      /\ masked => \A j \in 1 .. 4 : bytes[L + 1 + j] = MaskingKey[j]
      /\ \A k \in 1 .. n : bytes[L + 1 + K + k] = Coded(kind, n)[k]
  BY <1>1 DEF Layout
<1>4. PICK header \in Nat : header = L + 1 + K
  BY <1>2
<1>5. /\ bytes[2] = second
      /\ second >= 128 <=> masked
      /\ HeaderLength(second) = header
      /\ StatedLength(bytes) = n
  <2>1. Len(bytes) > Len(field)
    BY <1>2
  <2>2. /\ bytes[2] = second
        /\ second >= 128 <=> masked
        /\ HeaderLength(second) = Len(field) + 1 + (IF masked THEN 4 ELSE 0)
        /\ StatedLength(bytes) = n
    BY <1>2, <2>1, PlaceIsRead
  <2> QED
    BY <1>2, <1>4, <2>2
<1>6. IsWhole(bytes)
  BY <1>2, <1>4, <1>5 DEF IsWhole
<1>7. PICK coded \in Seq(Byte) : coded = Coded(kind, n) /\ Len(coded) = n
  <2>1. PICK payload \in Seq(Byte) : payload = Payload(kind, n) /\ Len(payload) = n
    BY <1>2, PayloadForm
  <2>2. WithKey(payload, MaskingKey) \in Seq(Byte) /\ Len(WithKey(payload, MaskingKey)) = n
    BY <2>1, KeyForm, WithKeyForm
  <2> QED
    BY <2>1, <2>2 DEF Coded
<1>8. SubSeq(bytes, header + 1, header + n) = coded
  <2>1. Len(bytes) = header + n
    BY <1>2, <1>4
  <2>2. PICK behind \in Seq(Byte) :
            /\ behind = SubSeq(bytes, header + 1, Len(bytes)) /\ Len(behind) = Len(bytes) - header
            /\ \A j \in 1 .. Len(bytes) - header : behind[j] = bytes[j + header]
    <3>1. header <= Len(bytes)
      BY <1>2, <2>1
    <3> QED
      BY <3>1, Ending
  <2>3. Len(behind) = n /\ \A j \in 1 .. n : behind[j] = bytes[j + header]
    <3>1. Len(bytes) - header = n
      BY <1>2, <2>1
    <3> QED
      BY <2>2, <3>1
  <2>4. ASSUME NEW j \in 1 .. n
        PROVE  behind[j] = coded[j]
    <3>1. j + header = L + 1 + K + j
      BY <1>4
    <3> QED
      BY <1>3, <1>7, <2>3, <3>1
  <2>5. behind = coded
    BY <1>7, <2>3, <2>4, SeqEqual
  <2> QED
    BY <2>1, <2>2, <2>5
<1>9. PayloadOf(bytes) = Payload(kind, n)
  <2>1. CASE ~masked
    <3>1. PayloadOf(bytes) = coded
      BY <1>5, <1>8, <2>1 DEF PayloadOf
    <3> QED
      BY <1>3, <1>7, <2>1, <3>1 DEF Coded
  <2>2. CASE masked
    <3>1. PICK key \in Seq(Byte) :
              /\ key = SubSeq(bytes, header - 3, header) /\ Len(key) = 4
              /\ \A j \in 1 .. 4 : key[j] = bytes[L + 1 + j]
      <4>1. header - 3 = L + 2 /\ header = L + 5 /\ header <= Len(bytes) /\ Len(bytes) \in Nat
        BY <1>2, <1>4, <2>2
      <4>2. SubSeq(bytes, L + 2, L + 5) \in Seq(Byte)
        BY <4>1
      <4>3. Len(SubSeq(bytes, L + 2, L + 5)) = 4
        BY <4>1
      <4>4. \A j \in 1 .. 4 : SubSeq(bytes, L + 2, L + 5)[j] = bytes[L + 1 + j]
        BY <4>1
      <4> QED
        BY <4>1, <4>2, <4>3, <4>4
    <3>2. key = MaskingKey
      <4>1. \A j \in 1 .. 4 : key[j] = MaskingKey[j]
        BY <1>3, <2>2, <3>1
      <4> QED
        BY <3>1, <4>1, KeyForm, SeqEqual
    <3>3. PayloadOf(bytes) = WithKey(coded, MaskingKey)
      BY <1>5, <1>8, <2>2, <3>1, <3>2 DEF PayloadOf
    <3>4. coded = WithKey(Payload(kind, n), MaskingKey)
      BY <1>3, <1>7, <2>2 DEF Coded
    <3>5. PICK payload \in Seq(Byte) : payload = Payload(kind, n)
      BY <1>2, PayloadForm
    <3> QED
      BY <3>3, <3>4, <3>5, KeyForm, KeyTwice
  <2> QED
    BY <2>1, <2>2
<1> QED
  BY <1>2, <1>6, <1>9

(* '{' first is JSON, a zero first is none, and neither are no bytes.      *)
LEMMA JsonTexts ==
    ASSUME NEW text \in Seq(Byte)
    PROVE  /\ text # <<>> /\ text[1] = JsonStart => IsJson(text)
           /\ text # <<>> /\ text[1] = 0 => ~IsJson(text)
           /\ text = <<>> => ~IsJson(text)
<1>1. ASSUME text # <<>>, text[1] = JsonStart
      PROVE  IsJson(text)
  <2>1. 1 \in 1 .. Len(text) /\ 1 .. 1 - 1 = {}
    BY <1>1
  <2> QED
    BY <1>1, <2>1 DEF IsJson
<1>2. ASSUME text # <<>>, text[1] = 0, IsJson(text)
      PROVE  FALSE
  <2>1. PICK i \in 1 .. Len(text) : /\ text[i] \in {JsonStart, 91}
                                    /\ \A j \in 1 .. i - 1 : text[j] \in Space
    BY <1>2 DEF IsJson
  <2>2. i # 1
    BY <1>2, <2>1 DEF JsonStart
  <2>3. 1 \in 1 .. i - 1
    BY <2>2
  <2> QED
    BY <1>2, <2>1, <2>3 DEF Space
<1>3. ASSUME text = <<>>
      PROVE  ~IsJson(text)
  <2>1. 1 .. Len(text) = {}
    BY <1>3
  <2> QED
    BY <2>1 DEF IsJson
<1> QED
  BY <1>1, <1>2, <1>3

(* The feed is called with the text that a frame means to bring, and with  *)
(* nothing if it brings none.                                              *)
LEMMA TextIsParsed ==
    ASSUME NEW f \in Frames
    PROVE  /\ Text(f) \in Seq(Byte)
           /\ IsJson(ParseFrame(Bytes[f])) <=> Text(f) # <<>>
           /\ Text(f) # <<>> => ParseFrame(Bytes[f]) = Text(f)
<1>1. PICK kind \in Kinds, n \in Nat : f.kind = kind /\ f.length = n
  BY FramesAssumption DEF FramesAssumption, Lengths
<1>2. PICK payload \in Seq(Byte) : payload = Payload(kind, n) /\ Len(payload) = n
  BY <1>1, PayloadForm
<1>3. IsWhole(Bytes[f]) /\ PayloadOf(Bytes[f]) = payload /\ Bytes[f][1] = FirstByte(kind)
  BY <1>1, <1>2, PayloadIsParsed
<1>4. n = 0 <=> payload = <<>>
  BY <1>2
<1>5. n > 0 => payload[1] = IF kind \in {"json", "masked", "fragment"} THEN JsonStart
                            ELSE IF kind = "compressed" THEN Independent ELSE 0
  <2>1. SUFFICES ASSUME n > 0
                 PROVE  payload[1] = IF kind \in {"json", "masked", "fragment"} THEN JsonStart
                                     ELSE IF kind = "compressed" THEN Independent ELSE 0
    OBVIOUS
  <2>2. 1 \in 1 .. n
    BY <2>1
  <2> QED
    BY <1>2, <2>2 DEF Payload
<1>6. PICK longer \in Seq(Byte) : longer = <<JsonStart>> \o payload /\ longer # <<>>
                                  /\ longer[1] = JsonStart
  <2>1. JsonStart \in Byte
    BY Bytes256 DEF JsonStart
  <2>2. PICK one \in Seq(Byte) : one = <<JsonStart>> /\ Len(one) = 1 /\ one[1] = JsonStart
    <3>1. <<JsonStart>> \in Seq(Byte)
      BY <2>1
    <3>2. Len(<<JsonStart>>) = 1 /\ <<JsonStart>>[1] = JsonStart
      OBVIOUS
    <3> QED
      BY <3>1, <3>2
  <2>3. PICK u \in Seq(Byte), p \in Nat, q \in Nat :
            /\ u = one \o payload /\ p = Len(one) /\ q = Len(payload)
            /\ Len(u) = p + q
            /\ \A k \in 1 .. p : u[k] = one[k]
            /\ \A k \in 1 .. q : u[p + k] = payload[k]
    BY Joined
  <2>4. 1 \in 1 .. p /\ Len(u) > 0
    BY <2>2, <2>3
  <2>5. u # <<>> /\ u[1] = JsonStart
    BY <2>2, <2>3, <2>4
  <2> QED
    BY <2>2, <2>3, <2>5
<1>7. <<>> \in Seq(Byte)
  OBVIOUS
<1>8. CASE kind \in {"json", "masked", "other", "fragment"}
  <2>1. ParseFrame(Bytes[f]) = payload
    BY <1>3, <1>8, FirstBytes DEF ParseFrame
  <2>2. CASE n = 0
    <3>1. Text(f) = <<>>
      BY <1>1, <2>2 DEF Text
    <3> QED
      BY <1>4, <1>7, <2>1, <2>2, <3>1, JsonTexts
  <2>3. CASE n > 0 /\ kind = "other"
    <3>1. Text(f) = <<>>
      BY <1>1, <2>3 DEF Text
    <3>2. payload[1] = 0 /\ payload # <<>>
      BY <1>4, <1>5, <2>3
    <3> QED
      BY <1>7, <2>1, <3>1, <3>2, JsonTexts
  <2>4. CASE n > 0 /\ kind # "other"
    <3>1. Text(f) = payload
      BY <1>1, <1>2, <1>8, <2>4 DEF Text
    <3>2. payload[1] = JsonStart /\ payload # <<>>
      BY <1>4, <1>5, <1>8, <2>4
    <3> QED
      BY <2>1, <3>1, <3>2, JsonTexts
  <2> QED
    BY <2>2, <2>3, <2>4
<1>9. CASE kind \in {"compressed", "dependent"}
  <2>1. ParseFrame(Bytes[f]) = Inflated(payload)
    BY <1>3, <1>9, FirstBytes DEF ParseFrame
  <2>2. CASE n > 0 /\ kind = "compressed"
    <3>1. Text(f) = longer
      BY <1>1, <1>2, <1>6, <2>2 DEF Text
    <3>2. Inflated(payload) = longer
      BY <1>4, <1>5, <1>6, <2>2 DEF Inflated
    <3> QED
      BY <1>6, <2>1, <3>1, <3>2, JsonTexts
  <2>3. CASE ~(n > 0 /\ kind = "compressed")
    <3>1. Text(f) = <<>>
      BY <1>1, <1>9, <2>3 DEF Text
    <3>2. Inflated(payload) = <<>>
      BY <1>4, <1>5, <1>9, <2>3 DEF Inflated, Independent
    <3> QED
      BY <1>7, <2>1, <3>1, <3>2, JsonTexts
  <2> QED
    BY <2>2, <2>3
<1>10. CASE kind \in {"continuation", "binary", "close", "ping", "pong"}
  <2>1. ParseFrame(Bytes[f]) = <<>>
    BY <1>3, <1>10, FirstBytes DEF ParseFrame
  <2>2. Text(f) = <<>>
    BY <1>1, <1>10 DEF Text
  <2> QED
    BY <1>7, <2>1, <2>2, JsonTexts
<1> QED
  BY <1>8, <1>9, <1>10 DEF Kinds

-----------------------------------------------------------------------------
(* The receiver.                                                           *)

(* A frame is a sequence of bytes.                                         *)
LEMMA BytesOfFrame == \A f \in Frames : Bytes[f] \in Seq(Byte)
BY FrameForm DEF Layout

(* rest[n]: the bytes still to be cut that follow the n-th frame sent.     *)
FramesAhead(rest) ==
    /\ rest \in [messages_received_ .. Len(sent) -> Seq(Byte)]
    /\ rest[Len(sent)] = <<>>
    /\ \A n \in messages_received_ .. Len(sent) - 1 :
          rest[n] = Bytes[sent[n + 1]] \o rest[n + 1]
    /\ rest[messages_received_] = incoming_buffer_ \o wire

InStep == \E rest : FramesAhead(rest)

FrameInv == TypeOK /\ InStep

(* Nothing sent, nothing ahead.                                            *)
LEMMA InitFrames == Init => FrameInv
<1> SUFFICES ASSUME Init PROVE FrameInv
  OBVIOUS
<1>1. TypeOK
  BY FramesAssumption DEF Init, TypeOK, FramesAssumption
<1>2. PICK rest : rest = [n \in 0 .. 0 |-> <<>>]
  OBVIOUS
<1>3. FramesAhead(rest)
  <2>1. Len(sent) = 0 /\ messages_received_ = 0
    BY DEF Init
  <2>2. incoming_buffer_ \o wire = <<>>
    BY DEF Init
  <2>3. rest[0] = <<>> /\ rest \in [0 .. 0 -> Seq(Byte)]
    BY <1>2
  <2>4. 0 .. 0 - 1 = {}
    OBVIOUS
  <2> QED
    BY <2>1, <2>2, <2>3, <2>4 DEF FramesAhead
<1> QED
  BY <1>1, <1>3 DEF FrameInv, InStep

(* What is sent is appended to all that is ahead.                          *)
LEMMA SendKeepsStep ==
    ASSUME FrameInv, ExchangeSends
    PROVE  FrameInv'
<1>1. PICK f \in Frames : sent' = Append(sent, f) /\ wire' = wire \o Bytes[f]
  BY DEF ExchangeSends
<1>2. UNCHANGED <<incoming_buffer_, messages_received_, receiver, received, request>>
  BY DEF ExchangeSends
<1>3. PICK rest : FramesAhead(rest)
  BY DEF FrameInv, InStep
<1>4. PICK more \in Seq(Byte) : more = Bytes[f]
  BY BytesOfFrame
<1>5. PICK N \in Nat, c \in Nat : N = Len(sent) /\ c = messages_received_ /\ c <= N
  BY DEF FrameInv, TypeOK
<1>6. sent' \in Seq(Frames) /\ Len(sent') = N + 1 /\ sent'[N + 1] = f
  BY <1>1, <1>5 DEF FrameInv, TypeOK
<1>7. \A n \in 1 .. N : sent'[n] = sent[n]
  BY <1>1, <1>5 DEF FrameInv, TypeOK
<1>8. TypeOK'
  <2>1. wire' \in Seq(Byte)
    BY <1>1, <1>4 DEF FrameInv, TypeOK
  <2>2. messages_received_' \in 0 .. Len(sent')
    BY <1>2, <1>5, <1>6
  <2> QED
    BY <1>2, <1>6, <2>1, <2>2 DEF FrameInv, TypeOK
<1>9. /\ rest \in [c .. N -> Seq(Byte)] /\ rest[N] = <<>>
      /\ \A n \in c .. N - 1 : rest[n] = Bytes[sent[n + 1]] \o rest[n + 1]
      /\ rest[c] = incoming_buffer_ \o wire
  BY <1>3, <1>5 DEF FramesAhead
<1>10. PICK new : new = [n \in c .. N + 1 |-> IF n = N + 1 THEN <<>> ELSE rest[n] \o more]
  OBVIOUS
<1>11. new \in [c .. N + 1 -> Seq(Byte)]
  <2>1. \A n \in c .. N + 1 : (IF n = N + 1 THEN <<>> ELSE rest[n] \o more) \in Seq(Byte)
    <3> TAKE n \in c .. N + 1
    <3>1. CASE n = N + 1
      BY <3>1
    <3>2. CASE n # N + 1
      <4>1. n \in c .. N
        BY <3>2
      <4>2. PICK r \in Seq(Byte) : r = rest[n]
        BY <1>9, <4>1
      <4> QED
        BY <3>2, <4>2
    <3> QED
      BY <3>1, <3>2
  <2> QED
    BY <1>10, <2>1
<1>12. new[N + 1] = <<>>
  <2>1. N + 1 \in c .. N + 1
    BY <1>5
  <2> QED
    BY <1>10, <2>1
<1>13. ASSUME NEW n \in c .. N
       PROVE  new[n] = Bytes[sent'[n + 1]] \o new[n + 1]
  <2>1. n \in c .. N + 1 /\ n # N + 1
    OBVIOUS
  <2>2. PICK r \in Seq(Byte) : r = rest[n]
    BY <1>9
  <2>3. new[n] = r \o more
    BY <1>10, <2>1, <2>2
  <2>4. CASE n = N
    <3>1. new[n + 1] = <<>> /\ sent'[n + 1] = f
      BY <1>6, <1>12, <2>4
    <3>2. new[n] = <<>> \o more
      BY <1>9, <2>2, <2>3, <2>4
    <3>3. <<>> \o more = more \o <<>>
      BY ConcatEmptySeq
    <3> QED
      BY <1>4, <3>1, <3>2, <3>3
  <2>5. CASE n # N
    <3>1. /\ n \in c .. N - 1 /\ n + 1 \in 1 .. N
          /\ n + 1 \in c .. N /\ n + 1 \in c .. N + 1 /\ n + 1 # N + 1
      BY <2>5
    <3>2. PICK s \in Seq(Byte) : s = rest[n + 1]
      BY <1>9, <3>1
    <3>3. PICK b \in Seq(Byte) : b = Bytes[sent[n + 1]]
      BY <1>5, <3>1, BytesOfFrame DEF FrameInv, TypeOK
    <3>4. r = b \o s
      BY <1>9, <2>2, <3>1, <3>2, <3>3
    <3>5. new[n + 1] = s \o more
      BY <1>10, <3>1, <3>2
    <3>6. (b \o s) \o more = b \o (s \o more)
      BY ConcatAssociative
    <3>7. sent'[n + 1] = sent[n + 1]
      BY <1>7, <3>1
    <3> QED
      BY <2>3, <3>3, <3>4, <3>5, <3>6, <3>7
  <2> QED
    BY <2>4, <2>5
<1>14. new[c] = incoming_buffer_' \o wire'
  <2>1. c \in c .. N + 1 /\ c # N + 1
    BY <1>5
  <2>2. new[c] = rest[c] \o more
    BY <1>10, <2>1
  <2>3. PICK b \in Seq(Byte), w \in Seq(Byte) : b = incoming_buffer_ /\ w = wire
    BY DEF FrameInv, TypeOK
  <2>4. (b \o w) \o more = b \o (w \o more)
    BY ConcatAssociative
  <2> QED
    BY <1>1, <1>2, <1>4, <1>9, <2>2, <2>3, <2>4
<1>15. FramesAhead(new)'
  <2>1. Len(sent') - 1 = N
    BY <1>5, <1>6
  <2> QED
    BY <1>2, <1>5, <1>6, <1>11, <1>12, <1>13, <1>14, <2>1 DEF FramesAhead
<1> QED
  BY <1>8, <1>15 DEF FrameInv, InStep

(* What follows the same bytes is the same.                                *)
LEMMA SameRest ==
    ASSUME NEW s \in Seq(Byte), NEW t \in Seq(Byte), NEW u \in Seq(Byte), s \o t = s \o u
    PROVE  t = u
BY ConcatSimplifications

(* No bytes are no frame.                                                  *)
LEMMA EmptyBuffer == FrameSize(<<>>) = 0
BY DEF FrameSize

(* The frame that is cut off is the next one sent, and it was given as it  *)
(* was sent.                                                               *)
LEMMA CutTakesNext ==
    ASSUME FrameInv, Cut
    PROVE  LET f == sent[messages_received_ + 1]
           IN  /\ messages_received_ + 1 <= Len(sent)
               /\ f \in Frames
               /\ received' = IF Text(f) # <<>> THEN Append(received, Text(f)) ELSE received
               /\ incoming_buffer_' \in Seq(Byte)
               /\ \A rest : FramesAhead(rest) =>
                      incoming_buffer_' \o wire = rest[messages_received_ + 1]
<1>1. PICK rest : FramesAhead(rest)
  BY DEF FrameInv, InStep
<1>2. PICK N \in Nat, c \in Nat : N = Len(sent) /\ c = messages_received_ /\ c <= N
  BY DEF FrameInv, TypeOK
<1>3. /\ rest \in [c .. N -> Seq(Byte)] /\ rest[N] = <<>>
      /\ \A n \in c .. N - 1 : rest[n] = Bytes[sent[n + 1]] \o rest[n + 1]
      /\ rest[c] = incoming_buffer_ \o wire
  BY <1>1, <1>2 DEF FramesAhead
<1>4. PICK buffer \in Seq(Byte), behind \in Seq(Byte) : buffer = incoming_buffer_ /\ behind = wire
  BY DEF FrameInv, TypeOK
<1>5. PICK size : size = FrameSize(buffer)
  OBVIOUS
<1>6. size # 0 /\ size <= Len(buffer)
  BY <1>4, <1>5 DEF Cut, Complete
<1>7. c < N
  <2>1. CASE c = N
    <3>1. buffer \o behind = <<>>
      BY <1>3, <1>4, <2>1
    <3>2. buffer = <<>>
      BY <3>1, ConcatEqualIffEmpty
    <3> QED
      BY <1>5, <1>6, <3>2, EmptyBuffer
  <2> QED
    BY <1>2, <2>1
<1>8. PICK f \in Frames : f = sent[c + 1]
  <2>1. c + 1 \in 1 .. N
    BY <1>7
  <2> QED
    BY <1>2, <2>1 DEF FrameInv, TypeOK
<1>9. PICK left \in Seq(Byte) : left = rest[c + 1]
  <2>1. c + 1 \in c .. N
    BY <1>7
  <2> QED
    BY <1>3, <2>1
<1>10. buffer \o behind = Bytes[f] \o left
  <2>1. c \in c .. N - 1
    BY <1>7
  <2>2. rest[c] = Bytes[sent[c + 1]] \o rest[c + 1]
    BY <1>3, <2>1
  <2> QED
    BY <1>3, <1>4, <1>8, <1>9, <2>2
<1>11. /\ SubSeq(buffer, 1, size) = Bytes[f]
       /\ SubSeq(buffer, size + 1, Len(buffer)) \in Seq(Byte)
       /\ SubSeq(buffer, size + 1, Len(buffer)) \o behind = left
  <2>1. FrameAhead(f, buffer, behind, left)
    BY <1>5, <1>6, <1>10 DEF FrameAhead
  <2> QED
    BY <1>5, <2>1, CompleteFrame
<1>12. incoming_buffer_' = SubSeq(buffer, size + 1, Len(buffer))
  BY <1>4, <1>5 DEF Cut
<1>13. received' = IF IsJson(ParseFrame(Bytes[f])) THEN Append(received, ParseFrame(Bytes[f]))
                                                  ELSE received
  BY <1>4, <1>5, <1>11 DEF Cut, Give
<1>14. received' = IF Text(f) # <<>> THEN Append(received, Text(f)) ELSE received
  BY <1>13, TextIsParsed
<1>15. ASSUME NEW other, FramesAhead(other)
       PROVE  incoming_buffer_' \o wire = other[c + 1]
  <2>1. /\ other \in [c .. N -> Seq(Byte)]
        /\ \A n \in c .. N - 1 : other[n] = Bytes[sent[n + 1]] \o other[n + 1]
        /\ other[c] = incoming_buffer_ \o wire
    BY <1>2, <1>15 DEF FramesAhead
  <2>2. c \in c .. N - 1 /\ c + 1 \in c .. N
    BY <1>7
  <2>3. PICK o \in Seq(Byte) : o = other[c + 1]
    BY <2>1, <2>2
  <2>4. PICK b \in Seq(Byte) : b = Bytes[f]
    BY BytesOfFrame
  <2>5. b \o o = b \o left
    <3>1. other[c] = Bytes[sent[c + 1]] \o other[c + 1]
      BY <2>1, <2>2
    <3> QED
      BY <1>4, <1>8, <1>10, <2>1, <2>3, <2>4, <3>1
  <2>6. o = left
    BY <2>5, SameRest
  <2>7. incoming_buffer_' \o wire = left
    BY <1>4, <1>11, <1>12
  <2> QED
    BY <2>3, <2>6, <2>7
<1> QED
  BY <1>2, <1>7, <1>8, <1>11, <1>12, <1>14, <1>15

(* The frame cut off was the first one ahead.                              *)
LEMMA CutKeepsStep ==
    ASSUME FrameInv, Cut
    PROVE  FrameInv'
<1>1. PICK rest : FramesAhead(rest)
  BY DEF FrameInv, InStep
<1>2. PICK N \in Nat, c \in Nat : N = Len(sent) /\ c = messages_received_ /\ c <= N
  BY DEF FrameInv, TypeOK
<1>3. /\ rest \in [c .. N -> Seq(Byte)] /\ rest[N] = <<>>
      /\ \A n \in c .. N - 1 : rest[n] = Bytes[sent[n + 1]] \o rest[n + 1]
  BY <1>1, <1>2 DEF FramesAhead
<1>4. UNCHANGED <<sent, wire, receiver, request>> /\ messages_received_' = c + 1
  BY <1>2 DEF Cut
<1>5. /\ c + 1 <= N /\ sent[c + 1] \in Frames
      /\ received' = IF Text(sent[c + 1]) # <<>> THEN Append(received, Text(sent[c + 1]))
                                                 ELSE received
      /\ incoming_buffer_' \in Seq(Byte)
      /\ incoming_buffer_' \o wire = rest[c + 1]
  BY <1>1, <1>2, CutTakesNext
<1>6. TypeOK'
  <2>1. received' \in Seq(Seq(Byte))
    <3>1. PICK text \in Seq(Byte) : text = Text(sent[c + 1])
      BY <1>5, TextIsParsed
    <3>2. PICK old \in Seq(Seq(Byte)) : old = received
      BY DEF FrameInv, TypeOK
    <3>3. Append(old, text) \in Seq(Seq(Byte))
      OBVIOUS
    <3> QED
      BY <1>5, <3>1, <3>2, <3>3
  <2>2. messages_received_' \in 0 .. Len(sent')
    BY <1>2, <1>4, <1>5
  <2> QED
    BY <1>4, <1>5, <2>1, <2>2 DEF FrameInv, TypeOK
<1>7. PICK new : new = [n \in c + 1 .. N |-> rest[n]]
  OBVIOUS
<1>8. new \in [c + 1 .. N -> Seq(Byte)]
  BY <1>3, <1>7
<1>9. new[N] = <<>> /\ new[c + 1] = rest[c + 1]
  BY <1>3, <1>5, <1>7
<1>10. ASSUME NEW n \in c + 1 .. N - 1
       PROVE  new[n] = Bytes[sent[n + 1]] \o new[n + 1]
  <2>1. n \in c + 1 .. N /\ n + 1 \in c + 1 .. N /\ n \in c .. N - 1
    OBVIOUS
  <2> QED
    BY <1>3, <1>7, <2>1
<1>11. FramesAhead(new)'
  BY <1>2, <1>4, <1>5, <1>8, <1>9, <1>10 DEF FramesAhead
<1> QED
  BY <1>6, <1>11 DEF FrameInv, InStep

(* A read moves bytes and leaves them in order, however many it takes.     *)
LEMMA ReceiveKeepsStep ==
    ASSUME FrameInv, Receive
    PROVE  FrameInv'
<1>1. PICK n \in 1 .. Chunk :
         /\ n <= Len(wire)
         /\ incoming_buffer_' = incoming_buffer_ \o SubSeq(wire, 1, n)
         /\ wire' = SubSeq(wire, n + 1, Len(wire))
  BY DEF Receive
<1>2. receiver' = "frame" /\ UNCHANGED <<sent, messages_received_, received, request>>
  BY DEF Receive
<1>3. PICK buffer \in Seq(Byte), w \in Seq(Byte) : buffer = incoming_buffer_ /\ w = wire
  BY DEF FrameInv, TypeOK
<1>4. PICK k \in Nat : k = n /\ k <= Len(w)
  BY <1>1, <1>3, FramesAssumption DEF FramesAssumption
<1>5. PICK head \in Seq(Byte) :
         head = SubSeq(w, 1, k) /\ Len(head) = k /\ \A j \in 1 .. k : head[j] = w[j]
  BY <1>4, Beginning
<1>6. PICK tail \in Seq(Byte) :
         /\ tail = SubSeq(w, k + 1, Len(w)) /\ Len(tail) = Len(w) - k
         /\ \A j \in 1 .. Len(w) - k : tail[j] = w[j + k]
  BY <1>4, Ending
<1>7. head \o tail = w
  <2>1. PICK u \in Seq(Byte), m \in Nat, l \in Nat :
          /\ u = head \o tail /\ m = Len(head) /\ l = Len(tail)
          /\ Len(u) = m + l
          /\ \A j \in 1 .. m : u[j] = head[j]
          /\ \A j \in 1 .. l : u[m + j] = tail[j]
    BY Joined
  <2>2. m = k /\ l = Len(w) - k /\ Len(u) = Len(w)
    <3>1. m = k
      BY <1>5, <2>1
    <3>2. l = Len(w) - k
      BY <1>6, <2>1
    <3>3. Len(u) = m + l /\ Len(w) \in Nat
      BY <2>1
    <3> QED
      BY <3>1, <3>2, <3>3
  <2>3. ASSUME NEW j \in 1 .. Len(w)
        PROVE  u[j] = w[j]
    <3>1. CASE j <= k
      BY <1>5, <2>1, <2>2, <3>1
    <3>2. CASE ~(j <= k)
      <4>1. PICK i \in 1 .. l : i = j - k /\ m + i = j /\ i + k = j
        <5>1. j - k \in 1 .. l /\ m + (j - k) = j /\ (j - k) + k = j
          BY <2>2, <3>2
        <5> QED
          BY <5>1
      <4>2. u[j] = tail[i]
        BY <2>1, <4>1
      <4>3. tail[i] = w[j]
        BY <1>6, <2>2, <4>1
      <4> QED
        BY <4>2, <4>3
    <3> QED
      BY <3>1, <3>2
  <2> QED
    BY <2>1, <2>2, <2>3, SeqEqual
<1>8. incoming_buffer_' = buffer \o head /\ wire' = tail
  BY <1>1, <1>3, <1>4, <1>5, <1>6
<1>9. (buffer \o head) \o tail = buffer \o w
  <2>1. (buffer \o head) \o tail = buffer \o (head \o tail)
    BY ConcatAssociative
  <2> QED
    BY <1>7, <2>1
<1>10. incoming_buffer_' \o wire' = incoming_buffer_ \o wire
  BY <1>3, <1>8, <1>9
<1>11. TypeOK'
  <2>1. incoming_buffer_' \in Seq(Byte) /\ wire' \in Seq(Byte)
    BY <1>8
  <2> QED
    BY <1>2, <2>1 DEF FrameInv, TypeOK
<1>12. \A rest : FramesAhead(rest) => FramesAhead(rest)'
  BY <1>2, <1>10 DEF FramesAhead
<1> QED
  BY <1>11, <1>12 DEF FrameInv, InStep

(* One step of anybody.                                                    *)
LEMMA FrameSteps == FrameInv /\ [Next]_vars => FrameInv'
<1> SUFFICES ASSUME FrameInv, [Next]_vars PROVE FrameInv'
  OBVIOUS
<1>1. ASSUME UNCHANGED <<sent, wire, incoming_buffer_, messages_received_, received>>,
             request' \in Requests, receiver' \in {"read", "frame"}
      PROVE  FrameInv'
  <2>1. TypeOK'
    BY <1>1 DEF FrameInv, TypeOK
  <2>2. \A rest : FramesAhead(rest) => FramesAhead(rest)'
    BY <1>1 DEF FramesAhead
  <2> QED
    BY <2>1, <2>2 DEF FrameInv, InStep
<1>2. CASE ExchangeSends
  BY <1>2, SendKeepsStep
<1>3. CASE ClientSends
  BY <1>1, <1>3 DEF ClientSends, FrameInv, TypeOK
<1>4. CASE Receive
  BY <1>4, ReceiveKeepsStep
<1>5. CASE Cut
  BY <1>5, CutKeepsStep
<1>6. CASE WaitForData
  BY <1>1, <1>6 DEF WaitForData, FrameInv, TypeOK
<1>7. CASE UNCHANGED vars
  BY <1>1, <1>7 DEF vars, FrameInv, TypeOK
<1> QED
  BY <1>2, <1>3, <1>4, <1>5, <1>6, <1>7 DEF Next, Receiving

(* The buffer and the wire hold the frames that are not cut off yet        *)
(* (process_incoming_messages()), whichever frames are sent and however    *)
(* they are read.                                                          *)
THEOREM FrameInvariant == Spec => []FrameInv
BY InitFrames, FrameSteps, PTL DEF Spec

-----------------------------------------------------------------------------
(* Induction over the natural numbers, with a set for the predicate.       *)

Less == {p \in Nat \X Nat : p[1] < p[2]}

(* The order of the natural numbers, as a set.                             *)
LEMMA LessWF == IsWellFoundedOn(Less, Nat)
<1>1. Less = OpToRel(<, Nat)
  BY DEF OpToRel, Less
<1> QED
  BY <1>1, NatLessThanWellFounded, Zenon

LEMMA Smallest ==
    ASSUME NEW T \in SUBSET Nat, T # {}
    PROVE  \E x \in T : \A y \in T : x <= y
<1>1. PICK x \in T : \A y \in T : ~(<<y, x>> \in Less)
  BY LessWF, WFMin, Zenon
<1>2. ASSUME NEW y \in T
      PROVE  x <= y
  <2>1. CASE y < x
    <3>1. <<y, x>> \in Less
      BY <2>1 DEF Less
    <3> QED
      BY <1>1, <3>1
  <2>2. CASE ~(y < x)
    BY <2>2
  <2> QED
    BY <2>1, <2>2
<1> QED
  BY <1>2

LEMMA Induction ==
    ASSUME NEW P, 0 \in P, \A n \in Nat : n \in P => n + 1 \in P
    PROVE  Nat \subseteq P
<1>1. SUFFICES ASSUME Nat \ P # {} PROVE FALSE
  OBVIOUS
<1>2. PICK n \in Nat \ P : \A y \in Nat \ P : n <= y
  BY <1>1, Smallest
<1> QED
  BY <1>2

(* What precedes the same bytes is the same.                               *)
LEMMA SameFront ==
    ASSUME NEW s \in Seq(Byte), NEW t \in Seq(Byte), NEW u \in Seq(Byte), s \o u = t \o u
    PROVE  s = t
BY ConcatSimplifications

(* Pieces one behind the other, as what is ahead at each of them.          *)
Pieces(s, K, ahead) ==
    /\ K \in Nat \ {0}
    /\ s \in [1 .. K -> Seq(Byte)]
    /\ ahead \in [0 .. K -> Seq(Byte)]
    /\ ahead[K] = <<>>
    /\ \A i \in 0 .. K - 1 : ahead[i] = s[i + 1] \o ahead[i + 1]

(* What is behind the end of the i-th piece.                               *)
Behind(q, ahead, i) ==
    q \in Seq(Byte) /\ ahead[i] \in Seq(Byte) /\ q \o ahead[i] = ahead[0]

(* Behind the first piece lies the first piece.                            *)
LEMMA FirstPiece ==
    ASSUME NEW s, NEW K, NEW ahead, Pieces(s, K, ahead)
    PROVE  Behind(s[1], ahead, 1)
<1>1. 1 \in 1 .. K /\ 1 \in 0 .. K /\ 0 \in 0 .. K - 1 /\ 0 + 1 = 1
  BY DEF Pieces
<1> QED
  BY <1>1 DEF Pieces, Behind

(* One piece more goes from what is ahead to what is behind.               *)
LEMMA NextPiece ==
    ASSUME NEW s, NEW K, NEW ahead, Pieces(s, K, ahead),
           NEW i \in 1 .. K - 1, NEW q, Behind(q, ahead, i)
    PROVE  Behind(q \o s[i + 1], ahead, i + 1)
<1>1. PICK b \in Seq(Byte), r \in Seq(Byte) : b = s[i + 1] /\ r = ahead[i + 1]
  <2>1. i + 1 \in 1 .. K /\ i + 1 \in 0 .. K
    BY DEF Pieces
  <2> QED
    BY <2>1 DEF Pieces
<1>2. ahead[i] = b \o r
  <2>1. i \in 0 .. K - 1
    OBVIOUS
  <2> QED
    BY <1>1, <2>1 DEF Pieces
<1>3. q \in Seq(Byte) /\ q \o ahead[i] = ahead[0]
  BY DEF Behind
<1>4. (q \o b) \o r = q \o (b \o r)
  BY <1>3, ConcatAssociative
<1>5. q \o b \in Seq(Byte)
  BY <1>3
<1>6. (q \o b) \o r = ahead[0]
  BY <1>2, <1>3, <1>4
<1> QED
  BY <1>1, <1>5, <1>6 DEF Behind

(* There is one such sequence.                                             *)
LEMMA OneBehind ==
    ASSUME NEW ahead, NEW i, NEW p, NEW q, Behind(p, ahead, i), Behind(q, ahead, i)
    PROVE  p = q
BY SameFront DEF Behind

(* There is one at each piece.                                             *)
LEMMA BehindEachPiece ==
    ASSUME NEW s, NEW K, NEW ahead, Pieces(s, K, ahead)
    PROVE  \A i \in 1 .. K : \E q : Behind(q, ahead, i)
<1>1. PICK P : P = {n \in Nat : n \in 1 .. K => \E q : Behind(q, ahead, n)}
  OBVIOUS
<1>2. K \in Nat
  BY DEF Pieces
<1>3. 0 \in P
  BY <1>1
<1>4. ASSUME NEW n \in Nat, n \in P
      PROVE  n + 1 \in P
  <2>1. CASE n = 0
    <3>1. \E q : Behind(q, ahead, 1)
      BY FirstPiece
    <3> QED
      BY <1>1, <2>1, <3>1
  <2>2. CASE n \in 1 .. K - 1
    <3>1. PICK q : Behind(q, ahead, n)
      BY <1>1, <1>2, <1>4, <2>2
    <3>2. Behind(q \o s[n + 1], ahead, n + 1)
      BY <2>2, <3>1, NextPiece
    <3> QED
      BY <1>1, <3>2
  <2>3. CASE n # 0 /\ n \notin 1 .. K - 1
    <3>1. n + 1 \notin 1 .. K
      BY <1>2, <2>3
    <3> QED
      BY <1>1, <3>1
  <2> QED
    BY <2>1, <2>2, <2>3
<1>5. Nat \subseteq P
  BY <1>3, <1>4, Induction
<1> QED
  BY <1>1, <1>2, <1>5

(* The pieces put together are what is ahead of the first.                 *)
LEMMA Flattened ==
    ASSUME NEW s, NEW K, NEW ahead, Pieces(s, K, ahead), Len(s) = K
    PROVE  FlattenSeq(s) = ahead[0]
<1> DEFINE Step(g) == [i \in 1 .. K |-> IF i = 1 THEN s[i] ELSE g[i - 1] \o s[i]]
<1>1. K \in Nat /\ K # 0
  BY DEF Pieces
<1>2. FlattenSeq(s) = (CHOOSE g : g = Step(g))[K]
  BY <1>1 DEF FlattenSeq
<1>3. PICK behind : behind = [i \in 1 .. K |-> CHOOSE q : Behind(q, ahead, i)]
  OBVIOUS
<1>4. ASSUME NEW i \in 1 .. K
      PROVE  Behind(behind[i], ahead, i)
  <2>1. \E q : Behind(q, ahead, i)
    BY BehindEachPiece
  <2> QED
    BY <1>3, <2>1
<1>5. ASSUME NEW i \in 1 .. K
      PROVE  behind[i] = IF i = 1 THEN s[i] ELSE behind[i - 1] \o s[i]
  <2>1. CASE i = 1
    <3>1. Behind(s[1], ahead, 1) /\ Behind(behind[i], ahead, 1)
      BY <1>4, <2>1, FirstPiece
    <3>2. behind[i] = s[1]
      BY <2>1, <3>1, OneBehind
    <3> QED
      BY <2>1, <3>2
  <2>2. CASE i # 1
    <3>1. PICK j \in 1 .. K - 1 : j = i - 1 /\ j + 1 = i
      <4>1. i - 1 \in 1 .. K - 1 /\ i - 1 + 1 = i
        BY <1>1, <2>2
      <4> QED
        BY <4>1
    <3>2. Behind(behind[j], ahead, j)
      <4>1. j \in 1 .. K
        BY <1>1
      <4> QED
        BY <1>4, <4>1
    <3>3. Behind(behind[j] \o s[j + 1], ahead, j + 1)
      BY <3>2, NextPiece
    <3>4. Behind(behind[j] \o s[i], ahead, i) /\ Behind(behind[i], ahead, i)
      BY <1>4, <3>1, <3>3
    <3>5. behind[i] = behind[j] \o s[i]
      BY <3>4, OneBehind
    <3> QED
      BY <2>2, <3>1, <3>5
  <2> QED
    BY <2>1, <2>2
<1>6. behind = Step(behind)
  <2>1. behind = [i \in 1 .. K |-> behind[i]]
    BY <1>3
  <2>2. [i \in 1 .. K |-> behind[i]] = Step(behind)
    BY <1>5
  <2> QED
    BY <2>1, <2>2
<1>7. PICK g : g = (CHOOSE h : h = Step(h)) /\ g = Step(g)
  <2>1. \E h : h = Step(h)
    BY <1>6
  <2> QED
    BY <2>1, Zenon
<1>8. \A i \in 1 .. K : g[i] = IF i = 1 THEN s[i] ELSE g[i - 1] \o s[i]
  BY <1>7
<1>9. PICK P : P = {n \in Nat : n \in 1 .. K => Behind(g[n], ahead, n)}
  OBVIOUS
<1>10. 0 \in P
  BY <1>9
<1>11. ASSUME NEW n \in Nat, n \in P
       PROVE  n + 1 \in P
  <2>1. CASE n = 0
    <3>1. g[1] = s[1]
      BY <1>1, <1>8
    <3>2. Behind(g[1], ahead, 1)
      BY <3>1, FirstPiece
    <3> QED
      BY <1>9, <2>1, <3>2
  <2>2. CASE n \in 1 .. K - 1
    <3>1. Behind(g[n], ahead, n)
      BY <1>1, <1>9, <1>11, <2>2
    <3>2. Behind(g[n] \o s[n + 1], ahead, n + 1)
      BY <2>2, <3>1, NextPiece
    <3>3. g[n + 1] = g[n] \o s[n + 1]
      <4>1. PICK i \in 1 .. K : i = n + 1 /\ i # 1 /\ i - 1 = n
        <5>1. n + 1 \in 1 .. K /\ n + 1 # 1 /\ n + 1 - 1 = n
          BY <1>1, <2>2
        <5> QED
          BY <5>1
      <4>2. g[i] = g[i - 1] \o s[i]
        BY <1>8, <4>1
      <4> QED
        BY <4>1, <4>2
    <3>4. Behind(g[n + 1], ahead, n + 1)
      BY <3>2, <3>3
    <3> QED
      BY <1>9, <3>4
  <2>3. CASE n # 0 /\ n \notin 1 .. K - 1
    <3>1. n + 1 \notin 1 .. K
      BY <1>1, <2>3
    <3> QED
      BY <1>9, <3>1
  <2> QED
    BY <2>1, <2>2, <2>3
<1>12. Behind(g[K], ahead, K)
  <2>1. Nat \subseteq P
    BY <1>10, <1>11, Induction
  <2> QED
    BY <1>1, <1>9, <2>1
<1>13. g[K] \o <<>> = g[K]
  BY <1>12, ConcatEmptySeq DEF Behind
<1> QED
  BY <1>2, <1>7, <1>12, <1>13 DEF Behind, Pieces

(* FramesAhead, walked through from the first frame to the last, is the    *)
(* definition of FlattenSeq.                                               *)
LEMMA StepIsKept == FrameInv => ReceiverKeepsStep
<1> SUFFICES ASSUME FrameInv PROVE ReceiverKeepsStep
  OBVIOUS
<1>1. PICK rest : FramesAhead(rest)
  BY DEF FrameInv, InStep
<1>2. PICK N \in Nat, c \in Nat : N = Len(sent) /\ c = messages_received_ /\ c <= N
  BY DEF FrameInv, TypeOK
<1>3. /\ rest \in [c .. N -> Seq(Byte)] /\ rest[N] = <<>>
      /\ \A n \in c .. N - 1 : rest[n] = Bytes[sent[n + 1]] \o rest[n + 1]
      /\ rest[c] = incoming_buffer_ \o wire
  BY <1>1, <1>2 DEF FramesAhead
<1>4. PICK K \in Nat : K = N - c
  <2>1. N - c \in Nat
    BY <1>2
  <2> QED
    BY <2>1
<1>5. PICK p \in Seq(Frames) : p = Pending /\ Len(p) = K /\ \A i \in 1 .. K : p[i] = sent[c + i]
  <2>1. PICK q \in Seq(Frames) : q = sent
    BY DEF FrameInv, TypeOK
  <2>2. SubSeq(q, c + 1, N) \in Seq(Frames)
    BY <1>2, <2>1
  <2>3. Len(SubSeq(q, c + 1, N)) = K
    BY <1>2, <1>4, <2>1
  <2>4. \A i \in 1 .. K : SubSeq(q, c + 1, N)[i] = q[c + i]
    BY <1>2, <1>4, <2>1
  <2> QED
    BY <1>2, <2>1, <2>2, <2>3, <2>4 DEF Pending
<1>6. PICK s : s = [i \in DOMAIN Pending |-> Bytes[Pending[i]]]
  OBVIOUS
<1>7. s = [i \in 1 .. K |-> Bytes[p[i]]]
  BY <1>5, <1>6
<1>8. s \in [1 .. K -> Seq(Byte)]
  BY <1>5, <1>7, BytesOfFrame
<1>9. Len(s) = K
  BY <1>8
<1>10. CASE K = 0
  <2>1. FlattenSeq(s) = <<>>
    <3>1. s = <<>>
      BY <1>8, <1>10
    <3> QED
      BY <1>9, <1>10, <3>1 DEF FlattenSeq
  <2>2. c = N
    BY <1>4, <1>10
  <2> QED
    BY <1>3, <1>6, <2>1, <2>2 DEF ReceiverKeepsStep
<1>11. CASE K # 0
  <2>1. PICK ahead : ahead = [i \in 0 .. K |-> rest[c + i]]
    OBVIOUS
  <2>2. ahead \in [0 .. K -> Seq(Byte)]
    <3>1. \A i \in 0 .. K : c + i \in c .. N
      BY <1>4
    <3> QED
      BY <1>3, <2>1, <3>1
  <2>3. ahead[K] = <<>> /\ ahead[0] = rest[c]
    <3>1. K \in 0 .. K /\ 0 \in 0 .. K /\ c + K = N /\ c + 0 = c
      BY <1>4
    <3> QED
      BY <1>3, <2>1, <3>1
  <2>4. ASSUME NEW i \in 0 .. K - 1
        PROVE  ahead[i] = s[i + 1] \o ahead[i + 1]
    <3>1. /\ c + i \in c .. N - 1 /\ i \in 0 .. K /\ i + 1 \in 0 .. K /\ i + 1 \in 1 .. K
          /\ c + i + 1 = c + (i + 1)
      BY <1>4
    <3>2. rest[c + i] = Bytes[sent[c + i + 1]] \o rest[c + i + 1]
      BY <1>3, <3>1
    <3>3. s[i + 1] = Bytes[sent[c + (i + 1)]]
      BY <1>5, <1>7, <3>1
    <3> QED
      BY <2>1, <3>1, <3>2, <3>3
  <2>5. Pieces(s, K, ahead)
    BY <1>8, <1>11, <2>2, <2>3, <2>4 DEF Pieces
  <2>6. FlattenSeq(s) = ahead[0]
    BY <1>9, <2>5, Flattened
  <2> QED
    BY <1>3, <1>6, <2>3, <2>6 DEF ReceiverKeepsStep
<1> QED
  BY <1>10, <1>11

(* Types, with what each variable holds between any two steps.             *)
THEOREM FrameTypes == Spec => []TypeOK
<1>1. FrameInv => TypeOK
  BY DEF FrameInv
<1> QED
  BY <1>1, FrameInvariant, PTL

(* The receiver never loses step (ReceiverKeepsStep), for any frames, any  *)
(* read sizes and any number of frames.                                    *)
THEOREM ReceiverStaysInStep == Spec => []ReceiverKeepsStep
BY FrameInvariant, StepIsKept, PTL

(* create_websocket_frame() and calculate_frame_size() agree on the size   *)
(* of whatever is sent.                                                    *)
THEOREM SizesAgree == Spec => []SizesAreReadBack
<1>1. FrameInv => SizesAreReadBack
  BY EverySizeIsReadBack, FramesAssumption DEF FrameInv, TypeOK, FramesAssumption
<1> QED
  BY <1>1, FrameInvariant, PTL

-----------------------------------------------------------------------------
(* The texts of the frames that are not cut off yet.                       *)
TextsOf(s, c) == [i \in 1 .. Len(s) - c |-> Text(s[c + i])]

LEMMA TextsAhead ==
    ASSUME NEW s \in Seq(Frames), NEW c \in Nat, c <= Len(s)
    PROVE  TextsOf(s, c) \in Seq(Texts) /\ Len(TextsOf(s, c)) = Len(s) - c
<1>1. PICK n \in Nat : n = Len(s) - c
  <2>1. Len(s) - c \in Nat
    OBVIOUS
  <2> QED
    BY <2>1
<1>2. \A i \in 1 .. n : Text(s[c + i]) \in Texts
  <2> TAKE i \in 1 .. n
  <2>1. s[c + i] \in Frames
    <3>1. c + i \in 1 .. Len(s)
      BY <1>1
    <3> QED
      BY <3>1
  <2> QED
    BY <2>1 DEF Texts
<1>3. TextsOf(s, c) \in [1 .. n -> Texts]
  BY <1>1, <1>2 DEF TextsOf
<1> QED
  BY <1>1, <1>3

(* One frame more.                                                         *)
LEMMA TextsOfMore ==
    ASSUME NEW s \in Seq(Frames), NEW c \in Nat, c <= Len(s), NEW f \in Frames
    PROVE  TextsOf(Append(s, f), c) = Append(TextsOf(s, c), Text(f))
<1>1. PICK n \in Nat : n = Len(s) - c /\ c + n = Len(s)
  <2>1. Len(s) - c \in Nat /\ c + (Len(s) - c) = Len(s)
    OBVIOUS
  <2> QED
    BY <2>1
<1>2. PICK more \in Seq(Frames) : /\ more = Append(s, f) /\ Len(more) = c + (n + 1)
                                  /\ more[c + (n + 1)] = f
                                  /\ \A i \in 1 .. n : more[c + i] = s[c + i]
  <2>1. Append(s, f) \in Seq(Frames) /\ Len(Append(s, f)) = Len(s) + 1
    OBVIOUS
  <2>2. Append(s, f)[Len(s) + 1] = f /\ \A i \in 1 .. Len(s) : Append(s, f)[i] = s[i]
    OBVIOUS
  <2>3. \A i \in 1 .. n : c + i \in 1 .. Len(s)
    BY <1>1
  <2>4. Len(s) + 1 = c + (n + 1)
    BY <1>1
  <2> QED
    BY <2>1, <2>2, <2>3, <2>4
<1>3. PICK p \in Seq(Texts) : /\ p = TextsOf(more, c) /\ Len(p) = n + 1
                              /\ \A i \in 1 .. n + 1 : p[i] = Text(more[c + i])
  <2>1. c <= Len(more) /\ Len(more) - c = n + 1
    BY <1>2
  <2>2. TextsOf(more, c) \in Seq(Texts) /\ Len(TextsOf(more, c)) = n + 1
    BY <2>1, TextsAhead
  <2>3. \A i \in 1 .. n + 1 : TextsOf(more, c)[i] = Text(more[c + i])
    BY <2>1 DEF TextsOf
  <2> QED
    BY <2>2, <2>3
<1>4. PICK q \in Seq(Texts) : /\ q = TextsOf(s, c) /\ Len(q) = n
                              /\ \A i \in 1 .. n : q[i] = Text(s[c + i])
  <2>1. TextsOf(s, c) \in Seq(Texts) /\ Len(TextsOf(s, c)) = n
    BY <1>1, TextsAhead
  <2>2. \A i \in 1 .. n : TextsOf(s, c)[i] = Text(s[c + i])
    BY <1>1 DEF TextsOf
  <2> QED
    BY <2>1, <2>2
<1>5. PICK text \in Texts : text = Text(f)
  BY DEF Texts
<1>6. PICK a \in Seq(Texts) : /\ a = Append(q, text) /\ Len(a) = n + 1 /\ a[n + 1] = text
                              /\ \A i \in 1 .. n : a[i] = q[i]
  <2>1. Append(q, text) \in Seq(Texts) /\ Len(Append(q, text)) = Len(q) + 1
    OBVIOUS
  <2>2. Append(q, text)[Len(q) + 1] = text /\ \A i \in 1 .. Len(q) : Append(q, text)[i] = q[i]
    OBVIOUS
  <2> QED
    BY <1>4, <2>1, <2>2
<1>7. ASSUME NEW i \in 1 .. n + 1
      PROVE  p[i] = a[i]
  <2>1. CASE i = n + 1
    BY <1>2, <1>3, <1>5, <1>6, <2>1
  <2>2. CASE i # n + 1
    <3>1. i \in 1 .. n
      BY <2>2
    <3> QED
      BY <1>2, <1>3, <1>4, <1>6, <3>1
  <2> QED
    BY <2>1, <2>2
<1>8. p = a
  BY <1>3, <1>6, <1>7, SeqEqual
<1> QED
  BY <1>2, <1>3, <1>4, <1>5, <1>6, <1>8

(* One frame less.                                                         *)
LEMMA TextsOfFewer ==
    ASSUME NEW s \in Seq(Frames), NEW c \in Nat, c < Len(s)
    PROVE  /\ TextsOf(s, c) # <<>>
           /\ Head(TextsOf(s, c)) = Text(s[c + 1])
           /\ Tail(TextsOf(s, c)) = TextsOf(s, c + 1)
<1>1. PICK n \in Nat : n = Len(s) - (c + 1) /\ Len(s) - c = n + 1
  <2>1. Len(s) - (c + 1) \in Nat /\ Len(s) - c = (Len(s) - (c + 1)) + 1
    OBVIOUS
  <2> QED
    BY <2>1
<1>2. PICK p \in Seq(Texts) : /\ p = TextsOf(s, c) /\ Len(p) = n + 1
                              /\ \A i \in 1 .. n + 1 : p[i] = Text(s[c + i])
  <2>1. c <= Len(s)
    OBVIOUS
  <2>2. TextsOf(s, c) \in Seq(Texts) /\ Len(TextsOf(s, c)) = n + 1
    BY <1>1, <2>1, TextsAhead
  <2>3. \A i \in 1 .. n + 1 : TextsOf(s, c)[i] = Text(s[c + i])
    BY <1>1 DEF TextsOf
  <2> QED
    BY <2>2, <2>3
<1>3. PICK q \in Seq(Texts) : /\ q = TextsOf(s, c + 1) /\ Len(q) = n
                              /\ \A i \in 1 .. n : q[i] = Text(s[(c + 1) + i])
  <2>1. PICK d \in Nat : d = c + 1 /\ d <= Len(s) /\ Len(s) - d = n
    BY <1>1
  <2>2. TextsOf(s, d) \in Seq(Texts) /\ Len(TextsOf(s, d)) = n
    BY <2>1, TextsAhead
  <2>3. \A i \in 1 .. n : TextsOf(s, d)[i] = Text(s[d + i])
    BY <2>1 DEF TextsOf
  <2> QED
    BY <2>1, <2>2, <2>3
<1>4. p # <<>> /\ Head(p) = Text(s[c + 1])
  <2>1. p # <<>>
    BY <1>2
  <2>2. Head(p) = p[1]
    BY <2>1
  <2>3. 1 \in 1 .. n + 1
    OBVIOUS
  <2> QED
    BY <1>2, <2>1, <2>2, <2>3
<1>5. PICK t \in Seq(Texts) : t = Tail(p) /\ Len(t) = n /\ \A i \in 1 .. n : t[i] = p[i + 1]
  <2>1. Tail(p) \in Seq(Texts)
    BY <1>4
  <2>2. Len(Tail(p)) = n
    BY <1>2, <1>4
  <2>3. \A i \in 1 .. n : Tail(p)[i] = p[i + 1]
    BY <1>2, <1>4
  <2> QED
    BY <2>1, <2>2, <2>3
<1>6. ASSUME NEW i \in 1 .. n
      PROVE  t[i] = q[i]
  <2>1. i + 1 \in 1 .. n + 1 /\ c + (i + 1) = (c + 1) + i
    OBVIOUS
  <2>2. p[i + 1] = Text(s[c + (i + 1)])
    BY <1>2, <2>1
  <2> QED
    BY <1>3, <1>5, <2>1, <2>2
<1>7. t = q
  BY <1>3, <1>5, <1>6, SeqEqual
<1> QED
  BY <1>2, <1>3, <1>4, <1>5, <1>7

(* Stream, sizing and parsing implement MessageChannel: the texts that the *)
(* exchange framed are delivered in order, once, whole, unmasked and       *)
(* inflated; frames of no use are passed over and harm no other            *)
(* (process_incoming_messages(), parse_websocket_frame()).                 *)
THEOREM FramesImplementChannel == Spec => FrameChannel!Spec
<1> DEFINE ahead == TextsOf(sent, messages_received_)
<1>1. Init => ahead = <<>> /\ received = <<>>
  <2> SUFFICES ASSUME Init PROVE ahead = <<>> /\ received = <<>>
    OBVIOUS
  <2>1. sent = <<>> /\ messages_received_ = 0 /\ Len(<<>>) = 0
    BY DEF Init
  <2>2. ahead = [i \in 1 .. 0 |-> Text(sent[messages_received_ + i])]
    BY <2>1 DEF TextsOf
  <2> QED
    BY <2>2 DEF Init
<1>2. ASSUME FrameInv, [Next]_vars
      PROVE  \/ \E m \in Texts : ahead' = Append(ahead, m) /\ received' = received
             \/ /\ ahead # <<>> /\ ahead' = Tail(ahead)
                /\ received' = IF Head(ahead) \in Texts \ {<<>>} THEN Append(received, Head(ahead))
                                                                 ELSE received
             \/ ahead' = ahead /\ received' = received
  <2>1. PICK s \in Seq(Frames), c \in Nat : s = sent /\ c = messages_received_ /\ c <= Len(s)
    BY <1>2 DEF FrameInv, TypeOK
  <2>2. CASE ExchangeSends
    <3>1. PICK f \in Frames : sent' = Append(s, f)
      BY <2>1, <2>2 DEF ExchangeSends
    <3>2. UNCHANGED <<messages_received_, received>>
      BY <2>2 DEF ExchangeSends
    <3>3. ahead' = Append(ahead, Text(f))
      BY <2>1, <3>1, <3>2, TextsOfMore
    <3>4. Text(f) \in Texts
      BY DEF Texts
    <3> QED
      BY <3>2, <3>3, <3>4
  <2>3. CASE Cut
    <3>1. /\ c + 1 <= Len(s) /\ s[c + 1] \in Frames
          /\ received' = IF Text(s[c + 1]) # <<>> THEN Append(received, Text(s[c + 1]))
                                                  ELSE received
      BY <1>2, <2>1, <2>3, CutTakesNext
    <3>2. sent' = s /\ messages_received_' = c + 1
      BY <2>1, <2>3 DEF Cut
    <3>3. ahead # <<>> /\ Head(ahead) = Text(s[c + 1]) /\ Tail(ahead) = TextsOf(s, c + 1)
      <4>1. c < Len(s)
        BY <3>1
      <4> QED
        BY <2>1, <4>1, TextsOfFewer
    <3>4. ahead' = TextsOf(s, c + 1)
      BY <3>2
    <3>5. Text(s[c + 1]) \in Texts
      BY <3>1 DEF Texts
    <3> HIDE DEF ahead
    <3> QED
      BY <3>1, <3>3, <3>4, <3>5
  <2>4. CASE UNCHANGED <<sent, messages_received_, received>>
    BY <2>4
  <2>5. CASE ClientSends \/ Receive \/ WaitForData \/ UNCHANGED vars
    BY <2>4, <2>5 DEF ClientSends, Receive, WaitForData, vars
  <2> QED
    BY <1>2, <2>2, <2>3, <2>5 DEF Next, Receiving
<1>3. Init => FrameChannel!Init
  BY <1>1 DEF FrameChannel!Init, TextsOf
<1>4. FrameInv /\ [Next]_vars
      => [FrameChannel!Next]_<<[i \in 1 .. Len(sent) - messages_received_ |->
                                   Text(sent[messages_received_ + i])], received>>
  BY <1>2 DEF FrameChannel!Next, FrameChannel!Send, FrameChannel!Deliver, TextsOf
<1> QED
  BY <1>3, <1>4, FrameInvariant, PTL DEF Spec, FrameChannel!Spec
=============================================================================
