--------------------------- MODULE SectionsProofs ---------------------------
(***************************************************************************)
(* Proofs about module Sections: whatever a NIT, a BAT or an SDT has that  *)
(* may be broadcast, the decoder reads of its bytes what was written.      *)
(*                                                                         *)
(* Sec is module Tuning's instance of it.  A lemma says of a part of a     *)
(* section what is read of the part's bytes wherever they stand; a walk    *)
(* over a loop finds each item where it stands (WalkFindsAll), and what    *)
(* the items yield, in order, is what the loop was written from.           *)
(***************************************************************************)
EXTENDS Tuning, WellFoundedInduction, SequenceTheorems, TLAPS
-----------------------------------------------------------------------------
(* Numbers: bytes, words and binary coded decimals.                        *)

StandsAt(s, o, b) == \A k \in 1 .. Len(b) : s[o + k] = b[k]
Bytes(b, n) == b \in Seq(Int) /\ Len(b) = n

(* Where the elements of two sequences are in both together. *)
LEMMA Concatenated ==
  ASSUME NEW S, NEW s \in Seq(S), NEW t \in Seq(S)
  PROVE  /\ Len(s \o t) = Len(s) + Len(t)
         /\ \A k \in 1 .. Len(s) : (s \o t)[k] = s[k]
         /\ \A k \in 1 .. Len(t) : (s \o t)[Len(s) + k] = t[k]
BY SMT

(* Where the elements of two pieces are in both together. *)
LEMMA BytesConcatenated ==
  ASSUME NEW s \in Seq(Int), NEW t \in Seq(Int)
  PROVE  /\ Len(s \o t) = Len(s) + Len(t)
         /\ \A k \in 1 .. Len(s) : (s \o t)[k] = s[k]
         /\ \A k \in 1 .. Len(t) : (s \o t)[Len(s) + k] = t[k]
BY SMT

(* If two pieces stand one behind the other, each stands where it should. *)
LEMMA Split ==
  ASSUME NEW s, NEW o \in Int, NEW b, NEW c, NEW n \in Nat, NEW m \in Nat,
         Bytes(b, n), Bytes(c, m), StandsAt(s, o, b \o c)
  PROVE  StandsAt(s, o, b) /\ StandsAt(s, o + n, c)
<1> b \in Seq(Int) /\ Len(b) = n /\ c \in Seq(Int)
  BY DEF Bytes
<1>1. /\ Len(b \o c) = Len(b) + Len(c)
      /\ \A k \in 1 .. Len(b) : (b \o c)[k] = b[k]
      /\ \A k \in 1 .. Len(c) : (b \o c)[Len(b) + k] = c[k]
  BY BytesConcatenated
<1>2. ASSUME NEW k \in 1 .. Len(b) PROVE s[o + k] = b[k]
  <2>1. k \in 1 .. Len(b \o c)
    BY <1>1
  <2> QED
    BY <1>1, <2>1 DEF StandsAt
<1>3. ASSUME NEW k \in 1 .. Len(c) PROVE s[(o + n) + k] = c[k]
  <2>1. n + k \in 1 .. Len(b \o c) /\ (o + n) + k = o + (n + k)
    BY <1>1
  <2>2. s[o + (n + k)] = (b \o c)[n + k]
    BY <2>1 DEF StandsAt
  <2> QED
    BY <1>1, <2>1, <2>2
<1> QED
  BY <1>2, <1>3 DEF StandsAt

(* Lengths of what the broadcaster puts together. *)
LEMMA Joined ==
  ASSUME NEW b, NEW c, NEW m \in Nat, NEW n \in Nat, Bytes(b, m), Bytes(c, n)
  PROVE  Bytes(b \o c, m + n)
<1>1. b \o c \in Seq(Int)
  BY DEF Bytes
<1> QED
  BY <1>1, BytesConcatenated DEF Bytes

(* One number is one byte. *)
LEMMA OneByte ==
  ASSUME NEW v \in Int
  PROVE  Bytes(<<v>>, 1)
BY DEF Bytes

(* Reading what has been put, number by number. *)
LEMMA ByteStands ==
  ASSUME NEW s, NEW o \in Int, NEW v, StandsAt(s, o, <<v>>)
  PROVE  Sec!Word8(s, o) = v
BY DEF StandsAt, Sec!Word8

(* The writer's numbers are one to four bytes. *)
LEMMA PutBytes ==
  ASSUME NEW v \in Nat
  PROVE  /\ Bytes(Sec!Put8(v), 1) /\ Bytes(Sec!Put16(v), 2)
         /\ Bytes(Sec!Put24(v), 3) /\ Bytes(Sec!Put32(v), 4)
<1>1. v % 256 \in Int /\ (v \div 256) % 256 \in Int /\ (v \div 65536) % 256 \in Int
      /\ (v \div 16777216) % 256 \in Int
  BY SMT
<1>2. Bytes(Sec!Put8(v), 1)
  BY <1>1, OneByte DEF Sec!Put8
<1>3. Bytes(Sec!Put16(v), 2)
  BY <1>1 DEF Sec!Put16, Bytes
<1>4. Bytes(<<(v \div 65536) % 256>>, 1) /\ Bytes(<<(v \div 16777216) % 256>>, 1)
  BY <1>1, OneByte
<1>5. Bytes(Sec!Put24(v), 1 + 2)
  BY <1>3, <1>4, Joined DEF Sec!Put24
<1>6. Bytes(Sec!Put32(v), 1 + (1 + 2))
  BY <1>4, <1>5, Joined DEF Sec!Put32
<1> QED
  BY <1>2, <1>3, <1>5, <1>6

(* A byte is read as written. *)
LEMMA Read8 ==
  ASSUME NEW s, NEW o \in Int, NEW v \in 0 .. 255, StandsAt(s, o, Sec!Put8(v))
  PROVE  Sec!Word8(s, o) = v
<1>1. v % 256 = v
  OBVIOUS
<1> QED
  BY <1>1, ByteStands DEF Sec!Put8

(* The two bytes of a word are read, the first one counting 256 times. *)
LEMMA Read16Bytes ==
  ASSUME NEW s, NEW o \in Int, NEW v \in Nat, StandsAt(s, o, Sec!Put16(v))
  PROVE  Sec!Word8(s, o) = (v \div 256) % 256 /\ Sec!Word8(s, o + 1) = v % 256
<1>1. Len(Sec!Put16(v)) = 2 /\ Sec!Put16(v)[1] = (v \div 256) % 256 /\ Sec!Put16(v)[2] = v % 256
  BY DEF Sec!Put16
<1> QED
  BY <1>1 DEF StandsAt, Sec!Word8

(* The digits of a number to the base 256, and of one that fits. *)
LEMMA Digits ==
  ASSUME NEW v \in Nat
  PROVE  /\ 256 * (v \div 256) + (v % 256) = v
         /\ 256 * (v \div 65536) + ((v \div 256) % 256) = v \div 256
         /\ 256 * (v \div 16777216) + ((v \div 65536) % 256) = v \div 65536
BY SMT

(* A number's last digit, to any base. *)
LEMMA DigitRange ==
  ASSUME NEW v \in Nat
  PROVE  /\ v < 65536 => (v \div 256) % 256 = v \div 256
         /\ v < 4294967296 => (v \div 16777216) % 256 = v \div 16777216
BY SMT

(* A word is read as written. *)
LEMMA Read16 ==
  ASSUME NEW s, NEW o \in Int, NEW v \in Nat, v < 65536,
         StandsAt(s, o, Sec!Put16(v))
  PROVE  Sec!Word16(s, o) = v
<1>1. Sec!Word8(s, o) = v \div 256 /\ Sec!Word8(s, o + 1) = v % 256
  <2>1. Sec!Word8(s, o) = (v \div 256) % 256 /\ Sec!Word8(s, o + 1) = v % 256
    BY Read16Bytes
  <2>2. (v \div 256) % 256 = v \div 256
    BY DigitRange, SMT
  <2> QED
    BY <2>1, <2>2
<1>2. 256 * (v \div 256) + (v % 256) = v
  BY Digits
<1>3. ASSUME NEW q \in Int, NEW r \in Int, Sec!Word8(s, o) = q, Sec!Word8(s, o + 1) = r
      PROVE  Sec!Word16(s, o) = 256 * q + r
  BY <1>3 DEF Sec!Word16
<1>4. v \div 256 \in Int /\ v % 256 \in Int
  OBVIOUS
<1> QED
  BY <1>1, <1>2, <1>3, <1>4

(* What 32 bits hold. *)
FitsWord32(v) == v \in Nat /\ v < 4294967296

(* Four digits to base 256 make the number again. *)
LEMMA FourDigits ==
  ASSUME NEW v, FitsWord32(v)
  PROVE  256 * (256 * (256 * ((v \div 16777216) % 256) + ((v \div 65536) % 256))
                + ((v \div 256) % 256)) + (v % 256) = v
<1>1. v \in Nat /\ (v \div 16777216) % 256 = v \div 16777216
  BY DigitRange, SMT DEF FitsWord32
<1>2. /\ 256 * (v \div 256) + (v % 256) = v
      /\ 256 * (v \div 65536) + ((v \div 256) % 256) = v \div 256
      /\ 256 * (v \div 16777216) + ((v \div 65536) % 256) = v \div 65536
  BY <1>1, Digits, SMT
<1> QED
  BY <1>1, <1>2, SMT

(* word32 of four bytes. *)
LEMMA WordOfBytes ==
  ASSUME NEW s, NEW o \in Int, NEW x \in Int, NEW y \in Int, NEW z \in Int, NEW w \in Int,
         StandsAt(s, o, <<x>> \o (<<y>> \o <<z, w>>))
  PROVE  Sec!Word32(s, o) = 256 * (256 * (256 * x + y) + z) + w
<1>1. Bytes(<<x>>, 1) /\ Bytes(<<y>>, 1) /\ Bytes(<<z, w>>, 2)
  BY DEF Bytes
<1>2. Bytes(<<y>> \o <<z, w>>, 1 + 2)
  BY <1>1, Joined
<1>3. StandsAt(s, o, <<x>>) /\ StandsAt(s, o + 1, <<y>> \o <<z, w>>)
  BY <1>1, <1>2, Split
<1>4. StandsAt(s, o + 1, <<y>>) /\ StandsAt(s, (o + 1) + 1, <<z, w>>)
  <2> DEFINE m == o + 1
             p == <<y>>
             q == <<z, w>>
  <2>1. m \in Int /\ StandsAt(s, m, p \o q)
    BY <1>3
  <2>2. Bytes(p, 1) /\ Bytes(q, 2)
    BY <1>1
  <2> HIDE DEF m, p, q
  <2>3. StandsAt(s, m, p) /\ StandsAt(s, m + 1, q)
    BY <2>1, <2>2, Split
  <2> QED
    BY <2>3 DEF m, p, q
<1>5. Sec!Word8(s, o) = x /\ Sec!Word8(s, o + 1) = y
  BY <1>3, <1>4, ByteStands
<1>6. Sec!Word8(s, o + 2) = z /\ Sec!Word8(s, o + 3) = w
  <2>1. Len(<<z, w>>) = 2 /\ <<z, w>>[1] = z /\ <<z, w>>[2] = w
    OBVIOUS
  <2>2. s[((o + 1) + 1) + 1] = z /\ s[((o + 1) + 1) + 2] = w
    BY <1>4, <2>1 DEF StandsAt
  <2> QED
    BY <2>2 DEF Sec!Word8
<1>7. Sec!Word16(s, o + 1) = y * 256 + z
  <2>1. (o + 1) + 1 = o + 2
    OBVIOUS
  <2> QED
    BY <1>5, <1>6, <2>1 DEF Sec!Word16
<1>8. Sec!Word24(s, o) = x * 65536 + (y * 256 + z)
  BY <1>5, <1>7, SMT DEF Sec!Word24
<1>9. Sec!Word32(s, o) = (x * 65536 + (y * 256 + z)) * 256 + w
  BY <1>6, <1>8, SMT DEF Sec!Word32
<1> QED
  BY <1>9, SMT

(* Four bytes are read as the number that was written. *)
LEMMA Read32 ==
  ASSUME NEW s, NEW o \in Int, NEW v, FitsWord32(v), StandsAt(s, o, Sec!Put32(v))
  PROVE  Sec!Word32(s, o) = v
<1> DEFINE a == (v \div 16777216) % 256
           b == (v \div 65536) % 256
           c == (v \div 256) % 256
           d == v % 256
<1> v \in Nat
  BY DEF FitsWord32
<1>1. a \in Int /\ b \in Int /\ c \in Int /\ d \in Int
  BY SMT
<1>2. 256 * (256 * (256 * a + b) + c) + d = v
  BY FourDigits, SMT
<1>3. StandsAt(s, o, <<a>> \o (<<b>> \o <<c, d>>))
  BY SMT DEF Sec!Put32, Sec!Put24, Sec!Put16
<1> HIDE DEF a, b, c, d
<1>4. Sec!Word32(s, o) = 256 * (256 * (256 * a + b) + c) + d
  BY <1>1, <1>3, WordOfBytes, SMT
<1> QED
  BY <1>2, <1>4, SMT

(* A descriptor's payload follows its tag and length. *)
LEMMA DescriptorStands ==
  ASSUME NEW s, NEW o \in Int, NEW tag \in Nat, NEW b, NEW n \in Nat, Bytes(b, n),
         StandsAt(s, o, Sec!Descriptor(tag, b))
  PROVE  StandsAt(s, o + 2, b)
<1>1. Bytes(Sec!Put8(tag), 1) /\ Bytes(Sec!Put8(n), 1)
  BY PutBytes
<1>2. StandsAt(s, o, Sec!Put8(tag) \o (Sec!Put8(n) \o b))
  BY DEF Bytes, Sec!Descriptor, Sec!Loop8
<1>3. Bytes(Sec!Put8(n) \o b, 1 + n)
  BY <1>1, Joined
<1>4. StandsAt(s, o + 1, Sec!Put8(n) \o b)
  BY <1>1, <1>2, <1>3, Split
<1>5. o + 1 \in Int /\ (o + 1) + 1 = o + 2
  OBVIOUS
<1> QED
  BY <1>1, <1>4, <1>5, Split

(* Every terrestrial_delivery_system_descriptor there can be. *)
IsTerrestrial(d) ==
  /\ d \in [system : {"T"}, frequency : Nat, bandwidth : 0 .. 7, constellation : 0 .. 3,
             hierarchy : 0 .. 3, hp : 0 .. 7, lp : 0 .. 7, guard : 0 .. 3, mode : 0 .. 3]
  /\ FitsWord32(d.frequency)

(* The bit fields of its three packed bytes. *)
LEMMA TerrestrialBits ==
  ASSUME NEW d, IsTerrestrial(d)
  PROVE  LET b == d.bandwidth * 32 + 31
             c == d.constellation * 64 + d.hierarchy * 8 + d.hp
             l == d.lp * 32 + d.guard * 8 + d.mode * 2
         IN  /\ b \in 0 .. 255 /\ c \in 0 .. 255 /\ l \in 0 .. 255
             /\ Sec!Bits(b, 5, 3) = d.bandwidth
             /\ Sec!Bits(c, 6, 2) = d.constellation /\ Sec!Bits(c, 3, 2) = d.hierarchy
             /\ Sec!Bits(c, 0, 3) = d.hp
             /\ Sec!Bits(l, 5, 3) = d.lp /\ Sec!Bits(l, 3, 2) = d.guard
             /\ Sec!Bits(l, 1, 2) = d.mode
<1>1. ASSUME NEW b \in 0 .. 7
      PROVE  b * 32 + 31 \in 0 .. 255 /\ Sec!Bits(b * 32 + 31, 5, 3) = b
  BY DEF Sec!Bits
<1>2. ASSUME NEW x \in 0 .. 3, NEW y \in 0 .. 3, NEW z \in 0 .. 7
      PROVE  LET c == x * 64 + y * 8 + z
             IN  c \in 0 .. 255 /\ Sec!Bits(c, 6, 2) = x /\ Sec!Bits(c, 3, 2) = y /\ Sec!Bits(c, 0, 3) = z
  BY DEF Sec!Bits
<1>3. ASSUME NEW x \in 0 .. 7, NEW y \in 0 .. 3, NEW z \in 0 .. 3
      PROVE  LET l == x * 32 + y * 8 + z * 2
             IN  l \in 0 .. 255 /\ Sec!Bits(l, 5, 3) = x /\ Sec!Bits(l, 3, 2) = y /\ Sec!Bits(l, 1, 2) = z
  BY DEF Sec!Bits
<1>4. /\ d.bandwidth \in 0 .. 7 /\ d.constellation \in 0 .. 3 /\ d.hierarchy \in 0 .. 3
      /\ d.hp \in 0 .. 7 /\ d.lp \in 0 .. 7 /\ d.guard \in 0 .. 3 /\ d.mode \in 0 .. 3
  BY DEF IsTerrestrial
<1> QED
  BY <1>1, <1>2, <1>3, <1>4

(* A terrestrial delivery system is read as it was written: frequency,      *)
(* bandwidth, constellation, hierarchy, both code rates, guard interval and *)
(* mode, for every value of each and wherever in a section the descriptor   *)
(* stands (terr-delsys-descriptor.h on section-data.h).                     *)
THEOREM TerrestrialReadAsWritten ==
  ASSUME NEW s, NEW o \in Nat, NEW d, IsTerrestrial(d), StandsAt(s, o, Sec!PutDelivery(d))
  PROVE  Sec!Terrestrial(s, o) = d
<1> DEFINE b == d.bandwidth * 32 + 31
           c == d.constellation * 64 + d.hierarchy * 8 + d.hp
           l == d.lp * 32 + d.guard * 8 + d.mode * 2
           f == Sec!Put32(d.frequency)
           z == Sec!Put32(4294967 * 256)
           p2 == f \o Sec!Put8(b)
           p3 == p2 \o Sec!Put8(c)
           p4 == p3 \o Sec!Put8(l)
<1>1. StandsAt(s, o, Sec!Descriptor(90, p4 \o z))
  BY SMT DEF IsTerrestrial, Sec!PutDelivery, Sec!Tag
<1>2. /\ b \in 0 .. 255 /\ c \in 0 .. 255 /\ l \in 0 .. 255
      /\ Sec!Bits(b, 5, 3) = d.bandwidth
      /\ Sec!Bits(c, 6, 2) = d.constellation /\ Sec!Bits(c, 3, 2) = d.hierarchy
      /\ Sec!Bits(c, 0, 3) = d.hp
      /\ Sec!Bits(l, 5, 3) = d.lp /\ Sec!Bits(l, 3, 2) = d.guard
      /\ Sec!Bits(l, 1, 2) = d.mode
  BY TerrestrialBits
<1>3. Bytes(f, 4)
  BY PutBytes DEF IsTerrestrial, FitsWord32
<1>4. Bytes(z, 4)
  <2>1. 4294967 * 256 \in Nat
    BY SMT
  <2> QED
    BY <2>1, PutBytes, SMT
<1> HIDE DEF b, c, l, f, z
<1>5. Bytes(Sec!Put8(b), 1) /\ Bytes(Sec!Put8(c), 1) /\ Bytes(Sec!Put8(l), 1)
  BY <1>2, PutBytes
<1>6. Bytes(p2, 5)
  BY <1>3, <1>5, Joined
<1> HIDE DEF p2
<1>7. Bytes(p3, 6)
  BY <1>5, <1>6, Joined
<1> HIDE DEF p3
<1>8. Bytes(p4, 7)
  BY <1>5, <1>7, Joined
<1> HIDE DEF p4
<1>9. Bytes(p4 \o z, 11)
  BY <1>4, <1>8, Joined
<1> DEFINE m == o + 2
<1>10. m \in Int /\ StandsAt(s, m, p4 \o z)
  BY <1>1, <1>9, DescriptorStands
<1>11. m + 4 = o + 6 /\ m + 5 = o + 7 /\ m + 6 = o + 8
  OBVIOUS
<1> HIDE DEF m
<1>12. StandsAt(s, m, p4)
  BY <1>4, <1>8, <1>10, Split
<1>13. StandsAt(s, m, p3) /\ StandsAt(s, m + 6, Sec!Put8(l))
  BY <1>5, <1>7, <1>10, <1>12, Split DEF p4
<1>14. StandsAt(s, m, p2) /\ StandsAt(s, m + 5, Sec!Put8(c))
  BY <1>5, <1>6, <1>10, <1>13, Split DEF p3
<1>15. StandsAt(s, m, f) /\ StandsAt(s, m + 4, Sec!Put8(b))
  BY <1>3, <1>5, <1>10, <1>14, Split DEF p2
<1>17. Sec!Word8(s, o + 6) = b /\ Sec!Word8(s, o + 7) = c /\ Sec!Word8(s, o + 8) = l
  <2>1. m + 4 \in Int /\ m + 5 \in Int /\ m + 6 \in Int
    BY <1>10
  <2>2. Sec!Word8(s, m + 4) = b /\ Sec!Word8(s, m + 5) = c /\ Sec!Word8(s, m + 6) = l
    BY <1>2, <1>13, <1>14, <1>15, <2>1, Read8
  <2> QED
    BY <1>11, <2>2
<1>18. Sec!Word32(s, o + 2) = d.frequency
  BY <1>10, <1>15, Read32 DEF f, m, IsTerrestrial
<1>19. Sec!Terrestrial(s, o) =
         [system |-> "T", frequency |-> d.frequency, bandwidth |-> d.bandwidth,
          constellation |-> d.constellation, hierarchy |-> d.hierarchy, hp |-> d.hp,
          lp |-> d.lp, guard |-> d.guard, mode |-> d.mode]
  BY <1>2, <1>17, <1>18 DEF Sec!Terrestrial
<1> QED
  BY <1>19 DEF IsTerrestrial

(* bcd8 of two digits in a byte, and the decimal digits of a number. *)
LEMMA PairOfDigits ==
  ASSUME NEW v \in Nat
  PROVE  /\ Bytes(Sec!PutBcd8(v), 1)
         /\ \A s : \A o \in Int : StandsAt(s, o, Sec!PutBcd8(v)) => Sec!Bcd8(s, o) = v % 100
<1> DEFINE w == ((v \div 10) % 10) * 16 + (v % 10)
<1>1. /\ w \in Nat /\ w \div 16 = (v \div 10) % 10 /\ w % 16 = v % 10
      /\ 10 * ((v \div 10) % 10) + (v % 10) = v % 100
  BY SMT
<1>2. Sec!PutBcd8(v) = <<w>>
  BY DEF Sec!PutBcd8
<1> HIDE DEF w
<1>3. ASSUME NEW s, NEW o \in Int, StandsAt(s, o, <<w>>)
      PROVE  Sec!Bcd8(s, o) = (w \div 16) * 10 + (w % 16)
  BY <1>3, ByteStands DEF Sec!Bcd8
<1>4. ASSUME NEW q \in Int, NEW r \in Int, q = (v \div 10) % 10, r = v % 10
      PROVE  q * 10 + r = v % 100
  BY <1>1, <1>4, SMT
<1>5. (v \div 10) % 10 \in Int /\ v % 10 \in Int
  OBVIOUS
<1>6. (w \div 16) * 10 + (w % 16) = v % 100
  BY <1>1, <1>4, <1>5
<1> QED
  BY <1>1, <1>2, <1>3, <1>6, OneByte

(* Pairs of decimal digits make a number of eight digits again. *)
LEMMA EightDigits ==
  ASSUME NEW v \in Nat, v < 100000000
  PROVE  100 * (100 * (100 * ((v \div 1000000) % 100) + ((v \div 10000) % 100))
                + ((v \div 100) % 100)) + (v % 100) = v
<1>1. (v \div 1000000) % 100 = v \div 1000000
  BY SMT
<1>2. /\ 100 * (v \div 100) + (v % 100) = v
      /\ 100 * (v \div 10000) + ((v \div 100) % 100) = v \div 100
      /\ 100 * (v \div 1000000) + ((v \div 10000) % 100) = v \div 10000
  BY SMT
<1> QED
  BY <1>1, <1>2, SMT

(* And a number of seven digits, with a nibble to spare. *)
LEMMA SevenDigits ==
  ASSUME NEW v \in Nat, v < 10000000
  PROVE  100 * (100 * (100 * ((v \div 100000) % 100) + ((v \div 1000) % 100))
                + ((v \div 10) % 100)) + 10 * (v % 10) = 10 * v
<1>1. (v \div 100000) % 100 = v \div 100000
  BY SMT
<1>2. /\ 10 * (v \div 10) + (v % 10) = v
      /\ 100 * (v \div 1000) + ((v \div 10) % 100) = v \div 10
      /\ 100 * (v \div 100000) + ((v \div 1000) % 100) = v \div 1000
  BY SMT
<1> QED
  BY <1>1, <1>2, SMT

(* Every satellite_delivery_system_descriptor: eight and seven digits, and *)
(* any code of the inner error correction. *)
IsSatellite(d) ==
  /\ d \in [system : {"S"}, frequency : Nat, polarization : 0 .. 3, rolloff : 0 .. 3,
             s2 : 0 .. 1, modulation : 0 .. 3, symbolRate : Nat, fec : 0 .. 15]
  /\ d.frequency < 100000000 /\ d.symbolRate < 10000000

(* The bit fields of its packed bytes. *)
LEMMA SatelliteBits ==
  ASSUME NEW p \in 0 .. 3, NEW r \in 0 .. 3, NEW x \in 0 .. 1, NEW m \in 0 .. 3
  PROVE  LET b == 128 + p * 32 + r * 8 + x * 4 + m
         IN  /\ b \in 0 .. 255 /\ Sec!Bits(b, 5, 2) = p /\ Sec!Bits(b, 3, 2) = r
             /\ Sec!Bits(b, 2, 1) = x /\ Sec!Bits(b, 0, 2) = m
BY DEF Sec!Bits

(* The symbol rate is what is left of the last byte without the code. *)
LEMMA RateAndCode ==
  ASSUME NEW v \in Nat, NEW c \in 0 .. 15
  PROVE  LET b == (v % 10) * 16 + c
         IN  b \in 0 .. 255 /\ b \div 16 = v % 10 /\ b % 16 = c /\ Sec!Bits(b, 0, 4) = c
<1>1. ASSUME NEW r \in 0 .. 9
      PROVE  LET b == r * 16 + c
             IN  b \in 0 .. 255 /\ b \div 16 = r /\ b % 16 = c /\ Sec!Bits(b, 0, 4) = c
  BY <1>1 DEF Sec!Bits
<1>2. v % 10 \in 0 .. 9
  OBVIOUS
<1> QED
  BY <1>1, <1>2

(* bcd32: eight digits, however far into the section. *)
LEMMA PutBcd32Bytes ==
  ASSUME NEW v \in Nat
  PROVE  /\ v \div 1000000 \in Nat /\ v \div 10000 \in Nat /\ v \div 100 \in Nat
         /\ Bytes(Sec!PutBcd32(v), 4)
<1>1. v \div 1000000 \in Nat /\ v \div 10000 \in Nat /\ v \div 100 \in Nat
  BY SMT
<1> DEFINE a == Sec!PutBcd8(v \div 1000000)
           b == Sec!PutBcd8(v \div 10000)
           c == Sec!PutBcd8(v \div 100)
           e == Sec!PutBcd8(v)
           q2 == a \o b
           q3 == q2 \o c
<1>2. Bytes(a, 1) /\ Bytes(b, 1) /\ Bytes(c, 1) /\ Bytes(e, 1)
  BY <1>1, PairOfDigits
<1>3. Sec!PutBcd32(v) = q3 \o e
  BY SMT DEF Sec!PutBcd32
<1> HIDE DEF a, b, c, e
<1>4. Bytes(q2, 2)
  BY <1>2, Joined
<1> HIDE DEF q2
<1>5. Bytes(q3, 3)
  BY <1>2, <1>4, Joined
<1> HIDE DEF q3
<1>6. Bytes(q3 \o e, 4)
  BY <1>2, <1>5, Joined
<1> QED
  BY <1>1, <1>3, <1>6, SMT

(* Eight binary coded digits are read as the number that was written. *)
LEMMA ReadBcd32 ==
  ASSUME NEW s, NEW o \in Int, NEW v \in Nat, v < 100000000, StandsAt(s, o, Sec!PutBcd32(v))
  PROVE  Sec!Bcd32(s, o) = v
<1>1. v \div 1000000 \in Nat /\ v \div 10000 \in Nat /\ v \div 100 \in Nat
  BY SMT
<1> DEFINE a == Sec!PutBcd8(v \div 1000000)
           b == Sec!PutBcd8(v \div 10000)
           c == Sec!PutBcd8(v \div 100)
           e == Sec!PutBcd8(v)
           x == (v \div 1000000) % 100
           y == (v \div 10000) % 100
           z == (v \div 100) % 100
           w == v % 100
           q2 == a \o b
           q3 == q2 \o c
<1>2. /\ Bytes(a, 1) /\ Bytes(b, 1) /\ Bytes(c, 1) /\ Bytes(e, 1)
      /\ \A i \in Int : StandsAt(s, i, a) => Sec!Bcd8(s, i) = x
      /\ \A i \in Int : StandsAt(s, i, b) => Sec!Bcd8(s, i) = y
      /\ \A i \in Int : StandsAt(s, i, c) => Sec!Bcd8(s, i) = z
      /\ \A i \in Int : StandsAt(s, i, e) => Sec!Bcd8(s, i) = w
  BY <1>1, PairOfDigits, SMT
<1>3. x \in Int /\ y \in Int /\ z \in Int /\ w \in Int
  BY SMT
<1>4. 100 * (100 * (100 * x + y) + z) + w = v
  BY EightDigits, SMT
<1>5. StandsAt(s, o, q3 \o e)
  BY SMT DEF Sec!PutBcd32
<1> HIDE DEF a, b, c, e, x, y, z, w
<1>6. Bytes(q2, 2)
  BY <1>2, Joined, SMT
<1> HIDE DEF q2
<1>7. Bytes(q3, 3)
  BY <1>2, <1>6, Joined, SMT
<1> HIDE DEF q3
<1>8. StandsAt(s, o, q3) /\ StandsAt(s, o + 3, e)
  BY <1>2, <1>5, <1>7, Split, SMT
<1>9. StandsAt(s, o, q2) /\ StandsAt(s, o + 2, c)
  BY <1>2, <1>6, <1>8, Split, SMT DEF q3
<1>10. StandsAt(s, o, a) /\ StandsAt(s, o + 1, b)
  BY <1>2, <1>9, Split, SMT DEF q2
<1>11. /\ Sec!Bcd8(s, o) = x /\ Sec!Bcd8(s, o + 1) = y
       /\ Sec!Bcd8(s, o + 2) = z /\ Sec!Bcd8(s, o + 3) = w
  <2>1. o + 1 \in Int /\ o + 2 \in Int /\ o + 3 \in Int
    BY SMT
  <2> QED
    BY <1>2, <1>8, <1>9, <1>10, <2>1, SMT
<1>12. Sec!Bcd32(s, o) = ((x * 100 + y) * 100 + z) * 100 + w
  BY <1>11, SMT DEF Sec!Bcd32
<1> QED
  BY <1>3, <1>4, <1>12, SMT

(* A satellite delivery system is read as it was written, but for one       *)
(* thing: symbol_rate() takes the code of the inner error correction, which *)
(* shares the last byte, for a decimal digit and divides it away, and a     *)
(* code above nine carries, so that a rate without convolutional coding     *)
(* (code 15) is read as one unit more (sat-delsys-descriptor.h).            *)
THEOREM SatelliteReadAsWritten ==
  ASSUME NEW s, NEW o \in Nat, NEW d, IsSatellite(d), StandsAt(s, o, Sec!PutDelivery(d))
  PROVE  Sec!Satellite(s, o) = [d EXCEPT !.symbolRate = d.symbolRate + (d.fec \div 10)]
<1> DEFINE rate == d.symbolRate
           g == 128 + d.polarization * 32 + d.rolloff * 8 + d.s2 * 4 + d.modulation
           h == (rate % 10) * 16 + d.fec
           f == Sec!PutBcd32(d.frequency)
           pos == Sec!Put16(642)
           b1 == Sec!PutBcd8(rate \div 100000)
           b2 == Sec!PutBcd8(rate \div 1000)
           b3 == Sec!PutBcd8(rate \div 10)
           x == (rate \div 100000) % 100
           y == (rate \div 1000) % 100
           z == (rate \div 10) % 100
           p1 == f \o pos
           p2 == p1 \o Sec!Put8(g)
           p3 == p2 \o b1
           p4 == p3 \o b2
           p5 == p4 \o b3
           p6 == p5 \o Sec!Put8(h)
<1>1. /\ d.frequency \in Nat /\ d.frequency < 100000000 /\ rate \in Nat /\ d.fec \in 0 .. 15
      /\ d.polarization \in 0 .. 3 /\ d.rolloff \in 0 .. 3 /\ d.s2 \in 0 .. 1
      /\ d.modulation \in 0 .. 3
  BY SMT DEF IsSatellite
<1>2. StandsAt(s, o, Sec!Descriptor(67, p6))
  BY SMT DEF IsSatellite, Sec!PutDelivery, Sec!Tag
<1>3. /\ g \in 0 .. 255 /\ Sec!Bits(g, 5, 2) = d.polarization /\ Sec!Bits(g, 3, 2) = d.rolloff
      /\ Sec!Bits(g, 2, 1) = d.s2 /\ Sec!Bits(g, 0, 2) = d.modulation
  BY <1>1, SatelliteBits, SMT
<1>4. h \in 0 .. 255 /\ h \div 16 = rate % 10 /\ h % 16 = d.fec /\ Sec!Bits(h, 0, 4) = d.fec
  BY <1>1, RateAndCode, SMT
<1>5. 100 * (100 * (100 * x + y) + z) + 10 * (rate % 10) = 10 * rate
  BY SevenDigits, SMT DEF IsSatellite
<1>6. /\ rate \div 100000 \in Nat /\ rate \div 1000 \in Nat /\ rate \div 10 \in Nat
      /\ x \in Int /\ y \in Int /\ z \in Int
  BY <1>1, SMT
<1>7. /\ Bytes(b1, 1) /\ Bytes(b2, 1) /\ Bytes(b3, 1)
      /\ \A i \in Int : StandsAt(s, i, b1) => Sec!Bcd8(s, i) = x
      /\ \A i \in Int : StandsAt(s, i, b2) => Sec!Bcd8(s, i) = y
      /\ \A i \in Int : StandsAt(s, i, b3) => Sec!Bcd8(s, i) = z
  BY <1>6, PairOfDigits, SMT
<1>8. Bytes(f, 4) /\ Bytes(pos, 2)
  BY <1>1, PutBcd32Bytes, PutBytes, SMT
<1>9. \A i \in Int : StandsAt(s, i, f) => Sec!Bcd32(s, i) = d.frequency
  BY <1>1, ReadBcd32, SMT
<1> HIDE DEF g, h, f, pos, b1, b2, b3, x, y, z
<1>10. Bytes(Sec!Put8(g), 1) /\ Bytes(Sec!Put8(h), 1)
  BY <1>3, <1>4, PutBytes, SMT
<1>11. Bytes(p1, 6)
  BY <1>8, Joined, SMT
<1> HIDE DEF p1
<1>12. Bytes(p2, 7)
  BY <1>10, <1>11, Joined, SMT
<1> HIDE DEF p2
<1>13. Bytes(p3, 8)
  BY <1>7, <1>12, Joined, SMT
<1> HIDE DEF p3
<1>14. Bytes(p4, 9)
  BY <1>7, <1>13, Joined, SMT
<1> HIDE DEF p4
<1>15. Bytes(p5, 10)
  BY <1>7, <1>14, Joined, SMT
<1> HIDE DEF p5
<1>16. Bytes(p6, 11)
  BY <1>10, <1>15, Joined, SMT
<1> DEFINE m == o + 2
<1>17. m \in Int /\ StandsAt(s, m, p6)
  BY <1>2, <1>16, DescriptorStands, SMT
<1>18. /\ o + 8 = m + 6 /\ o + 9 = m + 7 /\ o + 10 = m + 8 /\ o + 11 = m + 9 /\ o + 12 = m + 10
       /\ (o + 9) + 1 = m + 8 /\ (o + 9) + 2 = m + 9 /\ (o + 9) + 3 = m + 10
       /\ m + 6 \in Int /\ m + 7 \in Int /\ m + 8 \in Int /\ m + 9 \in Int /\ m + 10 \in Int
  BY SMT
<1> HIDE DEF p6, m
<1>19. StandsAt(s, m, p5) /\ StandsAt(s, m + 10, Sec!Put8(h))
  BY <1>10, <1>15, <1>17, Split, SMT DEF p6
<1>20. StandsAt(s, m, p4) /\ StandsAt(s, m + 9, b3)
  BY <1>7, <1>14, <1>17, <1>19, Split, SMT DEF p5
<1>21. StandsAt(s, m, p3) /\ StandsAt(s, m + 8, b2)
  BY <1>7, <1>13, <1>17, <1>20, Split, SMT DEF p4
<1>22. StandsAt(s, m, p2) /\ StandsAt(s, m + 7, b1)
  BY <1>7, <1>12, <1>17, <1>21, Split, SMT DEF p3
<1>23. StandsAt(s, m, p1) /\ StandsAt(s, m + 6, Sec!Put8(g))
  BY <1>10, <1>11, <1>17, <1>22, Split, SMT DEF p2
<1>24. StandsAt(s, m, f)
  BY <1>8, <1>17, <1>23, Split, SMT DEF p1
<1>25. Sec!Word8(s, o + 8) = g /\ Sec!Word8(s, o + 12) = h
  <2>1. Sec!Word8(s, m + 6) = g /\ Sec!Word8(s, m + 10) = h
    BY <1>3, <1>4, <1>18, <1>19, <1>23, Read8, SMT
  <2> QED
    BY <1>18, <2>1, SMT
<1>26. Sec!Bcd32(s, o + 2) = d.frequency
  BY <1>9, <1>17, <1>24, SMT DEF m
<1>27. Sec!Bcd32(s, o + 9) = 10 * rate + d.fec
  <2>1. Sec!Bcd8(s, m + 7) = x /\ Sec!Bcd8(s, m + 8) = y /\ Sec!Bcd8(s, m + 9) = z
    BY <1>7, <1>18, <1>20, <1>21, <1>22, SMT
  <2>2. Sec!Bcd8(s, o + 12) = (rate % 10) * 10 + d.fec
    BY <1>4, <1>25, SMT DEF Sec!Bcd8
  <2>3. Sec!Bcd32(s, o + 9) = ((x * 100 + y) * 100 + z) * 100 + ((rate % 10) * 10 + d.fec)
    <3>1. /\ Sec!Bcd8(s, o + 9) = x /\ Sec!Bcd8(s, (o + 9) + 1) = y
          /\ Sec!Bcd8(s, (o + 9) + 2) = z
          /\ Sec!Bcd8(s, (o + 9) + 3) = (rate % 10) * 10 + d.fec
      BY <1>18, <2>1, <2>2, SMT
    <3> QED
      BY <3>1, SMT DEF Sec!Bcd32
  <2>4. rate % 10 \in Int /\ d.fec \in Int
    BY <1>1, SMT
  <2> HIDE DEF rate
  <2> QED
    BY <1>5, <1>6, <2>3, <2>4, SMT
<1>28. (10 * rate + d.fec) \div 10 = rate + (d.fec \div 10)
  BY <1>1, SMT
<1>29. Sec!Satellite(s, o) =
         [system |-> "S", frequency |-> d.frequency, polarization |-> d.polarization,
          rolloff |-> d.rolloff, s2 |-> d.s2, modulation |-> d.modulation,
          symbolRate |-> rate + (d.fec \div 10), fec |-> d.fec]
  BY <1>3, <1>4, <1>25, <1>26, <1>27, <1>28, SMT DEF Sec!Satellite
<1> QED
  BY <1>29, SMT DEF IsSatellite
-----------------------------------------------------------------------------
(* Walks.  A walk and the joining of what it yields recur over bytes and    *)
(* items; a claim about each of their steps holds because the steps it      *)
(* does not hold of, if there were any, would have a least one.             *)

(* Numbers have a least one among them, and so a claim about numbers a      *)
(* least exception.                                                         *)
LEMMA Least ==
  ASSUME NEW T \in SUBSET Nat, T # {}
  PROVE  \E x \in T : \A y \in T : x <= y
<1> DEFINE R == {ss \in Nat \X Nat : ss[1] < ss[2]}
<1>1. IsWellFoundedOn(R, Nat)
  BY NatLessThanWellFounded, Zenon DEF OpToRel
<1>2. \A x, y \in Nat : <<y, x>> \in R <=> y < x
  OBVIOUS
<1> HIDE DEF R
<1>3. PICK x \in T : \A y \in T : ~ (<<y, x>> \in R)
  BY <1>1, WFMin, Zenon
<1>4. \A y \in T : ~ (y < x)
  BY <1>2, <1>3
<1> QED
  BY <1>4

(* The sequences that are flattened into one, up to each of them. *)
LEMMA Prefixes ==
  ASSUME NEW V, NEW seqs \in Seq(Seq(V)), NEW n \in 0 .. Len(seqs)
  PROVE  \E f \in [0 .. n -> Seq(V)] :
           f[0] = << >> /\ \A i \in 1 .. n : f[i] = f[i - 1] \o seqs[i]
<1> DEFINE P(m) == \E f \in [0 .. m -> Seq(V)] :
                     f[0] = << >> /\ \A i \in 1 .. m : f[i] = f[i - 1] \o seqs[i]
           T == {m \in 0 .. Len(seqs) : ~ P(m)}
<1>1. P(0)
  <2> DEFINE e == << >>
             f == [i \in 0 .. 0 |-> e]
  <2>1. e \in Seq(V)
    OBVIOUS
  <2>2. e = << >>
    OBVIOUS
  <2> HIDE DEF e
  <2>3. f \in [0 .. 0 -> Seq(V)] /\ f[0] = e
    BY <2>1
  <2> HIDE DEF f
  <2>4. \A i \in 1 .. 0 : f[i] = f[i - 1] \o seqs[i]
    OBVIOUS
  <2> QED
    BY <2>2, <2>3, <2>4
<1>2. ASSUME NEW m \in 0 .. Len(seqs), m + 1 \in 0 .. Len(seqs), P(m)
      PROVE  P(m + 1)
  <2>1. PICK f \in [0 .. m -> Seq(V)] :
          f[0] = << >> /\ \A i \in 1 .. m : f[i] = f[i - 1] \o seqs[i]
    BY <1>2
  <2> DEFINE g == [i \in 0 .. m + 1 |-> IF i = m + 1 THEN f[m] \o seqs[m + 1] ELSE f[i]]
  <2>2. f[m] \in Seq(V) /\ seqs[m + 1] \in Seq(V)
    BY <1>2
  <2>3. f[m] \o seqs[m + 1] \in Seq(V)
    BY <2>2
  <2>4. g \in [0 .. m + 1 -> Seq(V)]
    BY <2>3
  <2>5. g[0] = << >>
    BY <2>1
  <2>6. ASSUME NEW i \in 1 .. m + 1 PROVE g[i] = g[i - 1] \o seqs[i]
    <3>0. /\ i \in 0 .. m + 1 /\ i - 1 \in 0 .. m + 1
          /\ g[i] = IF i = m + 1 THEN f[m] \o seqs[m + 1] ELSE f[i]
          /\ g[i - 1] = f[i - 1]
      OBVIOUS
    <3> HIDE DEF g
    <3>1. CASE i = m + 1
      <4>1. i - 1 = m
        BY <3>1
      <4> QED
        BY <3>0, <3>1, <4>1
    <3>2. CASE i # m + 1
      <4>1. i \in 1 .. m
        BY <3>2
      <4> QED
        BY <2>1, <3>0, <3>2, <4>1
    <3> QED
      BY <3>1, <3>2
  <2> QED
    BY <2>4, <2>5, <2>6
<1> HIDE DEF P
<1>3. T = {}
  <2> SUFFICES ASSUME T # {} PROVE FALSE
    OBVIOUS
  <2>1. T \in SUBSET Nat
    OBVIOUS
  <2>2. PICK m \in T : \A y \in T : m <= y
    BY <2>1, Least
  <2>3. m # 0 /\ m \in 0 .. Len(seqs)
    BY <1>1, <2>2
  <2>4. m - 1 \in 0 .. Len(seqs) /\ (m - 1) + 1 = m /\ m - 1 \notin T
    BY <2>2, <2>3
  <2>5. P(m)
    BY <1>2, <2>3, <2>4
  <2> QED
    BY <2>2, <2>5
<1>4. P(n)
  BY <1>3
<1> QED
  BY <1>4 DEF P

(* What FlattenSeq of the community modules does, step by step. *)
LEMMA FlattenSteps ==
  ASSUME NEW V, NEW seqs \in Seq(Seq(V))
  PROVE  \E f \in [0 .. Len(seqs) -> Seq(V)] :
           /\ f[0] = << >> /\ \A i \in 1 .. Len(seqs) : f[i] = f[i - 1] \o seqs[i]
           /\ Sec!FlattenSeq(seqs) = f[Len(seqs)]
<1> DEFINE n == Len(seqs)
           steps(h) == [i \in 1 .. n |-> IF i = 1 THEN seqs[i] ELSE h[i - 1] \o seqs[i]]
           flatten == CHOOSE h : h = steps(h)
<1>1. PICK f \in [0 .. n -> Seq(V)] :
        f[0] = << >> /\ \A i \in 1 .. n : f[i] = f[i - 1] \o seqs[i]
  <2>1. Len(seqs) \in 0 .. Len(seqs)
    OBVIOUS
  <2> QED
    BY <2>1, Prefixes
<1>2. CASE n = 0
  <2>1. seqs = << >>
    BY <1>2
  <2>2. Sec!FlattenSeq(seqs) = seqs
    BY <1>2 DEF Sec!FlattenSeq
  <2> QED
    BY <1>1, <1>2, <2>1, <2>2
<1>3. CASE n # 0
  <2>0. f[1] = seqs[1]
    <3>1. 1 \in 1 .. n /\ 1 - 1 = 0
      BY <1>3
    <3>2. f[1] = f[0] \o seqs[1]
      BY <1>1, <3>1
    <3>3. seqs[1] \in Seq(V)
      BY <3>1
    <3>4. << >> \o seqs[1] = seqs[1]
      BY <3>3
    <3> QED
      BY <1>1, <3>2, <3>4
  <2>1. Sec!FlattenSeq(seqs) = flatten[n]
    BY <1>3 DEF Sec!FlattenSeq
  <2> DEFINE h == [i \in 1 .. n |-> f[i]]
  <2>2. h = steps(h)
    <3>1. ASSUME NEW i \in 1 .. n
          PROVE  f[i] = IF i = 1 THEN seqs[i] ELSE h[i - 1] \o seqs[i]
      <4>1. CASE i = 1
        BY <2>0, <4>1
      <4>2. CASE i # 1
        <5>1. i - 1 \in 1 .. n
          BY <4>2
        <5> QED
          BY <1>1, <4>2, <5>1
      <4> QED
        BY <4>1, <4>2
    <3> QED
      BY <3>1
  <2>3. flatten = steps(flatten)
    BY <2>2
  <2> HIDE DEF flatten
  <2> DEFINE T == {i \in 1 .. n : flatten[i] # f[i]}
  <2>4. T = {}
    <3> SUFFICES ASSUME T # {} PROVE FALSE
      OBVIOUS
    <3>1. T \in SUBSET Nat
      OBVIOUS
    <3>2. PICK i \in T : \A y \in T : i <= y
      BY <3>1, Least
    <3>3. i \in 1 .. n /\ flatten[i] # f[i]
      BY <3>2
    <3>4. flatten[i] = IF i = 1 THEN seqs[i] ELSE flatten[i - 1] \o seqs[i]
      BY <2>3, <3>3
    <3>5. i = 1 \/ flatten[i - 1] = f[i - 1]
      <4>1. CASE i # 1
        <5>1. i - 1 \in 1 .. n /\ ~ (i <= i - 1)
          BY <3>3, <4>1
        <5>2. i - 1 \notin T
          BY <3>2, <5>1
        <5> QED
          BY <5>1, <5>2
      <4> QED
        BY <4>1
    <3>6. f[i] = f[i - 1] \o seqs[i]
      BY <1>1, <3>3
    <3>7. CASE i = 1
      BY <2>0, <3>3, <3>4, <3>7
    <3> QED
      BY <3>3, <3>4, <3>5, <3>6, <3>7
  <2>5. flatten[n] = f[n]
    <3>1. n \in 1 .. n
      BY <1>3
    <3>2. n \notin T
      BY <2>4
    <3> QED
      BY <3>1, <3>2
  <2> QED
    BY <1>1, <2>1, <2>5
<1> QED
  BY <1>2, <1>3

(* A walk over items, told where each begins and the last ends. *)
LEMMA WalkOver ==
  ASSUME NEW n \in Nat, NEW at \in [0 .. n -> Nat], NEW size,
         \A i \in 1 .. n : size[at[i - 1]] = at[i] - at[i - 1] /\ at[i - 1] < at[n],
         n <= at[n] - at[0]
  PROVE  Sec!Walk(at[0], at[n], size) = [i \in 1 .. n |-> at[i - 1]]
<1> DEFINE items(k) == [i \in 1 .. k |-> at[i - 1]]
           upto(k) == [at |-> at[k], items |-> items(k)]
           next(h, k) == IF k = 0 THEN [at |-> at[0], items |-> << >>]
                         ELSE LET was == h[k - 1]
                              IN IF was.at >= at[n] THEN was
                                 ELSE [at |-> was.at + size[was.at],
                                       items |-> Append(was.items, was.at)]
           run == CHOOSE h : h = [k \in Nat |-> next(h, k)]
           g == [k \in Nat |-> upto(IF k <= n THEN k ELSE n)]
           last == IF at[n] > at[0] THEN at[n] - at[0] ELSE 0
<1>1. Sec!Walk(at[0], at[n], size) = run[last].items
  BY DEF Sec!Walk
<1>2. ASSUME NEW k \in Nat PROVE g[k] = next(g, k)
  <2>1. CASE k = 0
    <3>1. items(0) = << >>
      OBVIOUS
    <3> QED
      BY <2>1, <3>1
  <2>2. CASE k \in 1 .. n
    <3>1. k - 1 \in Nat /\ k - 1 <= n /\ k <= n /\ k # 0
      BY <2>2
    <3>2. g[k] = upto(k) /\ g[k - 1] = upto(k - 1)
      BY <3>1
    <3>3. at[k - 1] < at[n] /\ at[k - 1] \in Nat /\ at[k] \in Nat /\ at[n] \in Nat
          /\ at[k - 1] + size[at[k - 1]] = at[k]
      BY <2>2
    <3>4. Append(items(k - 1), at[k - 1]) = items(k)
      <4>1. items(k - 1) \in Seq(Nat) /\ Len(items(k - 1)) = k - 1
        BY <2>2
      <4> QED
        BY <2>2, <4>1
    <3>5. g[k - 1].at = at[k - 1] /\ g[k - 1].items = items(k - 1)
      <4> HIDE DEF g, items
      <4> QED
        BY <3>2
    <3>6. ~ (at[k - 1] >= at[n])
      BY <3>3
    <3>7. next(g, k) = [at |-> g[k - 1].at + size[g[k - 1].at],
                        items |-> Append(g[k - 1].items, g[k - 1].at)]
      <4> HIDE DEF items, g, upto
      <4> QED
        BY <3>1, <3>5, <3>6
    <3>8. next(g, k) = [at |-> at[k], items |-> items(k)]
      <4> HIDE DEF items, g, upto, next
      <4> QED
        BY <3>3, <3>4, <3>5, <3>7
    <3> QED
      BY <3>2, <3>8
  <2>3. CASE k > n
    <3>1. k - 1 \in Nat /\ k # 0 /\ at[n] \in Nat
      BY <2>3
    <3>2. (IF k <= n THEN k ELSE n) = n /\ (IF k - 1 <= n THEN k - 1 ELSE n) = n
      BY <2>3
    <3>3. g[k - 1] = upto(n) /\ g[k] = upto(n)
      <4> HIDE DEF upto
      <4> QED
        BY <3>1, <3>2
    <3>4. g[k - 1].at = at[n]
      BY <3>3
    <3>5. next(g, k) = g[k - 1]
      <4> HIDE DEF items, g, upto
      <4> QED
        BY <3>1, <3>4
    <3> QED
      BY <3>3, <3>5
  <2> QED
    BY <2>1, <2>2, <2>3
<1>3. g = [k \in Nat |-> next(g, k)]
  <2> HIDE DEF next
  <2> QED
    BY <1>2
<1>4. run = [k \in Nat |-> next(run, k)]
  <2> HIDE DEF next
  <2> QED
    BY <1>3
<1> HIDE DEF run
<1> DEFINE T == {k \in Nat : run[k] # g[k]}
<1>5. T = {}
  <2> SUFFICES ASSUME T # {} PROVE FALSE
    OBVIOUS
  <2> T \in SUBSET Nat
    OBVIOUS
  <2>1. PICK k \in T : \A y \in T : k <= y
    BY Least
  <2>2. k \in Nat /\ run[k] # g[k]
    BY <2>1
  <2>3. run[k] = next(run, k)
    <3> HIDE DEF next
    <3> QED
      BY <1>4, <2>2
  <2>4. g[k] = next(g, k)
    BY <1>2, <2>2
  <2>5. k = 0 \/ run[k - 1] = g[k - 1]
    <3> SUFFICES ASSUME k # 0 PROVE run[k - 1] = g[k - 1]
      OBVIOUS
    <3>1. k - 1 \in Nat /\ ~ (k <= k - 1)
      BY <2>2
    <3>2. k - 1 \notin T
      BY <2>1, <3>1
    <3> QED
      BY <3>1, <3>2
  <2> HIDE DEF g
  <2>6. next(run, k) = next(g, k)
    BY <2>2, <2>5
  <2> QED
    BY <2>2, <2>3, <2>4, <2>6
<1>6. last \in Nat /\ (IF last <= n THEN last ELSE n) = n
  <2> DEFINE a == at[0]
             b == at[n]
  <2>1. a \in Nat /\ b \in Nat /\ n <= b - a
    OBVIOUS
  <2>2. last = IF b > a THEN b - a ELSE 0
    OBVIOUS
  <2> HIDE DEF a, b, last
  <2> QED
    BY <2>1, <2>2
<1>7. g[last] = upto(n)
  <2> HIDE DEF upto, last
  <2> QED
    BY <1>6
<1>8. run[last] = g[last]
  <2> HIDE DEF g, last
  <2> QED
    BY <1>5, <1>6
<1> HIDE DEF g, last
<1> QED
  BY <1>1, <1>7, <1>8

(* A sequence of numbers is as many bytes as it is long. *)
LEMMA BytesOf ==
  ASSUME NEW b \in Seq(Int)
  PROVE  Len(b) \in Nat /\ Bytes(b, Len(b))
BY DEF Bytes

(* Where a sequence of pieces stands, each of them stands behind the ones   *)
(* before it.                                                               *)
LEMMA Pieces ==
  ASSUME NEW s, NEW o \in Nat, NEW items \in Seq(Seq(Int)),
         StandsAt(s, o, Sec!FlattenSeq(items))
  PROVE  \E at \in [0 .. Len(items) -> Nat] :
           /\ at[0] = o /\ at[Len(items)] = o + Len(Sec!FlattenSeq(items))
           /\ \A i \in 1 .. Len(items) : /\ at[i] = at[i - 1] + Len(items[i])
                                         /\ StandsAt(s, at[i - 1], items[i])
<1> DEFINE n == Len(items)
<1>1. PICK f \in [0 .. n -> Seq(Int)] :
        /\ f[0] = << >> /\ \A i \in 1 .. n : f[i] = f[i - 1] \o items[i]
        /\ Sec!FlattenSeq(items) = f[n]
  BY FlattenSteps
<1>2. n \in Nat
  OBVIOUS
<1> HIDE DEF n
<1>3. ASSUME NEW i \in 1 .. n
      PROVE  /\ i - 1 \in 0 .. n /\ i \in 0 .. n
             /\ Bytes(f[i - 1], Len(f[i - 1])) /\ Bytes(items[i], Len(items[i]))
             /\ Len(f[i - 1]) \in Nat /\ Len(items[i]) \in Nat
             /\ f[i] = f[i - 1] \o items[i]
  <2>1. i - 1 \in 0 .. n /\ i \in 0 .. n
    BY <1>2
  <2>2. f[i - 1] \in Seq(Int) /\ items[i] \in Seq(Int)
    BY <2>1 DEF n
  <2> QED
    BY <1>1, <2>1, <2>2, BytesOf
<1> DEFINE at == [i \in 0 .. n |-> o + Len(f[i])]
           T == {j \in 0 .. n : ~ StandsAt(s, o, f[n - j])}
<1>4. T = {}
  <2> SUFFICES ASSUME T # {} PROVE FALSE
    OBVIOUS
  <2>1. T \in SUBSET Nat
    BY <1>2
  <2>2. PICK j \in T : \A y \in T : j <= y
    BY <2>1, Least
  <2>3. j \in 0 .. n /\ ~ StandsAt(s, o, f[n - j])
    BY <2>2
  <2>4. j # 0
    <3>1. n - 0 = n
      BY <1>2
    <3> QED
      BY <1>1, <2>3, <3>1
  <2> DEFINE i == n - j + 1
  <2>5. i \in 1 .. n /\ i - 1 = n - j /\ n - (j - 1) = i /\ j - 1 \in 0 .. n /\ ~ (j <= j - 1)
    BY <1>2, <2>3, <2>4
  <2>6. StandsAt(s, o, f[i])
    <3>1. j - 1 \notin T
      BY <2>2, <2>5
    <3> QED
      BY <2>5, <3>1
  <2> HIDE DEF i
  <2> DEFINE a == f[i - 1]
             b == items[i]
  <2>7. /\ Bytes(a, Len(a)) /\ Bytes(b, Len(b)) /\ Len(a) \in Nat /\ Len(b) \in Nat
        /\ StandsAt(s, o, a \o b)
    BY <1>3, <2>5, <2>6
  <2> HIDE DEF a, b
  <2>8. StandsAt(s, o, a)
    BY <2>7, Split
  <2> QED
    BY <2>3, <2>5, <2>8 DEF a
<1>5. ASSUME NEW i \in 0 .. n PROVE StandsAt(s, o, f[i])
  <2>1. n - i \in 0 .. n /\ n - (n - i) = i
    BY <1>2
  <2>2. n - i \notin T
    BY <1>4
  <2> QED
    BY <2>1, <2>2
<1>6. ASSUME NEW i \in 1 .. n
      PROVE  at[i] = at[i - 1] + Len(items[i]) /\ StandsAt(s, at[i - 1], items[i])
  <2> DEFINE a == f[i - 1]
             b == items[i]
  <2>1. /\ Bytes(a, Len(a)) /\ Bytes(b, Len(b)) /\ Len(a) \in Nat /\ Len(b) \in Nat
        /\ StandsAt(s, o, a \o b) /\ f[i] = a \o b
    BY <1>3, <1>5
  <2>2. at[i - 1] = o + Len(a) /\ at[i] = o + Len(f[i])
    BY <1>3
  <2> HIDE DEF a, b, at
  <2>3. StandsAt(s, o + Len(a), b)
    BY <2>1, Split
  <2>4. Bytes(f[i], Len(a) + Len(b))
    BY <2>1, Joined
  <2>5. Len(f[i]) = Len(a) + Len(b)
    BY <2>4 DEF Bytes
  <2>6. at[i] = at[i - 1] + Len(b)
    BY <2>1, <2>2, <2>5
  <2> QED
    BY <2>2, <2>3, <2>6 DEF b
<1>7. at \in [0 .. n -> Nat]
  OBVIOUS
<1>8. at[0] = o /\ at[n] = o + Len(Sec!FlattenSeq(items))
  <2>1. Len(f[0]) = 0
    BY <1>1
  <2>2. 0 \in 0 .. n /\ n \in 0 .. n
    BY <1>2
  <2>3. at[0] = o + Len(f[0]) /\ at[n] = o + Len(f[n])
    BY <2>2
  <2> HIDE DEF at
  <2> QED
    BY <1>1, <2>1, <2>3
<1> HIDE DEF at
<1> QED
  BY <1>6, <1>7, <1>8 DEF n

(* A walk over pieces none of which is empty, with the size each of them    *)
(* tells of itself, comes to every piece in turn, and to nothing else.      *)
THEOREM WalkFindsAll ==
  ASSUME NEW s, NEW o \in Nat, NEW items \in Seq(Seq(Int)), NEW size,
         StandsAt(s, o, Sec!FlattenSeq(items)),
         \A i \in 1 .. Len(items) :
           /\ Len(items[i]) > 0
           /\ \A d \in Nat : StandsAt(s, d, items[i]) => size[d] = Len(items[i])
  PROVE  \E w \in Seq(Nat) :
           /\ Sec!Walk(o, o + Len(Sec!FlattenSeq(items)), size) = w
           /\ Len(w) = Len(items)
           /\ \A i \in 1 .. Len(items) : w[i] \in Nat /\ StandsAt(s, w[i], items[i])
<1> DEFINE n == Len(items)
<1>1. PICK at \in [0 .. n -> Nat] :
        /\ at[0] = o /\ at[n] = o + Len(Sec!FlattenSeq(items))
        /\ \A i \in 1 .. n : at[i] = at[i - 1] + Len(items[i]) /\ StandsAt(s, at[i - 1], items[i])
  <2>1. \E at \in [0 .. Len(items) -> Nat] :
          /\ at[0] = o /\ at[Len(items)] = o + Len(Sec!FlattenSeq(items))
          /\ \A i \in 1 .. Len(items) : /\ at[i] = at[i - 1] + Len(items[i])
                                        /\ StandsAt(s, at[i - 1], items[i])
    <3> HIDE DEF n
    <3> QED
      BY Pieces
  <2> QED
    BY <2>1
<1>2. n \in Nat
  OBVIOUS
<1>3. ASSUME NEW i \in 1 .. n
      PROVE  /\ i - 1 \in 0 .. n /\ at[i - 1] \in Nat /\ at[i] \in Nat /\ at[i - 1] < at[i]
             /\ size[at[i - 1]] = at[i] - at[i - 1]
  <2>1. i - 1 \in 0 .. n /\ i \in 0 .. n /\ Len(items[i]) > 0 /\ items[i] \in Seq(Int)
    OBVIOUS
  <2>2. at[i - 1] \in Nat /\ at[i] \in Nat /\ Len(items[i]) \in Nat
    BY <2>1, BytesOf
  <2>3. at[i] = at[i - 1] + Len(items[i]) /\ size[at[i - 1]] = Len(items[i])
    BY <1>1, <2>2
  <2> QED
    BY <2>1, <2>2, <2>3
<1> HIDE DEF n
<1> DEFINE T == {j \in 0 .. n : ~ (j <= at[n] - at[n - j])}
<1>4. T = {}
  <2> SUFFICES ASSUME T # {} PROVE FALSE
    OBVIOUS
  <2>1. T \in SUBSET Nat
    BY <1>2
  <2>2. PICK j \in T : \A y \in T : j <= y
    BY <2>1, Least
  <2>3. j \in 0 .. n /\ ~ (j <= at[n] - at[n - j])
    BY <2>2
  <2>4. j # 0
    <3>1. n - 0 = n /\ at[n] \in Nat
      BY <1>2
    <3> QED
      BY <2>3, <3>1
  <2> DEFINE i == n - j + 1
  <2>5. i \in 1 .. n /\ i - 1 = n - j /\ n - (j - 1) = i /\ j - 1 \in 0 .. n /\ ~ (j <= j - 1)
    BY <1>2, <2>3, <2>4
  <2>6. j - 1 <= at[n] - at[i]
    <3>1. j - 1 \notin T
      BY <2>2, <2>5
    <3> QED
      BY <2>5, <3>1
  <2> HIDE DEF i
  <2>7. at[i - 1] < at[i] /\ at[i - 1] \in Nat /\ at[i] \in Nat /\ at[n] \in Nat
    BY <1>2, <1>3, <2>5
  <2>8. j <= at[n] - at[i - 1]
    BY <2>3, <2>6, <2>7
  <2> QED
    BY <2>3, <2>5, <2>8
<1>5. ASSUME NEW j \in 0 .. n PROVE j <= at[n] - at[n - j]
  BY <1>4
<1> HIDE DEF T
<1>6. n <= at[n] - at[0]
  <2>1. n \in 0 .. n /\ n - n = 0
    BY <1>2
  <2> QED
    BY <1>5, <2>1
<1>7. ASSUME NEW i \in 1 .. n PROVE at[i - 1] < at[n]
  <2>1. n - (i - 1) \in 0 .. n /\ n - (n - (i - 1)) = i - 1 /\ n - (i - 1) >= 1
    BY <1>2
  <2>2. n - (i - 1) <= at[n] - at[i - 1]
    BY <1>5, <2>1
  <2>3. at[i - 1] \in Nat /\ at[n] \in Nat
    BY <1>2, <1>3
  <2> QED
    BY <1>2, <2>1, <2>2, <2>3
<1> DEFINE w == [i \in 1 .. n |-> at[i - 1]]
<1>8. Sec!Walk(at[0], at[n], size) = w
  <2>1. \A i \in 1 .. n : size[at[i - 1]] = at[i] - at[i - 1] /\ at[i - 1] < at[n]
    BY <1>3, <1>7
  <2> QED
    BY <1>2, <1>6, <2>1, WalkOver
<1>9. w \in Seq(Nat) /\ Len(w) = n
  <2>1. \A i \in 1 .. n : at[i - 1] \in Nat
    BY <1>3
  <2> QED
    BY <1>2, <2>1
<1>10. \A i \in 1 .. n : w[i] = at[i - 1] /\ w[i] \in Nat
  BY <1>3
<1> HIDE DEF w
<1> QED
  BY <1>1, <1>8, <1>9, <1>10 DEF n

(* What FlattenSeq gives is what of its elements that are not empty. *)
LEMMA FlattenTyped ==
  ASSUME NEW V, NEW seqs \in Seq(Seq(V))
  PROVE  Sec!FlattenSeq(seqs) \in Seq(V)
<1>1. PICK f \in [0 .. Len(seqs) -> Seq(V)] : Sec!FlattenSeq(seqs) = f[Len(seqs)]
  BY FlattenSteps
<1>2. Len(seqs) \in 0 .. Len(seqs)
  OBVIOUS
<1> QED
  BY <1>1, <1>2

(* What is read of a loop, where each item between two places yields one    *)
(* value and the others nothing, is the sequence of those values.           *)
YieldsBlock(seqs, n, a, x) ==
  /\ seqs = [i \in 1 .. n |-> seqs[i]] /\ a + Len(x) <= n
  /\ \A i \in 1 .. n : seqs[i] = IF a < i /\ i <= a + Len(x) THEN <<x[i - a]>> ELSE << >>

(* The joining of such a loop's yields. *)
LEMMA FlattenBlock ==
  ASSUME NEW V, NEW n \in Nat, NEW a \in Nat, NEW x \in Seq(V),
         NEW seqs, YieldsBlock(seqs, n, a, x)
  PROVE  Sec!FlattenSeq(seqs) = x
<1> USE DEF YieldsBlock
<1> DEFINE m == Len(x)
           c(i) == IF i <= a THEN 0 ELSE IF i <= a + m THEN i - a ELSE m
           p(k) == [j \in 1 .. k |-> x[j]]
<1>0. m \in Nat /\ x = p(m)
  OBVIOUS
<1>1. \A k \in 0 .. m : p(k) \in Seq(V) /\ Len(p(k)) = k
  OBVIOUS
<1>2. \A k \in 1 .. m : x[k] \in V /\ p(k - 1) \o <<x[k]>> = p(k)
  <2> TAKE k \in 1 .. m
  <2>1. x[k] \in V /\ k - 1 \in 0 .. m
    OBVIOUS
  <2>2. p(k - 1) \in Seq(V) /\ Len(p(k - 1)) = k - 1
    BY <1>1, <2>1
  <2>3. Append(p(k - 1), x[k]) = p(k)
    BY <2>1, <2>2
  <2> HIDE DEF p
  <2>4. p(k - 1) \o <<x[k]>> = Append(p(k - 1), x[k])
    BY <2>1, <2>2, AppendIsConcat
  <2> QED
    BY <2>1, <2>3, <2>4
<1> HIDE DEF m, p
<1>3. ASSUME NEW i \in 1 .. n PROVE seqs[i] \in Seq(V)
  <2>1. CASE a < i /\ i <= a + m
    <3>1. i - a \in 1 .. m
      BY <1>0, <2>1
    <3>2. x[i - a] \in V
      BY <1>2, <3>1
    <3>3. <<x[i - a]>> \in Seq(V)
      BY <3>2
    <3> QED
      BY <2>1, <3>3 DEF m
  <2>2. CASE ~ (a < i /\ i <= a + m)
    <3>1. << >> \in Seq(V)
      OBVIOUS
    <3> QED
      BY <2>2, <3>1 DEF m
  <2> QED
    BY <2>1, <2>2
<1>4. seqs \in Seq(Seq(V)) /\ Len(seqs) = n
  BY <1>3
<1>5. PICK f \in [0 .. n -> Seq(V)] :
        /\ f[0] = << >> /\ \A i \in 1 .. n : f[i] = f[i - 1] \o seqs[i]
        /\ Sec!FlattenSeq(seqs) = f[n]
  BY <1>4, FlattenSteps
<1>6. \A i \in 0 .. n : c(i) \in 0 .. m
  BY <1>0
<1>7. p(0) = << >>
  BY DEF p
<1>8. ASSUME NEW i \in 1 .. n PROVE p(c(i)) = p(c(i - 1)) \o seqs[i]
  <2>1. CASE a < i /\ i <= a + m
    <3>1. c(i) = i - a /\ c(i - 1) = (i - a) - 1 /\ i - a \in 1 .. m
      BY <1>0, <2>1
    <3>2. seqs[i] = <<x[i - a]>>
      BY <2>1 DEF m
    <3> HIDE DEF c
    <3> QED
      BY <1>2, <3>1, <3>2
  <2>2. CASE ~ (a < i /\ i <= a + m)
    <3>1. c(i) = c(i - 1) /\ c(i) \in 0 .. m
      BY <1>0, <2>2
    <3>2. seqs[i] = << >>
      BY <2>2 DEF m
    <3> HIDE DEF c
    <3>3. p(c(i)) \in Seq(V)
      BY <1>1, <3>1
    <3>4. p(c(i)) \o << >> = p(c(i))
      BY <3>3, ConcatEmptySeq
    <3> QED
      BY <3>1, <3>2, <3>4
  <2> QED
    BY <2>1, <2>2
<1> DEFINE T == {i \in 0 .. n : f[i] # p(c(i))}
<1>9. T = {}
  <2> SUFFICES ASSUME T # {} PROVE FALSE
    OBVIOUS
  <2>1. T \in SUBSET Nat
    OBVIOUS
  <2>2. PICK i \in T : \A y \in T : i <= y
    BY <2>1, Least
  <2>3. i \in 0 .. n /\ f[i] # p(c(i))
    BY <2>2
  <2>4. i # 0
    BY <1>5, <1>7, <2>3
  <2>5. i \in 1 .. n /\ i - 1 \in 0 .. n /\ ~ (i <= i - 1)
    BY <2>3, <2>4
  <2>6. f[i - 1] = p(c(i - 1))
    <3>1. i - 1 \notin T
      BY <2>2, <2>5
    <3> HIDE DEF c
    <3> QED
      BY <2>5, <3>1
  <2>7. f[i] = f[i - 1] \o seqs[i]
    BY <1>5, <2>5
  <2> HIDE DEF c
  <2> QED
    BY <1>8, <2>3, <2>5, <2>6, <2>7
<1>10. c(n) = m /\ n \in 0 .. n
  BY <1>0 DEF m
<1>11. f[n] = p(c(n))
  <2> HIDE DEF c
  <2> QED
    BY <1>9, <1>10
<1> HIDE DEF c
<1> QED
  BY <1>0, <1>5, <1>10, <1>11

(* And where only one item yields anything, it is what that one yields. *)
YieldsOne(seqs, n, a, x) ==
  /\ seqs = [i \in 1 .. n |-> seqs[i]]
  /\ \A i \in 1 .. n : seqs[i] = IF i = a THEN x ELSE << >>

(* The joining where one item has it all. *)
LEMMA FlattenOne ==
  ASSUME NEW V, NEW n \in Nat, NEW a \in 1 .. n, NEW x \in Seq(V),
         NEW seqs, YieldsOne(seqs, n, a, x)
  PROVE  Sec!FlattenSeq(seqs) = x
<1> USE DEF YieldsOne
<1>1. ASSUME NEW i \in 1 .. n PROVE seqs[i] \in Seq(V)
  <2>1. << >> \in Seq(V) /\ (seqs[i] = x \/ seqs[i] = << >>)
    OBVIOUS
  <2> QED
    BY <2>1
<1>2. seqs \in Seq(Seq(V)) /\ Len(seqs) = n
  BY <1>1
<1>3. PICK f \in [0 .. n -> Seq(V)] :
        /\ f[0] = << >> /\ \A i \in 1 .. n : f[i] = f[i - 1] \o seqs[i]
        /\ Sec!FlattenSeq(seqs) = f[n]
  BY <1>2, FlattenSteps
<1> DEFINE c(i) == IF i < a THEN << >> ELSE x
           e == << >>
<1>4. e \in Seq(V) /\ e \o e = e /\ e \o x = x /\ x \o e = x /\ e = << >>
  OBVIOUS
<1> HIDE DEF e
<1>5. ASSUME NEW i \in 1 .. n PROVE c(i) = c(i - 1) \o seqs[i]
  <2>1. CASE i < a
    <3>1. i - 1 < a /\ i # a
      BY <2>1
    <3> QED
      BY <1>4, <2>1, <3>1
  <2>2. CASE i = a
    <3>1. i - 1 < a /\ ~ (i < a)
      BY <2>2
    <3> QED
      BY <1>4, <2>2, <3>1
  <2>3. CASE i > a
    <3>1. ~ (i - 1 < a) /\ ~ (i < a) /\ i # a
      BY <2>3
    <3> QED
      BY <1>4, <3>1
  <2> QED
    BY <2>1, <2>2, <2>3
<1> DEFINE T == {i \in 0 .. n : f[i] # c(i)}
<1>6. T = {}
  <2> SUFFICES ASSUME T # {} PROVE FALSE
    OBVIOUS
  <2>1. T \in SUBSET Nat
    OBVIOUS
  <2>2. PICK i \in T : \A y \in T : i <= y
    BY <2>1, Least
  <2>3. i \in 0 .. n /\ f[i] # c(i)
    BY <2>2
  <2>4. i # 0
    BY <1>3, <2>3
  <2>5. i \in 1 .. n /\ i - 1 \in 0 .. n /\ ~ (i <= i - 1)
    BY <2>3, <2>4
  <2>6. f[i - 1] = c(i - 1)
    <3>1. i - 1 \notin T
      BY <2>2, <2>5
    <3> HIDE DEF c
    <3> QED
      BY <2>5, <3>1
  <2>7. f[i] = f[i - 1] \o seqs[i]
    BY <1>3, <2>5
  <2> HIDE DEF c
  <2> QED
    BY <1>5, <2>3, <2>5, <2>6, <2>7
<1>7. c(n) = x /\ n \in 0 .. n
  OBVIOUS
<1>8. f[n] = c(n)
  <2> HIDE DEF c
  <2> QED
    BY <1>6, <1>7
<1> HIDE DEF c
<1> QED
  BY <1>3, <1>7, <1>8
-----------------------------------------------------------------------------
(* What stands in a loop is found by the walk over it.                      *)

(* Numbers of one byte and of two, and of what a length can count. *)
LEMMA Counts ==
  ASSUME NEW v \in Nat
  PROVE  (v < 256 => v \in 0 .. 255) /\ (v < 4096 => v \in 0 .. 4095)
OBVIOUS

(* A number of one byte is read as written. *)
LEMMA ByteRead ==
  ASSUME NEW s, NEW o \in Nat, NEW v \in Sec!Byte, StandsAt(s, o, Sec!Put8(v))
  PROVE  Sec!Word8(s, o) = v
<1>1. v \in Nat /\ v < 256
  BY DEF Sec!Byte, Sec!Below
<1>2. v \in 0 .. 255 /\ o \in Int
  BY <1>1, Counts
<1> QED
  BY <1>2, Read8

(* A number of two bytes is read as written. *)
LEMMA WordRead ==
  ASSUME NEW s, NEW o \in Nat, NEW v \in Sec!Word, StandsAt(s, o, Sec!Put16(v))
  PROVE  Sec!Word16(s, o) = v
<1>1. v \in Nat /\ v < 65536
  BY DEF Sec!Word, Sec!Below
<1>2. o \in Int
  OBVIOUS
<1> QED
  BY <1>1, <1>2, Read16

(* Such numbers are written in one byte and in two. *)
LEMMA NumberBytes ==
  /\ \A v \in Sec!Byte : v \in Nat /\ Bytes(Sec!Put8(v), 1)
  /\ \A v \in Sec!Word : v \in Nat /\ Bytes(Sec!Put16(v), 2)
<1>1. ASSUME NEW v \in Sec!Byte PROVE v \in Nat
  BY DEF Sec!Byte, Sec!Below
<1>2. ASSUME NEW v \in Sec!Word PROVE v \in Nat
  BY DEF Sec!Word, Sec!Below
<1> QED
  BY <1>1, <1>2, PutBytes

(* What an eight bit length can count has a length of one byte. *)
LEMMA Fitting ==
  ASSUME NEW b \in Seq(Int)
  PROVE  Len(b) \in Nat /\ Bytes(b, Len(b)) /\ (Sec!Fits8(b) => Len(b) \in Sec!Byte)
<1>1. Len(b) \in Nat /\ Bytes(b, Len(b))
  BY BytesOf
<1>2. Sec!Fits8(b) => Len(b) \in Sec!Byte
  BY <1>1 DEF Sec!Fits8, Sec!Byte, Sec!Below
<1> QED
  BY <1>1, <1>2

(* A loop's 12 bit length is read as the number of its bytes, below the     *)
(* reserved bits, and the loop follows it (section-data.h, word12).         *)
THEOREM LoopRead ==
  ASSUME NEW s, NEW o \in Nat, NEW b \in Seq(Int), Sec!Fits12(b), StandsAt(s, o, Sec!Loop12(b))
  PROVE  Sec!Word12(s, o) = Len(b) /\ StandsAt(s, o + 2, b)
<1> DEFINE n == Len(b)
           v == 61440 + n
           p == Sec!Put16(v)
<1>1. n \in Nat /\ n < 4096 /\ Bytes(b, n) /\ o \in Int
  BY Fitting DEF Sec!Fits12
<1>2. StandsAt(s, o, p \o b)
  BY DEF Sec!Loop12
<1> HIDE DEF n
<1>3. v % 4096 = n /\ v \in Nat /\ v < 65536
  BY <1>1, SMT
<1>4. v \in Sec!Word
  BY <1>3 DEF Sec!Word, Sec!Below
<1> HIDE DEF v
<1>5. Bytes(p, 2)
  BY <1>4, NumberBytes
<1> HIDE DEF p
<1>6. StandsAt(s, o, p) /\ StandsAt(s, o + 2, b)
  BY <1>1, <1>2, <1>5, Split
<1>7. Sec!Word16(s, o) = v
  BY <1>4, <1>6, WordRead DEF p
<1> QED
  BY <1>3, <1>6, <1>7 DEF Sec!Word12, n

(* A function on 1 .. n is a sequence of what it yields. *)
LEMMA SequenceOf ==
  ASSUME NEW S, NEW n \in Nat, NEW f, f = [i \in 1 .. n |-> f[i]], \A i \in 1 .. n : f[i] \in S
  PROVE  f \in Seq(S) /\ Len(f) = n /\ DOMAIN f = 1 .. n
OBVIOUS

(* What a sequence consists of. *)
LEMMA DomainOf ==
  ASSUME NEW S, NEW f \in Seq(S)
  PROVE  Len(f) \in Nat /\ DOMAIN f = 1 .. Len(f) /\ f = [i \in 1 .. Len(f) |-> f[i]]
         /\ \A i \in 1 .. Len(f) : f[i] \in S
OBVIOUS

(* Three pieces behind one another. *)
LEMMA SplitThree ==
  ASSUME NEW s, NEW o \in Int, NEW a, NEW b, NEW c, NEW k \in Nat, NEW m \in Nat, NEW n \in Nat,
         Bytes(a, k), Bytes(b, m), Bytes(c, n), StandsAt(s, o, (a \o b) \o c)
  PROVE  /\ StandsAt(s, o, a) /\ StandsAt(s, o + k, b) /\ StandsAt(s, o + (k + m), c)
         /\ Bytes((a \o b) \o c, (k + m) + n)
<1> DEFINE ab == a \o b
<1>1. k + m \in Nat /\ Bytes(ab, k + m) /\ StandsAt(s, o, ab \o c)
  BY Joined
<1> HIDE DEF ab
<1>2. StandsAt(s, o, ab) /\ StandsAt(s, o + (k + m), c) /\ Bytes(ab \o c, (k + m) + n)
  BY <1>1, Split, Joined
<1>3. StandsAt(s, o, a) /\ StandsAt(s, o + k, b)
  BY <1>2, Split DEF ab
<1> QED
  BY <1>2, <1>3 DEF ab

(* How long three pieces are together. *)
LEMMA JoinedThree ==
  ASSUME NEW a, NEW b, NEW c, NEW k \in Nat, NEW m \in Nat, NEW n \in Nat,
         Bytes(a, k), Bytes(b, m), Bytes(c, n)
  PROVE  Bytes((a \o b) \o c, (k + m) + n)
<1> DEFINE ab == a \o b
<1>1. k + m \in Nat /\ Bytes(ab, k + m)
  BY Joined
<1> HIDE DEF ab
<1>2. Bytes(ab \o c, (k + m) + n)
  BY <1>1, Joined
<1> QED
  BY <1>2 DEF ab

(* A text of bytes. *)
LEMMA TextRead ==
  ASSUME NEW s, NEW o \in Nat, NEW b \in Seq(Int), StandsAt(s, o, b)
  PROVE  Sec!Text(s, o, Len(b)) = b
BY DomainOf DEF Sec!Text, StandsAt

(* A loop with a length of eight bits. *)
LEMMA ShortLoopKeepsLength ==
  ASSUME NEW s, NEW o \in Nat, NEW b \in Seq(Int), Sec!Fits8(b), StandsAt(s, o, Sec!Loop8(b))
  PROVE  Sec!Word8(s, o) = Len(b) /\ StandsAt(s, o + 1, b)
<1>1. Len(b) \in Sec!Byte /\ Len(b) \in Nat /\ Bytes(b, Len(b)) /\ o \in Int
  BY Fitting
<1> DEFINE p == Sec!Put8(Len(b))
<1>2. Bytes(p, 1) /\ StandsAt(s, o, p \o b)
  BY <1>1, NumberBytes DEF Sec!Loop8
<1> HIDE DEF p
<1>3. StandsAt(s, o, p) /\ StandsAt(s, o + 1, b)
  BY <1>1, <1>2, Split
<1>4. Sec!Word8(s, o) = Len(b)
  BY <1>1, <1>3, ByteRead DEF p
<1> QED
  BY <1>3, <1>4

(* How long a loop is together with its length. *)
LEMMA ShortLoopBytes ==
  ASSUME NEW b \in Seq(Int)
  PROVE  Bytes(Sec!Loop8(b), 1 + Len(b)) /\ Bytes(Sec!Loop12(b), 2 + Len(b))
<1>1. Len(b) \in Nat /\ 61440 + Len(b) \in Nat /\ Bytes(b, Len(b))
  BY BytesOf
<1> DEFINE p == Sec!Put8(Len(b))
           q == Sec!Put16(61440 + Len(b))
<1>2. Bytes(p, 1) /\ Bytes(q, 2)
  BY <1>1, PutBytes
<1> HIDE DEF p, q
<1>3. Bytes(p \o b, 1 + Len(b)) /\ Bytes(q \o b, 2 + Len(b))
  BY <1>1, <1>2, Joined
<1> QED
  BY <1>3 DEF p, q, Sec!Loop8, Sec!Loop12

(* What a walk needs of the items it is to find: that none is empty, and    *)
(* that the size at the place where one stands is its own.                  *)
Sized(s, items, size) ==
  \A i \in 1 .. Len(items) :
    /\ Len(items[i]) > 0
    /\ \A d \in Nat : StandsAt(s, d, items[i]) => size[d] = Len(items[i])

(* And what it gives: where each of them stands. *)
Found(s, items, w) ==
  /\ w \in Seq(Nat) /\ Len(w) = Len(items) /\ DOMAIN w = 1 .. Len(items)
  /\ \A i \in 1 .. Len(items) : w[i] \in Nat /\ StandsAt(s, w[i], items[i])

(* A walk over pieces finds each of them where it stands. *)
LEMMA LoopWalked ==
  ASSUME NEW s, NEW o \in Nat, NEW items \in Seq(Seq(Int)), NEW size, Sized(s, items, size),
         StandsAt(s, o, Sec!FlattenSeq(items))
  PROVE  Found(s, items, Sec!Walk(o, o + Len(Sec!FlattenSeq(items)), size))
<1>1. PICK w \in Seq(Nat) :
        /\ Sec!Walk(o, o + Len(Sec!FlattenSeq(items)), size) = w
        /\ Len(w) = Len(items)
        /\ \A i \in 1 .. Len(items) : w[i] \in Nat /\ StandsAt(s, w[i], items[i])
  BY WalkFindsAll DEF Sized
<1>2. DOMAIN w = 1 .. Len(items)
  BY <1>1, DomainOf
<1> QED
  BY <1>1, <1>2 DEF Found

(* So does the walk over a loop with a length of eight bits. *)
LEMMA ShortLoopWalked ==
  ASSUME NEW s, NEW o \in Nat, NEW items \in Seq(Seq(Int)), NEW size, Sized(s, items, size),
         Sec!Fits8(Sec!FlattenSeq(items)), StandsAt(s, o, Sec!Loop8(Sec!FlattenSeq(items)))
  PROVE  Found(s, items, Sec!Walk(o + 1, o + 1 + Sec!Word8(s, o), size))
<1> DEFINE b == Sec!FlattenSeq(items)
           m == o + 1
<1>1. b \in Seq(Int) /\ m \in Nat
  BY FlattenTyped
<1> HIDE DEF m
<1>2. Sec!Word8(s, o) = Len(b) /\ StandsAt(s, m, b)
  <2> HIDE DEF b
  <2>1. Sec!Fits8(b) /\ StandsAt(s, o, Sec!Loop8(b))
    BY DEF b
  <2> QED
    BY <1>1, <2>1, ShortLoopKeepsLength DEF m
<1>3. Found(s, items, Sec!Walk(m, m + Len(b), size))
  BY <1>1, <1>2, LoopWalked
<1> QED
  BY <1>2, <1>3 DEF m

(* And the one over a loop with a length of twelve. *)
LEMMA LongLoopWalked ==
  ASSUME NEW s, NEW o \in Nat, NEW items \in Seq(Seq(Int)), NEW size, Sized(s, items, size),
         Sec!Fits12(Sec!FlattenSeq(items)), StandsAt(s, o, Sec!Loop12(Sec!FlattenSeq(items)))
  PROVE  Found(s, items, Sec!Walk(o + 2, o + 2 + Sec!Word12(s, o), size))
<1> DEFINE b == Sec!FlattenSeq(items)
           m == o + 2
<1>1. b \in Seq(Int) /\ m \in Nat
  BY FlattenTyped
<1> HIDE DEF m
<1>2. Sec!Word12(s, o) = Len(b) /\ StandsAt(s, m, b)
  <2> HIDE DEF b
  <2>1. Sec!Fits12(b) /\ StandsAt(s, o, Sec!Loop12(b))
    BY DEF b
  <2> QED
    BY <1>1, <2>1, LoopRead DEF m
<1>3. Found(s, items, Sec!Walk(m, m + Len(b), size))
  BY <1>1, <1>2, LoopWalked
<1> QED
  BY <1>2, <1>3 DEF m

(* A descriptor, and a loop of them. *)
IsDescriptor(x) ==
  \E tag \in Sec!Byte : \E b \in Seq(Int) : Sec!Fits8(b) /\ x = Sec!Descriptor(tag, b)

(* Of a descriptor, the tag, the length and the payload are found. *)
LEMMA DescriptorRead ==
  ASSUME NEW s, NEW d \in Nat, NEW tag \in Sec!Byte, NEW b \in Seq(Int), Sec!Fits8(b),
         StandsAt(s, d, Sec!Descriptor(tag, b))
  PROVE  /\ Sec!Word8(s, d) = tag /\ Sec!Word8(s, d + 1) = Len(b)
         /\ StandsAt(s, d + 1, Sec!Loop8(b)) /\ StandsAt(s, d + 2, b)
<1> DEFINE t == Sec!Put8(tag)
           l == Sec!Loop8(b)
           m == d + 1
<1>1. Bytes(t, 1) /\ Bytes(l, 1 + Len(b)) /\ 1 + Len(b) \in Nat /\ m \in Nat /\ d \in Int
  <2>1. Len(b) \in Nat
    BY Fitting
  <2>2. Bytes(t, 1)
    BY NumberBytes
  <2> QED
    BY <2>1, <2>2, ShortLoopBytes
<1>2. StandsAt(s, d, t \o l)
  BY DEF Sec!Descriptor
<1> HIDE DEF t, l, m
<1>3. StandsAt(s, d, t) /\ StandsAt(s, m, l)
  BY <1>1, <1>2, Split DEF m
<1>4. Sec!Word8(s, d) = tag
  BY <1>3, ByteRead DEF t
<1>5. Sec!Word8(s, m) = Len(b) /\ StandsAt(s, m + 1, b)
  BY <1>1, <1>3, ShortLoopKeepsLength DEF l
<1>6. m + 1 = d + 2
  BY DEF m
<1> QED
  BY <1>3, <1>4, <1>5, <1>6 DEF m, l

(* What the writer makes is a descriptor. *)
LEMMA DescriptorBytes ==
  ASSUME NEW tag \in Sec!Byte, NEW b \in Seq(Int), Sec!Fits8(b)
  PROVE  /\ Bytes(Sec!Descriptor(tag, b), Len(b) + 2) /\ Sec!Descriptor(tag, b) \in Seq(Int)
         /\ IsDescriptor(Sec!Descriptor(tag, b))
<1> DEFINE t == Sec!Put8(tag)
           l == Sec!Loop8(b)
<1>1. Bytes(t, 1) /\ Bytes(l, 1 + Len(b)) /\ Len(b) \in Nat
  BY NumberBytes, ShortLoopBytes, BytesOf
<1> HIDE DEF t, l
<1>2. Bytes(t \o l, 1 + (1 + Len(b)))
  BY <1>1, Joined
<1>3. 1 + (1 + Len(b)) = Len(b) + 2
  BY <1>1
<1>4. Bytes(Sec!Descriptor(tag, b), Len(b) + 2)
  BY <1>2, <1>3 DEF t, l, Sec!Descriptor
<1> QED
  BY <1>4 DEF Bytes, IsDescriptor

(* get_descriptors finds every descriptor of a loop. *)
THEOREM DescriptorsFound ==
  ASSUME NEW s, NEW o \in Nat, NEW items \in Seq(Seq(Int)),
         \A i \in 1 .. Len(items) : IsDescriptor(items[i]),
         Sec!Fits12(Sec!FlattenSeq(items)), StandsAt(s, o, Sec!DescriptorLoop(items))
  PROVE  Found(s, items, Sec!Descriptors(s, o))
<1> DEFINE size == [d \in Nat |-> Sec!Word8(s, d + 1) + 2]
<1>1. ASSUME NEW i \in 1 .. Len(items)
      PROVE  /\ Len(items[i]) > 0
             /\ \A d \in Nat : StandsAt(s, d, items[i]) => size[d] = Len(items[i])
  <2>1. PICK tag \in Sec!Byte, b \in Seq(Int) : Sec!Fits8(b) /\ items[i] = Sec!Descriptor(tag, b)
    BY DEF IsDescriptor
  <2>2. Len(items[i]) = Len(b) + 2 /\ Len(b) \in Nat
    BY <2>1, DescriptorBytes, BytesOf DEF Bytes
  <2>3. ASSUME NEW d \in Nat, StandsAt(s, d, items[i]) PROVE size[d] = Len(items[i])
    <3>1. Sec!Word8(s, d + 1) = Len(b)
      <4>1. StandsAt(s, d, Sec!Descriptor(tag, b))
        BY <2>1, <2>3
      <4> HIDE DEF size
      <4> QED
        BY <2>1, <4>1, DescriptorRead
    <3> QED
      BY <2>2, <3>1
  <2> HIDE DEF size
  <2> QED
    BY <2>2, <2>3
<1>2. Sec!Descriptors(s, o) = Sec!Walk(o + 2, o + 2 + Sec!Word12(s, o), size)
  BY DEF Sec!Descriptors
<1> HIDE DEF size
<1>3. Sized(s, items, size)
  BY <1>1 DEF Sized
<1>4. StandsAt(s, o, Sec!Loop12(Sec!FlattenSeq(items)))
  BY DEF Sec!DescriptorLoop
<1> QED
  BY <1>2, <1>3, <1>4, LongLoopWalked
-----------------------------------------------------------------------------
(* Lists of services and of channel numbers.                                *)

(* Sequences of the same elements are the same. *)
LEMMA SameSequence ==
  ASSUME NEW S, NEW seq \in Seq(S), NEW r, r = [i \in 1 .. Len(seq) |-> r[i]],
         \A i \in 1 .. Len(seq) : r[i] = seq[i]
  PROVE  r = seq
<1>1. seq = [i \in 1 .. Len(seq) |-> seq[i]]
  BY DomainOf
<1> QED
  BY <1>1

(* The pieces that are written of a sequence's elements. *)
LEMMA PiecesOf ==
  ASSUME NEW S, NEW seq \in Seq(S), NEW items, items = [i \in DOMAIN seq |-> items[i]],
         \A i \in 1 .. Len(seq) : items[i] \in Seq(Int)
  PROVE  items \in Seq(Seq(Int)) /\ Len(items) = Len(seq) /\ Len(seq) \in Nat
<1>1. Len(seq) \in Nat /\ DOMAIN seq = 1 .. Len(seq)
  BY DomainOf
<1>2. items = [i \in 1 .. Len(seq) |-> items[i]]
  BY <1>1
<1> HIDE <1>1
<1> QED
  BY <1>1, <1>2, SequenceOf

(* Two words behind one another. *)
LEMMA TwoWords ==
  ASSUME NEW s, NEW d \in Nat, NEW v \in Sec!Word, NEW w \in Sec!Word
  PROVE  /\ Bytes(Sec!Put16(v) \o Sec!Put16(w), 4)
         /\ StandsAt(s, d, Sec!Put16(v) \o Sec!Put16(w)) =>
              Sec!Word16(s, d) = v /\ Sec!Word16(s, d + 2) = w
<1> DEFINE a == Sec!Put16(v)
           b == Sec!Put16(w)
           m == d + 2
<1>1. Bytes(a, 2) /\ Bytes(b, 2) /\ d \in Int /\ m \in Nat
  BY NumberBytes
<1> HIDE DEF a, b, m
<1>2. Bytes(a \o b, 4)
  BY <1>1, Joined
<1>3. ASSUME StandsAt(s, d, a \o b) PROVE Sec!Word16(s, d) = v /\ Sec!Word16(s, m) = w
  <2>1. StandsAt(s, d, a) /\ StandsAt(s, m, b)
    BY <1>1, <1>3, Split DEF m
  <2> QED
    BY <1>1, <2>1, WordRead DEF a, b
<1> QED
  BY <1>2, <1>3 DEF a, b, m

(* A service of a service list. *)
LEMMA ListedRead ==
  ASSUME NEW s, NEW v \in Sec!Word
  PROVE  /\ Bytes(Sec!PutListed(v), 3)
         /\ \A d \in Nat : StandsAt(s, d, Sec!PutListed(v)) => Sec!Word16(s, d) = v
<1> DEFINE a == Sec!Put16(v)
           b == Sec!Put8(1)
<1>1. Bytes(a, 2) /\ Bytes(b, 1)
  BY NumberBytes, PutBytes
<1> HIDE DEF a, b
<1>2. Bytes(a \o b, 3)
  BY <1>1, Joined
<1>3. ASSUME NEW d \in Nat, StandsAt(s, d, a \o b) PROVE Sec!Word16(s, d) = v
  <2>1. d \in Int
    OBVIOUS
  <2>2. StandsAt(s, d, a)
    BY <1>1, <1>3, <2>1, Split
  <2> QED
    BY <2>2, WordRead DEF a
<1> QED
  BY <1>2, <1>3 DEF a, b, Sec!PutListed

(* A service's channel number is read as written, below six bits of flags. *)
LEMMA LcnRead ==
  ASSUME NEW l \in Sec!Lcn
  PROVE  /\ Bytes(Sec!PutLcn(l), 4)
         /\ \A s : \A d \in Nat : StandsAt(s, d, Sec!PutLcn(l)) =>
              [service |-> Sec!Word16(s, d), lcn |-> Sec!Word16(s, d + 2) % 1024] = l
<1> DEFINE n == l.lcn
           v == 64512 + n
<1>1. n \in Nat /\ n < 1024 /\ l.service \in Sec!Word
  BY DEF Sec!Lcn, Sec!Below
<1>2. l = [service |-> l.service, lcn |-> n]
  BY DEF Sec!Lcn
<1> HIDE DEF n
<1>3. v \in Nat /\ v < 65536 /\ v % 1024 = n
  BY <1>1, SMT
<1>4. v \in Sec!Word
  BY <1>3 DEF Sec!Word, Sec!Below
<1>5. Sec!PutLcn(l) = Sec!Put16(l.service) \o Sec!Put16(v)
  BY DEF Sec!PutLcn, n
<1> HIDE DEF v
<1>6. Bytes(Sec!PutLcn(l), 4)
  BY <1>1, <1>4, <1>5, TwoWords
<1>7. ASSUME NEW s, NEW d \in Nat, StandsAt(s, d, Sec!PutLcn(l))
      PROVE  Sec!Word16(s, d) = l.service /\ Sec!Word16(s, d + 2) = v
  BY <1>1, <1>4, <1>5, <1>7, TwoWords
<1> QED
  BY <1>2, <1>3, <1>6, <1>7

(* The entries of a descriptor that is nothing but a loop of them.          *)
Entries(seq, items, s, size) ==
  /\ items = [i \in DOMAIN seq |-> items[i]]
  /\ \A i \in 1 .. Len(seq) :
       /\ items[i] \in Seq(Int) /\ Len(items[i]) > 0
       /\ \A o \in Nat : StandsAt(s, o, items[i]) => size[o] = Len(items[i])

EntriesAt(seq, items, s, w) ==
  /\ DOMAIN w = 1 .. Len(seq) /\ Len(seq) \in Nat
  /\ \A i \in 1 .. Len(seq) : w[i] \in Nat /\ StandsAt(s, w[i], items[i])

(* Such entries are pieces of that size. *)
LEMMA EntriesOfSize ==
  ASSUME NEW s, NEW seq, NEW items, items = [i \in DOMAIN seq |-> items[i]],
         NEW n \in Nat, n > 0, \A i \in 1 .. Len(seq) : Bytes(items[i], n),
         NEW size, size = [o \in Nat |-> n]
  PROVE  Entries(seq, items, s, size)
<1>1. ASSUME NEW i \in 1 .. Len(seq)
      PROVE  /\ items[i] \in Seq(Int) /\ Len(items[i]) > 0
             /\ \A o \in Nat : StandsAt(s, o, items[i]) => size[o] = Len(items[i])
  BY DEF Bytes
<1> QED
  BY <1>1 DEF Entries

(* The walk counts them so. *)
LEMMA EntriesSized ==
  ASSUME NEW s, NEW S, NEW seq \in Seq(S), NEW items, NEW size, Entries(seq, items, s, size)
  PROVE  /\ items \in Seq(Seq(Int)) /\ Len(items) = Len(seq) /\ Len(seq) \in Nat
         /\ Sized(s, items, size)
         /\ \A w : Found(s, items, w) => EntriesAt(seq, items, s, w)
<1>1. items \in Seq(Seq(Int)) /\ Len(items) = Len(seq) /\ Len(seq) \in Nat
  <2>1. /\ items = [i \in DOMAIN seq |-> items[i]]
        /\ \A i \in 1 .. Len(seq) : items[i] \in Seq(Int)
    BY DEF Entries
  <2> QED
    BY <2>1, PiecesOf
<1>2. Sized(s, items, size)
  BY <1>1 DEF Sized, Entries
<1>3. ASSUME NEW w, Found(s, items, w) PROVE EntriesAt(seq, items, s, w)
  BY <1>1, <1>3 DEF Found, EntriesAt
<1> QED
  BY <1>1, <1>2, <1>3

(* It finds all of them in a descriptor. *)
LEMMA EntriesFound ==
  ASSUME NEW s, NEW d \in Nat, NEW tag \in Sec!Byte, NEW S, NEW seq \in Seq(S), NEW items,
         NEW size, Entries(seq, items, s, size), Sec!Fits8(Sec!FlattenSeq(items)),
         StandsAt(s, d, Sec!Descriptor(tag, Sec!FlattenSeq(items)))
  PROVE  EntriesAt(seq, items, s, Sec!Walk(d + 2, d + 2 + Sec!Word8(s, d + 1), size))
<1> DEFINE m == d + 1
           w == Sec!Walk(m + 1, m + 1 + Sec!Word8(s, m), size)
           b == Sec!FlattenSeq(items)
<1>1. items \in Seq(Seq(Int)) /\ Sized(s, items, size)
  BY EntriesSized
<1>2. b \in Seq(Int) /\ m \in Nat
  BY <1>1, FlattenTyped
<1>3. Sec!Fits8(b) /\ StandsAt(s, d, Sec!Descriptor(tag, b))
  OBVIOUS
<1> HIDE DEF b
<1>4. StandsAt(s, m, Sec!Loop8(b))
  BY <1>2, <1>3, DescriptorRead
<1> HIDE DEF m
<1>5. Found(s, items, w)
  BY <1>1, <1>2, <1>3, <1>4, ShortLoopWalked DEF b
<1>6. m + 1 = d + 2
  BY DEF m
<1> HIDE DEF w
<1>7. EntriesAt(seq, items, s, w)
  BY <1>5, EntriesSized
<1> QED
  BY <1>6, <1>7 DEF m, w

(* Every service of a service list is read, and no other. *)
LEMMA ServiceListRead ==
  ASSUME NEW s, NEW d \in Nat, NEW services \in Seq(Sec!Word),
         Sec!Fits8(Sec!EachOf(services, Sec!PutListed)),
         StandsAt(s, d, Sec!Descriptor(65, Sec!EachOf(services, Sec!PutListed)))
  PROVE  Sec!ServiceList(s, d) = services
<1> DEFINE items == Sec!Each(services, Sec!PutListed)
           size == [v \in Nat |-> 3]
           w == Sec!Walk(d + 2, d + 2 + Sec!Word8(s, d + 1), size)
           n == Len(services)
<1>1. ASSUME NEW i \in 1 .. n
      PROVE  /\ Bytes(items[i], 3)
             /\ \A o \in Nat : StandsAt(s, o, items[i]) => Sec!Word16(s, o) = services[i]
  <2>1. items[i] = Sec!PutListed(services[i]) /\ services[i] \in Sec!Word
    BY DomainOf DEF Sec!Each
  <2> HIDE DEF items
  <2> QED
    BY <2>1, ListedRead
<1>2. items = [i \in DOMAIN services |-> items[i]]
  BY DEF Sec!Each
<1>3. Sec!EachOf(services, Sec!PutListed) = Sec!FlattenSeq(items) /\ 65 \in Sec!Byte
  BY DEF Sec!EachOf, Sec!Byte, Sec!Below
<1>4. Sec!ServiceList(s, d) = [i \in DOMAIN w |-> Sec!Word16(s, w[i])]
  BY DEF Sec!ServiceList, Sec!Each
<1> HIDE DEF items
<1> DEFINE k == 3
<1>k. size = [o \in Nat |-> k] /\ k \in Nat /\ k > 0 /\ \A i \in 1 .. n : Bytes(items[i], k)
  BY <1>1
<1> HIDE DEF size, k
<1>5. Entries(services, items, s, size)
  BY <1>2, <1>k, EntriesOfSize
<1>6. EntriesAt(services, items, s, w)
  BY <1>3, <1>5, EntriesFound
<1> HIDE DEF w, n
<1>7. DOMAIN w = 1 .. n /\ \A i \in 1 .. n : Sec!Word16(s, w[i]) = services[i]
  BY <1>1, <1>6 DEF EntriesAt, n
<1> QED
  BY <1>4, <1>7, SameSequence DEF n

(* Freeview's list of channel numbers. *)
LEMMA FreeviewLcnsRead ==
  ASSUME NEW s, NEW d \in Nat, NEW lcns \in Seq(Sec!Lcn),
         Sec!Fits8(Sec!EachOf(lcns, Sec!PutLcn)),
         StandsAt(s, d, Sec!Descriptor(131, Sec!EachOf(lcns, Sec!PutLcn)))
  PROVE  Sec!FreeviewLcns(s, d) = lcns
<1> DEFINE items == Sec!Each(lcns, Sec!PutLcn)
           size == [v \in Nat |-> 4]
           w == Sec!Walk(d + 2, d + 2 + Sec!Word8(s, d + 1), size)
           n == Len(lcns)
           lcn(o) == [service |-> Sec!Word16(s, o), lcn |-> Sec!Word16(s, o + 2) % 1024]
<1>1. ASSUME NEW i \in 1 .. n
      PROVE  /\ Bytes(items[i], 4)
             /\ \A o \in Nat : StandsAt(s, o, items[i]) => lcn(o) = lcns[i]
  <2>1. items[i] = Sec!PutLcn(lcns[i]) /\ lcns[i] \in Sec!Lcn
    BY DomainOf DEF Sec!Each
  <2> HIDE DEF items
  <2>2. Bytes(items[i], 4)
    BY <2>1, LcnRead
  <2>3. ASSUME NEW o \in Nat, StandsAt(s, o, items[i]) PROVE lcn(o) = lcns[i]
    BY <2>1, <2>3, LcnRead
  <2> QED
    BY <2>2, <2>3
<1>2. items = [i \in DOMAIN lcns |-> items[i]]
  BY DEF Sec!Each
<1>3. Sec!EachOf(lcns, Sec!PutLcn) = Sec!FlattenSeq(items) /\ 131 \in Sec!Byte
  BY DEF Sec!EachOf, Sec!Byte, Sec!Below
<1>4. Sec!FreeviewLcns(s, d) = [i \in DOMAIN w |-> lcn(w[i])]
  BY DEF Sec!FreeviewLcns, Sec!Each
<1> HIDE DEF items, lcn
<1> DEFINE k == 4
<1>k. size = [o \in Nat |-> k] /\ k \in Nat /\ k > 0 /\ \A i \in 1 .. n : Bytes(items[i], k)
  BY <1>1
<1> HIDE DEF size, k
<1>5. Entries(lcns, items, s, size)
  BY <1>2, <1>k, EntriesOfSize
<1>6. EntriesAt(lcns, items, s, w)
  BY <1>3, <1>5, EntriesFound
<1> HIDE DEF w, n
<1>7. DOMAIN w = 1 .. n /\ \A i \in 1 .. n : lcn(w[i]) = lcns[i]
  BY <1>1, <1>6 DEF EntriesAt, n
<1> QED
  BY <1>4, <1>7, SameSequence DEF n
-----------------------------------------------------------------------------
(* Names.                                                                  *)

(* A name is bytes that an eight bit length can count. *)
LEMMA NameBytes ==
  ASSUME NEW b \in Sec!Name
  PROVE  b \in Seq(Int) /\ Sec!Fits8(b)
<1>1. b \in Seq(Sec!Byte) /\ Sec!Fits8(b)
  BY DEF Sec!Name
<1>2. Sec!Byte \subseteq Int
  BY DEF Sec!Byte, Sec!Below
<1> QED
  BY <1>1, <1>2, SeqMonotonic

(* A loop of name descriptors with another descriptor at its end. *)
LEMMA NamesLoop ==
  ASSUME NEW tag \in Sec!Byte, NEW names \in Seq(Sec!Name), NEW last \in Seq(Int),
         IsDescriptor(last)
  PROVE  LET items == Sec!PutNames(tag, names) \o <<last>>
             n == Len(names)
         IN /\ items \in Seq(Seq(Int)) /\ Len(items) = n + 1 /\ n \in Nat
            /\ \A i \in 1 .. n : items[i] = Sec!Descriptor(tag, names[i])
            /\ items[n + 1] = last
            /\ \A i \in 1 .. Len(items) : IsDescriptor(items[i])
<1> DEFINE n == Len(names)
           a == Sec!PutNames(tag, names)
           b == <<last>>
           items == a \o b
<1>1. ASSUME NEW i \in 1 .. n
      PROVE  /\ a[i] = Sec!Descriptor(tag, names[i]) /\ a[i] \in Seq(Int)
             /\ IsDescriptor(a[i])
  <2>1. names[i] \in Sec!Name /\ a[i] = Sec!Descriptor(tag, names[i])
    BY DomainOf DEF Sec!PutNames, Sec!Each
  <2>2. names[i] \in Seq(Int) /\ Sec!Fits8(names[i])
    BY <2>1, NameBytes
  <2> HIDE DEF a
  <2> QED
    BY <2>1, <2>2, DescriptorBytes
<1>2. a = [i \in DOMAIN names |-> a[i]]
  BY DEF Sec!PutNames, Sec!Each
<1>3. b \in Seq(Seq(Int)) /\ Len(b) = 1 /\ b[1] = last
  OBVIOUS
<1> HIDE DEF a, b
<1>4. a \in Seq(Seq(Int)) /\ Len(a) = n /\ n \in Nat
  BY <1>1, <1>2, PiecesOf
<1> HIDE DEF n
<1>5. /\ Len(items) = n + 1 /\ \A k \in 1 .. n : items[k] = a[k]
      /\ items[n + 1] = last /\ items \in Seq(Seq(Int))
  <2> DEFINE S == Seq(Int)
  <2>0. a \in Seq(S) /\ b \in Seq(S)
    BY <1>3, <1>4
  <2> HIDE DEF S
  <2>1. /\ Len(a \o b) = Len(a) + Len(b)
        /\ \A k \in 1 .. Len(a) : (a \o b)[k] = a[k]
        /\ \A k \in 1 .. Len(b) : (a \o b)[Len(a) + k] = b[k]
    BY <2>0, Concatenated
  <2>2. items \in Seq(Seq(Int))
    BY <2>0 DEF S
  <2> HIDE DEF items
  <2>3. /\ Len(items) = Len(a) + Len(b)
        /\ \A k \in 1 .. Len(a) : items[k] = a[k]
        /\ \A k \in 1 .. Len(b) : items[Len(a) + k] = b[k]
    BY <2>1 DEF items
  <2> QED
    BY <1>3, <1>4, <2>2, <2>3
<1> HIDE DEF items
<1>6. ASSUME NEW i \in 1 .. Len(items) PROVE IsDescriptor(items[i])
  <2>1. i \in 1 .. n \/ i = n + 1
    BY <1>4, <1>5
  <2> QED
    BY <1>1, <1>5, <2>1
<1>7. \A i \in 1 .. n : items[i] = Sec!Descriptor(tag, names[i])
  BY <1>1, <1>5
<1> QED
  BY <1>4, <1>5, <1>6, <1>7 DEF items, a, b, n

(* Every name is read, and of the descriptor behind them nothing. *)
NamesAndLast(s, w, n, tag, other, last) ==
  /\ n \in Nat /\ DOMAIN w = 1 .. n + 1 /\ w[n + 1] \in Nat
  /\ StandsAt(s, w[n + 1], last)
  /\ \A i \in 1 .. n + 1 : Sec!Word8(s, w[i]) = IF i <= n THEN tag ELSE other

(* Names are read in order, and the last descriptor is known by its tag. *)
LEMMA NamesRead ==
  ASSUME NEW s, NEW o \in Nat, NEW tag \in Sec!Byte, NEW names \in Seq(Sec!Name),
         NEW other \in Sec!Byte, other # tag, NEW body \in Seq(Int), Sec!Fits8(body),
         NEW items, items = Sec!PutNames(tag, names) \o <<Sec!Descriptor(other, body)>>,
         Sec!Fits12(Sec!FlattenSeq(items)), StandsAt(s, o, Sec!DescriptorLoop(items))
  PROVE  /\ Sec!NamesOf(s, o, tag) = names
         /\ NamesAndLast(s, Sec!Descriptors(s, o), Len(names), tag, other,
                         Sec!Descriptor(other, body))
<1> DEFINE n == Len(names)
           w == Sec!Descriptors(s, o)
           last == Sec!Descriptor(other, body)
<1>0. last \in Seq(Int) /\ IsDescriptor(last)
  BY DescriptorBytes
<1>1. /\ items \in Seq(Seq(Int)) /\ Len(items) = n + 1 /\ n \in Nat
      /\ \A i \in 1 .. n : items[i] = Sec!Descriptor(tag, names[i])
      /\ items[n + 1] = last
      /\ \A i \in 1 .. Len(items) : IsDescriptor(items[i])
  BY <1>0, NamesLoop
<1>2. Found(s, items, w)
  BY <1>1, DescriptorsFound
<1> HIDE DEF w, last
<1>3. /\ DOMAIN w = 1 .. n + 1
      /\ \A i \in 1 .. n + 1 : w[i] \in Nat /\ StandsAt(s, w[i], items[i])
  BY <1>1, <1>2 DEF Found
<1>4. ASSUME NEW i \in 1 .. n + 1, i <= n
      PROVE  /\ Sec!Word8(s, w[i]) = tag
             /\ Sec!Text(s, w[i] + 2, Sec!Word8(s, w[i] + 1)) = names[i]
  <2>1. i \in 1 .. n /\ w[i] \in Nat /\ w[i] + 2 \in Nat
    BY <1>1, <1>3, <1>4
  <2>2. names[i] \in Seq(Int) /\ Sec!Fits8(names[i])
    BY <2>1, DomainOf, NameBytes
  <2>3. StandsAt(s, w[i], Sec!Descriptor(tag, names[i]))
    BY <1>1, <1>3, <2>1
  <2>4. /\ Sec!Word8(s, w[i]) = tag /\ Sec!Word8(s, w[i] + 1) = Len(names[i])
        /\ StandsAt(s, w[i] + 2, names[i])
    BY <2>1, <2>2, <2>3, DescriptorRead
  <2> QED
    BY <2>1, <2>2, <2>4, TextRead
<1>5. n + 1 \in 1 .. n + 1
  BY <1>1
<1>6. w[n + 1] \in Nat /\ StandsAt(s, w[n + 1], last) /\ Sec!Word8(s, w[n + 1]) = other
  <2>1. w[n + 1] \in Nat /\ StandsAt(s, w[n + 1], last)
    BY <1>1, <1>3, <1>5
  <2> QED
    BY <2>1, DescriptorRead DEF last
<1>7. ASSUME NEW i \in 1 .. n + 1
      PROVE  Sec!Word8(s, w[i]) = IF i <= n THEN tag ELSE other
  <2>1. ~ (i <= n) => i = n + 1
    <3>1. n \in Nat
      BY <1>1
    <3> HIDE DEF n
    <3> QED
      BY <3>1
  <2> HIDE DEF n
  <2> QED
    BY <1>4, <1>6, <2>1
<1> DEFINE seqs == [i \in DOMAIN w |->
                      IF Sec!Word8(s, w[i]) = tag
                      THEN <<Sec!Text(s, w[i] + 2, Sec!Word8(s, w[i] + 1))>> ELSE << >>]
<1>8. Sec!NamesOf(s, o, tag) = Sec!FlattenSeq(seqs)
  BY DEF Sec!NamesOf, Sec!Tagged, Sec!EachOf, Sec!Each, w
<1>9. seqs = [i \in 1 .. n + 1 |-> seqs[i]]
  BY <1>3
<1>10. ASSUME NEW i \in 1 .. n + 1
       PROVE  seqs[i] = IF 0 < i /\ i <= 0 + Len(names) THEN <<names[i - 0]>> ELSE << >>
  <2>1. 0 < i /\ i - 0 = i /\ (i <= 0 + Len(names) <=> i <= n)
    BY <1>1
  <2>2. i <= n => Sec!Word8(s, w[i]) = tag
                  /\ Sec!Text(s, w[i] + 2, Sec!Word8(s, w[i] + 1)) = names[i]
    BY <1>4
  <2>3. ~ (i <= n) => Sec!Word8(s, w[i]) # tag
    BY <1>7
  <2> HIDE DEF n
  <2> QED
    BY <1>3, <2>1, <2>2, <2>3
<1> HIDE DEF seqs
<1>11. Sec!FlattenSeq(seqs) = names
  <2> DEFINE m == n + 1
             a == 0
  <2>1. names \in Seq(Sec!Name) /\ m \in Nat /\ a \in Nat
    BY <1>1
  <2>2. a + Len(names) <= m
    BY <1>1
  <2>3. YieldsBlock(seqs, m, a, names)
    BY <1>9, <1>10, <2>2 DEF YieldsBlock
  <2> HIDE DEF m, a
  <2> QED
    BY <2>1, <2>3, FlattenBlock
<1>12. NamesAndLast(s, w, n, tag, other, last)
  BY <1>1, <1>3, <1>6, <1>7 DEF NamesAndLast
<1> QED
  BY <1>8, <1>11, <1>12 DEF w, last
-----------------------------------------------------------------------------
(* Delivery systems.                                                       *)

(* What may be broadcast of a delivery system is within its fields. *)
LEMMA SystemsFit ==
  /\ \A d \in Sec!TerrestrialSystem : IsTerrestrial(d)
  /\ \A d \in Sec!SatelliteSystem : IsSatellite(d) /\ d.fec \in 0 .. 9
<1>1. \A v \in Nat : v \div 65536 < 65536 => v < 4294967296
  BY SMT
<1>2. /\ Sec!Below(8) = 0 .. 7 /\ Sec!Below(4) = 0 .. 3 /\ Sec!Below(2) = 0 .. 1
      /\ Sec!Below(10) = 0 .. 9
  BY DEF Sec!Below
<1>3. \A v \in Sec!Below(100000000) : v \in Nat /\ v < 100000000
  BY DEF Sec!Below
<1>4. \A v \in Sec!Below(10000000) : v \in Nat /\ v < 10000000
  BY DEF Sec!Below
<1>5. ASSUME NEW d \in Sec!TerrestrialSystem PROVE IsTerrestrial(d)
  <2>1. d.frequency \in Nat /\ d.frequency \div 65536 < 65536
    BY DEF Sec!TerrestrialSystem
  <2>2. FitsWord32(d.frequency)
    BY <1>1, <2>1 DEF FitsWord32
  <2> QED
    BY <1>2, <2>2 DEF Sec!TerrestrialSystem, IsTerrestrial
<1>6. ASSUME NEW d \in Sec!SatelliteSystem PROVE IsSatellite(d) /\ d.fec \in 0 .. 9
  <2>1. d.frequency \in Sec!Below(100000000) /\ d.symbolRate \in Sec!Below(10000000)
    BY DEF Sec!SatelliteSystem
  <2>2. d.fec \in 0 .. 9 /\ d.fec \in 0 .. 15
    <3>1. d.fec \in 0 .. 9
      BY <1>2 DEF Sec!SatelliteSystem
    <3> QED
      BY <3>1
  <2> QED
    BY <1>2, <1>3, <1>4, <2>1, <2>2 DEF Sec!SatelliteSystem, IsSatellite
<1> QED
  BY <1>5, <1>6

(* Both of them are descriptors of eleven bytes. *)
LEMMA TerrestrialBytes ==
  ASSUME NEW d, IsTerrestrial(d)
  PROVE  \E b : Bytes(b, 11) /\ Sec!PutDelivery(d) = Sec!Descriptor(90, b)
<1> DEFINE b == Sec!Put8(d.bandwidth * 32 + 31)
           c == Sec!Put8(d.constellation * 64 + d.hierarchy * 8 + d.hp)
           l == Sec!Put8(d.lp * 32 + d.guard * 8 + d.mode * 2)
           f == Sec!Put32(d.frequency)
           z == Sec!Put32(4294967 * 256)
           p3 == (f \o b) \o c
           p == (p3 \o l) \o z
<1>1. Sec!PutDelivery(d) = Sec!Descriptor(90, p)
  BY SMT DEF IsTerrestrial, Sec!PutDelivery, Sec!Tag
<1>2. Bytes(b, 1) /\ Bytes(c, 1) /\ Bytes(l, 1) /\ Bytes(f, 4) /\ Bytes(z, 4)
  <2>1. 4294967 * 256 \in Nat
    BY SMT
  <2>2. /\ d.bandwidth \in Nat /\ d.constellation \in Nat /\ d.hierarchy \in Nat /\ d.hp \in Nat
        /\ d.lp \in Nat /\ d.guard \in Nat /\ d.mode \in Nat /\ d.frequency \in Nat
    BY DEF IsTerrestrial
  <2>3. /\ d.bandwidth * 32 + 31 \in Nat /\ d.constellation * 64 + d.hierarchy * 8 + d.hp \in Nat
        /\ d.lp * 32 + d.guard * 8 + d.mode * 2 \in Nat
    BY <2>2
  <2> QED
    BY <2>1, <2>2, <2>3, PutBytes, SMT
<1> HIDE DEF b, c, l, f, z
<1>3. Bytes(p3, 6)
  BY <1>2, JoinedThree
<1> HIDE DEF p3
<1>4. Bytes(p, 11)
  BY <1>2, <1>3, JoinedThree
<1> HIDE DEF p
<1> QED
  BY <1>1, <1>4

(* A satellite's descriptor is eleven bytes of payload. *)
LEMMA SatelliteBytes ==
  ASSUME NEW d, IsSatellite(d)
  PROVE  \E b : Bytes(b, 11) /\ Sec!PutDelivery(d) = Sec!Descriptor(67, b)
<1> DEFINE rate == d.symbolRate
           g == Sec!Put8(128 + d.polarization * 32 + d.rolloff * 8 + d.s2 * 4 + d.modulation)
           h == Sec!Put8((rate % 10) * 16 + d.fec)
           f == Sec!PutBcd32(d.frequency)
           pos == Sec!Put16(642)
           b1 == Sec!PutBcd8(rate \div 100000)
           b2 == Sec!PutBcd8(rate \div 1000)
           b3 == Sec!PutBcd8(rate \div 10)
           p3 == (f \o pos) \o g
           p5 == (p3 \o b1) \o b2
           p == (p5 \o b3) \o h
<1>1. Sec!PutDelivery(d) = Sec!Descriptor(67, p)
  BY SMT DEF IsSatellite, Sec!PutDelivery, Sec!Tag
<1>2. /\ d.frequency \in Nat /\ rate \in Nat /\ d.fec \in Nat /\ d.polarization \in Nat
      /\ d.rolloff \in Nat /\ d.s2 \in Nat /\ d.modulation \in Nat
  BY DEF IsSatellite
<1>3. /\ 128 + d.polarization * 32 + d.rolloff * 8 + d.s2 * 4 + d.modulation \in Nat
      /\ (rate % 10) * 16 + d.fec \in Nat
      /\ rate \div 100000 \in Nat /\ rate \div 1000 \in Nat /\ rate \div 10 \in Nat
  BY <1>2, SMT
<1>4. /\ Bytes(g, 1) /\ Bytes(h, 1) /\ Bytes(f, 4) /\ Bytes(pos, 2)
      /\ Bytes(b1, 1) /\ Bytes(b2, 1) /\ Bytes(b3, 1)
  BY <1>2, <1>3, PutBytes, PutBcd32Bytes, PairOfDigits, SMT
<1> HIDE DEF g, h, f, pos, b1, b2, b3
<1>5. Bytes(p3, 7)
  BY <1>4, JoinedThree
<1> HIDE DEF p3
<1>6. Bytes(p5, 9)
  BY <1>4, <1>5, JoinedThree
<1> HIDE DEF p5
<1>7. Bytes(p, 11)
  BY <1>4, <1>6, JoinedThree
<1> HIDE DEF p
<1> QED
  BY <1>1, <1>7

(* The delivery system's descriptor, of either kind, is read as what it was *)
(* written of, and for nothing else.                                        *)
LEMMA DeliveryRead ==
  ASSUME NEW d \in Sec!TerrestrialSystem \cup Sec!SatelliteSystem
  PROVE  /\ Sec!PutDelivery(d) \in Seq(Int) /\ IsDescriptor(Sec!PutDelivery(d))
         /\ \A s : \A o \in Nat : StandsAt(s, o, Sec!PutDelivery(d)) =>
              Sec!Word8(s, o) \in {67, 90} /\ Sec!DeliverySystem(s, o) = <<d>>
<1> DEFINE p == Sec!PutDelivery(d)
<1>0. 90 \in Sec!Byte /\ 67 \in Sec!Byte
  BY DEF Sec!Byte, Sec!Below
<1>1. ASSUME NEW b, Bytes(b, 11)
      PROVE  b \in Seq(Int) /\ Sec!Fits8(b)
  BY <1>1 DEF Bytes, Sec!Fits8
<1>2. CASE d \in Sec!TerrestrialSystem
  <2>1. PICK b : Bytes(b, 11) /\ p = Sec!Descriptor(90, b)
    BY <1>2, SystemsFit, TerrestrialBytes
  <2>2. b \in Seq(Int) /\ Sec!Fits8(b)
    BY <1>1, <2>1
  <2>3. p \in Seq(Int) /\ IsDescriptor(p)
    BY <1>0, <2>1, <2>2, DescriptorBytes
  <2>4. ASSUME NEW s, NEW o \in Nat, StandsAt(s, o, p)
        PROVE  Sec!Word8(s, o) = 90 /\ Sec!Terrestrial(s, o) = d
    <3>1. Sec!Terrestrial(s, o) = d
      BY <1>2, <2>4, SystemsFit, TerrestrialReadAsWritten
    <3> HIDE DEF p
    <3>2. Sec!Word8(s, o) = 90
      BY <1>0, <2>1, <2>2, <2>4, DescriptorRead
    <3> QED
      BY <3>1, <3>2
  <2> HIDE DEF p
  <2>5. ASSUME NEW s, NEW o \in Nat, StandsAt(s, o, p)
        PROVE  Sec!Word8(s, o) \in {67, 90} /\ Sec!DeliverySystem(s, o) = <<d>>
    BY <2>4, <2>5 DEF Sec!DeliverySystem, Sec!Tag
  <2> QED
    BY <2>3, <2>5 DEF p
<1>3. CASE d \in Sec!SatelliteSystem
  <2>1. PICK b : Bytes(b, 11) /\ p = Sec!Descriptor(67, b)
    BY <1>3, SystemsFit, SatelliteBytes
  <2>2. b \in Seq(Int) /\ Sec!Fits8(b)
    BY <1>1, <2>1
  <2>3. p \in Seq(Int) /\ IsDescriptor(p)
    BY <1>0, <2>1, <2>2, DescriptorBytes
  <2>4. ASSUME NEW s, NEW o \in Nat, StandsAt(s, o, p)
        PROVE  Sec!Word8(s, o) = 67 /\ Sec!Satellite(s, o) = d
    <3>1. Sec!Satellite(s, o) = [d EXCEPT !.symbolRate = d.symbolRate + (d.fec \div 10)]
      BY <1>3, <2>4, SystemsFit, SatelliteReadAsWritten
    <3>2. d.fec \div 10 = 0 /\ d.symbolRate \in Nat
      <4>1. d.fec \in 0 .. 9 /\ IsSatellite(d)
        BY <1>3, SystemsFit
      <4> QED
        BY <4>1 DEF IsSatellite
    <3>3. d = [d EXCEPT !.symbolRate = d.symbolRate]
      BY <1>3 DEF Sec!SatelliteSystem
    <3>4. d.symbolRate + (d.fec \div 10) = d.symbolRate
      BY <3>2
    <3> HIDE DEF p
    <3>5. Sec!Word8(s, o) = 67
      BY <1>0, <2>1, <2>2, <2>4, DescriptorRead
    <3> QED
      BY <3>1, <3>3, <3>4, <3>5
  <2> HIDE DEF p
  <2>5. ASSUME NEW s, NEW o \in Nat, StandsAt(s, o, p)
        PROVE  Sec!Word8(s, o) \in {67, 90} /\ Sec!DeliverySystem(s, o) = <<d>>
    BY <2>4, <2>5 DEF Sec!DeliverySystem, Sec!Tag
  <2> QED
    BY <2>3, <2>5 DEF p
<1> QED
  BY <1>2, <1>3
-----------------------------------------------------------------------------
(* Transport streams: what each descriptor of one yields.                   *)

(* The tags are bytes, and what they are. *)
LEMMA Tags ==
  /\ Sec!Tag.network_name = 64 /\ Sec!Tag.service_list = 65 /\ Sec!Tag.satellite = 67
  /\ Sec!Tag.bouquet_name = 71 /\ Sec!Tag.service = 72 /\ Sec!Tag.terrestrial = 90
  /\ Sec!Tag.freeview_lcn = 131 /\ Sec!Tag.freesat_region = 212 /\ Sec!Tag.freesat_lcn = 211
  /\ \A tag \in {64, 65, 67, 71, 72, 90, 95, 131, 211, 212} : tag \in Sec!Byte
BY DEF Sec!Tag, Sec!Byte, Sec!Below

(* A descriptor that shows its tag wherever it stands. *)
Shows(x, tag) ==
  /\ x \in Seq(Int) /\ IsDescriptor(x)
  /\ \A s : \A o \in Nat : StandsAt(s, o, x) => Sec!Word8(s, o) = tag

(* Whatever the writer makes a descriptor of does. *)
LEMMA ShowsTag ==
  ASSUME NEW tag \in Sec!Byte, NEW b \in Seq(Int), Sec!Fits8(b)
  PROVE  Shows(Sec!Descriptor(tag, b), tag)
<1> DEFINE x == Sec!Descriptor(tag, b)
<1>1. x \in Seq(Int) /\ IsDescriptor(x)
  BY DescriptorBytes
<1>2. ASSUME NEW s, NEW o \in Nat, StandsAt(s, o, x) PROVE Sec!Word8(s, o) = tag
  BY <1>2, DescriptorRead
<1> QED
  BY <1>1, <1>2 DEF Shows

(* The private descriptor is one of a tag the program does not know. *)
LEMMA PrivateShows == Shows(Sec!Private, 95)
<1> DEFINE b == Sec!Put32(9018)
<1>1. Bytes(b, 4)
  BY PutBytes
<1> HIDE DEF b
<1>2. b \in Seq(Int) /\ Sec!Fits8(b)
  BY <1>1 DEF Bytes, Sec!Fits8
<1>3. 95 \in Sec!Byte
  BY Tags
<1>4. Shows(Sec!Descriptor(95, b), 95)
  BY <1>2, <1>3, ShowsTag
<1> QED
  BY <1>4 DEF b, Sec!Private

(* What is written of a list of numbers are bytes. *)
LEMMA ListsTyped ==
  /\ \A services \in Seq(Sec!Word) : Sec!EachOf(services, Sec!PutListed) \in Seq(Int)
  /\ \A lcns \in Seq(Sec!Lcn) : Sec!EachOf(lcns, Sec!PutLcn) \in Seq(Int)
<1>1. ASSUME NEW services \in Seq(Sec!Word)
      PROVE  Sec!EachOf(services, Sec!PutListed) \in Seq(Int)
  <2> DEFINE items == Sec!Each(services, Sec!PutListed)
  <2>1. ASSUME NEW i \in 1 .. Len(services) PROVE items[i] \in Seq(Int)
    <3>1. items[i] = Sec!PutListed(services[i]) /\ services[i] \in Sec!Word
      BY DomainOf DEF Sec!Each
    <3> HIDE DEF items
    <3> QED
      BY <3>1, ListedRead DEF Bytes
  <2>2. items = [i \in DOMAIN services |-> items[i]]
    BY DEF Sec!Each
  <2> HIDE DEF items
  <2>3. Sec!FlattenSeq(items) \in Seq(Int)
    BY <2>1, <2>2, PiecesOf, FlattenTyped
  <2> QED
    BY <2>3 DEF items, Sec!EachOf
<1>2. ASSUME NEW lcns \in Seq(Sec!Lcn)
      PROVE  Sec!EachOf(lcns, Sec!PutLcn) \in Seq(Int)
  <2> DEFINE items == Sec!Each(lcns, Sec!PutLcn)
  <2>1. ASSUME NEW i \in 1 .. Len(lcns) PROVE items[i] \in Seq(Int)
    <3>1. items[i] = Sec!PutLcn(lcns[i]) /\ lcns[i] \in Sec!Lcn
      BY DomainOf DEF Sec!Each
    <3> HIDE DEF items
    <3> QED
      BY <3>1, LcnRead DEF Bytes
  <2>2. items = [i \in DOMAIN lcns |-> items[i]]
    BY DEF Sec!Each
  <2> HIDE DEF items
  <2>3. Sec!FlattenSeq(items) \in Seq(Int)
    BY <2>1, <2>2, PiecesOf, FlattenTyped
  <2> QED
    BY <2>3 DEF items, Sec!EachOf
<1> QED
  BY <1>1, <1>2

(* Four parts of a sequence: each element is of one of them. *)
LEMMA FourParts ==
  ASSUME NEW S, NEW a \in Seq(S), NEW b \in Seq(S), NEW c \in Seq(S), NEW d \in Seq(S)
  PROVE  LET x == ((a \o b) \o c) \o d
         IN /\ x \in Seq(S) /\ Len(x) = ((Len(a) + Len(b)) + Len(c)) + Len(d)
            /\ \A i \in 1 .. Len(x) :
                 \/ i \in 1 .. Len(a) /\ x[i] = a[i]
                 \/ i - Len(a) \in 1 .. Len(b) /\ x[i] = b[i - Len(a)]
                 \/ /\ i - (Len(a) + Len(b)) \in 1 .. Len(c)
                    /\ x[i] = c[i - (Len(a) + Len(b))]
                 \/ /\ i - ((Len(a) + Len(b)) + Len(c)) \in 1 .. Len(d)
                    /\ x[i] = d[i - ((Len(a) + Len(b)) + Len(c))]
<1>1. ASSUME NEW p \in Seq(S), NEW q \in Seq(S)
      PROVE  /\ p \o q \in Seq(S) /\ Len(p \o q) = Len(p) + Len(q)
             /\ \A i \in 1 .. Len(p \o q) :
                  \/ i \in 1 .. Len(p) /\ (p \o q)[i] = p[i]
                  \/ i - Len(p) \in 1 .. Len(q) /\ (p \o q)[i] = q[i - Len(p)]
  <2>1. p \o q \in Seq(S) /\ Len(p) \in Nat /\ Len(q) \in Nat
    OBVIOUS
  <2>2. /\ Len(p \o q) = Len(p) + Len(q)
        /\ \A k \in 1 .. Len(p) : (p \o q)[k] = p[k]
        /\ \A k \in 1 .. Len(q) : (p \o q)[Len(p) + k] = q[k]
    BY Concatenated
  <2>3. ASSUME NEW i \in 1 .. Len(p \o q), i \notin 1 .. Len(p)
        PROVE  i - Len(p) \in 1 .. Len(q) /\ (p \o q)[i] = q[i - Len(p)]
    <3>1. i - Len(p) \in 1 .. Len(q) /\ Len(p) + (i - Len(p)) = i
      BY <2>1, <2>2, <2>3
    <3> QED
      BY <2>2, <3>1
  <2> QED
    BY <2>1, <2>2, <2>3
<1> DEFINE ab == a \o b
           abc == ab \o c
           x == abc \o d
<1>2. /\ ab \in Seq(S) /\ Len(ab) = Len(a) + Len(b)
      /\ \A i \in 1 .. Len(ab) : \/ i \in 1 .. Len(a) /\ ab[i] = a[i]
                                 \/ i - Len(a) \in 1 .. Len(b) /\ ab[i] = b[i - Len(a)]
  BY <1>1
<1> HIDE DEF ab
<1>3. /\ abc \in Seq(S) /\ Len(abc) = Len(ab) + Len(c)
      /\ \A i \in 1 .. Len(abc) : \/ i \in 1 .. Len(ab) /\ abc[i] = ab[i]
                                  \/ i - Len(ab) \in 1 .. Len(c) /\ abc[i] = c[i - Len(ab)]
  BY <1>1, <1>2
<1> HIDE DEF abc
<1>4. /\ x \in Seq(S) /\ Len(x) = Len(abc) + Len(d)
      /\ \A i \in 1 .. Len(x) : \/ i \in 1 .. Len(abc) /\ x[i] = abc[i]
                                \/ i - Len(abc) \in 1 .. Len(d) /\ x[i] = d[i - Len(abc)]
  BY <1>1, <1>3
<1> HIDE DEF x
<1>5. ASSUME NEW i \in 1 .. Len(x)
      PROVE  \/ i \in 1 .. Len(a) /\ x[i] = a[i]
             \/ i - Len(a) \in 1 .. Len(b) /\ x[i] = b[i - Len(a)]
             \/ i - Len(ab) \in 1 .. Len(c) /\ x[i] = c[i - Len(ab)]
             \/ i - Len(abc) \in 1 .. Len(d) /\ x[i] = d[i - Len(abc)]
  BY <1>2, <1>3, <1>4
<1>6. Len(x) = ((Len(a) + Len(b)) + Len(c)) + Len(d)
  BY <1>2, <1>3, <1>4
<1>7. x \in Seq(S)
  BY <1>4
<1>8. ASSUME NEW i \in 1 .. Len(x)
      PROVE  \/ i \in 1 .. Len(a) /\ x[i] = a[i]
             \/ i - Len(a) \in 1 .. Len(b) /\ x[i] = b[i - Len(a)]
             \/ /\ i - (Len(a) + Len(b)) \in 1 .. Len(c)
                /\ x[i] = c[i - (Len(a) + Len(b))]
             \/ /\ i - ((Len(a) + Len(b)) + Len(c)) \in 1 .. Len(d)
                /\ x[i] = d[i - ((Len(a) + Len(b)) + Len(c))]
  BY <1>2, <1>3, <1>5
<1> QED
  BY <1>6, <1>7, <1>8 DEF x, abc, ab

(* The descriptors of a transport stream: the list of its services, if it   *)
(* has any, a private one, its delivery systems, and channel numbers if any. *)
Lead(list) == IF list = << >> THEN 0 ELSE 1

StreamItem(t, x, i) ==
  LET a == Lead(t.services)
      n == Len(t.delivery)
  IN \/ /\ i = 1 /\ t.services # << >>
        /\ x = Sec!Descriptor(65, Sec!EachOf(t.services, Sec!PutListed))
     \/ i = a + 1 /\ x = Sec!Private
     \/ i - (a + 1) \in 1 .. n /\ x = Sec!PutDelivery(t.delivery[i - (a + 1)])
     \/ /\ i = (a + 1) + (n + 1) /\ t.lcns # << >>
        /\ x = Sec!Descriptor(131, Sec!EachOf(t.lcns, Sec!PutLcn))

(* What a transport stream consists of. *)
LEMMA StreamTyped ==
  ASSUME NEW t \in Sec!Stream
  PROVE  /\ t = [key |-> t.key, services |-> t.services, lcns |-> t.lcns,
                 delivery |-> t.delivery]
         /\ t.key \in Sec!Word \X Sec!Word
         /\ t.services \in Seq(Sec!Word) /\ t.lcns \in Seq(Sec!Lcn)
         /\ t.delivery \in Seq(Sec!TerrestrialSystem \cup Sec!SatelliteSystem)
         /\ Sec!Fits8(Sec!EachOf(t.services, Sec!PutListed))
         /\ Sec!Fits8(Sec!EachOf(t.lcns, Sec!PutLcn))
         /\ Sec!Fits12(Sec!FlattenSeq(Sec!StreamDescriptors(t)))
<1> DEFINE R == [key : Sec!Word \X Sec!Word, services : Seq(Sec!Word), lcns : Seq(Sec!Lcn),
                 delivery : Seq(Sec!TerrestrialSystem \cup Sec!SatelliteSystem)]
<1>1. /\ t \in R /\ Sec!Fits8(Sec!EachOf(t.services, Sec!PutListed))
      /\ Sec!Fits8(Sec!EachOf(t.lcns, Sec!PutLcn))
      /\ Sec!Fits12(Sec!FlattenSeq(Sec!StreamDescriptors(t)))
  BY DEF Sec!Stream
<1>2. /\ t = [key |-> t.key, services |-> t.services, lcns |-> t.lcns,
              delivery |-> t.delivery]
      /\ t.key \in Sec!Word \X Sec!Word
      /\ t.services \in Seq(Sec!Word) /\ t.lcns \in Seq(Sec!Lcn)
      /\ t.delivery \in Seq(Sec!TerrestrialSystem \cup Sec!SatelliteSystem)
  BY <1>1
<1> QED
  BY <1>1, <1>2

(* The descriptors of a transport stream, each at its place in the loop. *)
LEMMA StreamItems ==
  ASSUME NEW t \in Sec!Stream
  PROVE  LET items == Sec!StreamDescriptors(t)
         IN /\ items \in Seq(Seq(Int))
            /\ Len(items) = ((Lead(t.services) + 1) + Len(t.delivery)) + Lead(t.lcns)
            /\ \A i \in 1 .. Len(items) : StreamItem(t, items[i], i)
<1> DEFINE S == Seq(Int)
           p == Sec!Descriptor(65, Sec!EachOf(t.services, Sec!PutListed))
           q == Sec!Descriptor(131, Sec!EachOf(t.lcns, Sec!PutLcn))
           a == Sec!IfAny(t.services, p)
           b == <<Sec!Private>>
           c == Sec!Each(t.delivery, Sec!PutDelivery)
           d == Sec!IfAny(t.lcns, q)
           x == ((a \o b) \o c) \o d
           n == Len(t.delivery)
<1>1. Sec!StreamDescriptors(t) = x
  BY Tags DEF Sec!StreamDescriptors
<1>2. p \in S /\ q \in S /\ Sec!Private \in S
  <2>1. p \in S
    BY StreamTyped, ListsTyped, Tags, DescriptorBytes
  <2>2. q \in S
    BY StreamTyped, ListsTyped, Tags, DescriptorBytes
  <2> QED
    BY <2>1, <2>2, PrivateShows DEF Shows
<1>3. /\ c \in Seq(S) /\ Len(c) = n /\ n \in Nat
      /\ \A i \in 1 .. n : c[i] = Sec!PutDelivery(t.delivery[i])
  <2>0. t.delivery \in Seq(Sec!TerrestrialSystem \cup Sec!SatelliteSystem)
    BY StreamTyped
  <2>1. ASSUME NEW i \in 1 .. n
        PROVE  c[i] = Sec!PutDelivery(t.delivery[i]) /\ c[i] \in Seq(Int)
    <3>1. /\ c[i] = Sec!PutDelivery(t.delivery[i])
          /\ t.delivery[i] \in Sec!TerrestrialSystem \cup Sec!SatelliteSystem
      BY <2>0, DomainOf DEF Sec!Each
    <3> HIDE DEF c
    <3> QED
      BY <3>1, DeliveryRead
  <2>2. c = [i \in DOMAIN t.delivery |-> c[i]]
    BY DEF Sec!Each
  <2> HIDE DEF c
  <2> QED
    BY <2>0, <2>1, <2>2, PiecesOf
<1> HIDE DEF p, q, c, S
<1>4. /\ a \in Seq(S) /\ Len(a) = Lead(t.services)
      /\ \A i \in 1 .. Len(a) : t.services # << >> /\ i = 1 /\ a[i] = p
  <2>1. CASE t.services = << >>
    BY <2>1 DEF Sec!IfAny, Lead
  <2>2. CASE t.services # << >>
    <3>1. a = <<p>> /\ Lead(t.services) = 1
      BY <2>2 DEF Sec!IfAny, Lead
    <3> HIDE DEF a
    <3> QED
      BY <1>2, <2>2, <3>1
  <2> QED
    BY <2>1, <2>2
<1>5. /\ d \in Seq(S) /\ Len(d) = Lead(t.lcns)
      /\ \A i \in 1 .. Len(d) : t.lcns # << >> /\ i = 1 /\ d[i] = q
  <2>1. CASE t.lcns = << >>
    BY <2>1 DEF Sec!IfAny, Lead
  <2>2. CASE t.lcns # << >>
    <3>1. d = <<q>> /\ Lead(t.lcns) = 1
      BY <2>2 DEF Sec!IfAny, Lead
    <3> HIDE DEF d
    <3> QED
      BY <1>2, <2>2, <3>1
  <2> QED
    BY <2>1, <2>2
<1>6. b \in Seq(S) /\ Len(b) = 1 /\ \A i \in 1 .. 1 : i = 1 /\ b[i] = Sec!Private
  BY <1>2
<1> HIDE DEF a, b, d
<1>7. /\ x \in Seq(S) /\ Len(x) = ((Len(a) + Len(b)) + Len(c)) + Len(d)
      /\ \A i \in 1 .. Len(x) :
           \/ i \in 1 .. Len(a) /\ x[i] = a[i]
           \/ i - Len(a) \in 1 .. Len(b) /\ x[i] = b[i - Len(a)]
           \/ i - (Len(a) + Len(b)) \in 1 .. Len(c) /\ x[i] = c[i - (Len(a) + Len(b))]
           \/ /\ i - ((Len(a) + Len(b)) + Len(c)) \in 1 .. Len(d)
              /\ x[i] = d[i - ((Len(a) + Len(b)) + Len(c))]
  BY <1>3, <1>4, <1>5, <1>6, FourParts
<1> HIDE DEF x
<1>8. Lead(t.services) \in Nat
  BY DEF Lead
<1> DEFINE m == Lead(t.services)
<1> HIDE DEF m, n
<1>9. m \in Nat /\ n \in Nat /\ Len(a) = m /\ Len(b) = 1 /\ Len(c) = n
  BY <1>3, <1>4, <1>6, <1>8 DEF m
<1>10. ASSUME NEW i \in 1 .. Len(x)
       PROVE  \/ i = 1 /\ t.services # << >> /\ x[i] = p
              \/ i = m + 1 /\ x[i] = Sec!Private
              \/ i - (m + 1) \in 1 .. n /\ x[i] = Sec!PutDelivery(t.delivery[i - (m + 1)])
              \/ i = (m + 1) + (n + 1) /\ t.lcns # << >> /\ x[i] = q
  <2>1. CASE i \in 1 .. Len(a) /\ x[i] = a[i]
    BY <1>4, <2>1
  <2>2. CASE i - Len(a) \in 1 .. Len(b) /\ x[i] = b[i - Len(a)]
    <3>1. i - m = 1
      BY <1>6, <1>9, <2>2
    <3>2. i = m + 1
      BY <1>9, <3>1
    <3> QED
      BY <1>6, <1>9, <2>2, <3>2
  <2>3. CASE i - (Len(a) + Len(b)) \in 1 .. Len(c) /\ x[i] = c[i - (Len(a) + Len(b))]
    <3>1. i - (m + 1) \in 1 .. n /\ x[i] = c[i - (m + 1)]
      BY <1>9, <2>3
    <3> QED
      BY <1>3, <3>1
  <2>4. CASE /\ i - ((Len(a) + Len(b)) + Len(c)) \in 1 .. Len(d)
             /\ x[i] = d[i - ((Len(a) + Len(b)) + Len(c))]
    <3>1. /\ t.lcns # << >> /\ i - ((Len(a) + Len(b)) + Len(c)) = 1 /\ x[i] = q
      BY <1>5, <2>4
    <3>2. i - ((m + 1) + n) = 1 /\ i \in Int
      BY <1>9, <3>1
    <3>3. i = (m + 1) + (n + 1)
      BY <1>9, <3>2
    <3> QED
      BY <3>1, <3>3
  <2> QED
    BY <1>7, <2>1, <2>2, <2>3, <2>4
<1>11. Len(x) = ((m + 1) + n) + Lead(t.lcns)
  BY <1>5, <1>7, <1>9
<1>12. \A i \in 1 .. Len(x) : StreamItem(t, x[i], i)
  BY <1>10 DEF StreamItem, m, n, p, q
<1> QED
  BY <1>1, <1>7, <1>11, <1>12 DEF S, m, n

(* What each of a transport stream's descriptors yields where it stands. *)
LEMMA StreamItemRead ==
  ASSUME NEW t \in Sec!Stream, NEW i \in Nat, NEW x, StreamItem(t, x, i)
  PROVE  /\ IsDescriptor(x)
         /\ \A s : \A o \in Nat : StandsAt(s, o, x) =>
              LET m == Lead(t.services) + 1
                  n == Len(t.delivery)
              IN /\ (IF Sec!Word8(s, o) = 65 THEN Sec!ServiceList(s, o) ELSE << >>)
                      = IF i = 1 /\ t.services # << >> THEN t.services ELSE << >>
                 /\ (IF Sec!Word8(s, o) = 131 THEN Sec!FreeviewLcns(s, o) ELSE << >>)
                      = IF i = m + (n + 1) /\ t.lcns # << >> THEN t.lcns ELSE << >>
                 /\ Sec!DeliverySystem(s, o)
                      = IF i - m \in 1 .. n THEN <<t.delivery[i - m]>> ELSE << >>
<1> DEFINE m == Lead(t.services) + 1
           n == Len(t.delivery)
           p == Sec!EachOf(t.services, Sec!PutListed)
           q == Sec!EachOf(t.lcns, Sec!PutLcn)
<1>1. /\ t.services \in Seq(Sec!Word) /\ t.lcns \in Seq(Sec!Lcn)
      /\ t.delivery \in Seq(Sec!TerrestrialSystem \cup Sec!SatelliteSystem)
      /\ Sec!Fits8(p) /\ Sec!Fits8(q) /\ p \in Seq(Int) /\ q \in Seq(Int)
  BY StreamTyped, ListsTyped
<1>2. /\ m \in Nat /\ n \in Nat /\ m >= 1 /\ (t.services # << >> => m = 2)
  BY <1>1 DEF Lead
<1>3. /\ \A s : \A o \in Nat : StandsAt(s, o, Sec!Descriptor(65, p)) =>
           Sec!ServiceList(s, o) = t.services
      /\ \A s : \A o \in Nat : StandsAt(s, o, Sec!Descriptor(131, q)) =>
           Sec!FreeviewLcns(s, o) = t.lcns
  BY <1>1, ServiceListRead, FreeviewLcnsRead
<1> HIDE DEF p, q
<1>4. Shows(Sec!Descriptor(65, p), 65) /\ Shows(Sec!Descriptor(131, q), 131)
  BY <1>1, ShowsTag, Tags
<1>5. \A s, o : /\ Sec!Word8(s, o) \notin {67, 90} => Sec!DeliverySystem(s, o) = << >>
  BY Tags DEF Sec!DeliverySystem
<1>6. \/ i = 1 /\ t.services # << >> /\ x = Sec!Descriptor(65, p)
      \/ i = m /\ x = Sec!Private
      \/ i - m \in 1 .. n /\ x = Sec!PutDelivery(t.delivery[i - m])
      \/ i = m + (n + 1) /\ t.lcns # << >> /\ x = Sec!Descriptor(131, q)
  BY DEF StreamItem, p, q
<1> HIDE DEF m, n
<1> DEFINE listed(s, o) == IF Sec!Word8(s, o) = 65 THEN Sec!ServiceList(s, o) ELSE << >>
           numbered(s, o) == IF Sec!Word8(s, o) = 131 THEN Sec!FreeviewLcns(s, o) ELSE << >>
           services == IF i = 1 /\ t.services # << >> THEN t.services ELSE << >>
           lcns == IF i = m + (n + 1) /\ t.lcns # << >> THEN t.lcns ELSE << >>
           delivery == IF i - m \in 1 .. n THEN <<t.delivery[i - m]>> ELSE << >>
<1> SUFFICES /\ IsDescriptor(x)
             /\ \A s : \A o \in Nat : StandsAt(s, o, x) =>
                  /\ listed(s, o) = services /\ numbered(s, o) = lcns
                  /\ Sec!DeliverySystem(s, o) = delivery
  BY DEF m, n
<1>7. CASE i = 1 /\ t.services # << >> /\ x = Sec!Descriptor(65, p)
  <2>1. services = t.services /\ lcns = << >> /\ delivery = << >>
    BY <1>2, <1>7
  <2>2. IsDescriptor(x)
    BY <1>4, <1>7 DEF Shows
  <2>3. ASSUME NEW s, NEW o \in Nat, StandsAt(s, o, x)
        PROVE  /\ listed(s, o) = t.services /\ numbered(s, o) = << >>
               /\ Sec!DeliverySystem(s, o) = << >>
    <3>1. Sec!Word8(s, o) = 65 /\ Sec!ServiceList(s, o) = t.services
      BY <1>3, <1>4, <1>7, <2>3 DEF Shows
    <3> QED
      BY <1>5, <3>1
  <2> QED
    BY <2>1, <2>2, <2>3
<1>8. CASE i = m /\ x = Sec!Private
  <2>1. services = << >> /\ lcns = << >> /\ delivery = << >>
    BY <1>2, <1>8
  <2>2. IsDescriptor(x)
    BY <1>8, PrivateShows DEF Shows
  <2>3. ASSUME NEW s, NEW o \in Nat, StandsAt(s, o, x)
        PROVE  /\ listed(s, o) = << >> /\ numbered(s, o) = << >>
               /\ Sec!DeliverySystem(s, o) = << >>
    <3>1. Sec!Word8(s, o) = 95
      BY <1>8, <2>3, PrivateShows DEF Shows
    <3> QED
      BY <1>5, <3>1
  <2> QED
    BY <2>1, <2>2, <2>3
<1>9. CASE i - m \in 1 .. n /\ x = Sec!PutDelivery(t.delivery[i - m])
  <2> DEFINE d == t.delivery[i - m]
  <2>1. services = << >> /\ lcns = << >> /\ delivery = <<d>>
    BY <1>2, <1>9
  <2>2. d \in Sec!TerrestrialSystem \cup Sec!SatelliteSystem
    BY <1>1, <1>9, DomainOf DEF n
  <2>3. x = Sec!PutDelivery(d)
    BY <1>9
  <2> HIDE DEF d
  <2>4. IsDescriptor(x)
    BY <2>2, <2>3, DeliveryRead
  <2>5. ASSUME NEW s, NEW o \in Nat, StandsAt(s, o, x)
        PROVE  /\ listed(s, o) = << >> /\ numbered(s, o) = << >>
               /\ Sec!DeliverySystem(s, o) = <<d>>
    <3>1. Sec!Word8(s, o) \in {67, 90} /\ Sec!DeliverySystem(s, o) = <<d>>
      BY <2>2, <2>3, <2>5, DeliveryRead
    <3> QED
      BY <3>1
  <2> HIDE DEF services, lcns, delivery, listed, numbered
  <2> QED
    BY <2>1, <2>4, <2>5
<1>10. CASE i = m + (n + 1) /\ t.lcns # << >> /\ x = Sec!Descriptor(131, q)
  <2>1. services = << >> /\ lcns = t.lcns /\ delivery = << >>
    BY <1>2, <1>10
  <2>2. IsDescriptor(x)
    BY <1>4, <1>10 DEF Shows
  <2>3. ASSUME NEW s, NEW o \in Nat, StandsAt(s, o, x)
        PROVE  /\ listed(s, o) = << >> /\ numbered(s, o) = t.lcns
               /\ Sec!DeliverySystem(s, o) = << >>
    <3>1. Sec!Word8(s, o) = 131 /\ Sec!FreeviewLcns(s, o) = t.lcns
      BY <1>3, <1>4, <1>10, <2>3 DEF Shows
    <3> QED
      BY <1>5, <3>1
  <2> QED
    BY <2>1, <2>2, <2>3
<1> QED
  BY <1>6, <1>7, <1>8, <1>9, <1>10

(* A list that is with one of the items, or empty and with none. *)
YieldsAny(seqs, n, a, x) ==
  /\ seqs = [i \in 1 .. n |-> seqs[i]] /\ (x # << >> => a \in 1 .. n)
  /\ \A i \in 1 .. n : seqs[i] = IF i = a /\ x # << >> THEN x ELSE << >>

(* The joining of such a loop's yields is that list. *)
LEMMA FlattenAny ==
  ASSUME NEW V, NEW n \in Nat, NEW a \in Nat, NEW x \in Seq(V),
         NEW seqs, YieldsAny(seqs, n, a, x)
  PROVE  Sec!FlattenSeq(seqs) = x
<1>1. CASE x # << >>
  <2>1. YieldsOne(seqs, n, a, x) /\ a \in 1 .. n
    BY <1>1 DEF YieldsAny, YieldsOne
  <2> QED
    BY <2>1, FlattenOne
<1>2. CASE x = << >>
  <2> DEFINE z == 0
             e == << >>
  <2>1. z \in Nat /\ z + Len(e) <= n /\ e \in Seq(V)
    OBVIOUS
  <2>2. \A i \in 1 .. n : seqs[i] = e /\ ~ (z < i /\ i <= z + Len(e))
    BY <1>2 DEF YieldsAny
  <2>3. e = << >>
    OBVIOUS
  <2> HIDE DEF z, e
  <2>4. YieldsBlock(seqs, n, z, e)
    BY <2>1, <2>2, <2>3 DEF YieldsAny, YieldsBlock
  <2>5. Sec!FlattenSeq(seqs) = e
    BY <2>1, <2>4, FlattenBlock
  <2> QED
    BY <1>2, <2>3, <2>5
<1> QED
  BY <1>1, <1>2

(* All that is read of a transport stream's descriptors is what it was     *)
(* written from.                                                           *)
LEMMA StreamDescriptorsRead ==
  ASSUME NEW t \in Sec!Stream, NEW s, NEW o \in Nat,
         StandsAt(s, o, Sec!DescriptorLoop(Sec!StreamDescriptors(t)))
  PROVE  LET w == Sec!Descriptors(s, o)
         IN /\ Sec!FlattenSeq([i \in DOMAIN w |-> IF Sec!Word8(s, w[i]) = 65
                                                  THEN Sec!ServiceList(s, w[i]) ELSE << >>])
                 = t.services
            /\ Sec!FlattenSeq([i \in DOMAIN w |-> IF Sec!Word8(s, w[i]) = 131
                                                  THEN Sec!FreeviewLcns(s, w[i]) ELSE << >>])
                 = t.lcns
            /\ Sec!FlattenSeq([i \in DOMAIN w |-> Sec!DeliverySystem(s, w[i])]) = t.delivery
<1> DEFINE w == Sec!Descriptors(s, o)
           items == Sec!StreamDescriptors(t)
           m == Lead(t.services) + 1
           n == Len(t.delivery)
           k == Len(items)
           z == m + (n + 1)
           listed == [i \in DOMAIN w |-> IF Sec!Word8(s, w[i]) = 65
                                         THEN Sec!ServiceList(s, w[i]) ELSE << >>]
           numbered == [i \in DOMAIN w |-> IF Sec!Word8(s, w[i]) = 131
                                           THEN Sec!FreeviewLcns(s, w[i]) ELSE << >>]
           systems == [i \in DOMAIN w |-> Sec!DeliverySystem(s, w[i])]
<1>1. /\ t.services \in Seq(Sec!Word) /\ t.lcns \in Seq(Sec!Lcn)
      /\ t.delivery \in Seq(Sec!TerrestrialSystem \cup Sec!SatelliteSystem)
      /\ Sec!Fits12(Sec!FlattenSeq(items))
  BY StreamTyped
<1>2. /\ items \in Seq(Seq(Int)) /\ k = (m + n) + Lead(t.lcns)
      /\ \A i \in 1 .. k : StreamItem(t, items[i], i)
  BY StreamItems
<1>3. /\ m \in Nat /\ n \in Nat /\ m >= 1 /\ k \in Nat /\ (t.lcns # << >> => Lead(t.lcns) = 1)
      /\ Lead(t.lcns) \in Nat
  <2>1. \A list : Lead(list) \in Nat /\ (list # << >> => Lead(list) = 1)
    BY DEF Lead
  <2>2. n \in Nat /\ k \in Nat
    BY <1>1, <1>2
  <2> QED
    BY <2>1, <2>2
<1> HIDE DEF items, k
<1>4. \A i \in 1 .. k : IsDescriptor(items[i])
  <2> TAKE i \in 1 .. k
  <2> HIDE DEF k
  <2>1. i \in Nat /\ StreamItem(t, items[i], i)
    BY <1>2
  <2> QED
    BY <2>1, StreamItemRead
<1>5. Found(s, items, w)
  BY <1>1, <1>2, <1>4, DescriptorsFound DEF items, k
<1> HIDE DEF w
<1>6. /\ DOMAIN w = 1 .. k
      /\ \A i \in 1 .. k : w[i] \in Nat /\ StandsAt(s, w[i], items[i])
  BY <1>5 DEF Found, k
<1> HIDE DEF m, n
<1>7. ASSUME NEW i \in 1 .. k
      PROVE  /\ (IF Sec!Word8(s, w[i]) = 65 THEN Sec!ServiceList(s, w[i]) ELSE << >>)
                  = IF i = 1 /\ t.services # << >> THEN t.services ELSE << >>
             /\ (IF Sec!Word8(s, w[i]) = 131 THEN Sec!FreeviewLcns(s, w[i]) ELSE << >>)
                  = IF i = z /\ t.lcns # << >> THEN t.lcns ELSE << >>
             /\ Sec!DeliverySystem(s, w[i])
                  = IF i - m \in 1 .. n THEN <<t.delivery[i - m]>> ELSE << >>
  <2>1. i \in Nat /\ StreamItem(t, items[i], i) /\ w[i] \in Nat /\ StandsAt(s, w[i], items[i])
    BY <1>2, <1>6
  <2> QED
    BY <2>1, StreamItemRead DEF m, n
<1>8. Sec!FlattenSeq(listed) = t.services
  <2> DEFINE a == 1
             x == t.services
  <2>1. a \in Nat /\ a \in 1 .. k
    BY <1>2, <1>3
  <2>2. YieldsAny(listed, k, a, x)
    BY <1>6, <1>7, <2>1 DEF YieldsAny
  <2> HIDE DEF a, x, listed
  <2> QED
    BY <1>1, <1>3, <2>1, <2>2, FlattenAny DEF x
<1>9. Sec!FlattenSeq(numbered) = t.lcns
  <2> DEFINE x == t.lcns
  <2>1. z \in Nat /\ (x # << >> => z \in 1 .. k)
    BY <1>2, <1>3
  <2> HIDE DEF z
  <2>2. YieldsAny(numbered, k, z, x)
    BY <1>6, <1>7, <2>1 DEF YieldsAny
  <2> HIDE DEF x, numbered
  <2> QED
    BY <1>1, <1>3, <2>1, <2>2, FlattenAny DEF x
<1>10. Sec!FlattenSeq(systems) = t.delivery
  <2> DEFINE x == t.delivery
             V == Sec!TerrestrialSystem \cup Sec!SatelliteSystem
  <2>1. x \in Seq(V) /\ m + Len(x) <= k
    BY <1>1, <1>2, <1>3 DEF n
  <2>2. ASSUME NEW i \in 1 .. k
        PROVE  systems[i] = IF m < i /\ i <= m + Len(x) THEN <<x[i - m]>> ELSE << >>
    <3>1. (m < i /\ i <= m + n) <=> i - m \in 1 .. n
      BY <1>3
    <3>2. n = Len(x)
      BY DEF n
    <3> QED
      BY <1>6, <1>7, <3>1, <3>2
  <2>3. systems = [i \in 1 .. k |-> systems[i]]
    BY <1>6
  <2> HIDE DEF systems, x, V
  <2>4. YieldsBlock(systems, k, m, x)
    BY <2>1, <2>2, <2>3 DEF YieldsBlock
  <2> QED
    BY <1>3, <2>1, <2>4, FlattenBlock DEF x
<1> QED
  BY <1>8, <1>9, <1>10 DEF w

(* A transport stream is read as it was written, and its length leads to    *)
(* the next.                                                                *)
LEMMA StreamRead ==
  ASSUME NEW t \in Sec!Stream
  PROVE  /\ Sec!PutStream(t) \in Seq(Int) /\ Len(Sec!PutStream(t)) > 0
         /\ \A s : \A o \in Nat : StandsAt(s, o, Sec!PutStream(t)) =>
              /\ 6 + Sec!Word12(s, o + 4) = Len(Sec!PutStream(t))
              /\ Sec!TransportStream(s, o) = t
<1> DEFINE items == Sec!StreamDescriptors(t)
           b == Sec!FlattenSeq(items)
           p == Sec!Put16(t.key[2])
           q == Sec!Put16(t.key[1])
           l == Sec!DescriptorLoop(items)
           y == (p \o q) \o l
<1>1. t.key[1] \in Sec!Word /\ t.key[2] \in Sec!Word /\ t.key = <<t.key[1], t.key[2]>>
  BY StreamTyped
<1>2. b \in Seq(Int) /\ Sec!Fits12(b) /\ l = Sec!Loop12(b)
  BY StreamTyped, StreamItems, FlattenTyped DEF Sec!DescriptorLoop
<1>3. Sec!PutStream(t) = y
  BY DEF Sec!PutStream
<1> HIDE DEF b
<1> DEFINE n == Len(b)
<1>4. Bytes(p, 2) /\ Bytes(q, 2) /\ Bytes(l, 2 + n) /\ n \in Nat /\ 2 + n \in Nat
  BY <1>1, <1>2, NumberBytes, ShortLoopBytes, BytesOf
<1> HIDE DEF p, q, l, n
<1>5. Bytes(y, (2 + 2) + (2 + n))
  BY <1>4, JoinedThree
<1>6. y \in Seq(Int) /\ Len(y) = 6 + n
  BY <1>4, <1>5 DEF Bytes
<1>7. ASSUME NEW s, NEW o \in Nat, StandsAt(s, o, y)
      PROVE  6 + Sec!Word12(s, o + 4) = Len(y) /\ Sec!TransportStream(s, o) = t
  <2>1. o \in Int /\ 2 \in Nat
    OBVIOUS
  <2>2. StandsAt(s, o, p) /\ StandsAt(s, o + 2, q) /\ StandsAt(s, o + (2 + 2), l)
    BY <1>4, <1>7, <2>1, SplitThree
  <2> DEFINE c == o + 4
             e == o + 2
             w == Sec!Descriptors(s, c)
             listed == [i \in DOMAIN w |-> IF Sec!Word8(s, w[i]) = 65
                                         THEN Sec!ServiceList(s, w[i]) ELSE << >>]
             numbered == [i \in DOMAIN w |-> IF Sec!Word8(s, w[i]) = 131
                                           THEN Sec!FreeviewLcns(s, w[i]) ELSE << >>]
             systems == [i \in DOMAIN w |-> Sec!DeliverySystem(s, w[i])]
  <2>3. c \in Nat /\ e \in Nat /\ o + (2 + 2) = c
    OBVIOUS
  <2>4. Sec!TransportStream(s, o)
          = [key |-> <<Sec!Word16(s, e), Sec!Word16(s, o)>>, services |-> Sec!FlattenSeq(listed),
             lcns |-> Sec!FlattenSeq(numbered), delivery |-> Sec!FlattenSeq(systems)]
    BY Tags DEF Sec!TransportStream, Sec!Tagged, Sec!EachOf, Sec!Each
  <2> HIDE DEF c, e
  <2>5. StandsAt(s, c, l)
    BY <2>2, <2>3
  <2>6. Sec!Word12(s, c) = n
    BY <1>2, <2>3, <2>5, LoopRead DEF n
  <2>7. StandsAt(s, c, Sec!DescriptorLoop(Sec!StreamDescriptors(t)))
    BY <2>5 DEF l
  <2>8. /\ Sec!FlattenSeq(listed) = t.services /\ Sec!FlattenSeq(numbered) = t.lcns
        /\ Sec!FlattenSeq(systems) = t.delivery
    BY <2>3, <2>7, StreamDescriptorsRead
  <2>9. Sec!Word16(s, e) = t.key[1] /\ Sec!Word16(s, o) = t.key[2]
    BY <1>1, <2>2, <2>3, WordRead DEF p, q, e
  <2> HIDE DEF listed, numbered, systems
  <2>10. Sec!TransportStream(s, o) = [key |-> t.key, services |-> t.services, lcns |-> t.lcns,
                                     delivery |-> t.delivery]
    BY <1>1, <2>4, <2>8, <2>9
  <2>11. Sec!TransportStream(s, o) = t
    BY <2>10, StreamTyped
  <2> QED
    BY <1>6, <2>6, <2>11 DEF c
<1> HIDE DEF y
<1>8. Len(y) > 0
  BY <1>4, <1>6
<1> QED
  BY <1>3, <1>6, <1>7, <1>8
-----------------------------------------------------------------------------
(* Sections, and the NIT.                                                  *)

(* The version and whether it is in force share a byte. *)
LEMMA VersionBits ==
  ASSUME NEW v \in Sec!Below(32), NEW c \in Sec!Below(2)
  PROVE  LET b == 192 + v * 2 + c
         IN b \in Sec!Byte /\ Sec!Bits(b, 1, 5) = v /\ Sec!Bits(b, 0, 1) = c
<1>1. v \in 0 .. 31 /\ c \in 0 .. 1
  BY DEF Sec!Below
<1> DEFINE b == 192 + v * 2 + c
<1>2. b \in Nat /\ b < 256 /\ b \div 2 = 96 + v /\ (96 + v) % 32 = v /\ b % 2 = c /\ b \div 1 = b
  BY <1>1, SMT
<1>3. 2 ^ 0 = 1 /\ 2 ^ 1 = 2 /\ 2 ^ 5 = 32
  OBVIOUS
<1> HIDE DEF b
<1>4. Sec!Bits(b, 1, 5) = v /\ Sec!Bits(b, 0, 1) = c
  BY <1>2, <1>3 DEF Sec!Bits
<1>5. b \in Sec!Byte
  BY <1>2 DEF Sec!Byte, Sec!Below
<1> QED
  BY <1>4, <1>5 DEF b

(* What every section has in common: the header is read as written, and     *)
(* the table's own part follows it.                                         *)
Framed(s, table, n, body) ==
  StandsAt(s, 0, Sec!Put8(table) \o Sec!Loop12(Sec!SectionBytes(n, body)))

(* Every section's frame is read as it was written. *)
LEMMA FrameRead ==
  ASSUME NEW s, NEW table \in Sec!Byte, NEW n, NEW header \in Sec!HeaderField,
         n.header = header, NEW body \in Seq(Int),
         Sec!Fits12(Sec!SectionBytes(n, body)), Framed(s, table, n, body)
  PROVE  /\ Sec!Word8(s, 0) = table /\ Sec!Header(s) = header /\ StandsAt(s, 8, body)
         /\ Len(body) \in Nat /\ Sec!Word12(s, 1) = 9 + Len(body)
<1> DEFINE h == n.header
           v == 192 + h.version * 2 + h.current
           a == Sec!Put8(table)
           i == Sec!Put16(h.id)
           c == Sec!Put8(v)
           m == Sec!Put8(h.number)
           l == Sec!Put8(h.last)
           z == Sec!Put32(305419896)
           k == Len(body)
           icm == (i \o c) \o m
           x == (icm \o l) \o body
           y == x \o z
           y12 == Sec!Loop12(y)
<1>1. /\ h.id \in Sec!Word /\ h.version \in Sec!Below(32) /\ h.current \in Sec!Below(2)
      /\ h.number \in Sec!Byte /\ h.last \in Sec!Byte
      /\ h = [id |-> h.id, version |-> h.version, current |-> h.current, number |-> h.number,
              last |-> h.last]
  BY DEF Sec!HeaderField
<1>2. v \in Sec!Byte /\ Sec!Bits(v, 1, 5) = h.version /\ Sec!Bits(v, 0, 1) = h.current
  BY <1>1, VersionBits
<1>3. Sec!SectionBytes(n, body) = y
  BY SMT DEF Sec!SectionBytes
<1>z. Bytes(z, 4)
  <2>1. 305419896 \in Nat
    BY SMT
  <2> QED
    BY <2>1, PutBytes, SMT
<1> HIDE DEF z
<1> HIDE DEF h, v
<1>4. /\ Bytes(a, 1) /\ Bytes(i, 2) /\ Bytes(c, 1) /\ Bytes(m, 1) /\ Bytes(l, 1) /\ Bytes(z, 4)
      /\ Bytes(body, k) /\ k \in Nat
  BY <1>1, <1>2, <1>z, NumberBytes, BytesOf
<1> HIDE DEF a, i, c, m, l, z, k
<1>5. Bytes(icm, 4)
  BY <1>4, JoinedThree
<1> HIDE DEF icm
<1>6. Bytes(x, (4 + 1) + k)
  BY <1>4, <1>5, JoinedThree
<1>7. (4 + 1) + k \in Nat /\ ((4 + 1) + k) + 4 = 9 + k
  BY <1>4
<1> HIDE DEF x
<1>8. Bytes(y, 9 + k) /\ 9 + k \in Nat
  BY <1>4, <1>6, <1>7, Joined
<1>9. StandsAt(s, 0, a \o y12) /\ Sec!Fits12(y)
  BY <1>3 DEF a, Framed
<1>10. y \in Seq(Int) /\ Len(y) = 9 + k
  BY <1>8 DEF Bytes
<1> HIDE DEF y
<1>11. Bytes(y12, 2 + (9 + k)) /\ 2 + (9 + k) \in Nat
  BY <1>8, <1>10, ShortLoopBytes
<1> HIDE DEF y12
<1> DEFINE o == 0
<1>12. o \in Int /\ StandsAt(s, o, a \o y12)
  BY <1>9
<1> HIDE DEF o
<1>13. StandsAt(s, o, a) /\ StandsAt(s, o + 1, y12)
  BY <1>4, <1>11, <1>12, Split
<1>14. Sec!Word8(s, 0) = table
  BY <1>13, ByteRead DEF a, o
<1> DEFINE o1 == 1
<1>15. o1 \in Nat /\ StandsAt(s, o1, Sec!Loop12(y)) /\ o1 + 2 = 3
  BY <1>13 DEF o, y12
<1> HIDE DEF o1
<1>16. Sec!Word12(s, o1) = Len(y) /\ StandsAt(s, o1 + 2, y)
  BY <1>9, <1>10, <1>15, LoopRead
<1> DEFINE o3 == 3
<1>17. StandsAt(s, o3, y) /\ o3 \in Int
  BY <1>15, <1>16
<1> HIDE DEF o3
<1>18. StandsAt(s, o3, x)
  BY <1>4, <1>6, <1>7, <1>17, Split DEF y
<1>19. StandsAt(s, o3, icm) /\ StandsAt(s, o3 + 4, l) /\ StandsAt(s, o3 + (4 + 1), body)
  BY <1>4, <1>5, <1>17, <1>18, SplitThree DEF x
<1>20. StandsAt(s, o3, i) /\ StandsAt(s, o3 + 2, c) /\ StandsAt(s, o3 + (2 + 1), m)
  BY <1>4, <1>17, <1>19, SplitThree DEF icm
<1>21. Sec!Word16(s, o3) = h.id /\ Sec!Word8(s, o3 + 2) = v /\ Sec!Word8(s, o3 + (2 + 1)) = h.number
       /\ Sec!Word8(s, o3 + 4) = h.last
  <2>1. o3 \in Nat /\ o3 + 2 \in Nat /\ o3 + (2 + 1) \in Nat /\ o3 + 4 \in Nat
    BY DEF o3
  <2> QED
    BY <1>1, <1>2, <1>19, <1>20, <2>1, ByteRead, WordRead DEF i, c, m, l
<1>22. o3 + 2 = 5 /\ o3 + (2 + 1) = 6 /\ o3 + 4 = 7 /\ o3 + (4 + 1) = 8
  BY DEF o3
<1>23. Sec!Header(s) = h
  BY <1>1, <1>2, <1>21, <1>22 DEF Sec!Header, o3
<1> QED
  BY <1>4, <1>10, <1>14, <1>16, <1>19, <1>22, <1>23 DEF h, o1, k

(* The loop of transport streams is found behind that of the descriptors. *)
LEMMA StreamsWalked ==
  ASSUME NEW s, NEW b \in Seq(Int), Sec!Fits12(b), NEW items \in Seq(Seq(Int)),
         Sec!Fits12(Sec!FlattenSeq(items)),
         StandsAt(s, 8, Sec!Loop12(b) \o Sec!Loop12(Sec!FlattenSeq(items))),
         \A i \in 1 .. Len(items) :
           /\ Len(items[i]) > 0
           /\ \A d \in Nat : StandsAt(s, d, items[i]) => 6 + Sec!Word12(s, d + 4) = Len(items[i])
  PROVE  Found(s, items, Sec!Streams(s)) /\ StandsAt(s, 8, Sec!Loop12(b))
<1> DEFINE k == Len(b)
           e == Sec!FlattenSeq(items)
           p == Sec!Loop12(b)
           q == Sec!Loop12(e)
           m == Len(e)
           o == 8
           c == o + (2 + k)
           size == [t \in Nat |-> 6 + Sec!Word12(s, t + 4)]
<1>1. e \in Seq(Int) /\ StandsAt(s, o, p \o q) /\ o \in Nat /\ o \in Int
  BY FlattenTyped
<1>2. Sized(s, items, size)
  <2>1. ASSUME NEW i \in 1 .. Len(items)
        PROVE  /\ Len(items[i]) > 0
               /\ \A d \in Nat : StandsAt(s, d, items[i]) => size[d] = Len(items[i])
    OBVIOUS
  <2> HIDE DEF size
  <2> QED
    BY <2>1 DEF Sized
<1> HIDE DEF e
<1>3. Bytes(p, 2 + k) /\ Bytes(q, 2 + m) /\ k \in Nat /\ m \in Nat /\ 2 + k \in Nat /\ 2 + m \in Nat
  BY <1>1, ShortLoopBytes, BytesOf
<1> HIDE DEF p, q, m, o
<1>4. StandsAt(s, o, p) /\ StandsAt(s, o + (2 + k), q)
  BY <1>1, <1>3, Split
<1>5. Sec!Word12(s, o) = k
  BY <1>1, <1>4, LoopRead DEF p
<1>6. c \in Nat /\ c = 10 + k
  BY <1>1, <1>3 DEF o
<1>7. Sec!Streams(s) = Sec!Walk(c + 2, c + 2 + Sec!Word12(s, c), size)
  BY <1>5, <1>6 DEF Sec!Streams, o
<1> HIDE DEF c, size
<1>8. StandsAt(s, c, Sec!Loop12(Sec!FlattenSeq(items)))
  BY <1>4 DEF c, q, e
<1>9. Found(s, items, Sec!Walk(c + 2, c + 2 + Sec!Word12(s, c), size))
  BY <1>2, <1>6, <1>8, LongLoopWalked
<1> QED
  BY <1>4, <1>7, <1>9 DEF p, o

(* What a NIT consists of. *)
LEMMA NitTyped ==
  ASSUME NEW n \in Sec!Nit
  PROVE  /\ n.table \in {64, 65} /\ n.header \in Sec!HeaderField /\ n.names \in Seq(Sec!Name)
         /\ n.streams \in Seq(Sec!Stream)
         /\ n = [table |-> n.table, header |-> n.header, names |-> n.names,
                 streams |-> n.streams]
         /\ Sec!Fits12(Sec!FlattenSeq(Sec!NetworkDescriptors(n)))
         /\ Sec!Fits12(Sec!EachOf(n.streams, Sec!PutStream))
         /\ Sec!Fits12(Sec!SectionBytes(n, Sec!PutNit(n)))
<1>1. /\ n \in [table : {Sec!Table.nit, Sec!Table.other_nit}, header : Sec!HeaderField,
                names : Seq(Sec!Name), streams : Seq(Sec!Stream)]
      /\ Sec!Fits12(Sec!FlattenSeq(Sec!NetworkDescriptors(n)))
      /\ Sec!Fits12(Sec!EachOf(n.streams, Sec!PutStream))
      /\ Sec!Fits12(Sec!SectionBytes(n, Sec!PutNit(n)))
  BY DEF Sec!Nit
<1>2. /\ n.table \in {64, 65} /\ n.header \in Sec!HeaderField /\ n.names \in Seq(Sec!Name)
      /\ n.streams \in Seq(Sec!Stream)
      /\ n = [table |-> n.table, header |-> n.header, names |-> n.names, streams |-> n.streams]
  BY <1>1 DEF Sec!Table
<1> QED
  BY <1>1, <1>2

(* The private descriptor is one like any other. *)
LEMMA PrivateBody ==
  \E b \in Seq(Int) : Sec!Fits8(b) /\ Sec!Private = Sec!Descriptor(95, b)
<1> DEFINE b == Sec!Put32(9018)
<1>1. Bytes(b, 4)
  BY PutBytes
<1>2. Sec!Private = Sec!Descriptor(95, b)
  BY DEF Sec!Private
<1> HIDE DEF b
<1>3. b \in Seq(Int) /\ Sec!Fits8(b)
  BY <1>1 DEF Bytes, Sec!Fits8
<1> QED
  BY <1>2, <1>3

(* Every transport stream of a network is read, in order. *)
LEMMA StreamsRead ==
  ASSUME NEW s, NEW b \in Seq(Int), Sec!Fits12(b), NEW streams \in Seq(Sec!Stream),
         Sec!Fits12(Sec!EachOf(streams, Sec!PutStream)),
         StandsAt(s, 8, Sec!Loop12(b) \o Sec!Loop12(Sec!EachOf(streams, Sec!PutStream)))
  PROVE  /\ Sec!Each(Sec!Streams(s), LAMBDA t : Sec!TransportStream(s, t)) = streams
         /\ StandsAt(s, 8, Sec!Loop12(b))
<1> DEFINE items == Sec!Each(streams, Sec!PutStream)
           w == Sec!Streams(s)
           n == Len(streams)
           r == [i \in DOMAIN w |-> Sec!TransportStream(s, w[i])]
<1>1. Sec!EachOf(streams, Sec!PutStream) = Sec!FlattenSeq(items)
  BY DEF Sec!EachOf
<1>2. ASSUME NEW i \in 1 .. n
      PROVE  streams[i] \in Sec!Stream /\ items[i] = Sec!PutStream(streams[i])
  BY DomainOf DEF Sec!Each
<1>3. items = [i \in DOMAIN streams |-> items[i]]
  BY DEF Sec!Each
<1> HIDE DEF items
<1>4. items \in Seq(Seq(Int)) /\ Len(items) = n
  <2>1. \A i \in 1 .. n : items[i] \in Seq(Int)
    BY <1>2, StreamRead
  <2> QED
    BY <1>3, <2>1, PiecesOf
<1>5. \A i \in 1 .. Len(items) :
        /\ Len(items[i]) > 0
        /\ \A d \in Nat : StandsAt(s, d, items[i]) => 6 + Sec!Word12(s, d + 4) = Len(items[i])
  BY <1>2, <1>4, StreamRead
<1>6. Found(s, items, w) /\ StandsAt(s, 8, Sec!Loop12(b))
  BY <1>1, <1>4, <1>5, StreamsWalked
<1>7. Sec!Each(Sec!Streams(s), LAMBDA t : Sec!TransportStream(s, t)) = r
  BY DEF Sec!Each
<1> HIDE DEF w, n
<1>8. r = [i \in 1 .. n |-> r[i]]
  BY <1>4, <1>6 DEF Found
<1>9. ASSUME NEW i \in 1 .. n PROVE r[i] = streams[i]
  <2>1. w[i] \in Nat /\ StandsAt(s, w[i], items[i]) /\ i \in DOMAIN w
    BY <1>4, <1>6 DEF Found
  <2>2. Sec!TransportStream(s, w[i]) = streams[i]
    BY <1>2, <2>1, StreamRead
  <2> QED
    BY <2>1, <2>2
<1> HIDE DEF r
<1>10. r = streams
  BY <1>8, <1>9, SameSequence DEF n
<1> QED
  BY <1>6, <1>7, <1>10

(* The body of a NIT. *)
LEMMA NitBodyRead ==
  ASSUME NEW n \in Sec!Nit
  PROVE  /\ Sec!PutNit(n) \in Seq(Int)
         /\ \A s : StandsAt(s, 8, Sec!PutNit(n)) =>
              /\ Sec!NamesOf(s, 8, 64) = n.names
              /\ Sec!Each(Sec!Streams(s), LAMBDA t : Sec!TransportStream(s, t)) = n.streams
<1> DEFINE items == Sec!NetworkDescriptors(n)
           b == Sec!FlattenSeq(items)
           e == Sec!EachOf(n.streams, Sec!PutStream)
<1>1. /\ n.names \in Seq(Sec!Name) /\ n.streams \in Seq(Sec!Stream) /\ Sec!Fits12(b)
      /\ Sec!Fits12(e)
  BY NitTyped
<1>2. PICK c \in Seq(Int) : Sec!Fits8(c) /\ Sec!Private = Sec!Descriptor(95, c)
  BY PrivateBody
<1>3. items = Sec!PutNames(64, n.names) \o <<Sec!Descriptor(95, c)>>
  BY <1>2, Tags DEF Sec!NetworkDescriptors
<1>4. 64 \in Sec!Byte /\ 95 \in Sec!Byte /\ 95 # 64
  BY Tags
<1>5. items \in Seq(Seq(Int))
  <2> DEFINE last == Sec!Descriptor(95, c)
  <2>1. last \in Seq(Int) /\ IsDescriptor(last)
    BY <1>2, <1>4, DescriptorBytes
  <2> HIDE DEF last, items
  <2>2. items = Sec!PutNames(64, n.names) \o <<last>>
    BY <1>3 DEF last
  <2> QED
    BY <1>1, <1>4, <2>1, <2>2, NamesLoop
<1>6. e \in Seq(Int)
  <2> DEFINE puts == Sec!Each(n.streams, Sec!PutStream)
  <2>1. ASSUME NEW i \in 1 .. Len(n.streams) PROVE puts[i] \in Seq(Int)
    <3>1. puts[i] = Sec!PutStream(n.streams[i]) /\ n.streams[i] \in Sec!Stream
      BY <1>1, DomainOf DEF Sec!Each
    <3> HIDE DEF puts
    <3> QED
      BY <3>1, StreamRead
  <2>2. puts = [i \in DOMAIN n.streams |-> puts[i]]
    BY DEF Sec!Each
  <2> HIDE DEF puts
  <2>3. Sec!FlattenSeq(puts) \in Seq(Int)
    BY <1>1, <2>1, <2>2, PiecesOf, FlattenTyped
  <2> QED
    BY <2>3 DEF puts, Sec!EachOf
<1>7. b \in Seq(Int)
  BY <1>5, FlattenTyped
<1>8. Sec!PutNit(n) = Sec!Loop12(b) \o Sec!Loop12(e)
  BY DEF Sec!PutNit, Sec!DescriptorLoop
<1> HIDE DEF items
<1>9. ASSUME NEW s, StandsAt(s, 8, Sec!PutNit(n))
      PROVE  /\ Sec!NamesOf(s, 8, 64) = n.names
             /\ Sec!Each(Sec!Streams(s), LAMBDA t : Sec!TransportStream(s, t)) = n.streams
  <2> DEFINE o == 8
  <2>1. /\ Sec!Each(Sec!Streams(s), LAMBDA t : Sec!TransportStream(s, t)) = n.streams
        /\ StandsAt(s, 8, Sec!Loop12(b))
    <3> HIDE DEF b
    <3> QED
      BY <1>1, <1>7, <1>8, <1>9, StreamsRead
  <2>2. o \in Nat /\ StandsAt(s, o, Sec!DescriptorLoop(items))
    BY <2>1 DEF Sec!DescriptorLoop
  <2> HIDE DEF o
  <2>3. Sec!NamesOf(s, o, 64) = n.names
    BY <1>1, <1>2, <1>3, <1>4, <2>2, NamesRead
  <2> QED
    BY <2>1, <2>3 DEF o
<1> DEFINE p == Sec!Loop12(b)
           q == Sec!Loop12(e)
<1> HIDE DEF b, e
<1>10. Bytes(p, 2 + Len(b)) /\ Bytes(q, 2 + Len(e)) /\ 2 + Len(b) \in Nat /\ 2 + Len(e) \in Nat
  BY <1>6, <1>7, ShortLoopBytes, BytesOf
<1> HIDE DEF p, q
<1>11. p \o q \in Seq(Int)
  BY <1>10, Joined DEF Bytes
<1> QED
  BY <1>8, <1>9, <1>11 DEF p, q

(* A network information table is read as it was written. *)
THEOREM NitReadAsWritten ==
  ASSUME NEW n \in Sec!Nit, NEW s, StandsAt(s, 0, Sec!WriteSection(n))
  PROVE  Sec!ReadSection(s) = n
<1> DEFINE body == Sec!PutNit(n)
<1>1. n.table \in {64, 65} /\ n.header \in Sec!HeaderField
      /\ Sec!Fits12(Sec!SectionBytes(n, body))
  BY NitTyped
<1>2. n.table \in Sec!Byte
  BY <1>1 DEF Sec!Byte, Sec!Below
<1>3. Sec!WriteSection(n) = Sec!Put8(n.table) \o Sec!Loop12(Sec!SectionBytes(n, body))
  BY <1>1 DEF Sec!WriteSection, Sec!Table
<1>4. body \in Seq(Int)
  BY NitBodyRead
<1> HIDE DEF body
<1>5. Sec!Word8(s, 0) = n.table /\ Sec!Header(s) = n.header /\ StandsAt(s, 8, body)
  <2> DEFINE table == n.table
             header == n.header
  <2>1. table \in Sec!Byte /\ header \in Sec!HeaderField /\ n.header = header
    BY <1>1, <1>2
  <2>2. Framed(s, table, n, body)
    BY <1>3 DEF Framed
  <2>3. Sec!Fits12(Sec!SectionBytes(n, body))
    BY <1>1
  <2> HIDE DEF table, header
  <2>4. Sec!Word8(s, 0) = table /\ Sec!Header(s) = header /\ StandsAt(s, 8, body)
    BY <1>4, <2>1, <2>2, <2>3, FrameRead
  <2> QED
    BY <2>4 DEF table, header
<1>6. /\ Sec!NamesOf(s, 8, 64) = n.names
      /\ Sec!Each(Sec!Streams(s), LAMBDA t : Sec!TransportStream(s, t)) = n.streams
  BY <1>5, NitBodyRead DEF body
<1>7. Sec!ReadSection(s) = Sec!ReadNit(s)
  BY <1>1, <1>5 DEF Sec!ReadSection, Sec!Table
<1>8. Sec!ReadNit(s) = [table |-> n.table, header |-> n.header, names |-> n.names,
                        streams |-> n.streams]
  BY <1>5, <1>6, Tags DEF Sec!ReadNit
<1> QED
  BY <1>7, <1>8, NitTyped
-----------------------------------------------------------------------------
(* Freesat's BAT.                                                          *)

(* A channel number and its region, below four bits of flags. *)
LEMMA PairRead ==
  ASSUME NEW p \in Sec!Pair
  PROVE  /\ Bytes(Sec!PutPair(p), 4)
         /\ \A s : \A d \in Nat : StandsAt(s, d, Sec!PutPair(p)) =>
              [lcn |-> Sec!Word12(s, d), region |-> Sec!Word16(s, d + 2)] = p
<1> DEFINE n == p.lcn
           v == 61440 + n
<1>1. n \in Nat /\ n < 4096 /\ p.region \in Sec!Word
  BY DEF Sec!Pair, Sec!Below
<1>2. p = [lcn |-> n, region |-> p.region]
  BY DEF Sec!Pair
<1> HIDE DEF n
<1>3. v \in Nat /\ v < 65536 /\ v % 4096 = n
  BY <1>1, SMT
<1>4. v \in Sec!Word
  BY <1>3 DEF Sec!Word, Sec!Below
<1>5. Sec!PutPair(p) = Sec!Put16(v) \o Sec!Put16(p.region)
  BY DEF Sec!PutPair, n
<1> HIDE DEF v
<1>6. Bytes(Sec!PutPair(p), 4)
  BY <1>1, <1>4, <1>5, TwoWords
<1>7. ASSUME NEW s, NEW d \in Nat, StandsAt(s, d, Sec!PutPair(p))
      PROVE  Sec!Word12(s, d) = n /\ Sec!Word16(s, d + 2) = p.region
  <2>1. Sec!Word16(s, d) = v /\ Sec!Word16(s, d + 2) = p.region
    BY <1>1, <1>4, <1>5, <1>7, TwoWords
  <2> QED
    BY <1>3, <2>1 DEF Sec!Word12
<1> QED
  BY <1>2, <1>6, <1>7

(* The entries of a loop with a length of eight bits. *)
LEMMA LoopEntriesFound ==
  ASSUME NEW s, NEW o \in Nat, NEW S, NEW seq \in Seq(S), NEW items,
         NEW size, Entries(seq, items, s, size), Sec!Fits8(Sec!FlattenSeq(items)),
         StandsAt(s, o, Sec!Loop8(Sec!FlattenSeq(items)))
  PROVE  EntriesAt(seq, items, s, Sec!Walk(o + 1, o + 1 + Sec!Word8(s, o), size))
<1> DEFINE w == Sec!Walk(o + 1, o + 1 + Sec!Word8(s, o), size)
<1>1. items \in Seq(Seq(Int)) /\ Sized(s, items, size)
  BY EntriesSized
<1>2. Found(s, items, w)
  BY <1>1, ShortLoopWalked
<1> HIDE DEF w
<1> QED
  BY <1>2, EntriesSized DEF w

(* Freesat's channel numbers of a service, one for a region. *)
LEMMA PairsRead ==
  ASSUME NEW s, NEW c \in Nat, NEW pairs \in Seq(Sec!Pair),
         Sec!Fits8(Sec!EachOf(pairs, Sec!PutPair)),
         StandsAt(s, c + 4, Sec!Loop8(Sec!EachOf(pairs, Sec!PutPair)))
  PROVE  Sec!FreesatPairs(s, c) = pairs
<1> DEFINE items == Sec!Each(pairs, Sec!PutPair)
           size == [p \in Nat |-> 4]
           m == c + 4
           w == Sec!Walk(m + 1, m + 1 + Sec!Word8(s, m), size)
           n == Len(pairs)
           pair(o) == [lcn |-> Sec!Word12(s, o), region |-> Sec!Word16(s, o + 2)]
<1>1. ASSUME NEW i \in 1 .. n
      PROVE  /\ Bytes(items[i], 4)
             /\ \A o \in Nat : StandsAt(s, o, items[i]) => pair(o) = pairs[i]
  <2>1. items[i] = Sec!PutPair(pairs[i]) /\ pairs[i] \in Sec!Pair
    BY DomainOf DEF Sec!Each
  <2> HIDE DEF items
  <2>2. Bytes(items[i], 4)
    BY <2>1, PairRead
  <2>3. ASSUME NEW o \in Nat, StandsAt(s, o, items[i]) PROVE pair(o) = pairs[i]
    BY <2>1, <2>3, PairRead
  <2> QED
    BY <2>2, <2>3
<1>2. items = [i \in DOMAIN pairs |-> items[i]]
  BY DEF Sec!Each
<1>3. Sec!EachOf(pairs, Sec!PutPair) = Sec!FlattenSeq(items)
  BY DEF Sec!EachOf
<1>4. Sec!FreesatPairs(s, c) = [i \in DOMAIN w |-> pair(w[i])]
  <2>1. m + 1 = c + 5
    OBVIOUS
  <2> QED
    BY <2>1 DEF Sec!FreesatPairs, Sec!Each
<1> HIDE DEF items, pair
<1> DEFINE k == 4
<1>k. size = [o \in Nat |-> k] /\ k \in Nat /\ k > 0 /\ \A i \in 1 .. n : Bytes(items[i], k)
  BY <1>1
<1> HIDE DEF size, k
<1>5. Entries(pairs, items, s, size)
  BY <1>2, <1>k, EntriesOfSize
<1>6. EntriesAt(pairs, items, s, w)
  <2>1. m \in Nat /\ StandsAt(s, m, Sec!Loop8(Sec!FlattenSeq(items)))
    BY <1>3
  <2> HIDE DEF m
  <2> QED
    BY <1>3, <1>5, <2>1, LoopEntriesFound
<1> HIDE DEF w, n
<1>7. DOMAIN w = 1 .. n /\ \A i \in 1 .. n : pair(w[i]) = pairs[i]
  BY <1>1, <1>6 DEF EntriesAt, n
<1> QED
  BY <1>4, <1>7, SameSequence DEF n

(* How a service's pairs are written. *)
LEMMA PairsTyped ==
  ASSUME NEW pairs \in Seq(Sec!Pair)
  PROVE  Sec!EachOf(pairs, Sec!PutPair) \in Seq(Int)
<1> DEFINE items == Sec!Each(pairs, Sec!PutPair)
<1>1. ASSUME NEW i \in 1 .. Len(pairs) PROVE items[i] \in Seq(Int)
  <2>1. items[i] = Sec!PutPair(pairs[i]) /\ pairs[i] \in Sec!Pair
    BY DomainOf DEF Sec!Each
  <2> HIDE DEF items
  <2> QED
    BY <2>1, PairRead DEF Bytes
<1>2. items = [i \in DOMAIN pairs |-> items[i]]
  BY DEF Sec!Each
<1> HIDE DEF items
<1>3. Sec!FlattenSeq(items) \in Seq(Int)
  BY <1>1, <1>2, PiecesOf, FlattenTyped
<1> QED
  BY <1>3 DEF items, Sec!EachOf

(* A service with its channel numbers on Freesat. *)
FreesatAt(s, o) ==
  [service |-> Sec!Word16(s, o), freesat |-> Sec!Word16(s, o + 2), pairs |-> Sec!FreesatPairs(s, o)]

(* A service's channel numbers are read as written, and their length leads *)
(* to the next one's.                                                      *)
LEMMA FreesatRead ==
  ASSUME NEW c \in Sec!FreesatLcn
  PROVE  /\ Sec!PutFreesatLcn(c) \in Seq(Int) /\ Len(Sec!PutFreesatLcn(c)) > 0
         /\ \A s : \A o \in Nat : StandsAt(s, o, Sec!PutFreesatLcn(c)) =>
              /\ Sec!Word8(s, o + 4) + 5 = Len(Sec!PutFreesatLcn(c)) /\ FreesatAt(s, o) = c
<1> DEFINE b == Sec!EachOf(c.pairs, Sec!PutPair)
           p == Sec!Put16(c.service)
           q == Sec!Put16(c.freesat)
           l == Sec!Loop8(b)
           n == Len(b)
           y == (p \o q) \o l
<1>1. /\ c.service \in Sec!Word /\ c.freesat \in Sec!Word /\ c.pairs \in Seq(Sec!Pair)
      /\ Sec!Fits8(b)
      /\ c = [service |-> c.service, freesat |-> c.freesat, pairs |-> c.pairs]
  <2>1. /\ c \in [service : Sec!Word, freesat : Sec!Word, pairs : Seq(Sec!Pair)]
        /\ Sec!Fits8(b)
    BY DEF Sec!FreesatLcn
  <2> HIDE DEF b
  <2> QED
    BY <2>1
<1>2. b \in Seq(Int)
  BY <1>1, PairsTyped
<1>3. Sec!PutFreesatLcn(c) = y
  BY DEF Sec!PutFreesatLcn
<1> HIDE DEF b
<1>4. Bytes(p, 2) /\ Bytes(q, 2) /\ Bytes(l, 1 + n) /\ n \in Nat /\ 1 + n \in Nat
  BY <1>1, <1>2, NumberBytes, ShortLoopBytes, BytesOf
<1> HIDE DEF p, q, l, n
<1>5. Bytes(y, (2 + 2) + (1 + n))
  BY <1>4, JoinedThree
<1>6. y \in Seq(Int) /\ Len(y) = n + 5
  BY <1>4, <1>5 DEF Bytes
<1>7. ASSUME NEW s, NEW o \in Nat, StandsAt(s, o, y)
      PROVE  Sec!Word8(s, o + 4) + 5 = Len(y) /\ FreesatAt(s, o) = c
  <2>1. o \in Int /\ 2 \in Nat
    OBVIOUS
  <2>2. StandsAt(s, o, p) /\ StandsAt(s, o + 2, q) /\ StandsAt(s, o + (2 + 2), l)
    BY <1>4, <1>7, <2>1, SplitThree
  <2> DEFINE m == o + 4
             e == o + 2
  <2>3. m \in Nat /\ e \in Nat /\ o + (2 + 2) = m
    OBVIOUS
  <2>4. FreesatAt(s, o) = [service |-> Sec!Word16(s, o), freesat |-> Sec!Word16(s, e),
                           pairs |-> Sec!FreesatPairs(s, o)]
    BY DEF FreesatAt
  <2>5. StandsAt(s, m, l)
    BY <2>2, <2>3
  <2>6. Sec!FreesatPairs(s, o) = c.pairs
    <3>1. StandsAt(s, o + 4, Sec!Loop8(Sec!EachOf(c.pairs, Sec!PutPair)))
      BY <2>5 DEF l, b
    <3>2. Sec!Fits8(Sec!EachOf(c.pairs, Sec!PutPair))
      BY <1>1 DEF b
    <3> QED
      BY <1>1, <3>1, <3>2, PairsRead
  <2> HIDE DEF m, e
  <2>7. Sec!Word8(s, m) = n
    BY <1>1, <1>2, <2>3, <2>5, ShortLoopKeepsLength DEF l, n
  <2>8. Sec!Word16(s, e) = c.freesat /\ Sec!Word16(s, o) = c.service
    BY <1>1, <2>2, <2>3, WordRead DEF p, q, e
  <2> QED
    BY <1>1, <1>6, <2>4, <2>6, <2>7, <2>8 DEF m
<1> HIDE DEF y
<1>8. Len(y) > 0
  BY <1>4, <1>6
<1> QED
  BY <1>3, <1>6, <1>7, <1>8

(* Freesat's list of channel numbers. *)
LEMMA FreesatLcnsRead ==
  ASSUME NEW s, NEW d \in Nat, NEW lcns \in Seq(Sec!FreesatLcn),
         Sec!Fits8(Sec!EachOf(lcns, Sec!PutFreesatLcn)),
         StandsAt(s, d, Sec!Descriptor(211, Sec!EachOf(lcns, Sec!PutFreesatLcn)))
  PROVE  Sec!FreesatLcns(s, d) = lcns
<1> DEFINE items == Sec!Each(lcns, Sec!PutFreesatLcn)
           size == [c \in Nat |-> Sec!Word8(s, c + 4) + 5]
           w == Sec!Walk(d + 2, d + 2 + Sec!Word8(s, d + 1), size)
           n == Len(lcns)
<1>1. ASSUME NEW i \in 1 .. n
      PROVE  /\ items[i] \in Seq(Int) /\ Len(items[i]) > 0
             /\ \A o \in Nat : StandsAt(s, o, items[i]) =>
                  size[o] = Len(items[i]) /\ FreesatAt(s, o) = lcns[i]
  <2>1. items[i] = Sec!PutFreesatLcn(lcns[i]) /\ lcns[i] \in Sec!FreesatLcn
    BY DomainOf DEF Sec!Each
  <2> HIDE DEF items
  <2>2. ASSUME NEW o \in Nat, StandsAt(s, o, items[i])
        PROVE  size[o] = Len(items[i]) /\ FreesatAt(s, o) = lcns[i]
    <3>1. Sec!Word8(s, o + 4) + 5 = Len(items[i]) /\ FreesatAt(s, o) = lcns[i]
      <4> HIDE DEF size
      <4> QED
        BY <2>1, <2>2, FreesatRead
    <3> QED
      BY <3>1
  <2> HIDE DEF size
  <2>3. items[i] \in Seq(Int) /\ Len(items[i]) > 0
    BY <2>1, FreesatRead
  <2> QED
    BY <2>2, <2>3
<1>2. items = [i \in DOMAIN lcns |-> items[i]]
  BY DEF Sec!Each
<1>3. Sec!EachOf(lcns, Sec!PutFreesatLcn) = Sec!FlattenSeq(items) /\ 211 \in Sec!Byte
  BY Tags DEF Sec!EachOf
<1>4. Sec!FreesatLcns(s, d) = [i \in DOMAIN w |-> FreesatAt(s, w[i])]
  BY DEF Sec!FreesatLcns, Sec!Each, FreesatAt
<1> HIDE DEF items, size
<1>5. Entries(lcns, items, s, size)
  BY <1>1, <1>2 DEF Entries
<1>6. EntriesAt(lcns, items, s, w)
  BY <1>3, <1>5, EntriesFound
<1> HIDE DEF w, n
<1>7. DOMAIN w = 1 .. n /\ \A i \in 1 .. n : FreesatAt(s, w[i]) = lcns[i]
  BY <1>1, <1>6 DEF EntriesAt, n
<1> QED
  BY <1>4, <1>7, SameSequence DEF n

(* A region with its name, behind the language. *)
RegionAt(s, o) ==
  [code |-> Sec!Word16(s, o), name |-> Sec!Text(s, o + 6, Sec!Word8(s, o + 5))]

(* A region is read as written, past its language. *)
LEMMA RegionRead ==
  ASSUME NEW r \in Sec!Region
  PROVE  /\ Sec!PutRegion(r) \in Seq(Int) /\ Len(Sec!PutRegion(r)) > 0
         /\ \A s : \A o \in Nat : StandsAt(s, o, Sec!PutRegion(r)) =>
              /\ Sec!Word8(s, o + 5) + 6 = Len(Sec!PutRegion(r)) /\ RegionAt(s, o) = r
<1> DEFINE b == r.name
           p == Sec!Put16(r.code)
           q == Sec!Put24(6647399)
           l == Sec!Loop8(b)
           n == Len(b)
           y == (p \o q) \o l
<1>1. /\ r.code \in Sec!Word /\ b \in Sec!Name /\ r = [code |-> r.code, name |-> b]
  BY DEF Sec!Region
<1>2. b \in Seq(Int) /\ Sec!Fits8(b)
  BY <1>1, NameBytes
<1>3. Sec!PutRegion(r) = y
  BY SMT DEF Sec!PutRegion
<1>q. Bytes(q, 3)
  <2>1. 6647399 \in Nat
    BY SMT
  <2> QED
    BY <2>1, PutBytes, SMT
<1> HIDE DEF b, q
<1>4. Bytes(p, 2) /\ Bytes(l, 1 + n) /\ n \in Nat /\ 1 + n \in Nat
  BY <1>1, <1>2, NumberBytes, ShortLoopBytes, BytesOf
<1> HIDE DEF p, l, n
<1>5. Bytes(y, (2 + 3) + (1 + n))
  BY <1>4, <1>q, JoinedThree
<1>6. y \in Seq(Int) /\ Len(y) = n + 6
  BY <1>4, <1>5 DEF Bytes
<1>7. ASSUME NEW s, NEW o \in Nat, StandsAt(s, o, y)
      PROVE  Sec!Word8(s, o + 5) + 6 = Len(y) /\ RegionAt(s, o) = r
  <2>1. o \in Int /\ 2 \in Nat /\ 3 \in Nat
    OBVIOUS
  <2>2. StandsAt(s, o, p) /\ StandsAt(s, o + (2 + 3), l)
    BY <1>4, <1>q, <1>7, <2>1, SplitThree
  <2> DEFINE m == o + 5
  <2>3. m \in Nat /\ o + (2 + 3) = m /\ m + 1 = o + 6 /\ m + 1 \in Nat
    OBVIOUS
  <2> HIDE DEF m
  <2>5. StandsAt(s, m, l)
    BY <2>2, <2>3
  <2>6. Sec!Word8(s, m) = Len(b) /\ StandsAt(s, m + 1, b)
    BY <1>2, <2>3, <2>5, ShortLoopKeepsLength DEF l
  <2>7. Sec!Text(s, o + 6, Len(b)) = b
    BY <1>2, <2>3, <2>6, TextRead
  <2>8. Sec!Word16(s, o) = r.code
    BY <1>1, <2>2, WordRead DEF p
  <2> QED
    BY <1>1, <1>6, <2>6, <2>7, <2>8 DEF RegionAt, m, n
<1> HIDE DEF y
<1>8. Len(y) > 0
  BY <1>4, <1>6
<1> QED
  BY <1>3, <1>6, <1>7, <1>8

(* Freesat's list of regions. *)
LEMMA RegionsRead ==
  ASSUME NEW s, NEW d \in Nat, NEW regions \in Seq(Sec!Region),
         Sec!Fits8(Sec!EachOf(regions, Sec!PutRegion)),
         StandsAt(s, d, Sec!Descriptor(212, Sec!EachOf(regions, Sec!PutRegion)))
  PROVE  Sec!Regions(s, d) = regions
<1> DEFINE items == Sec!Each(regions, Sec!PutRegion)
           size == [r \in Nat |-> Sec!Word8(s, r + 5) + 6]
           w == Sec!Walk(d + 2, d + 2 + Sec!Word8(s, d + 1), size)
           n == Len(regions)
<1>1. ASSUME NEW i \in 1 .. n
      PROVE  /\ items[i] \in Seq(Int) /\ Len(items[i]) > 0
             /\ \A o \in Nat : StandsAt(s, o, items[i]) =>
                  size[o] = Len(items[i]) /\ RegionAt(s, o) = regions[i]
  <2>1. items[i] = Sec!PutRegion(regions[i]) /\ regions[i] \in Sec!Region
    BY DomainOf DEF Sec!Each
  <2> HIDE DEF items
  <2>2. ASSUME NEW o \in Nat, StandsAt(s, o, items[i])
        PROVE  size[o] = Len(items[i]) /\ RegionAt(s, o) = regions[i]
    <3>1. Sec!Word8(s, o + 5) + 6 = Len(items[i]) /\ RegionAt(s, o) = regions[i]
      <4> HIDE DEF size
      <4> QED
        BY <2>1, <2>2, RegionRead
    <3> QED
      BY <3>1
  <2> HIDE DEF size
  <2>3. items[i] \in Seq(Int) /\ Len(items[i]) > 0
    BY <2>1, RegionRead
  <2> QED
    BY <2>2, <2>3
<1>2. items = [i \in DOMAIN regions |-> items[i]]
  BY DEF Sec!Each
<1>3. Sec!EachOf(regions, Sec!PutRegion) = Sec!FlattenSeq(items) /\ 212 \in Sec!Byte
  BY Tags DEF Sec!EachOf
<1>4. Sec!Regions(s, d) = [i \in DOMAIN w |-> RegionAt(s, w[i])]
  BY DEF Sec!Regions, Sec!Each, RegionAt
<1> HIDE DEF items, size
<1>5. Entries(regions, items, s, size)
  BY <1>1, <1>2 DEF Entries
<1>6. EntriesAt(regions, items, s, w)
  BY <1>3, <1>5, EntriesFound
<1> HIDE DEF w, n
<1>7. DOMAIN w = 1 .. n /\ \A i \in 1 .. n : RegionAt(s, w[i]) = regions[i]
  BY <1>1, <1>6 DEF EntriesAt, n
<1> QED
  BY <1>4, <1>7, SameSequence DEF n

(* How regions and channel numbers are written. *)
LEMMA BouquetListsTyped ==
  /\ \A regions \in Seq(Sec!Region) : Sec!EachOf(regions, Sec!PutRegion) \in Seq(Int)
  /\ \A lcns \in Seq(Sec!FreesatLcn) : Sec!EachOf(lcns, Sec!PutFreesatLcn) \in Seq(Int)
<1>1. ASSUME NEW regions \in Seq(Sec!Region)
      PROVE  Sec!EachOf(regions, Sec!PutRegion) \in Seq(Int)
  <2> DEFINE items == Sec!Each(regions, Sec!PutRegion)
  <2>1. ASSUME NEW i \in 1 .. Len(regions) PROVE items[i] \in Seq(Int)
    <3>1. items[i] = Sec!PutRegion(regions[i]) /\ regions[i] \in Sec!Region
      BY DomainOf DEF Sec!Each
    <3> HIDE DEF items
    <3> QED
      BY <3>1, RegionRead
  <2>2. items = [i \in DOMAIN regions |-> items[i]]
    BY DEF Sec!Each
  <2> HIDE DEF items
  <2>3. Sec!FlattenSeq(items) \in Seq(Int)
    BY <2>1, <2>2, PiecesOf, FlattenTyped
  <2> QED
    BY <2>3 DEF items, Sec!EachOf
<1>2. ASSUME NEW lcns \in Seq(Sec!FreesatLcn)
      PROVE  Sec!EachOf(lcns, Sec!PutFreesatLcn) \in Seq(Int)
  <2> DEFINE items == Sec!Each(lcns, Sec!PutFreesatLcn)
  <2>1. ASSUME NEW i \in 1 .. Len(lcns) PROVE items[i] \in Seq(Int)
    <3>1. items[i] = Sec!PutFreesatLcn(lcns[i]) /\ lcns[i] \in Sec!FreesatLcn
      BY DomainOf DEF Sec!Each
    <3> HIDE DEF items
    <3> QED
      BY <3>1, FreesatRead
  <2>2. items = [i \in DOMAIN lcns |-> items[i]]
    BY DEF Sec!Each
  <2> HIDE DEF items
  <2>3. Sec!FlattenSeq(items) \in Seq(Int)
    BY <2>1, <2>2, PiecesOf, FlattenTyped
  <2> QED
    BY <2>3 DEF items, Sec!EachOf
<1> QED
  BY <1>1, <1>2

(* What a BAT consists of. *)
LEMMA BatTyped ==
  ASSUME NEW n \in Sec!Bat
  PROVE  /\ n.table = 74 /\ n.header \in Sec!HeaderField /\ n.names \in Seq(Sec!Name)
         /\ n.regions \in Seq(Sec!Region) /\ n.lcns \in Seq(Sec!FreesatLcn)
         /\ n = [table |-> n.table, header |-> n.header, names |-> n.names,
                 regions |-> n.regions, lcns |-> n.lcns]
         /\ Sec!Fits8(Sec!EachOf(n.regions, Sec!PutRegion))
         /\ Sec!Fits8(Sec!EachOf(n.lcns, Sec!PutFreesatLcn))
         /\ Sec!Fits12(Sec!FlattenSeq(Sec!BouquetDescriptors(n)))
         /\ Sec!Fits12(Sec!SectionBytes(n, Sec!PutBat(n)))
<1>1. /\ n \in [table : {Sec!Table.bat}, header : Sec!HeaderField, names : Seq(Sec!Name),
                regions : Seq(Sec!Region), lcns : Seq(Sec!FreesatLcn)]
      /\ Sec!Fits8(Sec!EachOf(n.regions, Sec!PutRegion))
      /\ Sec!Fits8(Sec!EachOf(n.lcns, Sec!PutFreesatLcn))
      /\ Sec!Fits12(Sec!FlattenSeq(Sec!BouquetDescriptors(n)))
      /\ Sec!Fits12(Sec!SectionBytes(n, Sec!PutBat(n)))
  BY DEF Sec!Bat
<1>2. /\ n.table = 74 /\ n.header \in Sec!HeaderField /\ n.names \in Seq(Sec!Name)
      /\ n.regions \in Seq(Sec!Region) /\ n.lcns \in Seq(Sec!FreesatLcn)
      /\ n = [table |-> n.table, header |-> n.header, names |-> n.names,
              regions |-> n.regions, lcns |-> n.lcns]
  BY <1>1 DEF Sec!Table
<1> QED
  BY <1>1, <1>2

(* One sequence flattened is itself. *)
LEMMA FlattenSingle ==
  ASSUME NEW V, NEW x \in Seq(V), NEW seqs, seqs = [i \in 1 .. 1 |-> seqs[i]], seqs[1] = x
  PROVE  Sec!FlattenSeq(seqs) = x
<1> DEFINE a == 1
<1>1. a \in Nat /\ a \in 1 .. a /\ YieldsOne(seqs, a, a, x)
  BY DEF YieldsOne
<1> HIDE DEF a
<1> QED
  BY <1>1, FlattenOne

(* One descriptor in a loop of its own. *)
LEMMA SingleFound ==
  ASSUME NEW tag \in Sec!Byte, NEW b \in Seq(Int), Sec!Fits8(b)
  PROVE  LET x == Sec!Descriptor(tag, b)
             l == Sec!DescriptorLoop(<<x>>)
         IN /\ Bytes(l, 4 + Len(b)) /\ l = Sec!Loop12(x) /\ x \in Seq(Int)
            /\ \A s : \A o \in Nat : StandsAt(s, o, l) =>
                 LET w == Sec!Descriptors(s, o)
                 IN DOMAIN w = 1 .. 1 /\ w[1] \in Nat /\ StandsAt(s, w[1], x)
<1> DEFINE x == Sec!Descriptor(tag, b)
           items == <<x>>
           l == Sec!DescriptorLoop(items)
           n == Len(b)
<1>1. x \in Seq(Int) /\ Bytes(x, n + 2) /\ IsDescriptor(x) /\ n \in Nat
  BY DescriptorBytes, BytesOf
<1>2. n < 256
  BY DEF Sec!Fits8
<1> HIDE DEF x, n
<1>3. /\ items \in Seq(Seq(Int)) /\ Len(items) = 1 /\ items = [i \in 1 .. 1 |-> items[i]]
      /\ items[1] = x
  BY <1>1
<1> HIDE DEF items
<1>4. Sec!FlattenSeq(items) = x
  BY <1>1, <1>3, FlattenSingle
<1>5. Sec!Fits12(x)
  <2>1. n + 2 < 4096
    BY <1>1, <1>2, SMT
  <2> QED
    BY <1>1, <2>1, SMT DEF Sec!Fits12, Bytes
<1>6. l = Sec!Loop12(x)
  BY <1>4 DEF Sec!DescriptorLoop
<1>7. Bytes(l, 4 + n)
  <2>1. Bytes(l, 2 + Len(x)) /\ Len(x) = n + 2 /\ 2 + (n + 2) = 4 + n
    BY <1>1, <1>6, ShortLoopBytes DEF Bytes
  <2> QED
    BY <2>1
<1>8. ASSUME NEW s, NEW o \in Nat, StandsAt(s, o, l)
      PROVE  LET w == Sec!Descriptors(s, o)
             IN DOMAIN w = 1 .. 1 /\ w[1] \in Nat /\ StandsAt(s, w[1], x)
  <2>1. \A i \in 1 .. Len(items) : IsDescriptor(items[i])
    BY <1>1, <1>3
  <2>2. Sec!Fits12(Sec!FlattenSeq(items))
    BY <1>4, <1>5
  <2>3. Found(s, items, Sec!Descriptors(s, o))
    BY <1>3, <1>8, <2>1, <2>2, DescriptorsFound
  <2>4. 1 \in 1 .. Len(items) /\ 1 .. Len(items) = 1 .. 1
    BY <1>3
  <2> QED
    BY <1>3, <2>3, <2>4 DEF Found
<1> HIDE DEF l
<1>9. /\ Bytes(l, 4 + n) /\ l = Sec!Loop12(x) /\ x \in Seq(Int)
      /\ \A s : \A o \in Nat : StandsAt(s, o, l) =>
           LET w == Sec!Descriptors(s, o)
           IN DOMAIN w = 1 .. 1 /\ w[1] \in Nat /\ StandsAt(s, w[1], x)
  BY <1>1, <1>6, <1>7, <1>8
<1> QED
  BY <1>9 DEF l, items, x, n

(* The transport stream the channel numbers are with. *)
LEMMA BouquetStreamRead ==
  ASSUME NEW n \in Sec!Bat
  PROVE  LET y == Sec!BouquetStream(n)
         IN /\ y \in Seq(Int) /\ Len(y) > 0 /\ Sec!Fits12(y)
            /\ \A s : \A o \in Nat : StandsAt(s, o, y) =>
                 LET w == Sec!Descriptors(s, o + 4)
                 IN /\ 6 + Sec!Word12(s, o + 4) = Len(y)
                    /\ DOMAIN w = 1 .. 1 /\ Sec!Word8(s, w[1]) = 211
                    /\ Sec!FreesatLcns(s, w[1]) = n.lcns
<1> DEFINE b == Sec!EachOf(n.lcns, Sec!PutFreesatLcn)
           x == Sec!Descriptor(211, b)
           l == Sec!DescriptorLoop(<<x>>)
           p == Sec!Put16(1)
           q == Sec!Put16(2)
           y == (p \o q) \o l
           k == Len(b)
<1>1. n.lcns \in Seq(Sec!FreesatLcn) /\ Sec!Fits8(b) /\ b \in Seq(Int) /\ 211 \in Sec!Byte
  BY BatTyped, BouquetListsTyped, Tags
<1>2. Sec!BouquetStream(n) = y
  BY Tags DEF Sec!BouquetStream
<1>3. k \in Nat /\ k < 256
  <2> HIDE DEF b
  <2> QED
    BY <1>1, BytesOf DEF Sec!Fits8
<1>4. /\ Bytes(l, 4 + k) /\ l = Sec!Loop12(x) /\ x \in Seq(Int)
      /\ \A s : \A o \in Nat : StandsAt(s, o, l) =>
           LET w == Sec!Descriptors(s, o)
           IN DOMAIN w = 1 .. 1 /\ w[1] \in Nat /\ StandsAt(s, w[1], x)
  <2> HIDE DEF b
  <2> QED
    BY <1>1, SingleFound
<1>5. Bytes(p, 2) /\ Bytes(q, 2) /\ 4 + k \in Nat
  BY <1>3, PutBytes
<1>6. Shows(x, 211)
  <2> HIDE DEF b
  <2> QED
    BY <1>1, ShowsTag
<1>7. \A s : \A o \in Nat : StandsAt(s, o, x) => Sec!FreesatLcns(s, o) = n.lcns
  BY <1>1, FreesatLcnsRead
<1> HIDE DEF p, q, l, k
<1>8. Bytes(y, (2 + 2) + (4 + k))
  BY <1>4, <1>5, JoinedThree
<1>9. y \in Seq(Int) /\ Len(y) = 8 + k /\ Len(y) > 0
  BY <1>3, <1>8 DEF Bytes
<1>10. Sec!Fits12(y)
  <2>1. 8 + k < 4096
    BY <1>3, SMT
  <2> QED
    BY <1>9, <2>1, SMT DEF Sec!Fits12
<1>11. Len(x) = 2 + k
  <2>1. Bytes(x, k + 2)
    <3> HIDE DEF b
    <3> QED
      BY <1>1, DescriptorBytes DEF k
  <2> QED
    BY <1>3, <2>1 DEF Bytes
<1> HIDE DEF x
<1>12. Sec!Fits12(x)
  <2>1. 2 + k < 4096
    BY <1>3, SMT
  <2> QED
    BY <1>11, <2>1, SMT DEF Sec!Fits12
<1>13. ASSUME NEW s, NEW o \in Nat, StandsAt(s, o, y)
       PROVE  LET w == Sec!Descriptors(s, o + 4)
              IN /\ 6 + Sec!Word12(s, o + 4) = Len(y)
                 /\ DOMAIN w = 1 .. 1 /\ Sec!Word8(s, w[1]) = 211
                 /\ Sec!FreesatLcns(s, w[1]) = n.lcns
  <2> DEFINE c == o + 4
  <2>1. o \in Int /\ 2 \in Nat /\ c \in Nat /\ o + (2 + 2) = c
    OBVIOUS
  <2>2. StandsAt(s, o + (2 + 2), l)
    BY <1>4, <1>5, <1>13, <2>1, SplitThree
  <2>3. StandsAt(s, c, l)
    BY <2>1, <2>2
  <2> HIDE DEF c
  <2> DEFINE w == Sec!Descriptors(s, c)
  <2>4. DOMAIN w = 1 .. 1 /\ w[1] \in Nat /\ StandsAt(s, w[1], x)
    BY <1>4, <2>1, <2>3
  <2>5. Sec!Word12(s, c) = Len(x)
    BY <1>4, <1>12, <2>1, <2>3, LoopRead
  <2> HIDE DEF w
  <2>6. Sec!Word8(s, w[1]) = 211 /\ Sec!FreesatLcns(s, w[1]) = n.lcns
    BY <1>6, <1>7, <2>4 DEF Shows
  <2>7. 6 + Sec!Word12(s, c) = Len(y)
    BY <1>3, <1>9, <1>11, <2>5
  <2> QED
    BY <2>4, <2>6, <2>7 DEF w, c
<1> HIDE DEF y
<1> QED
  BY <1>2, <1>9, <1>10, <1>13

(* Where no item yields anything, nothing is read. *)
LEMMA FlattenNone ==
  ASSUME NEW n \in Nat, NEW seqs, seqs = [i \in 1 .. n |-> << >>]
  PROVE  Sec!FlattenSeq(seqs) = << >>
<1> DEFINE z == 0
           e == << >>
<1>1. z \in Nat /\ e \in Seq(Int) /\ (e # << >> => z \in 1 .. n)
  OBVIOUS
<1>2. (\A i \in 1 .. n : seqs[i] = e) /\ seqs = [i \in 1 .. n |-> seqs[i]] /\ e = << >>
  OBVIOUS
<1> HIDE DEF z, e
<1>3. YieldsAny(seqs, n, z, e)
  BY <1>1, <1>2 DEF YieldsAny
<1>4. Sec!FlattenSeq(seqs) = e
  BY <1>1, <1>3, FlattenAny
<1> QED
  BY <1>2, <1>4

(* The bouquet's own descriptors give its names and regions, and no        *)
(* channel numbers.                                                        *)
LEMMA BouquetDescriptorsRead ==
  ASSUME NEW n \in Sec!Bat
  PROVE  /\ Sec!FlattenSeq(Sec!BouquetDescriptors(n)) \in Seq(Int)
         /\ \A s : \A o \in Nat : StandsAt(s, o, Sec!DescriptorLoop(Sec!BouquetDescriptors(n))) =>
              LET w == Sec!Descriptors(s, o)
              IN /\ Sec!NamesOf(s, o, 71) = n.names
                 /\ Sec!FlattenSeq([i \in DOMAIN w |-> IF Sec!Word8(s, w[i]) = 212
                                                       THEN Sec!Regions(s, w[i]) ELSE << >>])
                      = n.regions
                 /\ Sec!FlattenSeq([i \in DOMAIN w |-> IF Sec!Word8(s, w[i]) = 211
                                                       THEN Sec!FreesatLcns(s, w[i]) ELSE << >>])
                      = << >>
<1> DEFINE items == Sec!BouquetDescriptors(n)
           c == Sec!EachOf(n.regions, Sec!PutRegion)
           last == Sec!Descriptor(212, c)
           k == Len(n.names)
<1>1. /\ n.names \in Seq(Sec!Name) /\ n.regions \in Seq(Sec!Region) /\ Sec!Fits8(c)
      /\ c \in Seq(Int) /\ Sec!Fits12(Sec!FlattenSeq(items))
  BY BatTyped, BouquetListsTyped
<1>2. 71 \in Sec!Byte /\ 212 \in Sec!Byte /\ 212 # 71
  BY Tags
<1>3. items = Sec!PutNames(71, n.names) \o <<last>>
  BY Tags DEF Sec!BouquetDescriptors
<1>4. \A s : \A o \in Nat : StandsAt(s, o, last) => Sec!Regions(s, o) = n.regions
  BY <1>1, RegionsRead
<1> HIDE DEF c, items
<1>5. items \in Seq(Seq(Int))
  <2>1. last \in Seq(Int) /\ IsDescriptor(last)
    BY <1>1, <1>2, DescriptorBytes
  <2> HIDE DEF last
  <2> QED
    BY <1>1, <1>2, <1>3, <2>1, NamesLoop
<1>6. Sec!FlattenSeq(items) \in Seq(Int)
  BY <1>5, FlattenTyped
<1>7. ASSUME NEW s, NEW o \in Nat, StandsAt(s, o, Sec!DescriptorLoop(items))
      PROVE  LET w == Sec!Descriptors(s, o)
             IN /\ Sec!NamesOf(s, o, 71) = n.names
                /\ Sec!FlattenSeq([i \in DOMAIN w |-> IF Sec!Word8(s, w[i]) = 212
                                                      THEN Sec!Regions(s, w[i]) ELSE << >>])
                     = n.regions
                /\ Sec!FlattenSeq([i \in DOMAIN w |-> IF Sec!Word8(s, w[i]) = 211
                                                      THEN Sec!FreesatLcns(s, w[i]) ELSE << >>])
                     = << >>
  <2> DEFINE w == Sec!Descriptors(s, o)
             regions == [i \in DOMAIN w |-> IF Sec!Word8(s, w[i]) = 212
                                            THEN Sec!Regions(s, w[i]) ELSE << >>]
             lcns == [i \in DOMAIN w |-> IF Sec!Word8(s, w[i]) = 211
                                         THEN Sec!FreesatLcns(s, w[i]) ELSE << >>]
  <2>1. /\ Sec!NamesOf(s, o, 71) = n.names
        /\ k \in Nat /\ DOMAIN w = 1 .. k + 1 /\ w[k + 1] \in Nat
        /\ StandsAt(s, w[k + 1], last)
        /\ \A i \in 1 .. k + 1 : Sec!Word8(s, w[i]) = IF i <= k THEN 71 ELSE 212
    <3> DEFINE tag == 71
               other == 212
    <3>1. /\ tag \in Sec!Byte /\ other \in Sec!Byte /\ other # tag
          /\ items = Sec!PutNames(tag, n.names) \o <<Sec!Descriptor(other, c)>>
      BY <1>2, <1>3
    <3>2. tag = 71 /\ other = 212 /\ last = Sec!Descriptor(other, c)
      OBVIOUS
    <3> HIDE DEF tag, other, last
    <3>3. /\ Sec!NamesOf(s, o, tag) = n.names
          /\ NamesAndLast(s, w, k, tag, other, Sec!Descriptor(other, c))
      BY <1>1, <1>7, <3>1, NamesRead
    <3> HIDE DEF w, k
    <3> QED
      BY <3>2, <3>3 DEF NamesAndLast
  <2> HIDE DEF w, k, last
  <2> DEFINE m == k + 1
  <2>2. /\ m \in Nat /\ m \in 1 .. m /\ DOMAIN w = 1 .. m
        /\ \A i \in 1 .. m : Sec!Word8(s, w[i]) = 212 <=> i = m
        /\ \A i \in 1 .. m : Sec!Word8(s, w[i]) # 211
    <3>1. \A i \in 1 .. m : ~ (i <= k) <=> i = m
      BY <2>1
    <3>2. m \in Nat /\ m \in 1 .. m /\ DOMAIN w = 1 .. m
      BY <2>1
    <3> QED
      BY <2>1, <3>1, <3>2
  <2>3. Sec!Regions(s, w[m]) = n.regions
    BY <1>4, <2>1
  <2> HIDE DEF m
  <2>4. Sec!FlattenSeq(regions) = n.regions
    <3> DEFINE x == n.regions
    <3>1. YieldsOne(regions, m, m, x)
      BY <2>2, <2>3 DEF YieldsOne
    <3> HIDE DEF regions, x
    <3>2. Sec!FlattenSeq(regions) = x
      BY <1>1, <2>2, <3>1, FlattenOne DEF x
    <3> QED
      BY <3>2 DEF x
  <2>5. Sec!FlattenSeq(lcns) = << >>
    <3>1. lcns = [i \in 1 .. m |-> << >>]
      BY <2>2
    <3> HIDE DEF lcns
    <3> QED
      BY <2>2, <3>1, FlattenNone
  <2> QED
    BY <2>1, <2>4, <2>5 DEF w
<1> QED
  BY <1>6, <1>7 DEF items

(* The body of a BAT. *)
LEMMA BatBodyRead ==
  ASSUME NEW n \in Sec!Bat
  PROVE  /\ Sec!PutBat(n) \in Seq(Int)
         /\ \A s : StandsAt(s, 8, Sec!PutBat(n)) =>
              /\ Sec!NamesOf(s, 8, 71) = n.names
              /\ Sec!BatDescriptors(s, 212, LAMBDA d : Sec!Regions(s, d)) = n.regions
              /\ Sec!BatDescriptors(s, 211, LAMBDA d : Sec!FreesatLcns(s, d)) = n.lcns
<1> DEFINE items == Sec!BouquetDescriptors(n)
           b == Sec!FlattenSeq(items)
           y == Sec!BouquetStream(n)
           ys == <<y>>
           p == Sec!Loop12(b)
           q == Sec!Loop12(y)
<1>1. /\ Sec!Fits12(b) /\ b \in Seq(Int) /\ n.regions \in Seq(Sec!Region)
      /\ n.lcns \in Seq(Sec!FreesatLcn)
  BY BatTyped, BouquetDescriptorsRead
<1>2. /\ y \in Seq(Int) /\ Len(y) > 0 /\ Sec!Fits12(y)
      /\ \A s : \A o \in Nat : StandsAt(s, o, y) =>
           LET w == Sec!Descriptors(s, o + 4)
           IN /\ 6 + Sec!Word12(s, o + 4) = Len(y)
              /\ DOMAIN w = 1 .. 1 /\ Sec!Word8(s, w[1]) = 211
              /\ Sec!FreesatLcns(s, w[1]) = n.lcns
  BY BouquetStreamRead
<1>3. Sec!PutBat(n) = p \o q
  BY DEF Sec!PutBat, Sec!DescriptorLoop
<1> HIDE DEF y
<1>4. /\ ys \in Seq(Seq(Int)) /\ Len(ys) = 1 /\ ys[1] = y /\ ys = [i \in 1 .. 1 |-> ys[i]]
  BY <1>2
<1> HIDE DEF ys
<1>5. Sec!FlattenSeq(ys) = y
  BY <1>2, <1>4, FlattenSingle
<1>6. ASSUME NEW s, StandsAt(s, 8, Sec!PutBat(n))
      PROVE  /\ Sec!NamesOf(s, 8, 71) = n.names
             /\ Sec!BatDescriptors(s, 212, LAMBDA d : Sec!Regions(s, d)) = n.regions
             /\ Sec!BatDescriptors(s, 211, LAMBDA d : Sec!FreesatLcns(s, d)) = n.lcns
  <2> DEFINE o == 8
             w == Sec!Descriptors(s, o)
             v == Sec!Streams(s)
             c == Sec!Descriptors(s, v[1] + 4)
             regions == [i \in DOMAIN w |-> IF Sec!Word8(s, w[i]) = 212
                                            THEN Sec!Regions(s, w[i]) ELSE << >>]
             lcns == [i \in DOMAIN w |-> IF Sec!Word8(s, w[i]) = 211
                                         THEN Sec!FreesatLcns(s, w[i]) ELSE << >>]
             within(t) == [i \in DOMAIN Sec!Descriptors(s, t + 4) |->
                            IF Sec!Word8(s, Sec!Descriptors(s, t + 4)[i]) = 212
                            THEN Sec!Regions(s, Sec!Descriptors(s, t + 4)[i]) ELSE << >>]
             numbered(t) == [i \in DOMAIN Sec!Descriptors(s, t + 4) |->
                              IF Sec!Word8(s, Sec!Descriptors(s, t + 4)[i]) = 211
                              THEN Sec!FreesatLcns(s, Sec!Descriptors(s, t + 4)[i]) ELSE << >>]
             more == [i \in DOMAIN v |-> Sec!FlattenSeq(within(v[i]))]
             there == [i \in DOMAIN v |-> Sec!FlattenSeq(numbered(v[i]))]
  <2>1. /\ Sec!BatDescriptors(s, 212, LAMBDA d : Sec!Regions(s, d))
             = Sec!FlattenSeq(regions) \o Sec!FlattenSeq(more)
        /\ Sec!BatDescriptors(s, 211, LAMBDA d : Sec!FreesatLcns(s, d))
             = Sec!FlattenSeq(lcns) \o Sec!FlattenSeq(there)
    BY DEF Sec!BatDescriptors, Sec!Tagged, Sec!EachOf, Sec!Each
  <2>2. Found(s, ys, v) /\ StandsAt(s, o, p)
    <3>1. \A i \in 1 .. Len(ys) :
            /\ Len(ys[i]) > 0
            /\ \A d \in Nat : StandsAt(s, d, ys[i]) => 6 + Sec!Word12(s, d + 4) = Len(ys[i])
      BY <1>2, <1>4
    <3>2. Sec!Fits12(Sec!FlattenSeq(ys))
      BY <1>2, <1>5
    <3>3. StandsAt(s, 8, Sec!Loop12(b) \o Sec!Loop12(Sec!FlattenSeq(ys)))
      BY <1>3, <1>5, <1>6
    <3> HIDE DEF b
    <3> QED
      BY <1>1, <1>4, <3>1, <3>2, <3>3, StreamsWalked
  <2>3. o \in Nat /\ StandsAt(s, o, Sec!DescriptorLoop(items))
    BY <2>2 DEF Sec!DescriptorLoop
  <2> HIDE DEF o
  <2>4. /\ Sec!NamesOf(s, o, 71) = n.names /\ Sec!FlattenSeq(regions) = n.regions
        /\ Sec!FlattenSeq(lcns) = << >>
    BY <2>3, BouquetDescriptorsRead
  <2>5. DOMAIN v = 1 .. 1 /\ v[1] \in Nat /\ StandsAt(s, v[1], y)
    <3>1. 1 \in 1 .. Len(ys)
      BY <1>4
    <3> HIDE DEF v
    <3> QED
      BY <1>4, <2>2, <3>1 DEF Found
  <2>6. DOMAIN c = 1 .. 1 /\ Sec!Word8(s, c[1]) = 211 /\ Sec!FreesatLcns(s, c[1]) = n.lcns
    <3> HIDE DEF v
    <3> QED
      BY <1>2, <2>5
  <2>7. Sec!FlattenSeq(within(v[1])) = << >>
    <3> DEFINE seqs == [i \in DOMAIN c |-> IF Sec!Word8(s, c[i]) = 212
                                          THEN Sec!Regions(s, c[i]) ELSE << >>]
               a == 1
    <3>1. within(v[1]) = seqs
      OBVIOUS
    <3> HIDE DEF c
    <3>2. a \in Nat /\ seqs = [i \in 1 .. a |-> << >>]
      BY <2>6
    <3> HIDE DEF seqs, a, within
    <3> QED
      BY <3>1, <3>2, FlattenNone
  <2>8. Sec!FlattenSeq(numbered(v[1])) = n.lcns
    <3> DEFINE seqs == [i \in DOMAIN c |-> IF Sec!Word8(s, c[i]) = 211
                                          THEN Sec!FreesatLcns(s, c[i]) ELSE << >>]
    <3>1. numbered(v[1]) = seqs
      OBVIOUS
    <3> HIDE DEF c
    <3>2. seqs = [i \in 1 .. 1 |-> seqs[i]] /\ seqs[1] = n.lcns
      BY <2>6
    <3> HIDE DEF seqs, numbered
    <3> QED
      BY <1>1, <3>1, <3>2, FlattenSingle
  <2> HIDE DEF within, numbered, v
  <2>9. Sec!FlattenSeq(more) = << >>
    <3> DEFINE e == << >>
    <3>1. more = [i \in 1 .. 1 |-> more[i]] /\ more[1] = e /\ e \in Seq(Int) /\ e = << >>
      BY <2>5, <2>7
    <3> HIDE DEF more, e
    <3> QED
      BY <3>1, FlattenSingle
  <2>10. Sec!FlattenSeq(there) = n.lcns
    <3>1. there = [i \in 1 .. 1 |-> there[i]] /\ there[1] = n.lcns
      BY <2>5, <2>8
    <3> HIDE DEF there
    <3> QED
      BY <1>1, <3>1, FlattenSingle
  <2> HIDE DEF regions, lcns, more, there
  <2>11. n.regions \o << >> = n.regions /\ << >> \o n.lcns = n.lcns
    BY <1>1
  <2> QED
    BY <2>1, <2>4, <2>9, <2>10, <2>11 DEF o
<1> HIDE DEF b
<1>7. Bytes(p, 2 + Len(b)) /\ Bytes(q, 2 + Len(y)) /\ 2 + Len(b) \in Nat /\ 2 + Len(y) \in Nat
  BY <1>1, <1>2, ShortLoopBytes, BytesOf
<1> HIDE DEF p, q
<1>8. p \o q \in Seq(Int)
  BY <1>7, Joined DEF Bytes
<1> QED
  BY <1>3, <1>6, <1>8 DEF p, q

(* A bouquet association table is read as it was written. *)
THEOREM BatReadAsWritten ==
  ASSUME NEW n \in Sec!Bat, NEW s, StandsAt(s, 0, Sec!WriteSection(n))
  PROVE  Sec!ReadSection(s) = n
<1> DEFINE body == Sec!PutBat(n)
           table == n.table
           header == n.header
<1>1. table \in {74} /\ header \in Sec!HeaderField
      /\ Sec!Fits12(Sec!SectionBytes(n, body))
  BY BatTyped
<1>2. table \in Sec!Byte /\ n.header = header
  BY <1>1 DEF Sec!Byte, Sec!Below
<1>3. Framed(s, table, n, body)
  BY <1>1 DEF Framed, Sec!WriteSection, Sec!Table
<1>4. body \in Seq(Int)
  BY BatBodyRead
<1> HIDE DEF body, table, header
<1>5. Sec!Word8(s, 0) = table /\ Sec!Header(s) = header /\ StandsAt(s, 8, body)
  <2>1. header \in Sec!HeaderField /\ Sec!Fits12(Sec!SectionBytes(n, body))
    BY <1>1
  <2> QED
    BY <1>2, <1>3, <1>4, <2>1, FrameRead
<1>6. /\ Sec!NamesOf(s, 8, 71) = n.names
      /\ Sec!BatDescriptors(s, 212, LAMBDA d : Sec!Regions(s, d)) = n.regions
      /\ Sec!BatDescriptors(s, 211, LAMBDA d : Sec!FreesatLcns(s, d)) = n.lcns
  BY <1>5, BatBodyRead DEF body
<1>7. Sec!ReadSection(s) = Sec!ReadBat(s)
  BY <1>1, <1>5 DEF Sec!ReadSection, Sec!Table
<1>8. Sec!ReadBat(s) = [table |-> n.table, header |-> n.header, names |-> n.names,
                        regions |-> n.regions, lcns |-> n.lcns]
  BY <1>5, <1>6, Tags DEF Sec!ReadBat, table, header
<1> QED
  BY <1>7, <1>8, BatTyped
-----------------------------------------------------------------------------
(* The SDT.                                                                *)

(* A service's type, provider and name. *)
LEMMA ServiceNamesRead ==
  ASSUME NEW x \in Sec!NamesOfService
  PROVE  /\ Sec!PutServiceNames(x) \in Seq(Int) /\ Sec!Fits8(Sec!PutServiceNames(x))
         /\ \A s : \A d \in Nat : StandsAt(s, d, Sec!Descriptor(72, Sec!PutServiceNames(x))) =>
              Sec!ServiceNames(s, d) = x
<1> DEFINE b == x.provider
           e == x.name
           t == Sec!Put8(x.type)
           p == Sec!Loop8(b)
           q == Sec!Loop8(e)
           k == Len(b)
           m == Len(e)
           y == (t \o p) \o q
<1>1. /\ x.type \in Sec!Byte /\ b \in Sec!Name /\ e \in Sec!Name
      /\ x = [type |-> x.type, provider |-> b, name |-> e] /\ Sec!Fits8(Sec!PutServiceNames(x))
  BY DEF Sec!NamesOfService
<1>2. b \in Seq(Int) /\ Sec!Fits8(b) /\ e \in Seq(Int) /\ Sec!Fits8(e)
  BY <1>1, NameBytes
<1>3. Sec!PutServiceNames(x) = y
  BY DEF Sec!PutServiceNames
<1> HIDE DEF b, e
<1>4. /\ Bytes(t, 1) /\ Bytes(p, 1 + k) /\ Bytes(q, 1 + m) /\ k \in Nat /\ m \in Nat
      /\ 1 + k \in Nat /\ 1 + m \in Nat
  BY <1>1, <1>2, NumberBytes, ShortLoopBytes, BytesOf
<1> HIDE DEF t, p, q, k, m
<1>5. Bytes(y, (1 + (1 + k)) + (1 + m))
  BY <1>4, JoinedThree
<1>6. y \in Seq(Int) /\ Sec!Fits8(y)
  BY <1>1, <1>3, <1>5 DEF Bytes
<1>7. ASSUME NEW s, NEW d \in Nat, StandsAt(s, d, Sec!Descriptor(72, y))
      PROVE  Sec!ServiceNames(s, d) = x
  <2>1. StandsAt(s, d + 2, y)
    <3>1. 72 \in Sec!Byte
      BY Tags
    <3> HIDE DEF y
    <3> QED
      BY <1>6, <1>7, <3>1, DescriptorRead
  <2> DEFINE o == d + 2
             o3 == d + 3
             o4 == d + 4 + k
  <2>2. o \in Nat /\ o \in Int /\ StandsAt(s, o, y)
    BY <2>1
  <2>3. /\ o3 \in Nat /\ o4 \in Nat /\ o + 1 = o3 /\ o + (1 + (1 + k)) = o4
        /\ o3 + 1 = d + 4 /\ o4 + 1 = d + 5 + k /\ o3 + 1 \in Nat /\ o4 + 1 \in Nat
    BY <1>4
  <2> HIDE DEF o, o3, o4
  <2>4. StandsAt(s, o, t) /\ StandsAt(s, o + 1, p) /\ StandsAt(s, o + (1 + (1 + k)), q)
    BY <1>4, <2>2, SplitThree
  <2>5. Sec!Word8(s, o) = x.type
    BY <1>1, <2>2, <2>4, ByteRead DEF t
  <2>6. StandsAt(s, o3, p) /\ StandsAt(s, o4, q)
    BY <2>3, <2>4
  <2>7. Sec!Word8(s, o3) = k /\ StandsAt(s, o3 + 1, b)
    BY <1>2, <2>3, <2>6, ShortLoopKeepsLength DEF p, k
  <2>8. Sec!Word8(s, o4) = m /\ StandsAt(s, o4 + 1, e)
    <3>1. o4 \in Nat /\ StandsAt(s, o4, Sec!Loop8(e))
      BY <2>3, <2>6 DEF q
    <3> HIDE DEF y
    <3> QED
      BY <1>2, <3>1, ShortLoopKeepsLength DEF m
  <2>9. Sec!Text(s, o3 + 1, k) = b /\ Sec!Text(s, o4 + 1, m) = e
    BY <1>2, <2>3, <2>7, <2>8, TextRead DEF k, m
  <2>10. /\ Sec!Word8(s, d + 2) = x.type /\ Sec!Word8(s, d + 3) = k
         /\ Sec!Word8(s, d + 4 + k) = m
         /\ Sec!Text(s, d + 4, k) = b /\ Sec!Text(s, d + 5 + k, m) = e
    BY <2>3, <2>5, <2>7, <2>8, <2>9 DEF o, o3, o4
  <2> QED
    BY <1>1, <2>10 DEF Sec!ServiceNames
<1> HIDE DEF y
<1> QED
  BY <1>3, <1>6, <1>7

(* The descriptors of a service: a private one, and one for each name. *)
LEMMA ServiceItems ==
  ASSUME NEW names \in Seq(Sec!NamesOfService)
  PROVE  LET items == <<Sec!Private>>
                      \o Sec!Each(names, LAMBDA x : Sec!Descriptor(72, Sec!PutServiceNames(x)))
             n == Len(names)
         IN /\ items \in Seq(Seq(Int)) /\ Len(items) = n + 1 /\ n \in Nat
            /\ items[1] = Sec!Private
            /\ \A i \in 1 .. n : items[1 + i] = Sec!Descriptor(72, Sec!PutServiceNames(names[i]))
<1> DEFINE n == Len(names)
           a == <<Sec!Private>>
           b == Sec!Each(names, LAMBDA x : Sec!Descriptor(72, Sec!PutServiceNames(x)))
           items == a \o b
           S == Seq(Int)
<1>1. ASSUME NEW i \in 1 .. n
      PROVE  /\ b[i] = Sec!Descriptor(72, Sec!PutServiceNames(names[i])) /\ b[i] \in S
  <2>1. /\ names[i] \in Sec!NamesOfService
        /\ b[i] = Sec!Descriptor(72, Sec!PutServiceNames(names[i]))
    BY DomainOf DEF Sec!Each
  <2>2. /\ Sec!PutServiceNames(names[i]) \in Seq(Int)
        /\ Sec!Fits8(Sec!PutServiceNames(names[i])) /\ 72 \in Sec!Byte
    BY <2>1, ServiceNamesRead, Tags
  <2> HIDE DEF b
  <2> QED
    BY <2>1, <2>2, DescriptorBytes
<1>2. b = [i \in DOMAIN names |-> b[i]]
  BY DEF Sec!Each
<1> HIDE DEF b
<1>3. b \in Seq(S) /\ Len(b) = n /\ n \in Nat
  BY <1>1, <1>2, PiecesOf
<1>4. a \in Seq(S) /\ Len(a) = 1 /\ a[1] = Sec!Private
  BY PrivateShows DEF Shows
<1> HIDE DEF a, n, S
<1>5. /\ Len(a \o b) = Len(a) + Len(b)
      /\ \A k \in 1 .. Len(a) : (a \o b)[k] = a[k]
      /\ \A k \in 1 .. Len(b) : (a \o b)[Len(a) + k] = b[k]
  <2>1. a \in Seq(S) /\ b \in Seq(S)
    BY <1>3, <1>4
  <2> QED
    BY <2>1, Concatenated
<1>6. a \o b \in Seq(S)
  BY <1>3, <1>4
<1> HIDE DEF items
<1>7. /\ Len(items) = n + 1 /\ items[1] = Sec!Private
      /\ \A k \in 1 .. n : items[1 + k] = b[k]
  BY <1>3, <1>4, <1>5 DEF items
<1> QED
  BY <1>1, <1>3, <1>6, <1>7 DEF items, a, b, n, S

(* The names are read of a service's descriptors, past the private one. *)
LEMMA ServiceDescriptorsRead ==
  ASSUME NEW v \in Sec!Service
  PROVE  /\ Sec!FlattenSeq(Sec!ServiceDescriptors(v)) \in Seq(Int)
         /\ \A s : \A o \in Nat : StandsAt(s, o, Sec!DescriptorLoop(Sec!ServiceDescriptors(v))) =>
              LET w == Sec!Descriptors(s, o)
              IN Sec!FlattenSeq([i \in DOMAIN w |-> IF Sec!Word8(s, w[i]) = 72
                                                    THEN <<Sec!ServiceNames(s, w[i])>> ELSE << >>])
                   = v.names
<1> DEFINE items == Sec!ServiceDescriptors(v)
           names == v.names
           n == Len(names)
           m == n + 1
<1>1. names \in Seq(Sec!NamesOfService) /\ Sec!Fits12(Sec!FlattenSeq(items))
  BY DEF Sec!Service
<1>2. items = <<Sec!Private>>
              \o Sec!Each(names, LAMBDA x : Sec!Descriptor(72, Sec!PutServiceNames(x)))
  BY Tags DEF Sec!ServiceDescriptors
<1> HIDE DEF names, items
<1>3. /\ items \in Seq(Seq(Int)) /\ Len(items) = m /\ n \in Nat /\ items[1] = Sec!Private
      /\ \A i \in 1 .. n : items[1 + i] = Sec!Descriptor(72, Sec!PutServiceNames(names[i]))
  BY <1>1, <1>2, ServiceItems
<1>4. Sec!FlattenSeq(items) \in Seq(Int)
  BY <1>3, FlattenTyped
<1> HIDE DEF n
<1>5. ASSUME NEW i \in 1 .. m, i # 1
      PROVE  /\ names[i - 1] \in Sec!NamesOfService
             /\ items[i] = Sec!Descriptor(72, Sec!PutServiceNames(names[i - 1]))
  <2>1. i - 1 \in 1 .. n /\ 1 + (i - 1) = i
    BY <1>3, <1>5
  <2>2. names[i - 1] \in Sec!NamesOfService
    BY <1>1, <2>1 DEF n
  <2> QED
    BY <1>3, <2>1, <2>2
<1>6. ASSUME NEW i \in 1 .. m
      PROVE  /\ IsDescriptor(items[i])
             /\ \A s : \A o \in Nat : StandsAt(s, o, items[i]) =>
                  IF i = 1 THEN Sec!Word8(s, o) # 72
                  ELSE Sec!Word8(s, o) = 72 /\ Sec!ServiceNames(s, o) = names[i - 1]
  <2>1. CASE i = 1
    <3>1. items[i] = Sec!Private
      BY <1>3, <2>1
    <3> HIDE DEF m
    <3> QED
      BY <2>1, <3>1, PrivateShows DEF Shows
  <2>2. CASE i # 1
    <3> DEFINE x == names[i - 1]
    <3>1. x \in Sec!NamesOfService /\ items[i] = Sec!Descriptor(72, Sec!PutServiceNames(x))
      BY <1>5, <2>2
    <3> HIDE DEF x, m
    <3>2. Sec!PutServiceNames(x) \in Seq(Int) /\ Sec!Fits8(Sec!PutServiceNames(x)) /\ 72 \in Sec!Byte
      BY <3>1, ServiceNamesRead, Tags
    <3>3. Shows(items[i], 72)
      BY <3>1, <3>2, ShowsTag
    <3>4. \A s : \A o \in Nat : StandsAt(s, o, items[i]) => Sec!ServiceNames(s, o) = x
      BY <3>1, ServiceNamesRead
    <3> QED
      BY <2>2, <3>3, <3>4 DEF Shows, x
  <2> QED
    BY <2>1, <2>2
<1>7. ASSUME NEW s, NEW o \in Nat, StandsAt(s, o, Sec!DescriptorLoop(items))
      PROVE  LET w == Sec!Descriptors(s, o)
             IN Sec!FlattenSeq([i \in DOMAIN w |-> IF Sec!Word8(s, w[i]) = 72
                                                   THEN <<Sec!ServiceNames(s, w[i])>> ELSE << >>])
                  = names
  <2> DEFINE w == Sec!Descriptors(s, o)
             seqs == [i \in DOMAIN w |-> IF Sec!Word8(s, w[i]) = 72
                                         THEN <<Sec!ServiceNames(s, w[i])>> ELSE << >>]
             a == 1
  <2>1. Found(s, items, w)
    <3>1. \A i \in 1 .. Len(items) : IsDescriptor(items[i])
      BY <1>3, <1>6
    <3> QED
      BY <1>1, <1>3, <1>7, <3>1, DescriptorsFound
  <2> HIDE DEF w
  <2>2. /\ DOMAIN w = 1 .. m
        /\ \A i \in 1 .. m : w[i] \in Nat /\ StandsAt(s, w[i], items[i])
    <3> HIDE DEF m
    <3> QED
      BY <1>3, <2>1 DEF Found
  <2>3. ASSUME NEW i \in 1 .. m
        PROVE  seqs[i] = IF a < i /\ i <= a + Len(names) THEN <<names[i - a]>> ELSE << >>
    <3>1. seqs[i] = IF i = 1 THEN << >> ELSE <<names[i - 1]>>
      <4>1. IF i = 1 THEN Sec!Word8(s, w[i]) # 72
            ELSE Sec!Word8(s, w[i]) = 72 /\ Sec!ServiceNames(s, w[i]) = names[i - 1]
        BY <1>6, <2>2
      <4> QED
        BY <2>2, <4>1
    <3>2. (a < i /\ i <= a + Len(names)) <=> i # 1
      BY <1>3 DEF n
    <3> HIDE DEF seqs
    <3> QED
      BY <3>1, <3>2
  <2>4. /\ seqs = [i \in 1 .. m |-> seqs[i]] /\ a + Len(names) <= m /\ m \in Nat /\ a \in Nat
    BY <1>3, <2>2 DEF n
  <2> HIDE DEF seqs, a, m
  <2>5. YieldsBlock(seqs, m, a, names)
    BY <2>3, <2>4 DEF YieldsBlock
  <2>6. Sec!FlattenSeq(seqs) = names
    BY <1>1, <2>4, <2>5, FlattenBlock
  <2> QED
    BY <2>6 DEF seqs, w
<1> QED
  BY <1>4, <1>7 DEF items, names

(* A service is read as it was written. *)
ServiceAt(s, v) ==
  [id |-> Sec!Word16(s, v),
   names |-> Sec!Tagged(s, v + 3, 72, LAMBDA d : <<Sec!ServiceNames(s, d)>>)]

(* And the length of its loop leads to the next service. *)
LEMMA ServiceRead ==
  ASSUME NEW v \in Sec!Service
  PROVE  /\ Sec!PutService(v) \in Seq(Int) /\ Len(Sec!PutService(v)) > 0
         /\ \A s : \A o \in Nat : StandsAt(s, o, Sec!PutService(v)) =>
              5 + Sec!Word12(s, o + 3) = Len(Sec!PutService(v)) /\ ServiceAt(s, o) = v
<1> DEFINE items == Sec!ServiceDescriptors(v)
           b == Sec!FlattenSeq(items)
           p == Sec!Put16(v.id)
           q == Sec!Put8(252)
           l == Sec!DescriptorLoop(items)
           n == Len(b)
           y == (p \o q) \o l
<1>1. v.id \in Sec!Word /\ v = [id |-> v.id, names |-> v.names] /\ Sec!Fits12(b)
  <2>1. v \in [id : Sec!Word, names : Seq(Sec!NamesOfService)] /\ Sec!Fits12(b)
    BY DEF Sec!Service
  <2> QED
    BY <2>1
<1>2. b \in Seq(Int) /\ l = Sec!Loop12(b)
  BY ServiceDescriptorsRead DEF Sec!DescriptorLoop
<1>3. Sec!PutService(v) = y
  BY DEF Sec!PutService
<1>q. Bytes(q, 1)
  BY PutBytes
<1> HIDE DEF b
<1>4. Bytes(p, 2) /\ Bytes(l, 2 + n) /\ n \in Nat /\ 2 + n \in Nat
  BY <1>1, <1>2, NumberBytes, ShortLoopBytes, BytesOf
<1> HIDE DEF p, q, l, n
<1>5. Bytes(y, (2 + 1) + (2 + n))
  BY <1>4, <1>q, JoinedThree
<1>6. y \in Seq(Int) /\ Len(y) = 5 + n
  BY <1>4, <1>5 DEF Bytes
<1>7. ASSUME NEW s, NEW o \in Nat, StandsAt(s, o, y)
      PROVE  5 + Sec!Word12(s, o + 3) = Len(y) /\ ServiceAt(s, o) = v
  <2>1. o \in Int /\ 2 \in Nat /\ 1 \in Nat
    OBVIOUS
  <2>2. StandsAt(s, o, p) /\ StandsAt(s, o + (2 + 1), l)
    BY <1>4, <1>q, <1>7, <2>1, SplitThree
  <2> DEFINE c == o + 3
             w == Sec!Descriptors(s, c)
             seqs == [i \in DOMAIN w |-> IF Sec!Word8(s, w[i]) = 72
                                         THEN <<Sec!ServiceNames(s, w[i])>> ELSE << >>]
  <2>3. c \in Nat /\ o + (2 + 1) = c
    OBVIOUS
  <2>4. ServiceAt(s, o) = [id |-> Sec!Word16(s, o), names |-> Sec!FlattenSeq(seqs)]
    BY DEF ServiceAt, Sec!Tagged, Sec!EachOf, Sec!Each
  <2> HIDE DEF c
  <2>5. StandsAt(s, c, l)
    BY <2>2, <2>3
  <2>6. Sec!Word12(s, c) = n
    BY <1>1, <1>2, <2>3, <2>5, LoopRead DEF n
  <2>7. Sec!FlattenSeq(seqs) = v.names
    <3>1. StandsAt(s, c, Sec!DescriptorLoop(Sec!ServiceDescriptors(v)))
      BY <2>5 DEF l
    <3> QED
      BY <2>3, <3>1, ServiceDescriptorsRead
  <2>8. Sec!Word16(s, o) = v.id
    BY <1>1, <2>2, WordRead DEF p
  <2> HIDE DEF seqs
  <2> QED
    BY <1>1, <1>6, <2>4, <2>6, <2>7, <2>8 DEF c
<1> HIDE DEF y
<1>8. Len(y) > 0
  BY <1>4, <1>6
<1> QED
  BY <1>3, <1>6, <1>7, <1>8

(* What an SDT consists of. *)
LEMMA SdtTyped ==
  ASSUME NEW n \in Sec!Sdt
  PROVE  /\ n.table \in {66, 70} /\ n.header \in Sec!HeaderField /\ n.onw \in Sec!Word
         /\ n.services \in Seq(Sec!Service)
         /\ n = [table |-> n.table, header |-> n.header, onw |-> n.onw,
                 services |-> n.services]
         /\ Sec!Fits12(Sec!SectionBytes(n, Sec!PutSdt(n)))
<1>1. /\ n \in [table : {Sec!Table.sdt, Sec!Table.other_sdt}, header : Sec!HeaderField,
                onw : Sec!Word, services : Seq(Sec!Service)]
      /\ Sec!Fits12(Sec!SectionBytes(n, Sec!PutSdt(n)))
  BY DEF Sec!Sdt
<1>2. /\ n.table \in {66, 70} /\ n.header \in Sec!HeaderField /\ n.onw \in Sec!Word
      /\ n.services \in Seq(Sec!Service)
      /\ n = [table |-> n.table, header |-> n.header, onw |-> n.onw, services |-> n.services]
  BY <1>1 DEF Sec!Table
<1> QED
  BY <1>1, <1>2

(* The services as they are written. *)
LEMMA ServicesPut ==
  ASSUME NEW services \in Seq(Sec!Service)
  PROVE  LET items == Sec!Each(services, Sec!PutService)
         IN /\ items \in Seq(Seq(Int)) /\ Len(items) = Len(services) /\ Len(services) \in Nat
            /\ \A i \in 1 .. Len(items) : services[i] \in Sec!Service
                                          /\ items[i] = Sec!PutService(services[i])
<1> DEFINE items == Sec!Each(services, Sec!PutService)
<1>1. ASSUME NEW i \in 1 .. Len(services)
      PROVE  services[i] \in Sec!Service /\ items[i] = Sec!PutService(services[i])
  BY DomainOf DEF Sec!Each
<1>2. items = [i \in DOMAIN services |-> items[i]]
  BY DEF Sec!Each
<1> HIDE DEF items
<1>3. \A i \in 1 .. Len(services) : items[i] \in Seq(Int)
  BY <1>1, ServiceRead
<1>4. items \in Seq(Seq(Int)) /\ Len(items) = Len(services) /\ Len(services) \in Nat
  BY <1>2, <1>3, PiecesOf
<1> QED
  BY <1>1, <1>4 DEF items

(* Every service of the table is read, in order, and no byte of the CRC is. *)
LEMMA ServicesRead ==
  ASSUME NEW s, NEW services \in Seq(Sec!Service),
         StandsAt(s, 11, Sec!EachOf(services, Sec!PutService)),
         Sec!Word12(s, 1) = 12 + Len(Sec!EachOf(services, Sec!PutService))
  PROVE  LET w == Sec!SdtServices(s)
         IN [i \in DOMAIN w |-> ServiceAt(s, w[i])] = services
<1> DEFINE items == Sec!Each(services, Sec!PutService)
           size == [v \in Nat |-> 5 + Sec!Word12(s, v + 3)]
           e == Sec!FlattenSeq(items)
           w == Sec!SdtServices(s)
           n == Len(services)
           r == [i \in DOMAIN w |-> ServiceAt(s, w[i])]
           o == 11
<1>1. Sec!EachOf(services, Sec!PutService) = e
  BY DEF Sec!EachOf
<1>2. /\ items \in Seq(Seq(Int)) /\ Len(items) = n /\ n \in Nat
      /\ \A i \in 1 .. Len(items) : services[i] \in Sec!Service
                                    /\ items[i] = Sec!PutService(services[i])
  BY ServicesPut
<1> HIDE DEF items
<1>3. Sized(s, items, size)
  <2>1. ASSUME NEW i \in 1 .. Len(items)
        PROVE  /\ Len(items[i]) > 0
               /\ \A d \in Nat : StandsAt(s, d, items[i]) =>
                    5 + Sec!Word12(s, d + 3) = Len(items[i])
    BY <1>2, ServiceRead
  <2>2. \A d \in Nat : size[d] = 5 + Sec!Word12(s, d + 3)
    OBVIOUS
  <2> HIDE DEF size
  <2> QED
    BY <2>1, <2>2 DEF Sized
<1>4. w = Sec!Walk(o, o + Len(e), size)
  <2>1. Len(e) \in Nat
    <3>1. e \in Seq(Int)
      BY <1>2, FlattenTyped
    <3> HIDE DEF e
    <3> QED
      BY <3>1
  <2>2. w = Sec!Walk(11, Sec!Word12(s, 1) + 3 - 4, size)
    BY DEF Sec!SdtServices
  <2>3. Sec!Word12(s, 1) + 3 - 4 = 11 + Len(e)
    BY <1>1, <2>1
  <2> HIDE DEF e, w, size
  <2> QED
    BY <2>2, <2>3
<1>5. o \in Nat /\ StandsAt(s, o, e)
  BY <1>1
<1> HIDE DEF o, size
<1>6. Found(s, items, Sec!Walk(o, o + Len(e), size))
  BY <1>2, <1>3, <1>5, LoopWalked
<1> HIDE DEF w, n, e
<1>8. Found(s, items, w)
  BY <1>4, <1>6
<1>9. r = [i \in 1 .. n |-> r[i]]
  BY <1>2, <1>8 DEF Found
<1>10. ASSUME NEW i \in 1 .. n PROVE r[i] = services[i]
  <2>1. w[i] \in Nat /\ StandsAt(s, w[i], items[i]) /\ i \in DOMAIN w
    BY <1>2, <1>8 DEF Found
  <2>2. ServiceAt(s, w[i]) = services[i]
    BY <1>2, <2>1, ServiceRead
  <2> QED
    BY <2>1, <2>2
<1> HIDE DEF r
<1>11. r = services
  BY <1>9, <1>10, SameSequence DEF n
<1> QED
  BY <1>11 DEF r, w

(* The body of an SDT. *)
LEMMA SdtBody ==
  ASSUME NEW n \in Sec!Sdt
  PROVE  LET e == Sec!EachOf(n.services, Sec!PutService)
         IN /\ Sec!PutSdt(n) \in Seq(Int) /\ Len(Sec!PutSdt(n)) = 3 + Len(e) /\ Len(e) \in Nat
            /\ \A s : StandsAt(s, 8, Sec!PutSdt(n)) =>
                 Sec!Word16(s, 8) = n.onw /\ StandsAt(s, 11, e)
<1> DEFINE e == Sec!EachOf(n.services, Sec!PutService)
           p == Sec!Put16(n.onw)
           q == Sec!Put8(255)
           k == Len(e)
           y == (p \o q) \o e
<1>1. n.onw \in Sec!Word /\ n.services \in Seq(Sec!Service)
  BY SdtTyped
<1>2. e \in Seq(Int)
  <2> DEFINE items == Sec!Each(n.services, Sec!PutService)
  <2>1. items \in Seq(Seq(Int))
    BY <1>1, ServicesPut
  <2> HIDE DEF items
  <2>2. Sec!FlattenSeq(items) \in Seq(Int)
    BY <2>1, FlattenTyped
  <2> QED
    BY <2>2 DEF items, Sec!EachOf
<1>3. Sec!PutSdt(n) = y
  BY DEF Sec!PutSdt
<1>q. Bytes(q, 1)
  BY PutBytes
<1> HIDE DEF e
<1>4. Bytes(p, 2) /\ Bytes(e, k) /\ k \in Nat
  BY <1>1, <1>2, NumberBytes, BytesOf
<1> HIDE DEF p, q, k
<1>5. Bytes(y, (2 + 1) + k)
  BY <1>4, <1>q, JoinedThree
<1>6. y \in Seq(Int) /\ Len(y) = 3 + k
  BY <1>4, <1>5 DEF Bytes
<1>7. ASSUME NEW s, StandsAt(s, 8, y)
      PROVE  Sec!Word16(s, 8) = n.onw /\ StandsAt(s, 11, e)
  <2> DEFINE o == 8
  <2>1. o \in Int /\ o \in Nat /\ 2 \in Nat /\ 1 \in Nat /\ StandsAt(s, o, y)
    BY <1>7
  <2>2. o + (2 + 1) = 11
    OBVIOUS
  <2> HIDE DEF o
  <2>3. StandsAt(s, o, p) /\ StandsAt(s, o + (2 + 1), e)
    BY <1>4, <1>q, <2>1, SplitThree
  <2>4. Sec!Word16(s, o) = n.onw
    BY <1>1, <2>1, <2>3, WordRead DEF p
  <2> QED
    BY <2>2, <2>3, <2>4 DEF o
<1> HIDE DEF y
<1> QED
  BY <1>3, <1>4, <1>6, <1>7 DEF e, k

(* A service description table is read as it was written. *)
THEOREM SdtReadAsWritten ==
  ASSUME NEW n \in Sec!Sdt, NEW s, StandsAt(s, 0, Sec!WriteSection(n))
  PROVE  Sec!ReadSection(s) = n
<1> DEFINE body == Sec!PutSdt(n)
           table == n.table
           header == n.header
           e == Sec!EachOf(n.services, Sec!PutService)
           w == Sec!SdtServices(s)
<1>1. /\ table \in {66, 70} /\ header \in Sec!HeaderField
      /\ Sec!Fits12(Sec!SectionBytes(n, body)) /\ n.services \in Seq(Sec!Service)
  BY SdtTyped
<1>2. table \in Sec!Byte /\ n.header = header
  BY <1>1 DEF Sec!Byte, Sec!Below
<1>3. Framed(s, table, n, body)
  BY <1>1 DEF Framed, Sec!WriteSection, Sec!Table
<1>4. body \in Seq(Int)
  BY SdtBody
<1>5. /\ Len(body) = 3 + Len(e) /\ Len(e) \in Nat
      /\ StandsAt(s, 8, body) => Sec!Word16(s, 8) = n.onw /\ StandsAt(s, 11, e)
  BY SdtBody
<1> HIDE DEF body, table, header, e
<1>6. /\ Sec!Word8(s, 0) = table /\ Sec!Header(s) = header /\ StandsAt(s, 8, body)
      /\ Sec!Word12(s, 1) = 9 + Len(body)
  BY <1>1, <1>2, <1>3, <1>4, FrameRead
<1>7. Sec!Word12(s, 1) = 12 + Len(e) /\ StandsAt(s, 11, e) /\ Sec!Word16(s, 8) = n.onw
  BY <1>5, <1>6
<1>8. [i \in DOMAIN w |-> ServiceAt(s, w[i])] = n.services
  <2>1. /\ n.services \in Seq(Sec!Service)
        /\ StandsAt(s, 11, Sec!EachOf(n.services, Sec!PutService))
        /\ Sec!Word12(s, 1) = 12 + Len(Sec!EachOf(n.services, Sec!PutService))
    BY <1>1, <1>7 DEF e
  <2> QED
    BY <2>1, ServicesRead
<1>9. Sec!ReadSection(s) = Sec!ReadSdt(s)
  BY <1>1, <1>6 DEF Sec!ReadSection, Sec!Table
<1>10. Sec!ReadSdt(s) = [table |-> Sec!Word8(s, 0), header |-> Sec!Header(s),
                         onw |-> Sec!Word16(s, 8),
                         services |-> [i \in DOMAIN w |-> ServiceAt(s, w[i])]]
  BY Tags DEF Sec!ReadSdt, ServiceAt, Sec!Each
<1> HIDE DEF w
<1>11. Sec!ReadSdt(s) = [table |-> n.table, header |-> n.header, onw |-> n.onw,
                         services |-> n.services]
  BY <1>6, <1>7, <1>8, <1>10 DEF table, header
<1> QED
  BY <1>9, <1>11, SdtTyped

(* What is broadcast is read back. *)
LEMMA ReadBack ==
  ASSUME NEW n \in Sec!Nit \cup Sec!Bat \cup Sec!Sdt
  PROVE  Sec!ReadSection(Sec!WriteSection(n)) = n
<1> DEFINE s == Sec!WriteSection(n)
<1>1. StandsAt(s, 0, s)
  <2> HIDE DEF s
  <2>1. \A k \in 1 .. Len(s) : s[0 + k] = s[k]
    OBVIOUS
  <2> QED
    BY <2>1 DEF StandsAt
<1> QED
  BY <1>1, NitReadAsWritten, BatReadAsWritten, SdtReadAsWritten
=============================================================================
