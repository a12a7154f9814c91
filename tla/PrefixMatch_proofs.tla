--------------------------- MODULE PrefixMatch_proofs ---------------------------
(***************************************************************************)
(* Proofs about text and bits, for any keys, requests and texts, and any   *)
(* accumulator of twelve bits or more: what base32_decode and              *)
(* pubkey_from_onion_address accept is what the encoders write, and the    *)
(* masked comparison of the engines is the comparison of text the user     *)
(* asked for, on the y an engine recovers in any form of the field and for *)
(* limbs of any width.                                                     *)
(*                                                                         *)
(* Both codecs are described without their loops.  Every five bits of the  *)
(* stream lie in two bytes in a row (CharOf), every eight in two or three  *)
(* characters (ByteOf); with blocks of five bytes and eight characters the *)
(* two are each other's inverse.  The loops keep the invariants Encoded    *)
(* and Decoded, for which the last twelve bits of the accumulator are      *)
(* enough.  That the limbs of y are what they should be is of              *)
(* FieldCalls_proofs.                                                      *)
(***************************************************************************)
EXTENDS PrefixMatch, FieldCalls_proofs, SequenceTheorems

-----------------------------------------------------------------------------
(* Shifts *)

\* A shift by one more place is twice the shift.
LEMMA Shifts ==
  /\ \A k \in 0..AccBits : Shift[k] \in Nat
  /\ Shift[0] = 1
  /\ \A k \in 1..AccBits : Shift[k] = 2 * Shift[k - 1]
<1> DEFINE h == [k \in Nat |-> [x \in Nat |-> 2 * x]]
           Defines(w) == w = [k \in 0..AccBits |-> IF k = 0 THEN 1 ELSE 2 * w[k - 1]]
<1>1. AccBits \in Nat /\ 1 \in Nat
  BY AccAssumption
<1>2. \A k \in Nat : \A x \in Nat : h[k][x] = 2 * x /\ h[k][x] \in Nat
  OBVIOUS
<1> HIDE DEF h
<1>3. PICK f \in [0..AccBits -> Nat] : Iterates(f, 1, h, AccBits)
  <2>1. \A k \in 1..AccBits : \A x \in Nat : h[k][x] \in Nat
    BY <1>1, <1>2
  <2>2. QED
    BY <1>1, <2>1, IteratesExist, Zenon
<1>4. f[0] = 1 /\ \A k \in 1..AccBits : f[k] = 2 * f[k - 1]
  <2>1. f[0] = 1 /\ \A k \in 1..AccBits : f[k] = h[k][f[k - 1]]
    BY <1>3, Zenon DEF Iterates
  <2>2. \A k \in 1..AccBits : k \in Nat /\ f[k - 1] \in Nat
    BY <1>1, <1>3
  <2>3. QED
    BY <1>2, <2>1, <2>2
<1>5. Defines([k \in 0..AccBits |-> f[k]])
  BY <1>1, <1>4
<1>6. Defines(Shift)
  <2>1. Shift = CHOOSE w : Defines(w)
    BY Zenon DEF Shift
  <2> HIDE DEF Defines
  <2>2. QED
    BY <1>5, <2>1, Zenon
<1> HIDE DEF Shift
<1>7. Shift[0] = 1 /\ \A k \in 1..AccBits : Shift[k] = 2 * Shift[k - 1]
  BY <1>1, <1>6
<1>8. GoAlike(Shift, f, AccBits)
  BY <1>4, <1>7 DEF GoAlike
<1>9. \A k \in 0..AccBits : Shift[k] = f[k]
  BY <1>1, <1>8, Alike
<1>10. QED
  BY <1>1, <1>3, <1>7, <1>9

\* The shifts of both codecs.
LEMMA SmallShifts ==
  /\ Shift[0] = 1 /\ Shift[1] = 2 /\ Shift[2] = 4 /\ Shift[3] = 8 /\ Shift[4] = 16
  /\ Shift[5] = 32 /\ Shift[6] = 64 /\ Shift[7] = 128 /\ Shift[8] = 256
  /\ Shift[12] = 4096
<1>1. \A k \in 1..12 : Shift[k] = 2 * Shift[k - 1]
  BY Shifts, AccAssumption
<1>2. Shift[0] = 1
  BY Shifts
<1> HIDE DEF Shift
<1>3. /\ Shift[1] = 2 * Shift[0] /\ Shift[2] = 2 * Shift[1] /\ Shift[3] = 2 * Shift[2]
      /\ Shift[4] = 2 * Shift[3] /\ Shift[5] = 2 * Shift[4] /\ Shift[6] = 2 * Shift[5]
      /\ Shift[7] = 2 * Shift[6] /\ Shift[8] = 2 * Shift[7] /\ Shift[9] = 2 * Shift[8]
      /\ Shift[10] = 2 * Shift[9] /\ Shift[11] = 2 * Shift[10] /\ Shift[12] = 2 * Shift[11]
  BY <1>1
<1>4. QED
  BY <1>2, <1>3

\* Twelve bits are never lost: the accumulator holds a multiple of 4096.
LEMMA AccHoldsTwelve == \E m \in Nat \ {0} : Shift[AccBits] = 4096 * m
<1> DEFINE T == {k \in 12..AccBits : ~\E m \in Nat \ {0} : Shift[k] = 4096 * m}
<1>1. SUFFICES ASSUME T # {} PROVE FALSE
  BY AccAssumption
<1>2. PICK k \in T : \A q \in T : k <= q
  <2>1. T \in SUBSET Nat
    BY AccAssumption
  <2> HIDE DEF T
  <2>2. QED
    BY <1>1, <2>1, LeastElement, Zenon
<1>3. k # 12
  BY <1>2, SmallShifts
<1>4. k \in 1..AccBits /\ k - 1 \in 12..AccBits /\ k - 1 \notin T
  BY <1>2, <1>3, AccAssumption
<1>5. PICK m \in Nat \ {0} : Shift[k - 1] = 4096 * m
  BY <1>4
<1>6. Shift[k] = 2 * Shift[k - 1]
  BY <1>4, Shifts
<1>7. \E w \in Nat \ {0} : Shift[k] = 4096 * w
  <2>1. 2 * m \in Nat \ {0} /\ Shift[k] = 4096 * (2 * m)
    BY <1>5, <1>6
  <2> DEFINE w == 2 * m
  <2>2. w \in Nat \ {0} /\ Shift[k] = 4096 * w
    BY <2>1
  <2> HIDE DEF w
  <2>3. QED
    BY <2>2
<1>8. QED
  BY <1>2, <1>7

\* The twelve last bits.
Low(x) == x % 4096

\* What is shifted in is there, with the twelve bits that end it.
LEMMA ShiftedKeepsTwelve ==
  ASSUME NEW held \in Nat, NEW got \in Nat
  PROVE  /\ Shifted(held, 5, got) \in Nat
         /\ Low(Shifted(held, 5, got)) = Low(held * 32 + got)
         /\ Shifted(held, 8, got) \in Nat
         /\ Low(Shifted(held, 8, got)) = Low(held * 256 + got)
<1>1. PICK m \in Nat \ {0} : Shift[AccBits] = 4096 * m
  BY AccHoldsTwelve
<1>2. ASSUME NEW x \in Nat
      PROVE  x % Shift[AccBits] \in Nat /\ (x % Shift[AccBits]) % 4096 = x % 4096
  <2> DEFINE d == Shift[AccBits]
             q == x \div d
             r == x % d
  <2>1. d \in Nat \ {0}
    BY <1>1
  <2>2. q \in Int /\ r \in Nat /\ x = d * q + r
    <3> HIDE DEF d
    <3>1. QED
      BY <2>1
  <2> HIDE DEF q, r
  <2> DEFINE u == m * q
  <2>3. d * q = 4096 * u /\ u \in Int
    BY <1>1, <2>2
  <2> HIDE DEF u, d
  <2>4. x = 4096 * u + r
    BY <2>2, <2>3
  <2>5. x % 4096 = r % 4096
    BY <2>2, <2>3, <2>4
  <2>6. QED
    BY <2>2, <2>5 DEF r, d
<1>3. held * 32 + got \in Nat /\ held * 256 + got \in Nat
  OBVIOUS
<1>4. /\ Shifted(held, 5, got) = (held * 32 + got) % Shift[AccBits]
      /\ Shifted(held, 8, got) = (held * 256 + got) % Shift[AccBits]
  BY SmallShifts DEF Shifted
<1>5. QED
  BY <1>2, <1>3, <1>4 DEF Low

-----------------------------------------------------------------------------
(* Bytes to characters *)

\* Five bits of two bytes in a row, from bit r of the first on.
FiveBits(b, c, r) ==
  CASE r = 0 -> b \div 8
    [] r = 1 -> (b \div 4) % 32
    [] r = 2 -> (b \div 2) % 32
    [] r = 3 -> b % 32
    [] r = 4 -> (b % 16) * 2 + c \div 128
    [] r = 5 -> (b % 8) * 4 + c \div 64
    [] r = 6 -> (b % 4) * 8 + c \div 32
    [] r = 7 -> (b % 2) * 16 + c \div 16

\* The bytes, with zeros behind them, and their characters, both from 0 on.
ByteAt(bytes, n) == IF n < Len(bytes) THEN bytes[n + 1] ELSE 0
CharOf(bytes, k) ==
  FiveBits(ByteAt(bytes, (5 * k) \div 8), ByteAt(bytes, (5 * k) \div 8 + 1), (5 * k) % 8)

\* Five bits are a character.
LEMMA FiveBitsIsChar ==
  ASSUME NEW b \in 0..255, NEW c \in 0..255, NEW r \in 0..7
  PROVE  FiveBits(b, c, r) \in 0..31
BY DEF FiveBits

\* What x shows of a byte b and of what was shifted before it, a.
Shows(x, a, b) ==
  /\ x % 256 = b
  /\ (x \div 8) % 32 = b \div 8
  /\ (x \div 64) % 32 = (a % 8) * 4 + b \div 64
  /\ (x \div 2) % 32 = (b \div 2) % 32
  /\ (x \div 16) % 32 = (a % 2) * 16 + b \div 16
  /\ (x \div 128) % 32 = (a % 16) * 2 + b \div 128
  /\ (x \div 4) % 32 = (b \div 4) % 32
  /\ (x \div 32) % 32 = (a % 4) * 8 + b \div 32
  /\ x % 32 = b % 32

\* The twelve last bits of the accumulator are a byte and four bits of the one before
\* it: enough for every character that ends in the byte.
LEMMA Windows ==
  ASSUME NEW a \in Nat, NEW b \in 0..255, NEW x \in Nat, Low(x) = Low(a * 256 + b)
  PROVE  Shows(x, a, b)
<1>1. x % 4096 = (a % 16) * 256 + b
  BY DEF Low
<1>2. PICK h \in Nat : x = 4096 * h + (x % 4096)
  OBVIOUS
<1> DEFINE q == a % 16
<1>3. q \in 0..15 /\ x = 4096 * h + q * 256 + b
  BY <1>1, <1>2
<1>4. a % 8 = q % 8 /\ a % 2 = q % 2 /\ a % 4 = q % 4 /\ a % 16 = q
  OBVIOUS
<1> HIDE DEF q
<1>5. x % 256 = b
  BY <1>3
<1>6. (x \div 8) % 32 = b \div 8
  BY <1>3
<1>7. (x \div 64) % 32 = (q % 8) * 4 + b \div 64
  BY <1>3
<1>8. (x \div 2) % 32 = (b \div 2) % 32
  BY <1>3
<1>9. (x \div 16) % 32 = (q % 2) * 16 + b \div 16
  BY <1>3
<1>10. (x \div 128) % 32 = q * 2 + b \div 128
  <2>1. x \div 128 = 32 * h + (q * 2 + b \div 128) /\ q * 2 + b \div 128 \in 0..31
    BY <1>3
  <2>2. QED
    BY <2>1
<1>11. (x \div 4) % 32 = (b \div 4) % 32
  BY <1>3
<1>12. (x \div 32) % 32 = (q % 4) * 8 + b \div 32
  BY <1>3
<1>13. x % 32 = b % 32
  BY <1>3
<1>14. QED
  BY <1>4, <1>5, <1>6, <1>7, <1>8, <1>9, <1>10, <1>11, <1>12, <1>13
     DEF Shows

\* The eight characters of five bytes.
LEMMA CharsOfBlock ==
  ASSUME NEW bytes, NEW t \in Nat
  PROVE  /\ CharOf(bytes, 8 * t + 0) = ByteAt(bytes, 5 * t + 0) \div 8
         /\ CharOf(bytes, 8 * t + 1) = (ByteAt(bytes, 5 * t + 0) % 8) * 4 + ByteAt(bytes, 5 * t + 1) \div 64
         /\ CharOf(bytes, 8 * t + 2) = (ByteAt(bytes, 5 * t + 1) \div 2) % 32
         /\ CharOf(bytes, 8 * t + 3) = (ByteAt(bytes, 5 * t + 1) % 2) * 16 + ByteAt(bytes, 5 * t + 2) \div 16
         /\ CharOf(bytes, 8 * t + 4) = (ByteAt(bytes, 5 * t + 2) % 16) * 2 + ByteAt(bytes, 5 * t + 3) \div 128
         /\ CharOf(bytes, 8 * t + 5) = (ByteAt(bytes, 5 * t + 3) \div 4) % 32
         /\ CharOf(bytes, 8 * t + 6) = (ByteAt(bytes, 5 * t + 3) % 4) * 8 + ByteAt(bytes, 5 * t + 4) \div 32
         /\ CharOf(bytes, 8 * t + 7) = ByteAt(bytes, 5 * t + 4) % 32
<1>1. CharOf(bytes, 8 * t + 0) = ByteAt(bytes, 5 * t + 0) \div 8
  <2>1. (5 * (8 * t + 0)) \div 8 = 5 * t + 0 /\ (5 * (8 * t + 0)) % 8 = 0
    OBVIOUS
  <2>2. CharOf(bytes, 8 * t + 0) = FiveBits(ByteAt(bytes, 5 * t + 0), ByteAt(bytes, 5 * t + 0 + 1), 0)
    BY <2>1, Zenon DEF CharOf
  <2>3. 5 * t + 0 + 1 = 5 * t + 1
    OBVIOUS
  <2>4. QED
    BY <2>2, <2>3 DEF FiveBits
<1>2. CharOf(bytes, 8 * t + 1) = (ByteAt(bytes, 5 * t + 0) % 8) * 4 + ByteAt(bytes, 5 * t + 1) \div 64
  <2>1. (5 * (8 * t + 1)) \div 8 = 5 * t + 0 /\ (5 * (8 * t + 1)) % 8 = 5
    OBVIOUS
  <2>2. CharOf(bytes, 8 * t + 1) = FiveBits(ByteAt(bytes, 5 * t + 0), ByteAt(bytes, 5 * t + 0 + 1), 5)
    BY <2>1, Zenon DEF CharOf
  <2>3. 5 * t + 0 + 1 = 5 * t + 1
    OBVIOUS
  <2>4. QED
    BY <2>2, <2>3 DEF FiveBits
<1>3. CharOf(bytes, 8 * t + 2) = (ByteAt(bytes, 5 * t + 1) \div 2) % 32
  <2>1. (5 * (8 * t + 2)) \div 8 = 5 * t + 1 /\ (5 * (8 * t + 2)) % 8 = 2
    OBVIOUS
  <2>2. CharOf(bytes, 8 * t + 2) = FiveBits(ByteAt(bytes, 5 * t + 1), ByteAt(bytes, 5 * t + 1 + 1), 2)
    BY <2>1, Zenon DEF CharOf
  <2>3. 5 * t + 1 + 1 = 5 * t + 2
    OBVIOUS
  <2>4. QED
    BY <2>2, <2>3 DEF FiveBits
<1>4. CharOf(bytes, 8 * t + 3) = (ByteAt(bytes, 5 * t + 1) % 2) * 16 + ByteAt(bytes, 5 * t + 2) \div 16
  <2>1. (5 * (8 * t + 3)) \div 8 = 5 * t + 1 /\ (5 * (8 * t + 3)) % 8 = 7
    OBVIOUS
  <2>2. CharOf(bytes, 8 * t + 3) = FiveBits(ByteAt(bytes, 5 * t + 1), ByteAt(bytes, 5 * t + 1 + 1), 7)
    BY <2>1, Zenon DEF CharOf
  <2>3. 5 * t + 1 + 1 = 5 * t + 2
    OBVIOUS
  <2>4. QED
    BY <2>2, <2>3 DEF FiveBits
<1>5. CharOf(bytes, 8 * t + 4) = (ByteAt(bytes, 5 * t + 2) % 16) * 2 + ByteAt(bytes, 5 * t + 3) \div 128
  <2>1. (5 * (8 * t + 4)) \div 8 = 5 * t + 2 /\ (5 * (8 * t + 4)) % 8 = 4
    OBVIOUS
  <2>2. CharOf(bytes, 8 * t + 4) = FiveBits(ByteAt(bytes, 5 * t + 2), ByteAt(bytes, 5 * t + 2 + 1), 4)
    BY <2>1, Zenon DEF CharOf
  <2>3. 5 * t + 2 + 1 = 5 * t + 3
    OBVIOUS
  <2>4. QED
    BY <2>2, <2>3 DEF FiveBits
<1>6. CharOf(bytes, 8 * t + 5) = (ByteAt(bytes, 5 * t + 3) \div 4) % 32
  <2>1. (5 * (8 * t + 5)) \div 8 = 5 * t + 3 /\ (5 * (8 * t + 5)) % 8 = 1
    OBVIOUS
  <2>2. CharOf(bytes, 8 * t + 5) = FiveBits(ByteAt(bytes, 5 * t + 3), ByteAt(bytes, 5 * t + 3 + 1), 1)
    BY <2>1, Zenon DEF CharOf
  <2>3. 5 * t + 3 + 1 = 5 * t + 4
    OBVIOUS
  <2>4. QED
    BY <2>2, <2>3 DEF FiveBits
<1>7. CharOf(bytes, 8 * t + 6) = (ByteAt(bytes, 5 * t + 3) % 4) * 8 + ByteAt(bytes, 5 * t + 4) \div 32
  <2>1. (5 * (8 * t + 6)) \div 8 = 5 * t + 3 /\ (5 * (8 * t + 6)) % 8 = 6
    OBVIOUS
  <2>2. CharOf(bytes, 8 * t + 6) = FiveBits(ByteAt(bytes, 5 * t + 3), ByteAt(bytes, 5 * t + 3 + 1), 6)
    BY <2>1, Zenon DEF CharOf
  <2>3. 5 * t + 3 + 1 = 5 * t + 4
    OBVIOUS
  <2>4. QED
    BY <2>2, <2>3 DEF FiveBits
<1>8. CharOf(bytes, 8 * t + 7) = ByteAt(bytes, 5 * t + 4) % 32
  <2>1. (5 * (8 * t + 7)) \div 8 = 5 * t + 4 /\ (5 * (8 * t + 7)) % 8 = 3
    OBVIOUS
  <2>2. CharOf(bytes, 8 * t + 7) = FiveBits(ByteAt(bytes, 5 * t + 4), ByteAt(bytes, 5 * t + 4 + 1), 3)
    BY <2>1, Zenon DEF CharOf
  <2>3. 5 * t + 4 + 1 = 5 * t + 5
    OBVIOUS
  <2>4. QED
    BY <2>2, <2>3 DEF FiveBits
<1>9. QED
  BY <1>1, <1>2, <1>3, <1>4, <1>5, <1>6, <1>7, <1>8

\* With bits of its own in the accumulator, byte n completes one or two characters.
Completed(bytes, n, held, bits) ==
  /\ bits \in 8..12 /\ bits % 5 = (8 * n) % 5
  /\ (8 * (n - 1)) \div 5 + bits \div 5 = (8 * n) \div 5 /\ bits \div 5 \in 1..2
  /\ \A j \in 1..bits \div 5 :
       (held \div Shift[bits - 5 * j]) % 32 = CharOf(bytes, (8 * (n - 1)) \div 5 + j - 1)

\* a ends with the byte before, b is shifted in.
LEMMA NewChars ==
  ASSUME NEW bytes \in Seq(0..255), NEW n \in 1..Len(bytes), NEW a \in Nat, NEW held \in Nat,
         n > 1 => a % 256 = bytes[n - 1], Low(held) = Low(a * 256 + bytes[n]),
         NEW bits, bits = ((8 * (n - 1)) % 5) + 8
  PROVE  Completed(bytes, n, held, bits)
<1> DEFINE b == bytes[n]
           p == bytes[n - 1]
<1>1. b \in 0..255 /\ n \in Nat \ {0} /\ Len(bytes) \in Nat
  <2>1. b \in 0..255
    BY ElementOfSeq, Zenon
  <2>2. Len(bytes) \in Nat
    OBVIOUS
  <2>3. QED
    BY <2>1, <2>2
<1>2. PICK t \in Nat, i \in 0..4 : n - 1 = 5 * t + i
  <2> DEFINE k == n - 1
  <2>1. k \in Nat
    BY <1>1
  <2> HIDE DEF k
  <2>2. k \div 5 \in Nat /\ k % 5 \in 0..4 /\ k = 5 * (k \div 5) + (k % 5)
    BY <2>1
  <2>3. QED
    BY <2>2 DEF k
<1>3. ByteAt(bytes, 5 * t + i) = b
  BY <1>1, <1>2 DEF ByteAt
<1>4. i > 0 => n > 1 /\ p \in 0..255 /\ ByteAt(bytes, 5 * t + i - 1) = p
  <2>1. ASSUME i > 0
        PROVE  /\ n - 1 \in 1..Len(bytes) /\ 5 * t + i - 1 = n - 2
               /\ n - 2 < Len(bytes) /\ n - 2 + 1 = n - 1
    BY <1>1, <1>2, <2>1
  <2>2. QED
    BY <2>1 DEF ByteAt
<1> HIDE DEF b, p
<1>5. Low(held) = Low(a * 256 + b)
  BY DEF b
<1>6. i > 0 => p \in 0..255 /\ a % 256 = p
  BY <1>4 DEF p
<1>7. i > 0 => a % 8 = p % 8 /\ a % 2 = p % 2 /\ a % 4 = p % 4 /\ a % 16 = p % 16
  <2>1. ASSUME NEW q \in 0..255, a % 256 = q
        PROVE  a % 8 = q % 8 /\ a % 2 = q % 2 /\ a % 4 = q % 4 /\ a % 16 = q % 16
    <3>1. PICK h \in Nat : a = 256 * h + q
      BY <2>1
    <3>2. QED
      BY <3>1
  <2>2. ASSUME i > 0 PROVE a % 8 = p % 8 /\ a % 2 = p % 2 /\ a % 4 = p % 4 /\ a % 16 = p % 16
    <3>1. p \in 0..255 /\ a % 256 = p
      BY <1>6, <2>2
    <3>2. QED
      BY <2>1, <3>1, Zenon
  <2>3. QED
    BY <2>2, Zenon
<1>8. Shows(held, a, b)
  <2>1. a \in Nat /\ held \in Nat /\ b \in 0..255 /\ Low(held) = Low(a * 256 + b)
    BY <1>1, <1>5
  <2>2. QED
    BY <2>1, Windows
<1> DEFINE Window(e) == (held \div Shift[e]) % 32
           Chars == \A j \in 1..bits \div 5 : Window(bits - 5 * j) = CharOf(bytes, (8 * (n - 1)) \div 5 + j - 1)
<1>9. CASE i = 0
  <2>1. /\ n = 5 * t + 1 /\ bits = 8 /\ (8 * (n - 1)) \div 5 = 8 * t + 0 /\ bits \div 5 = 1
        /\ (8 * n) % 5 = 3 /\ (8 * n) \div 5 = 8 * t + 1
    BY <1>1, <1>2, <1>9
  <2>2. ByteAt(bytes, 5 * t + 0) = b 
    BY <1>3, <1>4, <1>9
  <2>3. /\ CharOf(bytes, 8 * t + 0) = b \div 8
    BY <2>2, CharsOfBlock
  <2>4. /\ Window(3) = CharOf(bytes, 8 * t + 0)
    <3>1. Shift[3] = 8
      BY SmallShifts
    <3>2. QED
      BY <1>7, <1>8, <1>9, <2>3, <3>1 DEF Shows
  <2>5. Chars
    <3> HIDE DEF Window
    <3> SUFFICES ASSUME NEW j \in 1..bits \div 5
                 PROVE  Window(bits - 5 * j) = CharOf(bytes, (8 * (n - 1)) \div 5 + j - 1)
      OBVIOUS
    <3>1. bits - 5 * j = 3 /\ (8 * (n - 1)) \div 5 + j - 1 = 8 * t + 0
      BY <2>1
    <3>2. QED
      BY <2>4, <3>1
  <2> HIDE DEF Chars
  <2>6. QED
    BY <2>1, <2>5 DEF Chars, Completed
<1>10. CASE i = 1
  <2>1. /\ n = 5 * t + 2 /\ bits = 11 /\ (8 * (n - 1)) \div 5 = 8 * t + 1 /\ bits \div 5 = 2
        /\ (8 * n) % 5 = 1 /\ (8 * n) \div 5 = 8 * t + 3
    BY <1>1, <1>2, <1>10
  <2>2. ByteAt(bytes, 5 * t + 1) = b /\ ByteAt(bytes, 5 * t + 0) = p 
    BY <1>3, <1>4, <1>10
  <2>3. /\ CharOf(bytes, 8 * t + 1) = (p % 8) * 4 + b \div 64
        /\ CharOf(bytes, 8 * t + 2) = (b \div 2) % 32
    BY <2>2, CharsOfBlock
  <2>4. /\ Window(6) = CharOf(bytes, 8 * t + 1)
        /\ Window(1) = CharOf(bytes, 8 * t + 2)
    <3>1. Shift[6] = 64 /\ Shift[1] = 2
      BY SmallShifts
    <3>2. QED
      BY <1>7, <1>8, <1>10, <2>3, <3>1 DEF Shows
  <2>5. Chars
    <3> HIDE DEF Window
    <3> SUFFICES ASSUME NEW j \in 1..bits \div 5
                 PROVE  Window(bits - 5 * j) = CharOf(bytes, (8 * (n - 1)) \div 5 + j - 1)
      OBVIOUS
    <3>1. \/ bits - 5 * j = 6 /\ (8 * (n - 1)) \div 5 + j - 1 = 8 * t + 1
          \/ bits - 5 * j = 1 /\ (8 * (n - 1)) \div 5 + j - 1 = 8 * t + 2
      BY <2>1
    <3>2. QED
      BY <2>4, <3>1
  <2> HIDE DEF Chars
  <2>6. QED
    BY <2>1, <2>5 DEF Chars, Completed
<1>11. CASE i = 2
  <2>1. /\ n = 5 * t + 3 /\ bits = 9 /\ (8 * (n - 1)) \div 5 = 8 * t + 3 /\ bits \div 5 = 1
        /\ (8 * n) % 5 = 4 /\ (8 * n) \div 5 = 8 * t + 4
    BY <1>1, <1>2, <1>11
  <2>2. ByteAt(bytes, 5 * t + 2) = b /\ ByteAt(bytes, 5 * t + 1) = p 
    BY <1>3, <1>4, <1>11
  <2>3. /\ CharOf(bytes, 8 * t + 3) = (p % 2) * 16 + b \div 16
    BY <2>2, CharsOfBlock
  <2>4. /\ Window(4) = CharOf(bytes, 8 * t + 3)
    <3>1. Shift[4] = 16
      BY SmallShifts
    <3>2. QED
      BY <1>7, <1>8, <1>11, <2>3, <3>1 DEF Shows
  <2>5. Chars
    <3> HIDE DEF Window
    <3> SUFFICES ASSUME NEW j \in 1..bits \div 5
                 PROVE  Window(bits - 5 * j) = CharOf(bytes, (8 * (n - 1)) \div 5 + j - 1)
      OBVIOUS
    <3>1. bits - 5 * j = 4 /\ (8 * (n - 1)) \div 5 + j - 1 = 8 * t + 3
      BY <2>1
    <3>2. QED
      BY <2>4, <3>1
  <2> HIDE DEF Chars
  <2>6. QED
    BY <2>1, <2>5 DEF Chars, Completed
<1>12. CASE i = 3
  <2>1. /\ n = 5 * t + 4 /\ bits = 12 /\ (8 * (n - 1)) \div 5 = 8 * t + 4 /\ bits \div 5 = 2
        /\ (8 * n) % 5 = 2 /\ (8 * n) \div 5 = 8 * t + 6
    BY <1>1, <1>2, <1>12
  <2>2. ByteAt(bytes, 5 * t + 3) = b /\ ByteAt(bytes, 5 * t + 2) = p 
    BY <1>3, <1>4, <1>12
  <2>3. /\ CharOf(bytes, 8 * t + 4) = (p % 16) * 2 + b \div 128
        /\ CharOf(bytes, 8 * t + 5) = (b \div 4) % 32
    BY <2>2, CharsOfBlock
  <2>4. /\ Window(7) = CharOf(bytes, 8 * t + 4)
        /\ Window(2) = CharOf(bytes, 8 * t + 5)
    <3>1. Shift[7] = 128 /\ Shift[2] = 4
      BY SmallShifts
    <3>2. QED
      BY <1>7, <1>8, <1>12, <2>3, <3>1 DEF Shows
  <2>5. Chars
    <3> HIDE DEF Window
    <3> SUFFICES ASSUME NEW j \in 1..bits \div 5
                 PROVE  Window(bits - 5 * j) = CharOf(bytes, (8 * (n - 1)) \div 5 + j - 1)
      OBVIOUS
    <3>1. \/ bits - 5 * j = 7 /\ (8 * (n - 1)) \div 5 + j - 1 = 8 * t + 4
          \/ bits - 5 * j = 2 /\ (8 * (n - 1)) \div 5 + j - 1 = 8 * t + 5
      BY <2>1
    <3>2. QED
      BY <2>4, <3>1
  <2> HIDE DEF Chars
  <2>6. QED
    BY <2>1, <2>5 DEF Chars, Completed
<1>13. CASE i = 4
  <2>1. /\ n = 5 * t + 5 /\ bits = 10 /\ (8 * (n - 1)) \div 5 = 8 * t + 6 /\ bits \div 5 = 2
        /\ (8 * n) % 5 = 0 /\ (8 * n) \div 5 = 8 * t + 8
    BY <1>1, <1>2, <1>13
  <2>2. ByteAt(bytes, 5 * t + 4) = b /\ ByteAt(bytes, 5 * t + 3) = p 
    BY <1>3, <1>4, <1>13
  <2>3. /\ CharOf(bytes, 8 * t + 6) = (p % 4) * 8 + b \div 32
        /\ CharOf(bytes, 8 * t + 7) = b % 32
    BY <2>2, CharsOfBlock
  <2>4. /\ Window(5) = CharOf(bytes, 8 * t + 6)
        /\ Window(0) = CharOf(bytes, 8 * t + 7)
    <3>1. Shift[5] = 32 /\ Shift[0] = 1
      BY SmallShifts
    <3>2. QED
      BY <1>7, <1>8, <1>13, <2>3, <3>1 DEF Shows
  <2>5. Chars
    <3> HIDE DEF Window
    <3> SUFFICES ASSUME NEW j \in 1..bits \div 5
                 PROVE  Window(bits - 5 * j) = CharOf(bytes, (8 * (n - 1)) \div 5 + j - 1)
      OBVIOUS
    <3>1. \/ bits - 5 * j = 5 /\ (8 * (n - 1)) \div 5 + j - 1 = 8 * t + 6
          \/ bits - 5 * j = 0 /\ (8 * (n - 1)) \div 5 + j - 1 = 8 * t + 7
      BY <2>1
    <3>2. QED
      BY <2>4, <3>1
  <2> HIDE DEF Chars
  <2>6. QED
    BY <2>1, <2>5 DEF Chars, Completed
<1>14. QED
  BY <1>9, <1>10, <1>11, <1>12, <1>13
     DEF Completed

\* The characters of bytes are characters.
LEMMA CharOfIsChar ==
  ASSUME NEW bytes \in Seq(0..255), NEW k \in Nat
  PROVE  CharOf(bytes, k) \in 0..31
<1>1. ASSUME NEW n \in Nat PROVE ByteAt(bytes, n) \in 0..255
  <2>1. CASE n < Len(bytes)
    <3>1. n + 1 \in 1..Len(bytes)
      BY <2>1
    <3>2. bytes[n + 1] \in 0..255
      BY <3>1, ElementOfSeq, Zenon
    <3>3. QED
      BY <2>1, <3>2 DEF ByteAt
  <2>2. CASE ~(n < Len(bytes))
    BY <2>2 DEF ByteAt
  <2>3. QED
    BY <2>1, <2>2
<1>2. (5 * k) \div 8 \in Nat /\ (5 * k) \div 8 + 1 \in Nat /\ (5 * k) % 8 \in 0..7
  OBVIOUS
<1>3. QED
  BY <1>1, <1>2, FiveBitsIsChar DEF CharOf

\* After the first n bytes their characters are in the text but for the bits of
\* one that is not complete, and the accumulator ends with the last byte.
Encoded(bytes, n, s) ==
  /\ s.acc \in Nat /\ (n > 0 => s.acc % 256 = bytes[n])
  /\ s.bits = (8 * n) % 5
  /\ s.out \in Seq(0..31) /\ Len(s.out) = (8 * n) \div 5
  /\ \A k \in 1..Len(s.out) : s.out[k] = CharOf(bytes, k - 1)

\* What the encoding loop's state may be.
EncodeState == [acc : Nat, bits : 0..4, out : Seq(0..31)]

\* A byte leaves fewer than five bits behind.
LEMMA TakeByteIsState ==
  ASSUME NEW s \in EncodeState, NEW b \in 0..255
  PROVE  TakeByte(s, b) \in EncodeState
<1> DEFINE held == Shifted(s.acc, 8, b)
           bits == s.bits + 8
           c == [j \in 1..bits \div 5 |-> (held \div Shift[bits - 5 * j]) % 32]
<1>1. s.acc \in Nat /\ s.bits \in 0..4 /\ s.out \in Seq(0..31)
  BY DEF EncodeState
<1>2. TakeByte(s, b) = [acc |-> held, bits |-> bits % 5, out |-> s.out \o c]
  BY DEF TakeByte
<1>3. held \in Nat
  <2>1. b \in Nat
    OBVIOUS
  <2>2. QED
    BY <1>1, <2>1, ShiftedKeepsTwelve
<1>4. bits \in 8..12 /\ bits % 5 \in 0..4 /\ bits \div 5 \in Nat
  BY <1>1
<1>5. c \in Seq(0..31)
  <2> HIDE DEF held, bits
  <2>1. ASSUME NEW j \in 1..bits \div 5
        PROVE  (held \div Shift[bits - 5 * j]) % 32 \in 0..31
    <3>1. bits - 5 * j \in 0..7
      BY <1>4
    <3>2. Shift[bits - 5 * j] \in Nat \ {0}
      <4> DEFINE e == bits - 5 * j
      <4>1. e \in {0, 1, 2, 3, 4, 5, 6, 7}
        BY <3>1
      <4> HIDE DEF e
      <4>2. Shift[e] \in Nat \ {0}
        BY <4>1, SmallShifts
      <4>3. QED
        BY <4>2 DEF e
    <3> DEFINE d == Shift[bits - 5 * j]
    <3> HIDE DEF d
    <3>3. d \in Nat \ {0}
      BY <3>2 DEF d
    <3>4. (held \div d) % 32 \in 0..31
      BY <1>3, <3>3
    <3>5. QED
      BY <3>4 DEF d
  <2>2. QED
    BY <1>4, <2>1
<1> HIDE DEF held, bits, c
<1>6. s.out \o c \in Seq(0..31)
  BY <1>1, <1>5, ConcatProperties, Zenon
<1>7. QED
  BY <1>2, <1>3, <1>4, <1>6 DEF EncodeState

\* The loop's invariant is kept by one more byte.
LEMMA TakeByteEncodes ==
  ASSUME NEW bytes \in Seq(0..255), NEW n \in 1..Len(bytes), NEW s, Encoded(bytes, n - 1, s)
  PROVE  Encoded(bytes, n, TakeByte(s, bytes[n]))
<1> DEFINE b == bytes[n]
           held == Shifted(s.acc, 8, b)
           bits == s.bits + 8
           c == [j \in 1..bits \div 5 |-> (held \div Shift[bits - 5 * j]) % 32]
           m == (8 * (n - 1)) \div 5
<1>1. b \in 0..255
  BY ElementOfSeq, Zenon
<1>2. n \in Nat \ {0}
  OBVIOUS
<1>3. /\ s.acc \in Nat /\ (n > 1 => s.acc % 256 = bytes[n - 1])
      /\ bits = ((8 * (n - 1)) % 5) + 8
      /\ s.out \in Seq(0..31) /\ Len(s.out) = m
      /\ \A k \in 1..m : s.out[k] = CharOf(bytes, k - 1)
  BY <1>2 DEF Encoded
<1>4. TakeByte(s, b) = [acc |-> held, bits |-> bits % 5, out |-> s.out \o c]
  BY DEF TakeByte
<1>5. held \in Nat /\ Low(held) = Low(s.acc * 256 + b)
  <2> HIDE DEF b
  <2>1. b \in Nat
    BY <1>1
  <2>2. QED
    BY <1>3, <2>1, ShiftedKeepsTwelve
<1>6. Shows(held, s.acc, b)
  <2> HIDE DEF b, held
  <2>1. QED
    BY <1>1, <1>3, <1>5, Windows
<1>7. held % 256 = b
  BY <1>6 DEF Shows
<1>8. /\ bits \in 8..12 /\ bits % 5 = (8 * n) % 5
      /\ m + bits \div 5 = (8 * n) \div 5 /\ bits \div 5 \in 1..2
      /\ \A j \in 1..bits \div 5 :
           (held \div Shift[bits - 5 * j]) % 32 = CharOf(bytes, m + j - 1)
  <2> DEFINE a == s.acc
  <2>1. a \in Nat /\ (n > 1 => a % 256 = bytes[n - 1]) /\ Low(held) = Low(a * 256 + bytes[n])
    BY <1>3, <1>5
  <2>2. held \in Nat /\ bits = ((8 * (n - 1)) % 5) + 8
    BY <1>3, <1>5
  <2> HIDE DEF held, bits, a
  <2>3. Completed(bytes, n, held, bits)
    BY <2>1, <2>2, NewChars
  <2>4. QED
    BY <2>3 DEF Completed
<1> DEFINE w == bits \div 5
<1>9. w \in 1..2 /\ m \in Nat
  BY <1>2, <1>8
<1>10. c \in Seq(0..31) /\ Len(c) = w /\ \A j \in 1..w : c[j] = CharOf(bytes, m + j - 1)
  <2> DEFINE g == [j \in 1..w |-> CharOf(bytes, m + j - 1)]
  <2>1. c = g
    BY <1>8
  <2>2. ASSUME NEW j \in 1..w PROVE CharOf(bytes, m + j - 1) \in 0..31
    <3> HIDE DEF w, m
    <3>1. m + j - 1 \in Nat
      BY <1>9
    <3>2. QED
      BY <3>1, CharOfIsChar, Zenon
  <2> HIDE DEF c, w, m
  <2>3. g \in Seq(0..31) /\ Len(g) = w
    BY <1>9, <2>2
  <2>4. \A j \in 1..w : g[j] = CharOf(bytes, m + j - 1)
    OBVIOUS
  <2> HIDE DEF g
  <2>5. QED
    BY <2>1, <2>3, <2>4
<1> DEFINE r == s.out \o c
<1>11. r \in Seq(0..31) /\ Len(r) = m + w
       /\ \A k \in 1..m + w : r[k] = IF k <= m THEN s.out[k] ELSE c[k - m]
  <2> DEFINE o == s.out
  <2>1. o \in Seq(0..31) /\ Len(o) = m
    BY <1>3
  <2> HIDE DEF c, w, m, o
  <2>2. /\ o \o c \in Seq(0..31) /\ Len(o \o c) = Len(o) + Len(c)
        /\ \A k \in 1..Len(o) + Len(c) : (o \o c)[k] = IF k <= Len(o) THEN o[k] ELSE c[k - Len(o)]
    BY <1>10, <2>1, ConcatProperties, Zenon
  <2>3. QED
    BY <1>10, <2>1, <2>2, Zenon DEF o
<1>12. ASSUME NEW k \in 1..m + w PROVE r[k] = CharOf(bytes, k - 1)
  <2> HIDE DEF c, w, m, r
  <2>1. CASE k <= m
    <3>1. k \in 1..m
      BY <1>9, <2>1
    <3>2. QED
      BY <1>3, <1>11, <2>1, <3>1
  <2>2. CASE ~(k <= m)
    <3>1. k - m \in 1..w /\ m + (k - m) - 1 = k - 1
      BY <1>9, <2>2
    <3>2. c[k - m] = CharOf(bytes, m + (k - m) - 1)
      BY <1>10, <3>1
    <3>3. QED
      BY <1>11, <2>2, <3>1, <3>2
  <2>3. QED
    BY <2>1, <2>2
<1>13. m + w = (8 * n) \div 5 /\ bits % 5 = (8 * n) % 5
  BY <1>8
<1> DEFINE u == TakeByte(s, b)
<1>14. u.acc = held /\ u.bits = bits % 5 /\ u.out = r
  <2>1. u = [acc |-> held, bits |-> bits % 5, out |-> r]
    BY <1>4, Zenon
  <2> HIDE DEF held, bits, r, u
  <2>2. QED
    BY <2>1
<1> HIDE DEF held, bits, c, w, m, r, u
<1>15. Encoded(bytes, n, u)
  BY <1>5, <1>7, <1>11, <1>12, <1>13, <1>14 DEF Encoded
<1>16. QED
  BY <1>15 DEF u

\* What leaves the loop has all the bytes.
LEMMA EncodeLoop ==
  ASSUME NEW bytes \in Seq(0..255)
  PROVE  \E s : /\ Encoded(bytes, Len(bytes), s)
                /\ base32_encode(bytes)
                     = IF s.bits > 0 THEN Append(s.out, LastChar(s.acc, s.bits)) ELSE s.out
<1> DEFINE L == Len(bytes)
           h == [k \in 1..L |-> [x \in EncodeState |-> TakeByte(x, bytes[k])]]
           Defines(v) == v = [n \in 0..L |-> IF n = 0 THEN Start ELSE TakeByte(v[n - 1], bytes[n])]
           v == CHOOSE v : Defines(v)
<1>1. L \in Nat
  OBVIOUS
<1>2. \A k \in 1..L : bytes[k] \in 0..255
  BY ElementOfSeq, Zenon
<1>3. \A k \in 1..L : \A x \in EncodeState : h[k][x] = TakeByte(x, bytes[k])
  OBVIOUS
<1>4. Start \in EncodeState
  BY DEF Start, EncodeState
<1>5. base32_encode(bytes)
        = IF v[L].bits > 0 THEN Append(v[L].out, LastChar(v[L].acc, v[L].bits)) ELSE v[L].out
  BY Zenon DEF base32_encode
<1> HIDE DEF h, L
<1>6. PICK f \in [0..L -> EncodeState] : Iterates(f, Start, h, L)
  <2>1. \A k \in 1..L : \A x \in EncodeState : h[k][x] \in EncodeState
    BY <1>2, <1>3, TakeByteIsState
  <2>2. QED
    BY <1>1, <1>4, <2>1, IteratesExist, Zenon
<1>7. Defines(f)
  <2>1. f[0] = Start /\ \A k \in 1..L : f[k] = h[k][f[k - 1]]
    BY <1>6, Zenon DEF Iterates
  <2>2. ASSUME NEW k \in 1..L PROVE f[k] = TakeByte(f[k - 1], bytes[k])
    <3>1. f[k - 1] \in EncodeState
      BY <1>1, <1>6
    <3>2. QED
      BY <1>3, <2>1, <3>1
  <2>3. QED
    BY <1>1, <1>6, <2>1, <2>2
<1>8. Defines(v)
  <2> HIDE DEF Defines
  <2>1. QED
    BY <1>7, Zenon
<1> HIDE DEF v
<1>9. v[0] = Start /\ \A k \in 1..L : v[k] = TakeByte(v[k - 1], bytes[k])
  BY <1>1, <1>8
<1> DEFINE T == {k \in 0..L : ~Encoded(bytes, k, v[k])}
<1>10. ASSUME T # {} PROVE FALSE
  <2>1. PICK k \in T : \A q \in T : k <= q
    <3>1. T \in SUBSET Nat
      BY <1>1
    <3> HIDE DEF T
    <3>2. QED
      BY <1>10, <3>1, LeastElement, Zenon
  <2>2. Encoded(bytes, 0, v[0])
    BY <1>9 DEF Encoded, Start
  <2>3. k # 0
    BY <2>1, <2>2
  <2>4. k \in 1..L /\ k - 1 \in 0..L /\ k - 1 \notin T
    BY <1>1, <2>1, <2>3
  <2>5. Encoded(bytes, k - 1, v[k - 1])
    BY <2>4
  <2>6. Encoded(bytes, k, TakeByte(v[k - 1], bytes[k]))
    BY <2>4, <2>5, TakeByteEncodes, Zenon DEF L
  <2>7. QED
    BY <1>9, <2>1, <2>4, <2>6
<1>11. Encoded(bytes, L, v[L])
  <2>1. L \in 0..L
    BY <1>1
  <2>2. QED
    BY <1>10, <2>1
<1>12. QED
  BY <1>5, <1>11 DEF L

\* How the bits of n bytes fall into characters.
LEMMA Blocks ==
  ASSUME NEW n \in Nat
  PROVE  \E t \in Nat, i \in 0..4 :
           /\ n = 5 * t + i
           /\ i = 0 => (8 * n) % 5 = 0 /\ (8 * n) \div 5 = 8 * t /\ (8 * n + 4) \div 5 = 8 * t
           /\ i = 1 => (8 * n) % 5 = 3 /\ (8 * n) \div 5 = 8 * t + 1 /\ (8 * n + 4) \div 5 = 8 * t + 2
           /\ i = 2 => (8 * n) % 5 = 1 /\ (8 * n) \div 5 = 8 * t + 3 /\ (8 * n + 4) \div 5 = 8 * t + 4
           /\ i = 3 => (8 * n) % 5 = 4 /\ (8 * n) \div 5 = 8 * t + 4 /\ (8 * n + 4) \div 5 = 8 * t + 5
           /\ i = 4 => (8 * n) % 5 = 2 /\ (8 * n) \div 5 = 8 * t + 6 /\ (8 * n + 4) \div 5 = 8 * t + 7
<1>1. PICK t \in Nat, i \in 0..4 : n = 5 * t + i
  <2>1. n \div 5 \in Nat /\ n % 5 \in 0..4 /\ n = 5 * (n \div 5) + (n % 5)
    OBVIOUS
  <2>2. QED
    BY <2>1
<1>2. QED
  BY <1>1

\* The text of the bytes, character by character.
Encoding(bytes, chars) ==
  /\ chars \in Seq(0..31) /\ Len(chars) = (8 * Len(bytes) + 4) \div 5
  /\ \A k \in 1..Len(chars) : chars[k] = CharOf(bytes, k - 1)

\* base32_encode writes the characters of its bytes: the full ones by the loop, the
\* last one, filled with zeros, after it.
LEMMA EncodeIsExact ==
  ASSUME NEW bytes \in Seq(0..255)
  PROVE  Encoding(bytes, base32_encode(bytes))
<1> DEFINE L == Len(bytes)
<1>1. PICK s : /\ Encoded(bytes, L, s)
               /\ base32_encode(bytes)
                    = IF s.bits > 0 THEN Append(s.out, LastChar(s.acc, s.bits)) ELSE s.out
  BY EncodeLoop
<1>2. L \in Nat
  OBVIOUS
<1> HIDE DEF L
<1> DEFINE o == s.out
           m == (8 * L) \div 5
           x == LastChar(s.acc, s.bits)
<1>3. /\ o \in Seq(0..31) /\ Len(o) = m /\ m \in Nat
      /\ \A k \in 1..m : o[k] = CharOf(bytes, k - 1)
      /\ s.acc \in Nat /\ s.bits = (8 * L) % 5 /\ (L > 0 => s.acc % 256 = bytes[L])
  BY <1>1, <1>2 DEF Encoded
<1> DEFINE len == (8 * L + 4) \div 5
           bits == s.bits
<1>3a. PICK t \in Nat, i \in 0..4 :
          /\ L = 5 * t + i
          /\ i = 0 => bits = 0 /\ m = 8 * t + 0 /\ len = m
          /\ i = 1 => bits = 3 /\ m = 8 * t + 1 /\ len = m + 1
          /\ i = 2 => bits = 1 /\ m = 8 * t + 3 /\ len = m + 1
          /\ i = 3 => bits = 4 /\ m = 8 * t + 4 /\ len = m + 1
          /\ i = 4 => bits = 2 /\ m = 8 * t + 6 /\ len = m + 1
  <2> HIDE DEF m, bits, len
  <2>1. bits = (8 * L) % 5 /\ m = (8 * L) \div 5 /\ len = (8 * L + 4) \div 5
    BY <1>3 DEF m, bits, len
  <2> DEFINE u == (8 * L) % 5
             v == (8 * L) \div 5
             y2 == (8 * L + 4) \div 5
  <2>2. PICK t \in Nat, i \in 0..4 :
           /\ L = 5 * t + i
           /\ i = 0 => u = 0 /\ v = 8 * t /\ y2 = 8 * t
           /\ i = 1 => u = 3 /\ v = 8 * t + 1 /\ y2 = 8 * t + 2
           /\ i = 2 => u = 1 /\ v = 8 * t + 3 /\ y2 = 8 * t + 4
           /\ i = 3 => u = 4 /\ v = 8 * t + 4 /\ y2 = 8 * t + 5
           /\ i = 4 => u = 2 /\ v = 8 * t + 6 /\ y2 = 8 * t + 7
    BY <1>2, Blocks, Zenon
  <2>3. bits = u /\ m = v /\ len = y2
    BY <2>1
  <2> HIDE DEF u, v, y2
  <2>4. QED
    BY <2>2, <2>3
<1> HIDE DEF m, bits, len
<1>4. CASE i > 0
  <2>0. s.bits > 0
    BY <1>4, <1>3a DEF bits
  <2> DEFINE b == bytes[L]
  <2>2. L \in 1..Len(bytes)
    BY <1>2, <1>4, <1>3a DEF L
  <2>3. b \in 0..255
    BY <2>2, ElementOfSeq, Zenon
  <2>4. ByteAt(bytes, 5 * t + i - 1) = b /\ ByteAt(bytes, 5 * t + i) = 0
    BY <1>2, <1>3a, <1>4, <2>2 DEF ByteAt, L
  <2> DEFINE a == s.acc
  <2>5. a \in Nat /\ a % 256 = b
    BY <1>3, <1>4, <1>3a
  <2> HIDE DEF b, a
  <2>6. PICK g \in Nat : a = 256 * g + b
    BY <2>3, <2>5
  <2>7. x = CharOf(bytes, m) /\ len = m + 1
    <3>1. CASE i = 1
      <4>1. bits = 3 /\ m = 8 * t + 1 /\ len = m + 1
        BY <1>3a, <3>1
      <4>2. ByteAt(bytes, 5 * t + 0) = b /\ ByteAt(bytes, 5 * t + 1) = 0
        BY <2>4, <3>1
      <4>3. CharOf(bytes, 8 * t + 1) = (b % 8) * 4
        <5>1. CharOf(bytes, 8 * t + 1) = (ByteAt(bytes, 5 * t + 0) % 8) * 4 + ByteAt(bytes, 5 * t + 1) \div 64
          BY CharsOfBlock
        <5>2. CharOf(bytes, 8 * t + 1) = (b % 8) * 4 + 0 \div 64
          BY <4>2, <5>1
        <5>3. QED
          BY <2>3, <5>2
      <4>4. x = (a * 4) % 32
        <5>1. Shift[5 - s.bits] = 4
          BY <4>1, SmallShifts DEF bits
        <5>2. QED
          BY <5>1, Zenon DEF LastChar, a
      <4>5. (a * 4) % 32 = (b % 8) * 4
        BY <2>3, <2>6
      <4>6. QED
        BY <4>1, <4>3, <4>4, <4>5
    <3>2. CASE i = 2
      <4>1. bits = 1 /\ m = 8 * t + 3 /\ len = m + 1
        BY <1>3a, <3>2
      <4>2. ByteAt(bytes, 5 * t + 1) = b /\ ByteAt(bytes, 5 * t + 2) = 0
        BY <2>4, <3>2
      <4>3. CharOf(bytes, 8 * t + 3) = (b % 2) * 16
        <5>1. CharOf(bytes, 8 * t + 3) = (ByteAt(bytes, 5 * t + 1) % 2) * 16 + ByteAt(bytes, 5 * t + 2) \div 16
          BY CharsOfBlock
        <5>2. CharOf(bytes, 8 * t + 3) = (b % 2) * 16 + 0 \div 16
          BY <4>2, <5>1
        <5>3. QED
          BY <2>3, <5>2
      <4>4. x = (a * 16) % 32
        <5>1. Shift[5 - s.bits] = 16
          BY <4>1, SmallShifts DEF bits
        <5>2. QED
          BY <5>1, Zenon DEF LastChar, a
      <4>5. (a * 16) % 32 = (b % 2) * 16
        BY <2>3, <2>6
      <4>6. QED
        BY <4>1, <4>3, <4>4, <4>5
    <3>3. CASE i = 3
      <4>1. bits = 4 /\ m = 8 * t + 4 /\ len = m + 1
        BY <1>3a, <3>3
      <4>2. ByteAt(bytes, 5 * t + 2) = b /\ ByteAt(bytes, 5 * t + 3) = 0
        BY <2>4, <3>3
      <4>3. CharOf(bytes, 8 * t + 4) = (b % 16) * 2
        <5>1. CharOf(bytes, 8 * t + 4) = (ByteAt(bytes, 5 * t + 2) % 16) * 2 + ByteAt(bytes, 5 * t + 3) \div 128
          BY CharsOfBlock
        <5>2. CharOf(bytes, 8 * t + 4) = (b % 16) * 2 + 0 \div 128
          BY <4>2, <5>1
        <5>3. QED
          BY <2>3, <5>2
      <4>4. x = (a * 2) % 32
        <5>1. Shift[5 - s.bits] = 2
          BY <4>1, SmallShifts DEF bits
        <5>2. QED
          BY <5>1, Zenon DEF LastChar, a
      <4>5. (a * 2) % 32 = (b % 16) * 2
        BY <2>3, <2>6
      <4>6. QED
        BY <4>1, <4>3, <4>4, <4>5
    <3>4. CASE i = 4
      <4>1. bits = 2 /\ m = 8 * t + 6 /\ len = m + 1
        BY <1>3a, <3>4
      <4>2. ByteAt(bytes, 5 * t + 3) = b /\ ByteAt(bytes, 5 * t + 4) = 0
        BY <2>4, <3>4
      <4>3. CharOf(bytes, 8 * t + 6) = (b % 4) * 8
        <5>1. CharOf(bytes, 8 * t + 6) = (ByteAt(bytes, 5 * t + 3) % 4) * 8 + ByteAt(bytes, 5 * t + 4) \div 32
          BY CharsOfBlock
        <5>2. CharOf(bytes, 8 * t + 6) = (b % 4) * 8 + 0 \div 32
          BY <4>2, <5>1
        <5>3. QED
          BY <2>3, <5>2
      <4>4. x = (a * 8) % 32
        <5>1. Shift[5 - s.bits] = 8
          BY <4>1, SmallShifts DEF bits
        <5>2. QED
          BY <5>1, Zenon DEF LastChar, a
      <4>5. (a * 8) % 32 = (b % 4) * 8
        BY <2>3, <2>6
      <4>6. QED
        BY <4>1, <4>3, <4>4, <4>5
    <3>5. QED
      BY <1>4, <3>1, <3>2, <3>3, <3>4
  <2>8. x \in 0..31 /\ base32_encode(bytes) = Append(o, x)
    <3>1. CharOf(bytes, m) \in 0..31
      BY <1>3, CharOfIsChar
    <3>2. QED
      BY <1>1, <2>0, <2>7, <3>1
  <2> DEFINE r == Append(o, x)
  <2> HIDE DEF o, x, m
  <2>9. r \in Seq(0..31) /\ Len(r) = m + 1 /\ \A k \in 1..m + 1 : r[k] = IF k <= m THEN o[k] ELSE x
    BY <1>3, <2>8
  <2>10. \A k \in 1..m + 1 : r[k] = CharOf(bytes, k - 1)
    <3>1. ASSUME NEW k \in 1..m + 1 PROVE r[k] = CharOf(bytes, k - 1)
      <4>1. CASE k <= m
        BY <1>3, <2>9, <4>1
      <4>2. CASE k = m + 1
        <5>1. k - 1 = m /\ ~(k <= m)
          BY <1>3, <4>2
        <5>2. QED
          BY <2>7, <2>9, <5>1
      <4>3. QED
        BY <1>3, <4>1, <4>2
    <3>2. QED
      BY <3>1
  <2> HIDE DEF r
  <2>11. QED
    BY <2>7, <2>8, <2>9, <2>10 DEF Encoding, L, r, len
<1>5. CASE i = 0
  <2>1. ~(s.bits > 0) /\ len = m
    BY <1>5, <1>3a DEF bits
  <2>2. base32_encode(bytes) = o
    BY <1>1, <2>1
  <2> HIDE DEF o
  <2>3. QED
    BY <1>3, <2>1, <2>2 DEF Encoding, L, len
<1>6. QED
  BY <1>4, <1>5, <1>3a

-----------------------------------------------------------------------------
(* Characters to bytes *)

\* The characters, with zeros behind them, and their bytes, both from 0 on.
CharAt(s, n) == IF n < Len(s) THEN s[n + 1] ELSE 0
ByteOf(s, m) ==
  LET c(n) == CharAt(s, (8 * m) \div 5 + n) IN
  CASE m % 5 = 0 -> c(0) * 8 + c(1) \div 4
    [] m % 5 = 1 -> (c(0) % 4) * 64 + c(1) * 2 + c(2) \div 16
    [] m % 5 = 2 -> (c(0) % 16) * 16 + c(1) \div 2
    [] m % 5 = 3 -> (c(0) % 2) * 128 + c(1) * 4 + c(2) \div 8
    [] m % 5 = 4 -> (c(0) % 8) * 32 + c(1)

\* The five bytes of eight characters.
LEMMA BytesOfBlock ==
  ASSUME NEW s, NEW t \in Nat
  PROVE  /\ ByteOf(s, 5 * t + 0) = CharAt(s, 8 * t + 0) * 8 + CharAt(s, 8 * t + 1) \div 4
         /\ ByteOf(s, 5 * t + 1) = (CharAt(s, 8 * t + 1) % 4) * 64 + CharAt(s, 8 * t + 2) * 2
                                     + CharAt(s, 8 * t + 3) \div 16
         /\ ByteOf(s, 5 * t + 2) = (CharAt(s, 8 * t + 3) % 16) * 16 + CharAt(s, 8 * t + 4) \div 2
         /\ ByteOf(s, 5 * t + 3) = (CharAt(s, 8 * t + 4) % 2) * 128 + CharAt(s, 8 * t + 5) * 4
                                     + CharAt(s, 8 * t + 6) \div 8
         /\ ByteOf(s, 5 * t + 4) = (CharAt(s, 8 * t + 6) % 8) * 32 + CharAt(s, 8 * t + 7)
<1>1. /\ (5 * t + 0) % 5 = 0 /\ (8 * (5 * t + 0)) \div 5 + 0 = 8 * t + 0 /\ (8 * (5 * t + 0)) \div 5 + 1 = 8 * t + 1
  OBVIOUS
<1>2. /\ (5 * t + 1) % 5 = 1 /\ (8 * (5 * t + 1)) \div 5 + 0 = 8 * t + 1 /\ (8 * (5 * t + 1)) \div 5 + 1 = 8 * t + 2
      /\ (8 * (5 * t + 1)) \div 5 + 2 = 8 * t + 3
  OBVIOUS
<1>3. /\ (5 * t + 2) % 5 = 2 /\ (8 * (5 * t + 2)) \div 5 + 0 = 8 * t + 3 /\ (8 * (5 * t + 2)) \div 5 + 1 = 8 * t + 4
  OBVIOUS
<1>4. /\ (5 * t + 3) % 5 = 3 /\ (8 * (5 * t + 3)) \div 5 + 0 = 8 * t + 4 /\ (8 * (5 * t + 3)) \div 5 + 1 = 8 * t + 5
      /\ (8 * (5 * t + 3)) \div 5 + 2 = 8 * t + 6
  OBVIOUS
<1>5. /\ (5 * t + 4) % 5 = 4 /\ (8 * (5 * t + 4)) \div 5 + 0 = 8 * t + 6 /\ (8 * (5 * t + 4)) \div 5 + 1 = 8 * t + 7
  OBVIOUS
<1>6. ByteOf(s, 5 * t + 0) = CharAt(s, 8 * t + 0) * 8 + CharAt(s, 8 * t + 1) \div 4
  BY <1>1 DEF ByteOf
<1>7. ByteOf(s, 5 * t + 1) = (CharAt(s, 8 * t + 1) % 4) * 64 + CharAt(s, 8 * t + 2) * 2
                                     + CharAt(s, 8 * t + 3) \div 16
  BY <1>2 DEF ByteOf
<1>8. ByteOf(s, 5 * t + 2) = (CharAt(s, 8 * t + 3) % 16) * 16 + CharAt(s, 8 * t + 4) \div 2
  BY <1>3 DEF ByteOf
<1>9. ByteOf(s, 5 * t + 3) = (CharAt(s, 8 * t + 4) % 2) * 128 + CharAt(s, 8 * t + 5) * 4
                                     + CharAt(s, 8 * t + 6) \div 8
  BY <1>4 DEF ByteOf
<1>10. ByteOf(s, 5 * t + 4) = (CharAt(s, 8 * t + 6) % 8) * 32 + CharAt(s, 8 * t + 7)
  BY <1>5 DEF ByteOf
<1>11. QED
  BY <1>6, <1>7, <1>8, <1>9, <1>10

\* What x shows of the last of three characters: d, e and then c.
ShowsChars(x, d, e, c) ==
  /\ x % 128 = (e % 4) * 32 + c
  /\ (x \div 4) % 256 = e * 8 + c \div 4
  /\ (x \div 16) % 256 = (d % 4) * 64 + e * 2 + c \div 16
  /\ (x \div 2) % 256 = (e % 16) * 16 + c \div 2
  /\ (x \div 8) % 256 = (d % 2) * 128 + e * 4 + c \div 8
  /\ x % 256 = (e % 8) * 32 + c

\* The twelve last bits of the accumulator hold a character and seven bits of those
\* before it: enough for every byte that ends in the character.
LEMMA CharWindows ==
  ASSUME NEW a \in Nat, NEW d \in 0..31, NEW e \in 0..31, NEW c \in 0..31, NEW x \in Nat,
         a % 128 = (d % 4) * 32 + e, Low(x) = Low(a * 32 + c)
  PROVE  ShowsChars(x, d, e, c)
<1> DEFINE f == d % 4
<1>1. f \in 0..3 /\ d % 2 = f % 2
  OBVIOUS
<1>2. PICK g \in Nat : a = 128 * g + f * 32 + e
  <2>1. a = 128 * (a \div 128) + (a % 128) /\ a \div 128 \in Nat
    OBVIOUS
  <2>2. a = 128 * (a \div 128) + f * 32 + e
    BY <2>1
  <2>3. QED
    BY <2>1, <2>2
<1> HIDE DEF f
<1>3. x % 4096 = f * 1024 + e * 32 + c
  <2>1. a * 32 + c = 4096 * g + (f * 1024 + e * 32 + c)
    BY <1>1, <1>2
  <2>2. f * 1024 + e * 32 + c \in 0..4095
    BY <1>1
  <2>3. x % 4096 = (a * 32 + c) % 4096
    BY DEF Low
  <2> DEFINE z == f * 1024 + e * 32 + c
  <2>4. a * 32 + c = 4096 * g + z /\ z \in 0..4095 /\ g \in Nat
    BY <1>2, <2>1, <2>2
  <2> HIDE DEF z
  <2> DEFINE v == a * 32 + c
  <2>5. v % 4096 = z
    <3>1. v = 4096 * g + z /\ z \in 0..4095 /\ g \in Nat
      BY <2>4
    <3> HIDE DEF v
    <3>2. QED
      BY <3>1
  <2>6. x % 4096 = z
    BY <2>3, <2>5
  <2>7. QED
    BY <2>6 DEF z
<1>4. PICK h \in Nat : x = 4096 * h + f * 1024 + e * 32 + c
  <2> DEFINE h == x \div 4096
  <2>1. x = 4096 * h + (x % 4096) /\ h \in Nat
    OBVIOUS
  <2> HIDE DEF h
  <2>2. x = 4096 * h + f * 1024 + e * 32 + c
    BY <1>1, <1>3, <2>1
  <2>3. QED
    BY <2>1, <2>2
<1>5. x % 128 = (e % 4) * 32 + c
  BY <1>1, <1>4
<1>6. (x \div 4) % 256 = e * 8 + c \div 4
  BY <1>1, <1>4
<1>7. (x \div 16) % 256 = f * 64 + e * 2 + c \div 16
  <2>1. x \div 16 = 256 * h + (f * 64 + e * 2 + c \div 16)
    BY <1>1, <1>4
  <2>2. f * 64 + e * 2 + c \div 16 \in 0..255
    BY <1>1
  <2>3. QED
    BY <2>1, <2>2
<1>8. (x \div 2) % 256 = (e % 16) * 16 + c \div 2
  <2> DEFINE q == e \div 16
             r == e % 16
             s == 8 * h + 2 * f + q
             z == r * 16 + c \div 2
  <2>1. q \in 0..1 /\ r \in 0..15 /\ e = 16 * q + r
    OBVIOUS
  <2> HIDE DEF q, r
  <2>2. x \div 2 = 256 * s + z
    BY <1>1, <1>4, <2>1
  <2>3. s \in Nat /\ z \in 0..255
    BY <1>1, <2>1
  <2> HIDE DEF s, z
  <2>4. (x \div 2) % 256 = z
    BY <2>2, <2>3
  <2>5. QED
    BY <2>4 DEF z, r
<1>9. (x \div 8) % 256 = (f % 2) * 128 + e * 4 + c \div 8
  BY <1>1, <1>4
<1>10. x % 256 = (e % 8) * 32 + c
  BY <1>1, <1>4
<1>11. f = d % 4
  BY DEF f
<1>12. QED
  BY <1>1, <1>5, <1>6, <1>7, <1>8, <1>9, <1>10, <1>11 DEF ShowsChars

\* Character n of the text, or the zeros the accumulator starts with.
Before(s, n) == IF n > 0 THEN s[n] ELSE 0

\* The last seven bits of the first n characters.
LastBits(s, n) == (Before(s, n - 1) % 4) * 32 + Before(s, n)

\* With bits of its own in the accumulator, character n completes a byte or none.
CompletesByte(s, n, held, bits) ==
  /\ bits \in 5..12 /\ held % 128 = LastBits(s, n)
  /\ bits >= 8 => /\ bits - 8 = (5 * n) % 8 /\ (5 * n) \div 8 = (5 * (n - 1)) \div 8 + 1
                  /\ (held \div Shift[bits - 8]) % 256 = ByteOf(s, (5 * (n - 1)) \div 8)
  /\ bits < 8 => bits = (5 * n) % 8 /\ (5 * n) \div 8 = (5 * (n - 1)) \div 8

\* The byte a character completes.
LEMMA NewByte ==
  ASSUME NEW s \in Seq(0..31), NEW n \in 1..Len(s), NEW a \in Nat, NEW held \in Nat,
         a % 128 = LastBits(s, n - 1),
         Low(held) = Low(a * 32 + s[n]), NEW bits, bits = ((5 * (n - 1)) % 8) + 5
  PROVE  CompletesByte(s, n, held, bits)
<1> DEFINE c == s[n]
           e == Before(s, n - 1)
           d == Before(s, n - 2)
<1>1. n \in Nat \ {0} /\ Len(s) \in Nat /\ n <= Len(s)
  OBVIOUS
<1>2. \A k \in 1..n : s[k] \in 0..31
  <2>1. \A k \in 1..Len(s) : s[k] \in 0..31
    BY ElementOfSeq, Zenon
  <2>2. QED
    BY <1>1, <2>1
<1>3. c \in 0..31 /\ d \in 0..31 /\ e \in 0..31 /\ Before(s, n) = c
  <2>1. n \in 1..n /\ (n - 1 > 0 => n - 1 \in 1..n) /\ (n - 2 > 0 => n - 2 \in 1..n)
    BY <1>1
  <2>2. QED
    BY <1>1, <1>2, <2>1 DEF Before
<1>4. PICK t \in Nat, i \in 0..7 : n - 1 = 8 * t + i
  <2> DEFINE k == n - 1
  <2>1. k \in Nat
    BY <1>1
  <2> HIDE DEF k
  <2>2. k \div 8 \in Nat /\ k % 8 \in 0..7 /\ k = 8 * (k \div 8) + (k % 8)
    BY <2>1
  <2>3. QED
    BY <2>2 DEF k
<1>5. CharAt(s, 8 * t + i) = c
  BY <1>1, <1>4 DEF CharAt
<1>6. i > 0 => CharAt(s, 8 * t + i - 1) = e
  <2>1. ASSUME i > 0
        PROVE  8 * t + i - 1 = n - 2 /\ n - 2 < Len(s) /\ n - 2 + 1 = n - 1 /\ n - 1 > 0
    BY <1>1, <1>4, <2>1
  <2>2. QED
    BY <2>1 DEF CharAt, Before
<1>7. i > 1 => CharAt(s, 8 * t + i - 2) = d
  <2>1. ASSUME i > 1
        PROVE  8 * t + i - 2 = n - 3 /\ n - 3 < Len(s) /\ n - 3 + 1 = n - 2 /\ n - 2 > 0
    BY <1>1, <1>4, <2>1
  <2>2. QED
    BY <2>1 DEF CharAt, Before
<1> HIDE DEF c, d, e
<1>8. ShowsChars(held, d, e, c)
  <2>1. a \in Nat /\ held \in Nat /\ a % 128 = (d % 4) * 32 + e /\ Low(held) = Low(a * 32 + c)
    <3>1. n - 1 - 1 = n - 2
      BY <1>1
    <3>2. QED
      BY <3>1 DEF c, d, e, LastBits
  <2>2. QED
    BY <1>3, <2>1, CharWindows
<1>9. held % 128 = LastBits(s, n)
  BY <1>3, <1>8 DEF ShowsChars, LastBits, e
<1> DEFINE m == (5 * (n - 1)) \div 8
           u == (5 * n) % 8
           v == (5 * n) \div 8
           y2 == (held \div Shift[bits - 8]) % 256
           Completes == /\ bits \in 5..12 /\ held % 128 = LastBits(s, n)
                        /\ bits >= 8 => bits - 8 = u /\ v = m + 1 /\ y2 = ByteOf(s, m)
                        /\ bits < 8 => bits = u /\ v = m
<1>10. CompletesByte(s, n, held, bits) <=> Completes
  BY Zenon DEF CompletesByte
<1>11. ASSUME i = 0 PROVE Completes
  <2>1. bits = 5 /\ m = 5 * t + 0 /\ u = 5 /\ v = 5 * t + 0
    BY <1>1, <1>4, <1>11
  <2> HIDE DEF m, u, v, y2
  <2>2. QED
    BY <1>9, <2>1
<1>12. ASSUME i = 1 PROVE Completes
  <2>1. bits = 10 /\ m = 5 * t + 0 /\ u = 2 /\ v = 5 * t + 1
    BY <1>1, <1>4, <1>12
  <2>2. CharAt(s, 8 * t + 1) = c /\ CharAt(s, 8 * t + 0) = e
    BY <1>5, <1>6, <1>7, <1>12
  <2>3. ByteOf(s, 5 * t + 0) = e * 8 + c \div 4
    BY <2>2, BytesOfBlock
  <2>4. Shift[bits - 8] = 4
    BY <2>1, SmallShifts
  <2>6. y2 = ByteOf(s, m)
    BY <1>8, <2>1, <2>3, <2>4 DEF ShowsChars
  <2> HIDE DEF m, u, v, y2
  <2>7. QED
    BY <1>9, <2>1, <2>6
<1>13. ASSUME i = 2 PROVE Completes
  <2>1. bits = 7 /\ m = 5 * t + 1 /\ u = 7 /\ v = 5 * t + 1
    BY <1>1, <1>4, <1>13
  <2> HIDE DEF m, u, v, y2
  <2>2. QED
    BY <1>9, <2>1
<1>14. ASSUME i = 3 PROVE Completes
  <2>1. bits = 12 /\ m = 5 * t + 1 /\ u = 4 /\ v = 5 * t + 2
    BY <1>1, <1>4, <1>14
  <2>2. CharAt(s, 8 * t + 3) = c /\ CharAt(s, 8 * t + 2) = e /\ CharAt(s, 8 * t + 1) = d
    BY <1>5, <1>6, <1>7, <1>14
  <2>3. ByteOf(s, 5 * t + 1) = (d % 4) * 64 + e * 2 + c \div 16
    BY <2>2, BytesOfBlock
  <2>4. Shift[bits - 8] = 16
    BY <2>1, SmallShifts
  <2>6. y2 = ByteOf(s, m)
    BY <1>8, <2>1, <2>3, <2>4 DEF ShowsChars
  <2> HIDE DEF m, u, v, y2
  <2>7. QED
    BY <1>9, <2>1, <2>6
<1>15. ASSUME i = 4 PROVE Completes
  <2>1. bits = 9 /\ m = 5 * t + 2 /\ u = 1 /\ v = 5 * t + 3
    BY <1>1, <1>4, <1>15
  <2>2. CharAt(s, 8 * t + 4) = c /\ CharAt(s, 8 * t + 3) = e
    BY <1>5, <1>6, <1>7, <1>15
  <2>3. ByteOf(s, 5 * t + 2) = (e % 16) * 16 + c \div 2
    BY <2>2, BytesOfBlock
  <2>4. Shift[bits - 8] = 2
    BY <2>1, SmallShifts
  <2>6. y2 = ByteOf(s, m)
    BY <1>8, <2>1, <2>3, <2>4 DEF ShowsChars
  <2> HIDE DEF m, u, v, y2
  <2>7. QED
    BY <1>9, <2>1, <2>6
<1>16. ASSUME i = 5 PROVE Completes
  <2>1. bits = 6 /\ m = 5 * t + 3 /\ u = 6 /\ v = 5 * t + 3
    BY <1>1, <1>4, <1>16
  <2> HIDE DEF m, u, v, y2
  <2>2. QED
    BY <1>9, <2>1
<1>17. ASSUME i = 6 PROVE Completes
  <2>1. bits = 11 /\ m = 5 * t + 3 /\ u = 3 /\ v = 5 * t + 4
    BY <1>1, <1>4, <1>17
  <2>2. CharAt(s, 8 * t + 6) = c /\ CharAt(s, 8 * t + 5) = e /\ CharAt(s, 8 * t + 4) = d
    BY <1>5, <1>6, <1>7, <1>17
  <2>3. ByteOf(s, 5 * t + 3) = (d % 2) * 128 + e * 4 + c \div 8
    BY <2>2, BytesOfBlock
  <2>4. Shift[bits - 8] = 8
    BY <2>1, SmallShifts
  <2>6. y2 = ByteOf(s, m)
    BY <1>8, <2>1, <2>3, <2>4 DEF ShowsChars
  <2> HIDE DEF m, u, v, y2
  <2>7. QED
    BY <1>9, <2>1, <2>6
<1>18. ASSUME i = 7 PROVE Completes
  <2>1. bits = 8 /\ m = 5 * t + 4 /\ u = 0 /\ v = 5 * t + 5
    BY <1>1, <1>4, <1>18
  <2>2. CharAt(s, 8 * t + 7) = c /\ CharAt(s, 8 * t + 6) = e
    BY <1>5, <1>6, <1>7, <1>18
  <2>3. ByteOf(s, 5 * t + 4) = (e % 8) * 32 + c
    BY <2>2, BytesOfBlock
  <2>4. Shift[bits - 8] = 1
    BY <2>1, SmallShifts
  <2>5. held \div 1 = held
    OBVIOUS
  <2>6. y2 = ByteOf(s, m)
    BY <1>8, <2>1, <2>3, <2>4, <2>5 DEF ShowsChars
  <2> HIDE DEF m, u, v, y2
  <2>7. QED
    BY <1>9, <2>1, <2>6
<1> HIDE DEF Completes
<1>19. QED
  BY <1>4, <1>9, <1>10, <1>11, <1>12, <1>13, <1>14, <1>15, <1>16, <1>17, <1>18

\* What the decoding loop's state may be.
DecodeState == [acc : Nat, bits : 0..7, out : Seq(0..255)]

\* A character leaves fewer than eight bits behind.
LEMMA TakeCharIsState ==
  ASSUME NEW s \in DecodeState, NEW c \in 0..31
  PROVE  TakeChar(s, c) \in DecodeState
<1> DEFINE held == Shifted(s.acc, 5, c)
           bits == s.bits + 5
           byte == (held \div Shift[bits - 8]) % 256
<1>1. s.acc \in Nat /\ s.bits \in 0..7 /\ s.out \in Seq(0..255)
  BY DEF DecodeState
<1>2. TakeChar(s, c) = IF bits >= 8 THEN [acc |-> held, bits |-> bits - 8, out |-> Append(s.out, byte)]
                       ELSE [acc |-> held, bits |-> bits, out |-> s.out]
  BY DEF TakeChar
<1>3. held \in Nat
  <2>1. c \in Nat
    OBVIOUS
  <2>2. QED
    BY <1>1, <2>1, ShiftedKeepsTwelve
<1>4. bits \in 5..12
  BY <1>1
<1>5. CASE bits >= 8
  <2> DEFINE e == bits - 8
             d == Shift[e]
  <2>1. e \in {0, 1, 2, 3, 4} /\ e \in 0..7
    BY <1>4, <1>5
  <2> HIDE DEF e
  <2>2. d \in Nat \ {0}
    BY <2>1, SmallShifts
  <2> HIDE DEF held, d
  <2>3. (held \div d) % 256 \in 0..255
    BY <1>3, <2>2
  <2>4. byte \in 0..255
    BY <2>3 DEF d, e
  <2> DEFINE o == s.out
             r == Append(o, byte)
  <2> HIDE DEF o, byte, bits
  <2>5. r \in Seq(0..255)
    BY <1>1, <2>4 DEF o
  <2>6. TakeChar(s, c) = [acc |-> held, bits |-> e, out |-> r]
    BY <1>2, <1>5 DEF o, e
  <2> HIDE DEF r
  <2>7. QED
    BY <1>3, <2>1, <2>5, <2>6 DEF DecodeState
<1>6. CASE ~(bits >= 8)
  <2>1. bits \in 0..7
    BY <1>4, <1>6
  <2> HIDE DEF held, bits, byte
  <2>2. QED
    BY <1>1, <1>2, <1>3, <1>6, <2>1 DEF DecodeState
<1>7. QED
  BY <1>5, <1>6

\* Zeros behind the characters are characters.
LEMMA CharAtIsChar ==
  ASSUME NEW s \in Seq(0..31), NEW n \in Nat
  PROVE  CharAt(s, n) \in 0..31
<1>1. CASE n < Len(s)
  <2>1. n + 1 \in 1..Len(s)
    BY <1>1
  <2>2. s[n + 1] \in 0..31
    BY <2>1, ElementOfSeq, Zenon
  <2>3. QED
    BY <1>1, <2>2 DEF CharAt
<1>2. CASE ~(n < Len(s))
  BY <1>2 DEF CharAt
<1>3. QED
  BY <1>1, <1>2

\* The bytes of characters are bytes.
LEMMA ByteOfIsByte ==
  ASSUME NEW s \in Seq(0..31), NEW m \in Nat
  PROVE  ByteOf(s, m) \in 0..255
<1>1. m \div 5 \in Nat /\ m % 5 \in 0..4 /\ m = 5 * (m \div 5) + (m % 5)
  OBVIOUS
<1>2. PICK t \in Nat, i \in 0..4 : m = 5 * t + i
  BY <1>1
<1>3. \A j \in 0..7 : CharAt(s, 8 * t + j) \in 0..31
  <2>1. ASSUME NEW j \in 0..7 PROVE CharAt(s, 8 * t + j) \in 0..31
    <3>1. 8 * t + j \in Nat
      OBVIOUS
    <3>2. QED
      BY <3>1, CharAtIsChar
  <2>2. QED
    BY <2>1
<1> DEFINE c(j) == CharAt(s, 8 * t + j)
<1>4. /\ c(0) \in 0..31 /\ c(1) \in 0..31 /\ c(2) \in 0..31 /\ c(3) \in 0..31
      /\ c(4) \in 0..31 /\ c(5) \in 0..31 /\ c(6) \in 0..31 /\ c(7) \in 0..31
  BY <1>3
<1>5. /\ ByteOf(s, 5 * t + 0) = c(0) * 8 + c(1) \div 4
      /\ ByteOf(s, 5 * t + 1) = (c(1) % 4) * 64 + c(2) * 2 + c(3) \div 16
      /\ ByteOf(s, 5 * t + 2) = (c(3) % 16) * 16 + c(4) \div 2
      /\ ByteOf(s, 5 * t + 3) = (c(4) % 2) * 128 + c(5) * 4 + c(6) \div 8
      /\ ByteOf(s, 5 * t + 4) = (c(6) % 8) * 32 + c(7)
  BY BytesOfBlock
<1>6. ByteOf(s, 5 * t + 0) \in 0..255
  <2> DEFINE x == c(0)
             y2 == c(1)
  <2>1. x \in 0..31 /\ y2 \in 0..31 /\ ByteOf(s, 5 * t + 0) = x * 8 + y2 \div 4
    BY <1>4, <1>5
  <2> HIDE DEF x, y2
  <2>2. y2 \div 4 \in 0..7
    BY <2>1
  <2>3. x * 8 + y2 \div 4 \in 0..255
    BY <2>1, <2>2
  <2>4. QED
    BY <2>1, <2>3
<1>7. ByteOf(s, 5 * t + 1) \in 0..255
  <2> DEFINE x == c(1)
             y2 == c(2)
             z == c(3)
  <2>1. x \in 0..31 /\ y2 \in 0..31 /\ z \in 0..31 /\ ByteOf(s, 5 * t + 1) = (x % 4) * 64 + y2 * 2 + z \div 16
    BY <1>4, <1>5
  <2> HIDE DEF x, y2, z
  <2>2. x % 4 \in 0..3 /\ z \div 16 \in 0..1
    BY <2>1
  <2>3. (x % 4) * 64 + y2 * 2 + z \div 16 \in 0..255
    BY <2>1, <2>2
  <2>4. QED
    BY <2>1, <2>3
<1>8. ByteOf(s, 5 * t + 2) \in 0..255
  <2> DEFINE x == c(3)
             y2 == c(4)
  <2>1. x \in 0..31 /\ y2 \in 0..31 /\ ByteOf(s, 5 * t + 2) = (x % 16) * 16 + y2 \div 2
    BY <1>4, <1>5
  <2> HIDE DEF x, y2
  <2>2. x % 16 \in 0..15 /\ y2 \div 2 \in 0..15
    BY <2>1
  <2>3. (x % 16) * 16 + y2 \div 2 \in 0..255
    BY <2>1, <2>2
  <2>4. QED
    BY <2>1, <2>3
<1>9. ByteOf(s, 5 * t + 3) \in 0..255
  <2> DEFINE x == c(4)
             y2 == c(5)
             z == c(6)
  <2>1. x \in 0..31 /\ y2 \in 0..31 /\ z \in 0..31 /\ ByteOf(s, 5 * t + 3) = (x % 2) * 128 + y2 * 4 + z \div 8
    BY <1>4, <1>5
  <2> HIDE DEF x, y2, z
  <2>2. x % 2 \in 0..1 /\ z \div 8 \in 0..3
    BY <2>1
  <2>3. (x % 2) * 128 + y2 * 4 + z \div 8 \in 0..255
    BY <2>1, <2>2
  <2>4. QED
    BY <2>1, <2>3
<1>10. ByteOf(s, 5 * t + 4) \in 0..255
  <2> DEFINE x == c(6)
             y2 == c(7)
  <2>1. x \in 0..31 /\ y2 \in 0..31 /\ ByteOf(s, 5 * t + 4) = (x % 8) * 32 + y2
    BY <1>4, <1>5
  <2> HIDE DEF x, y2
  <2>2. x % 8 \in 0..7
    BY <2>1
  <2>3. (x % 8) * 32 + y2 \in 0..255
    BY <2>1, <2>2
  <2>4. QED
    BY <2>1, <2>3
<1>11. m = 5 * t + 0 \/ m = 5 * t + 1 \/ m = 5 * t + 2 \/ m = 5 * t + 3 \/ m = 5 * t + 4
  BY <1>2
<1>12. QED
  BY <1>6, <1>7, <1>8, <1>9, <1>10, <1>11

\* After the first n characters their bytes are out but for the bits of one that
\* is not complete, and the accumulator ends with the last characters.
Decoded(s, n, st) ==
  /\ st.acc \in Nat /\ st.acc % 128 = LastBits(s, n)
  /\ st.bits = (5 * n) % 8
  /\ st.out \in Seq(0..255) /\ Len(st.out) = (5 * n) \div 8
  /\ \A k \in 1..Len(st.out) : st.out[k] = ByteOf(s, k - 1)

\* The loop's invariant is kept by one more character.
LEMMA TakeCharDecodes ==
  ASSUME NEW s \in Seq(0..31), NEW n \in 1..Len(s), NEW st, Decoded(s, n - 1, st)
  PROVE  Decoded(s, n, TakeChar(st, s[n]))
<1> DEFINE c == s[n]
           a == st.acc
           held == Shifted(a, 5, c)
           bits == st.bits + 5
           o == st.out
           m == (5 * (n - 1)) \div 8
           byte == (held \div Shift[bits - 8]) % 256
           u == TakeChar(st, c)
<1>1. c \in 0..31
  BY ElementOfSeq, Zenon
<1>2. n \in Nat \ {0} /\ m \in Nat
  OBVIOUS
<1>3. /\ a \in Nat /\ a % 128 = LastBits(s, n - 1)
      /\ bits = ((5 * (n - 1)) % 8) + 5
      /\ o \in Seq(0..255) /\ Len(o) = m
      /\ \A k \in 1..m : o[k] = ByteOf(s, k - 1)
  BY DEF Decoded
<1>4. u = IF bits >= 8 THEN [acc |-> held, bits |-> bits - 8, out |-> Append(o, byte)]
          ELSE [acc |-> held, bits |-> bits, out |-> o]
  BY DEF TakeChar
<1>5. held \in Nat /\ Low(held) = Low(a * 32 + c)
  <2> HIDE DEF c, a
  <2>1. c \in Nat
    BY <1>1
  <2>2. QED
    BY <1>3, <2>1, ShiftedKeepsTwelve
<1>6. CompletesByte(s, n, held, bits)
  <2>1. Low(held) = Low(a * 32 + s[n])
    BY <1>5
  <2> HIDE DEF held, a, bits
  <2>2. QED
    BY <1>3, <1>5, <2>1, NewByte
<1>7. CASE bits >= 8
  <2>1. held % 128 = LastBits(s, n) /\ bits - 8 = (5 * n) % 8 /\ (5 * n) \div 8 = m + 1 /\ byte = ByteOf(s, m)
    BY <1>6, <1>7 DEF CompletesByte
  <2>2. byte \in 0..255
    <3> HIDE DEF byte, m
    <3>1. ByteOf(s, m) \in 0..255
      BY <1>2, ByteOfIsByte
    <3>2. QED
      BY <2>1, <3>1
  <2> DEFINE r == Append(o, byte)
  <2> HIDE DEF o, byte, m
  <2>3. r \in Seq(0..255) /\ Len(r) = m + 1 /\ \A k \in 1..m + 1 : r[k] = IF k <= m THEN o[k] ELSE byte
    BY <1>2, <1>3, <2>2
  <2>4. \A k \in 1..m + 1 : r[k] = ByteOf(s, k - 1)
    <3>1. ASSUME NEW k \in 1..m + 1 PROVE r[k] = ByteOf(s, k - 1)
      <4>1. CASE k <= m
        BY <1>3, <2>3, <4>1
      <4>2. CASE k = m + 1
        <5>1. k - 1 = m /\ ~(k <= m)
          BY <1>2, <4>2
        <5>2. QED
          BY <2>1, <2>3, <5>1
      <4>3. k <= m \/ k = m + 1
        BY <1>2
      <4>4. QED
        BY <4>1, <4>2, <4>3
    <3>2. QED
      BY <3>1
  <2> HIDE DEF r, held, bits, u
  <2>5. u.acc = held /\ u.bits = bits - 8 /\ u.out = r
    BY <1>4, <1>7 DEF r
  <2>6. Decoded(s, n, u)
    BY <1>5, <2>1, <2>3, <2>4, <2>5 DEF Decoded
  <2>7. QED
    BY <2>6 DEF u
<1>8. CASE ~(bits >= 8)
  <2>1. held % 128 = LastBits(s, n) /\ bits = (5 * n) % 8 /\ (5 * n) \div 8 = m
    BY <1>6, <1>8 DEF CompletesByte
  <2> HIDE DEF held, bits, o, u, m, byte
  <2>2. u.acc = held /\ u.bits = bits /\ u.out = o
    BY <1>4, <1>8
  <2>3. Decoded(s, n, u)
    BY <1>3, <1>5, <2>1, <2>2 DEF Decoded
  <2>4. QED
    BY <2>3 DEF u
<1>9. QED
  BY <1>7, <1>8

\* What leaves the loop has all the characters.
LEMMA DecodeLoop ==
  ASSUME NEW s \in Seq(0..31)
  PROVE  \E st : /\ Decoded(s, Len(s), st)
                 /\ base32_decode(s)
                      = IF Len(s) % 8 \notin {0, 2, 4, 5, 7} THEN Unexpected("invalid_length")
                        ELSE IF \E n \in 1..Len(s) : s[n] = Other THEN Unexpected("invalid_char")
                        ELSE IF ~PaddingIsZero(st.acc, st.bits) THEN Unexpected("nonzero_padding")
                        ELSE Expected(st.out)
<1> DEFINE L == Len(s)
           h == [k \in 1..L |-> [x \in DecodeState |-> TakeChar(x, s[k])]]
           Defines(v) == v = [n \in 0..L |-> IF n = 0 THEN Start ELSE TakeChar(v[n - 1], s[n])]
           v == CHOOSE v : Defines(v)
<1>1. L \in Nat
  OBVIOUS
<1>2. \A k \in 1..L : s[k] \in 0..31
  BY ElementOfSeq, Zenon
<1>3. \A k \in 1..L : \A x \in DecodeState : h[k][x] = TakeChar(x, s[k])
  OBVIOUS
<1>4. Start \in DecodeState
  BY DEF Start, DecodeState
<1>5. base32_decode(s)
        = IF L % 8 \notin {0, 2, 4, 5, 7} THEN Unexpected("invalid_length")
          ELSE IF \E n \in 1..L : s[n] = Other THEN Unexpected("invalid_char")
          ELSE IF ~PaddingIsZero(v[L].acc, v[L].bits) THEN Unexpected("nonzero_padding")
          ELSE Expected(v[L].out)
  BY Zenon DEF base32_decode
<1> HIDE DEF h, L
<1>6. PICK f \in [0..L -> DecodeState] : Iterates(f, Start, h, L)
  <2>1. \A k \in 1..L : \A x \in DecodeState : h[k][x] \in DecodeState
    BY <1>2, <1>3, TakeCharIsState
  <2>2. QED
    BY <1>1, <1>4, <2>1, IteratesExist, Zenon
<1>7. Defines(f)
  <2>1. f[0] = Start /\ \A k \in 1..L : f[k] = h[k][f[k - 1]]
    BY <1>6, Zenon DEF Iterates
  <2>2. ASSUME NEW k \in 1..L PROVE f[k] = TakeChar(f[k - 1], s[k])
    <3>1. f[k - 1] \in DecodeState
      BY <1>1, <1>6
    <3>2. QED
      BY <1>3, <2>1, <3>1
  <2>3. QED
    BY <1>1, <1>6, <2>1, <2>2
<1>8. Defines(v)
  <2> HIDE DEF Defines
  <2>1. QED
    BY <1>7, Zenon
<1> HIDE DEF v
<1>9. v[0] = Start /\ \A k \in 1..L : v[k] = TakeChar(v[k - 1], s[k])
  BY <1>1, <1>8
<1> DEFINE T == {k \in 0..L : ~Decoded(s, k, v[k])}
<1>10. ASSUME T # {} PROVE FALSE
  <2>1. PICK k \in T : \A q \in T : k <= q
    <3>1. T \in SUBSET Nat
      BY <1>1
    <3> HIDE DEF T
    <3>2. QED
      BY <1>10, <3>1, LeastElement, Zenon
  <2>2. Decoded(s, 0, v[0])
    <3>1. LastBits(s, 0) = 0
      BY DEF LastBits, Before
    <3>2. QED
      BY <1>9, <3>1 DEF Decoded, Start
  <2>3. k # 0
    BY <2>1, <2>2
  <2>4. k \in 1..L /\ k - 1 \in 0..L /\ k - 1 \notin T
    BY <1>1, <2>1, <2>3
  <2>5. Decoded(s, k - 1, v[k - 1])
    BY <2>4
  <2>6. Decoded(s, k, TakeChar(v[k - 1], s[k]))
    BY <2>4, <2>5, TakeCharDecodes, Zenon DEF L
  <2>7. QED
    BY <1>9, <2>1, <2>4, <2>6
<1>11. Decoded(s, L, v[L])
  <2>1. L \in 0..L
    BY <1>1
  <2>2. QED
    BY <1>10, <2>1
<1>12. QED
  BY <1>5, <1>11 DEF L

\* A text that is accepted: the bits after the last whole byte are zeros.
Clean(s) == Len(s) % 8 \in {0, 2, 4, 5, 7} /\ ByteOf(s, (5 * Len(s)) \div 8) = 0

\* The bytes of the text, byte by byte, if it is clean.
Decoding(s, r) ==
  IF Clean(s)
  THEN /\ r = Expected(r.value) /\ r.value \in Seq(0..255)
       /\ Len(r.value) = (5 * Len(s)) \div 8
       /\ \A k \in 1..Len(r.value) : r.value[k] = ByteOf(s, k - 1)
  ELSE ~r.ok

\* How the bits of n characters that are accepted fall into bytes.
LEMMA CharBlocks ==
  ASSUME NEW n \in Nat, n % 8 \in {0, 2, 4, 5, 7}
  PROVE  \E t \in Nat :
           \/ n = 8 * t + 0 /\ (5 * n) \div 8 = 5 * t + 0 /\ (5 * n) % 8 = 0
           \/ n = 8 * t + 2 /\ (5 * n) \div 8 = 5 * t + 1 /\ (5 * n) % 8 = 2
           \/ n = 8 * t + 4 /\ (5 * n) \div 8 = 5 * t + 2 /\ (5 * n) % 8 = 4
           \/ n = 8 * t + 5 /\ (5 * n) \div 8 = 5 * t + 3 /\ (5 * n) % 8 = 1
           \/ n = 8 * t + 7 /\ (5 * n) \div 8 = 5 * t + 4 /\ (5 * n) % 8 = 3
<1> DEFINE t == n \div 8
<1>1. t \in Nat /\ n = 8 * t + (n % 8)
  OBVIOUS
<1> HIDE DEF t
<1>2. \/ n = 8 * t + 0 \/ n = 8 * t + 2 \/ n = 8 * t + 4 \/ n = 8 * t + 5 \/ n = 8 * t + 7
  BY <1>1
<1>3. QED
  BY <1>1, <1>2

\* Nothing comes after the text.
LEMMA NoCharAt ==
  ASSUME NEW s \in Seq(0..31), NEW n \in Nat, n >= Len(s)
  PROVE  CharAt(s, n) = 0
BY DEF CharAt

\* The padding the code looks at, in its accumulator, is the byte that would follow.
LEMMA PaddingIsClean ==
  ASSUME NEW s \in Seq(0..31), Len(s) % 8 \in {0, 2, 4, 5, 7},
         NEW held \in Nat, held % 128 = LastBits(s, Len(s))
  PROVE  PaddingIsZero(held, (5 * Len(s)) % 8) <=> Clean(s)
<1> DEFINE n == Len(s)
           c == Before(s, n)
           m == (5 * n) \div 8
<1>1. n \in Nat
  OBVIOUS
<1>2. n > 0 => c \in 0..31 /\ CharAt(s, n - 1) = c
  <2>1. ASSUME n > 0 PROVE s[n] \in 0..31
    <3>1. n \in 1..Len(s)
      BY <1>1, <2>1
    <3>2. QED
      BY <3>1, ElementOfSeq, Zenon
  <2>2. ASSUME n > 0 PROVE n - 1 < Len(s) /\ n - 1 + 1 = n
    BY <1>1, <2>2
  <2>3. QED
    BY <2>1, <2>2 DEF Before, CharAt
<1>3. n > 0 => held % 32 = c
  <2>1. SUFFICES ASSUME n > 0 PROVE held % 32 = c
    OBVIOUS
  <2> DEFINE e == Before(s, n - 1) % 4
  <2>2. e \in 0..3
    <3>1. Before(s, n - 1) \in 0..31
      <4>1. ASSUME n - 1 > 0 PROVE s[n - 1] \in 0..31
        <5>1. n - 1 \in 1..Len(s)
          BY <1>1, <4>1
        <5>2. QED
          BY <5>1, ElementOfSeq, Zenon
      <4>2. QED
        BY <4>1 DEF Before
    <3> DEFINE x == Before(s, n - 1)
    <3>2. x \in 0..31
      BY <3>1
    <3> HIDE DEF x
    <3>3. x % 4 \in 0..3
      BY <3>2
    <3>4. QED
      BY <3>3 DEF x
  <2>3. held % 128 = e * 32 + c
    BY DEF LastBits
  <2> HIDE DEF e, c
  <2>4. c \in 0..31
    BY <1>2, <2>1
  <2> DEFINE q == held \div 128
  <2>5. q \in Nat /\ held = 128 * q + (held % 128)
    OBVIOUS
  <2> HIDE DEF q
  <2>6. held = 128 * q + e * 32 + c
    BY <2>2, <2>3, <2>4, <2>5
  <2>7. QED
    BY <2>2, <2>4, <2>5, <2>6
<1>4. PICK t \in Nat :
        \/ n = 8 * t + 0 /\ m = 5 * t + 0 /\ (5 * n) % 8 = 0
        \/ n = 8 * t + 2 /\ m = 5 * t + 1 /\ (5 * n) % 8 = 2
        \/ n = 8 * t + 4 /\ m = 5 * t + 2 /\ (5 * n) % 8 = 4
        \/ n = 8 * t + 5 /\ m = 5 * t + 3 /\ (5 * n) % 8 = 1
        \/ n = 8 * t + 7 /\ m = 5 * t + 4 /\ (5 * n) % 8 = 3
  BY <1>1, CharBlocks, Zenon
<1>5. \A k \in Nat : k >= n => CharAt(s, k) = 0
  BY NoCharAt
<1> DEFINE bits == (5 * n) % 8
<1>6. Clean(s) <=> ByteOf(s, m) = 0
  BY DEF Clean
<1> HIDE DEF n, c, m, bits
<1> SUFFICES PaddingIsZero(held, bits) <=> Clean(s)
  BY DEF bits, n
<1> SUFFICES PaddingIsZero(held, bits) <=> Clean(s)
  BY DEF bits, n
<1>7. CASE n = 8 * t + 0 /\ m = 5 * t + 0 /\ bits = 0
  <2>1. CharAt(s, 8 * t + 0) = 0 /\ CharAt(s, 8 * t + 1) = 0
    BY <1>5, <1>7
  <2>2. ByteOf(s, 5 * t + 0) = 0
    BY <2>1, BytesOfBlock
  <2>3. QED
    BY <1>6, <1>7, <2>2 DEF PaddingIsZero
<1>8. CASE n = 8 * t + 2 /\ m = 5 * t + 1 /\ bits = 2
  <2>1. CharAt(s, 8 * t + 1) = c /\ c \in 0..31 /\ held % 32 = c
    <3>1. n > 0 /\ n - 1 = 8 * t + 1
      BY <1>8
    <3>2. QED
      BY <1>2, <1>3, <3>1
  <2>2. CharAt(s, 8 * t + 2) = 0 /\ CharAt(s, 8 * t + 3) = 0
    BY <1>5, <1>8
  <2>3. ByteOf(s, 5 * t + 1) = (c % 4) * 64
    <3>1. ByteOf(s, 5 * t + 1) = (CharAt(s, 8 * t + 1) % 4) * 64 + CharAt(s, 8 * t + 2) * 2 + CharAt(s, 8 * t + 3) \div 16
      BY BytesOfBlock
    <3>2. ByteOf(s, 5 * t + 1) = (c % 4) * 64 + 0 * 2 + 0 \div 16
      BY <2>1, <2>2, <3>1
    <3>3. QED
      BY <2>1, <3>2
  <2>4. held % 4 = c % 4
    BY <2>1
  <2>5. Shift[bits] = 4
    BY <1>8, SmallShifts
  <2>6. PaddingIsZero(held, bits) <=> c % 4 = 0
    BY <1>8, <2>4, <2>5 DEF PaddingIsZero
  <2>7. (c % 4) * 64 = 0 <=> c % 4 = 0
    BY <2>1
  <2>8. QED
    BY <1>6, <1>8, <2>3, <2>6, <2>7
<1>9. CASE n = 8 * t + 4 /\ m = 5 * t + 2 /\ bits = 4
  <2>1. CharAt(s, 8 * t + 3) = c /\ c \in 0..31 /\ held % 32 = c
    <3>1. n > 0 /\ n - 1 = 8 * t + 3
      BY <1>9
    <3>2. QED
      BY <1>2, <1>3, <3>1
  <2>2. CharAt(s, 8 * t + 4) = 0
    BY <1>5, <1>9
  <2>3. ByteOf(s, 5 * t + 2) = (c % 16) * 16
    <3>1. ByteOf(s, 5 * t + 2) = (CharAt(s, 8 * t + 3) % 16) * 16 + CharAt(s, 8 * t + 4) \div 2
      BY BytesOfBlock
    <3>2. ByteOf(s, 5 * t + 2) = (c % 16) * 16 + 0 \div 2
      BY <2>1, <2>2, <3>1
    <3>3. QED
      BY <2>1, <3>2
  <2>4. held % 16 = c % 16
    BY <2>1
  <2>5. Shift[bits] = 16
    BY <1>9, SmallShifts
  <2>6. PaddingIsZero(held, bits) <=> c % 16 = 0
    BY <1>9, <2>4, <2>5 DEF PaddingIsZero
  <2>7. (c % 16) * 16 = 0 <=> c % 16 = 0
    BY <2>1
  <2>8. QED
    BY <1>6, <1>9, <2>3, <2>6, <2>7
<1>10. CASE n = 8 * t + 5 /\ m = 5 * t + 3 /\ bits = 1
  <2>1. CharAt(s, 8 * t + 4) = c /\ c \in 0..31 /\ held % 32 = c
    <3>1. n > 0 /\ n - 1 = 8 * t + 4
      BY <1>10
    <3>2. QED
      BY <1>2, <1>3, <3>1
  <2>2. CharAt(s, 8 * t + 5) = 0 /\ CharAt(s, 8 * t + 6) = 0
    BY <1>5, <1>10
  <2>3. ByteOf(s, 5 * t + 3) = (c % 2) * 128
    <3>1. ByteOf(s, 5 * t + 3) = (CharAt(s, 8 * t + 4) % 2) * 128 + CharAt(s, 8 * t + 5) * 4 + CharAt(s, 8 * t + 6) \div 8
      BY BytesOfBlock
    <3>2. ByteOf(s, 5 * t + 3) = (c % 2) * 128 + 0 * 4 + 0 \div 8
      BY <2>1, <2>2, <3>1
    <3>3. QED
      BY <2>1, <3>2
  <2>4. held % 2 = c % 2
    BY <2>1
  <2>5. Shift[bits] = 2
    BY <1>10, SmallShifts
  <2>6. PaddingIsZero(held, bits) <=> c % 2 = 0
    BY <1>10, <2>4, <2>5 DEF PaddingIsZero
  <2>7. (c % 2) * 128 = 0 <=> c % 2 = 0
    BY <2>1
  <2>8. QED
    BY <1>6, <1>10, <2>3, <2>6, <2>7
<1>11. CASE n = 8 * t + 7 /\ m = 5 * t + 4 /\ bits = 3
  <2>1. CharAt(s, 8 * t + 6) = c /\ c \in 0..31 /\ held % 32 = c
    <3>1. n > 0 /\ n - 1 = 8 * t + 6
      BY <1>11
    <3>2. QED
      BY <1>2, <1>3, <3>1
  <2>2. CharAt(s, 8 * t + 7) = 0
    BY <1>5, <1>11
  <2>3. ByteOf(s, 5 * t + 4) = (c % 8) * 32
    <3>1. ByteOf(s, 5 * t + 4) = (CharAt(s, 8 * t + 6) % 8) * 32 + CharAt(s, 8 * t + 7)
      BY BytesOfBlock
    <3>2. ByteOf(s, 5 * t + 4) = (c % 8) * 32 + 0
      BY <2>1, <2>2, <3>1
    <3>3. QED
      BY <2>1, <3>2
  <2>4. held % 8 = c % 8
    BY <2>1
  <2>5. Shift[bits] = 8
    BY <1>11, SmallShifts
  <2>6. PaddingIsZero(held, bits) <=> c % 8 = 0
    BY <1>11, <2>4, <2>5 DEF PaddingIsZero
  <2>7. (c % 8) * 32 = 0 <=> c % 8 = 0
    BY <2>1
  <2>8. QED
    BY <1>6, <1>11, <2>3, <2>6, <2>7
<1>12. QED
  BY <1>4, <1>7, <1>8, <1>9, <1>10, <1>11 DEF bits

\* base32_decode accepts clean text only, and returns the bytes of its characters.
LEMMA DecodeIsExact ==
  ASSUME NEW s \in Seq(0..31)
  PROVE  Decoding(s, base32_decode(s))
<1> DEFINE n == Len(s)
           r == base32_decode(s)
<1>1. PICK st : /\ Decoded(s, n, st)
                /\ r = IF n % 8 \notin {0, 2, 4, 5, 7} THEN Unexpected("invalid_length")
                       ELSE IF \E k \in 1..n : s[k] = Other THEN Unexpected("invalid_char")
                       ELSE IF ~PaddingIsZero(st.acc, st.bits) THEN Unexpected("nonzero_padding")
                       ELSE Expected(st.out)
  BY DecodeLoop
<1>2. ~\E k \in 1..n : s[k] = Other
  <2>1. \A k \in 1..n : s[k] \in 0..31
    BY ElementOfSeq, Zenon
  <2>2. 32 \notin 0..31 /\ Other = 32
    BY DEF Other, AlphabetSize
  <2> HIDE DEF r, n
  <2>3. QED
    BY <2>1, <2>2
<1> HIDE DEF r
<1> DEFINE o == st.out
           held == st.acc
<1>3. /\ held \in Nat /\ held % 128 = LastBits(s, n) /\ st.bits = (5 * n) % 8
      /\ o \in Seq(0..255) /\ Len(o) = (5 * n) \div 8
      /\ \A k \in 1..Len(o) : o[k] = ByteOf(s, k - 1)
  BY <1>1 DEF Decoded
<1> HIDE DEF o, held
<1>4. CASE n % 8 \notin {0, 2, 4, 5, 7}
  <2>1. r = Unexpected("invalid_length")
    BY <1>1, <1>4
  <2>2. ~Clean(s)
    BY <1>4 DEF Clean
  <2>3. QED
    BY <2>1, <2>2 DEF Decoding, Unexpected, r
<1>5. CASE n % 8 \in {0, 2, 4, 5, 7}
  <2>1. PaddingIsZero(held, st.bits) <=> Clean(s)
    BY <1>3, <1>5, PaddingIsClean
  <2>2. r = IF Clean(s) THEN Expected(o) ELSE Unexpected("nonzero_padding")
    BY <1>1, <1>2, <1>5, <2>1 DEF o, held
  <2>3. CASE Clean(s)
    <3>1. r = Expected(o) /\ r.value = o
      BY <2>2, <2>3 DEF Expected
    <3>2. QED
      BY <1>3, <2>3, <3>1 DEF Decoding, r
  <2>4. CASE ~Clean(s)
    BY <2>2, <2>4 DEF Decoding, Unexpected, r
  <2>5. QED
    BY <2>3, <2>4
<1>6. QED
  BY <1>4, <1>5

\* Zeros behind the bytes are bytes.
LEMMA ByteAtIsByte ==
  ASSUME NEW bytes \in Seq(0..255), NEW n \in Nat
  PROVE  ByteAt(bytes, n) \in 0..255
<1>1. CASE n < Len(bytes)
  <2>1. n + 1 \in 1..Len(bytes)
    BY <1>1
  <2>2. bytes[n + 1] \in 0..255
    BY <2>1, ElementOfSeq, Zenon
  <2>3. QED
    BY <1>1, <2>2 DEF ByteAt
<1>2. CASE ~(n < Len(bytes))
  BY <1>2 DEF ByteAt
<1>3. QED
  BY <1>1, <1>2

\* A number below 256 or 32 is put together again from what was taken out of it.
Joins(x) ==
  /\ x = (x \div 8) * 8 + (x % 8)
  /\ x = (x \div 64) * 64 + ((x \div 2) % 32) * 2 + (x % 2)
  /\ x = (x \div 16) * 16 + (x % 16)
  /\ x = (x \div 128) * 128 + ((x \div 4) % 32) * 4 + (x % 4)
  /\ x = (x \div 32) * 32 + (x % 32)
  /\ x = (x \div 4) * 4 + (x % 4)
  /\ x = (x \div 2) * 2 + (x % 2)

\* A character is the bits it is split into.
LEMMA Joined ==
  ASSUME NEW x \in 0..255
  PROVE  Joins(x)
<1>1. x = (x \div 64) * 64 + ((x \div 2) % 32) * 2 + (x % 2)
  <2> DEFINE q == x \div 2
  <2>1. x = 2 * q + (x % 2) /\ q \in 0..127 /\ x \div 64 = q \div 32
    OBVIOUS
  <2> HIDE DEF q
  <2>2. q = 32 * (q \div 32) + (q % 32)
    BY <2>1
  <2>3. x = 64 * (q \div 32) + 2 * (q % 32) + (x % 2)
    BY <2>1, <2>2
  <2>4. QED
    BY <2>1, <2>3 DEF q
<1>2. x = (x \div 128) * 128 + ((x \div 4) % 32) * 4 + (x % 4)
  <2> DEFINE q == x \div 4
  <2>1. x = 4 * q + (x % 4) /\ q \in 0..63 /\ x \div 128 = q \div 32
    OBVIOUS
  <2> HIDE DEF q
  <2>2. q = 32 * (q \div 32) + (q % 32)
    BY <2>1
  <2>3. x = 128 * (q \div 32) + 4 * (q % 32) + (x % 4)
    BY <2>1, <2>2
  <2>4. QED
    BY <2>1, <2>3 DEF q
<1>3. QED
  BY <1>1, <1>2 DEF Joins

\* The two parts of a character that has bits of two bytes.
SplitsChar(x, y2) ==
  /\ ((x % 8) * 4 + y2 \div 64) \div 4 = x % 8 /\ ((x % 8) * 4 + y2 \div 64) % 4 = y2 \div 64
  /\ ((x % 2) * 16 + y2 \div 16) \div 16 = x % 2 /\ ((x % 2) * 16 + y2 \div 16) % 16 = y2 \div 16
  /\ ((x % 16) * 2 + y2 \div 128) \div 2 = x % 16 /\ ((x % 16) * 2 + y2 \div 128) % 2 = y2 \div 128
  /\ ((x % 4) * 8 + y2 \div 32) \div 8 = x % 4 /\ ((x % 4) * 8 + y2 \div 32) % 8 = y2 \div 32

\* What the two parts of a character are read back as.
LEMMA CharSplits ==
  ASSUME NEW x \in 0..255, NEW y2 \in 0..255
  PROVE  SplitsChar(x, y2)
<1>1. ((x % 8) * 4 + y2 \div 64) \div 4 = x % 8 /\ ((x % 8) * 4 + y2 \div 64) % 4 = y2 \div 64
  <2> DEFINE h == x % 8
             l == y2 \div 64
  <2>1. h \in Nat /\ l \in 0..3
    OBVIOUS
  <2> HIDE DEF h, l
  <2>2. (h * 4 + l) \div 4 = h /\ (h * 4 + l) % 4 = l
    BY <2>1
  <2>3. QED
    BY <2>2 DEF h, l
<1>2. ((x % 2) * 16 + y2 \div 16) \div 16 = x % 2 /\ ((x % 2) * 16 + y2 \div 16) % 16 = y2 \div 16
  <2> DEFINE h == x % 2
             l == y2 \div 16
  <2>1. h \in Nat /\ l \in 0..15
    OBVIOUS
  <2> HIDE DEF h, l
  <2>2. (h * 16 + l) \div 16 = h /\ (h * 16 + l) % 16 = l
    BY <2>1
  <2>3. QED
    BY <2>2 DEF h, l
<1>3. ((x % 16) * 2 + y2 \div 128) \div 2 = x % 16 /\ ((x % 16) * 2 + y2 \div 128) % 2 = y2 \div 128
  <2> DEFINE h == x % 16
             l == y2 \div 128
  <2>1. h \in Nat /\ l \in 0..1
    OBVIOUS
  <2> HIDE DEF h, l
  <2>2. (h * 2 + l) \div 2 = h /\ (h * 2 + l) % 2 = l
    BY <2>1
  <2>3. QED
    BY <2>2 DEF h, l
<1>4. ((x % 4) * 8 + y2 \div 32) \div 8 = x % 4 /\ ((x % 4) * 8 + y2 \div 32) % 8 = y2 \div 32
  <2> DEFINE h == x % 4
             l == y2 \div 32
  <2>1. h \in Nat /\ l \in 0..7
    OBVIOUS
  <2> HIDE DEF h, l
  <2>2. (h * 8 + l) \div 8 = h /\ (h * 8 + l) % 8 = l
    BY <2>1
  <2>3. QED
    BY <2>2 DEF h, l
<1>5. QED
  BY <1>1, <1>2, <1>3, <1>4 DEF SplitsChar

\* The parts of a byte that has bits of two or three characters.
SplitsByte(x, y2, z) ==
  /\ (x * 8 + y2 \div 4) \div 8 = x /\ (x * 8 + y2 \div 4) % 8 = y2 \div 4
  /\ ((x % 4) * 64 + y2 * 2 + z \div 16) \div 64 = x % 4
  /\ (((x % 4) * 64 + y2 * 2 + z \div 16) \div 2) % 32 = y2
  /\ ((x % 4) * 64 + y2 * 2 + z \div 16) % 2 = z \div 16
  /\ ((x % 16) * 16 + y2 \div 2) \div 16 = x % 16 /\ ((x % 16) * 16 + y2 \div 2) % 16 = y2 \div 2
  /\ ((x % 2) * 128 + y2 * 4 + z \div 8) \div 128 = x % 2
  /\ (((x % 2) * 128 + y2 * 4 + z \div 8) \div 4) % 32 = y2
  /\ ((x % 2) * 128 + y2 * 4 + z \div 8) % 4 = z \div 8
  /\ ((x % 8) * 32 + y2) \div 32 = x % 8 /\ ((x % 8) * 32 + y2) % 32 = y2

\* What the parts of a byte are read back as.
LEMMA ByteSplits ==
  ASSUME NEW x \in 0..31, NEW y2 \in 0..31, NEW z \in 0..31
  PROVE  SplitsByte(x, y2, z)
<1>1. (x * 8 + y2 \div 4) \div 8 = x /\ (x * 8 + y2 \div 4) % 8 = y2 \div 4
  <2> DEFINE h == x
             l == y2 \div 4
  <2>1. h \in Nat /\ l \in 0..7
    OBVIOUS
  <2> HIDE DEF h, l
  <2>2. (h * 8 + l) \div 8 = h /\ (h * 8 + l) % 8 = l
    BY <2>1
  <2>3. QED
    BY <2>2 DEF h, l
<1>2. ((x % 16) * 16 + y2 \div 2) \div 16 = x % 16 /\ ((x % 16) * 16 + y2 \div 2) % 16 = y2 \div 2
  <2> DEFINE h == x % 16
             l == y2 \div 2
  <2>1. h \in Nat /\ l \in 0..15
    OBVIOUS
  <2> HIDE DEF h, l
  <2>2. (h * 16 + l) \div 16 = h /\ (h * 16 + l) % 16 = l
    BY <2>1
  <2>3. QED
    BY <2>2 DEF h, l
<1>3. ((x % 8) * 32 + y2) \div 32 = x % 8 /\ ((x % 8) * 32 + y2) % 32 = y2
  <2> DEFINE h == x % 8
             l == y2
  <2>1. h \in Nat /\ l \in 0..31
    OBVIOUS
  <2> HIDE DEF h, l
  <2>2. (h * 32 + l) \div 32 = h /\ (h * 32 + l) % 32 = l
    BY <2>1
  <2>3. QED
    BY <2>2 DEF h, l
<1>4. /\ ((x % 4) * 64 + y2 * 2 + z \div 16) \div 64 = x % 4
      /\ (((x % 4) * 64 + y2 * 2 + z \div 16) \div 2) % 32 = y2
      /\ ((x % 4) * 64 + y2 * 2 + z \div 16) % 2 = z \div 16
  <2> DEFINE h == x % 4
             l == z \div 16
  <2>1. h \in 0..3 /\ l \in 0..1
    OBVIOUS
  <2> HIDE DEF h, l
  <2>2. (h * 64 + y2 * 2 + l) \div 64 = h /\ (h * 64 + y2 * 2 + l) % 2 = l
    BY <2>1
  <2>3. (h * 64 + y2 * 2 + l) \div 2 = 32 * h + y2
    BY <2>1
  <2>4. (32 * h + y2) % 32 = y2
    BY <2>1
  <2>5. QED
    BY <2>2, <2>3, <2>4 DEF h, l
<1>5. /\ ((x % 2) * 128 + y2 * 4 + z \div 8) \div 128 = x % 2
      /\ (((x % 2) * 128 + y2 * 4 + z \div 8) \div 4) % 32 = y2
      /\ ((x % 2) * 128 + y2 * 4 + z \div 8) % 4 = z \div 8
  <2> DEFINE h == x % 2
             l == z \div 8
  <2>1. h \in 0..1 /\ l \in 0..3
    OBVIOUS
  <2> HIDE DEF h, l
  <2>2. (h * 128 + y2 * 4 + l) \div 128 = h /\ (h * 128 + y2 * 4 + l) % 4 = l
    BY <2>1
  <2>3. (h * 128 + y2 * 4 + l) \div 4 = 32 * h + y2
    BY <2>1
  <2>4. (32 * h + y2) % 32 = y2
    BY <2>1
  <2>5. QED
    BY <2>2, <2>3, <2>4 DEF h, l
<1>6. QED
  BY <1>1, <1>2, <1>3, <1>4, <1>5 DEF SplitsByte


\* If the characters of a text are those of the bytes, the bytes are those of the
\* text, and the other way round.
LEMMA BytesOfChars ==
  ASSUME NEW s \in Seq(0..31), NEW bytes \in Seq(0..255),
         \A k \in Nat : CharAt(s, k) = CharOf(bytes, k)
  PROVE  \A m \in Nat : ByteOf(s, m) = ByteAt(bytes, m)
<1> SUFFICES ASSUME NEW m \in Nat PROVE ByteOf(s, m) = ByteAt(bytes, m)
  OBVIOUS
<1>1. m \div 5 \in Nat /\ m % 5 \in 0..4 /\ m = 5 * (m \div 5) + (m % 5)
  OBVIOUS
<1>2. PICK t \in Nat, i \in 0..4 : m = 5 * t + i
  BY <1>1
<1> DEFINE b(j) == ByteAt(bytes, 5 * t + j)
           c(j) == CharAt(s, 8 * t + j)
<1>3. \A j \in 0..7 : c(j) = CharOf(bytes, 8 * t + j)
  <2>1. \A j \in 0..7 : 8 * t + j \in Nat
    OBVIOUS
  <2>2. QED
    BY <2>1
<1>4. b(0) \in 0..255 /\ b(1) \in 0..255 /\ b(2) \in 0..255 /\ b(3) \in 0..255 /\ b(4) \in 0..255
  <2>1. 5 * t + 0 \in Nat /\ 5 * t + 1 \in Nat /\ 5 * t + 2 \in Nat /\ 5 * t + 3 \in Nat /\ 5 * t + 4 \in Nat
    OBVIOUS
  <2>2. QED
    BY <2>1, ByteAtIsByte
<1>5. /\ c(0) = b(0) \div 8
      /\ c(1) = (b(0) % 8) * 4 + b(1) \div 64
      /\ c(2) = (b(1) \div 2) % 32
      /\ c(3) = (b(1) % 2) * 16 + b(2) \div 16
      /\ c(4) = (b(2) % 16) * 2 + b(3) \div 128
      /\ c(5) = (b(3) \div 4) % 32
      /\ c(6) = (b(3) % 4) * 8 + b(4) \div 32
      /\ c(7) = b(4) % 32
  <2>1. /\ c(0) = CharOf(bytes, 8 * t + 0) /\ c(1) = CharOf(bytes, 8 * t + 1)
        /\ c(2) = CharOf(bytes, 8 * t + 2) /\ c(3) = CharOf(bytes, 8 * t + 3)
        /\ c(4) = CharOf(bytes, 8 * t + 4) /\ c(5) = CharOf(bytes, 8 * t + 5)
        /\ c(6) = CharOf(bytes, 8 * t + 6) /\ c(7) = CharOf(bytes, 8 * t + 7)
    BY <1>3
  <2> HIDE DEF c
  <2>2. QED
    BY <2>1, CharsOfBlock
<1>6. ByteOf(s, 5 * t + 0) = b(0)
  <2> DEFINE B0 == b(0)
             B1 == b(1)
             C0 == c(0)
             C1 == c(1)
  <2>1. B0 \in 0..255 /\ B1 \in 0..255
    BY <1>4
  <2>2. C0 = B0 \div 8 /\ C1 = (B0 % 8) * 4 + B1 \div 64
    BY <1>5
  <2>3. ByteOf(s, 5 * t + 0) = C0 * 8 + C1 \div 4
    BY BytesOfBlock
  <2> HIDE DEF B0, B1, C0, C1
  <2>4. Joins(B0) /\ SplitsChar(B0, B1)
    BY <2>1, Joined, CharSplits
  <2>5. C0 * 8 + C1 \div 4 = B0
    BY <2>2, <2>4 DEF Joins, SplitsChar
  <2>6. QED
    BY <2>3, <2>5 DEF B0
<1>7. ByteOf(s, 5 * t + 1) = b(1)
  <2> DEFINE B0 == b(0)
             B1 == b(1)
             B2 == b(2)
             C1 == c(1)
             C2 == c(2)
             C3 == c(3)
  <2>1. B0 \in 0..255 /\ B1 \in 0..255 /\ B2 \in 0..255
    BY <1>4
  <2>2. C1 = (B0 % 8) * 4 + B1 \div 64 /\ C2 = (B1 \div 2) % 32 /\ C3 = (B1 % 2) * 16 + B2 \div 16
    BY <1>5
  <2>3. ByteOf(s, 5 * t + 1) = (C1 % 4) * 64 + C2 * 2 + C3 \div 16
    BY BytesOfBlock
  <2> HIDE DEF B0, B1, B2, C1, C2, C3
  <2>4. Joins(B1) /\ SplitsChar(B0, B1) /\ SplitsChar(B1, B2)
    BY <2>1, Joined, CharSplits
  <2>5. (C1 % 4) * 64 + C2 * 2 + C3 \div 16 = B1
    BY <2>2, <2>4 DEF Joins, SplitsChar
  <2>6. QED
    BY <2>3, <2>5 DEF B1
<1>8. ByteOf(s, 5 * t + 2) = b(2)
  <2> DEFINE B1 == b(1)
             B2 == b(2)
             B3 == b(3)
             C3 == c(3)
             C4 == c(4)
  <2>1. B1 \in 0..255 /\ B2 \in 0..255 /\ B3 \in 0..255
    BY <1>4
  <2>2. C3 = (B1 % 2) * 16 + B2 \div 16 /\ C4 = (B2 % 16) * 2 + B3 \div 128
    BY <1>5
  <2>3. ByteOf(s, 5 * t + 2) = (C3 % 16) * 16 + C4 \div 2
    BY BytesOfBlock
  <2> HIDE DEF B1, B2, B3, C3, C4
  <2>4. Joins(B2) /\ SplitsChar(B1, B2) /\ SplitsChar(B2, B3)
    BY <2>1, Joined, CharSplits
  <2>5. (C3 % 16) * 16 + C4 \div 2 = B2
    BY <2>2, <2>4 DEF Joins, SplitsChar
  <2>6. QED
    BY <2>3, <2>5 DEF B2
<1>9. ByteOf(s, 5 * t + 3) = b(3)
  <2> DEFINE B2 == b(2)
             B3 == b(3)
             B4 == b(4)
             C4 == c(4)
             C5 == c(5)
             C6 == c(6)
  <2>1. B2 \in 0..255 /\ B3 \in 0..255 /\ B4 \in 0..255
    BY <1>4
  <2>2. C4 = (B2 % 16) * 2 + B3 \div 128 /\ C5 = (B3 \div 4) % 32 /\ C6 = (B3 % 4) * 8 + B4 \div 32
    BY <1>5
  <2>3. ByteOf(s, 5 * t + 3) = (C4 % 2) * 128 + C5 * 4 + C6 \div 8
    BY BytesOfBlock
  <2> HIDE DEF B2, B3, B4, C4, C5, C6
  <2>4. Joins(B3) /\ SplitsChar(B2, B3) /\ SplitsChar(B3, B4)
    BY <2>1, Joined, CharSplits
  <2>5. (C4 % 2) * 128 + C5 * 4 + C6 \div 8 = B3
    BY <2>2, <2>4 DEF Joins, SplitsChar
  <2>6. QED
    BY <2>3, <2>5 DEF B3
<1>10. ByteOf(s, 5 * t + 4) = b(4)
  <2> DEFINE B3 == b(3)
             B4 == b(4)
             C6 == c(6)
             C7 == c(7)
  <2>1. B3 \in 0..255 /\ B4 \in 0..255
    BY <1>4
  <2>2. C6 = (B3 % 4) * 8 + B4 \div 32 /\ C7 = B4 % 32
    BY <1>5
  <2>3. ByteOf(s, 5 * t + 4) = (C6 % 8) * 32 + C7
    BY BytesOfBlock
  <2> HIDE DEF B3, B4, C6, C7
  <2>4. Joins(B4) /\ SplitsChar(B3, B4)
    BY <2>1, Joined, CharSplits
  <2>5. (C6 % 8) * 32 + C7 = B4
    BY <2>2, <2>4 DEF Joins, SplitsChar
  <2>6. QED
    BY <2>3, <2>5 DEF B4
<1>11. m = 5 * t + 0 \/ m = 5 * t + 1 \/ m = 5 * t + 2 \/ m = 5 * t + 3 \/ m = 5 * t + 4
  BY <1>2
<1>12. QED
  BY <1>6, <1>7, <1>8, <1>9, <1>10, <1>11

\* And the characters of the bytes of characters are those characters.
LEMMA CharsOfBytes ==
  ASSUME NEW s \in Seq(0..31), NEW bytes \in Seq(0..255),
         \A m \in Nat : ByteAt(bytes, m) = ByteOf(s, m)
  PROVE  \A k \in Nat : CharOf(bytes, k) = CharAt(s, k)
<1> SUFFICES ASSUME NEW k \in Nat PROVE CharOf(bytes, k) = CharAt(s, k)
  OBVIOUS
<1>1. k \div 8 \in Nat /\ k % 8 \in 0..7 /\ k = 8 * (k \div 8) + (k % 8)
  OBVIOUS
<1>2. PICK t \in Nat, i \in 0..7 : k = 8 * t + i
  BY <1>1
<1> DEFINE b(j) == ByteAt(bytes, 5 * t + j)
           c(j) == CharAt(s, 8 * t + j)
<1>3. b(0) = ByteOf(s, 5 * t + 0) /\ b(1) = ByteOf(s, 5 * t + 1) /\ b(2) = ByteOf(s, 5 * t + 2)
      /\ b(3) = ByteOf(s, 5 * t + 3) /\ b(4) = ByteOf(s, 5 * t + 4)
  <2>1. 5 * t + 0 \in Nat /\ 5 * t + 1 \in Nat /\ 5 * t + 2 \in Nat /\ 5 * t + 3 \in Nat /\ 5 * t + 4 \in Nat
    OBVIOUS
  <2>2. QED
    BY <2>1
<1>4. /\ c(0) \in 0..31 /\ c(1) \in 0..31 /\ c(2) \in 0..31 /\ c(3) \in 0..31
      /\ c(4) \in 0..31 /\ c(5) \in 0..31 /\ c(6) \in 0..31 /\ c(7) \in 0..31
  <2>1. \A j \in 0..7 : c(j) \in 0..31
    <3>1. \A j \in 0..7 : 8 * t + j \in Nat
      OBVIOUS
    <3>2. QED
      BY <3>1, CharAtIsChar
  <2> HIDE DEF c
  <2>2. QED
    BY <2>1
<1>5. /\ b(0) = c(0) * 8 + c(1) \div 4
      /\ b(1) = (c(1) % 4) * 64 + c(2) * 2 + c(3) \div 16
      /\ b(2) = (c(3) % 16) * 16 + c(4) \div 2
      /\ b(3) = (c(4) % 2) * 128 + c(5) * 4 + c(6) \div 8
      /\ b(4) = (c(6) % 8) * 32 + c(7)
  <2> HIDE DEF b
  <2>1. QED
    BY <1>3, BytesOfBlock
<1>6. CharOf(bytes, 8 * t + 0) = c(0)
  <2> DEFINE B0 == b(0)
             C0 == c(0)
             C1 == c(1)
  <2>1. C0 \in 0..31 /\ C1 \in 0..31
    BY <1>4
  <2>2. B0 = C0 * 8 + C1 \div 4
    BY <1>5
  <2>3. CharOf(bytes, 8 * t + 0) = B0 \div 8
    BY CharsOfBlock
  <2> HIDE DEF B0, C0, C1
  <2>4. SplitsByte(C0, C1, C1)
    BY <2>1, ByteSplits
  <2>5. Joins(C0)
    <3>1. C0 \in 0..255
      BY <2>1
    <3>2. QED
      BY <3>1, Joined
  <2>6. B0 \div 8 = C0
    BY <2>2, <2>4, <2>5 DEF Joins, SplitsByte
  <2>7. QED
    BY <2>3, <2>6 DEF C0
<1>7. CharOf(bytes, 8 * t + 1) = c(1)
  <2> DEFINE B0 == b(0)
             B1 == b(1)
             C0 == c(0)
             C1 == c(1)
             C2 == c(2)
             C3 == c(3)
  <2>1. C0 \in 0..31 /\ C1 \in 0..31 /\ C2 \in 0..31 /\ C3 \in 0..31
    BY <1>4
  <2>2. B0 = C0 * 8 + C1 \div 4 /\ B1 = (C1 % 4) * 64 + C2 * 2 + C3 \div 16
    BY <1>5
  <2>3. CharOf(bytes, 8 * t + 1) = (B0 % 8) * 4 + B1 \div 64
    BY CharsOfBlock
  <2> HIDE DEF B0, B1, C0, C1, C2, C3
  <2>4. SplitsByte(C0, C1, C1) /\ SplitsByte(C1, C2, C3)
    BY <2>1, ByteSplits
  <2>5. Joins(C1)
    <3>1. C1 \in 0..255
      BY <2>1
    <3>2. QED
      BY <3>1, Joined
  <2>6. (B0 % 8) * 4 + B1 \div 64 = C1
    BY <2>2, <2>4, <2>5 DEF Joins, SplitsByte
  <2>7. QED
    BY <2>3, <2>6 DEF C1
<1>8. CharOf(bytes, 8 * t + 2) = c(2)
  <2> DEFINE B1 == b(1)
             C1 == c(1)
             C2 == c(2)
             C3 == c(3)
  <2>1. C1 \in 0..31 /\ C2 \in 0..31 /\ C3 \in 0..31
    BY <1>4
  <2>2. B1 = (C1 % 4) * 64 + C2 * 2 + C3 \div 16
    BY <1>5
  <2>3. CharOf(bytes, 8 * t + 2) = (B1 \div 2) % 32
    BY CharsOfBlock
  <2> HIDE DEF B1, C1, C2, C3
  <2>4. SplitsByte(C1, C2, C3)
    BY <2>1, ByteSplits
  <2>5. Joins(C2)
    <3>1. C2 \in 0..255
      BY <2>1
    <3>2. QED
      BY <3>1, Joined
  <2>6. (B1 \div 2) % 32 = C2
    BY <2>2, <2>4, <2>5 DEF Joins, SplitsByte
  <2>7. QED
    BY <2>3, <2>6 DEF C2
<1>9. CharOf(bytes, 8 * t + 3) = c(3)
  <2> DEFINE B1 == b(1)
             B2 == b(2)
             C1 == c(1)
             C2 == c(2)
             C3 == c(3)
             C4 == c(4)
  <2>1. C1 \in 0..31 /\ C2 \in 0..31 /\ C3 \in 0..31 /\ C4 \in 0..31
    BY <1>4
  <2>2. B1 = (C1 % 4) * 64 + C2 * 2 + C3 \div 16 /\ B2 = (C3 % 16) * 16 + C4 \div 2
    BY <1>5
  <2>3. CharOf(bytes, 8 * t + 3) = (B1 % 2) * 16 + B2 \div 16
    BY CharsOfBlock
  <2> HIDE DEF B1, B2, C1, C2, C3, C4
  <2>4. SplitsByte(C1, C2, C3) /\ SplitsByte(C3, C4, C4)
    BY <2>1, ByteSplits
  <2>5. Joins(C3)
    <3>1. C3 \in 0..255
      BY <2>1
    <3>2. QED
      BY <3>1, Joined
  <2>6. (B1 % 2) * 16 + B2 \div 16 = C3
    BY <2>2, <2>4, <2>5 DEF Joins, SplitsByte
  <2>7. QED
    BY <2>3, <2>6 DEF C3
<1>10. CharOf(bytes, 8 * t + 4) = c(4)
  <2> DEFINE B2 == b(2)
             B3 == b(3)
             C3 == c(3)
             C4 == c(4)
             C5 == c(5)
             C6 == c(6)
  <2>1. C3 \in 0..31 /\ C4 \in 0..31 /\ C5 \in 0..31 /\ C6 \in 0..31
    BY <1>4
  <2>2. B2 = (C3 % 16) * 16 + C4 \div 2 /\ B3 = (C4 % 2) * 128 + C5 * 4 + C6 \div 8
    BY <1>5
  <2>3. CharOf(bytes, 8 * t + 4) = (B2 % 16) * 2 + B3 \div 128
    BY CharsOfBlock
  <2> HIDE DEF B2, B3, C3, C4, C5, C6
  <2>4. SplitsByte(C3, C4, C4) /\ SplitsByte(C4, C5, C6)
    BY <2>1, ByteSplits
  <2>5. Joins(C4)
    <3>1. C4 \in 0..255
      BY <2>1
    <3>2. QED
      BY <3>1, Joined
  <2>6. (B2 % 16) * 2 + B3 \div 128 = C4
    BY <2>2, <2>4, <2>5 DEF Joins, SplitsByte
  <2>7. QED
    BY <2>3, <2>6 DEF C4
<1>11. CharOf(bytes, 8 * t + 5) = c(5)
  <2> DEFINE B3 == b(3)
             C4 == c(4)
             C5 == c(5)
             C6 == c(6)
  <2>1. C4 \in 0..31 /\ C5 \in 0..31 /\ C6 \in 0..31
    BY <1>4
  <2>2. B3 = (C4 % 2) * 128 + C5 * 4 + C6 \div 8
    BY <1>5
  <2>3. CharOf(bytes, 8 * t + 5) = (B3 \div 4) % 32
    BY CharsOfBlock
  <2> HIDE DEF B3, C4, C5, C6
  <2>4. SplitsByte(C4, C5, C6)
    BY <2>1, ByteSplits
  <2>5. Joins(C5)
    <3>1. C5 \in 0..255
      BY <2>1
    <3>2. QED
      BY <3>1, Joined
  <2>6. (B3 \div 4) % 32 = C5
    BY <2>2, <2>4, <2>5 DEF Joins, SplitsByte
  <2>7. QED
    BY <2>3, <2>6 DEF C5
<1>12. CharOf(bytes, 8 * t + 6) = c(6)
  <2> DEFINE B3 == b(3)
             B4 == b(4)
             C4 == c(4)
             C5 == c(5)
             C6 == c(6)
             C7 == c(7)
  <2>1. C4 \in 0..31 /\ C5 \in 0..31 /\ C6 \in 0..31 /\ C7 \in 0..31
    BY <1>4
  <2>2. B3 = (C4 % 2) * 128 + C5 * 4 + C6 \div 8 /\ B4 = (C6 % 8) * 32 + C7
    BY <1>5
  <2>3. CharOf(bytes, 8 * t + 6) = (B3 % 4) * 8 + B4 \div 32
    BY CharsOfBlock
  <2> HIDE DEF B3, B4, C4, C5, C6, C7
  <2>4. SplitsByte(C4, C5, C6) /\ SplitsByte(C6, C7, C7)
    BY <2>1, ByteSplits
  <2>5. Joins(C6)
    <3>1. C6 \in 0..255
      BY <2>1
    <3>2. QED
      BY <3>1, Joined
  <2>6. (B3 % 4) * 8 + B4 \div 32 = C6
    BY <2>2, <2>4, <2>5 DEF Joins, SplitsByte
  <2>7. QED
    BY <2>3, <2>6 DEF C6
<1>13. CharOf(bytes, 8 * t + 7) = c(7)
  <2> DEFINE B4 == b(4)
             C6 == c(6)
             C7 == c(7)
  <2>1. C6 \in 0..31 /\ C7 \in 0..31
    BY <1>4
  <2>2. B4 = (C6 % 8) * 32 + C7
    BY <1>5
  <2>3. CharOf(bytes, 8 * t + 7) = B4 % 32
    BY CharsOfBlock
  <2> HIDE DEF B4, C6, C7
  <2>4. SplitsByte(C6, C7, C7)
    BY <2>1, ByteSplits
  <2>5. Joins(C7)
    <3>1. C7 \in 0..255
      BY <2>1
    <3>2. QED
      BY <3>1, Joined
  <2>6. B4 % 32 = C7
    BY <2>2, <2>4, <2>5 DEF Joins, SplitsByte
  <2>7. QED
    BY <2>3, <2>6 DEF C7
<1>14. k = 8 * t + 0 \/ k = 8 * t + 1 \/ k = 8 * t + 2 \/ k = 8 * t + 3
       \/ k = 8 * t + 4 \/ k = 8 * t + 5 \/ k = 8 * t + 6 \/ k = 8 * t + 7
  BY <1>2
<1>15. QED
  BY <1>6, <1>7, <1>8, <1>9, <1>10, <1>11, <1>12, <1>13, <1>14

\* Sequences that agree place by place.
LEMMA SameSequence ==
  ASSUME NEW S, NEW s \in Seq(S), NEW t \in Seq(S), Len(s) = Len(t),
         \A k \in 1..Len(s) : s[k] = t[k]
  PROVE  s = t
OBVIOUS

\* The lengths of both codecs.
LEMMA Lengths ==
  ASSUME NEW n \in Nat
  PROVE  /\ ((8 * n + 4) \div 5) % 8 \in {0, 2, 4, 5, 7}
         /\ (5 * ((8 * n + 4) \div 5)) \div 8 = n
         /\ \A k \in Nat : k >= (8 * n + 4) \div 5 => (5 * k) \div 8 >= n
<1> DEFINE len == (8 * n + 4) \div 5
<1>1. PICK t \in Nat, i \in 0..4 : n = 5 * t + i
  <2>1. n \div 5 \in Nat /\ n % 5 \in 0..4 /\ n = 5 * (n \div 5) + (n % 5)
    OBVIOUS
  <2>2. QED
    BY <2>1
<1>2. \/ n = 5 * t + 0 /\ len = 8 * t + 0
      \/ n = 5 * t + 1 /\ len = 8 * t + 2
      \/ n = 5 * t + 2 /\ len = 8 * t + 4
      \/ n = 5 * t + 3 /\ len = 8 * t + 5
      \/ n = 5 * t + 4 /\ len = 8 * t + 7
  BY <1>1
<1>3. len \in Nat /\ 5 * len >= 8 * n
  BY <1>2
<1> HIDE DEF len
<1>4. len % 8 \in {0, 2, 4, 5, 7}
  BY <1>2
<1>5. (5 * len) \div 8 = n
  BY <1>2
<1>6. ASSUME NEW k \in Nat, k >= len PROVE (5 * k) \div 8 >= n
  <2>1. 5 * k >= 8 * n
    BY <1>3, <1>6
  <2>2. QED
    BY <2>1
<1>7. QED
  BY <1>4, <1>5, <1>6 DEF len

\* The bytes are read back from their text.
LEMMA DecodeOfEncode ==
  ASSUME NEW bytes \in Seq(0..255)
  PROVE  base32_decode(base32_encode(bytes)) = Expected(bytes)
<1> DEFINE s == base32_encode(bytes)
           L == Len(bytes)
           r == base32_decode(s)
<1>1. s \in Seq(0..31) /\ Len(s) = (8 * L + 4) \div 5 /\ \A k \in 1..Len(s) : s[k] = CharOf(bytes, k - 1)
  BY EncodeIsExact DEF Encoding
<1>2. L \in Nat /\ Len(s) \in Nat
  BY <1>1
<1> HIDE DEF s, r, L
<1>3. \A m \in Nat : m >= L => ByteAt(bytes, m) = 0
  BY <1>2 DEF ByteAt, L
<1>4. ASSUME NEW k \in Nat PROVE CharAt(s, k) = CharOf(bytes, k)
  <2>1. CASE k < Len(s)
    <3>1. k + 1 \in 1..Len(s) /\ k + 1 - 1 = k
      BY <1>2, <2>1
    <3>2. s[k + 1] = CharOf(bytes, k)
      BY <1>1, <3>1
    <3>3. QED
      BY <2>1, <3>2 DEF CharAt
  <2>2. CASE ~(k < Len(s))
    <3> DEFINE q == (5 * k) \div 8
               i == (5 * k) % 8
    <3>1. k >= (8 * L + 4) \div 5
      BY <1>1, <1>2, <2>2
    <3>2. q >= L
      BY <1>2, <3>1, Lengths
    <3>3. q \in Nat /\ i \in 0..7
      OBVIOUS
    <3>4. CharOf(bytes, k) = FiveBits(ByteAt(bytes, q), ByteAt(bytes, q + 1), i)
      BY Zenon DEF CharOf
    <3> HIDE DEF q, i
    <3>5. CharOf(bytes, k) = FiveBits(0, 0, i)
      <4>1. q + 1 \in Nat /\ q + 1 >= L
        BY <1>2, <3>2, <3>3
      <4>2. ByteAt(bytes, q) = 0 /\ ByteAt(bytes, q + 1) = 0
        BY <1>3, <3>2, <3>3, <4>1
      <4>3. QED
        BY <3>4, <4>2
    <3>6. FiveBits(0, 0, i) = 0
      BY <3>3 DEF FiveBits
    <3>7. QED
      BY <2>2, <3>5, <3>6 DEF CharAt
  <2>3. QED
    BY <2>1, <2>2
<1>5. \A m \in Nat : ByteOf(s, m) = ByteAt(bytes, m)
  BY <1>1, <1>4, BytesOfChars
<1>6. Len(s) % 8 \in {0, 2, 4, 5, 7} /\ (5 * Len(s)) \div 8 = L
  BY <1>1, <1>2, Lengths
<1>7. Clean(s)
  <2>1. ByteOf(s, L) = 0
    BY <1>2, <1>3, <1>5
  <2>2. QED
    BY <1>6, <2>1 DEF Clean
<1>8. Decoding(s, r)
  BY <1>1, DecodeIsExact DEF r
<1>9. r = Expected(r.value) /\ r.value \in Seq(0..255) /\ Len(r.value) = L
      /\ \A k \in 1..L : r.value[k] = ByteOf(s, k - 1)
  BY <1>6, <1>7, <1>8 DEF Decoding
<1>10. ASSUME NEW k \in 1..L PROVE r.value[k] = bytes[k]
  <2>1. k - 1 \in Nat /\ k - 1 < Len(bytes) /\ k - 1 + 1 = k
    BY <1>2 DEF L
  <2>2. ByteOf(s, k - 1) = bytes[k]
    BY <1>5, <2>1 DEF ByteAt
  <2>3. QED
    BY <1>9, <2>2
<1>11. r.value = bytes
  <2> DEFINE v == r.value
  <2>1. v \in Seq(0..255) /\ Len(v) = Len(bytes) /\ \A k \in 1..Len(v) : v[k] = bytes[k]
    BY <1>9, <1>10 DEF L
  <2> HIDE DEF v
  <2>2. v = bytes
    BY <2>1, SameSequence
  <2>3. QED
    BY <2>2 DEF v
<1>12. QED
  BY <1>9, <1>11 DEF r, s

\* A text that is accepted is the text of the bytes that are read from it.
ReadBack(s, r) ==
  r.ok => /\ r = Expected(r.value) /\ r.value \in Seq(0..255)
          /\ Len(r.value) = (5 * Len(s)) \div 8
          /\ base32_encode(r.value) = s

\* Text that is accepted is what encoding its bytes writes: no two texts are one key.
LEMMA EncodeOfDecode ==
  ASSUME NEW s \in Seq(0..Other)
  PROVE  ReadBack(s, base32_decode(s))
<1> DEFINE r == base32_decode(s)
           n == Len(s)
<1> SUFFICES ASSUME r.ok
             PROVE  /\ r = Expected(r.value) /\ r.value \in Seq(0..255)
                    /\ Len(r.value) = (5 * n) \div 8
                    /\ base32_encode(r.value) = s
  BY DEF ReadBack
<1>1. s \in Seq(0..31)
  <2>1. ASSUME NEW k \in 1..n PROVE s[k] \in 0..31
    <3>1. s[k] \in 0..32
      BY ElementOfSeq, Zenon DEF Other, AlphabetSize
    <3>2. s[k] # Other
      <4> SUFFICES ASSUME s[k] = Other PROVE FALSE
        OBVIOUS
      <4>1. \E j \in 1..Len(s) : s[j] = Other
        OBVIOUS
      <4>2. r = Unexpected("invalid_length") \/ r = Unexpected("invalid_char")
        BY <4>1, Zenon DEF base32_decode
      <4> HIDE DEF r
      <4>3. QED
        BY <4>2 DEF Unexpected
    <3>3. QED
      BY <3>1, <3>2 DEF Other, AlphabetSize
  <2>2. s = [k \in 1..n |-> s[k]] /\ n \in Nat
    OBVIOUS
  <2>3. [k \in 1..n |-> s[k]] \in Seq(0..31)
    <3>1. n \in Nat /\ \A k \in 1..n : s[k] \in 0..31
      BY <2>1, <2>2
    <3> HIDE DEF n
    <3>2. QED
      BY <3>1
  <2>4. QED
    BY <2>2, <2>3
<1>2. n \in Nat
  OBVIOUS
<1>3. Decoding(s, r)
  BY <1>1, DecodeIsExact
<1> HIDE DEF r, n
<1> DEFINE out == r.value
           L == (5 * n) \div 8
<1>4. /\ Clean(s)
      /\ r = Expected(out) /\ out \in Seq(0..255) /\ Len(out) = L
      /\ \A k \in 1..Len(out) : out[k] = ByteOf(s, k - 1)
  BY <1>3 DEF Decoding, n
<1>5. n % 8 \in {0, 2, 4, 5, 7} /\ ByteOf(s, L) = 0
  BY <1>4 DEF Clean, n
<1>6. L \in Nat /\ 8 * L + 8 > 5 * n
  BY <1>2
<1> HIDE DEF out, L
<1>7. \A k \in Nat : k >= n => CharAt(s, k) = 0
  BY <1>1, NoCharAt DEF n
<1>8. ASSUME NEW m \in Nat PROVE ByteAt(out, m) = ByteOf(s, m)
  <2>1. CASE m < L
    <3>1. m + 1 \in 1..Len(out) /\ m + 1 - 1 = m
      BY <1>4, <1>6, <2>1
    <3>2. QED
      BY <1>4, <2>1, <3>1 DEF ByteAt
  <2>2. CASE m = L
    BY <1>4, <1>5, <1>6, <2>2 DEF ByteAt
  <2>3. CASE m > L
    <3> DEFINE q == (8 * m) \div 5
    <3>1. q \in Nat /\ q >= n
      <4>1. 8 * m > 5 * n
        BY <1>2, <1>6, <2>3
      <4>2. QED
        BY <1>2, <4>1
    <3> DEFINE c(j) == CharAt(s, q + j)
    <3>2. c(0) = 0 /\ c(1) = 0 /\ c(2) = 0
      <4> HIDE DEF q
      <4>1. q + 0 \in Nat /\ q + 1 \in Nat /\ q + 2 \in Nat /\ q + 0 >= n /\ q + 1 >= n /\ q + 2 >= n
        BY <1>2, <3>1
      <4>2. QED
        BY <1>7, <4>1
    <3>3. m % 5 \in 0..4
      OBVIOUS
    <3>4. ByteOf(s, m) = 0
      <4> DEFINE i == m % 5
      <4>1. ByteOf(s, m) = CASE i = 0 -> c(0) * 8 + c(1) \div 4
                             [] i = 1 -> (c(0) % 4) * 64 + c(1) * 2 + c(2) \div 16
                             [] i = 2 -> (c(0) % 16) * 16 + c(1) \div 2
                             [] i = 3 -> (c(0) % 2) * 128 + c(1) * 4 + c(2) \div 8
                             [] i = 4 -> (c(0) % 8) * 32 + c(1)
        BY Zenon DEF ByteOf
      <4>2. i \in 0..4
        BY <3>3
      <4> HIDE DEF c, q, i
      <4>3. QED
        BY <3>2, <4>1, <4>2
    <3>5. QED
      BY <1>4, <1>6, <2>3, <3>4 DEF ByteAt
  <2>4. QED
    BY <1>6, <2>1, <2>2, <2>3
<1>9. \A k \in Nat : CharOf(out, k) = CharAt(s, k)
  BY <1>1, <1>4, <1>8, CharsOfBytes
<1> DEFINE e == base32_encode(out)
<1>10. e \in Seq(0..31) /\ Len(e) = (8 * L + 4) \div 5 /\ \A k \in 1..Len(e) : e[k] = CharOf(out, k - 1)
  BY <1>4, EncodeIsExact DEF Encoding
<1>11. (8 * L + 4) \div 5 = n
  <2>1. PICK t \in Nat :
          \/ n = 8 * t + 0 /\ L = 5 * t + 0 /\ (5 * n) % 8 = 0
          \/ n = 8 * t + 2 /\ L = 5 * t + 1 /\ (5 * n) % 8 = 2
          \/ n = 8 * t + 4 /\ L = 5 * t + 2 /\ (5 * n) % 8 = 4
          \/ n = 8 * t + 5 /\ L = 5 * t + 3 /\ (5 * n) % 8 = 1
          \/ n = 8 * t + 7 /\ L = 5 * t + 4 /\ (5 * n) % 8 = 3
    BY <1>2, <1>5, CharBlocks, Zenon DEF L
  <2>2. \/ 8 * L + 4 = 5 * n + 4 \/ 8 * L + 4 = 5 * n + 2 \/ 8 * L + 4 = 5 * n
        \/ 8 * L + 4 = 5 * n + 3 \/ 8 * L + 4 = 5 * n + 1
    BY <2>1
  <2> DEFINE x == 8 * L + 4
  <2>3. x \in 5 * n .. 5 * n + 4
    BY <1>2, <2>2
  <2> HIDE DEF x
  <2>4. x \div 5 = n
    BY <1>2, <2>3
  <2>5. QED
    BY <2>4 DEF x
<1> HIDE DEF e
<1>12. ASSUME NEW k \in 1..n PROVE e[k] = s[k]
  <2>1. k - 1 \in Nat /\ k - 1 < Len(s) /\ k - 1 + 1 = k
    BY <1>2 DEF n
  <2>2. CharOf(out, k - 1) = s[k]
    BY <1>9, <2>1 DEF CharAt
  <2>3. QED
    BY <1>10, <1>11, <2>2
<1>13. e = s
  <2>1. Len(e) = Len(s) /\ \A k \in 1..Len(e) : e[k] = s[k]
    BY <1>10, <1>11, <1>12 DEF n
  <2>2. QED
    BY <1>1, <1>10, <2>1, SameSequence
<1>14. QED
  BY <1>4, <1>13 DEF e, out, L

-----------------------------------------------------------------------------
(* Bits of characters *)

\* The bits of a byte, the lowest first.
Binary(x, b) ==
  /\ b \in [0..7 -> 0..1]
  /\ x = 128 * b[7] + 64 * b[6] + 32 * b[5] + 16 * b[4] + 8 * b[3] + 4 * b[2] + 2 * b[1] + b[0]

\* Every byte has eight bits.
LEMMA ByteHasBits ==
  ASSUME NEW x \in 0..255
  PROVE  \E b : Binary(x, b)
<1> DEFINE b0 == x % 2
           x1 == x \div 2
           b1 == x1 % 2
           x2 == x1 \div 2
           b2 == x2 % 2
           x3 == x2 \div 2
           b3 == x3 % 2
           x4 == x3 \div 2
           b4 == x4 % 2
           x5 == x4 \div 2
           b5 == x5 % 2
           x6 == x5 \div 2
           b6 == x6 % 2
           x7 == x6 \div 2
<1>1. b0 \in 0..1 /\ x1 \in 0..127 /\ x = 2 * x1 + b0
  OBVIOUS
<1> HIDE DEF b0, x1
<1>2. b1 \in 0..1 /\ x2 \in 0..63 /\ x1 = 2 * x2 + b1
  BY <1>1
<1> HIDE DEF b1, x2
<1>3. b2 \in 0..1 /\ x3 \in 0..31 /\ x2 = 2 * x3 + b2
  BY <1>2
<1> HIDE DEF b2, x3
<1>4. b3 \in 0..1 /\ x4 \in 0..15 /\ x3 = 2 * x4 + b3
  BY <1>3
<1> HIDE DEF b3, x4
<1>5. b4 \in 0..1 /\ x5 \in 0..7 /\ x4 = 2 * x5 + b4
  BY <1>4
<1> HIDE DEF b4, x5
<1>6. b5 \in 0..1 /\ x6 \in 0..3 /\ x5 = 2 * x6 + b5
  BY <1>5
<1> HIDE DEF b5, x6
<1>7. b6 \in 0..1 /\ x7 \in 0..1 /\ x6 = 2 * x7 + b6
  BY <1>6
<1> HIDE DEF b6, x7
<1> DEFINE b == [i \in 0..7 |-> CASE i = 0 -> b0 [] i = 1 -> b1 [] i = 2 -> b2 [] i = 3 -> b3
                                  [] i = 4 -> b4 [] i = 5 -> b5 [] i = 6 -> b6 [] i = 7 -> x7]
<1>8. b \in [0..7 -> 0..1]
  BY <1>1, <1>2, <1>3, <1>4, <1>5, <1>6, <1>7
<1>9. b[0] = b0 /\ b[1] = b1 /\ b[2] = b2 /\ b[3] = b3 /\ b[4] = b4 /\ b[5] = b5 /\ b[6] = b6 /\ b[7] = x7
  OBVIOUS
<1> HIDE DEF b
<1>10. Binary(x, b)
  <2>1. x = 128 * x7 + 64 * b6 + 32 * b5 + 16 * b4 + 8 * b3 + 4 * b2 + 2 * b1 + b0
    BY <1>1, <1>2, <1>3, <1>4, <1>5, <1>6, <1>7
  <2>2. QED
    BY <1>8, <1>9, <2>1 DEF Binary
<1>11. QED
  BY <1>10

\* What a byte shows, in its bits.
InBits(x, b) ==
  /\ (x \div 128) % 2 = b[7]
  /\ (x \div 64) % 2 = b[6]
  /\ (x \div 32) % 2 = b[5]
  /\ (x \div 16) % 2 = b[4]
  /\ (x \div 8) % 2 = b[3]
  /\ (x \div 4) % 2 = b[2]
  /\ (x \div 2) % 2 = b[1]
  /\ (x \div 1) % 2 = b[0]
  /\ x \div 8 = 16 * b[7] + 8 * b[6] + 4 * b[5] + 2 * b[4] + b[3]
  /\ x \div 16 = 8 * b[7] + 4 * b[6] + 2 * b[5] + b[4]
  /\ x \div 32 = 4 * b[7] + 2 * b[6] + b[5]
  /\ x \div 64 = 2 * b[7] + b[6]
  /\ x \div 128 = b[7]
  /\ (x \div 4) % 32 = 16 * b[6] + 8 * b[5] + 4 * b[4] + 2 * b[3] + b[2]
  /\ (x \div 2) % 32 = 16 * b[5] + 8 * b[4] + 4 * b[3] + 2 * b[2] + b[1]
  /\ x % 32 = 16 * b[4] + 8 * b[3] + 4 * b[2] + 2 * b[1] + b[0]
  /\ x % 16 = 8 * b[3] + 4 * b[2] + 2 * b[1] + b[0]
  /\ x % 8 = 4 * b[2] + 2 * b[1] + b[0]
  /\ x % 4 = 2 * b[1] + b[0]
  /\ x % 2 = b[0]

\* The parts of a byte that shifts and masks select, by its bits.
LEMMA BinaryShows ==
  ASSUME NEW x, NEW b, Binary(x, b)
  PROVE  InBits(x, b)
<1> DEFINE b0 == b[0]
           b1 == b[1]
           b2 == b[2]
           b3 == b[3]
           b4 == b[4]
           b5 == b[5]
           b6 == b[6]
           b7 == b[7]
<1>1. b0 \in 0..1 /\ b1 \in 0..1 /\ b2 \in 0..1 /\ b3 \in 0..1
      /\ b4 \in 0..1 /\ b5 \in 0..1 /\ b6 \in 0..1 /\ b7 \in 0..1
      /\ x = 128 * b7 + 64 * b6 + 32 * b5 + 16 * b4 + 8 * b3 + 4 * b2 + 2 * b1 + b0
  BY DEF Binary
<1> HIDE DEF b0, b1, b2, b3, b4, b5, b6, b7
<1>2. (x \div 128) % 2 = b7
  BY <1>1
<1>3. (x \div 64) % 2 = b6
  BY <1>1
<1>4. (x \div 32) % 2 = b5
  BY <1>1
<1>5. (x \div 16) % 2 = b4
  BY <1>1
<1>6. (x \div 8) % 2 = b3
  BY <1>1
<1>7. (x \div 4) % 2 = b2
  BY <1>1
<1>8. (x \div 2) % 2 = b1
  BY <1>1
<1>9. (x \div 1) % 2 = b0
  <2>1. x \div 1 = x
    BY <1>1
  <2>2. QED
    BY <1>1, <2>1
<1>10. x \div 8 = 16 * b7 + 8 * b6 + 4 * b5 + 2 * b4 + b3
  BY <1>1
<1>11. x \div 16 = 8 * b7 + 4 * b6 + 2 * b5 + b4
  BY <1>1
<1>12. x \div 32 = 4 * b7 + 2 * b6 + b5
  BY <1>1
<1>13. x \div 64 = 2 * b7 + b6
  BY <1>1
<1>14. x \div 128 = b7
  BY <1>1
<1>15. (x \div 4) % 32 = 16 * b6 + 8 * b5 + 4 * b4 + 2 * b3 + b2
  <2>1. x \div 4 = 32 * b7 + 16 * b6 + 8 * b5 + 4 * b4 + 2 * b3 + b2
    BY <1>1
  <2>2. QED
    BY <1>1, <2>1
<1>16. (x \div 2) % 32 = 16 * b5 + 8 * b4 + 4 * b3 + 2 * b2 + b1
  <2>1. x \div 2 = 64 * b7 + 32 * b6 + 16 * b5 + 8 * b4 + 4 * b3 + 2 * b2 + b1
    BY <1>1
  <2>2. QED
    BY <1>1, <2>1
<1>17. x % 32 = 16 * b4 + 8 * b3 + 4 * b2 + 2 * b1 + b0
  BY <1>1
<1>18. x % 16 = 8 * b3 + 4 * b2 + 2 * b1 + b0
  BY <1>1
<1>19. x % 8 = 4 * b2 + 2 * b1 + b0
  BY <1>1
<1>20. x % 4 = 2 * b1 + b0
  BY <1>1
<1>21. x % 2 = b0
  BY <1>1
<1>22. QED
  BY <1>2, <1>3, <1>4, <1>5, <1>6, <1>7, <1>8, <1>9, <1>10, <1>11, <1>12, <1>13, <1>14,
     <1>15, <1>16, <1>17, <1>18, <1>19, <1>20, <1>21 DEF InBits, b0, b1, b2, b3, b4, b5, b6, b7

\* Bit j of a character is this bit of its two bytes.
BitOf(x, y2, r, j) ==
  IF r + j < 8 THEN (x \div Shift[7 - (r + j)]) % 2 ELSE (y2 \div Shift[15 - (r + j)]) % 2

\* The five bits of a character.
LEMMA CharBits ==
  ASSUME NEW c, NEW c4 \in 0..1, NEW c3 \in 0..1, NEW c2 \in 0..1, NEW c1 \in 0..1, NEW c0 \in 0..1,
         c = 16 * c4 + 8 * c3 + 4 * c2 + 2 * c1 + c0
  PROVE  /\ CharBit(c, 0) = c4 /\ CharBit(c, 1) = c3 /\ CharBit(c, 2) = c2 /\ CharBit(c, 3) = c1
         /\ CharBit(c, 4) = c0
<1>1. /\ CharBit(c, 0) = (c \div 16) % 2 /\ CharBit(c, 1) = (c \div 8) % 2
      /\ CharBit(c, 2) = (c \div 4) % 2 /\ CharBit(c, 3) = (c \div 2) % 2
      /\ CharBit(c, 4) = (c \div 1) % 2
  BY SmallShifts DEF CharBit
<1>2. (c \div 16) % 2 = c4
  OBVIOUS
<1>3. (c \div 8) % 2 = c3
  OBVIOUS
<1>4. (c \div 4) % 2 = c2
  OBVIOUS
<1>5. (c \div 2) % 2 = c1
  OBVIOUS
<1>6. (c \div 1) % 2 = c0
  <2>1. c \div 1 = c
    OBVIOUS
  <2>2. QED
    BY <2>1
<1>7. QED
  BY <1>1, <1>2, <1>3, <1>4, <1>5, <1>6

\* The bits of five bits of two bytes are bits of the bytes.
LEMMA BitsOfFiveBits ==
  ASSUME NEW x \in 0..255, NEW y2 \in 0..255, NEW r \in 0..7
  PROVE  \A j \in 0..4 : CharBit(FiveBits(x, y2, r), j) = BitOf(x, y2, r, j)
<1> DEFINE c == FiveBits(x, y2, r)
<1> SUFFICES /\ CharBit(c, 0) = BitOf(x, y2, r, 0) /\ CharBit(c, 1) = BitOf(x, y2, r, 1)
             /\ CharBit(c, 2) = BitOf(x, y2, r, 2) /\ CharBit(c, 3) = BitOf(x, y2, r, 3)
             /\ CharBit(c, 4) = BitOf(x, y2, r, 4)
  <2>1. \A j \in 0..4 : j = 0 \/ j = 1 \/ j = 2 \/ j = 3 \/ j = 4
    OBVIOUS
  <2> HIDE DEF c
  <2>2. QED
    BY <2>1 DEF c
<1>1. PICK b : Binary(x, b)
  BY ByteHasBits
<1>2. PICK d : Binary(y2, d)
  BY ByteHasBits
<1>3. InBits(x, b) /\ InBits(y2, d)
  BY <1>1, <1>2, BinaryShows
<1>4. b \in [0..7 -> 0..1] /\ d \in [0..7 -> 0..1]
  BY <1>1, <1>2 DEF Binary
<1>5. \A i \in 0..7 : b[i] \in 0..1 /\ d[i] \in 0..1
  BY <1>4
<1>6. CASE r = 0
  <2>1. c = x \div 8
    BY <1>6 DEF FiveBits
  <2> DEFINE c4 == b[7]
             c3 == b[6]
             c2 == b[5]
             c1 == b[4]
             c0 == b[3]
  <2>2. c4 \in 0..1 /\ c3 \in 0..1 /\ c2 \in 0..1 /\ c1 \in 0..1 /\ c0 \in 0..1
    BY <1>5
  <2> HIDE DEF c, c4, c3, c2, c1, c0
  <2>3. x \div 8 = 16 * c4 + 8 * c3 + 4 * c2 + 2 * c1 + c0
    BY <1>3 DEF InBits, c4, c3, c2, c1, c0
  <2>4. c = 16 * c4 + 8 * c3 + 4 * c2 + 2 * c1 + c0
    BY <2>1, <2>3
  <2>5. CharBit(c, 0) = c4 /\ CharBit(c, 1) = c3 /\ CharBit(c, 2) = c2 /\ CharBit(c, 3) = c1 /\ CharBit(c, 4) = c0
    BY <2>2, <2>4, CharBits
  <2>6. BitOf(x, y2, r, 0) = c4
    <3>1. BitOf(x, y2, r, 0) = (x \div Shift[7]) % 2
      BY <1>6 DEF BitOf
    <3>2. Shift[7] = 128 /\ (x \div 128) % 2 = c4
      BY <1>3, SmallShifts DEF InBits, c4
    <3>3. QED
      BY <3>1, <3>2
  <2>7. BitOf(x, y2, r, 1) = c3
    <3>1. BitOf(x, y2, r, 1) = (x \div Shift[6]) % 2
      BY <1>6 DEF BitOf
    <3>2. Shift[6] = 64 /\ (x \div 64) % 2 = c3
      BY <1>3, SmallShifts DEF InBits, c3
    <3>3. QED
      BY <3>1, <3>2
  <2>8. BitOf(x, y2, r, 2) = c2
    <3>1. BitOf(x, y2, r, 2) = (x \div Shift[5]) % 2
      BY <1>6 DEF BitOf
    <3>2. Shift[5] = 32 /\ (x \div 32) % 2 = c2
      BY <1>3, SmallShifts DEF InBits, c2
    <3>3. QED
      BY <3>1, <3>2
  <2>9. BitOf(x, y2, r, 3) = c1
    <3>1. BitOf(x, y2, r, 3) = (x \div Shift[4]) % 2
      BY <1>6 DEF BitOf
    <3>2. Shift[4] = 16 /\ (x \div 16) % 2 = c1
      BY <1>3, SmallShifts DEF InBits, c1
    <3>3. QED
      BY <3>1, <3>2
  <2>10. BitOf(x, y2, r, 4) = c0
    <3>1. BitOf(x, y2, r, 4) = (x \div Shift[3]) % 2
      BY <1>6 DEF BitOf
    <3>2. Shift[3] = 8 /\ (x \div 8) % 2 = c0
      BY <1>3, SmallShifts DEF InBits, c0
    <3>3. QED
      BY <3>1, <3>2
  <2>11. QED
    BY <2>5, <2>6, <2>7, <2>8, <2>9, <2>10
<1>7. CASE r = 1
  <2>1. c = (x \div 4) % 32
    BY <1>7 DEF FiveBits
  <2> DEFINE c4 == b[6]
             c3 == b[5]
             c2 == b[4]
             c1 == b[3]
             c0 == b[2]
  <2>2. c4 \in 0..1 /\ c3 \in 0..1 /\ c2 \in 0..1 /\ c1 \in 0..1 /\ c0 \in 0..1
    BY <1>5
  <2> HIDE DEF c, c4, c3, c2, c1, c0
  <2>3. (x \div 4) % 32 = 16 * c4 + 8 * c3 + 4 * c2 + 2 * c1 + c0
    BY <1>3 DEF InBits, c4, c3, c2, c1, c0
  <2>4. c = 16 * c4 + 8 * c3 + 4 * c2 + 2 * c1 + c0
    BY <2>1, <2>3
  <2>5. CharBit(c, 0) = c4 /\ CharBit(c, 1) = c3 /\ CharBit(c, 2) = c2 /\ CharBit(c, 3) = c1 /\ CharBit(c, 4) = c0
    BY <2>2, <2>4, CharBits
  <2>6. BitOf(x, y2, r, 0) = c4
    <3>1. BitOf(x, y2, r, 0) = (x \div Shift[6]) % 2
      BY <1>7 DEF BitOf
    <3>2. Shift[6] = 64 /\ (x \div 64) % 2 = c4
      BY <1>3, SmallShifts DEF InBits, c4
    <3>3. QED
      BY <3>1, <3>2
  <2>7. BitOf(x, y2, r, 1) = c3
    <3>1. BitOf(x, y2, r, 1) = (x \div Shift[5]) % 2
      BY <1>7 DEF BitOf
    <3>2. Shift[5] = 32 /\ (x \div 32) % 2 = c3
      BY <1>3, SmallShifts DEF InBits, c3
    <3>3. QED
      BY <3>1, <3>2
  <2>8. BitOf(x, y2, r, 2) = c2
    <3>1. BitOf(x, y2, r, 2) = (x \div Shift[4]) % 2
      BY <1>7 DEF BitOf
    <3>2. Shift[4] = 16 /\ (x \div 16) % 2 = c2
      BY <1>3, SmallShifts DEF InBits, c2
    <3>3. QED
      BY <3>1, <3>2
  <2>9. BitOf(x, y2, r, 3) = c1
    <3>1. BitOf(x, y2, r, 3) = (x \div Shift[3]) % 2
      BY <1>7 DEF BitOf
    <3>2. Shift[3] = 8 /\ (x \div 8) % 2 = c1
      BY <1>3, SmallShifts DEF InBits, c1
    <3>3. QED
      BY <3>1, <3>2
  <2>10. BitOf(x, y2, r, 4) = c0
    <3>1. BitOf(x, y2, r, 4) = (x \div Shift[2]) % 2
      BY <1>7 DEF BitOf
    <3>2. Shift[2] = 4 /\ (x \div 4) % 2 = c0
      BY <1>3, SmallShifts DEF InBits, c0
    <3>3. QED
      BY <3>1, <3>2
  <2>11. QED
    BY <2>5, <2>6, <2>7, <2>8, <2>9, <2>10
<1>8. CASE r = 2
  <2>1. c = (x \div 2) % 32
    BY <1>8 DEF FiveBits
  <2> DEFINE c4 == b[5]
             c3 == b[4]
             c2 == b[3]
             c1 == b[2]
             c0 == b[1]
  <2>2. c4 \in 0..1 /\ c3 \in 0..1 /\ c2 \in 0..1 /\ c1 \in 0..1 /\ c0 \in 0..1
    BY <1>5
  <2> HIDE DEF c, c4, c3, c2, c1, c0
  <2>3. (x \div 2) % 32 = 16 * c4 + 8 * c3 + 4 * c2 + 2 * c1 + c0
    BY <1>3 DEF InBits, c4, c3, c2, c1, c0
  <2>4. c = 16 * c4 + 8 * c3 + 4 * c2 + 2 * c1 + c0
    BY <2>1, <2>3
  <2>5. CharBit(c, 0) = c4 /\ CharBit(c, 1) = c3 /\ CharBit(c, 2) = c2 /\ CharBit(c, 3) = c1 /\ CharBit(c, 4) = c0
    BY <2>2, <2>4, CharBits
  <2>6. BitOf(x, y2, r, 0) = c4
    <3>1. BitOf(x, y2, r, 0) = (x \div Shift[5]) % 2
      BY <1>8 DEF BitOf
    <3>2. Shift[5] = 32 /\ (x \div 32) % 2 = c4
      BY <1>3, SmallShifts DEF InBits, c4
    <3>3. QED
      BY <3>1, <3>2
  <2>7. BitOf(x, y2, r, 1) = c3
    <3>1. BitOf(x, y2, r, 1) = (x \div Shift[4]) % 2
      BY <1>8 DEF BitOf
    <3>2. Shift[4] = 16 /\ (x \div 16) % 2 = c3
      BY <1>3, SmallShifts DEF InBits, c3
    <3>3. QED
      BY <3>1, <3>2
  <2>8. BitOf(x, y2, r, 2) = c2
    <3>1. BitOf(x, y2, r, 2) = (x \div Shift[3]) % 2
      BY <1>8 DEF BitOf
    <3>2. Shift[3] = 8 /\ (x \div 8) % 2 = c2
      BY <1>3, SmallShifts DEF InBits, c2
    <3>3. QED
      BY <3>1, <3>2
  <2>9. BitOf(x, y2, r, 3) = c1
    <3>1. BitOf(x, y2, r, 3) = (x \div Shift[2]) % 2
      BY <1>8 DEF BitOf
    <3>2. Shift[2] = 4 /\ (x \div 4) % 2 = c1
      BY <1>3, SmallShifts DEF InBits, c1
    <3>3. QED
      BY <3>1, <3>2
  <2>10. BitOf(x, y2, r, 4) = c0
    <3>1. BitOf(x, y2, r, 4) = (x \div Shift[1]) % 2
      BY <1>8 DEF BitOf
    <3>2. Shift[1] = 2 /\ (x \div 2) % 2 = c0
      BY <1>3, SmallShifts DEF InBits, c0
    <3>3. QED
      BY <3>1, <3>2
  <2>11. QED
    BY <2>5, <2>6, <2>7, <2>8, <2>9, <2>10
<1>9. CASE r = 3
  <2>1. c = x % 32
    BY <1>9 DEF FiveBits
  <2> DEFINE c4 == b[4]
             c3 == b[3]
             c2 == b[2]
             c1 == b[1]
             c0 == b[0]
  <2>2. c4 \in 0..1 /\ c3 \in 0..1 /\ c2 \in 0..1 /\ c1 \in 0..1 /\ c0 \in 0..1
    BY <1>5
  <2> HIDE DEF c, c4, c3, c2, c1, c0
  <2>3. x % 32 = 16 * c4 + 8 * c3 + 4 * c2 + 2 * c1 + c0
    BY <1>3 DEF InBits, c4, c3, c2, c1, c0
  <2>4. c = 16 * c4 + 8 * c3 + 4 * c2 + 2 * c1 + c0
    BY <2>1, <2>3
  <2>5. CharBit(c, 0) = c4 /\ CharBit(c, 1) = c3 /\ CharBit(c, 2) = c2 /\ CharBit(c, 3) = c1 /\ CharBit(c, 4) = c0
    BY <2>2, <2>4, CharBits
  <2>6. BitOf(x, y2, r, 0) = c4
    <3>1. BitOf(x, y2, r, 0) = (x \div Shift[4]) % 2
      BY <1>9 DEF BitOf
    <3>2. Shift[4] = 16 /\ (x \div 16) % 2 = c4
      BY <1>3, SmallShifts DEF InBits, c4
    <3>3. QED
      BY <3>1, <3>2
  <2>7. BitOf(x, y2, r, 1) = c3
    <3>1. BitOf(x, y2, r, 1) = (x \div Shift[3]) % 2
      BY <1>9 DEF BitOf
    <3>2. Shift[3] = 8 /\ (x \div 8) % 2 = c3
      BY <1>3, SmallShifts DEF InBits, c3
    <3>3. QED
      BY <3>1, <3>2
  <2>8. BitOf(x, y2, r, 2) = c2
    <3>1. BitOf(x, y2, r, 2) = (x \div Shift[2]) % 2
      BY <1>9 DEF BitOf
    <3>2. Shift[2] = 4 /\ (x \div 4) % 2 = c2
      BY <1>3, SmallShifts DEF InBits, c2
    <3>3. QED
      BY <3>1, <3>2
  <2>9. BitOf(x, y2, r, 3) = c1
    <3>1. BitOf(x, y2, r, 3) = (x \div Shift[1]) % 2
      BY <1>9 DEF BitOf
    <3>2. Shift[1] = 2 /\ (x \div 2) % 2 = c1
      BY <1>3, SmallShifts DEF InBits, c1
    <3>3. QED
      BY <3>1, <3>2
  <2>10. BitOf(x, y2, r, 4) = c0
    <3>1. BitOf(x, y2, r, 4) = (x \div Shift[0]) % 2
      BY <1>9 DEF BitOf
    <3>2. Shift[0] = 1 /\ (x \div 1) % 2 = c0
      BY <1>3, SmallShifts DEF InBits, c0
    <3>3. QED
      BY <3>1, <3>2
  <2>11. QED
    BY <2>5, <2>6, <2>7, <2>8, <2>9, <2>10
<1>10. CASE r = 4
  <2>1. c = (x % 16) * 2 + y2 \div 128
    BY <1>10 DEF FiveBits
  <2> DEFINE c4 == b[3]
             c3 == b[2]
             c2 == b[1]
             c1 == b[0]
             c0 == d[7]
  <2>2. c4 \in 0..1 /\ c3 \in 0..1 /\ c2 \in 0..1 /\ c1 \in 0..1 /\ c0 \in 0..1
    BY <1>5
  <2> HIDE DEF c, c4, c3, c2, c1, c0
  <2>3. x % 16 = 8 * c4 + 4 * c3 + 2 * c2 + c1 /\ y2 \div 128 = c0
    BY <1>3 DEF InBits, c4, c3, c2, c1, c0
  <2>4. c = 16 * c4 + 8 * c3 + 4 * c2 + 2 * c1 + c0
    <3>1. c = (8 * c4 + 4 * c3 + 2 * c2 + c1) * 2 + (c0)
      BY <2>1, <2>3
    <3>2. QED
      BY <2>2, <3>1
  <2>5. CharBit(c, 0) = c4 /\ CharBit(c, 1) = c3 /\ CharBit(c, 2) = c2 /\ CharBit(c, 3) = c1 /\ CharBit(c, 4) = c0
    BY <2>2, <2>4, CharBits
  <2>6. BitOf(x, y2, r, 0) = c4
    <3>1. BitOf(x, y2, r, 0) = (x \div Shift[3]) % 2
      BY <1>10 DEF BitOf
    <3>2. Shift[3] = 8 /\ (x \div 8) % 2 = c4
      BY <1>3, SmallShifts DEF InBits, c4
    <3>3. QED
      BY <3>1, <3>2
  <2>7. BitOf(x, y2, r, 1) = c3
    <3>1. BitOf(x, y2, r, 1) = (x \div Shift[2]) % 2
      BY <1>10 DEF BitOf
    <3>2. Shift[2] = 4 /\ (x \div 4) % 2 = c3
      BY <1>3, SmallShifts DEF InBits, c3
    <3>3. QED
      BY <3>1, <3>2
  <2>8. BitOf(x, y2, r, 2) = c2
    <3>1. BitOf(x, y2, r, 2) = (x \div Shift[1]) % 2
      BY <1>10 DEF BitOf
    <3>2. Shift[1] = 2 /\ (x \div 2) % 2 = c2
      BY <1>3, SmallShifts DEF InBits, c2
    <3>3. QED
      BY <3>1, <3>2
  <2>9. BitOf(x, y2, r, 3) = c1
    <3>1. BitOf(x, y2, r, 3) = (x \div Shift[0]) % 2
      BY <1>10 DEF BitOf
    <3>2. Shift[0] = 1 /\ (x \div 1) % 2 = c1
      BY <1>3, SmallShifts DEF InBits, c1
    <3>3. QED
      BY <3>1, <3>2
  <2>10. BitOf(x, y2, r, 4) = c0
    <3>1. BitOf(x, y2, r, 4) = (y2 \div Shift[7]) % 2
      BY <1>10 DEF BitOf
    <3>2. Shift[7] = 128 /\ (y2 \div 128) % 2 = c0
      BY <1>3, SmallShifts DEF InBits, c0
    <3>3. QED
      BY <3>1, <3>2
  <2>11. QED
    BY <2>5, <2>6, <2>7, <2>8, <2>9, <2>10
<1>11. CASE r = 5
  <2>1. c = (x % 8) * 4 + y2 \div 64
    BY <1>11 DEF FiveBits
  <2> DEFINE c4 == b[2]
             c3 == b[1]
             c2 == b[0]
             c1 == d[7]
             c0 == d[6]
  <2>2. c4 \in 0..1 /\ c3 \in 0..1 /\ c2 \in 0..1 /\ c1 \in 0..1 /\ c0 \in 0..1
    BY <1>5
  <2> HIDE DEF c, c4, c3, c2, c1, c0
  <2>3. x % 8 = 4 * c4 + 2 * c3 + c2 /\ y2 \div 64 = 2 * c1 + c0
    BY <1>3 DEF InBits, c4, c3, c2, c1, c0
  <2>4. c = 16 * c4 + 8 * c3 + 4 * c2 + 2 * c1 + c0
    <3>1. c = (4 * c4 + 2 * c3 + c2) * 4 + (2 * c1 + c0)
      BY <2>1, <2>3
    <3>2. QED
      BY <2>2, <3>1
  <2>5. CharBit(c, 0) = c4 /\ CharBit(c, 1) = c3 /\ CharBit(c, 2) = c2 /\ CharBit(c, 3) = c1 /\ CharBit(c, 4) = c0
    BY <2>2, <2>4, CharBits
  <2>6. BitOf(x, y2, r, 0) = c4
    <3>1. BitOf(x, y2, r, 0) = (x \div Shift[2]) % 2
      BY <1>11 DEF BitOf
    <3>2. Shift[2] = 4 /\ (x \div 4) % 2 = c4
      BY <1>3, SmallShifts DEF InBits, c4
    <3>3. QED
      BY <3>1, <3>2
  <2>7. BitOf(x, y2, r, 1) = c3
    <3>1. BitOf(x, y2, r, 1) = (x \div Shift[1]) % 2
      BY <1>11 DEF BitOf
    <3>2. Shift[1] = 2 /\ (x \div 2) % 2 = c3
      BY <1>3, SmallShifts DEF InBits, c3
    <3>3. QED
      BY <3>1, <3>2
  <2>8. BitOf(x, y2, r, 2) = c2
    <3>1. BitOf(x, y2, r, 2) = (x \div Shift[0]) % 2
      BY <1>11 DEF BitOf
    <3>2. Shift[0] = 1 /\ (x \div 1) % 2 = c2
      BY <1>3, SmallShifts DEF InBits, c2
    <3>3. QED
      BY <3>1, <3>2
  <2>9. BitOf(x, y2, r, 3) = c1
    <3>1. BitOf(x, y2, r, 3) = (y2 \div Shift[7]) % 2
      BY <1>11 DEF BitOf
    <3>2. Shift[7] = 128 /\ (y2 \div 128) % 2 = c1
      BY <1>3, SmallShifts DEF InBits, c1
    <3>3. QED
      BY <3>1, <3>2
  <2>10. BitOf(x, y2, r, 4) = c0
    <3>1. BitOf(x, y2, r, 4) = (y2 \div Shift[6]) % 2
      BY <1>11 DEF BitOf
    <3>2. Shift[6] = 64 /\ (y2 \div 64) % 2 = c0
      BY <1>3, SmallShifts DEF InBits, c0
    <3>3. QED
      BY <3>1, <3>2
  <2>11. QED
    BY <2>5, <2>6, <2>7, <2>8, <2>9, <2>10
<1>12. CASE r = 6
  <2>1. c = (x % 4) * 8 + y2 \div 32
    BY <1>12 DEF FiveBits
  <2> DEFINE c4 == b[1]
             c3 == b[0]
             c2 == d[7]
             c1 == d[6]
             c0 == d[5]
  <2>2. c4 \in 0..1 /\ c3 \in 0..1 /\ c2 \in 0..1 /\ c1 \in 0..1 /\ c0 \in 0..1
    BY <1>5
  <2> HIDE DEF c, c4, c3, c2, c1, c0
  <2>3. x % 4 = 2 * c4 + c3 /\ y2 \div 32 = 4 * c2 + 2 * c1 + c0
    BY <1>3 DEF InBits, c4, c3, c2, c1, c0
  <2>4. c = 16 * c4 + 8 * c3 + 4 * c2 + 2 * c1 + c0
    <3>1. c = (2 * c4 + c3) * 8 + (4 * c2 + 2 * c1 + c0)
      BY <2>1, <2>3
    <3>2. QED
      BY <2>2, <3>1
  <2>5. CharBit(c, 0) = c4 /\ CharBit(c, 1) = c3 /\ CharBit(c, 2) = c2 /\ CharBit(c, 3) = c1 /\ CharBit(c, 4) = c0
    BY <2>2, <2>4, CharBits
  <2>6. BitOf(x, y2, r, 0) = c4
    <3>1. BitOf(x, y2, r, 0) = (x \div Shift[1]) % 2
      BY <1>12 DEF BitOf
    <3>2. Shift[1] = 2 /\ (x \div 2) % 2 = c4
      BY <1>3, SmallShifts DEF InBits, c4
    <3>3. QED
      BY <3>1, <3>2
  <2>7. BitOf(x, y2, r, 1) = c3
    <3>1. BitOf(x, y2, r, 1) = (x \div Shift[0]) % 2
      BY <1>12 DEF BitOf
    <3>2. Shift[0] = 1 /\ (x \div 1) % 2 = c3
      BY <1>3, SmallShifts DEF InBits, c3
    <3>3. QED
      BY <3>1, <3>2
  <2>8. BitOf(x, y2, r, 2) = c2
    <3>1. BitOf(x, y2, r, 2) = (y2 \div Shift[7]) % 2
      BY <1>12 DEF BitOf
    <3>2. Shift[7] = 128 /\ (y2 \div 128) % 2 = c2
      BY <1>3, SmallShifts DEF InBits, c2
    <3>3. QED
      BY <3>1, <3>2
  <2>9. BitOf(x, y2, r, 3) = c1
    <3>1. BitOf(x, y2, r, 3) = (y2 \div Shift[6]) % 2
      BY <1>12 DEF BitOf
    <3>2. Shift[6] = 64 /\ (y2 \div 64) % 2 = c1
      BY <1>3, SmallShifts DEF InBits, c1
    <3>3. QED
      BY <3>1, <3>2
  <2>10. BitOf(x, y2, r, 4) = c0
    <3>1. BitOf(x, y2, r, 4) = (y2 \div Shift[5]) % 2
      BY <1>12 DEF BitOf
    <3>2. Shift[5] = 32 /\ (y2 \div 32) % 2 = c0
      BY <1>3, SmallShifts DEF InBits, c0
    <3>3. QED
      BY <3>1, <3>2
  <2>11. QED
    BY <2>5, <2>6, <2>7, <2>8, <2>9, <2>10
<1>13. CASE r = 7
  <2>1. c = (x % 2) * 16 + y2 \div 16
    BY <1>13 DEF FiveBits
  <2> DEFINE c4 == b[0]
             c3 == d[7]
             c2 == d[6]
             c1 == d[5]
             c0 == d[4]
  <2>2. c4 \in 0..1 /\ c3 \in 0..1 /\ c2 \in 0..1 /\ c1 \in 0..1 /\ c0 \in 0..1
    BY <1>5
  <2> HIDE DEF c, c4, c3, c2, c1, c0
  <2>3. x % 2 = c4 /\ y2 \div 16 = 8 * c3 + 4 * c2 + 2 * c1 + c0
    BY <1>3 DEF InBits, c4, c3, c2, c1, c0
  <2>4. c = 16 * c4 + 8 * c3 + 4 * c2 + 2 * c1 + c0
    <3>1. c = (c4) * 16 + (8 * c3 + 4 * c2 + 2 * c1 + c0)
      BY <2>1, <2>3
    <3>2. QED
      BY <2>2, <3>1
  <2>5. CharBit(c, 0) = c4 /\ CharBit(c, 1) = c3 /\ CharBit(c, 2) = c2 /\ CharBit(c, 3) = c1 /\ CharBit(c, 4) = c0
    BY <2>2, <2>4, CharBits
  <2>6. BitOf(x, y2, r, 0) = c4
    <3>1. BitOf(x, y2, r, 0) = (x \div Shift[0]) % 2
      BY <1>13 DEF BitOf
    <3>2. Shift[0] = 1 /\ (x \div 1) % 2 = c4
      BY <1>3, SmallShifts DEF InBits, c4
    <3>3. QED
      BY <3>1, <3>2
  <2>7. BitOf(x, y2, r, 1) = c3
    <3>1. BitOf(x, y2, r, 1) = (y2 \div Shift[7]) % 2
      BY <1>13 DEF BitOf
    <3>2. Shift[7] = 128 /\ (y2 \div 128) % 2 = c3
      BY <1>3, SmallShifts DEF InBits, c3
    <3>3. QED
      BY <3>1, <3>2
  <2>8. BitOf(x, y2, r, 2) = c2
    <3>1. BitOf(x, y2, r, 2) = (y2 \div Shift[6]) % 2
      BY <1>13 DEF BitOf
    <3>2. Shift[6] = 64 /\ (y2 \div 64) % 2 = c2
      BY <1>3, SmallShifts DEF InBits, c2
    <3>3. QED
      BY <3>1, <3>2
  <2>9. BitOf(x, y2, r, 3) = c1
    <3>1. BitOf(x, y2, r, 3) = (y2 \div Shift[5]) % 2
      BY <1>13 DEF BitOf
    <3>2. Shift[5] = 32 /\ (y2 \div 32) % 2 = c1
      BY <1>3, SmallShifts DEF InBits, c1
    <3>3. QED
      BY <3>1, <3>2
  <2>10. BitOf(x, y2, r, 4) = c0
    <3>1. BitOf(x, y2, r, 4) = (y2 \div Shift[4]) % 2
      BY <1>13 DEF BitOf
    <3>2. Shift[4] = 16 /\ (y2 \div 16) % 2 = c0
      BY <1>3, SmallShifts DEF InBits, c0
    <3>3. QED
      BY <3>1, <3>2
  <2>11. QED
    BY <2>5, <2>6, <2>7, <2>8, <2>9, <2>10
<1>14. QED
  BY <1>6, <1>7, <1>8, <1>9, <1>10, <1>11, <1>12, <1>13

\* The sizes of a key and of its address.
LEMMA Sizes ==
  /\ KeyBytes \in Nat \ {0} /\ W \in Nat /\ 8 * KeyBytes = 5 * W + 1
  /\ SignBit = 8 * KeyBytes - 8 /\ MaxPrefixLen \in Nat /\ 5 * MaxPrefixLen <= SignBit
<1>1. KeyBytes \in Nat \ {0} /\ W \in Nat /\ 8 * KeyBytes = 5 * W + 1
  BY MatchAssumption, LimbAssumption
<1>2. SignBit = 8 * KeyBytes - 8
  BY <1>1 DEF SignBit
<1>3. SignBit \in Nat
  BY <1>1, <1>2
<1> HIDE DEF SignBit
<1>4. MaxPrefixLen \in Nat /\ 5 * MaxPrefixLen <= SignBit
  BY <1>3 DEF MaxPrefixLen
<1>5. QED
  BY <1>1, <1>2, <1>4

\* Bytes m to n of others.
IsPart(u, s, m, n) ==
  u \in Seq(0..255) /\ Len(u) = n - m + 1 /\ \A j \in 1..n - m + 1 : u[j] = s[m + j - 1]

\* A part of a sequence, place by place.
LEMMA PartOf ==
  ASSUME NEW s \in Seq(0..255), NEW m \in Nat \ {0}, NEW n \in Nat, m <= n, n <= Len(s)
  PROVE  IsPart(SubSeq(s, m, n), s, m, n)
<1> DEFINE S == 0..255
           u == SubSeq(s, m, n)
<1>1. \A j \in m..n : s[j] \in S
  <2>1. \A j \in 1..Len(s) : s[j] \in 0..255
    BY ElementOfSeq, Zenon
  <2>2. QED
    BY <2>1
<1>2. m \in Int /\ n \in Int
  OBVIOUS
<1> HIDE DEF S
<1>3. u \in Seq(S) /\ Len(u) = (IF m <= n THEN n - m + 1 ELSE 0)
      /\ \A j \in 1..n - m + 1 : u[j] = s[m + j - 1]
  BY <1>1, <1>2, SubSeqProperties
<1> HIDE DEF u
<1>4. QED
  BY <1>3 DEF IsPart, S, u

\* What the address of a key encodes.
AddressBytes(k) == k \o Checksum(k) \o <<Version>>

\* The bytes of an address: the key, the checksum, the version.
IsAddressBytes(b, k) ==
  /\ b \in Seq(0..255) /\ Len(b) = KeyBytes + 3
  /\ \A j \in 1..KeyBytes : b[j] = k[j]
  /\ b[KeyBytes + 1] = Checksum(k)[1] /\ b[KeyBytes + 2] = Checksum(k)[2]
  /\ b[KeyBytes + 3] = Version

\* What is joined is there.
LEMMA AddressBytesAre ==
  ASSUME NEW k \in Seq(0..255), Len(k) = KeyBytes,
         Checksum(k) \in Seq(0..255), Len(Checksum(k)) = 2
  PROVE  IsAddressBytes(AddressBytes(k), k)
<1> DEFINE c == Checksum(k)
           n == KeyBytes
           u == k \o c
           v == <<Version>>
           b == u \o v
<1>1. n \in Nat \ {0}
  BY Sizes
<1>2. c \in Seq(0..255) /\ Len(c) = 2 /\ v \in Seq(0..255) /\ Len(v) = 1 /\ v[1] = Version
  BY DEF Version
<1> HIDE DEF c, n, v
<1>3. u \in Seq(0..255) /\ Len(u) = n + 2
      /\ \A j \in 1..n + 2 : u[j] = IF j <= n THEN k[j] ELSE c[j - n]
  <2>1. /\ k \o c \in Seq(0..255) /\ Len(k \o c) = Len(k) + Len(c)
        /\ \A j \in 1..Len(k) + Len(c) : (k \o c)[j] = IF j <= Len(k) THEN k[j] ELSE c[j - Len(k)]
    BY <1>2, ConcatProperties, Zenon
  <2>2. QED
    BY <1>2, <2>1, Zenon DEF n
<1> HIDE DEF u
<1>4. b \in Seq(0..255) /\ Len(b) = n + 2 + 1
      /\ \A j \in 1..n + 2 + 1 : b[j] = IF j <= n + 2 THEN u[j] ELSE v[j - (n + 2)]
  <2>1. /\ u \o v \in Seq(0..255) /\ Len(u \o v) = Len(u) + Len(v)
        /\ \A j \in 1..Len(u) + Len(v) : (u \o v)[j] = IF j <= Len(u) THEN u[j] ELSE v[j - Len(u)]
    BY <1>2, <1>3, ConcatProperties, Zenon
  <2>2. QED
    BY <1>2, <1>3, <2>1, Zenon
<1> HIDE DEF b
<1>5. Len(b) = n + 3
  BY <1>1, <1>4
<1>6. ASSUME NEW j \in 1..n PROVE b[j] = k[j]
  BY <1>1, <1>3, <1>4
<1>7. b[n + 1] = c[1] /\ b[n + 2] = c[2]
  BY <1>1, <1>3, <1>4
<1>8. b[n + 3] = Version
  <2>1. n + 3 \in 1..n + 2 + 1 /\ ~(n + 3 <= n + 2) /\ n + 3 - (n + 2) = 1
    BY <1>1
  <2>2. b[n + 3] = v[1]
    <3> DEFINE j == n + 3
    <3>1. b[j] = IF j <= n + 2 THEN u[j] ELSE v[j - (n + 2)]
      BY <1>4, <2>1
    <3>2. j - (n + 2) = 1 /\ ~(j <= n + 2)
      BY <1>1
    <3> HIDE DEF j
    <3>3. b[j] = v[1]
      BY <3>1, <3>2
    <3>4. QED
      BY <3>3 DEF j
  <2>3. QED
    BY <1>2, <2>2
<1>9. b = AddressBytes(k)
  BY DEF b, u, c, v, AddressBytes
<1>10. QED
  BY <1>4, <1>5, <1>6, <1>7, <1>8, <1>9 DEF IsAddressBytes, n, c

\* An address has W + 5 characters, 56 in the code.
LEMMA AddressLength ==
  ASSUME NEW b \in Seq(0..255), Len(b) = KeyBytes + 3
  PROVE  Len(base32_encode(b)) = W + 5 /\ (W + 5) * 5 = 8 * (KeyBytes + 3)
<1>1. Len(base32_encode(b)) = (8 * (KeyBytes + 3) + 4) \div 5
  BY EncodeIsExact DEF Encoding
<1>2. (W + 5) * 5 = 8 * (KeyBytes + 3)
  BY Sizes
<1> DEFINE x == 8 * (KeyBytes + 3) + 4
<1>3. x = 5 * (W + 5) + 4 /\ W \in Nat
  BY <1>2, Sizes
<1> HIDE DEF x
<1>4. x \div 5 = W + 5
  BY <1>3
<1>5. QED
  BY <1>1, <1>2, <1>4 DEF x

\* The keys and their checksums have their lengths.
LEMMA KeysAreKeys ==
  ASSUME NEW k \in Keys
  PROVE  k \in Seq(0..255) /\ Len(k) = KeyBytes /\ Checksum(k) \in Seq(0..255) /\ Len(Checksum(k)) = 2
BY MatchAssumption

\* The address is the text of those bytes.
LEMMA AddressIs ==
  ASSUME NEW k
  PROVE  onion_address_from_pubkey(k) = base32_encode(AddressBytes(k))
BY Zenon DEF onion_address_from_pubkey, AddressBytes

\* The address of a key is read as the key.
LEMMA KeyOfAddress ==
  ASSUME NEW k \in Keys
  PROVE  pubkey_from_onion_address(onion_address_from_pubkey(k)) = Expected(k)
<1> DEFINE b == AddressBytes(k)
           a == onion_address_from_pubkey(k)
           d == base32_decode(a)
           n == KeyBytes
<1>1. IsAddressBytes(b, k)
  BY KeysAreKeys, AddressBytesAre
<1>2. a = base32_encode(b)
  BY AddressIs
<1> HIDE DEF a, b
<1>3. b \in Seq(0..255) /\ Len(b) = n + 3 /\ n \in Nat \ {0}
  BY <1>1, Sizes DEF IsAddressBytes
<1>4. d = Expected(b)
  BY <1>2, <1>3, DecodeOfEncode
<1>5. Len(a) * 5 = 8 * (n + 3)
  <2>1. Len(a) = W + 5 /\ (W + 5) * 5 = 8 * (n + 3)
    BY <1>2, <1>3, AddressLength
  <2>2. QED
    BY <2>1
<1> HIDE DEF d
<1>6. d.ok /\ d.value = b
  BY <1>4 DEF Expected
<1>7. b[n + 3] = Version
  BY <1>1 DEF IsAddressBytes
<1>8. SubSeq(b, 1, n) = k
  <2> DEFINE u == SubSeq(b, 1, n)
  <2>1. u \in Seq(0..255) /\ Len(u) = n /\ \A j \in 1..n : u[j] = b[j]
    <3>1. IsPart(u, b, 1, n)
      BY <1>3, PartOf
    <3> HIDE DEF u
    <3>2. QED
      BY <1>3, <3>1 DEF IsPart
  <2>2. \A j \in 1..n : b[j] = k[j]
    BY <1>1 DEF IsAddressBytes
  <2>3. k \in Seq(0..255) /\ Len(k) = n
    BY KeysAreKeys
  <2> HIDE DEF u
  <2>4. u = k
    BY <2>1, <2>2, <2>3, SameSequence
  <2>5. QED
    BY <2>4 DEF u
<1>9. ChecksumHolds(b)
  <2> DEFINE u == SubSeq(b, n + 1, n + 2)
             c == Checksum(k)
  <2>1. u \in Seq(0..255) /\ Len(u) = 2 /\ u[1] = b[n + 1] /\ u[2] = b[n + 2]
    <3> DEFINE m == n + 1
               e == n + 2
    <3>1. IsPart(u, b, m, e)
      BY <1>3, PartOf
    <3> HIDE DEF u, m, e
    <3>2. /\ u \in Seq(0..255) /\ Len(u) = e - m + 1
          /\ \A j \in 1..e - m + 1 : u[j] = b[m + j - 1]
      BY <3>1, Zenon DEF IsPart
    <3>3. m \in Nat /\ e = m + 1
      BY <1>3 DEF m, e
    <3>4. Len(u) = 2 /\ u[1] = b[m] /\ u[2] = b[m + 1]
      BY <3>2, <3>3
    <3>5. QED
      BY <3>2, <3>3, <3>4 DEF m, e
  <2>2. c \in Seq(0..255) /\ Len(c) = 2 /\ b[n + 1] = c[1] /\ b[n + 2] = c[2]
    BY <1>1, KeysAreKeys DEF IsAddressBytes
  <2> HIDE DEF u, c
  <2>3. u = c
    <3>1. \A j \in 1..Len(u) : u[j] = c[j]
      BY <2>1, <2>2
    <3>2. QED
      BY <2>1, <2>2, <3>1, SameSequence
  <2>4. QED
    BY <1>8, <2>3 DEF ChecksumHolds, u, c
<1>10. pubkey_from_onion_address(a)
         = IF Len(a) * 5 # 8 * (KeyBytes + 3) THEN Unexpected("bad_length")
           ELSE IF ~d.ok THEN Unexpected("bad_base32")
           ELSE IF d.value[KeyBytes + 3] # Version THEN Unexpected("bad_version")
           ELSE IF ~ChecksumHolds(d.value) THEN Unexpected("bad_checksum")
           ELSE Expected(SubSeq(d.value, 1, KeyBytes))
  BY Zenon DEF pubkey_from_onion_address, d
<1>11. QED
  BY <1>5, <1>6, <1>7, <1>8, <1>9, <1>10 DEF a

\* A text that is read as a key is its address.
LEMMA AddressOfKey ==
  ASSUME NEW s \in Seq(0..Other), pubkey_from_onion_address(s).ok
  PROVE  onion_address_from_pubkey(pubkey_from_onion_address(s).value) = s
<1> DEFINE d == base32_decode(s)
           n == KeyBytes
           v == d.value
           k == SubSeq(v, 1, n)
           r == pubkey_from_onion_address(s)
<1>1. r = IF Len(s) * 5 # 8 * (KeyBytes + 3) THEN Unexpected("bad_length")
          ELSE IF ~d.ok THEN Unexpected("bad_base32")
          ELSE IF v[n + 3] # Version THEN Unexpected("bad_version")
          ELSE IF ~ChecksumHolds(v) THEN Unexpected("bad_checksum")
          ELSE Expected(k)
  BY Zenon DEF pubkey_from_onion_address
<1>2. ReadBack(s, d) /\ r.ok
  BY EncodeOfDecode
<1> HIDE DEF r, d
<1>3. /\ Len(s) * 5 = 8 * (n + 3) /\ d.ok /\ v[n + 3] = Version /\ ChecksumHolds(v)
      /\ r = Expected(k)
  <2> HIDE DEF v, k, n
  <2>1. ~Unexpected("bad_length").ok /\ ~Unexpected("bad_base32").ok
        /\ ~Unexpected("bad_version").ok /\ ~Unexpected("bad_checksum").ok
    BY DEF Unexpected
  <2>2. QED
    BY <1>1, <1>2, <2>1 DEF n
<1>4. v \in Seq(0..255) /\ Len(v) = (5 * Len(s)) \div 8 /\ base32_encode(v) = s
  BY <1>2, <1>3 DEF ReadBack
<1> HIDE DEF v
<1>5. n \in Nat \ {0} /\ Len(v) = n + 3
  <2>1. n \in Nat \ {0} /\ Len(s) \in Nat /\ 5 * Len(s) = 8 * (n + 3)
    BY <1>3, Sizes
  <2> DEFINE x == 5 * Len(s)
  <2>2. x = 8 * (n + 3)
    BY <2>1
  <2> HIDE DEF x
  <2>3. x \div 8 = n + 3
    BY <2>1, <2>2
  <2>4. QED
    BY <1>4, <2>1, <2>3 DEF x
<1>6. k \in Seq(0..255) /\ Len(k) = n /\ \A j \in 1..n : k[j] = v[j]
  <2>1. IsPart(k, v, 1, n)
    BY <1>4, <1>5, PartOf
  <2> HIDE DEF k
  <2>2. QED
    BY <1>5, <2>1 DEF IsPart
<1> DEFINE c == SubSeq(v, n + 1, n + 2)
<1>7. c \in Seq(0..255) /\ Len(c) = 2 /\ c[1] = v[n + 1] /\ c[2] = v[n + 2]
  <2>1. IsPart(c, v, n + 1, n + 2)
    BY <1>4, <1>5, PartOf
  <2> HIDE DEF c
  <2>2. QED
    BY <1>5, <2>1 DEF IsPart
<1>8. c = Checksum(k)
  BY <1>3, Zenon DEF ChecksumHolds
<1> HIDE DEF k, c
<1> DEFINE b == AddressBytes(k)
<1>9. IsAddressBytes(b, k)
  BY <1>6, <1>7, <1>8, AddressBytesAre
<1> HIDE DEF b
<1>10. /\ b \in Seq(0..255) /\ Len(b) = n + 3
       /\ \A j \in 1..n : b[j] = k[j]
       /\ b[n + 1] = c[1] /\ b[n + 2] = c[2]
       /\ b[n + 3] = Version
  BY <1>8, <1>9 DEF IsAddressBytes
<1>11. ASSUME NEW j \in 1..n + 3 PROVE b[j] = v[j]
  <2>1. j \in 1..n \/ j = n + 1 \/ j = n + 2 \/ j = n + 3
    BY <1>5
  <2>2. QED
    BY <1>3, <1>6, <1>7, <1>10, <2>1
<1>12. b = v
  <2>1. Len(b) = Len(v) /\ \A j \in 1..Len(b) : b[j] = v[j]
    BY <1>5, <1>10, <1>11
  <2>2. QED
    BY <1>4, <1>10, <2>1, SameSequence
<1>13. r.value = k
  BY <1>3 DEF Expected
<1>14. onion_address_from_pubkey(k) = s
  BY <1>4, <1>12, AddressIs DEF b
<1>15. QED
  BY <1>13, <1>14 DEF r

-----------------------------------------------------------------------------
(* What is read is what was written *)

\* What a call that has returned has returned.
CallsReturn ==
  /\ key \in Keys
  /\ pc \in {"compiled", "matched"} => prefix \in Requests /\ pattern = compile_prefix(prefix)
  /\ pc = "matched" => pattern.ok /\ matched = matches(pattern.value, y)
  /\ pc = "decoded" => text \in Seq(0..Other) /\ parsed = base32_decode(text)
  /\ pc = "parsed" => text \in Seq(0..Other) /\ parsed = pubkey_from_onion_address(text)

\* What base32_encode writes base32_decode may be given.
LEMMA EncodingIsText ==
  ASSUME NEW bytes \in Seq(0..255)
  PROVE  base32_encode(bytes) \in Seq(0..Other)
<1>1. base32_encode(bytes) \in Seq(0..31)
  BY EncodeIsExact DEF Encoding
<1>2. 0..31 \subseteq 0..Other
  BY DEF Other, AlphabetSize
<1> DEFINE e == base32_encode(bytes)
           S == 0..31
           T == 0..Other
<1>3. e \in Seq(S) /\ S \subseteq T
  BY <1>1, <1>2
<1> HIDE DEF e, S, T
<1>4. e \in Seq(T)
  BY <1>3
<1>5. QED
  BY <1>4 DEF e, T

\* The first bytes of a key are bytes.
LEMMA PartOfKey ==
  ASSUME NEW k \in Keys, NEW n \in 0..KeyBytes
  PROVE  SubSeq(k, 1, n) \in Seq(0..255)
<1>1. k \in Seq(0..255) /\ Len(k) = KeyBytes /\ KeyBytes \in Nat
  BY KeysAreKeys, Sizes
<1>2. CASE n = 0
  <2>1. SubSeq(k, 1, 0) = <<>>
    BY SubSeqEmpty
  <2>2. QED
    BY <1>2, <2>1
<1>3. CASE n # 0
  <2>1. n \in Nat /\ 1 <= n /\ n <= Len(k)
    BY <1>1, <1>3
  <2>2. IsPart(SubSeq(k, 1, n), k, 1, n)
    BY <1>1, <2>1, PartOf
  <2>3. QED
    BY <2>2 DEF IsPart
<1>4. QED
  BY <1>2, <1>3

\* No later call disturbs what an earlier one returned and the comparison uses.
LEMMA CallsReturnInductive == Spec => []CallsReturn
<1>1. ASSUME Init PROVE CallsReturn
  BY <1>1 DEF Init, CallsReturn
<1>2. ASSUME CallsReturn, [Next]_vars PROVE CallsReturn'
  <2>1. key' = key /\ key \in Keys
    BY <1>2 DEF CallsReturn, Next, Recover, Compile, Match, Decode, ParseAddress, vars
  <2>2. CASE Recover
    BY <2>1, <2>2 DEF CallsReturn, Recover
  <2>3. CASE Compile
    BY <2>1, <2>3 DEF CallsReturn, Compile
  <2>4. CASE Match
    BY <1>2, <2>1, <2>4 DEF CallsReturn, Match
  <2>5. CASE Decode
    <3>1. PICK s \in Texts \cup {base32_encode(SubSeq(key, 1, n)) : n \in 0..KeyBytes} :
            text' = s /\ parsed' = base32_decode(s)
      BY <2>5 DEF Decode
    <3>2. s \in Seq(0..Other)
      <4>1. CASE s \in Texts
        BY <4>1, MatchAssumption
      <4>2. CASE s \in {base32_encode(SubSeq(key, 1, n)) : n \in 0..KeyBytes}
        <5>1. PICK n \in 0..KeyBytes : s = base32_encode(SubSeq(key, 1, n))
          BY <4>2
        <5>2. SubSeq(key, 1, n) \in Seq(0..255)
          BY <2>1, PartOfKey
        <5>3. QED
          BY <5>1, <5>2, EncodingIsText
      <4>3. QED
        BY <4>1, <4>2
    <3>3. pc' = "decoded"
      BY <2>5 DEF Decode
    <3>4. QED
      BY <2>1, <3>1, <3>2, <3>3 DEF CallsReturn
  <2>6. CASE ParseAddress
    <3> DEFINE own == onion_address_from_pubkey(key)
    <3>1. PICK s \in {own, Front(own)}
                       \cup {ReplaceAt(own, n, c) : n \in 1..Len(own), c \in {0, 1, 16, Other}} :
            text' = s /\ parsed' = pubkey_from_onion_address(s)
      BY <2>6 DEF ParseAddress
    <3>2. own \in Seq(0..Other) /\ Len(own) # 0
      <4> DEFINE b == AddressBytes(key)
      <4>1. b \in Seq(0..255) /\ Len(b) = KeyBytes + 3
        BY <2>1, KeysAreKeys, AddressBytesAre DEF IsAddressBytes
      <4>2. own = base32_encode(b)
        BY AddressIs
      <4> HIDE DEF b, own
      <4>3. Len(own) = W + 5
        BY <4>1, <4>2, AddressLength
      <4>4. QED
        BY <4>1, <4>2, <4>3, EncodingIsText, Sizes
    <3> HIDE DEF own
    <3>3. s \in Seq(0..Other)
      <4>1. {0, 1, 16, Other} \subseteq 0..Other
        BY DEF Other, AlphabetSize
      <4> DEFINE S == 0..Other
      <4>2. own \in Seq(S) /\ {0, 1, 16, Other} \subseteq S
        BY <3>2, <4>1
      <4> HIDE DEF S
      <4>3. Front(own) \in Seq(S)
        <5>1. \A j \in 1..Len(own) - 1 : own[j] \in S
          <6>1. \A j \in 1..Len(own) : own[j] \in S
            BY <4>2, ElementOfSeq
          <6>2. Len(own) \in Nat
            BY <4>2
          <6>3. QED
            BY <6>1, <6>2
        <5>2. Len(own) - 1 \in Int
          BY <4>2
        <5>3. SubSeq(own, 1, Len(own) - 1) \in Seq(S)
          BY <5>1, <5>2, SubSeqProperties
        <5>4. QED
          BY <5>3 DEF Front
      <4>4. ASSUME NEW n \in 1..Len(own), NEW c \in {0, 1, 16, Other}
            PROVE  ReplaceAt(own, n, c) \in Seq(S)
        <5>1. c \in S
          BY <4>2
        <5>2. [own EXCEPT ![n] = c] \in Seq(S)
          BY <4>2, <5>1, ExceptSeq
        <5>3. QED
          BY <5>2 DEF ReplaceAt
      <4>5. s \in Seq(S)
        BY <3>1, <4>2, <4>3, <4>4
      <4>6. QED
        BY <4>5 DEF S
    <3>4. pc' = "parsed"
      BY <2>6 DEF ParseAddress
    <3>5. QED
      BY <2>1, <3>1, <3>3, <3>4 DEF CallsReturn
  <2>7. CASE UNCHANGED vars
    BY <1>2, <2>7 DEF CallsReturn, vars
  <2>8. QED
    BY <1>2, <2>2, <2>3, <2>4, <2>5, <2>6, <2>7 DEF Next
<1>3. QED
  BY <1>1, <1>2, PTL DEF Spec

\* base32_decode: text it accepts is the one text of its bytes, and text base32_encode
\* wrote is read back as what it was written from, for any texts and any part of
\* any key (TextIsCanonical).
THEOREM TextAlwaysCanonical == Spec => []TextIsCanonical
<1>1. ASSUME CallsReturn PROVE TextIsCanonical
  <2> SUFFICES ASSUME pc = "decoded"
               PROVE  /\ parsed.ok => base32_encode(parsed.value) = text
                      /\ \A n \in 0..KeyBytes :
                           text = base32_encode(SubSeq(key, 1, n)) => parsed = Expected(SubSeq(key, 1, n))
    BY DEF TextIsCanonical
  <2>1. key \in Keys /\ text \in Seq(0..Other) /\ parsed = base32_decode(text)
    BY <1>1 DEF CallsReturn
  <2>2. parsed.ok => base32_encode(parsed.value) = text
    BY <2>1, EncodeOfDecode DEF ReadBack
  <2>3. ASSUME NEW n \in 0..KeyBytes, text = base32_encode(SubSeq(key, 1, n))
        PROVE  parsed = Expected(SubSeq(key, 1, n))
    <3>1. SubSeq(key, 1, n) \in Seq(0..255)
      BY <2>1, PartOfKey
    <3>2. QED
      BY <2>1, <2>3, <3>1, DecodeOfEncode
  <2>4. QED
    BY <2>2, <2>3
<1>2. QED
  BY <1>1, CallsReturnInductive, PTL

\* pubkey_from_onion_address: whatever text it accepts is the address of the key it
\* returns, and it returns the key of every address, for any keys and texts
\* (AddressIsExact).
THEOREM AddressAlwaysExact == Spec => []AddressIsExact
<1>1. ASSUME CallsReturn PROVE AddressIsExact
  <2>1. ASSUME pc = "parsed"
        PROVE  key \in Keys /\ text \in Seq(0..Other) /\ parsed = pubkey_from_onion_address(text)
    BY <1>1, <2>1 DEF CallsReturn
  <2>2. ASSUME pc = "parsed", parsed.ok PROVE onion_address_from_pubkey(parsed.value) = text
    BY <2>1, <2>2, AddressOfKey
  <2>3. ASSUME pc = "parsed", text = onion_address_from_pubkey(key) PROVE parsed = Expected(key)
    BY <2>1, <2>3, KeyOfAddress
  <2>4. QED
    BY <2>2, <2>3 DEF AddressIsExact
<1>2. QED
  BY <1>1, CallsReturnInductive, PTL

-----------------------------------------------------------------------------
(* The masked comparison *)

\* A character is its five bits.
LEMMA CharIsItsBits ==
  ASSUME NEW c \in 0..31, NEW d \in 0..31,
         \A j \in 0..4 : CharBit(c, j) = 1 <=> CharBit(d, j) = 1
  PROVE  c = d
<1>1. PICK a : Binary(c, a)
  <2>1. c \in 0..255
    OBVIOUS
  <2>2. QED
    BY <2>1, ByteHasBits
<1>2. PICK b : Binary(d, b)
  <2>1. d \in 0..255
    OBVIOUS
  <2>2. QED
    BY <2>1, ByteHasBits
<1>3. InBits(c, a) /\ InBits(d, b)
  BY <1>1, <1>2, BinaryShows
<1>4. \A i \in 0..7 : a[i] \in 0..1 /\ b[i] \in 0..1
  BY <1>1, <1>2 DEF Binary
<1>5. ASSUME NEW x \in 0..31, NEW e, InBits(x, e), \A i \in 0..7 : e[i] \in 0..1
      PROVE  /\ x = 16 * e[4] + 8 * e[3] + 4 * e[2] + 2 * e[1] + e[0]
             /\ CharBit(x, 0) = e[4] /\ CharBit(x, 1) = e[3] /\ CharBit(x, 2) = e[2]
             /\ CharBit(x, 3) = e[1] /\ CharBit(x, 4) = e[0]
  <2>1. x % 32 = 16 * e[4] + 8 * e[3] + 4 * e[2] + 2 * e[1] + e[0]
    BY <1>5 DEF InBits
  <2>2. x % 32 = x
    OBVIOUS
  <2> DEFINE e0 == e[0]
             e1 == e[1]
             e2 == e[2]
             e3 == e[3]
             e4 == e[4]
  <2>3. e0 \in 0..1 /\ e1 \in 0..1 /\ e2 \in 0..1 /\ e3 \in 0..1 /\ e4 \in 0..1
    BY <1>5
  <2>4. x = 16 * e4 + 8 * e3 + 4 * e2 + 2 * e1 + e0
    BY <2>1, <2>2
  <2> HIDE DEF e0, e1, e2, e3, e4
  <2>5. CharBit(x, 0) = e4 /\ CharBit(x, 1) = e3 /\ CharBit(x, 2) = e2 /\ CharBit(x, 3) = e1
        /\ CharBit(x, 4) = e0
    BY <2>3, <2>4, CharBits
  <2>6. QED
    BY <2>4, <2>5 DEF e0, e1, e2, e3, e4
<1>6. /\ c = 16 * a[4] + 8 * a[3] + 4 * a[2] + 2 * a[1] + a[0]
      /\ CharBit(c, 0) = a[4] /\ CharBit(c, 1) = a[3] /\ CharBit(c, 2) = a[2]
      /\ CharBit(c, 3) = a[1] /\ CharBit(c, 4) = a[0]
  BY <1>3, <1>4, <1>5
<1>7. /\ d = 16 * b[4] + 8 * b[3] + 4 * b[2] + 2 * b[1] + b[0]
      /\ CharBit(d, 0) = b[4] /\ CharBit(d, 1) = b[3] /\ CharBit(d, 2) = b[2]
      /\ CharBit(d, 3) = b[1] /\ CharBit(d, 4) = b[0]
  BY <1>3, <1>4, <1>5
<1>8. /\ CharBit(c, 0) = 1 <=> CharBit(d, 0) = 1
      /\ CharBit(c, 1) = 1 <=> CharBit(d, 1) = 1
      /\ CharBit(c, 2) = 1 <=> CharBit(d, 2) = 1
      /\ CharBit(c, 3) = 1 <=> CharBit(d, 3) = 1
      /\ CharBit(c, 4) = 1 <=> CharBit(d, 4) = 1
  OBVIOUS
<1>9. a[4] = b[4] /\ a[3] = b[3] /\ a[2] = b[2] /\ a[1] = b[1] /\ a[0] = b[0]
  <2>1. /\ a[0] \in 0..1 /\ a[1] \in 0..1 /\ a[2] \in 0..1 /\ a[3] \in 0..1 /\ a[4] \in 0..1
        /\ b[0] \in 0..1 /\ b[1] \in 0..1 /\ b[2] \in 0..1 /\ b[3] \in 0..1 /\ b[4] \in 0..1
    BY <1>4
  <2>2. QED
    BY <1>6, <1>7, <1>8, <2>1
<1>10. QED
  BY <1>6, <1>7, <1>9

\* Before the sign of x, the stream bits of a key are the bits of its address.
LEMMA AddressBit ==
  ASSUME NEW k \in Keys, NEW n \in 0..SignBit - 1
  PROVE  /\ n \div 5 + 1 \in 1..Len(onion_address_from_pubkey(k))
         /\ onion_address_from_pubkey(k)[n \div 5 + 1] \in 0..31
         /\ n \in StreamBits(k) <=> CharBit(onion_address_from_pubkey(k)[n \div 5 + 1], n % 5) = 1
<1> DEFINE a == onion_address_from_pubkey(k)
           b == AddressBytes(k)
           i == n \div 5
           j == n % 5
           q == (5 * i) \div 8
           r == (5 * i) % 8
           x == ByteAt(b, q)
           y2 == ByteAt(b, q + 1)
<1>1. IsAddressBytes(b, k) /\ k \in Seq(0..255) /\ Len(k) = KeyBytes
  BY KeysAreKeys, AddressBytesAre
<1> HIDE DEF b
<1>2. /\ b \in Seq(0..255) /\ Len(b) = KeyBytes + 3
      /\ \A m \in 1..KeyBytes : b[m] = k[m]
  BY <1>1 DEF IsAddressBytes
<1>3. a \in Seq(0..31) /\ Len(a) = W + 5 /\ \A m \in 1..Len(a) : a[m] = CharOf(b, m - 1)
  <2>1. a = base32_encode(b)
    BY AddressIs DEF b
  <2>2. QED
    BY <1>2, <2>1, AddressLength, EncodeIsExact DEF Encoding
<1> HIDE DEF a
<1>4. KeyBytes \in Nat \ {0} /\ W \in Nat /\ 8 * KeyBytes = 5 * W + 1 /\ n \in Nat /\ n < 8 * KeyBytes - 8
  BY Sizes
<1>5. i \in Nat /\ j \in 0..4 /\ n = 5 * i + j
  BY <1>4
<1> HIDE DEF i, j
<1>6. q \in Nat /\ r \in 0..7 /\ 5 * i = 8 * q + r
  BY <1>5
<1> HIDE DEF q, r
<1>7. i + 1 \in 1..Len(a) /\ i + 1 - 1 = i /\ q + 2 <= KeyBytes
  BY <1>3, <1>4, <1>5, <1>6
<1>8. a[i + 1] \in 0..31 /\ a[i + 1] = CharOf(b, i)
  <2> DEFINE m == i + 1
  <2>1. m \in 1..Len(a) /\ m - 1 = i
    BY <1>5, <1>7
  <2> HIDE DEF m
  <2>2. a[m] \in 0..31 /\ a[m] = CharOf(b, m - 1)
    BY <1>3, <2>1, ElementOfSeq
  <2>3. QED
    BY <2>1, <2>2 DEF m
<1>9. CharOf(b, i) = FiveBits(x, y2, r)
  BY Zenon DEF CharOf, q, r
<1>10. x \in 0..255 /\ y2 \in 0..255
  <2>1. q + 1 \in Nat
    BY <1>6
  <2>2. QED
    BY <1>2, <1>6, <2>1, ByteAtIsByte
<1>11. x = k[q + 1] /\ y2 = k[q + 2]
  <2>1. q < Len(b) /\ q + 1 < Len(b) /\ q + 1 \in 1..KeyBytes /\ q + 2 \in 1..KeyBytes /\ q + 1 + 1 = q + 2
    BY <1>2, <1>4, <1>6, <1>7
  <2>2. QED
    BY <1>2, <2>1 DEF ByteAt
<1> HIDE DEF x, y2
<1>12. CharBit(a[i + 1], j) = BitOf(x, y2, r, j)
  <2>1. \A l \in 0..4 : CharBit(FiveBits(x, y2, r), l) = BitOf(x, y2, r, l)
    BY <1>6, <1>10, BitsOfFiveBits
  <2>2. a[i + 1] = FiveBits(x, y2, r)
    BY <1>8, <1>9
  <2>3. QED
    BY <1>5, <2>1, <2>2
<1>13. n \in StreamBits(k) <=> (k[n \div 8 + 1] \div Shift[7 - (n % 8)]) % 2 = 1
  <2>1. n \in 0..8 * Len(k) - 1
    BY <1>1, <1>4
  <2>2. QED
    BY <2>1 DEF StreamBits
<1>14. CASE r + j < 8
  <2>1. n = 8 * q + (r + j) /\ r + j \in 0..7
    BY <1>5, <1>6, <1>14
  <2> DEFINE e == r + j
  <2> HIDE DEF e
  <2>2. n \div 8 = q /\ n % 8 = e
    <3>1. n = 8 * q + e /\ e \in 0..7
      BY <2>1 DEF e
    <3>2. QED
      BY <1>6, <3>1
  <2>3. BitOf(x, y2, r, j) = (x \div Shift[7 - e]) % 2
    BY <1>14, Zenon DEF BitOf, e
  <2>4. n \in StreamBits(k) <=> BitOf(x, y2, r, j) = 1
    BY <1>11, <1>13, <2>2, <2>3
  <2>5. QED
    BY <1>7, <1>8, <1>12, <2>4 DEF a, i, j
<1>15. CASE ~(r + j < 8)
  <2> DEFINE e == r + j - 8
  <2>1. n = 8 * (q + 1) + e /\ e \in 0..3 /\ 15 - (r + j) = 7 - e
    BY <1>5, <1>6, <1>15
  <2>2. BitOf(x, y2, r, j) = (y2 \div Shift[15 - (r + j)]) % 2
    BY <1>15, Zenon DEF BitOf
  <2> HIDE DEF e
  <2>3. n \div 8 = q + 1 /\ n % 8 = e /\ q + 1 + 1 = q + 2
    BY <1>6, <2>1
  <2>4. n \in StreamBits(k) <=> BitOf(x, y2, r, j) = 1
    BY <1>11, <1>13, <2>1, <2>2, <2>3
  <2>5. QED
    BY <1>7, <1>8, <1>12, <2>4 DEF a, i, j
<1>16. QED
  BY <1>14, <1>15

\* The mask of a prefix has its bits, all of them before the sign of x.
LEMMA CompiledIs ==
  ASSUME NEW p \in Seq(0..Other), compile_prefix(p).ok
  PROVE  /\ p \in Seq(0..31) /\ Len(p) <= MaxPrefixLen
         /\ compile_prefix(p).value.mask = 0..5 * Len(p) - 1
         /\ compile_prefix(p).value.bytes = {n \in 0..5 * Len(p) - 1 : CharBit(p[n \div 5 + 1], n % 5) = 1}
         /\ compile_prefix(p).value.nbytes = (5 * Len(p) + 7) \div 8
<1> DEFINE mask == 0..5 * Len(p) - 1
           v == [mask |-> mask,
                 bytes |-> {n \in mask : CharBit(p[n \div 5 + 1], n % 5) = 1},
                 nbytes |-> (5 * Len(p) + 7) \div 8]
           Bad == \E n \in 1..Len(p) : p[n] = Other
           c == compile_prefix(p)
<1>1. c = IF Len(p) = 0 THEN Unexpected("empty")
          ELSE IF Len(p) > MaxPrefixLen THEN Unexpected("too_long")
          ELSE IF Bad THEN Unexpected("invalid_char")
          ELSE Expected(v)
  BY Zenon DEF compile_prefix
<1>2. c.ok
  OBVIOUS
<1>3. ~Unexpected("empty").ok /\ ~Unexpected("too_long").ok /\ ~Unexpected("invalid_char").ok
  BY DEF Unexpected
<1> HIDE DEF c, v, Bad
<1>4. c = Expected(v) /\ ~(Len(p) > MaxPrefixLen) /\ ~Bad
  BY <1>1, <1>2, <1>3
<1>5. c.value = v
  BY <1>4 DEF Expected
<1>6. p \in Seq(0..31)
  <2>1. ASSUME NEW j \in 1..Len(p) PROVE p[j] \in 0..31
    <3>1. p[j] \in 0..32 /\ p[j] # 32
      <4>1. p[j] # Other
        BY <1>4 DEF Bad
      <4>2. p[j] \in 0..Other
        BY ElementOfSeq, Zenon
      <4>3. QED
        BY <4>1, <4>2 DEF Other, AlphabetSize
    <3>2. QED
      BY <3>1
  <2>2. p = [j \in 1..Len(p) |-> p[j]] /\ Len(p) \in Nat
    OBVIOUS
  <2>3. [j \in 1..Len(p) |-> p[j]] \in Seq(0..31)
    BY <2>1, <2>2
  <2>4. QED
    BY <2>2, <2>3
<1>7. Len(p) <= MaxPrefixLen
  BY <1>4, Sizes
<1>8. QED
  BY <1>5, <1>6, <1>7 DEF c, v

\* The comparison byte by byte is one of every bit of the mask.
LEMMA MatchesBitByBit ==
  ASSUME NEW len \in Nat, NEW v, NEW bits,
         v.mask = 0..5 * len - 1, v.bytes \subseteq v.mask, v.nbytes = (5 * len + 7) \div 8
  PROVE  matches(v, bits) <=> \A n \in 0..5 * len - 1 : n \in bits <=> n \in v.bytes
<1> DEFINE Byte(b) == 8 * b .. 8 * b + 7
           m == v.mask
           d == v.bytes
           e == v.nbytes
<1>1. matches(v, bits) <=> \A b \in 0..e - 1 : Byte(b) \cap bits \cap m = Byte(b) \cap d
  BY Zenon DEF matches
<1>2. m = 0..5 * len - 1 /\ d \subseteq m /\ e = (5 * len + 7) \div 8
  OBVIOUS
<1> HIDE DEF m, d, e
<1>3. ASSUME \A b \in 0..e - 1 : Byte(b) \cap bits \cap m = Byte(b) \cap d, NEW n \in m
      PROVE  n \in bits <=> n \in d
  <2> DEFINE b == n \div 8
  <2>1. b \in 0..e - 1
    BY <1>2
  <2>2. n \in Byte(b)
    BY <1>2
  <2> HIDE DEF b, Byte
  <2>3. Byte(b) \cap bits \cap m = Byte(b) \cap d
    BY <1>3, <2>1
  <2>4. QED
    BY <2>2, <2>3
<1>4. ASSUME \A n \in m : n \in bits <=> n \in d, NEW b \in 0..e - 1
      PROVE  Byte(b) \cap bits \cap m = Byte(b) \cap d
  <2> HIDE DEF Byte
  <2>1. QED
    BY <1>2, <1>4
<1> HIDE DEF Byte
<1>5. QED
  BY <1>1, <1>2, <1>3, <1>4 DEF d

\* Bits below the sign of x are those of the key.
Agrees(bits, k) == \A n \in 0..SignBit - 1 : n \in bits <=> n \in StreamBits(k)

\* The masked comparison of bits that are the key's below the sign of x is the
\* comparison of text, for every prefix that compiles.
THEOREM MaskedComparisonIsPrefix ==
  ASSUME NEW p \in Seq(0..Other), compile_prefix(p).ok, NEW k \in Keys, NEW bits, Agrees(bits, k)
  PROVE  matches(compile_prefix(p).value, bits) <=> IsPrefix(p, onion_address_from_pubkey(k))
<1> DEFINE a == onion_address_from_pubkey(k)
           v == compile_prefix(p).value
           len == Len(p)
           Same(n) == n \in bits <=> n \in v.bytes
<1>1. /\ p \in Seq(0..31) /\ len \in Nat /\ len <= MaxPrefixLen
      /\ v.mask = 0..5 * len - 1
      /\ v.bytes = {n \in 0..5 * len - 1 : CharBit(p[n \div 5 + 1], n % 5) = 1}
      /\ v.nbytes = (5 * len + 7) \div 8
  BY CompiledIs
<1> HIDE DEF v, len
<1>2. matches(v, bits) <=> \A n \in 0..5 * len - 1 : Same(n)
  BY <1>1, MatchesBitByBit
<1>3. len <= W /\ W \in Nat /\ 5 * len <= SignBit /\ SignBit \in Nat
  BY <1>1, Sizes
<1>4. a \in Seq(0..31) /\ Len(a) = W + 5
  <2> DEFINE b == AddressBytes(k)
  <2>1. b \in Seq(0..255) /\ Len(b) = KeyBytes + 3
    BY KeysAreKeys, AddressBytesAre DEF IsAddressBytes
  <2>2. a = base32_encode(b)
    BY AddressIs
  <2> HIDE DEF a, b
  <2>3. QED
    BY <2>1, <2>2, AddressLength, EncodeIsExact DEF Encoding
<1>5. ASSUME NEW n \in 0..5 * len - 1
      PROVE  Same(n) <=> (CharBit(a[n \div 5 + 1], n % 5) = 1 <=> CharBit(p[n \div 5 + 1], n % 5) = 1)
  <2>1. n \in 0..SignBit - 1
    BY <1>1, <1>3
  <2>2. n \in StreamBits(k) <=> CharBit(a[n \div 5 + 1], n % 5) = 1
    BY <2>1, AddressBit
  <2>3. n \in bits <=> n \in StreamBits(k)
    BY <2>1 DEF Agrees
  <2>4. n \in v.bytes <=> CharBit(p[n \div 5 + 1], n % 5) = 1
    BY <1>1
  <2>5. QED
    BY <2>2, <2>3, <2>4
<1> HIDE DEF a, Same
<1>6. IsPrefix(p, a) <=> \A i \in 1..len : p[i] = a[i]
  <2> DEFINE u == SubSeq(p, 1, len)
             w == SubSeq(a, 1, len)
             S == 0..31
  <2>1. IsPrefix(p, a) <=> len <= Len(a) /\ u = w
    BY Zenon DEF IsPrefix, len
  <2>2. p \in Seq(S) /\ a \in Seq(S) /\ len = Len(p) /\ len <= Len(a) /\ len \in Nat
    BY <1>1, <1>3, <1>4 DEF len
  <2> HIDE DEF S
  <2>3. (\A i \in 1..len : p[i] \in S) /\ \A i \in 1..len : a[i] \in S
    BY <2>2, ElementOfSeq
  <2>4. u \in Seq(S) /\ Len(u) = len /\ \A i \in 1..len : u[i] = p[i]
    BY <2>2
  <2>5. w \in Seq(S) /\ Len(w) = len /\ \A i \in 1..len : w[i] = a[i]
    BY <2>2
  <2> HIDE DEF u, w
  <2>6. u = w <=> \A i \in 1..len : p[i] = a[i]
    <3>1. ASSUME \A i \in 1..len : p[i] = a[i] PROVE u = w
      <4>1. Len(u) = Len(w) /\ \A i \in 1..Len(u) : u[i] = w[i]
        BY <2>4, <2>5, <3>1
      <4>2. QED
        BY <2>4, <2>5, <4>1, SameSequence
    <3>2. ASSUME u = w PROVE \A i \in 1..len : p[i] = a[i]
      BY <2>4, <2>5, <3>2
    <3>3. QED
      BY <3>1, <3>2
  <2>7. QED
    BY <2>1, <2>2, <2>6
<1>7. ASSUME \A i \in 1..len : p[i] = a[i], NEW n \in 0..5 * len - 1 PROVE Same(n)
  <2>1. n \div 5 + 1 \in 1..len
    BY <1>1
  <2>2. p[n \div 5 + 1] = a[n \div 5 + 1]
    BY <1>7, <2>1
  <2>3. QED
    BY <1>5, <2>2
<1>8. ASSUME \A n \in 0..5 * len - 1 : Same(n), NEW i \in 1..len PROVE p[i] = a[i]
  <2>1. p[i] \in 0..31 /\ a[i] \in 0..31
    BY <1>1, <1>3, <1>4, ElementOfSeq DEF len
  <2>2. ASSUME NEW j \in 0..4 PROVE CharBit(p[i], j) = 1 <=> CharBit(a[i], j) = 1
    <3> DEFINE n == 5 * (i - 1) + j
    <3>1. n \in 0..5 * len - 1 /\ n \div 5 + 1 = i /\ n % 5 = j
      BY <1>1
    <3> HIDE DEF n
    <3>2. QED
      BY <1>5, <1>8, <3>1
  <2>3. QED
    BY <2>1, <2>2, CharIsItsBits
<1>9. QED
  BY <1>2, <1>6, <1>7, <1>8 DEF a, v

\* What an engine recovers has the bits of the y below the sign of x.
RecoveredExactly == Agrees(y, key)

\* The point of a key is recovered as it is in each form: Y, read from its encoding, is
\* multiplied by one and written.
LEMMA RecoveredIs ==
  ASSUME NEW f \in Forms, NEW Y \in SUBSET (0..5*W), BelowP(Y)
  PROVE  fe_to_bytes(f, MulIn(f, fe_from_bytes(f, Y), fe_from_bytes(f, {0}))) = Y \ {5 * W}
<1> DEFINE a == fe_from_bytes(f, Y)
           b == fe_from_bytes(f, {0})
<1>1. Fits(a, Widths[f], Count[f])
  BY FormCovers, LoadIs, LimbsFit
<1>2. IsOne(b, Count[f])
  BY OneIs
<1>3. Count.fe51 = 5 /\ Count.fe4 = 10 /\ Count.fed32 = 8
  BY DEF Count
<1> HIDE DEF a, b
<1>4. MulIn(f, a, b) = a
  <2>1. CASE f = "fe51"
    <3>1. fe_mul(a, b) = a
      BY <1>1, <1>2, <1>3, <2>1, MulByOne51
    <3>2. QED
      BY <2>1, <3>1 DEF MulIn
  <2>2. CASE f = "fe4"
    <3>1. fe4_mul(a, b) = a
      BY <1>1, <1>2, <1>3, <2>2, MulByOne4
    <3>2. QED
      BY <2>2, <3>1 DEF MulIn
  <2>3. CASE f = "fed32"
    <3>1. fed_mul(a, b) = a
      BY <1>1, <1>2, <1>3, <2>3, MulByOne32
    <3>2. QED
      BY <2>3, <3>1 DEF MulIn
  <2>4. QED
    BY <2>1, <2>2, <2>3 DEF Forms
<1>5. fe_to_bytes(f, a) = Y \ {5 * W}
  BY EncodingIsExact DEF a
<1>6. QED
  BY <1>4, <1>5 DEF a, b

\* The order of the stream and that of an encoding of the field are each other's, and the
\* topmost bit of an encoding is the sign of x.
LEMMA StreamBitTwice ==
  /\ \A n \in 0..5*W : StreamBit(n) \in 0..5*W /\ StreamBit(StreamBit(n)) = n
  /\ StreamBit(5 * W) = SignBit
  /\ SignBit \in 0..5*W
<1>1. W \in Nat /\ KeyBytes \in Nat \ {0} /\ 8 * KeyBytes = 5 * W + 1
  BY WidthIs, MatchAssumption
<1>2. ASSUME NEW n \in 0..5*W
      PROVE  StreamBit(n) \in 0..5*W /\ StreamBit(StreamBit(n)) = n
  <2> DEFINE q == n \div 8
             r == n % 8
             m == 8 * q + (7 - r)
  <2>1. q \in 0..KeyBytes-1 /\ r \in 0..7 /\ n = 8 * q + r
    BY <1>1
  <2>2. StreamBit(n) = m
    <3>1. StreamBit(n) = 8 * q + 7 - r
      BY DEF StreamBit
    <3> HIDE DEF q, r
    <3>2. QED
      BY <2>1, <3>1
  <2> HIDE DEF q, r
  <2>3. m \in 0..5*W /\ m \div 8 = q /\ m % 8 = 7 - r
    BY <1>1, <2>1
  <2>4. StreamBit(m) = 8 * q + 7 - (7 - r)
    BY <2>3 DEF StreamBit
  <2> HIDE DEF m
  <2>5. StreamBit(m) = n
    BY <2>1, <2>4
  <2>6. QED
    BY <2>2, <2>3, <2>5
<1>3. SignBit \in 0..5*W /\ 5 * W = SignBit + 7
  BY <1>1 DEF SignBit
<1>4. StreamBit(5 * W) = SignBit
  <2> DEFINE q == KeyBytes - 1
  <2>1. q \in Nat /\ 5 * W = 8 * q + 7 /\ SignBit = 8 * q
    BY <1>1 DEF SignBit
  <2> HIDE DEF q
  <2>2. (5 * W) \div 8 = q /\ (5 * W) % 8 = 7
    BY <2>1
  <2>3. StreamBit(5 * W) = 8 * q + 7 - 7
    BY <2>2 DEF StreamBit
  <2>4. QED
    BY <2>1, <2>3
<1>5. QED
  BY <1>2, <1>3, <1>4

\* What Recover leaves in y has the bits of the key below the sign of x.
LEMMA RecoveredAgrees ==
  ASSUME NEW k \in Keys, NEW f \in Forms, NEW bits,
         bits = {StreamBit(n) : n \in fe_to_bytes(f, MulIn(f, fe_from_bytes(f, FieldBits(k)),
                                                           fe_from_bytes(f, {0})))}
  PROVE  Agrees(bits, k)
<1> DEFINE Y == FieldBits(k)
           top == 5 * W
<1>1. W \in Nat /\ top \in Nat /\ SignBit \in 0..top /\ StreamBit(top) = SignBit
  BY WidthIs, StreamBitTwice
<1>2. StreamBits(k) \in SUBSET (0..top)
  <2>1. Len(k) = KeyBytes /\ 8 * KeyBytes = 5 * W + 1 /\ KeyBytes \in Nat
    BY MatchAssumption
  <2>2. 8 * Len(k) - 1 = top
    BY <1>1, <2>1
  <2>3. QED
    BY <2>2 DEF StreamBits
<1>3. Y \in SUBSET (0..top)
  <2>1. \A n \in StreamBits(k) : StreamBit(n) \in 0..top
    BY <1>2, StreamBitTwice
  <2>2. QED
    BY <2>1 DEF FieldBits
<1>4. bits = {StreamBit(n) : n \in Y \ {top}}
  <2>1. BelowP(Y)
    BY KeyAssumption
  <2> HIDE DEF Y
  <2>2. fe_to_bytes(f, MulIn(f, fe_from_bytes(f, Y), fe_from_bytes(f, {0}))) = Y \ {top}
    BY <1>3, <2>1, RecoveredIs
  <2>3. QED
    BY <2>2 DEF Y
<1>5. \A n \in 0..top : StreamBit(n) \in 0..top /\ StreamBit(StreamBit(n)) = n
  BY StreamBitTwice
<1>6. Y = {StreamBit(n) : n \in StreamBits(k)}
  BY DEF FieldBits
<1> HIDE DEF Y, top
<1>7. ASSUME NEW n \in 0..SignBit - 1 PROVE n \in bits <=> n \in StreamBits(k)
  <2>1. n \in 0..top /\ n # SignBit
    BY <1>1
  <2>2. ASSUME n \in bits PROVE n \in StreamBits(k)
    <3>1. PICK m \in Y : n = StreamBit(m)
      BY <1>4, <2>2
    <3>2. PICK l \in StreamBits(k) : m = StreamBit(l)
      BY <1>6
    <3>3. StreamBit(StreamBit(l)) = l
      BY <1>2, <1>5
    <3>4. QED
      BY <3>1, <3>2, <3>3
  <2>3. ASSUME n \in StreamBits(k) PROVE n \in bits
    <3>1. StreamBit(n) \in Y /\ StreamBit(StreamBit(n)) = n
      BY <1>5, <1>6, <2>1, <2>3
    <3>2. StreamBit(n) # top
      BY <1>1, <2>1, <3>1
    <3>3. QED
      BY <1>4, <3>1, <3>2
  <2>4. QED
    BY <2>2, <2>3
<1>8. QED
  BY <1>7 DEF Agrees

\* What is recovered is still there when it is compared.
StillRecovered == CallsReturn /\ (pc \in {"recovered", "compiled", "matched"} => RecoveredExactly)

\* Recover leaves the bits of the key, and no call after it changes them or the key.
LEMMA StillRecoveredInductive == Spec => []StillRecovered
<1> DEFINE After == {"recovered", "compiled", "matched"}
<1>1. ASSUME Init PROVE pc \in After => RecoveredExactly
  BY <1>1 DEF Init
<1>2. ASSUME CallsReturn, pc \in After => RecoveredExactly, [Next]_vars
      PROVE  (pc \in After => RecoveredExactly)'
  <2>1. key' = key /\ key \in Keys
    BY <1>2 DEF CallsReturn, Next, Recover, Compile, Match, Decode, ParseAddress, vars
  <2>2. CASE Recover
    <3>1. PICK f \in Forms :
            y' = {StreamBit(n) : n \in fe_to_bytes(f, MulIn(f, fe_from_bytes(f, FieldBits(key)),
                                                            fe_from_bytes(f, {0})))}
      BY <2>2 DEF Recover
    <3>2. Agrees(y', key)
      BY <2>1, <3>1, RecoveredAgrees
    <3>3. QED
      BY <2>1, <3>2 DEF RecoveredExactly
  <2>3. CASE Compile \/ Match \/ UNCHANGED vars
    <3>1. y' = y /\ (pc' \in After => pc \in After)
      BY <2>3 DEF Compile, Match, vars
    <3>2. QED
      BY <1>2, <2>1, <3>1 DEF RecoveredExactly
  <2>4. CASE Decode \/ ParseAddress
    BY <2>4 DEF Decode, ParseAddress
  <2>5. QED
    BY <1>2, <2>2, <2>3, <2>4 DEF Next
<1> HIDE DEF After
<1>3. Spec => [](pc \in After => RecoveredExactly)
  BY <1>1, <1>2, CallsReturnInductive, PTL DEF Spec
<1>4. QED
  BY <1>3, CallsReturnInductive, PTL DEF StillRecovered, After

\* What an engine answers is whether the address of the key begins with the prefix, for
\* any keys and any prefix that compiles, whatever the form it recovers the y in
\* (MatchIsPrefix).
THEOREM MatchAlwaysPrefix == Spec => []MatchIsPrefix
<1>1. ASSUME StillRecovered PROVE MatchIsPrefix
  <2> SUFFICES ASSUME pc = "matched"
               PROVE  matched <=> IsPrefix(prefix, onion_address_from_pubkey(key))
    BY DEF MatchIsPrefix
  <2>1. /\ key \in Keys /\ prefix \in Requests /\ pattern = compile_prefix(prefix)
        /\ pattern.ok /\ matched = matches(pattern.value, y) /\ Agrees(y, key)
    BY <1>1 DEF StillRecovered, CallsReturn, RecoveredExactly
  <2>2. prefix \in Seq(0..Other)
    BY <2>1, MatchAssumption
  <2>3. matches(compile_prefix(prefix).value, y) <=> IsPrefix(prefix, onion_address_from_pubkey(key))
    BY <2>1, <2>2, MaskedComparisonIsPrefix
  <2>4. QED
    BY <2>1, <2>3
<1>2. QED
  BY <1>1, StillRecoveredInductive, PTL
==============================================================================
