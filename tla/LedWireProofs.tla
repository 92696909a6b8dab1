--------------------------- MODULE LedWireProofs ---------------------------
(***************************************************************************)
(* What the two bytes of a number keep, for every number and every build,  *)
(* and the arithmetic of grids and of positions in a sequence.             *)
(***************************************************************************)
EXTENDS LedWire, TLAPS, WellFoundedInduction

\* The set of bytes by its bounds: cited in the place of the definition, which the provers
\* would unfold to one disjunct per number.
LEMMA ByteRange == \A n : n \in Byte <=> n \in Int /\ 0 <= n /\ n < 256
<1>1. UCharMax \in Int /\ UCharMax + 1 = 256
  BY DEF UCharMax
<1>2. QED
  BY <1>1 DEF Byte

\* The same for the unsigned shorts.
LEMMA UShortRange == \A n : n \in UShort <=> n \in Int /\ 0 <= n /\ n < 65536
<1>1. UShortMax \in Int /\ UShortMax + 1 = 65536
  BY DEF UShortMax
<1>2. QED
  BY <1>1 DEF UShort

\* The two bytes of an unsigned short are bytes, and make it up.
LEMMA BytesOfUShort ==
    ASSUME NEW v \in UShort
    PROVE  /\ HighByte(v) \in Byte /\ LowByte(v) \in Byte
           /\ v = 256 * HighByte(v) + LowByte(v)
<1>1. v \in Int /\ 0 <= v /\ v < 65536
  BY UShortRange
<1>2. /\ v \div 256 \in Int /\ 0 <= v \div 256 /\ v \div 256 < 256
      /\ v % 256 \in Int /\ 0 <= v % 256 /\ v % 256 < 256
      /\ v = 256 * (v \div 256) + (v % 256)
  BY <1>1
<1>3. QED
  BY <1>2, ByteRange DEF HighByte, LowByte

\* Storing in an unsigned short keeps what fits, and always fits.
LEMMA UShortCast ==
    /\ \A n \in Int : ToUShort(n) \in UShort
    /\ \A n \in UShort : ToUShort(n) = n
<1>1. \A n \in Int : n % 65536 \in Int /\ 0 <= n % 65536 /\ n % 65536 < 65536
  OBVIOUS
<1>2. \A n \in Int : 0 <= n /\ n < 65536 => n % 65536 = n
  OBVIOUS
<1>3. QED
  BY <1>1, <1>2, UShortRange DEF ToUShort

\* Multiples of 2^16 are dropped: the four that the sums of DecodeUShort can contain.
LEMMA UShortWraps ==
    /\ \A n \in Int : -65536 <= n /\ n < 0 => ToUShort(n) = n + 65536
    /\ \A n \in Int : 65536 <= n /\ n < 131072 => ToUShort(n) = n - 65536
    /\ \A n \in Int : 16711680 <= n /\ n < 16777216 => ToUShort(n) = n - 16711680
    /\ \A n \in Int : 16777216 <= n /\ n < 16842752 => ToUShort(n) = n - 16777216
<1>1. \A v, k \in Int : 0 <= v /\ v < 65536 => (65536 * k + v) % 65536 = v
  OBVIOUS
<1>2. ASSUME NEW n \in Int, NEW k \in Int, 65536 * k <= n, n < 65536 * k + 65536
      PROVE  n % 65536 = n - 65536 * k
  <2>1. n - 65536 * k \in Int /\ 0 <= n - 65536 * k /\ n - 65536 * k < 65536
    BY <1>2
  <2>2. (65536 * k + (n - 65536 * k)) % 65536 = n - 65536 * k
    BY <1>1, <2>1
  <2>3. 65536 * k + (n - 65536 * k) = n
    BY <1>2
  <2>4. QED
    BY <2>2, <2>3
<1>3. \A n \in Int : -65536 <= n /\ n < 0 => n % 65536 = n + 65536
  <2>1. \A n \in Int : 65536 * (-1) <= n /\ n < 65536 * (-1) + 65536 => n % 65536 = n - 65536 * (-1)
    BY <1>2
  <2>2. QED
    BY <2>1
<1>4. \A n \in Int : 65536 <= n /\ n < 131072 => n % 65536 = n - 65536
  <2>1. \A n \in Int : 65536 * 1 <= n /\ n < 65536 * 1 + 65536 => n % 65536 = n - 65536 * 1
    BY <1>2
  <2>2. QED
    BY <2>1
<1>5. \A n \in Int : 16711680 <= n /\ n < 16777216 => n % 65536 = n - 16711680
  <2>1. \A n \in Int : 65536 * 255 <= n /\ n < 65536 * 255 + 65536 => n % 65536 = n - 65536 * 255
    BY <1>2
  <2>2. QED
    BY <2>1
<1>6. \A n \in Int : 16777216 <= n /\ n < 16842752 => n % 65536 = n - 16777216
  <2>1. \A n \in Int : 65536 * 256 <= n /\ n < 65536 * 256 + 65536 => n % 65536 = n - 65536 * 256
    BY <1>2
  <2>2. QED
    BY <2>1
<1>7. QED
  BY <1>3, <1>4, <1>5, <1>6 DEF ToUShort
\* What a char contributes: its byte, and all the high bits if it is taken for negative.
LEMMA CharInUShort ==
    ASSUME NEW charMax \in Int, NEW byte \in Int, 0 <= byte, byte < 256
    PROVE  /\ byte > charMax => ToUShort(CharValue(charMax, byte)) = byte + 65280
           /\ byte <= charMax => ToUShort(CharValue(charMax, byte)) = byte
<1>1. ASSUME byte > charMax
      PROVE  ToUShort(CharValue(charMax, byte)) = byte + 65280
  <2>1. CharValue(charMax, byte) = byte - 256
    BY <1>1 DEF CharValue
  <2>2. ToUShort(byte - 256) = byte + 65280
    BY UShortWraps
  <2>3. QED
    BY <2>1, <2>2
<1>2. ASSUME byte <= charMax
      PROVE  ToUShort(CharValue(charMax, byte)) = byte
  <2>1. CharValue(charMax, byte) = byte
    BY <1>2 DEF CharValue
  <2>2. ToUShort(byte) = byte
    BY UShortCast, UShortRange
  <2>3. QED
    BY <2>1, <2>2
<1>3. QED
  BY <1>1, <1>2

\* What two bytes decode to.  The sign of the high byte is shifted out; that of the low byte
\* costs 256, or makes a small number large.
LEMMA DecodeValue ==
    ASSUME NEW charMax \in Int, NEW high \in Int, NEW low \in Int,
           0 <= charMax, 0 <= high, high < 256, 0 <= low, low < 256
    PROVE  /\ low <= charMax => DecodeUShort(charMax, high, low) = 256 * high + low
           /\ low > charMax /\ high = 0 => DecodeUShort(charMax, high, low) = low + 65280
           /\ low > charMax /\ high > 0 =>
                DecodeUShort(charMax, high, low) = 256 * high + low - 256
<1>1. CASE high <= charMax /\ low <= charMax
  <2>1. ToUShort(CharValue(charMax, high)) = high /\ ToUShort(CharValue(charMax, low)) = low
    BY <1>1, CharInUShort
  <2>2. DecodeUShort(charMax, high, low) = ToUShort(256 * high + low)
    BY <2>1 DEF DecodeUShort
  <2>3. ToUShort(256 * high + low) = 256 * high + low
    BY UShortCast, UShortRange
  <2>4. QED
    BY <1>1, <2>2, <2>3
<1>2. CASE high <= charMax /\ low > charMax
  <2>1. ToUShort(CharValue(charMax, high)) = high /\ ToUShort(CharValue(charMax, low)) = low + 65280
    BY <1>2, CharInUShort
  <2>2. DecodeUShort(charMax, high, low) = ToUShort(256 * high + (low + 65280))
    BY <2>1 DEF DecodeUShort
  <2>3. high = 0 => ToUShort(256 * high + (low + 65280)) = low + 65280
    BY UShortCast, UShortRange
  <2>4. high > 0 => ToUShort(256 * high + (low + 65280)) = 256 * high + low - 256
    BY <1>2, UShortWraps
  <2>5. QED
    BY <1>2, <2>2, <2>3, <2>4
<1>3. CASE high > charMax /\ low <= charMax
  <2>1. ToUShort(CharValue(charMax, high)) = high + 65280 /\ ToUShort(CharValue(charMax, low)) = low
    BY <1>3, CharInUShort
  <2>2. DecodeUShort(charMax, high, low) = ToUShort(256 * (high + 65280) + low)
    BY <2>1 DEF DecodeUShort
  <2>3. ToUShort(256 * (high + 65280) + low) = 256 * high + low
    BY <1>3, UShortWraps
  <2>4. QED
    BY <1>3, <2>2, <2>3
<1>4. CASE high > charMax /\ low > charMax
  <2>1. /\ ToUShort(CharValue(charMax, high)) = high + 65280
        /\ ToUShort(CharValue(charMax, low)) = low + 65280
    BY <1>4, CharInUShort
  <2>2. DecodeUShort(charMax, high, low) = ToUShort(256 * (high + 65280) + (low + 65280))
    BY <2>1 DEF DecodeUShort
  <2>3. ToUShort(256 * (high + 65280) + (low + 65280)) = 256 * high + low - 256
    BY <1>4, UShortWraps
  <2>4. high # 0
    BY <1>4
  <2>5. QED
    BY <1>4, <2>2, <2>3, <2>4
<1>5. QED
  BY <1>1, <1>2, <1>3, <1>4

\* Whatever two bytes arrive, what they decode to fits in an unsigned short.
LEMMA DecodeType ==
    ASSUME NEW charMax \in CharMaxima, NEW high \in Byte, NEW low \in Byte
    PROVE  DecodeUShort(charMax, high, low) \in UShort
<1>1. /\ charMax \in Int /\ 0 <= charMax
      /\ high \in Int /\ low \in Int
  BY ByteRange DEF CharMaxima, SignedChar, UnsignedChar
<1>2. CharValue(charMax, high) \in Int /\ CharValue(charMax, low) \in Int
  BY <1>1 DEF CharValue
<1>3. /\ ToUShort(CharValue(charMax, high)) \in Int
      /\ ToUShort(CharValue(charMax, low)) \in Int
  BY <1>2, UShortCast, UShortRange
<1>4. 256 * ToUShort(CharValue(charMax, high)) + ToUShort(CharValue(charMax, low)) \in Int
  BY <1>3
<1>5. QED
  BY <1>4, UShortCast DEF DecodeUShort

\* A number survives the wire if char is unsigned, or if its low byte is below 128: what either
\* side rebuilds in processSocketReading is what the other side took apart.
THEOREM RoundTrip ==
    ASSUME NEW charMax \in CharMaxima, NEW v \in UShort, Survives(charMax, v)
    PROVE  DecodeUShort(charMax, HighByte(v), LowByte(v)) = v
<1>1. /\ HighByte(v) \in Int /\ 0 <= HighByte(v) /\ HighByte(v) < 256
      /\ LowByte(v) \in Int /\ 0 <= LowByte(v) /\ LowByte(v) < 256
      /\ v = 256 * HighByte(v) + LowByte(v)
  BY BytesOfUShort, ByteRange
<1>2. charMax \in Int /\ 0 <= charMax /\ LowByte(v) <= charMax
  BY DEF Survives, CharMaxima, SignedChar, UnsignedChar
<1>3. DecodeUShort(charMax, HighByte(v), LowByte(v)) = 256 * HighByte(v) + LowByte(v)
  BY <1>1, <1>2, DecodeValue
<1>4. QED
  BY <1>1, <1>3

\* When it does not survive, it never arrives right: it comes out 256 too small, or, if it was
\* below 256, far too large.
THEOREM SignedCharLoses ==
    ASSUME NEW charMax \in CharMaxima, NEW v \in UShort, ~Survives(charMax, v)
    PROVE  DecodeUShort(charMax, HighByte(v), LowByte(v)) # v
<1>1. /\ HighByte(v) \in Int /\ 0 <= HighByte(v) /\ HighByte(v) < 256
      /\ LowByte(v) \in Int /\ 0 <= LowByte(v) /\ LowByte(v) < 256
      /\ v = 256 * HighByte(v) + LowByte(v)
  BY BytesOfUShort, ByteRange
<1>2. charMax \in Int /\ 0 <= charMax /\ LowByte(v) > charMax
  BY <1>1 DEF Survives, CharMaxima, SignedChar, UnsignedChar
<1>3. \A high, low \in Int :
        /\ 0 <= high /\ high < 256 /\ 0 <= low /\ low < 256 /\ low > charMax
        => DecodeUShort(charMax, high, low) # 256 * high + low
  <2>1. TAKE high, low \in Int
  <2>2. HAVE 0 <= high /\ high < 256 /\ 0 <= low /\ low < 256 /\ low > charMax
  <2>3. CASE high = 0
    BY <1>2, <2>2, <2>3, DecodeValue
  <2>4. CASE high > 0
    BY <1>2, <2>2, <2>4, DecodeValue
  <2>5. QED
    BY <2>2, <2>3, <2>4
<1>4. QED
  BY <1>1, <1>2, <1>3

-----------------------------------------------------------------------------
(* A grid numbered row by row *)

\* Multiplying keeps an order.
LEMMA TimesMonotone ==
    ASSUME NEW a \in Nat, NEW b \in Nat, NEW n \in Nat, a <= b
    PROVE  a * n <= b * n
OBVIOUS

\* Each number below the number of LEDs is the number of an LED of the grid.
LEMMA PositionInGrid ==
    ASSUME NEW position \in Nat, NEW rows \in Nat, NEW columns \in Nat \ {0},
           position < rows * columns
    PROVE  /\ position \div columns \in 0..(rows - 1)
           /\ position % columns \in 0..(columns - 1)
           /\ position = (position \div columns) * columns + (position % columns)
<1> DEFINE q == position \div columns
           m == position % columns
<1>1. /\ q \in Nat /\ m \in Nat /\ m < columns
      /\ position = q * columns + m
  OBVIOUS
<1> HIDE DEF q, m
<1>2. ~(rows <= q)
  <2>1. SUFFICES ASSUME rows <= q PROVE FALSE
    OBVIOUS
  <2>2. rows * columns <= q * columns
    BY <1>1, <2>1, TimesMonotone
  <2>3. q * columns \in Nat /\ rows * columns \in Nat
    BY <1>1
  <2>4. QED
    BY <1>1, <2>2, <2>3
<1>3. q \in 0..(rows - 1) /\ m \in 0..(columns - 1)
  BY <1>1, <1>2
<1>4. QED
  BY <1>1, <1>3 DEF q, m

\* The number of a LED is below the number of LEDs.
LEMMA AddressInGrid ==
    ASSUME NEW row \in Nat, NEW column \in Nat, NEW rows \in Nat, NEW columns \in Nat,
           row < rows, column < columns
    PROVE  row * columns + column < rows * columns
<1>1. (row + 1) * columns <= rows * columns
  <2>1. row + 1 \in Nat /\ row + 1 <= rows
    OBVIOUS
  <2>2. QED
    BY <2>1, TimesMonotone
<1>2. (row + 1) * columns = row * columns + columns
  OBVIOUS
<1>3. row * columns \in Nat /\ rows * columns \in Nat
  OBVIOUS
<1>4. QED
  BY <1>1, <1>2, <1>3

\* A LED is found again from its number.
LEMMA PositionOfAddress ==
    ASSUME NEW row \in Nat, NEW column \in Nat, NEW columns \in Nat, column < columns
    PROVE  /\ (row * columns + column) \div columns = row
           /\ (row * columns + column) % columns = column
<1> DEFINE a == row * columns + column
           q == a \div columns
           m == a % columns
<1>1. /\ q \in Nat /\ m \in Nat /\ m < columns
      /\ a = q * columns + m
  OBVIOUS
<1> HIDE DEF q, m
<1>2. ~(q < row)
  <2>1. SUFFICES ASSUME q < row PROVE FALSE
    OBVIOUS
  <2>2. (q + 1) * columns <= row * columns
    <3>1. q + 1 \in Nat /\ q + 1 <= row
      BY <1>1, <2>1
    <3>2. QED
      BY <3>1, TimesMonotone
  <2>3. (q + 1) * columns = q * columns + columns
    BY <1>1
  <2>4. QED
    BY <1>1, <2>2, <2>3
<1>3. ~(row < q)
  <2>1. SUFFICES ASSUME row < q PROVE FALSE
    OBVIOUS
  <2>2. (row + 1) * columns <= q * columns
    <3>1. row + 1 \in Nat /\ row + 1 <= q
      BY <1>1, <2>1
    <3>2. QED
      BY <1>1, <3>1, TimesMonotone
  <2>3. (row + 1) * columns = row * columns + columns
    OBVIOUS
  <2>4. QED
    BY <1>1, <2>2, <2>3
<1>4. q = row
  BY <1>1, <1>2, <1>3
<1>5. m = column
  BY <1>1, <1>4
<1>6. QED
  BY <1>4, <1>5 DEF q, m

-----------------------------------------------------------------------------
(* Positions in a sequence *)

\* Of finitely many positions, one is the last.
LEMMA LastExists ==
    ASSUME NEW n \in Nat, NEW S, S \subseteq 1..n, S # {}
    PROVE  \E last \in S : \A i \in S : last >= i
<1> DEFINE R == OpToRel(<, Nat)
           T == {k \in Nat : n - k \in S}
<1>1. T \subseteq Nat /\ T # {}
  <2>1. PICK i \in S : TRUE
    OBVIOUS
  <2>2. i \in 1..n
    BY <2>1
  <2>3. n - i \in Nat /\ n - (n - i) = i
    BY <2>2
  <2>4. QED
    BY <2>1, <2>3
<1>2. PICK x \in T : \A y \in T : ~ (<<y, x>> \in R)
  <2> HIDE DEF T, R
  <2>1. IsWellFoundedOn(R, Nat)
    BY NatLessThanWellFounded DEF R
  <2>2. QED
    BY <1>1, <2>1, WFMin
<1>3. \A i \in S : n - x >= i
  <2>1. TAKE i \in S
  <2>2. i \in 1..n /\ x \in Nat
    BY <1>1
  <2>3. n - i \in Nat /\ n - (n - i) = i
    BY <2>2
  <2>4. n - i \in T
    BY <2>3
  <2>5. ~ (n - i < x)
    BY <1>2, <2>2, <2>3, <2>4 DEF OpToRel
  <2>6. QED
    BY <2>2, <2>5
<1>4. n - x \in S
  OBVIOUS
<1>5. QED
  BY <1>3, <1>4
=============================================================================
