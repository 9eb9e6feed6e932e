------------------------- MODULE HeaderBytesProofs -------------------------
(***************************************************************************)
(* The reader keeps in step with the claims, and what it holds is whole,   *)
(* in every ring, whatever the sizes and payloads: HeaderBytes!BytesInv is *)
(* inductive as long as no abs_offset that a release leaves behind looks   *)
(* like a commit flag.                                                     *)
(***************************************************************************)
EXTENDS HeaderBytes, RingLayoutProofs

-----------------------------------------------------------------------------
(* Bytes of numbers, fields of headers *)

Memory == [Positions -> Byte]
Fields == {AbsOffset, MessageSize, Type, NumReaders, CommitFlag}

LEMMA FourBytes ==
  LargestQueue \in Nat /\ LargestQueue < 256 * (256 * (256 * 256))
BY DEF LargestQueue

LEMMA DigitTyping ==
  ASSUME NEW value \in Nat, NEW k \in Nat
  PROVE  Digit(value, k) \in Byte
<1>1. \A n \in Nat : n % 256 \in Byte /\ n \div 256 \in Nat
  BY DEF Byte
<1>2. \A n \in Nat : \A j \in 1 .. 4 : Shifted(n)[j] \in Nat
  BY <1>1 DEF Shifted
<1> DEFINE half == IF k < 4 THEN value ELSE Shifted(value)[4] \div 256
<1>3. half \in Nat
  BY <1>1, <1>2
<1>4. 1 + (k % 4) \in 1 .. 4
  OBVIOUS
<1>5. Digit(value, k) = Shifted(half)[1 + (k % 4)] % 256
  BY DEF Digit
<1> HIDE DEF half
<1> QED BY <1>1, <1>2, <1>3, <1>4, <1>5

\* A number below 256 is its own lowest byte.
LEMMA DigitsOfByte ==
  ASSUME NEW value \in Byte
  PROVE  /\ Digit(value, 0) = value
         /\ \A k \in 1 .. 7 : Digit(value, k) = 0
<1>1. value % 256 = value /\ value \div 256 = 0 /\ 0 \div 256 = 0 /\ 0 % 256 = 0
  BY DEF Byte
<1>2. Shifted(value) = <<value, 0, 0, 0>> /\ Shifted(0) = <<0, 0, 0, 0>>
  BY <1>1 DEF Shifted
<1>3. Digit(value, 0) = value
  BY <1>1, <1>2 DEF Digit
<1>4. ASSUME NEW k \in 1 .. 7
      PROVE  Digit(value, k) = 0
  <2>1. k \in {1, 2, 3, 4, 5, 6, 7}
    OBVIOUS
  <2> QED BY <1>1, <1>2, <2>1 DEF Digit
<1> QED BY <1>3, <1>4

\* Four bytes hold every size of a message.
LEMMA DigitsOfWord ==
  ASSUME NEW value \in 0 .. LargestQueue
  PROVE  Digit(value, 0) + 256 * (Digit(value, 1) + 256 * (Digit(value, 2)
           + 256 * Digit(value, 3))) = value
<1> DEFINE d1 == value \div 256
           d2 == d1 \div 256
           d3 == d2 \div 256
<1>1. /\ Digit(value, 0) = value % 256
      /\ Digit(value, 1) = d1 % 256
      /\ Digit(value, 2) = d2 % 256
      /\ Digit(value, 3) = d3 % 256
  BY DEF Digit, Shifted
<1>2. \A n \in Nat : /\ n \div 256 \in Nat
                      /\ n % 256 \in 0 .. 255
                      /\ n = 256 * (n \div 256) + (n % 256)
  OBVIOUS
<1>3. value \in Nat /\ value < 256 * (256 * (256 * 256))
  BY FourBytes
<1>4. /\ d1 \in Nat /\ value = 256 * d1 + (value % 256)
      /\ d2 \in Nat /\ d1 = 256 * d2 + (d1 % 256)
      /\ d3 \in Nat /\ d2 = 256 * d3 + (d2 % 256)
  BY <1>2, <1>3
<1>5. value % 256 \in 0 .. 255 /\ d1 % 256 \in 0 .. 255 /\ d2 % 256 \in 0 .. 255
  BY <1>2, <1>3, <1>4
<1> HIDE DEF d1, d2, d3
<1>6. d3 < 256
  BY <1>3, <1>4, <1>5
<1>7. d3 % 256 = d3
  BY <1>4, <1>6
<1> QED BY <1>1, <1>4, <1>5, <1>7

\* The fields lie in the header, apart from each other.
LEMMA FieldLayout ==
  ASSUME NEW f \in Fields
  PROVE  /\ f.at \in Nat
         /\ f.width \in 1 .. 8
         /\ f.at + f.width <= HeaderSize
         /\ \A g \in Fields :
              g = f \/ g.at + g.width <= f.at \/ f.at + f.width <= g.at
BY BytesAssumption
DEF Fields, AbsOffset, MessageSize, Type, NumReaders, CommitFlag

\* A store writes its field and nothing else.
LEMMA StoreEffect ==
  ASSUME NEW m \in Memory, NEW h \in Nat, NEW f \in Fields, NEW value \in Nat
  PROVE  /\ Store(m, h, f, value) \in Memory
         /\ \A i \in Positions :
              i < h + f.at \/ i >= h + f.at + f.width =>
                Store(m, h, f, value)[i] = m[i]
         /\ h + HeaderSize <= QueueSize =>
              HoldsValue(Store(m, h, f, value), h, f, value)
<1>1. f.at \in Nat /\ f.width \in 1 .. 8 /\ f.at + f.width <= HeaderSize
  BY FieldLayout
<1>2. Store(m, h, f, value) \in Memory
  BY <1>1, DigitTyping DEF Store, Memory, Positions
<1>3. \A i \in Positions :
        i < h + f.at \/ i >= h + f.at + f.width =>
          Store(m, h, f, value)[i] = m[i]
  BY <1>1, LayoutAssumption DEF Store, Positions
<1>4. ASSUME h + HeaderSize <= QueueSize, NEW k \in 0 .. (f.width - 1)
      PROVE  Store(m, h, f, value)[h + f.at + k] = Digit(value, k)
  <2>1. /\ h + f.at + k \in Positions
        /\ (h + f.at + k) - h - f.at = k
    BY <1>1, <1>4, LayoutAssumption, BytesAssumption DEF Positions
  <2> QED BY <2>1, <1>4 DEF Store
<1> QED BY <1>2, <1>3, <1>4 DEF HoldsValue

\* What a field holds depends on its own bytes only.
LEMMA HoldsFrame ==
  ASSUME NEW m, NEW n, NEW h \in Nat, NEW f \in Fields, NEW value,
         \A k \in f.at .. (f.at + f.width - 1) : n[h + k] = m[h + k],
         HoldsValue(m, h, f, value)
  PROVE  HoldsValue(n, h, f, value)
<1>1. f.at \in Nat /\ f.width \in 1 .. 8
  BY FieldLayout
<1> SUFFICES ASSUME NEW k \in 0 .. (f.width - 1)
             PROVE  n[h + f.at + k] = Digit(value, k)
  BY DEF HoldsValue
<1>2. m[h + f.at + k] = Digit(value, k)
  BY DEF HoldsValue
<1>3. f.at + k \in f.at .. (f.at + f.width - 1)
  BY <1>1
<1>4. h + (f.at + k) = h + f.at + k
  BY <1>1
<1> QED BY <1>2, <1>3, <1>4

\* What is read back is what was stored.
LEMMA LoadSize ==
  ASSUME NEW m \in Memory, NEW h \in Nat, NEW value \in 0 .. LargestQueue,
         HoldsValue(m, h, MessageSize, value)
  PROVE  Load(m, h, MessageSize) = value
<1>1. /\ m[h + 8 + 0] = Digit(value, 0)
      /\ m[h + 8 + 1] = Digit(value, 1)
      /\ m[h + 8 + 2] = Digit(value, 2)
      /\ m[h + 8 + 3] = Digit(value, 3)
  BY DEF HoldsValue, MessageSize
<1>2. Load(m, h, MessageSize)
        = Digit(value, 0) + 256 * (Digit(value, 1) + 256 * (Digit(value, 2)
            + 256 * Digit(value, 3)))
  BY <1>1 DEF Load, MessageSize
<1> QED BY <1>2, DigitsOfWord

LEMMA LoadByte ==
  ASSUME NEW m \in Memory, NEW h \in Nat, NEW value \in Byte,
         HoldsValue(m, h, NumReaders, value)
  PROVE  Load(m, h, NumReaders) = value
<1>1. m[h + 16 + 0] = value
  BY DigitsOfByte DEF HoldsValue, NumReaders
<1> QED BY <1>1 DEF Load, NumReaders, Byte

\* A payload is filled and nothing else.
LEMMA FillEffect ==
  ASSUME NEW m \in Memory, NEW h \in Nat, NEW size \in Nat, NEW byte \in Byte
  PROVE  /\ Fill(m, h, size, byte) \in Memory
         /\ \A i \in Positions :
              i < h + HeaderSize \/ i >= h + HeaderSize + size =>
                Fill(m, h, size, byte)[i] = m[i]
         /\ \A i \in Positions :
              i >= h + HeaderSize /\ i < h + HeaderSize + size =>
                Fill(m, h, size, byte)[i] = byte
BY LayoutAssumption DEF Fill, Memory, Positions

-----------------------------------------------------------------------------
(* Places in the ring *)

InClaim(c, i) == Rel(c.off) <= i /\ i < Rel(c.off) + (EndOf(c) - c.off)

\* Two stretches of one lap that do not overlap share no position.
LEMMA Apart ==
  ASSUME NEW low \in Nat, NEW a \in Nat, NEW la \in Nat,
         NEW b \in Nat, NEW lb \in Nat,
         low <= a, a + la <= low + QueueSize,
         low <= b, b + lb <= low + QueueSize,
         a + la <= b \/ b + lb <= a,
         Rel(a) + la <= QueueSize, Rel(b) + lb <= QueueSize,
         NEW i \in Int, Rel(a) <= i, i < Rel(a) + la
  PROVE  i < Rel(b) \/ i >= Rel(b) + lb
<1>1. Rel(a) \in Nat /\ Rel(b) \in Nat /\ QueueSize \in Nat
  BY RelTyping, LayoutAssumption
<1> SUFFICES ASSUME Rel(b) <= i, i < Rel(b) + lb
             PROVE  FALSE
  BY <1>1
<1> DEFINE x == a + (i - Rel(a))
           y == b + (i - Rel(b))
<1>2. Rel(x) = i
  <2>1. i - Rel(a) \in Nat /\ Rel(a) + (i - Rel(a)) < QueueSize
    BY <1>1
  <2>2. Rel(a + (i - Rel(a))) = Rel(a) + (i - Rel(a))
    BY <2>1, RelSum
  <2> QED BY <1>1, <2>2
<1>3. Rel(y) = i
  <2>1. i - Rel(b) \in Nat /\ Rel(b) + (i - Rel(b)) < QueueSize
    BY <1>1
  <2>2. Rel(b + (i - Rel(b))) = Rel(b) + (i - Rel(b))
    BY <2>1, RelSum
  <2> QED BY <1>1, <2>2
<1>4. /\ x \in Nat /\ y \in Nat
      /\ x - y < QueueSize /\ y - x < QueueSize
      /\ x # y
  BY <1>1
<1> HIDE DEF x, y
<1> QED BY <1>2, <1>3, <1>4, WindowInjective

\* Adding a whole number of units keeps a position aligned.
LEMMA UnitSum ==
  ASSUME NEW a \in Nat, NEW b \in Nat, a % Unit = 0, b % Unit = 0
  PROVE  (a + b) % Unit = 0
<1> DEFINE p == a \div Unit
           q == b \div Unit
<1>1. Unit \in Nat \ {0}
  BY BytesAssumption
<1>2. p \in Int /\ q \in Int /\ a = Unit * p /\ b = Unit * q
  BY <1>1
<1> HIDE DEF p, q
<1>3. a + b = Unit * (p + q)
  BY <1>1, <1>2
<1>4. (Unit * (p + q)) % Unit = 0
  BY <1>1, <1>2
<1> QED BY <1>3, <1>4

\* The shape of a claim: it holds a header, ends inside the region, and at a
\* place for the next claim.
LEMMA ClaimShape ==
  ASSUME NEW c \in ClaimRecords, Place(c.off)
  PROVE  /\ c.off \in Nat /\ c.size \in Nat /\ c.size >= 1
         /\ Rel(c.off) \in Positions
         /\ Rel(c.off) + HeaderSize <= QueueSize
         /\ EndOf(c) \in Nat
         /\ c.off + HeaderSize <= EndOf(c)
         /\ EndOf(c) <= c.off + QueueSize
         /\ Rel(c.off) + (EndOf(c) - c.off) <= QueueSize
         /\ IsMessage(c) => EndOf(c) = c.off + (c.size + HeaderSize)
         /\ ~IsMessage(c) => /\ EndOf(c) = c.off + Remaining(c.off)
                             /\ Rel(EndOf(c)) = 0
         /\ StoredSize(c) \in Nat /\ StoredSize(c) \in 0 .. LargestQueue
         /\ Place(EndOf(c))
<1>1. /\ c.off \in Nat /\ c.size \in AcceptedSizes /\ c.size \in Sizes
      /\ Rel(c.off) <= QueueSize - HeaderSize
  BY BytesAssumption DEF ClaimRecords, Place
<1>2. /\ QueueSize \in Nat /\ HeaderSize \in Nat \ {0}
      /\ LargestQueue \in Nat /\ QueueSize <= LargestQueue
      /\ c.size \in Nat /\ c.size >= 1
      /\ Rel(c.off) \in Nat /\ Rel(c.off) \in 0 .. (QueueSize - 1)
  BY <1>1, RelTyping, LayoutAssumption, BytesAssumption, FourBytes
  DEF AcceptedSizes
<1>3. Bump(c.off, Total(c.size)) \in HeaderSize .. QueueSize
  BY <1>1, BumpTyping
<1>4. EndOf(c) \in Nat /\ EndOf(c) - c.off = Bump(c.off, Total(c.size))
  BY <1>1, <1>2, <1>3 DEF EndOf
<1>5. /\ IsMessage(c) =>
           /\ EndOf(c) = c.off + (c.size + HeaderSize)
           /\ Rel(c.off) + (c.size + HeaderSize) + HeaderSize <= QueueSize
      /\ ~IsMessage(c) => EndOf(c) = c.off + Remaining(c.off)
      /\ Remaining(c.off) = QueueSize - Rel(c.off)
  BY <1>1, <1>2 DEF EndOf, IsMessage, Bump, Fits, Total, Remaining
<1>6. ~IsMessage(c) => Rel(EndOf(c)) = 0
  BY <1>1, <1>5, RelLap
<1>7. Place(EndOf(c))
  <2>1. CASE ~IsMessage(c)
    <3>1. 0 % Unit = 0
      BY BytesAssumption
    <3> QED BY <2>1, <3>1, <1>2, <1>6, LayoutAssumption DEF Place
  <2>2. CASE IsMessage(c)
    <3>1. Rel(EndOf(c)) = Rel(c.off) + (c.size + HeaderSize)
      BY <1>1, <1>2, <1>5, <2>2, RelSum
    <3>2. (c.size + HeaderSize) % Unit = 0 /\ Rel(c.off) % Unit = 0
      BY <1>1, BytesAssumption DEF Total, Place
    <3>3. Rel(EndOf(c)) % Unit = 0
      BY <1>2, <3>1, <3>2, UnitSum
    <3> QED BY <1>2, <1>5, <2>2, <3>1, <3>3 DEF Place
  <2> QED BY <2>1, <2>2
<1> QED BY <1>2, <1>3, <1>4, <1>5, <1>6, <1>7, <1>1
        DEF StoredSize, Positions

\* What a claim stores is a matter of its own bytes.
LEMMA HeldFrame ==
  ASSUME NEW c \in ClaimRecords, Place(c.off), NEW m, NEW n,
         \A i \in Positions : InClaim(c, i) => n[i] = m[i]
  PROVE  /\ HeaderHeld(m, c) => HeaderHeld(n, c)
         /\ FlagHeld(m, c) => FlagHeld(n, c)
         /\ IsMessage(c) /\ PayloadHeld(m, c) => PayloadHeld(n, c)
<1> DEFINE h == Rel(c.off)
<1>1. /\ h \in Nat /\ h + HeaderSize <= QueueSize
      /\ c.off \in Nat /\ EndOf(c) \in Nat /\ c.off + HeaderSize <= EndOf(c)
      /\ h + (EndOf(c) - c.off) <= QueueSize
      /\ c.size \in Nat
      /\ IsMessage(c) => EndOf(c) = c.off + (c.size + HeaderSize)
      /\ HeaderSize \in Nat /\ QueueSize \in Nat
  BY ClaimShape, LayoutAssumption DEF Positions
<1>2. \A j \in Nat : j < EndOf(c) - c.off => n[h + j] = m[h + j]
  BY <1>1 DEF InClaim, Positions
<1> HIDE DEF h
<1>3. ASSUME NEW f \in Fields, NEW value, HoldsValue(m, h, f, value)
      PROVE  HoldsValue(n, h, f, value)
  <2>1. f.at \in Nat /\ f.width \in 1 .. 8 /\ f.at + f.width <= HeaderSize
    BY FieldLayout
  <2>2. \A k \in f.at .. (f.at + f.width - 1) : n[h + k] = m[h + k]
    BY <1>1, <1>2, <2>1
  <2> QED BY <1>1, <1>3, <2>2, HoldsFrame
<1>4. HeaderHeld(m, c) => HeaderHeld(n, c)
  BY <1>3 DEF HeaderHeld, Fields, h
<1>5. FlagHeld(m, c) => FlagHeld(n, c)
  BY <1>3 DEF FlagHeld, Fields, h
<1>6. ASSUME IsMessage(c), PayloadHeld(m, c), NEW i \in 1 .. c.size
      PROVE  n[h + HeaderSize + i - 1] = c.byte
  <2>1. /\ HeaderSize + i - 1 \in Nat
        /\ HeaderSize + i - 1 < EndOf(c) - c.off
        /\ h + (HeaderSize + i - 1) = h + HeaderSize + i - 1
    BY <1>1, <1>6
  <2>2. m[h + HeaderSize + i - 1] = c.byte
    BY <1>6 DEF PayloadHeld, h
  <2> QED BY <1>2, <2>1, <2>2
<1> QED BY <1>4, <1>5, <1>6 DEF PayloadHeld, h

\* A store in one claim disturbs no other claim of the lap.
LEMMA OtherHeld ==
  ASSUME NEW low \in Nat, NEW c \in ClaimRecords, NEW d \in ClaimRecords,
         Place(c.off), Place(d.off), low <= c.off, low <= d.off,
         EndOf(c) <= low + QueueSize, EndOf(d) <= low + QueueSize,
         EndOf(c) <= d.off \/ EndOf(d) <= c.off,
         NEW m, NEW n, \A i \in Positions : ~InClaim(c, i) => n[i] = m[i]
  PROVE  /\ HeaderHeld(m, d) => HeaderHeld(n, d)
         /\ FlagHeld(m, d) => FlagHeld(n, d)
         /\ IsMessage(d) /\ PayloadHeld(m, d) => PayloadHeld(n, d)
<1>1. /\ c.off \in Nat /\ EndOf(c) \in Nat /\ c.off <= EndOf(c)
      /\ Rel(c.off) + (EndOf(c) - c.off) <= QueueSize
  BY ClaimShape, LayoutAssumption
<1>2. /\ d.off \in Nat /\ EndOf(d) \in Nat /\ d.off <= EndOf(d)
      /\ Rel(d.off) + (EndOf(d) - d.off) <= QueueSize
  BY ClaimShape, LayoutAssumption
<1>3. ASSUME NEW i \in Positions, InClaim(d, i)
      PROVE  n[i] = m[i]
  <2>1. i \in Int
    BY LayoutAssumption DEF Positions
  <2>2. EndOf(c) - c.off \in Nat /\ EndOf(d) - d.off \in Nat
    BY <1>1, <1>2
  <2>3. i < Rel(c.off) \/ i >= Rel(c.off) + (EndOf(c) - c.off)
    <3>1. Rel(d.off) <= i /\ i < Rel(d.off) + (EndOf(d) - d.off)
      BY <1>3 DEF InClaim
    <3>2. /\ c.off + (EndOf(c) - c.off) = EndOf(c)
          /\ d.off + (EndOf(d) - d.off) = EndOf(d)
      BY <1>1, <1>2
    <3> DEFINE a == d.off
               la == EndOf(d) - d.off
               b == c.off
               lb == EndOf(c) - c.off
    <3>3. /\ a \in Nat /\ la \in Nat /\ b \in Nat /\ lb \in Nat
          /\ low <= a /\ a + la <= low + QueueSize
          /\ low <= b /\ b + lb <= low + QueueSize
          /\ a + la <= b \/ b + lb <= a
          /\ Rel(a) + la <= QueueSize /\ Rel(b) + lb <= QueueSize
          /\ Rel(a) <= i /\ i < Rel(a) + la
      BY <1>1, <1>2, <2>2, <3>1, <3>2
    <3>4. i < Rel(b) \/ i >= Rel(b) + lb
      <4> HIDE DEF a, la, b, lb
      <4> QED BY <2>1, <3>3, Apart
    <3> QED BY <3>4
  <2>4. Rel(c.off) \in Int
    BY <1>1, RelTyping
  <2> QED BY <1>1, <2>1, <2>2, <2>3, <2>4 DEF InClaim
<1> QED BY <1>3, HeldFrame

\* ... nor the rest of the lap.
LEMMA OutsideClaim ==
  ASSUME NEW low \in Nat, NEW c \in ClaimRecords, Place(c.off),
         low <= c.off, EndOf(c) <= low + QueueSize,
         NEW o \in Nat, low <= o, o < low + QueueSize,
         o < c.off \/ EndOf(c) <= o
  PROVE  Rel(o) \in Positions /\ ~InClaim(c, Rel(o))
<1>1. /\ c.off \in Nat /\ EndOf(c) \in Nat /\ c.off <= EndOf(c)
      /\ Rel(c.off) + (EndOf(c) - c.off) <= QueueSize
      /\ EndOf(c) - c.off \in Nat
  BY ClaimShape, LayoutAssumption
<1>2. Rel(o) \in 0 .. (QueueSize - 1) /\ QueueSize \in Nat
  BY RelTyping, LayoutAssumption
<1>3. Rel(o) < Rel(c.off) \/ Rel(o) >= Rel(c.off) + (EndOf(c) - c.off)
  <2>1. /\ Rel(o) + 1 <= QueueSize /\ Rel(o) \in Int /\ Rel(o) < Rel(o) + 1
        /\ o + 1 <= low + QueueSize
        /\ o + 1 <= c.off \/ EndOf(c) <= o
        /\ c.off + (EndOf(c) - c.off) = EndOf(c)
    BY <1>1, <1>2
  <2> DEFINE b == c.off
             lb == EndOf(c) - c.off
  <2>2. /\ b \in Nat /\ lb \in Nat
        /\ low <= b /\ b + lb <= low + QueueSize
        /\ o + 1 <= b \/ b + lb <= o
        /\ Rel(b) + lb <= QueueSize
    BY <1>1, <2>1
  <2>3. Rel(o) < Rel(b) \/ Rel(o) >= Rel(b) + lb
    <3> HIDE DEF b, lb
    <3>1. 1 \in Nat /\ Rel(o) <= Rel(o)
      BY <2>1
    <3> QED BY <2>1, <2>2, <3>1, Apart
  <2> QED BY <2>3
<1>4. Rel(c.off) \in Int
  BY <1>1, RelTyping
<1> QED BY <1>1, <1>2, <1>3, <1>4 DEF InClaim, Positions

\* A store leaves the other fields of the header alone.
LEMMA StoreKeeps ==
  ASSUME NEW m \in Memory, NEW h \in Nat, h + HeaderSize <= QueueSize,
         NEW f \in Fields, NEW g \in Fields, f # g,
         NEW value \in Nat, NEW other, HoldsValue(m, h, g, other)
  PROVE  HoldsValue(Store(m, h, f, value), h, g, other)
<1>1. /\ f.at \in Nat /\ f.width \in 1 .. 8
      /\ g.at \in Nat /\ g.width \in 1 .. 8 /\ g.at + g.width <= HeaderSize
      /\ g.at + g.width <= f.at \/ f.at + f.width <= g.at
  BY FieldLayout
<1>2. ASSUME NEW k \in g.at .. (g.at + g.width - 1)
      PROVE  Store(m, h, f, value)[h + k] = m[h + k]
  <2>1. h + k \in Positions
    BY <1>1, LayoutAssumption DEF Positions
  <2>2. h + k < h + f.at \/ h + k >= h + f.at + f.width
    BY <1>1
  <2> QED BY <2>1, <2>2, StoreEffect
<1> QED BY <1>2, HoldsFrame

\* What claim_buffer and insert_skip_message leave.
LEMMA HeaderStoresEffect ==
  ASSUME bytes \in Memory, writer.off \in Nat, Here \in Nat,
         Here + HeaderSize <= QueueSize,
         NEW size \in Nat, NEW type \in Nat, NEW n, n = HeaderStores(size, type)
  PROVE  /\ n \in Memory
         /\ \A i \in Positions :
              i < Here \/ i >= Here + CommitFlag.at => n[i] = bytes[i]
         /\ HoldsValue(n, Here, AbsOffset, writer.off)
         /\ HoldsValue(n, Here, MessageSize, size)
         /\ HoldsValue(n, Here, Type, type)
         /\ HoldsValue(n, Here, NumReaders, 1)
<1> DEFINE m1 == Store(bytes, Here, AbsOffset, writer.off)
           m2 == Store(m1, Here, MessageSize, size)
           m3 == Store(m2, Here, Type, type)
           m4 == Store(m3, Here, NumReaders, 1)
<1>1. /\ AbsOffset \in Fields /\ MessageSize \in Fields /\ Type \in Fields
      /\ NumReaders \in Fields
      /\ AbsOffset # MessageSize /\ AbsOffset # Type /\ AbsOffset # NumReaders
      /\ MessageSize # Type /\ MessageSize # NumReaders /\ Type # NumReaders
  BY DEF Fields, AbsOffset, MessageSize, Type, NumReaders
<1>2. n = m4
  BY DEF HeaderStores
<1>3. m1 \in Memory /\ HoldsValue(m1, Here, AbsOffset, writer.off)
  BY <1>1, StoreEffect
<1>4. /\ m2 \in Memory /\ HoldsValue(m2, Here, MessageSize, size)
      /\ HoldsValue(m2, Here, AbsOffset, writer.off)
  <2> HIDE DEF m1
  <2> QED BY <1>1, <1>3, StoreEffect, StoreKeeps
<1>5. /\ m3 \in Memory /\ HoldsValue(m3, Here, Type, type)
      /\ HoldsValue(m3, Here, MessageSize, size)
      /\ HoldsValue(m3, Here, AbsOffset, writer.off)
  <2> HIDE DEF m2
  <2> QED BY <1>1, <1>4, StoreEffect, StoreKeeps
<1>6. /\ m4 \in Memory /\ HoldsValue(m4, Here, NumReaders, 1)
      /\ HoldsValue(m4, Here, Type, type)
      /\ HoldsValue(m4, Here, MessageSize, size)
      /\ HoldsValue(m4, Here, AbsOffset, writer.off)
  <2> HIDE DEF m3
  <2> QED BY <1>1, <1>5, StoreEffect, StoreKeeps
<1>7. ASSUME NEW i \in Positions, i < Here \/ i >= Here + CommitFlag.at
      PROVE  m4[i] = bytes[i]
  <2>1. i \in Int
    BY LayoutAssumption DEF Positions
  <2>2. ASSUME NEW f \in {AbsOffset, MessageSize, Type, NumReaders}
        PROVE  i < Here + f.at \/ i >= Here + f.at + f.width
    <3>1. f.at \in Nat /\ f.width \in Nat /\ f.at + f.width <= CommitFlag.at
      BY DEF AbsOffset, MessageSize, Type, NumReaders, CommitFlag
    <3>2. CommitFlag.at \in Nat
      BY DEF CommitFlag
    <3> QED BY <1>7, <2>1, <3>1, <3>2
  <2>3. m1[i] = bytes[i]
    <3>1. i < Here + AbsOffset.at \/ i >= Here + AbsOffset.at + AbsOffset.width
      BY <2>2
    <3>2. AbsOffset \in Fields
      BY <1>1
    <3> QED BY <3>1, <3>2, StoreEffect
  <2>4. m2[i] = m1[i]
    <3> HIDE DEF m1
    <3> QED BY <1>1, <1>3, <2>2, StoreEffect
  <2>5. m3[i] = m2[i]
    <3> HIDE DEF m2
    <3> QED BY <1>1, <1>4, <2>2, StoreEffect
  <2>6. m4[i] = m3[i]
    <3> HIDE DEF m3
    <3> QED BY <1>1, <1>5, <2>2, StoreEffect
  <2> QED BY <2>3, <2>4, <2>5, <2>6
<1> QED BY <1>2, <1>6, <1>7

-----------------------------------------------------------------------------
(* The writer's claim *)

Own(w) ==
  /\ w \in claims /\ w \in ClaimRecords
  /\ w.off = writer.off /\ w.size = writer.size /\ w.status = "open"
  /\ EndOf(w) = writeOffset
  /\ Place(w.off) /\ readOffset <= w.off
  /\ \A c \in claims :
       c # w => c.status # "open" /\ c.off # w.off /\ EndOf(c) <= w.off

LEMMA OwnClaim ==
  ASSUME TypeOK, ClaimsInv, WriterInv, Pending
  PROVE  \E w \in claims : Own(w)
<1>1. PICK w \in claims : /\ w.off = writer.off /\ w.size = writer.size
                          /\ w.status = "open" /\ EndOf(w) = writeOffset
  BY DEF WriterInv
<1>2. w \in ClaimRecords /\ Place(w.off) /\ readOffset <= w.off
  BY DEF TypeOK, ClaimsInv
<1>3. ASSUME NEW c \in claims, c # w
      PROVE  c.status # "open" /\ c.off # w.off /\ EndOf(c) <= w.off
  <2>1. c \in ClaimRecords /\ Place(c.off)
    BY DEF TypeOK, ClaimsInv
  <2>2. /\ c.off \in Nat /\ EndOf(c) \in Nat /\ c.off < EndOf(c)
        /\ w.off \in Nat /\ EndOf(w) \in Nat /\ w.off < EndOf(w)
    BY <1>2, <2>1, ClaimShape, LayoutAssumption
  <2>3. EndOf(c) <= w.off \/ EndOf(w) <= c.off
    BY <1>3 DEF ClaimsInv
  <2>4. EndOf(c) <= writeOffset
    BY DEF ClaimsInv
  <2>5. EndOf(c) <= w.off /\ c.off # w.off
    BY <1>1, <2>2, <2>3, <2>4
  <2>6. c.status = "open" => c.off = writer.off
    BY DEF ClaimsInv
  <2> QED BY <1>1, <2>5, <2>6
<1> QED BY <1>1, <1>2, <1>3 DEF Own

\* The claims that are not the writer's are committed, and there.
LEMMA Committed ==
  ASSUME TypeOK, ClaimsInv, StoredInv, NEW c \in claims, c.status # "open"
  PROVE  /\ c \in ClaimRecords /\ Place(c.off)
         /\ readOffset <= c.off /\ EndOf(c) <= readOffset + QueueSize
         /\ HeaderHeld(bytes, c) /\ FlagHeld(bytes, c)
         /\ c.status = "ready" => IsMessage(c) /\ PayloadHeld(bytes, c)
BY DEF TypeOK, ClaimsInv, StoredInv

\* What the writer stores in its claim leaves every other one as it was, and
\* the space behind it quiet.
LEMMA WriterKeeps ==
  ASSUME TypeOK, ClaimsInv, QuietInv, StoredInv, Pending,
         NEW w, Own(w), writeOffset <= readOffset + QueueSize,
         NEW n, \A i \in Positions : ~InClaim(w, i) => n[i] = bytes[i]
  PROVE  /\ \A o \in writeOffset .. (readOffset + QueueSize - 1) :
              Quiet(n, Rel(o))
         /\ \A c \in claims :
              c # w => /\ HeaderHeld(n, c) /\ FlagHeld(n, c)
                       /\ c.status = "ready" => PayloadHeld(n, c)
<1>1. /\ w \in ClaimRecords /\ Place(w.off) /\ readOffset <= w.off
      /\ EndOf(w) = writeOffset /\ w.off = writer.off
      /\ readOffset \in Nat /\ writeOffset \in Nat /\ QueueSize \in Nat
  BY LayoutAssumption DEF Own, TypeOK
<1>2. w.off \in Nat /\ w.off <= EndOf(w)
  BY <1>1, ClaimShape, LayoutAssumption
<1>3. ASSUME NEW o \in writeOffset .. (readOffset + QueueSize - 1)
      PROVE  Quiet(n, Rel(o))
  <2>1. o \in FreeFrom .. (readOffset + QueueSize - 1)
    BY <1>1, <1>2 DEF FreeFrom
  <2>2. Quiet(bytes, Rel(o))
    BY <2>1 DEF QuietInv
  <2>3. Rel(o) \in Positions /\ ~InClaim(w, Rel(o))
    BY <1>1, <1>2, OutsideClaim
  <2> QED BY <2>2, <2>3 DEF Quiet
<1>4. ASSUME NEW c \in claims, c # w
      PROVE  /\ HeaderHeld(n, c) /\ FlagHeld(n, c)
             /\ c.status = "ready" => PayloadHeld(n, c)
  <2>1. c.status # "open" /\ EndOf(c) <= w.off
    BY <1>4 DEF Own
  <2>2. /\ c \in ClaimRecords /\ Place(c.off)
        /\ readOffset <= c.off /\ EndOf(c) <= readOffset + QueueSize
        /\ HeaderHeld(bytes, c) /\ FlagHeld(bytes, c)
        /\ c.status = "ready" => IsMessage(c) /\ PayloadHeld(bytes, c)
    BY <2>1, Committed
  <2> QED BY <1>1, <2>1, <2>2, OtherHeld
<1> QED BY <1>3, <1>4

\* Committing, filling or aborting a claim changes nothing of its shape.
LEMMA ClaimsSettled ==
  ASSUME TypeOK, ClaimsInv, NEW w, Own(w), writeOffset <= readOffset + QueueSize,
         NEW v \in ClaimRecords, v.off = w.off, v.size = w.size,
         v.status = "ready" => IsMessage(w),
         v.status = "open" => Pending' /\ writer'.off = writer.off,
         claims' = (claims \ {w}) \cup {v},
         UNCHANGED <<writeOffset, readOffset, reader>>
  PROVE  ClaimsInv' /\ claims' \subseteq ClaimRecords
<1>1. /\ w \in claims /\ w.off = writer.off
      /\ \A c \in claims : c # w => c.status # "open"
      /\ w \in ClaimRecords
  BY DEF Own
<1>2. /\ EndOf(v) = EndOf(w) /\ IsMessage(v) = IsMessage(w)
  BY DEF EndOf, IsMessage
<1>3. /\ reader.pos = readOffset
      /\ readOffset <= writeOffset
      /\ Place(writeOffset)
      /\ writeOffset = 0 \/ writeOffset >= HeaderSize
      /\ EndOf(w) = writeOffset
  BY DEF ClaimsInv, Own
<1>4. readOffset = writeOffset \/ \E c \in claims' : c.off = readOffset
  BY DEF ClaimsInv
<1>5. ASSUME NEW c \in claims'
      PROVE  /\ readOffset <= c.off
             /\ Place(c.off)
             /\ c.off = 0 \/ c.off >= HeaderSize
             /\ c.off < MaxOffset \/ Rel(c.off) = 0
             /\ EndOf(c) = writeOffset \/ \E d \in claims' : d.off = EndOf(c)
             /\ EndOf(c) <= writeOffset
             /\ c.status = "open" \/ EndOf(c) <= readOffset + QueueSize
             /\ c.status = "ready" => IsMessage(c)
             /\ c.status = "open" => Pending' /\ c.off = writer'.off
  <2>1. CASE c = v
    <3>1. /\ readOffset <= w.off
          /\ Place(w.off)
          /\ w.off = 0 \/ w.off >= HeaderSize
          /\ w.off < MaxOffset \/ Rel(w.off) = 0
      BY <1>1 DEF ClaimsInv
    <3>2. EndOf(w) <= writeOffset
      BY <1>1 DEF ClaimsInv
    <3> QED BY <2>1, <1>1, <1>2, <1>3, <3>1, <3>2
  <2>2. CASE c \in claims /\ c # w
    <3>1. /\ readOffset <= c.off
          /\ Place(c.off)
          /\ c.off = 0 \/ c.off >= HeaderSize
          /\ c.off < MaxOffset \/ Rel(c.off) = 0
          /\ EndOf(c) = writeOffset \/ \E d \in claims : d.off = EndOf(c)
          /\ EndOf(c) <= writeOffset
          /\ c.status = "open" \/ EndOf(c) <= readOffset + QueueSize
          /\ c.status = "ready" => IsMessage(c)
      BY <2>2 DEF ClaimsInv
    <3>2. EndOf(c) = writeOffset \/ \E d \in claims' : d.off = EndOf(c)
      BY <3>1
    <3> QED BY <2>2, <1>1, <3>1, <3>2
  <2> QED BY <2>1, <2>2
<1>6. ASSUME NEW c \in claims', NEW d \in claims', c # d
      PROVE  EndOf(c) <= d.off \/ EndOf(d) <= c.off
  <2>1. \A a, b \in claims : a = b \/ EndOf(a) <= b.off \/ EndOf(b) <= a.off
    BY DEF ClaimsInv
  <2>2. PICK a \in claims : a.off = c.off /\ EndOf(a) = EndOf(c)
                              /\ (a = w <=> c = v) /\ (a = w \/ a = c)
    <3>1. CASE c = v
      BY <3>1, <1>1, <1>2
    <3>2. CASE c # v
      BY <3>2
    <3> QED BY <3>1, <3>2
  <2>3. PICK b \in claims : b.off = d.off /\ EndOf(b) = EndOf(d)
                              /\ (b = w <=> d = v) /\ (b = w \/ b = d)
    <3>1. CASE d = v
      BY <3>1, <1>1, <1>2
    <3>2. CASE d # v
      BY <3>2
    <3> QED BY <3>1, <3>2
  <2>4. a # b
    BY <1>6, <2>2, <2>3
  <2> QED BY <2>1, <2>2, <2>3, <2>4
<1>7. ClaimsInv'
  BY <1>3, <1>4, <1>5, <1>6 DEF ClaimsInv
<1>8. claims' \subseteq ClaimRecords
  BY DEF TypeOK
<1> QED BY <1>7, <1>8

-----------------------------------------------------------------------------
(* The steps of the writer *)

LEMMA ReserveStep ==
  ASSUME BytesInv, writer.pc \in {"idle", "claiming"}, NEW size \in Sizes,
         writeOffset < MaxOffset \/ Rel(writeOffset) = 0, Reserve(size)
  PROVE  BytesInv'
<1> DEFINE n == [off |-> writeOffset, size |-> size, status |-> "open",
                 byte |-> 0]
<1>1. /\ writeOffset \in Nat /\ readOffset \in Nat /\ readOffset <= writeOffset
      /\ Place(writeOffset)
      /\ reader.pos = readOffset
      /\ claims \subseteq ClaimRecords
      /\ QueueSize \in Nat /\ HeaderSize \in Nat \ {0}
  BY LayoutAssumption DEF BytesInv, TypeOK, ClaimsInv
<1>2. /\ writer' = [pc |-> "waiting", size |-> size, off |-> writeOffset]
      /\ claims' = claims \cup {n}
      /\ writeOffset' = EndOf(n)
      /\ bytes' = bytes /\ readOffset' = readOffset /\ reader' = reader
  BY DEF Reserve, EndOf
<1>3. n \in ClaimRecords /\ n.off = writeOffset /\ n.size = size
      /\ n.status = "open"
  BY <1>1 DEF ClaimRecords, Byte
<1> HIDE DEF n
<1>4. /\ EndOf(n) \in Nat /\ writeOffset + HeaderSize <= EndOf(n)
      /\ Place(EndOf(n))
  BY <1>1, <1>3, ClaimShape
<1>5. ~Pending /\ ~Writing
  BY DEF Pending, Writing
<1>6. \A c \in claims : c.status # "open"
  BY <1>5 DEF BytesInv, ClaimsInv
<1>7. Pending' /\ ~Writing' /\ writer'.off = writeOffset /\ writer'.pc = "waiting"
  BY <1>2 DEF Pending, Writing
<1>8. TypeOK'
  <2>1. writer' \in [pc : WriterStates, size : Nat, off : Nat]
    BY <1>1, <1>2, BytesAssumption DEF WriterStates, AcceptedSizes
  <2> QED BY <1>1, <1>2, <1>3, <1>4, <2>1 DEF BytesInv, TypeOK
<1>9. ClaimsInv'
  <2>1. ASSUME NEW c \in claims'
        PROVE  /\ readOffset <= c.off
               /\ Place(c.off)
               /\ c.off = 0 \/ c.off >= HeaderSize
               /\ c.off < MaxOffset \/ Rel(c.off) = 0
               /\ EndOf(c) = EndOf(n) \/ \E d \in claims' : d.off = EndOf(c)
               /\ EndOf(c) <= EndOf(n)
               /\ c.status = "open" \/ EndOf(c) <= readOffset + QueueSize
               /\ c.status = "ready" => IsMessage(c)
               /\ c.status = "open" => Pending' /\ c.off = writer'.off
    <3>1. CASE c = n
      <4>1. writeOffset = 0 \/ writeOffset >= HeaderSize
        BY DEF BytesInv, ClaimsInv
      <4> QED BY <3>1, <4>1, <1>1, <1>3, <1>4, <1>7
    <3>2. CASE c \in claims
      <4>1. /\ readOffset <= c.off
            /\ Place(c.off)
            /\ c.off = 0 \/ c.off >= HeaderSize
            /\ c.off < MaxOffset \/ Rel(c.off) = 0
            /\ EndOf(c) = writeOffset \/ \E d \in claims : d.off = EndOf(c)
            /\ EndOf(c) <= writeOffset
            /\ c.status = "open" \/ EndOf(c) <= readOffset + QueueSize
            /\ c.status = "ready" => IsMessage(c)
        BY <3>2 DEF BytesInv, ClaimsInv
      <4>2. EndOf(c) = EndOf(n) \/ \E d \in claims' : d.off = EndOf(c)
        BY <4>1, <1>2, <1>3
      <4>3. EndOf(c) \in Nat
        BY <3>2, <4>1, <1>1, ClaimShape
      <4> QED BY <3>2, <4>1, <4>2, <4>3, <1>1, <1>4, <1>6
    <3> QED BY <1>2, <3>1, <3>2
  <2>2. ASSUME NEW c \in claims', NEW d \in claims', c # d
        PROVE  EndOf(c) <= d.off \/ EndOf(d) <= c.off
    <3>1. \A a \in claims : EndOf(a) <= n.off
      BY <1>3 DEF BytesInv, ClaimsInv
    <3>2. \A a, b \in claims : a = b \/ EndOf(a) <= b.off \/ EndOf(b) <= a.off
      BY DEF BytesInv, ClaimsInv
    <3> QED BY <1>2, <2>2, <3>1, <3>2
  <2>3. EndOf(n) >= HeaderSize /\ readOffset <= EndOf(n)
    BY <1>1, <1>4
  <2>4. readOffset = EndOf(n) \/ \E c \in claims' : c.off = readOffset
    BY <1>2, <1>3 DEF BytesInv, ClaimsInv
  <2> QED BY <1>1, <1>2, <1>4, <2>1, <2>2, <2>3, <2>4 DEF ClaimsInv
<1>10. WriterInv'
  BY <1>2, <1>3, <1>7 DEF WriterInv
<1>11. QuietInv'
  <2>1. FreeFrom' = writeOffset /\ FreeFrom = writeOffset
    BY <1>2 DEF FreeFrom
  <2> QED BY <1>2, <1>7, <2>1 DEF BytesInv, QuietInv
<1>12. StoredInv'
  <2> SUFFICES ASSUME NEW c \in claims'
               PROVE  /\ c.status # "open" => HeaderHeld(bytes, c)
                      /\ c.status # "open" => FlagHeld(bytes, c)
                      /\ c.status = "ready" => PayloadHeld(bytes, c)
    BY <1>2, <1>7 DEF StoredInv
  <2>1. CASE c = n
    BY <2>1, <1>3
  <2>2. CASE c \in claims
    BY <2>2 DEF BytesInv, StoredInv
  <2> QED BY <1>2, <2>1, <2>2
<1>13. HoldingInv'
  BY <1>2 DEF BytesInv, HoldingInv
<1> QED BY <1>8, <1>9, <1>10, <1>11, <1>12, <1>13 DEF BytesInv

\* A header is written where there is room; its flag is what it was.
LEMMA HeaderStep ==
  ASSUME BytesInv, writer.pc = "waiting", HasRoom, NEW w, Own(w),
         bytes' \in Memory,
         \A i \in Positions : ~InClaim(w, i) => bytes'[i] = bytes[i],
         bytes'[Here + CommitFlag.at] = bytes[Here + CommitFlag.at],
         HeaderHeld(bytes', w),
         NEW pc, writer' = [writer EXCEPT !.pc = pc],
         \/ pc = "filling" /\ IsMessage(w)
         \/ pc = "padded" /\ ~IsMessage(w),
         UNCHANGED <<writeOffset, readOffset, reader, claims>>
  PROVE  BytesInv'
<1>1. /\ w \in claims /\ w \in ClaimRecords
      /\ w.off = writer.off /\ w.size = writer.size /\ w.status = "open"
      /\ EndOf(w) = writeOffset
      /\ Place(w.off)
      /\ \A c \in claims : c # w => c.status # "open"
  BY DEF Own
<1>2. /\ writeOffset \in Nat /\ readOffset \in Nat /\ QueueSize \in Nat
      /\ writer \in [pc : WriterStates, size : Nat, off : Nat]
      /\ writeOffset <= readOffset + QueueSize
      /\ HeaderSize = 18
  BY LayoutAssumption, BytesAssumption DEF BytesInv, TypeOK, HasRoom
<1>3. /\ writer'.pc = pc /\ writer'.off = writer.off
      /\ writer'.size = writer.size
      /\ Writing' /\ Pending'
      /\ writer'.pc \in {"filling", "padded"}
  BY <1>2 DEF Writing, Pending
<1>4. /\ \A o \in writeOffset .. (readOffset + QueueSize - 1) :
           Quiet(bytes', Rel(o))
      /\ \A c \in claims :
           c # w => /\ HeaderHeld(bytes', c) /\ FlagHeld(bytes', c)
                    /\ c.status = "ready" => PayloadHeld(bytes', c)
  BY <1>2, WriterKeeps DEF BytesInv, Pending
<1>5. TypeOK'
  BY <1>2 DEF BytesInv, TypeOK, Memory, WriterStates
<1>6. ClaimsInv'
  <2>1. \A c \in claims : c.status = "open" => Pending' /\ c.off = writer'.off
    BY <1>1, <1>3
  <2> QED BY <2>1 DEF BytesInv, ClaimsInv
<1>7. WriterInv'
  <2>1. IsMessage(w) <=> Fits(writer.off, Total(writer.size))
    BY <1>1 DEF IsMessage
  <2> QED BY <1>1, <1>2, <1>3, <2>1 DEF WriterInv
<1>8. QuietInv'
  <2>1. FreeFrom' = writeOffset
    BY <1>3 DEF FreeFrom
  <2>2. Quiet(bytes, Here + CommitFlag.at)
    <3>1. /\ w.off \in Nat /\ Rel(w.off) + HeaderSize <= QueueSize
          /\ w.off + HeaderSize <= EndOf(w)
      BY <1>1, ClaimShape
    <3>2. FreeFrom = w.off
      BY <1>1 DEF FreeFrom
    <3>3. CommitFlag.at = 17
      BY DEF CommitFlag
    <3>4. w.off + 17 \in FreeFrom .. (readOffset + QueueSize - 1)
      BY <1>1, <1>2, <3>1, <3>2
    <3>5. Rel(w.off + 17) = Rel(w.off) + 17
      BY <1>2, <3>1, RelSum, RelTyping
    <3>6. Quiet(bytes, Rel(w.off + 17))
      BY <3>4 DEF BytesInv, QuietInv
    <3> QED BY <1>1, <3>3, <3>5, <3>6 DEF Here
  <2>3. Quiet(bytes', Here + CommitFlag.at)
    BY <2>2 DEF Quiet
  <2>4. Here' = Here
    BY <1>3 DEF Here
  <2> QED BY <1>4, <2>1, <2>3, <2>4 DEF QuietInv
<1>9. StoredInv'
  <2> SUFFICES ASSUME NEW c \in claims
               PROVE  /\ HeaderHeld(bytes', c)
                      /\ c.status # "open" => FlagHeld(bytes', c)
                      /\ c.status = "ready" => PayloadHeld(bytes', c)
    BY <1>3 DEF StoredInv
  <2> QED BY <1>1, <1>4
<1>10. HoldingInv'
  BY DEF BytesInv, HoldingInv
<1> QED BY <1>5, <1>6, <1>7, <1>8, <1>9, <1>10 DEF BytesInv

\* The payload, the commit and the abort: the claim becomes v.
LEMMA SettleStep ==
  ASSUME BytesInv, Writing, NEW w, Own(w),
         NEW v \in ClaimRecords, v.off = w.off, v.size = w.size,
         claims' = (claims \ {w}) \cup {v},
         bytes' \in Memory,
         \A i \in Positions : ~InClaim(w, i) => bytes'[i] = bytes[i],
         HeaderHeld(bytes', v),
         v.status # "open" => FlagHeld(bytes', v),
         v.status = "ready" => IsMessage(w),
         v.status # "void" => PayloadHeld(bytes', v),
         NEW pc, writer' = [writer EXCEPT !.pc = pc],
         v.status = "open" => /\ pc = "written" /\ writer.pc = "filling"
                              /\ Quiet(bytes', Here + CommitFlag.at),
         v.status # "open" => \/ pc = "idle"
                              \/ pc = "claiming" /\ writer.pc = "padded",
         UNCHANGED <<writeOffset, readOffset, reader>>
  PROVE  BytesInv'
<1>1. /\ w \in claims /\ w \in ClaimRecords
      /\ w.off = writer.off /\ w.size = writer.size /\ w.status = "open"
      /\ EndOf(w) = writeOffset
      /\ Place(w.off)
      /\ \A c \in claims : c # w => c.status # "open"
  BY DEF Own
<1>2. /\ writeOffset \in Nat /\ readOffset \in Nat /\ QueueSize \in Nat
      /\ writer \in [pc : WriterStates, size : Nat, off : Nat]
      /\ writeOffset <= readOffset + QueueSize
      /\ Pending
      /\ v.status \in {"open", "ready", "void"}
      /\ w.size \in Sizes
  BY <1>1, LayoutAssumption
  DEF BytesInv, TypeOK, WriterInv, Pending, ClaimRecords
<1>3. /\ writer'.pc = pc /\ writer'.off = writer.off
      /\ writer'.size = writer.size
      /\ v.status = "open" <=> Writing'
      /\ v.status = "open" <=> Pending'
      /\ pc \in {"written", "idle", "claiming"}
  <2>1. writer'.pc = pc /\ writer'.off = writer.off /\ writer'.size = writer.size
    BY <1>2
  <2> QED BY <2>1, <1>2 DEF Writing, Pending
<1>4. /\ \A o \in writeOffset .. (readOffset + QueueSize - 1) :
           Quiet(bytes', Rel(o))
      /\ \A c \in claims :
           c # w => /\ HeaderHeld(bytes', c) /\ FlagHeld(bytes', c)
                    /\ c.status = "ready" => PayloadHeld(bytes', c)
  BY <1>2, WriterKeeps DEF BytesInv
<1>5. ClaimsInv' /\ claims' \subseteq ClaimRecords
  BY <1>2, <1>3, ClaimsSettled DEF BytesInv
<1>6. TypeOK'
  BY <1>2, <1>3, <1>5 DEF BytesInv, TypeOK, Memory, WriterStates
<1>7. WriterInv'
  <2>1. EndOf(v) = EndOf(w)
    BY DEF EndOf
  <2>2. pc = "written" => Fits(writer.off, Total(writer.size))
    BY <1>2, <1>3 DEF BytesInv, WriterInv
  <2>3. pc = "claiming" => w.size \in Sizes /\ Rel(writeOffset) = 0
    <3>1. writer.pc = "padded" => ~IsMessage(w)
      BY <1>1 DEF BytesInv, WriterInv, IsMessage
    <3>2. ~IsMessage(w) => Rel(writeOffset) = 0
      BY <1>1, ClaimShape
    <3> QED BY <1>2, <3>1, <3>2
  <2>4. Pending' => \E c \in claims' : /\ c.off = writer'.off
                                       /\ c.size = writer'.size
                                       /\ c.status = "open"
                                       /\ EndOf(c) = writeOffset
    BY <1>1, <1>3, <2>1
  <2>5. /\ writer'.pc \in {"filling", "written"} =>
             Fits(writer'.off, Total(writer'.size))
        /\ writer'.pc # "padded"
        /\ writer'.pc = "claiming" =>
             writer'.size \in Sizes /\ Rel(writeOffset) = 0
    BY <1>1, <1>3, <2>2, <2>3
  <2> QED BY <1>2, <2>4, <2>5 DEF WriterInv
<1>8. QuietInv'
  <2>1. FreeFrom' = writeOffset
    BY <1>3 DEF FreeFrom
  <2>2. Here' = Here
    BY <1>3 DEF Here
  <2> QED BY <1>3, <1>4, <2>1, <2>2 DEF QuietInv
<1>9. StoredInv'
  <2> SUFFICES ASSUME NEW c \in claims'
               PROVE  /\ HeaderHeld(bytes', c)
                      /\ c.status # "open" => FlagHeld(bytes', c)
                      /\ c.status # "void" => PayloadHeld(bytes', c)
    BY DEF StoredInv
  <2>1. CASE c = v
    BY <2>1
  <2>2. CASE c \in claims /\ c # w
    <3>1. c.status \in {"open", "ready", "void"}
      BY <2>2 DEF BytesInv, TypeOK, ClaimRecords
    <3> QED BY <2>2, <3>1, <1>1, <1>4
  <2> QED BY <2>1, <2>2
<1>10. HoldingInv'
  <2>1. \A c \in claims : c.status = "ready" => c \in claims'
    BY <1>1
  <2> QED BY <2>1 DEF BytesInv, HoldingInv
<1> QED BY <1>5, <1>6, <1>7, <1>8, <1>9, <1>10 DEF BytesInv

LEMMA WriteHeaderStep ==
  ASSUME BytesInv, WriteHeader
  PROVE  BytesInv'
<1>1. Pending /\ TypeOK /\ ClaimsInv /\ WriterInv
  BY DEF Pending, WriteHeader, BytesInv
<1>2. PICK w \in claims : Own(w)
  BY <1>1, OwnClaim
<1>3. /\ w \in ClaimRecords /\ w.off = writer.off /\ w.size = writer.size
      /\ Place(w.off)
  BY <1>2 DEF Own
<1>4. IsMessage(w)
  BY <1>3 DEF WriteHeader, IsMessage
<1>5. /\ Here = Rel(w.off) /\ Here \in Nat /\ Here + HeaderSize <= QueueSize
      /\ w.off \in Nat /\ w.size \in Nat
      /\ EndOf(w) = w.off + (w.size + HeaderSize)
      /\ HeaderSize = 18 /\ QueueSize \in Nat
  BY <1>3, <1>4, ClaimShape, RelTyping, LayoutAssumption, BytesAssumption
  DEF Here
<1>6. bytes \in Memory /\ bytes' = HeaderStores(writer.size, NORMAL)
  BY <1>1 DEF TypeOK, Memory, WriteHeader
<1>7. /\ bytes' \in Memory
      /\ \A i \in Positions :
           i < Here \/ i >= Here + CommitFlag.at => bytes'[i] = bytes[i]
      /\ HoldsValue(bytes', Here, AbsOffset, writer.off)
      /\ HoldsValue(bytes', Here, MessageSize, writer.size)
      /\ HoldsValue(bytes', Here, Type, NORMAL)
      /\ HoldsValue(bytes', Here, NumReaders, 1)
  <2>1. NORMAL \in Nat
    BY DEF NORMAL
  <2> QED BY <1>3, <1>5, <1>6, <2>1, HeaderStoresEffect
<1>8. \A i \in Positions : ~InClaim(w, i) => bytes'[i] = bytes[i]
  BY <1>5, <1>7 DEF InClaim, Positions, CommitFlag
<1>9. bytes'[Here + CommitFlag.at] = bytes[Here + CommitFlag.at]
  BY <1>5, <1>7 DEF Positions, CommitFlag
<1>10. HeaderHeld(bytes', w)
  <2>1. StoredSize(w) = writer.size /\ StoredType(w) = NORMAL
    BY <1>3, <1>4, <1>5 DEF StoredSize, StoredType
  <2> QED BY <1>3, <1>5, <1>7, <2>1 DEF HeaderHeld
<1>11. /\ writer.pc = "waiting" /\ HasRoom
       /\ writer' = [writer EXCEPT !.pc = "filling"]
       /\ UNCHANGED <<writeOffset, readOffset, reader, claims>>
  BY DEF WriteHeader, GoWriter
<1>12. Own(w) /\ bytes' \in Memory
  BY <1>2, <1>7
<1> QED BY <1>4, <1>12, <1>8, <1>9, <1>10, <1>11, HeaderStep

LEMMA InsertSkipStep ==
  ASSUME BytesInv, InsertSkip
  PROVE  BytesInv'
<1>1. Pending /\ TypeOK /\ ClaimsInv /\ WriterInv
  BY DEF Pending, InsertSkip, BytesInv
<1>2. PICK w \in claims : Own(w)
  BY <1>1, OwnClaim
<1>3. /\ w \in ClaimRecords /\ w.off = writer.off /\ w.size = writer.size
      /\ Place(w.off)
  BY <1>2 DEF Own
<1>4. ~IsMessage(w)
  BY <1>3 DEF InsertSkip, IsMessage
<1> DEFINE size == PaddingSize(writer.off)
           m == HeaderStores(size, PADDING)
<1>5. /\ Here = Rel(w.off) /\ Here \in Nat /\ Here + HeaderSize <= QueueSize
      /\ w.off \in Nat /\ size \in Nat /\ StoredSize(w) = size
      /\ EndOf(w) - w.off = QueueSize - Here
      /\ HeaderSize = 18 /\ QueueSize \in Nat
  BY <1>3, <1>4, ClaimShape, RelTyping, LayoutAssumption, BytesAssumption
  DEF Here, PaddingSize, Remaining, StoredSize
<1>6. bytes \in Memory /\ bytes' = ClearedPadding(m)
  BY <1>1 DEF TypeOK, Memory, InsertSkip
<1>7. /\ m \in Memory
      /\ \A i \in Positions :
           i < Here \/ i >= Here + CommitFlag.at => m[i] = bytes[i]
      /\ HoldsValue(m, Here, AbsOffset, writer.off)
      /\ HoldsValue(m, Here, MessageSize, size)
      /\ HoldsValue(m, Here, Type, PADDING)
      /\ HoldsValue(m, Here, NumReaders, 1)
  <2>1. PADDING \in Nat
    BY DEF PADDING
  <2> QED BY <1>3, <1>5, <1>6, <2>1, HeaderStoresEffect
<1> HIDE DEF m, size
<1>8. /\ bytes' \in Memory
      /\ \A i \in Positions :
           i < Here + HeaderSize * HeaderSize => bytes'[i] = m[i]
  <2>1. /\ Here + HeaderSize * HeaderSize \in Nat
        /\ \A i \in Positions : i \in Nat /\ m[i] \in Byte
    BY <1>5, <1>7 DEF Positions, Memory
  <2>2. ASSUME NEW i \in Positions
        PROVE  (IF i >= Here + HeaderSize * HeaderSize THEN 0 ELSE m[i]) \in Byte
    BY <2>1 DEF Byte
  <2> QED BY <1>6, <2>1, <2>2 DEF ClearedPadding, Memory
<1>9. ASSUME NEW i \in Positions, i < Here + HeaderSize
      PROVE  bytes'[i] = m[i]
  <2>1. HeaderSize * HeaderSize >= HeaderSize /\ i \in Int
    BY <1>5 DEF Positions
  <2>2. HeaderSize * HeaderSize \in Nat
    BY <1>5
  <2> QED BY <1>5, <1>8, <1>9, <2>1, <2>2
<1>10. \A i \in Positions : ~InClaim(w, i) => bytes'[i] = bytes[i]
  <2> SUFFICES ASSUME NEW i \in Positions, ~InClaim(w, i)
               PROVE  bytes'[i] = bytes[i]
    OBVIOUS
  <2>1. i < Here
    BY <1>5 DEF InClaim, Positions
  <2>2. i < Here + HeaderSize
    BY <1>5, <2>1 DEF Positions
  <2> QED BY <1>7, <1>9, <2>1, <2>2
<1>11. bytes'[Here + CommitFlag.at] = bytes[Here + CommitFlag.at]
  <2>1. /\ Here + 17 \in Positions /\ Here + 17 < Here + HeaderSize
        /\ CommitFlag.at = 17 /\ Here + 17 >= Here + 17
    BY <1>5 DEF Positions, CommitFlag
  <2> QED BY <1>7, <1>9, <2>1
<1>12. HeaderHeld(bytes', w)
  <2>1. StoredType(w) = PADDING
    BY <1>4 DEF StoredType
  <2>2. ASSUME NEW f \in Fields, NEW value, HoldsValue(m, Here, f, value)
        PROVE  HoldsValue(bytes', Here, f, value)
    <3>1. f.at \in Nat /\ f.width \in 1 .. 8 /\ f.at + f.width <= HeaderSize
      BY FieldLayout
    <3>2. ASSUME NEW k \in f.at .. (f.at + f.width - 1)
          PROVE  bytes'[Here + k] = m[Here + k]
      <4>1. Here + k \in Positions /\ Here + k < Here + HeaderSize
        BY <1>5, <3>1 DEF Positions
      <4> QED BY <4>1, <1>9
    <3> QED BY <1>5, <2>2, <3>2, HoldsFrame
  <2>3. /\ AbsOffset \in Fields /\ MessageSize \in Fields /\ Type \in Fields
        /\ NumReaders \in Fields
    BY DEF Fields
  <2> QED BY <1>3, <1>5, <1>7, <2>1, <2>2, <2>3 DEF HeaderHeld
<1>13. /\ writer.pc = "waiting" /\ HasRoom
       /\ writer' = [writer EXCEPT !.pc = "padded"]
       /\ UNCHANGED <<writeOffset, readOffset, reader, claims>>
  BY DEF InsertSkip, GoWriter
<1> QED BY <1>2, <1>4, <1>8, <1>10, <1>11, <1>12, <1>13, HeaderStep

\* A change of the writer's claim changes one element of the history.
LEMMA OneSettled ==
  ASSUME NEW w, Own(w), NEW v,
         claims' = {IF c.off = writer.off THEN v ELSE c : c \in claims}
  PROVE  claims' = (claims \ {w}) \cup {v}
<1>1. /\ w \in claims /\ w.off = writer.off
      /\ \A c \in claims : c # w => c.off # writer.off
  BY DEF Own
<1> QED BY <1>1

\* Setting the commit flag.
LEMMA FlagStored ==
  ASSUME NEW m \in Memory, NEW w \in ClaimRecords, NEW v \in ClaimRecords,
         Place(w.off), Here = Rel(w.off), v.off = w.off, v.size = w.size,
         HeaderHeld(m, w), NEW flag \in Nat, StoredFlag(v) = flag,
         NEW n, n = StoreFlag(m, flag)
  PROVE  /\ n \in Memory
         /\ \A i \in Positions : ~InClaim(w, i) => n[i] = m[i]
         /\ HeaderHeld(n, v) /\ FlagHeld(n, v)
         /\ IsMessage(w) =>
              \A i \in 1 .. w.size : n[Here + HeaderSize + i - 1]
                                       = m[Here + HeaderSize + i - 1]
<1>1. /\ Here \in Nat /\ Here + HeaderSize <= QueueSize
      /\ w.off \in Nat /\ w.size \in Nat /\ EndOf(w) \in Nat
      /\ w.off + HeaderSize <= EndOf(w)
      /\ Here + (EndOf(w) - w.off) <= QueueSize
      /\ IsMessage(w) => EndOf(w) = w.off + (w.size + HeaderSize)
      /\ HeaderSize = 18 /\ QueueSize \in Nat
  <2>1. HeaderSize = 18 /\ QueueSize \in Nat
    BY LayoutAssumption, BytesAssumption
  <2>2. Rel(w.off) \in Nat
    BY <2>1, ClaimShape DEF Positions
  <2> QED BY <2>1, <2>2, ClaimShape
<1>2. /\ CommitFlag \in Fields /\ AbsOffset \in Fields /\ MessageSize \in Fields
      /\ Type \in Fields /\ NumReaders \in Fields
      /\ CommitFlag # AbsOffset /\ CommitFlag # MessageSize
      /\ CommitFlag # Type /\ CommitFlag # NumReaders
      /\ CommitFlag.at = 17 /\ CommitFlag.width = 1
  BY DEF Fields, AbsOffset, MessageSize, Type, NumReaders, CommitFlag
<1>3. /\ n \in Memory
      /\ \A i \in Positions : i < Here + 17 \/ i >= Here + 17 + 1 => n[i] = m[i]
      /\ HoldsValue(n, Here, CommitFlag, flag)
  <2>1. n = Store(m, Here, CommitFlag, flag)
    BY DEF StoreFlag
  <2>2. /\ Store(m, Here, CommitFlag, flag) \in Memory
        /\ \A i \in Positions :
             i < Here + CommitFlag.at \/ i >= Here + CommitFlag.at + CommitFlag.width
               => Store(m, Here, CommitFlag, flag)[i] = m[i]
        /\ HoldsValue(Store(m, Here, CommitFlag, flag), Here, CommitFlag, flag)
    <3>1. Here \in Nat /\ CommitFlag \in Fields /\ Here + HeaderSize <= QueueSize
      BY <1>1, <1>2
    <3> QED BY <3>1, StoreEffect
  <2>3. \A i \in Positions : i \in Int
    BY <1>1 DEF Positions
  <2> HIDE DEF Memory
  <2> QED BY <1>1, <1>2, <2>1, <2>2, <2>3
<1>4. \A i \in Positions : ~InClaim(w, i) => n[i] = m[i]
  BY <1>1, <1>3 DEF InClaim, Positions
<1>5. HeaderHeld(n, v)
  <2>1. /\ HoldsValue(m, Here, AbsOffset, w.off)
        /\ HoldsValue(m, Here, MessageSize, StoredSize(w))
        /\ HoldsValue(m, Here, Type, StoredType(w))
        /\ HoldsValue(m, Here, NumReaders, 1)
    BY DEF HeaderHeld
  <2>2. /\ HoldsValue(n, Here, AbsOffset, w.off)
        /\ HoldsValue(n, Here, MessageSize, StoredSize(w))
        /\ HoldsValue(n, Here, Type, StoredType(w))
        /\ HoldsValue(n, Here, NumReaders, 1)
    BY <1>1, <1>2, <2>1, StoreKeeps DEF StoreFlag
  <2>3. StoredSize(v) = StoredSize(w) /\ StoredType(v) = StoredType(w)
    BY DEF StoredSize, StoredType, EndOf, IsMessage
  <2> QED BY <2>2, <2>3 DEF HeaderHeld
<1>6. FlagHeld(n, v)
  BY <1>3 DEF FlagHeld
<1>7. ASSUME IsMessage(w), NEW i \in 1 .. w.size
      PROVE  n[Here + HeaderSize + i - 1] = m[Here + HeaderSize + i - 1]
  <2>1. /\ Here + HeaderSize + i - 1 \in Positions
        /\ Here + HeaderSize + i - 1 >= Here + 17 + 1
    BY <1>1, <1>7 DEF Positions
  <2> QED BY <1>3, <2>1
<1> QED BY <1>3, <1>4, <1>5, <1>6, <1>7

\* What every step of a claim being written starts from.
LEMMA WritingClaim ==
  ASSUME BytesInv, Writing
  PROVE  /\ bytes \in Memory
         /\ \E w \in claims :
              /\ Own(w) /\ w \in ClaimRecords /\ w.status = "open"
              /\ w.off = writer.off /\ w.size = writer.size
              /\ Place(w.off) /\ Here = Rel(w.off)
              /\ HeaderHeld(bytes, w)
              /\ writer.pc = "written" => PayloadHeld(bytes, w)
              /\ writer.pc = "padded" <=> ~IsMessage(w)
              /\ w.size \in Nat
<1>1. Pending /\ TypeOK /\ ClaimsInv /\ WriterInv /\ StoredInv
  BY DEF Pending, BytesInv
<1>2. PICK w \in claims : Own(w)
  BY <1>1, OwnClaim
<1>3. /\ w \in ClaimRecords /\ w.off = writer.off /\ w.size = writer.size
      /\ Place(w.off) /\ w.status = "open"
  BY <1>2 DEF Own
<1>4. /\ HeaderHeld(bytes, w)
      /\ writer.pc = "written" => PayloadHeld(bytes, w)
  BY <1>1, <1>3 DEF StoredInv
<1>5. writer.pc = "padded" <=> ~IsMessage(w)
  BY <1>1, <1>3 DEF WriterInv, IsMessage, Writing
<1>6. w.size \in Nat
  BY <1>3, ClaimShape
<1> QED BY <1>1, <1>2, <1>3, <1>4, <1>5, <1>6 DEF TypeOK, Memory, Here

LEMMA CommitSkipStep ==
  ASSUME BytesInv, CommitSkip
  PROVE  BytesInv'
<1>1. Writing /\ writer.pc = "padded"
  BY DEF Writing, CommitSkip
<1>2. bytes \in Memory
  BY <1>1, WritingClaim
<1>3. PICK w \in claims :
        /\ Own(w) /\ w \in ClaimRecords /\ w.off = writer.off
        /\ Place(w.off) /\ Here = Rel(w.off)
        /\ HeaderHeld(bytes, w) /\ ~IsMessage(w)
  BY <1>1, WritingClaim
<1> DEFINE v == [w EXCEPT !.status = "void"]
<1>4. /\ v \in ClaimRecords /\ v.off = w.off /\ v.size = w.size
      /\ v.status = "void"
  BY <1>3 DEF ClaimRecords
<1>5. claims' = (claims \ {w}) \cup {v}
  <2>1. claims' = {IF c.off = writer.off THEN [c EXCEPT !.status = "void"] ELSE c :
                     c \in claims}
    BY DEF CommitSkip, Settle
  <2>2. \A c \in claims : c.off = writer.off => c = w
    BY <1>3 DEF Own
  <2>3. claims' = {IF c.off = writer.off THEN v ELSE c : c \in claims}
    BY <2>1, <2>2
  <2> HIDE DEF v
  <2> QED BY <1>3, <2>3, OneSettled
<1> HIDE DEF v
<1>6. /\ READY_FOR_CONSUMER \in Nat /\ StoredFlag(v) = READY_FOR_CONSUMER
      /\ bytes' = StoreFlag(bytes, READY_FOR_CONSUMER)
  BY <1>3, <1>4
  DEF StoredFlag, IsMessage, READY_FOR_CONSUMER, CommitSkip
<1>7. /\ bytes' \in Memory
      /\ \A i \in Positions : ~InClaim(w, i) => bytes'[i] = bytes[i]
      /\ HeaderHeld(bytes', v) /\ FlagHeld(bytes', v)
  BY <1>2, <1>3, <1>4, <1>6, FlagStored
<1>8. /\ writer' = [writer EXCEPT !.pc = "claiming"]
      /\ UNCHANGED <<writeOffset, readOffset, reader>>
  BY DEF CommitSkip, GoWriter
<1> QED BY <1>1, <1>3, <1>4, <1>5, <1>7, <1>8, SettleStep

LEMMA WritePayloadStep ==
  ASSUME BytesInv, NEW byte \in PayloadBytes, WritePayload(byte)
  PROVE  BytesInv'
<1>1. Writing /\ writer.pc = "filling"
  BY DEF Writing, WritePayload
<1>2. bytes \in Memory /\ byte \in Byte
  BY <1>1, WritingClaim, BytesAssumption
<1>3. PICK w \in claims :
        /\ Own(w) /\ w \in ClaimRecords /\ w.status = "open"
        /\ w.off = writer.off /\ w.size = writer.size /\ w.size \in Nat
        /\ Place(w.off) /\ Here = Rel(w.off)
        /\ HeaderHeld(bytes, w) /\ IsMessage(w)
  BY <1>1, WritingClaim
<1> DEFINE v == [w EXCEPT !.byte = byte]
<1>4. /\ v \in ClaimRecords /\ v.off = w.off /\ v.size = w.size
      /\ v.status = "open" /\ v.byte = byte
  BY <1>2, <1>3 DEF ClaimRecords
<1>5. claims' = (claims \ {w}) \cup {v}
  <2>1. claims' = {IF c.off = writer.off THEN [c EXCEPT !.byte = byte] ELSE c :
                     c \in claims}
    BY DEF WritePayload
  <2>2. \A c \in claims : c.off = writer.off => c = w
    BY <1>3 DEF Own
  <2>3. claims' = {IF c.off = writer.off THEN v ELSE c : c \in claims}
    BY <2>1, <2>2
  <2> HIDE DEF v
  <2> QED BY <1>3, <2>3, OneSettled
<1> HIDE DEF v
<1>6. /\ Here \in Nat /\ w.off \in Nat /\ EndOf(w) = w.off + (w.size + HeaderSize)
      /\ Here + (w.size + HeaderSize) <= QueueSize
      /\ QueueSize \in Nat /\ HeaderSize = 18
  <2>1. QueueSize \in Nat /\ HeaderSize = 18
    BY LayoutAssumption, BytesAssumption
  <2>2. Rel(w.off) \in Nat
    BY <2>1, <1>3, ClaimShape DEF Positions
  <2> QED BY <1>3, <2>1, <2>2, ClaimShape
<1>7. bytes' = Fill(bytes, Here, w.size, byte)
  BY <1>3 DEF WritePayload
<1>8. /\ bytes' \in Memory
      /\ \A i \in Positions :
           i < Here + HeaderSize \/ i >= Here + HeaderSize + w.size =>
             bytes'[i] = bytes[i]
      /\ \A i \in Positions :
           i >= Here + HeaderSize /\ i < Here + HeaderSize + w.size =>
             bytes'[i] = byte
  <2>1. bytes \in Memory /\ Here \in Nat /\ w.size \in Nat /\ byte \in Byte
    BY <1>2, <1>3, <1>6
  <2> QED BY <1>7, <2>1, FillEffect
<1>9. \A i \in Positions : ~InClaim(w, i) => bytes'[i] = bytes[i]
  BY <1>3, <1>6, <1>8 DEF InClaim, Positions
<1>10. HeaderHeld(bytes', v)
  <2>1. ASSUME NEW f \in Fields, NEW value, HoldsValue(bytes, Here, f, value)
        PROVE  HoldsValue(bytes', Here, f, value)
    <3>1. f.at \in Nat /\ f.width \in 1 .. 8 /\ f.at + f.width <= HeaderSize
      BY FieldLayout
    <3>2. ASSUME NEW k \in f.at .. (f.at + f.width - 1)
          PROVE  bytes'[Here + k] = bytes[Here + k]
      <4>1. Here + k \in Positions /\ Here + k < Here + HeaderSize
        BY <1>3, <1>6, <3>1 DEF Positions
      <4> QED BY <4>1, <1>8
    <3> QED BY <1>6, <2>1, <3>2, HoldsFrame
  <2>2. /\ AbsOffset \in Fields /\ MessageSize \in Fields /\ Type \in Fields
        /\ NumReaders \in Fields
    BY DEF Fields
  <2>3. StoredSize(v) = StoredSize(w) /\ StoredType(v) = StoredType(w)
    BY <1>4 DEF StoredSize, StoredType, EndOf, IsMessage
  <2> QED BY <1>3, <1>4, <2>1, <2>2, <2>3 DEF HeaderHeld
<1>11. PayloadHeld(bytes', v)
  <2> SUFFICES ASSUME NEW i \in 1 .. w.size
               PROVE  bytes'[Here + HeaderSize + i - 1] = byte
    BY <1>3, <1>4 DEF PayloadHeld
  <2>1. /\ Here + HeaderSize + i - 1 \in Positions
        /\ Here + HeaderSize + i - 1 >= Here + HeaderSize
        /\ Here + HeaderSize + i - 1 < Here + HeaderSize + w.size
    BY <1>3, <1>6 DEF Positions
  <2> QED BY <1>8, <2>1
<1>12. Quiet(bytes', Here + CommitFlag.at)
  <2>1. Quiet(bytes, Here + CommitFlag.at)
    BY <1>1 DEF BytesInv, QuietInv
  <2>2. bytes'[Here + CommitFlag.at] = bytes[Here + CommitFlag.at]
    BY <1>3, <1>6, <1>8 DEF Positions, CommitFlag
  <2> QED BY <2>1, <2>2 DEF Quiet
<1>13. /\ writer' = [writer EXCEPT !.pc = "written"]
       /\ UNCHANGED <<writeOffset, readOffset, reader>>
  BY DEF WritePayload, GoWriter
<1> QED BY <1>1, <1>3, <1>4, <1>5, <1>8, <1>9, <1>10, <1>11, <1>12, <1>13,
           SettleStep

LEMMA CommitBufferStep ==
  ASSUME BytesInv, CommitBuffer
  PROVE  BytesInv'
<1>1. Writing /\ writer.pc = "written"
  BY DEF Writing, CommitBuffer
<1>2. bytes \in Memory
  BY <1>1, WritingClaim
<1>3. PICK w \in claims :
        /\ Own(w) /\ w \in ClaimRecords /\ w.off = writer.off
        /\ Place(w.off) /\ Here = Rel(w.off)
        /\ HeaderHeld(bytes, w) /\ PayloadHeld(bytes, w) /\ IsMessage(w)
  BY <1>1, WritingClaim
<1> DEFINE v == [w EXCEPT !.status = "ready"]
<1>4. /\ v \in ClaimRecords /\ v.off = w.off /\ v.size = w.size
      /\ v.status = "ready" /\ v.byte = w.byte
  BY <1>3 DEF ClaimRecords
<1>5. claims' = (claims \ {w}) \cup {v}
  <2>1. claims' = {IF c.off = writer.off THEN [c EXCEPT !.status = "ready"] ELSE c :
                     c \in claims}
    BY DEF CommitBuffer, Settle
  <2>2. \A c \in claims : c.off = writer.off => c = w
    BY <1>3 DEF Own
  <2>3. claims' = {IF c.off = writer.off THEN v ELSE c : c \in claims}
    BY <2>1, <2>2
  <2> HIDE DEF v
  <2> QED BY <1>3, <2>3, OneSettled
<1> HIDE DEF v
<1>6. /\ READY_FOR_CONSUMER \in Nat /\ StoredFlag(v) = READY_FOR_CONSUMER
      /\ bytes' = StoreFlag(bytes, READY_FOR_CONSUMER)
  BY <1>3, <1>4
  DEF StoredFlag, READY_FOR_CONSUMER, CommitBuffer
<1>7. /\ bytes' \in Memory
      /\ \A i \in Positions : ~InClaim(w, i) => bytes'[i] = bytes[i]
      /\ HeaderHeld(bytes', v) /\ FlagHeld(bytes', v)
      /\ \A i \in 1 .. w.size : bytes'[Here + HeaderSize + i - 1]
                                  = bytes[Here + HeaderSize + i - 1]
  BY <1>2, <1>3, <1>4, <1>6, FlagStored
<1>8. PayloadHeld(bytes', v)
  BY <1>3, <1>4, <1>7 DEF PayloadHeld
<1>9. /\ writer' = [writer EXCEPT !.pc = "idle"]
      /\ UNCHANGED <<writeOffset, readOffset, reader>>
  BY DEF CommitBuffer, GoWriter
<1> QED BY <1>1, <1>3, <1>4, <1>5, <1>7, <1>8, <1>9, SettleStep

LEMMA AbortBufferStep ==
  ASSUME BytesInv, AbortBuffer
  PROVE  BytesInv'
<1>1. Writing /\ writer.pc \in {"filling", "written"}
  BY DEF Writing, AbortBuffer
<1>2. bytes \in Memory
  BY <1>1, WritingClaim
<1>3. PICK w \in claims :
        /\ Own(w) /\ w \in ClaimRecords /\ w.status = "open"
        /\ w.off = writer.off /\ w.size = writer.size /\ w.size \in Nat
        /\ Place(w.off) /\ Here = Rel(w.off)
        /\ HeaderHeld(bytes, w) /\ IsMessage(w)
  BY <1>1, WritingClaim
<1> DEFINE v == [w EXCEPT !.status = "void"]
           m == Fill(bytes, Here, w.size, 0)
<1>4. /\ v \in ClaimRecords /\ v.off = w.off /\ v.size = w.size
      /\ v.status = "void"
  BY <1>3 DEF ClaimRecords
<1>5. claims' = (claims \ {w}) \cup {v}
  <2>1. claims' = {IF c.off = writer.off THEN [c EXCEPT !.status = "void"] ELSE c :
                     c \in claims}
    BY DEF AbortBuffer, Settle
  <2>2. \A c \in claims : c.off = writer.off => c = w
    BY <1>3 DEF Own
  <2>3. claims' = {IF c.off = writer.off THEN v ELSE c : c \in claims}
    BY <2>1, <2>2
  <2> HIDE DEF v
  <2> QED BY <1>3, <2>3, OneSettled
<1> HIDE DEF v
<1>6. /\ Here \in Nat /\ w.off \in Nat /\ EndOf(w) = w.off + (w.size + HeaderSize)
      /\ Here + (w.size + HeaderSize) <= QueueSize
      /\ QueueSize \in Nat /\ HeaderSize = 18
  <2>1. QueueSize \in Nat /\ HeaderSize = 18
    BY LayoutAssumption, BytesAssumption
  <2>2. Rel(w.off) \in Nat
    BY <2>1, <1>3, ClaimShape DEF Positions
  <2> QED BY <1>3, <2>1, <2>2, ClaimShape
<1>7. /\ m \in Memory
      /\ \A i \in Positions :
           i < Here + HeaderSize \/ i >= Here + HeaderSize + w.size =>
             m[i] = bytes[i]
  <2>1. 0 \in Byte
    BY DEF Byte
  <2>2. bytes \in Memory /\ Here \in Nat /\ w.size \in Nat
    BY <1>2, <1>3, <1>6
  <2> QED BY <2>1, <2>2, FillEffect
<1>8. bytes' = StoreFlag(m, ABORTED)
  BY <1>3 DEF AbortBuffer
<1> HIDE DEF m
<1>9. HeaderHeld(m, w)
  <2>1. ASSUME NEW f \in Fields, NEW value, HoldsValue(bytes, Here, f, value)
        PROVE  HoldsValue(m, Here, f, value)
    <3>1. f.at \in Nat /\ f.width \in 1 .. 8 /\ f.at + f.width <= HeaderSize
      BY FieldLayout
    <3>2. ASSUME NEW k \in f.at .. (f.at + f.width - 1)
          PROVE  m[Here + k] = bytes[Here + k]
      <4>1. Here + k \in Positions /\ Here + k < Here + HeaderSize
        BY <1>3, <1>6, <3>1 DEF Positions
      <4> QED BY <4>1, <1>7
    <3> QED BY <1>6, <2>1, <3>2, HoldsFrame
  <2>2. /\ AbsOffset \in Fields /\ MessageSize \in Fields /\ Type \in Fields
        /\ NumReaders \in Fields
    BY DEF Fields
  <2> QED BY <1>3, <2>1, <2>2 DEF HeaderHeld
<1>10. ABORTED \in Nat /\ StoredFlag(v) = ABORTED
  BY <1>3, <1>4 DEF StoredFlag, IsMessage, ABORTED
<1>11. /\ bytes' \in Memory
       /\ \A i \in Positions : ~InClaim(w, i) => bytes'[i] = m[i]
       /\ HeaderHeld(bytes', v) /\ FlagHeld(bytes', v)
  BY <1>3, <1>4, <1>7, <1>8, <1>9, <1>10, FlagStored
<1>12. \A i \in Positions : ~InClaim(w, i) => bytes'[i] = bytes[i]
  <2>1. \A i \in Positions : ~InClaim(w, i) => m[i] = bytes[i]
    BY <1>3, <1>6, <1>7 DEF InClaim, Positions
  <2> QED BY <1>11, <2>1
<1>13. /\ writer' = [writer EXCEPT !.pc = "idle"]
       /\ UNCHANGED <<writeOffset, readOffset, reader>>
  BY DEF AbortBuffer, GoWriter
<1> QED BY <1>1, <1>3, <1>4, <1>5, <1>11, <1>12, <1>13, SettleStep

-----------------------------------------------------------------------------
(* The steps of the reader *)

\* What a set flag at the reader's place stands for: a claim the writer is done
\* with.
LEMMA FoundClaim ==
  ASSUME BytesInv, NEW flag \in SetFlags, Found(flag)
  PROVE  \E c \in claims : /\ c.off = reader.pos /\ c.status # "open"
                           /\ StoredFlag(c) = flag
<1>1. /\ reader.pos = readOffset /\ readOffset \in Nat /\ writeOffset \in Nat
      /\ Place(writeOffset) /\ readOffset <= writeOffset
      /\ QueueSize \in Nat /\ HeaderSize = 18
  BY LayoutAssumption, BytesAssumption DEF BytesInv, TypeOK, ClaimsInv
<1>2. bytes[There + 17] = flag
  <2>1. flag \in Byte /\ 0 \in 0 .. (CommitFlag.width - 1)
    BY DEF SetFlags, READY_FOR_CONSUMER, ABORTED, Byte, CommitFlag
  <2>2. bytes[There + CommitFlag.at + 0] = Digit(flag, 0)
    BY <2>1 DEF Found, HoldsValue
  <2>3. There + CommitFlag.at + 0 = There + 17
    BY <1>1, RelTyping DEF There, CommitFlag
  <2> QED BY <2>1, <2>2, <2>3, DigitsOfByte
<1>3. ASSUME Place(readOffset)
      PROVE  FlagPlace(There + 17) /\ Rel(readOffset + 17) = There + 17
  <2>1. There \in Nat /\ There + 18 <= QueueSize /\ There % Unit = 0
    BY <1>1, <1>3, RelTyping DEF Place, There
  <2>2. FlagPlace(There + 17)
    <3>1. There + 17 >= 17 /\ (There + 17) - 17 = There
      BY <2>1
    <3> QED BY <2>1, <3>1 DEF FlagPlace, CommitFlag
  <2>3. Rel(readOffset + 17) = Rel(readOffset) + 17
    BY <1>1, <2>1, RelSum DEF There
  <2> QED BY <1>1, <2>2, <2>3 DEF There
<1>4. ASSUME Place(readOffset), FreeFrom <= readOffset, FreeFrom \in Nat
      PROVE  FALSE
  <2>1. readOffset + 17 \in FreeFrom .. (readOffset + QueueSize - 1)
    BY <1>1, <1>4, LayoutAssumption
  <2>2. Quiet(bytes, There + 17)
    BY <2>1, <1>3, <1>4 DEF BytesInv, QuietInv
  <2> QED BY <1>2, <1>3, <1>4, <2>2 DEF Quiet
<1>5. readOffset # writeOffset
  <2> SUFFICES ASSUME readOffset = writeOffset
               PROVE  FALSE
    OBVIOUS
  <2>1. FreeFrom <= readOffset /\ FreeFrom \in Nat
    <3>1. CASE writer.pc = "waiting"
      <4>1. /\ Pending /\ TypeOK /\ ClaimsInv /\ WriterInv
        BY <3>1 DEF Pending, BytesInv
      <4>2. PICK w \in claims : Own(w)
        BY <4>1, OwnClaim
      <4>3. w.off \in Nat /\ w.off <= EndOf(w)
        BY <4>2, ClaimShape, LayoutAssumption DEF Own
      <4> QED BY <1>1, <3>1, <4>2, <4>3 DEF Own, FreeFrom
    <3>2. CASE writer.pc # "waiting"
      BY <1>1, <3>2 DEF FreeFrom
    <3> QED BY <3>1, <3>2
  <2> QED BY <1>1, <1>4, <2>1
<1>6. PICK c \in claims : c.off = readOffset
  BY <1>5 DEF BytesInv, ClaimsInv
<1>7. c \in ClaimRecords /\ Place(c.off) /\ c.off \in Nat
  BY <1>6, <1>1 DEF BytesInv, TypeOK, ClaimsInv
<1>8. c.status # "open"
  <2> SUFFICES ASSUME c.status = "open"
               PROVE  FALSE
    OBVIOUS
  <2>1. Pending /\ writer.off = readOffset
    BY <1>6 DEF BytesInv, ClaimsInv
  <2>2. CASE writer.pc = "waiting"
    BY <1>1, <1>4, <1>6, <1>7, <2>1, <2>2 DEF FreeFrom
  <2>3. CASE Writing
    <3>1. Here = There
      BY <1>1, <2>1 DEF Here, There
    <3>2. Quiet(bytes, There + 17)
      BY <2>3, <3>1 DEF BytesInv, QuietInv, CommitFlag
    <3> QED BY <1>2, <1>3, <1>6, <1>7, <3>2 DEF Quiet
  <2> QED BY <2>1, <2>2, <2>3 DEF Pending
<1>9. StoredFlag(c) = flag
  <2>1. /\ FlagHeld(bytes, c)
        /\ StoredFlag(c) \in Byte
    BY <1>8 DEF BytesInv, StoredInv, StoredFlag, Byte, READY_FOR_CONSUMER,
                ABORTED
  <2>2. bytes[Rel(c.off) + CommitFlag.at + 0] = Digit(StoredFlag(c), 0)
    <3>1. 0 \in 0 .. (CommitFlag.width - 1)
      BY DEF CommitFlag
    <3> QED BY <2>1, <3>1 DEF FlagHeld, HoldsValue
  <2>3. Rel(c.off) + CommitFlag.at + 0 = There + 17
    BY <1>1, <1>6, RelTyping DEF There, CommitFlag
  <2> QED BY <1>2, <2>1, <2>2, <2>3, DigitsOfByte
<1> QED BY <1>1, <1>6, <1>8, <1>9

\* Storing zero in a field.
LEMMA StoreZero ==
  ASSUME NEW m \in Memory, NEW h \in Nat, NEW f \in Fields
  PROVE  /\ Store(m, h, f, 0) \in Memory
         /\ \A i \in Positions :
              Store(m, h, f, 0)[i] =
                IF h + f.at <= i /\ i < h + f.at + f.width THEN 0 ELSE m[i]
<1>1. f.at \in Nat /\ f.width \in 1 .. 8
  BY FieldLayout
<1>2. \A k \in 0 .. 7 : Digit(0, k) = 0
  BY DigitsOfByte DEF Byte
<1>3. ASSUME NEW i \in Positions, h + f.at <= i, i < h + f.at + f.width
      PROVE  Store(m, h, f, 0)[i] = 0
  <2>1. i - h - f.at \in 0 .. (f.width - 1) /\ i - h - f.at \in 0 .. 7
    BY <1>1, <1>3, LayoutAssumption DEF Positions
  <2> QED BY <1>2, <2>1 DEF Store
<1>4. ASSUME NEW i \in Positions, ~(h + f.at <= i /\ i < h + f.at + f.width)
      PROVE  Store(m, h, f, 0)[i] = m[i]
  <2>1. i \in Int
    BY LayoutAssumption DEF Positions
  <2>2. i < h + f.at \/ i >= h + f.at + f.width
    BY <1>1, <1>4, <2>1
  <2> QED BY <2>2, StoreEffect
<1>5. Store(m, h, f, 0) \in Memory
  BY StoreEffect
<1> QED BY <1>3, <1>4, <1>5

\* What the last reader leaves of a message: its abs_offset, and zeroes.
LEMMA ClearedEffect ==
  ASSUME bytes \in Memory, There \in Nat, There + HeaderSize <= QueueSize,
         NEW size \in Nat,
         NEW n, n = Cleared(Store(bytes, There, NumReaders, 0), size)
  PROVE  /\ n \in Memory
         /\ \A i \in Positions :
              n[i] = IF There + 8 <= i /\ i < There + HeaderSize + size
                       THEN 0 ELSE bytes[i]
<1> DEFINE m0 == Store(bytes, There, NumReaders, 0)
           m1 == Fill(m0, There, size, 0)
           m2 == Store(m1, There, MessageSize, 0)
           m3 == Store(m2, There, Type, 0)
           m4 == Store(m3, There, CommitFlag, 0)
<1>1. n = m4
  BY DEF Cleared, PayloadCleared, FlagCleared, NORMAL, NOT_READY
<1>2. /\ NumReaders \in Fields /\ MessageSize \in Fields /\ Type \in Fields
      /\ CommitFlag \in Fields
      /\ MessageSize.at = 8 /\ MessageSize.width = 4
      /\ Type.at = 12 /\ Type.width = 4
      /\ NumReaders.at = 16 /\ NumReaders.width = 1
      /\ CommitFlag.at = 17 /\ CommitFlag.width = 1
      /\ HeaderSize = 18
  BY BytesAssumption DEF Fields, MessageSize, Type, NumReaders, CommitFlag
<1>3. /\ m0 \in Memory
      /\ \A i \in Positions :
           m0[i] = IF There + 16 <= i /\ i < There + 16 + 1 THEN 0 ELSE bytes[i]
  <2>1. /\ m0 \in Memory
        /\ \A i \in Positions :
             m0[i] = IF /\ There + NumReaders.at <= i
                        /\ i < There + NumReaders.at + NumReaders.width
                       THEN 0 ELSE bytes[i]
    <3>1. NumReaders \in Fields
      BY <1>2
    <3> QED BY <3>1, StoreZero
  <2> HIDE DEF m0
  <2> QED BY <1>2, <2>1
<1> HIDE DEF m0
<1>4. /\ m1 \in Memory
      /\ \A i \in Positions :
           i < There + 18 \/ i >= There + 18 + size => m1[i] = m0[i]
      /\ \A i \in Positions :
           i >= There + 18 /\ i < There + 18 + size => m1[i] = 0
  <2>1. 0 \in Byte
    BY DEF Byte
  <2>2. /\ m1 \in Memory
        /\ \A i \in Positions :
             i < There + HeaderSize \/ i >= There + HeaderSize + size =>
               m1[i] = m0[i]
        /\ \A i \in Positions :
             i >= There + HeaderSize /\ i < There + HeaderSize + size =>
               m1[i] = 0
    BY <1>3, <2>1, FillEffect
  <2> HIDE DEF m1
  <2> QED BY <1>2, <2>2
<1> HIDE DEF m1
<1>5. /\ m2 \in Memory
      /\ \A i \in Positions :
           m2[i] = IF There + 8 <= i /\ i < There + 8 + 4 THEN 0 ELSE m1[i]
  <2>1. /\ m2 \in Memory
        /\ \A i \in Positions :
             m2[i] = IF /\ There + MessageSize.at <= i
                        /\ i < There + MessageSize.at + MessageSize.width
                       THEN 0 ELSE m1[i]
    <3>1. MessageSize \in Fields
      BY <1>2
    <3> QED BY <1>4, <3>1, StoreZero
  <2> HIDE DEF m2
  <2> QED BY <1>2, <2>1
<1> HIDE DEF m2
<1>6. /\ m3 \in Memory
      /\ \A i \in Positions :
           m3[i] = IF There + 12 <= i /\ i < There + 12 + 4 THEN 0 ELSE m2[i]
  <2>1. /\ m3 \in Memory
        /\ \A i \in Positions :
             m3[i] = IF /\ There + Type.at <= i
                        /\ i < There + Type.at + Type.width
                       THEN 0 ELSE m2[i]
    <3>1. Type \in Fields
      BY <1>2
    <3> QED BY <1>5, <3>1, StoreZero
  <2> HIDE DEF m3
  <2> QED BY <1>2, <2>1
<1> HIDE DEF m3
<1>7. /\ m4 \in Memory
      /\ \A i \in Positions :
           m4[i] = IF There + 17 <= i /\ i < There + 17 + 1 THEN 0 ELSE m3[i]
  <2>1. /\ m4 \in Memory
        /\ \A i \in Positions :
             m4[i] = IF /\ There + CommitFlag.at <= i
                        /\ i < There + CommitFlag.at + CommitFlag.width
                       THEN 0 ELSE m3[i]
    <3>1. CommitFlag \in Fields
      BY <1>2
    <3> QED BY <1>6, <3>1, StoreZero
  <2> HIDE DEF m4
  <2> QED BY <1>2, <2>1
<1> HIDE DEF m4
<1>8. ASSUME NEW i \in Positions
      PROVE  m4[i] = IF There + 8 <= i /\ i < There + 18 + size
                       THEN 0 ELSE bytes[i]
  <2>1. i \in Nat
    BY LayoutAssumption DEF Positions
  <2>2. /\ m0[i] = IF There + 16 <= i /\ i < There + 16 + 1 THEN 0 ELSE bytes[i]
        /\ i < There + 18 \/ i >= There + 18 + size => m1[i] = m0[i]
        /\ i >= There + 18 /\ i < There + 18 + size => m1[i] = 0
        /\ m2[i] = IF There + 8 <= i /\ i < There + 8 + 4 THEN 0 ELSE m1[i]
        /\ m3[i] = IF There + 12 <= i /\ i < There + 12 + 4 THEN 0 ELSE m2[i]
        /\ m4[i] = IF There + 17 <= i /\ i < There + 17 + 1 THEN 0 ELSE m3[i]
    BY <1>3, <1>4, <1>5, <1>6, <1>7
  <2>3. CASE i < There + 8 \/ i >= There + 18 + size
    BY <2>1, <2>2, <2>3
  <2>4. CASE There + 8 <= i /\ i < There + 18
    BY <2>1, <2>2, <2>4
  <2>5. CASE There + 18 <= i /\ i < There + 18 + size
    BY <2>1, <2>2, <2>5
  <2> QED BY <2>1, <2>3, <2>4, <2>5
<1> QED BY <1>1, <1>2, <1>7, <1>8

\* A lap earlier, an offset has the same position.
LEMMA LapBack ==
  ASSUME NEW o \in Nat, o >= QueueSize
  PROVE  Rel(o) = Rel(o - QueueSize)
<1> DEFINE b == o - QueueSize
           k == b \div QueueSize
<1>1. b \in Nat /\ QueueSize \in Nat
  BY LayoutAssumption
<1>2. k \in Int /\ b = QueueSize * k + Rel(b)
  BY <1>1, Division
<1>3. Rel(b) \in 0 .. (QueueSize - 1)
  BY <1>1, RelTyping
<1> HIDE DEF k
<1>4. QueueSize * (k + 1) = QueueSize * k + QueueSize
  BY <1>1, <1>2
<1>5. o = QueueSize * (k + 1) + Rel(b) /\ k + 1 \in Int
  BY <1>1, <1>2, <1>3, <1>4
<1> HIDE DEF b
<1>6. Rel(o) = Rel(b)
  BY <1>3, <1>5, RelUnique
<1> QED BY <1>6 DEF b

LEMMA RelZero == Rel(0) = 0
<1>1. /\ 0 \in Nat /\ 0 \in Int /\ 0 \in 0 .. (QueueSize - 1)
      /\ 0 = QueueSize * 0 + 0
  BY LayoutAssumption
<1> QED BY <1>1, RelUnique

\* What a release leaves is quiet.
LEMMA ReleasedQuiet ==
  ASSUME OffsetsQuiet, NEW c \in ClaimRecords, Place(c.off),
         c.off = 0 \/ c.off >= HeaderSize,
         c.off < MaxOffset \/ Rel(c.off) = 0,
         NEW m, HeaderHeld(m, c), NEW n, NEW len \in Nat,
         Rel(c.off) + len <= QueueSize,
         \A i \in Positions :
           n[i] = IF Rel(c.off) + 8 <= i /\ i < Rel(c.off) + len
                    THEN 0 ELSE m[i],
         NEW j \in 0 .. (len - 1)
  PROVE  Quiet(n, Rel(c.off) + j)
<1> DEFINE h == Rel(c.off)
<1>1. /\ h \in Nat /\ c.off \in Nat /\ QueueSize \in Nat /\ HeaderSize = 18
      /\ h + j \in Positions /\ MaxOffset \in Nat
  <2>1. c.off \in Nat /\ QueueSize \in Nat /\ HeaderSize = 18 /\ MaxOffset \in Nat
    BY LayoutAssumption, BytesAssumption DEF ClaimRecords
  <2>2. h \in 0 .. (QueueSize - 1)
    BY <2>1, RelTyping
  <2> QED BY <2>1, <2>2 DEF Positions
<1>2. CASE j >= 8
  <2>1. n[h + j] = 0
    BY <1>1, <1>2
  <2> QED BY <2>1 DEF Quiet, SetFlags, READY_FOR_CONSUMER, ABORTED
<1>3. CASE j < 8
  <2>1. n[h + j] = m[h + j]
    BY <1>1, <1>3
  <2>2. m[h + j] = Digit(c.off, j)
    <3>1. j \in 0 .. (AbsOffset.width - 1) /\ h + AbsOffset.at + j = h + j
      BY <1>1, <1>3 DEF AbsOffset
    <3>2. m[h + AbsOffset.at + j] = Digit(c.off, j)
      BY <3>1 DEF HeaderHeld, HoldsValue
    <3> QED BY <3>1, <3>2
  <2>3. CASE h = 0
    <3>1. ~FlagPlace(h + j)
      BY <1>3, <2>3 DEF FlagPlace, CommitFlag
    <3> QED BY <3>1 DEF Quiet
  <2>4. CASE h # 0
    <3>1. c.off \in HeaderSize .. (MaxOffset - 1)
      BY <1>1, <2>4, RelZero
    <3>2. j \in 0 .. (AbsOffset.width - 1)
      BY <1>3 DEF AbsOffset
    <3>3. FlagPlace(h + j) => Digit(c.off, j) \notin SetFlags
      BY <3>1, <3>2 DEF OffsetsQuiet
    <3> QED BY <2>1, <2>2, <3>3 DEF Quiet
  <2> QED BY <2>3, <2>4
<1> QED BY <1>1, <1>2, <1>3

LEMMA ReleaseStep ==
  ASSUME BytesInv, OffsetsQuiet, ReleaseBuffer,
         NEW c \in claims, c.off = reader.pos, c.status # "open"
  PROVE  BytesInv'
<1>1. /\ c \in ClaimRecords /\ Place(c.off) /\ c.off = readOffset
      /\ reader.pos = readOffset /\ There = Rel(c.off)
      /\ HeaderHeld(bytes, c)
      /\ bytes \in Memory
      /\ readOffset \in Nat /\ writeOffset \in Nat
      /\ EndOf(c) <= writeOffset
      /\ EndOf(c) = writeOffset \/ \E d \in claims : d.off = EndOf(c)
      /\ QueueSize \in Nat /\ HeaderSize = 18
  BY LayoutAssumption, BytesAssumption, Committed
  DEF BytesInv, TypeOK, ClaimsInv, Memory, There
<1>2. /\ Rel(c.off) \in Nat /\ Rel(c.off) + 18 <= QueueSize
      /\ EndOf(c) \in Nat /\ c.off + 18 <= EndOf(c)
      /\ EndOf(c) <= c.off + QueueSize
      /\ Rel(c.off) + (EndOf(c) - c.off) <= QueueSize
      /\ StoredSize(c) \in Nat /\ StoredSize(c) \in 0 .. LargestQueue
      /\ StoredSize(c) = EndOf(c) - c.off - 18
  <2>1. /\ Rel(c.off) \in Positions /\ Rel(c.off) + HeaderSize <= QueueSize
        /\ EndOf(c) \in Nat /\ c.off + HeaderSize <= EndOf(c)
        /\ EndOf(c) <= c.off + QueueSize
        /\ Rel(c.off) + (EndOf(c) - c.off) <= QueueSize
        /\ StoredSize(c) \in Nat /\ StoredSize(c) \in 0 .. LargestQueue
    BY <1>1, ClaimShape
  <2> QED BY <1>1, <2>1 DEF Positions, StoredSize
<1>3. Load(bytes, There, NumReaders) = 1 /\ ReleasedSize = StoredSize(c)
  <2>1. /\ HoldsValue(bytes, There, NumReaders, 1)
        /\ HoldsValue(bytes, There, MessageSize, StoredSize(c))
    BY <1>1 DEF HeaderHeld
  <2>2. 1 \in Byte
    BY DEF Byte
  <2> QED BY <1>1, <1>2, <2>1, <2>2, LoadSize, LoadByte DEF ReleasedSize
<1>4. Total(ReleasedSize) = EndOf(c) - c.off
  BY <1>1, <1>2, <1>3 DEF Total
<1>5. /\ bytes' = Cleared(Store(bytes, There, NumReaders, 0), StoredSize(c))
      /\ readOffset' = EndOf(c)
      /\ reader' = [pc |-> "polling", pos |-> EndOf(c)]
      /\ claims' = {d \in claims : d.off >= EndOf(c) \/ d.status = "open"}
      /\ UNCHANGED <<writeOffset, writer>>
  <2>1. (1 - 1) % 256 = 0 /\ 1 <= 1
    OBVIOUS
  <2>2. /\ readOffset + Total(ReleasedSize) = EndOf(c)
        /\ reader.pos + Total(ReleasedSize) = EndOf(c)
    BY <1>1, <1>2, <1>4
  <2> QED BY <1>3, <2>1, <2>2 DEF ReleaseBuffer
<1>6. /\ bytes' \in Memory
      /\ \A i \in Positions :
           bytes'[i] = IF Rel(c.off) + 8 <= i
                            /\ i < Rel(c.off) + (EndOf(c) - c.off)
                         THEN 0 ELSE bytes[i]
  <2>1. There + HeaderSize + StoredSize(c) = Rel(c.off) + (EndOf(c) - c.off)
    BY <1>1, <1>2
  <2>2. /\ There \in Nat /\ There + HeaderSize <= QueueSize
    BY <1>1, <1>2
  <2>3. /\ bytes' \in Memory
        /\ \A i \in Positions :
             bytes'[i] = IF There + 8 <= i /\ i < There + HeaderSize + StoredSize(c)
                           THEN 0 ELSE bytes[i]
    BY <1>1, <1>2, <1>5, <2>2, ClearedEffect
  <2> QED BY <1>1, <2>1, <2>3
<1>7. \A i \in Positions : ~InClaim(c, i) => bytes'[i] = bytes[i]
  BY <1>2, <1>6 DEF InClaim, Positions
<1>8. ASSUME NEW d \in claims, d # c
      PROVE  /\ d \in ClaimRecords /\ Place(d.off) /\ d.off \in Nat
             /\ EndOf(d) \in Nat /\ d.off < EndOf(d) /\ EndOf(c) <= d.off
  <2>1. d \in ClaimRecords /\ Place(d.off) /\ readOffset <= d.off
    BY DEF BytesInv, TypeOK, ClaimsInv
  <2>2. d.off \in Nat /\ EndOf(d) \in Nat /\ d.off + 18 <= EndOf(d)
    BY <1>1, <2>1, ClaimShape
  <2>3. EndOf(c) <= d.off \/ EndOf(d) <= c.off
    BY <1>8 DEF BytesInv, ClaimsInv
  <2> QED BY <1>1, <2>1, <2>2, <2>3
<1>9. claims' = claims \ {c}
  <2>1. ~(c.off >= EndOf(c))
    BY <1>1, <1>2
  <2>2. \A d \in claims : d # c => d.off >= EndOf(c)
    BY <1>2, <1>8
  <2> QED BY <1>5, <2>1, <2>2
<1>10. TypeOK'
  BY <1>2, <1>5, <1>6, <1>9 DEF BytesInv, TypeOK, Memory
<1>11. ClaimsInv'
  <2>1. /\ Place(writeOffset) /\ (writeOffset = 0 \/ writeOffset >= HeaderSize)
    BY DEF BytesInv, ClaimsInv
  <2>2. EndOf(c) = writeOffset \/ \E d \in claims' : d.off = EndOf(c)
    BY <1>1, <1>2, <1>9
  <2>3. ASSUME NEW d \in claims'
        PROVE  /\ EndOf(c) <= d.off
               /\ Place(d.off)
               /\ d.off = 0 \/ d.off >= HeaderSize
               /\ d.off < MaxOffset \/ Rel(d.off) = 0
               /\ EndOf(d) = writeOffset \/ \E e \in claims' : e.off = EndOf(d)
               /\ EndOf(d) <= writeOffset
               /\ d.status = "open" \/ EndOf(d) <= EndOf(c) + QueueSize
               /\ d.status = "ready" => IsMessage(d)
               /\ d.status = "open" => Pending /\ d.off = writer.off
    <3>1. d \in claims /\ d # c
      BY <1>9
    <3>2. /\ Place(d.off)
          /\ d.off = 0 \/ d.off >= HeaderSize
          /\ d.off < MaxOffset \/ Rel(d.off) = 0
          /\ EndOf(d) = writeOffset \/ \E e \in claims : e.off = EndOf(d)
          /\ EndOf(d) <= writeOffset
          /\ d.status = "open" \/ EndOf(d) <= readOffset + QueueSize
          /\ d.status = "ready" => IsMessage(d)
          /\ d.status = "open" => Pending /\ d.off = writer.off
      BY <3>1 DEF BytesInv, ClaimsInv
    <3>3. d.off \in Nat /\ EndOf(d) \in Nat /\ d.off < EndOf(d) /\ EndOf(c) <= d.off
      BY <1>8, <3>1
    <3>4. c.off # EndOf(d)
      BY <1>1, <1>2, <3>3
    <3>5. EndOf(d) = writeOffset \/ \E e \in claims' : e.off = EndOf(d)
      BY <1>9, <3>2, <3>4
    <3>6. d.status = "open" \/ EndOf(d) <= EndOf(c) + QueueSize
      BY <1>1, <1>2, <3>2, <3>3
    <3> QED BY <3>2, <3>3, <3>5, <3>6
  <2>4. \A d, e \in claims' : d = e \/ EndOf(d) <= e.off \/ EndOf(e) <= d.off
    BY <1>9 DEF BytesInv, ClaimsInv
  <2>5. Pending' <=> Pending
    BY <1>5 DEF Pending, Writing
  <2>6. reader'.pos = EndOf(c)
    BY <1>5
  <2> QED BY <1>1, <1>5, <2>1, <2>2, <2>3, <2>4, <2>5, <2>6 DEF ClaimsInv
<1>12. WriterInv'
  <2>1. (Pending' <=> Pending) /\ (Writing' <=> Writing)
    BY <1>5 DEF Pending, Writing
  <2>2. Pending => \E d \in claims' : /\ d.off = writer.off
                                      /\ d.size = writer.size
                                      /\ d.status = "open"
                                      /\ EndOf(d) = writeOffset
    BY <1>9 DEF BytesInv, WriterInv
  <2>3. Writing => writeOffset <= EndOf(c) + QueueSize
    BY <1>1, <1>2 DEF BytesInv, WriterInv
  <2> QED BY <1>5, <2>1, <2>2, <2>3 DEF BytesInv, WriterInv
<1>13. Pending => EndOf(c) <= writer.off /\ writer.off \in Nat
  <2> SUFFICES ASSUME Pending
               PROVE  EndOf(c) <= writer.off /\ writer.off \in Nat
    OBVIOUS
  <2>1. PICK w \in claims : Own(w)
    BY OwnClaim DEF BytesInv
  <2> QED BY <1>8, <2>1 DEF Own
<1>14. QuietInv'
  <2>1. /\ FreeFrom' = FreeFrom /\ Here' = Here /\ (Writing' <=> Writing)
        /\ FreeFrom \in Nat /\ EndOf(c) <= FreeFrom
    BY <1>1, <1>5, <1>13 DEF FreeFrom, Here, Writing, Pending
  <2>2. ASSUME NEW o \in FreeFrom .. (EndOf(c) + QueueSize - 1)
        PROVE  Quiet(bytes', Rel(o))
    <3>1. o \in Nat /\ EndOf(c) <= o
      BY <1>1, <1>2, <2>1
    <3>2. CASE o < readOffset + QueueSize
      <4>1. Quiet(bytes, Rel(o))
        <5>1. o \in FreeFrom .. (readOffset + QueueSize - 1)
          BY <1>1, <2>1, <3>1, <3>2
        <5> QED BY <5>1 DEF BytesInv, QuietInv
      <4>2. Rel(o) \in Positions /\ ~InClaim(c, Rel(o))
        <5>1. readOffset <= c.off /\ EndOf(c) <= readOffset + QueueSize
              /\ readOffset <= o
          BY <1>1, <1>2, <3>1
        <5> QED BY <1>1, <3>1, <3>2, <5>1, OutsideClaim
      <4> QED BY <1>7, <4>1, <4>2 DEF Quiet
    <3>3. CASE o >= readOffset + QueueSize
      <4> DEFINE j == o - QueueSize - c.off
                 len == EndOf(c) - c.off
      <4>1. /\ j \in 0 .. (len - 1) /\ len \in Nat
            /\ o - QueueSize = c.off + j /\ o >= QueueSize
            /\ Rel(c.off) + j < QueueSize /\ j \in Nat
        BY <1>1, <1>2, <3>1, <3>3
      <4>2. Rel(o) = Rel(c.off) + j
        <5>1. Rel(o) = Rel(o - QueueSize)
          BY <3>1, <4>1, LapBack
        <5>2. Rel(c.off + j) = Rel(c.off) + j
          <6> HIDE DEF j
          <6> QED BY <1>1, <4>1, RelSum
        <5> QED BY <4>1, <5>1, <5>2
      <4>3. /\ c.off = 0 \/ c.off >= HeaderSize
            /\ c.off < MaxOffset \/ Rel(c.off) = 0
        BY DEF BytesInv, ClaimsInv
      <4>4. Rel(c.off) + len <= QueueSize
        BY <1>2
      <4>5. \A i \in Positions :
              bytes'[i] = IF Rel(c.off) + 8 <= i /\ i < Rel(c.off) + len
                            THEN 0 ELSE bytes[i]
        BY <1>6
      <4> HIDE DEF j, len
      <4>6. Quiet(bytes', Rel(c.off) + j)
        BY <1>1, <4>1, <4>3, <4>4, <4>5, ReleasedQuiet
      <4> QED BY <4>2, <4>6
    <3> QED BY <1>1, <3>1, <3>2, <3>3
  <2>3. ASSUME Writing
        PROVE  Quiet(bytes', Here + CommitFlag.at)
    <3>1. Pending
      BY <2>3 DEF Pending
    <3>2. PICK w \in claims : Own(w)
      BY <3>1, OwnClaim DEF BytesInv
    <3>3. /\ w # c /\ w \in ClaimRecords /\ Place(w.off) /\ Here = Rel(w.off)
          /\ EndOf(w) = writeOffset
      BY <3>2 DEF Own, Here
    <3>4. /\ w.off \in Nat /\ Rel(w.off) + 18 <= QueueSize
          /\ w.off + 18 <= EndOf(w) /\ Rel(w.off) \in Nat
      BY <1>1, <3>3, ClaimShape, RelTyping
    <3>5. EndOf(c) <= w.off
      BY <1>8, <3>2, <3>3
    <3>6. writeOffset <= readOffset + QueueSize
      BY <2>3 DEF BytesInv, WriterInv
    <3>7. Rel(w.off + 17) = Here + 17
      BY <1>1, <3>3, <3>4, RelSum
    <3>8. Rel(w.off + 17) \in Positions /\ ~InClaim(c, Rel(w.off + 17))
      <4>1. /\ w.off + 17 \in Nat /\ readOffset <= w.off + 17
            /\ w.off + 17 < readOffset + QueueSize
            /\ EndOf(c) <= w.off + 17
            /\ readOffset <= c.off /\ EndOf(c) <= readOffset + QueueSize
        BY <1>1, <1>2, <3>3, <3>4, <3>5, <3>6
      <4> QED BY <1>1, <4>1, OutsideClaim
    <3>9. Quiet(bytes, Here + 17)
      BY <2>3 DEF BytesInv, QuietInv, CommitFlag
    <3> QED BY <1>7, <3>7, <3>8, <3>9 DEF Quiet, CommitFlag
  <2> QED BY <1>5, <2>1, <2>2, <2>3 DEF QuietInv
<1>15. StoredInv'
  <2>1. Writing' <=> Writing
    BY <1>5 DEF Writing
  <2> SUFFICES ASSUME NEW d \in claims, d # c
               PROVE  /\ d.status # "open" \/ Writing => HeaderHeld(bytes', d)
                      /\ d.status # "open" => FlagHeld(bytes', d)
                      /\ d.status = "ready"
                           \/ (d.status = "open" /\ writer.pc = "written") =>
                           PayloadHeld(bytes', d)
    BY <1>5, <1>9, <2>1 DEF StoredInv
  <2>2. d \in ClaimRecords /\ Place(d.off) /\ EndOf(c) <= d.off
    BY <1>8
  <2>3. CASE d.status = "open" /\ ~Writing
    BY <2>3 DEF Writing
  <2>4. CASE d.status # "open" \/ Writing
    <3>1. EndOf(d) <= readOffset + QueueSize
      <4>1. CASE d.status = "open"
        <5>1. EndOf(d) <= writeOffset /\ writeOffset <= readOffset + QueueSize
          BY <2>4, <4>1 DEF BytesInv, ClaimsInv, WriterInv
        <5>2. EndOf(d) \in Nat
          BY <1>8
        <5> QED BY <1>1, <5>1, <5>2
      <4>2. CASE d.status # "open"
        BY <4>2 DEF BytesInv, ClaimsInv
      <4> QED BY <4>1, <4>2
    <3>2. /\ HeaderHeld(bytes, d)
          /\ d.status # "open" => FlagHeld(bytes, d)
          /\ d.status = "ready" \/ (d.status = "open" /\ writer.pc = "written") =>
               PayloadHeld(bytes, d) /\ IsMessage(d)
      <4>1. d.status = "ready" => IsMessage(d)
        BY DEF BytesInv, ClaimsInv
      <4>2. d.status = "open" /\ writer.pc = "written" => IsMessage(d)
        <5> SUFFICES ASSUME d.status = "open", writer.pc = "written"
                     PROVE  IsMessage(d)
          OBVIOUS
        <5>1. Writing /\ Pending
          BY DEF Writing, Pending
        <5>2. PICK w \in claims : Own(w)
          BY <5>1, OwnClaim DEF BytesInv
        <5>3. d = w
          BY <5>2 DEF Own
        <5> QED BY <5>2, <5>3 DEF Own, BytesInv, WriterInv, IsMessage
      <4> QED BY <2>4, <4>1, <4>2 DEF BytesInv, StoredInv
    <3>3. /\ readOffset <= c.off /\ readOffset <= d.off
          /\ EndOf(c) <= readOffset + QueueSize
      BY <1>1, <1>2, <1>8
    <3>4. /\ HeaderHeld(bytes, d) => HeaderHeld(bytes', d)
          /\ FlagHeld(bytes, d) => FlagHeld(bytes', d)
          /\ IsMessage(d) /\ PayloadHeld(bytes, d) => PayloadHeld(bytes', d)
      BY <1>1, <1>7, <2>2, <3>1, <3>3, OtherHeld
    <3> QED BY <3>2, <3>4
  <2> QED BY <2>3, <2>4
<1>16. HoldingInv'
  BY <1>5 DEF HoldingInv
<1> QED BY <1>10, <1>11, <1>12, <1>14, <1>15, <1>16 DEF BytesInv

LEMMA TakeMessageStep ==
  ASSUME BytesInv, TakeMessage
  PROVE  BytesInv'
<1>1. /\ reader' = [reader EXCEPT !.pc = "holding"]
      /\ UNCHANGED <<bytes, writeOffset, readOffset, writer, claims>>
      /\ Found(READY_FOR_CONSUMER) /\ ~FoundPadding
  BY DEF TakeMessage, FoundOwn
<1>2. reader \in [pc : {"polling", "holding"}, pos : Nat]
  BY DEF BytesInv, TypeOK
<1>3. /\ reader'.pos = reader.pos
      /\ reader' \in [pc : {"polling", "holding"}, pos : Nat]
  BY <1>1, <1>2
<1>4. PICK c \in claims : /\ c.off = reader.pos /\ c.status # "open"
                          /\ StoredFlag(c) = READY_FOR_CONSUMER
  BY <1>1, FoundClaim DEF SetFlags
<1>5. c.status = "ready"
  <2>1. c.status \in {"ready", "void"}
    BY <1>4 DEF BytesInv, TypeOK, ClaimRecords
  <2>2. IsMessage(c)
    <3>1. HoldsValue(bytes, There, Type, StoredType(c))
      BY <1>4 DEF BytesInv, StoredInv, HeaderHeld, There
    <3> QED BY <1>1, <3>1 DEF FoundPadding, StoredType
  <2> QED BY <1>4, <2>1, <2>2
          DEF StoredFlag, READY_FOR_CONSUMER, ABORTED
<1>6. TypeOK'
  BY <1>1, <1>3 DEF BytesInv, TypeOK
<1>7. ClaimsInv'
  <2>1. Pending' <=> Pending
    BY <1>1 DEF Pending, Writing
  <2> QED BY <1>1, <1>3, <2>1 DEF BytesInv, ClaimsInv
<1>8. WriterInv' /\ QuietInv' /\ StoredInv'
  BY <1>1 DEF BytesInv, WriterInv, QuietInv, StoredInv, Pending, Writing,
              FreeFrom, Here
<1>9. HoldingInv'
  BY <1>1, <1>3, <1>4, <1>5 DEF HoldingInv
<1> QED BY <1>6, <1>7, <1>8, <1>9 DEF BytesInv

\* The three ways the reader comes to release a claim.
LEMMA ReleasesStep ==
  ASSUME BytesInv, OffsetsQuiet, SkipPadding \/ SkipAborted \/ ReleaseMessage
  PROVE  BytesInv'
<1>1. ReleaseBuffer
  BY DEF SkipPadding, SkipAborted, ReleaseMessage
<1>2. \E c \in claims : c.off = reader.pos /\ c.status # "open"
  <2>1. CASE SkipPadding
    BY <2>1, FoundClaim DEF SkipPadding, FoundOwn, SetFlags
  <2>2. CASE SkipAborted
    BY <2>2, FoundClaim DEF SkipAborted, SetFlags
  <2>3. CASE ReleaseMessage
    <3>1. PICK c \in claims : c.off = reader.pos /\ c.status = "ready"
      BY <2>3 DEF ReleaseMessage, BytesInv, HoldingInv
    <3> QED BY <3>1
  <2> QED BY <2>1, <2>2, <2>3
<1> QED BY <1>1, <1>2, ReleaseStep

LEMMA BytesInit ==
  ASSUME Init
  PROVE  BytesInv
<1>1. /\ bytes = [i \in Positions |-> 0]
      /\ writeOffset = 0 /\ readOffset = 0
      /\ writer = [pc |-> "idle", size |-> 0, off |-> 0]
      /\ reader = [pc |-> "polling", pos |-> 0]
      /\ claims = {}
      /\ QueueSize \in Nat /\ HeaderSize \in Nat /\ HeaderSize <= QueueSize
  BY LayoutAssumption DEF Init
<1>2. ~Pending /\ ~Writing
  BY <1>1 DEF Pending, Writing
<1>3. TypeOK
  BY <1>1 DEF TypeOK, WriterStates, Byte
<1>4. ClaimsInv
  <2>1. Place(0)
    <3>1. 0 % Unit = 0
      BY BytesAssumption
    <3> QED BY <1>1, <3>1, RelZero DEF Place
  <2> QED BY <1>1, <2>1 DEF ClaimsInv
<1>5. WriterInv
  BY <1>1, <1>2 DEF WriterInv
<1>6. QuietInv
  <2>1. ASSUME NEW o \in FreeFrom .. (readOffset + QueueSize - 1)
        PROVE  Quiet(bytes, Rel(o))
    <3>1. o \in Nat
      BY <1>1, <2>1 DEF FreeFrom
    <3>2. Rel(o) \in Positions
      BY <3>1, RelTyping DEF Positions
    <3> QED BY <1>1, <3>2 DEF Quiet, SetFlags, READY_FOR_CONSUMER, ABORTED
  <2> QED BY <1>2, <2>1 DEF QuietInv
<1>7. StoredInv /\ HoldingInv
  BY <1>1 DEF StoredInv, HoldingInv
<1> QED BY <1>3, <1>4, <1>5, <1>6, <1>7 DEF BytesInv

LEMMA BytesStep ==
  ASSUME OffsetsQuiet, BytesInv, [Next]_vars
  PROVE  BytesInv'
<1>1. ASSUME NEW size \in Sizes, ClaimBuffer(size)
      PROVE  BytesInv'
  BY <1>1, ReserveStep DEF ClaimBuffer
<1>2. CASE RetryClaim
  <2>1. /\ writer.pc = "claiming" /\ Reserve(writer.size)
        /\ writer.size \in Sizes /\ Rel(writeOffset) = 0
    BY <1>2 DEF RetryClaim, BytesInv, WriterInv
  <2> QED BY <2>1, ReserveStep
<1>3. CASE WriteHeader
  BY <1>3, WriteHeaderStep
<1>4. CASE InsertSkip
  BY <1>4, InsertSkipStep
<1>5. CASE CommitSkip
  BY <1>5, CommitSkipStep
<1>6. ASSUME NEW byte \in PayloadBytes, WritePayload(byte)
      PROVE  BytesInv'
  BY <1>6, WritePayloadStep
<1>7. CASE CommitBuffer
  BY <1>7, CommitBufferStep
<1>8. CASE AbortBuffer
  BY <1>8, AbortBufferStep
<1>9. CASE TakeMessage
  BY <1>9, TakeMessageStep
<1>10. CASE SkipPadding \/ SkipAborted \/ ReleaseMessage
  BY <1>10, ReleasesStep
<1>11. CASE UNCHANGED vars
  <2>1. UNCHANGED <<bytes, writeOffset, readOffset, writer, reader, claims>>
    BY <1>11 DEF vars
  <2>2. TypeOK' /\ HoldingInv'
    BY <2>1 DEF BytesInv, TypeOK, HoldingInv
  <2>3. ClaimsInv' /\ WriterInv'
    BY <2>1 DEF BytesInv, ClaimsInv, WriterInv, Pending, Writing
  <2>4. QuietInv' /\ StoredInv'
    BY <2>1 DEF BytesInv, QuietInv, StoredInv, Writing, FreeFrom, Here
  <2> QED BY <2>2, <2>3, <2>4 DEF BytesInv
<1> QED BY <1>1, <1>2, <1>3, <1>4, <1>5, <1>6, <1>7, <1>8, <1>9, <1>10, <1>11
        DEF Next, WriterProgress, ReaderProgress

-----------------------------------------------------------------------------
(* Theorems *)

\* In every ring, for all sizes and payloads: the claims follow one another
\* from the watermark to the write offset, each holds the header and the
\* payload it was given, and no byte before the next header is taken for a
\* commit flag, as long as no abs_offset that a release leaves is.
THEOREM BytesInvariant ==
  ASSUME OffsetsQuiet
  PROVE  Spec => []BytesInv
<1>1. BytesInv /\ [Next]_vars => BytesInv'
  BY BytesStep
<1> QED BY <1>1, BytesInit, PTL DEF Spec

\* The reader is always at the start of a claim, or has caught up, and passes
\* no claim the writer still has: the bytes poll_buffer looks at are a header
\* or quiet.
THEOREM ReaderInStep ==
  ASSUME OffsetsQuiet
  PROVE  Spec => []InStep
<1>1. BytesInv => InStep
  <2> SUFFICES ASSUME BytesInv
               PROVE  InStep
    OBVIOUS
  <2>1. /\ reader.pos = readOffset
        /\ readOffset = writeOffset \/ \E c \in claims : c.off = readOffset
        /\ readOffset \in Nat
    BY DEF BytesInv, TypeOK, ClaimsInv
  <2>2. ASSUME NEW c \in claims, c.off < reader.pos
        PROVE  FALSE
    <3>1. c.off \in Nat /\ readOffset <= c.off
      BY DEF BytesInv, TypeOK, ClaimsInv, ClaimRecords
    <3> QED BY <2>1, <2>2, <3>1
  <2> QED BY <2>1, <2>2 DEF InStep
<1> QED BY <1>1, BytesInvariant, PTL

\* What a reader wrapper stands for is a committed message, with the size and
\* the payload its writer gave it, until the wrapper goes.
THEOREM MessageHeldWhole ==
  ASSUME OffsetsQuiet
  PROVE  Spec => []HeldWhole
<1>1. BytesInv => HeldWhole
  <2> SUFFICES ASSUME BytesInv, reader.pc = "holding"
               PROVE  \E c \in claims :
                        /\ c.off = reader.pos
                        /\ c.status = "ready"
                        /\ Load(bytes, There, MessageSize) = c.size
                        /\ \A i \in 1 .. c.size :
                             bytes[There + HeaderSize + i - 1] = c.byte
    BY DEF HeldWhole
  <2>1. PICK c \in claims : c.off = reader.pos /\ c.status = "ready"
    BY DEF BytesInv, HoldingInv
  <2>2. /\ c \in ClaimRecords /\ Place(c.off) /\ There = Rel(c.off)
        /\ HeaderHeld(bytes, c) /\ PayloadHeld(bytes, c) /\ IsMessage(c)
        /\ bytes \in Memory
    BY <2>1, Committed DEF BytesInv, TypeOK, Memory, There
  <2>3. /\ Rel(c.off) \in Nat /\ c.off \in Nat /\ c.size \in Nat
        /\ StoredSize(c) \in 0 .. LargestQueue
        /\ EndOf(c) = c.off + (c.size + HeaderSize)
        /\ HeaderSize \in Nat
    BY <2>2, ClaimShape, LayoutAssumption DEF Positions
  <2>4. StoredSize(c) = c.size
    BY <2>3 DEF StoredSize
  <2>5. Load(bytes, There, MessageSize) = StoredSize(c)
    BY <2>2, <2>3, LoadSize DEF HeaderHeld
  <2> QED BY <2>1, <2>2, <2>4, <2>5 DEF PayloadHeld
<1> QED BY <1>1, BytesInvariant, PTL

\* Offsets of one byte are quiet: only the first 256 bytes ever claimed can be
\* relied on when messages start at any position.
THEOREM OneByteOffsets ==
  ASSUME MaxOffset <= 256
  PROVE  OffsetsQuiet
<1> SUFFICES ASSUME NEW o \in HeaderSize .. (MaxOffset - 1),
                    NEW k \in 0 .. (AbsOffset.width - 1)
             PROVE  Digit(o, k) \notin SetFlags
  BY DEF OffsetsQuiet
<1>1. /\ o \in Byte /\ o >= 18 /\ k \in 0 .. 7
  BY BytesAssumption DEF Byte, AbsOffset
<1>2. Digit(o, k) = o \/ Digit(o, k) = 0
  <2>1. k = 0 \/ k \in 1 .. 7
    BY <1>1
  <2> QED BY <1>1, <2>1, DigitsOfByte
<1> QED BY <1>1, <1>2 DEF SetFlags, READY_FOR_CONSUMER, ABORTED, Byte

\* Offsets of any size are quiet when every message, with its header, is padded
\* to a unit that keeps the next commit flag off the abs_offset of the last.
THEOREM AlignedMessages ==
  ASSUME CommitFlag.at % Unit >= AbsOffset.width
  PROVE  OffsetsQuiet
<1> SUFFICES ASSUME NEW o \in HeaderSize .. (MaxOffset - 1), Place(o),
                    NEW k \in 0 .. (AbsOffset.width - 1), FlagPlace(Rel(o) + k)
             PROVE  FALSE
  BY DEF OffsetsQuiet
<1> DEFINE h == Rel(o)
           r == 17 % Unit
           p == h \div Unit
           q == 17 \div Unit
           s == ((h + k) - 17) \div Unit
<1>1. /\ Unit \in Nat \ {0} /\ o \in Nat /\ k \in 0 .. 7
      /\ r >= 8 /\ h % Unit = 0 /\ ((h + k) - 17) % Unit = 0
  <2>1. AbsOffset.width = 8 /\ CommitFlag.at = 17
    BY DEF AbsOffset, CommitFlag
  <2>2. /\ Unit \in Nat \ {0} /\ HeaderSize = 18 /\ MaxOffset \in Nat
    BY BytesAssumption
  <2>3. r >= 8
    BY <2>1
  <2>4. h % Unit = 0 /\ ((h + k) - 17) % Unit = 0
    <3>1. h % Unit = 0
      BY DEF Place
    <3>2. ((h + k) - 17) % Unit = 0
      BY <2>1 DEF FlagPlace
    <3> QED BY <3>1, <3>2
  <2>5. o \in Nat /\ k \in 0 .. 7
    BY <2>1, <2>2
  <2> QED BY <2>2, <2>3, <2>4, <2>5
<1>2. h \in Nat
  BY <1>1, RelTyping
<1> HIDE DEF h
<1>3. /\ p \in Int /\ h = Unit * p
      /\ q \in Int /\ r \in Int /\ 17 = Unit * q + r /\ r < Unit
      /\ s \in Int /\ (h + k) - 17 = Unit * s
  BY <1>1, <1>2
<1> HIDE DEF p, q, r, s
<1>4. Unit * (s - p + q) = Unit * s - Unit * p + Unit * q
  <2>1. \A a, b, c \in Int : Unit * (a - b + c) = Unit * a - Unit * b + Unit * c
    BY <1>1
  <2> QED BY <1>3, <2>1
<1>5. Unit * (s - p + q) = k - r
  BY <1>1, <1>2, <1>3, <1>4
<1>6. k - r < 0 /\ k - r > -Unit
  BY <1>1, <1>3
<1>7. s - p + q \in Int
  BY <1>3
<1> DEFINE t == s - p + q
<1>8. t \in Int /\ Unit * t \in Int /\ Unit * t < 0 /\ Unit * t > -Unit
  <2>1. k - r \in Int
    BY <1>1, <1>3
  <2> QED BY <2>1, <1>5, <1>6, <1>7
<1> HIDE DEF t
<1>9. CASE t >= 0
  <2>1. Unit * t >= 0
    BY <1>1, <1>8, <1>9
  <2> QED BY <1>8, <2>1
<1>10. CASE t <= -1
  <2>1. Unit * t <= -Unit
    BY <1>1, <1>8, <1>10
  <2> QED BY <1>1, <1>8, <2>1
<1> QED BY <1>8, <1>9, <1>10

=============================================================================
