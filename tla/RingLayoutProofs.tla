-------------------------- MODULE RingLayoutProofs --------------------------
(***************************************************************************)
(* Facts about the ring layout that hold for every queue and header size.  *)
(***************************************************************************)
EXTENDS RingLayout, TLAPS

\* A position lies in the region.
LEMMA RelTyping ==
  ASSUME NEW o \in Nat
  PROVE  Rel(o) \in 0 .. (QueueSize - 1)
BY LayoutAssumption DEF Rel

\* A multiple of the queue size that is smaller than it is zero.
LEMMA SmallMultiple ==
  ASSUME NEW k \in Int, QueueSize * k < QueueSize, -(QueueSize * k) < QueueSize
  PROVE  k = 0
<1>1. QueueSize \in Nat /\ QueueSize > 0
  BY LayoutAssumption
<1>2. CASE k >= 1
  <2>1. QueueSize * k >= QueueSize
    BY <1>1, <1>2
  <2> QED BY <1>1, <2>1
<1>3. CASE k <= -1
  <2>1. QueueSize * k <= -QueueSize
    BY <1>1, <1>3
  <2> QED BY <1>1, <2>1
<1> QED BY <1>2, <1>3

LEMMA Distribute ==
  ASSUME NEW x \in Int, NEW y \in Int
  PROVE  QueueSize * (x - y) = QueueSize * x - QueueSize * y
BY LayoutAssumption

\* An offset is its position plus a whole number of laps.
LEMMA Division ==
  ASSUME NEW o \in Nat
  PROVE  /\ o \div QueueSize \in Int
         /\ o = QueueSize * (o \div QueueSize) + Rel(o)
BY LayoutAssumption DEF Rel

\* ... and that determines the position.
LEMMA RelUnique ==
  ASSUME NEW o \in Nat, NEW k \in Int, NEW p \in 0 .. (QueueSize - 1),
         o = QueueSize * k + p
  PROVE  Rel(o) = p
<1> DEFINE q == o \div QueueSize
<1>1. q \in Int /\ o = QueueSize * q + Rel(o)
  BY Division
<1>2. Rel(o) \in 0 .. (QueueSize - 1)
  BY RelTyping
<1> HIDE DEF q
<1>3. QueueSize * (k - q) = Rel(o) - p
  BY <1>1, <1>2, Distribute, LayoutAssumption
<1>4. k - q = 0
  BY <1>1, <1>2, <1>3, SmallMultiple, LayoutAssumption
<1> QED BY <1>1, <1>2, <1>3, <1>4, LayoutAssumption

\* Two offsets less than a lap apart never share a position.
LEMMA WindowInjective ==
  ASSUME NEW a \in Nat, NEW b \in Nat,
         a - b < QueueSize, b - a < QueueSize, Rel(a) = Rel(b)
  PROVE  a = b
<1> DEFINE qa == a \div QueueSize
           qb == b \div QueueSize
<1>1. /\ qa \in Int /\ a = QueueSize * qa + Rel(a)
      /\ qb \in Int /\ b = QueueSize * qb + Rel(b)
  BY Division
<1>2. Rel(a) \in Int /\ Rel(b) \in Int
  BY RelTyping
<1> HIDE DEF qa, qb
<1>3. QueueSize * (qa - qb) = a - b
  BY <1>1, <1>2, Distribute, LayoutAssumption
<1>4. qa - qb = 0
  BY <1>1, <1>3, SmallMultiple, LayoutAssumption
<1> QED BY <1>1, <1>3, <1>4, LayoutAssumption

\* A claim that stays short of the end of the region only shifts the position.
LEMMA RelSum ==
  ASSUME NEW o \in Nat, NEW n \in Nat, Rel(o) + n < QueueSize
  PROVE  Rel(o + n) = Rel(o) + n
BY LayoutAssumption DEF Rel

\* A skip moves the write offset to the start of the region.
LEMMA RelLap ==
  ASSUME NEW o \in Nat
  PROVE  Rel(o + Remaining(o)) = 0
<1> DEFINE q == o \div QueueSize
<1>1. q \in Int /\ o = QueueSize * q + Rel(o)
  BY Division
<1>2. Rel(o) \in 0 .. (QueueSize - 1)
  BY RelTyping
<1> HIDE DEF q
<1>3. /\ o + Remaining(o) = QueueSize * q + QueueSize
      /\ o + Remaining(o) \in Nat
  BY <1>1, <1>2, LayoutAssumption DEF Remaining
<1>4. QueueSize * (q + 1) = QueueSize * q + QueueSize
  BY <1>1, LayoutAssumption
<1>5. o + Remaining(o) = QueueSize * (q + 1) + 0
  BY <1>3, <1>4, <1>1, LayoutAssumption
<1> QED BY <1>1, <1>3, <1>5, RelUnique, LayoutAssumption

\* A claim moves the write offset forward, by at least a header and by at
\* most a lap.
LEMMA BumpTyping ==
  ASSUME NEW o \in Nat, NEW size \in AcceptedSizes,
         Rel(o) <= QueueSize - HeaderSize
  PROVE  Bump(o, Total(size)) \in HeaderSize .. QueueSize
BY RelTyping, LayoutAssumption
DEF Bump, Fits, Total, Remaining, AcceptedSizes

\* The comment of claim_buffer, "only allow committing if we can buffer an
\* extra message at the end of the queue": every claim leaves the write
\* offset at a position where one more header fits, so the header of a skip
\* never crosses the end of the region.
LEMMA SkipHeaderRoom ==
  ASSUME NEW o \in Nat, NEW size \in AcceptedSizes,
         Rel(o) <= QueueSize - HeaderSize
  PROVE  Rel(o + Bump(o, Total(size))) <= QueueSize - HeaderSize
<1>1. Rel(o) \in 0 .. (QueueSize - 1)
  BY RelTyping
<1>2. CASE Fits(o, Total(size))
  <2>1. /\ Bump(o, Total(size)) = Total(size)
        /\ Total(size) \in Nat
        /\ Rel(o) + Total(size) <= QueueSize - HeaderSize
    BY <1>1, <1>2, LayoutAssumption
    DEF Bump, Fits, Total, Remaining, AcceptedSizes
  <2>2. Rel(o + Total(size)) = Rel(o) + Total(size)
    BY <1>1, <2>1, RelSum, LayoutAssumption
  <2> QED BY <2>1, <2>2
<1>3. CASE ~Fits(o, Total(size))
  <2>1. Bump(o, Total(size)) = Remaining(o)
    BY <1>3 DEF Bump
  <2> QED BY <2>1, RelLap, LayoutAssumption
<1> QED BY <1>2, <1>3
=============================================================================
