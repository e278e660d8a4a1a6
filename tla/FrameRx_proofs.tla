--------------------------- MODULE FrameRx_proofs ---------------------------
(***************************************************************************)
(* Proofs about FrameRx, for any number of links, frames and bytes, any    *)
(* buffer and any mailbox.                                                 *)
(***************************************************************************)
EXTENDS FrameRx, WellFoundedInduction, TLAPS

-----------------------------------------------------------------------------
(* Numbers. *)

(* A position is in the frame its quotient names, at its remainder. *)
LEMMA PositionIs ==
  ASSUME NEW F \in Nat, F >= 3, NEW p \in Nat
  PROVE  p \div F \in Nat /\ p % F \in 0 .. F - 1 /\ p = F * (p \div F) + (p % F)
OBVIOUS

LEMMA PositionOf ==
  ASSUME NEW F \in Nat, F >= 3, NEW k \in Nat, NEW q \in 0 .. F - 1
  PROVE  (F * k + q) \div F = k /\ (F * k + q) % F = q
OBVIOUS

(* A frame ends before the next one does. *)
LEMMA EndsGrow ==
  ASSUME NEW F \in Nat, F >= 3, NEW j \in Nat, NEW k \in Nat, j < k
  PROVE  F * j \in Nat /\ F * k \in Nat /\ F * j + F <= F * k
OBVIOUS

LEMMA NextEnd ==
  ASSUME NEW F \in Nat, F >= 3, NEW k \in Nat
  PROVE  F * k \in Nat /\ F * (k + 1) = F * k + F
OBVIOUS

LEMMA SmallestOf ==
  ASSUME NEW T, T \subseteq Nat, T # {}
  PROVE  \E x \in T : \A y \in T : x <= y
<1>1. PICK x \in T : \A y \in T : ~ (<<y, x>> \in OpToRel(<, Nat))
  BY WFMin, NatLessThanWellFounded
<1>2. \A y \in T : ~ (y < x)
  BY <1>1 DEF OpToRel
<1> QED BY <1>2

LEMMA NumbersByInduction ==
  ASSUME NEW T, 0 \in T, \A n \in Nat : n \in T => n + 1 \in T
  PROVE  \A n \in Nat : n \in T
<1> SUFFICES ASSUME NEW m \in Nat, m \notin T PROVE FALSE
  OBVIOUS
<1>1. PICK x \in Nat \ T : \A y \in Nat \ T : x <= y
  BY SmallestOf
<1>2. x # 0 /\ x - 1 \in Nat /\ (x - 1) + 1 = x
  OBVIOUS
<1>3. x - 1 \in T
  BY <1>1, <1>2
<1> QED BY <1>1, <1>2, <1>3

LEMMA SizesAreNumbers ==
  /\ FrameSize \in Nat /\ FrameSize >= 3 /\ FrameSize = BodySize + 2
  /\ BodySize \in Nat /\ BodySize >= 1 /\ Frames \in Nat
  /\ StreamSize \in Nat /\ StreamSize = FrameSize * Frames
BY FrameAssumption DEF FrameSize, StreamSize

-----------------------------------------------------------------------------
(* The scan of a stretch of a stream. *)

Uncut(p) == ~CutAtFlag(p)
Stretch(a, b) == [i \in 1 .. b - a |-> Byte(a + i)]

(* The frames that begin in a stretch from a on come after this one. *)
FrameBefore(a) == IF InFrame(a) = 0 THEN a \div FrameSize ELSE a \div FrameSize + 1

FramesFrom(c, k) == [i \in 1 .. (IF k >= c THEN k - c ELSE 0) |-> c + i]

(* The bytes before p that follow the last flag, or a. *)
SinceFlag(a, p) ==
  IF InFrame(p) <= 1 THEN 0
  ELSE IF p - InFrame(p) >= a THEN InFrame(p) - 1 ELSE p - a

(* What the scan of the stretch from a has found at p. *)
ScanAt(a, p) ==
  [frames |-> FramesFrom(FrameBefore(a), p \div FrameSize),
   bytes |-> Stretch(p - SinceFlag(a, p), p),
   open |-> p >= FrameSize * FrameBefore(a) /\ p > a]

(* The byte after the first q bytes of a frame. *)
LEMMA ByteIs ==
  ASSUME NEW k \in Nat, NEW q \in 0 .. FrameSize - 1
  PROVE  Byte(FrameSize * k + q + 1) =
           IF q \in {0, BodySize + 1} THEN Flag ELSE <<k + 1, q>>
<1>1. (FrameSize * k + q + 1) - 1 = FrameSize * k + q
  BY SizesAreNumbers, NextEnd
<1>2. (FrameSize * k + q) \div FrameSize = k /\ (FrameSize * k + q) % FrameSize = q
  BY SizesAreNumbers, PositionOf
<1> QED BY <1>1, <1>2 DEF Byte

LEMMA FlagIsNoByte == \A k, i \in Nat : k > 0 => <<k, i>> # Flag
BY DEF Flag

LEMMA BeforeIs ==
  ASSUME NEW a \in Nat, Uncut(a)
  PROVE  /\ FrameBefore(a) \in Nat
         /\ \/ InFrame(a) = 0 /\ a = FrameSize * FrameBefore(a)
            \/ /\ InFrame(a) \in 3 .. BodySize /\ FrameBefore(a) >= 1
               /\ a = FrameSize * (FrameBefore(a) - 1) + InFrame(a)
<1>1. /\ a \div FrameSize \in Nat /\ a % FrameSize \in 0 .. FrameSize - 1
      /\ a = FrameSize * (a \div FrameSize) + (a % FrameSize)
  BY SizesAreNumbers, PositionIs
<1>2. a % FrameSize \notin {1, 2, FrameSize - 1}
  BY DEF Uncut, CutAtFlag, InFrame
<1>3. CASE a % FrameSize = 0
  <2>1. FrameBefore(a) = a \div FrameSize
    BY <1>3 DEF FrameBefore, InFrame
  <2>2. FrameSize * (a \div FrameSize) \in Nat
    BY <1>1, SizesAreNumbers, NextEnd
  <2> QED BY <1>1, <1>3, <2>1, <2>2 DEF InFrame
<1>4. CASE a % FrameSize # 0
  <2>1. /\ FrameBefore(a) = a \div FrameSize + 1
        /\ FrameBefore(a) - 1 = a \div FrameSize
    BY <1>1, <1>4 DEF FrameBefore, InFrame
  <2>2. a % FrameSize \in 3 .. BodySize
    BY <1>1, <1>2, <1>4, SizesAreNumbers
  <2> QED BY <1>1, <2>1, <2>2 DEF InFrame
<1> QED BY <1>3, <1>4

LEMMA StretchGrows ==
  ASSUME NEW d \in Nat, NEW p \in Nat, d <= p
  PROVE  /\ Append(Stretch(d, p), Byte(p + 1)) = Stretch(d, p + 1)
         /\ Stretch(p, p) = <<>>
BY DEF Stretch

LEMMA StretchIs ==
  ASSUME NEW d \in Nat, NEW p \in Nat, d <= p
  PROVE  /\ Len(Stretch(d, p)) = p - d /\ DOMAIN Stretch(d, p) = 1 .. p - d
         /\ \A i \in 1 .. p - d : Stretch(d, p)[i] = Byte(d + i)
BY DEF Stretch

(* Where a position is. *)
LEMMA PlaceIs ==
  ASSUME NEW k \in Nat, NEW q \in 0 .. FrameSize - 1
  PROVE  /\ FrameSize * k + q \in Nat
         /\ (FrameSize * k + q) \div FrameSize = k
         /\ InFrame(FrameSize * k + q) = q
<1>1. FrameSize * k \in Nat
  BY SizesAreNumbers, NextEnd
<1> QED BY <1>1, SizesAreNumbers, PositionOf DEF InFrame

(* A flag at the beginning of a frame finds nothing. *)
LEMMA ScanBegins ==
  ASSUME NEW a \in Nat, NEW k \in Nat, a <= FrameSize * k, Uncut(a)
  PROVE  Scan(ScanAt(a, FrameSize * k), Byte(FrameSize * k + 1))
           = ScanAt(a, FrameSize * k + 1)
<1> DEFINE p == FrameSize * k
           c == FrameBefore(a)
<1>1. /\ p \in Nat /\ p + 0 = p /\ p \div FrameSize = k /\ InFrame(p) = 0
      /\ (p + 1) \div FrameSize = k /\ InFrame(p + 1) = 1
  <2>1. p \in Nat /\ FrameSize * k + 0 = p
    BY SizesAreNumbers, NextEnd
  <2>2. 0 \in 0 .. FrameSize - 1 /\ 1 \in 0 .. FrameSize - 1
    BY SizesAreNumbers
  <2>3. (FrameSize * k + 0) \div FrameSize = k /\ InFrame(FrameSize * k + 0) = 0
    BY <2>2, PlaceIs
  <2>4. (p + 1) \div FrameSize = k /\ InFrame(p + 1) = 1
    BY <2>2, PlaceIs
  <2> QED BY <2>1, <2>3, <2>4
<1>2. Byte(p + 1) = Flag
  <2>1. 0 \in 0 .. FrameSize - 1
    BY SizesAreNumbers
  <2>2. Byte(FrameSize * k + 0 + 1) = Flag
    BY <2>1, ByteIs
  <2> QED BY <1>1, <2>2
<1>3. /\ ScanAt(a, p).bytes = <<>> /\ ScanAt(a, p + 1).bytes = <<>>
      /\ ScanAt(a, p + 1).frames = ScanAt(a, p).frames
  BY <1>1, StretchGrows DEF ScanAt, SinceFlag
<1>4. p + 1 >= FrameSize * c /\ p + 1 > a
  <2>1. c \in Nat /\ (a = FrameSize * c \/ (c >= 1 /\ a >= FrameSize * (c - 1) + 1))
    BY BeforeIs, SizesAreNumbers, NextEnd
  <2>2. c <= k
    BY <2>1, SizesAreNumbers, EndsGrow, NextEnd
  <2>3. FrameSize * c <= FrameSize * k
    BY <2>1, <2>2, SizesAreNumbers, EndsGrow, NextEnd
  <2> QED BY <1>1, <2>3, <2>1, SizesAreNumbers, NextEnd
<1>5. ~RightChecksum(<<>>)
  BY SizesAreNumbers DEF RightChecksum, Body
<1>6. Scan(ScanAt(a, p), Byte(p + 1))
        = [frames |-> ScanAt(a, p).frames, bytes |-> <<>>, open |-> TRUE]
  BY <1>2, <1>3, <1>5 DEF Scan, AtFlag
<1> QED BY <1>3, <1>4, <1>6 DEF ScanAt

(* A byte of a frame is remembered. *)
LEMMA ScanGoesOn ==
  ASSUME NEW a \in Nat, NEW k \in Nat, NEW q \in 1 .. BodySize,
         a <= FrameSize * k + q, Uncut(a)
  PROVE  Scan(ScanAt(a, FrameSize * k + q), Byte(FrameSize * k + q + 1))
           = ScanAt(a, FrameSize * k + q + 1)
<1> DEFINE p == FrameSize * k + q
           c == FrameBefore(a)
           d == p - SinceFlag(a, p)
<1>1. /\ FrameSize * k \in Nat /\ p \in Nat /\ p \div FrameSize = k /\ InFrame(p) = q
      /\ p + 1 = FrameSize * k + (q + 1)
      /\ (p + 1) \div FrameSize = k /\ InFrame(p + 1) = q + 1
  <2>1. q \in 0 .. FrameSize - 1 /\ q + 1 \in 0 .. FrameSize - 1
    BY SizesAreNumbers
  <2>2. FrameSize * k \in Nat
    BY SizesAreNumbers, NextEnd
  <2>3. p + 1 = FrameSize * k + (q + 1)
    BY <2>2
  <2> QED BY <2>1, <2>2, <2>3, PlaceIs
<1>2. Byte(p + 1) = <<k + 1, q>> /\ Byte(p + 1) # Flag
  <2>1. q \in 0 .. FrameSize - 1 /\ q \notin {0, BodySize + 1} /\ k + 1 > 0
    BY SizesAreNumbers
  <2>2. Byte(p + 1) = <<k + 1, q>>
    BY <2>1, ByteIs
  <2> QED BY <2>1, <2>2, FlagIsNoByte
<1>3. q = 1 => a <= FrameSize * k
  BY <1>1 DEF Uncut, CutAtFlag
<1>4. d \in Nat /\ d <= p /\ (p + 1) - SinceFlag(a, p + 1) = d
  BY <1>1, <1>3 DEF SinceFlag
<1>5. ScanAt(a, p + 1).bytes = Append(ScanAt(a, p).bytes, Byte(p + 1))
  BY <1>1, <1>4, StretchGrows DEF ScanAt
<1>6. ScanAt(a, p + 1).frames = ScanAt(a, p).frames
  BY <1>1 DEF ScanAt
<1>7. (p + 1 >= FrameSize * c /\ p + 1 > a) <=> (p >= FrameSize * c /\ p > a)
  <2>1. c \in Nat /\ FrameSize * c \in Nat
    BY BeforeIs, SizesAreNumbers, NextEnd
  <2>2. FrameSize * c # p + 1
    <3>1. p + 1 = FrameSize * c + 0 => InFrame(p + 1) = 0
      BY <2>1, SizesAreNumbers, PlaceIs
    <3> QED BY <1>1, <2>1, <3>1
  <2>3. a = p => FrameSize * c > p
    <3>1. a = p => InFrame(a) # 0
      BY <1>1
    <3>2. a = p => c >= 1 /\ a = FrameSize * (c - 1) + InFrame(a) /\ InFrame(a) <= BodySize
      BY <3>1, BeforeIs
    <3>3. c >= 1 => FrameSize * c = FrameSize * (c - 1) + FrameSize
      BY <2>1, SizesAreNumbers, NextEnd
    <3>4. c >= 1 => FrameSize * (c - 1) \in Nat
      BY <2>1, SizesAreNumbers, NextEnd
    <3> QED BY <1>1, <2>1, <3>2, <3>3, <3>4, SizesAreNumbers
  <2> QED BY <1>1, <2>1, <2>2, <2>3
<1>8. Scan(ScanAt(a, p), Byte(p + 1)) = [ScanAt(a, p) EXCEPT !.bytes = Append(@, Byte(p + 1))]
  BY <1>2 DEF Scan
<1> QED BY <1>5, <1>6, <1>7, <1>8 DEF ScanAt

(* A flag at the end of a frame finds it if the stretch has all of it. *)
LEMMA ScanEnds ==
  ASSUME NEW a \in Nat, NEW k \in 0 .. Frames - 1,
         a <= FrameSize * k + BodySize + 1, Uncut(a)
  PROVE  Scan(ScanAt(a, FrameSize * k + BodySize + 1), Byte(FrameSize * k + BodySize + 2))
           = ScanAt(a, FrameSize * k + BodySize + 2)
<1> DEFINE q == BodySize + 1
           p == FrameSize * k + q
           c == FrameBefore(a)
           d == p - SinceFlag(a, p)
<1>1. /\ FrameSize * k \in Nat /\ p \in Nat /\ p \div FrameSize = k /\ InFrame(p) = q
      /\ p + 1 = FrameSize * (k + 1) /\ p + 1 = FrameSize * k + BodySize + 2
      /\ p = FrameSize * k + BodySize + 1
      /\ (p + 1) \div FrameSize = k + 1 /\ InFrame(p + 1) = 0
  <2>1. q \in 0 .. FrameSize - 1 /\ 0 \in 0 .. FrameSize - 1 /\ k \in Nat /\ k + 1 \in Nat
    BY SizesAreNumbers
  <2>2. FrameSize * k \in Nat /\ FrameSize * (k + 1) = FrameSize * k + FrameSize
    BY <2>1, SizesAreNumbers, NextEnd
  <2>3. p \in Nat /\ p \div FrameSize = k /\ InFrame(p) = q
    BY <2>1, PlaceIs
  <2>4. p + 1 = FrameSize * (k + 1) + 0 /\ p + 1 = FrameSize * (k + 1)
    BY <2>1, <2>2, SizesAreNumbers
  <2>5. (p + 1) \div FrameSize = k + 1 /\ InFrame(p + 1) = 0
    BY <2>1, <2>4, PlaceIs
  <2> QED BY <2>1, <2>2, <2>3, <2>4, <2>5, SizesAreNumbers
<1>2. Byte(p + 1) = Flag
  <2>1. q \in 0 .. FrameSize - 1 /\ q \in {0, BodySize + 1} /\ k \in Nat
    BY SizesAreNumbers
  <2> QED BY <2>1, ByteIs
<1>3. /\ c \in Nat /\ FrameSize * c \in Nat
      /\ \/ InFrame(a) = 0 /\ a = FrameSize * c
         \/ /\ InFrame(a) \in 3 .. BodySize /\ c >= 1
            /\ a = FrameSize * (c - 1) + InFrame(a)
  BY BeforeIs, SizesAreNumbers, NextEnd
<1>4. ScanAt(a, p + 1).bytes = <<>>
  BY <1>1, StretchGrows DEF ScanAt, SinceFlag
<1>5. Scan(ScanAt(a, p), Byte(p + 1)) = AtFlag(ScanAt(a, p))
  BY <1>2 DEF Scan
<1>6. CASE a <= FrameSize * k
  <2>1. d = FrameSize * k + 1 /\ p - d = BodySize
    BY <1>1, <1>6, SizesAreNumbers DEF SinceFlag
  <2>2. ASSUME NEW i \in 1 .. BodySize PROVE Byte(d + i) = <<k + 1, i>>
    <3>1. i \in 0 .. FrameSize - 1 /\ i \notin {0, BodySize + 1} /\ k \in Nat
      BY SizesAreNumbers
    <3>2. Byte(FrameSize * k + i + 1) = <<k + 1, i>>
      BY <3>1, ByteIs
    <3>3. d + i = FrameSize * k + i + 1
      BY <1>1, <2>1
    <3> QED BY <3>2, <3>3
  <2>3. ScanAt(a, p).bytes = Body(k + 1)
    BY <2>1, <2>2 DEF ScanAt, Stretch, Body
  <2>4. RightChecksum(ScanAt(a, p).bytes) /\ Head(ScanAt(a, p).bytes)[1] = k + 1
    <3>1. Head(Body(k + 1)) = <<k + 1, 1>>
      BY SizesAreNumbers DEF Body
    <3>2. k + 1 \in 1 .. Frames /\ Head(Body(k + 1))[1] = k + 1
      BY <3>1, SizesAreNumbers
    <3> QED BY <2>3, <3>2 DEF RightChecksum
  <2>5. c <= k /\ FrameSize * c <= FrameSize * k
    <3>1. k \in Nat /\ c - 1 \in {c - 1} /\ (c >= 1 => c - 1 \in Nat)
      BY <1>3
    <3>2. c <= k
      <4>1. k < c => FrameSize * k + FrameSize <= FrameSize * c
        BY <1>3, <3>1, SizesAreNumbers, EndsGrow
      <4>2. c >= 1 => FrameSize * c = FrameSize * (c - 1) + FrameSize /\ FrameSize * (c - 1) \in Nat
        BY <1>3, <3>1, SizesAreNumbers, NextEnd
      <4> QED BY <1>1, <1>3, <1>6, <3>1, <4>1, <4>2, SizesAreNumbers
    <3>3. c < k => FrameSize * c + FrameSize <= FrameSize * k
      BY <1>3, <3>1, SizesAreNumbers, EndsGrow
    <3> QED BY <1>1, <1>3, <3>1, <3>2, <3>3, SizesAreNumbers
  <2>6. p >= FrameSize * c /\ p > a /\ p + 1 >= FrameSize * c /\ p + 1 > a
    BY <1>1, <1>3, <1>6, <2>5, SizesAreNumbers
  <2>7. Append(FramesFrom(c, k), k + 1) = FramesFrom(c, k + 1)
    BY <1>3, <2>5 DEF FramesFrom
  <2>8. ScanAt(a, p).open = TRUE /\ ScanAt(a, p).frames = FramesFrom(c, k)
    BY <1>1, <2>6 DEF ScanAt
  <2>9. AtFlag(ScanAt(a, p)) = [frames |-> FramesFrom(c, k + 1), bytes |-> <<>>, open |-> TRUE]
    BY <2>4, <2>7, <2>8 DEF AtFlag
  <2> QED BY <1>1, <1>4, <1>5, <2>6, <2>9 DEF ScanAt
<1>7. CASE a > FrameSize * k
  <2>1. /\ c = k + 1 /\ InFrame(a) \in 3 .. BodySize
        /\ a = FrameSize * k + InFrame(a)
    <3>1. k \in Nat /\ (c >= 1 => c - 1 \in Nat)
      BY <1>3
    <3>2. k + 1 < c => FrameSize * (k + 1) + FrameSize <= FrameSize * c
      BY <1>3, <3>1, SizesAreNumbers, EndsGrow
    <3>3. c <= k => FrameSize * c <= FrameSize * k
      BY <1>3, <3>1, SizesAreNumbers, EndsGrow, NextEnd
    <3>4. c >= 1 => FrameSize * c = FrameSize * (c - 1) + FrameSize /\ FrameSize * (c - 1) \in Nat
      BY <1>3, <3>1, SizesAreNumbers, NextEnd
    <3>5. FrameSize * (k + 1) = FrameSize * k + FrameSize
      BY <3>1, SizesAreNumbers, NextEnd
    <3>6. c = k + 1
      BY <1>1, <1>3, <1>7, <3>1, <3>2, <3>3, <3>4, <3>5, SizesAreNumbers
    <3>7. a # FrameSize * c
      BY <1>1, <3>5, <3>6, SizesAreNumbers
    <3>8. c - 1 = k
      BY <3>1, <3>6
    <3> QED BY <1>3, <3>6, <3>7, <3>8
  <2>2. SinceFlag(a, p) = p - a /\ d = a /\ p - a >= 1
    BY <1>1, <1>7, <2>1, SizesAreNumbers DEF SinceFlag
  <2>3. Byte(a + 1) = <<k + 1, InFrame(a)>>
    <3>1. InFrame(a) \in 0 .. FrameSize - 1 /\ InFrame(a) \notin {0, BodySize + 1} /\ k \in Nat
      BY <2>1, SizesAreNumbers
    <3>2. Byte(FrameSize * k + InFrame(a) + 1) = <<k + 1, InFrame(a)>>
      BY <3>1, ByteIs
    <3> QED BY <2>1, <3>2
  <2>4. ScanAt(a, p).bytes[1] = <<k + 1, InFrame(a)>>
    <3>1. Stretch(a, p)[1] = Byte(a + 1)
      BY <1>1, <2>2 DEF Stretch
    <3> QED BY <2>2, <2>3, <3>1 DEF ScanAt
  <2>5. ~RightChecksum(ScanAt(a, p).bytes)
    <3>1. ASSUME NEW j \in 1 .. Frames PROVE Body(j)[1] = <<j, 1>>
      BY SizesAreNumbers DEF Body
    <3> QED BY <2>1, <2>4, <3>1 DEF RightChecksum
  <2>6. AtFlag(ScanAt(a, p)) = [frames |-> ScanAt(a, p).frames, bytes |-> <<>>, open |-> TRUE]
    BY <2>5 DEF AtFlag
  <2>7. FramesFrom(c, k) = FramesFrom(c, k + 1)
    BY <2>1 DEF FramesFrom
  <2>8. p + 1 >= FrameSize * c /\ p + 1 > a
    BY <1>1, <1>3, <2>1, <2>2
  <2> QED BY <1>1, <1>4, <1>5, <2>6, <2>7, <2>8 DEF ScanAt
<1> QED BY <1>1, <1>6, <1>7

(* A byte after another takes the scan from one place to the next. *)
LEMMA ScanStep ==
  ASSUME NEW a \in Nat, NEW p \in Nat, a <= p, p < StreamSize, Uncut(a)
  PROVE  Scan(ScanAt(a, p), Byte(p + 1)) = ScanAt(a, p + 1)
<1> DEFINE k == p \div FrameSize
           q == InFrame(p)
<1>1. k \in Nat /\ q \in 0 .. FrameSize - 1 /\ p = FrameSize * k + q /\ FrameSize * k \in Nat
  BY SizesAreNumbers, PositionIs, NextEnd DEF InFrame
<1> HIDE DEF k, q
<1>2. CASE q = 0
  BY <1>1, <1>2, ScanBegins
<1>3. CASE q \in 1 .. BodySize
  BY <1>1, <1>3, ScanGoesOn
<1>4. CASE q = BodySize + 1
  <2>1. k < Frames
    <3>1. ~(k >= Frames)
      <4>1. Frames < k => FrameSize * Frames <= FrameSize * k
        BY <1>1, SizesAreNumbers, EndsGrow
      <4> QED BY <1>1, <4>1, SizesAreNumbers
    <3> QED BY <1>1, <3>1, SizesAreNumbers
  <2>2. k \in 0 .. Frames - 1 /\ p = FrameSize * k + BodySize + 1
        /\ p + 1 = FrameSize * k + BodySize + 2
    BY <1>1, <1>4, <2>1, SizesAreNumbers
  <2> QED BY <2>2, ScanEnds
<1> QED BY <1>1, <1>2, <1>3, <1>4, SizesAreNumbers

(* A scan is what its first state and its steps say. *)
LEMMA ScannedIs ==
  ASSUME NEW bytes \in Seq(Bytes), NEW C,
         C = [n \in 0 .. Len(bytes) |->
                IF n = 0 THEN NothingScanned ELSE Scan(C[n - 1], bytes[n])]
  PROVE  Scanned(bytes) = C
<1> DEFINE at == Scanned(bytes)
           m == Len(bytes)
<1>1. at = [n \in 0 .. m |-> IF n = 0 THEN NothingScanned ELSE Scan(at[n - 1], bytes[n])]
  BY DEF Scanned
<1>2. m \in Nat
  OBVIOUS
<1> HIDE DEF at, m
<1>3. C = [n \in 0 .. m |-> IF n = 0 THEN NothingScanned ELSE Scan(C[n - 1], bytes[n])]
  BY DEF m
<1> DEFINE T == {n \in Nat : n \in 0 .. m => at[n] = C[n]}
<1>4. 0 \in T
  BY <1>1, <1>2, <1>3
<1>5. ASSUME NEW n \in Nat, n \in T PROVE n + 1 \in T
  <2>1. SUFFICES ASSUME n + 1 \in 0 .. m PROVE at[n + 1] = C[n + 1]
    OBVIOUS
  <2>2. n \in 0 .. m /\ (n + 1) - 1 = n /\ n + 1 # 0
    BY <1>2, <2>1
  <2>3. at[n] = C[n]
    BY <1>5, <2>2
  <2>4. at[n + 1] = Scan(at[n], bytes[n + 1])
    BY ONLY <1>1, <2>1, <2>2
  <2>5. C[n + 1] = Scan(C[n], bytes[n + 1])
    BY ONLY <1>3, <2>1, <2>2
  <2> QED BY <2>3, <2>4, <2>5
<1>6. \A n \in Nat : n \in T
  <2> HIDE DEF T
  <2> QED BY <1>4, <1>5, NumbersByInduction
<1>7. ASSUME NEW n \in 0 .. m PROVE at[n] = C[n]
  <2>1. n \in Nat
    BY <1>2
  <2>2. n \in T
    BY <1>6, <2>1
  <2> QED BY <2>2
<1>8. at = [n \in 0 .. m |-> at[n]] /\ C = [n \in 0 .. m |-> C[n]]
  BY ONLY <1>1, <1>3
<1> QED BY <1>7, <1>8 DEF at

LEMMA BytesOfStreams ==
  ASSUME NEW p \in Nat, p < StreamSize
  PROVE  Byte(p + 1) \in Bytes
<1>1. /\ p \div FrameSize \in Nat /\ p % FrameSize \in 0 .. FrameSize - 1
      /\ p = FrameSize * (p \div FrameSize) + (p % FrameSize)
      /\ (p + 1) - 1 = p
  <2>1. (p + 1) - 1 = p
    OBVIOUS
  <2> QED BY <2>1, SizesAreNumbers, PositionIs
<1>2. p \div FrameSize < Frames
  <2>1. Frames < p \div FrameSize => FrameSize * Frames <= FrameSize * (p \div FrameSize)
    BY <1>1, SizesAreNumbers, EndsGrow
  <2> QED BY <1>1, <2>1, SizesAreNumbers
<1> QED BY <1>1, <1>2, SizesAreNumbers DEF Byte, Bytes

LEMMA StretchType ==
  ASSUME NEW a \in Nat, NEW b \in Nat, a <= b, b <= StreamSize
  PROVE  Stretch(a, b) \in Seq(Bytes) /\ Len(Stretch(a, b)) = b - a
<1>1. ASSUME NEW i \in 1 .. b - a PROVE Byte(a + i) \in Bytes
  <2>1. a + i - 1 \in Nat /\ a + i - 1 < StreamSize /\ (a + i - 1) + 1 = a + i
    BY SizesAreNumbers
  <2> QED BY <2>1, BytesOfStreams
<1> QED BY <1>1 DEF Stretch

(* The frames found in a stretch that is not cut are those it has all of,  *)
(* in their order (jt808.c:1182-1316).                                     *)
LEMMA FramesOfStretch ==
  ASSUME NEW a \in Nat, NEW b \in Nat, a <= b, b <= StreamSize, Uncut(a)
  PROVE  FramesIn(Stretch(a, b)) = FramesFrom(FrameBefore(a), b \div FrameSize)
<1> DEFINE bytes == Stretch(a, b)
           C == [n \in 0 .. b - a |-> ScanAt(a, a + n)]
<1>1. bytes \in Seq(Bytes) /\ Len(bytes) = b - a /\ b - a \in Nat
  BY StretchType
<1>2. ScanAt(a, a + 0) = NothingScanned
  <2>1. a + 0 = a /\ SinceFlag(a, a) = 0
    BY SizesAreNumbers, PositionIs DEF SinceFlag, Uncut, CutAtFlag, InFrame
  <2>2. Stretch(a - 0, a) = <<>>
    BY StretchGrows
  <2>3. FramesFrom(FrameBefore(a), a \div FrameSize) = <<>>
    <3>1. a \div FrameSize \in Nat
      BY SizesAreNumbers, PositionIs
    <3>2. FrameBefore(a) \in Nat /\ FrameBefore(a) >= a \div FrameSize
      BY <3>1 DEF FrameBefore
    <3> QED BY <3>1, <3>2 DEF FramesFrom
  <2>4. (a >= FrameSize * FrameBefore(a) /\ a > a) = FALSE
    OBVIOUS
  <2> QED BY <2>1, <2>2, <2>3, <2>4 DEF ScanAt, NothingScanned
<1>3. ASSUME NEW n \in 1 .. b - a
      PROVE  ScanAt(a, a + n) = Scan(ScanAt(a, a + (n - 1)), bytes[n])
  <2>1. /\ a + (n - 1) \in Nat /\ a <= a + (n - 1) /\ a + (n - 1) < StreamSize
        /\ a + n = (a + (n - 1)) + 1
    BY SizesAreNumbers
  <2>2. bytes[n] = Byte((a + (n - 1)) + 1)
    BY <2>1 DEF Stretch
  <2> QED BY <2>1, <2>2, ScanStep
<1>4. C = [n \in 0 .. b - a |->
             IF n = 0 THEN NothingScanned ELSE Scan(C[n - 1], bytes[n])]
  <2>1. ASSUME NEW n \in 0 .. b - a
        PROVE  ScanAt(a, a + n) = IF n = 0 THEN NothingScanned ELSE Scan(C[n - 1], bytes[n])
    <3>1. CASE n = 0
      BY <1>2, <3>1
    <3>2. CASE n # 0
      <4>1. n \in 1 .. b - a /\ n - 1 \in 0 .. b - a
        BY <3>2
      <4>2. C[n - 1] = ScanAt(a, a + (n - 1))
        BY <4>1
      <4> HIDE DEF C, bytes
      <4> QED BY <3>2, <4>1, <4>2, <1>3
    <3> QED BY <3>1, <3>2
  <2> QED BY <2>1
<1>5. Scanned(bytes) = C
  <2> HIDE DEF C, bytes
  <2> QED BY <1>1, <1>4, ScannedIs
<1>6. FramesIn(bytes) = ScanAt(a, b).frames
  <2>1. b - a \in 0 .. b - a /\ a + (b - a) = b
    BY <1>1
  <2>2. C[b - a] = ScanAt(a, b)
    BY <2>1
  <2> QED BY <1>1, <1>5, <2>2 DEF FramesIn
<1> QED BY <1>6 DEF ScanAt

LEMMA BetweenEnds ==
  ASSUME NEW p \in Nat, NEW f \in Nat
  PROVE  /\ FrameSize * f <= p <=> f <= p \div FrameSize
         /\ Uncut(p) => (p <= FrameSize * f <=> FrameBefore(p) <= f)
<1>1. /\ p \div FrameSize \in Nat /\ p % FrameSize \in 0 .. FrameSize - 1
      /\ p = FrameSize * (p \div FrameSize) + (p % FrameSize)
      /\ FrameSize * (p \div FrameSize) \in Nat /\ FrameSize * f \in Nat
  BY SizesAreNumbers, PositionIs, NextEnd
<1>2. f < p \div FrameSize => FrameSize * f + FrameSize <= FrameSize * (p \div FrameSize)
  BY <1>1, SizesAreNumbers, EndsGrow
<1>3. p \div FrameSize < f => FrameSize * (p \div FrameSize) + FrameSize <= FrameSize * f
  BY <1>1, SizesAreNumbers, EndsGrow
<1>4. FrameBefore(p) = IF p % FrameSize = 0 THEN p \div FrameSize ELSE p \div FrameSize + 1
  BY DEF FrameBefore, InFrame
<1> QED BY <1>1, <1>2, <1>3, <1>4, SizesAreNumbers

Increasing(fs) == \A x, y \in DOMAIN fs : fs[x] > 0 /\ (x < y => fs[x] < fs[y])

LEMMA FramesAreWhole ==
  ASSUME NEW a \in Nat, NEW b \in Nat, a <= b, b <= StreamSize, Uncut(a)
  PROVE  LET fs == FramesIn(Stretch(a, b))
         IN /\ Increasing(fs)
            /\ \A x \in DOMAIN fs :
                 /\ fs[x] \in 1 .. Frames
                 /\ a <= FrameSize * (fs[x] - 1) /\ FrameSize * fs[x] <= b
            /\ \A f \in 1 .. Frames :
                 a <= FrameSize * (f - 1) /\ FrameSize * f <= b
                   => Contains(fs, f)
<1> DEFINE c == FrameBefore(a)
           k == b \div FrameSize
           fs == FramesFrom(c, k)
<1>1. c \in Nat /\ k \in Nat /\ k <= Frames
  <2>1. k \in Nat
    BY SizesAreNumbers, PositionIs
  <2>2. FrameSize * k <= b
    BY <2>1, BetweenEnds
  <2>3. Frames < k => FrameSize * Frames + FrameSize <= FrameSize * k
    BY <2>1, SizesAreNumbers, EndsGrow
  <2>4. FrameSize * Frames \in Nat /\ FrameSize * k \in Nat
    BY <2>1, SizesAreNumbers, NextEnd
  <2> QED BY <2>1, <2>2, <2>3, <2>4, BeforeIs, SizesAreNumbers
<1>2. FramesIn(Stretch(a, b)) = fs
  BY FramesOfStretch
<1>3. DOMAIN fs = 1 .. Len(fs) /\ DOMAIN fs = 1 .. (IF k >= c THEN k - c ELSE 0)
      /\ \A x \in DOMAIN fs : fs[x] = c + x
  BY <1>1 DEF FramesFrom
<1>4. ASSUME NEW x \in DOMAIN fs
      PROVE  /\ fs[x] \in 1 .. Frames
             /\ a <= FrameSize * (fs[x] - 1) /\ FrameSize * fs[x] <= b
  <2>1. fs[x] = c + x /\ x \in 1 .. k - c /\ k >= c
    BY <1>1, <1>3
  <2>2. fs[x] \in 1 .. Frames /\ fs[x] - 1 \in Nat /\ c <= fs[x] - 1 /\ fs[x] <= k /\ fs[x] \in Nat
    <3> HIDE DEF fs, c, k
    <3>1. x \in Nat /\ x >= 1 /\ c + x <= k /\ Frames \in Nat
      BY <1>1, <2>1, SizesAreNumbers
    <3> QED BY <1>1, <2>1, <3>1
  <2> QED BY <2>2, BetweenEnds
<1>5. ASSUME NEW f \in 1 .. Frames, a <= FrameSize * (f - 1), FrameSize * f <= b
      PROVE  Contains(fs, f)
  <2>1. f \in Nat /\ f - 1 \in Nat
    OBVIOUS
  <2>2. c <= f - 1 /\ f <= k
    BY <1>5, <2>1, BetweenEnds
  <2>3. f - c \in 1 .. Len(fs) /\ f - c \in DOMAIN fs /\ c + (f - c) = f
    BY <1>1, <1>3, <2>1, <2>2
  <2>4. fs[f - c] = f
    BY <1>3, <2>3
  <2> QED BY <2>3, <2>4 DEF Contains
<1>6. Increasing(fs)
  BY <1>1, <1>3 DEF Increasing
<1> QED BY <1>2, <1>4, <1>5, <1>6

-----------------------------------------------------------------------------
(* Types. *)

ScanState == [frames : Seq(0 .. Frames), bytes : Seq(Bytes), open : BOOLEAN]

LEMMA ScanType ==
  ASSUME NEW scan \in ScanState, NEW byte \in Bytes
  PROVE  Scan(scan, byte) \in ScanState
<1>1. CASE byte = Flag
  <2>1. RightChecksum(scan.bytes) => Head(scan.bytes)[1] \in 0 .. Frames
    <3>1. ASSUME NEW k \in 1 .. Frames, scan.bytes = Body(k)
          PROVE  Head(scan.bytes)[1] \in 0 .. Frames
      <4>1. Head(Body(k)) = <<k, 1>>
        BY SizesAreNumbers DEF Body
      <4> QED BY <3>1, <4>1, SizesAreNumbers
    <3> QED BY <3>1 DEF RightChecksum
  <2>2. Astray \in 0 .. Frames
    BY SizesAreNumbers DEF Astray
  <2>3. AtFlag(scan).frames \in Seq(0 .. Frames)
    <3>1. scan.frames \in Seq(0 .. Frames)
      BY DEF ScanState
    <3>2. ASSUME NEW k \in 0 .. Frames PROVE Append(scan.frames, k) \in Seq(0 .. Frames)
      BY <3>1
    <3>3. RightChecksum(scan.bytes)
            => Append(scan.frames, IF scan.open THEN Head(scan.bytes)[1] ELSE Astray)
                 \in Seq(0 .. Frames)
      BY <2>1, <2>2, <3>2
    <3> QED BY <3>1, <3>3 DEF AtFlag
  <2> QED BY <1>1, <2>3 DEF Scan, AtFlag, ScanState
<1>2. CASE byte # Flag
  BY <1>2 DEF Scan, ScanState
<1> QED BY <1>1, <1>2

(* The scan of a mail can always be carried through. *)
LEMMA ScanExists ==
  ASSUME NEW bytes \in Seq(Bytes)
  PROVE  \E g : g = [n \in 0 .. Len(bytes) |->
                       IF n = 0 THEN NothingScanned ELSE Scan(g[n - 1], bytes[n])]
<1> DEFINE IsScan(g, m) == g = [n \in 0 .. m |-> IF n = 0 THEN NothingScanned ELSE Scan(g[n - 1], bytes[n])]
           T == {m \in Nat : \E g : IsScan(g, m)}
<1>1. 0 \in T
  <2>1. IsScan([n \in 0 .. 0 |-> NothingScanned], 0)
    OBVIOUS
  <2> QED BY <2>1
<1>2. ASSUME NEW m \in Nat, m \in T PROVE m + 1 \in T
  <2>1. PICK g : IsScan(g, m)
    BY <1>2
  <2> DEFINE h == [n \in 0 .. m + 1 |-> IF n = m + 1 THEN Scan(g[m], bytes[m + 1]) ELSE g[n]]
  <2>2. \A n \in 0 .. m : g[n] = IF n = 0 THEN NothingScanned ELSE Scan(g[n - 1], bytes[n])
    BY <2>1
  <2>3. \A n \in 0 .. m + 1 : h[n] = IF n = m + 1 THEN Scan(g[m], bytes[m + 1]) ELSE g[n]
    OBVIOUS
  <2>4. h = [n \in 0 .. m + 1 |-> h[n]]
    OBVIOUS
  <2> HIDE DEF h
  <2>5. ASSUME NEW n \in 0 .. m + 1
        PROVE  h[n] = IF n = 0 THEN NothingScanned ELSE Scan(h[n - 1], bytes[n])
    <3>1. CASE n = 0
      <4>1. n # m + 1 /\ n \in 0 .. m
        BY <3>1
      <4>2. g[n] = NothingScanned
        BY <2>2, <3>1, <4>1
      <4>3. h[n] = g[n]
        BY <2>3, <4>1
      <4> QED BY <3>1, <4>2, <4>3
    <3>2. CASE n # 0 /\ n # m + 1
      <4>1. n \in 0 .. m /\ n - 1 \in 0 .. m /\ n - 1 \in 0 .. m + 1 /\ n - 1 # m + 1
        BY <3>2
      <4>2. h[n] = g[n] /\ h[n - 1] = g[n - 1]
        BY <2>3, <3>2, <4>1
      <4>3. g[n] = Scan(g[n - 1], bytes[n])
        BY <2>2, <3>2, <4>1
      <4> QED BY <3>2, <4>2, <4>3
    <3>3. CASE n = m + 1
      <4>1. n # 0 /\ n - 1 = m /\ m \in 0 .. m + 1 /\ m # m + 1
        BY <3>3
      <4>2. h[n] = Scan(g[m], bytes[m + 1]) /\ h[m] = g[m]
        BY <2>3, <3>3, <4>1
      <4> QED BY <3>3, <4>1, <4>2
    <3> QED BY <3>1, <3>2, <3>3
  <2>6. IsScan(h, m + 1)
    BY <2>4, <2>5
  <2> HIDE DEF IsScan
  <2> QED BY <2>6
<1>3. \A m \in Nat : m \in T
  <2> HIDE DEF T
  <2> QED BY <1>1, <1>2, NumbersByInduction
<1>4. Len(bytes) \in T
  BY <1>3
<1> QED BY <1>4

LEMMA FramesType ==
  ASSUME NEW bytes \in Seq(Bytes)
  PROVE  FramesIn(bytes) \in Seq(0 .. Frames)
<1>1. PICK g : g = [n \in 0 .. Len(bytes) |->
                      IF n = 0 THEN NothingScanned ELSE Scan(g[n - 1], bytes[n])]
  BY ScanExists
<1>2. Scanned(bytes) = g
  BY <1>1, ScannedIs
<1>3. \A n \in 0 .. Len(bytes) : g[n] = IF n = 0 THEN NothingScanned ELSE Scan(g[n - 1], bytes[n])
  BY <1>1
<1> DEFINE T == {n \in Nat : n \in 0 .. Len(bytes) => g[n] \in ScanState}
<1>4. 0 \in T
  <2>1. NothingScanned \in ScanState
    BY DEF NothingScanned, ScanState
  <2>2. 0 \in 0 .. Len(bytes)
    OBVIOUS
  <2>3. g[0] = NothingScanned
    BY <1>3, <2>2
  <2> QED BY <2>1, <2>3
<1>5. ASSUME NEW n \in Nat, n \in T PROVE n + 1 \in T
  <2>1. SUFFICES ASSUME n + 1 \in 0 .. Len(bytes) PROVE g[n + 1] \in ScanState
    OBVIOUS
  <2>2. n \in 0 .. Len(bytes) /\ n + 1 # 0 /\ (n + 1) - 1 = n /\ bytes[n + 1] \in Bytes
    BY <2>1
  <2>3. g[n + 1] = Scan(g[n], bytes[n + 1])
    BY ONLY <1>3, <2>1, <2>2
  <2>4. g[n] \in ScanState
    BY <1>5, <2>2
  <2> QED BY <2>2, <2>3, <2>4, ScanType
<1>6. \A n \in Nat : n \in T
  <2> HIDE DEF T
  <2> QED BY <1>4, <1>5, NumbersByInduction
<1>7. Len(bytes) \in Nat /\ Len(bytes) \in T
  BY <1>6
<1>8. g[Len(bytes)] \in ScanState
  BY <1>7
<1> QED BY <1>2, <1>8 DEF FramesIn, ScanState

LEMMA ElementsOf ==
  ASSUME NEW S, NEW seq \in Seq(S)
  PROVE  /\ DOMAIN seq = 1 .. Len(seq) /\ Len(seq) \in Nat
         /\ \A i \in DOMAIN seq : seq[i] \in S
OBVIOUS

LEMMA JoinedLength ==
  ASSUME NEW S, NEW T, NEW s \in Seq(S), NEW t \in Seq(T)
  PROVE  Len(s \o t) = Len(s) + Len(t)
OBVIOUS

LEMMA ChunkIs ==
  ASSUME NEW link \in Links, NEW n \in 1 .. MaxChunk, TypeOK, sent[link] + n <= StreamSize
  PROVE  /\ sent[link] \in Nat /\ n \in Nat
         /\ Chunk(link, n) = Stretch(sent[link], sent[link] + n)
         /\ Chunk(link, n) \in Seq(Bytes) /\ Len(Chunk(link, n)) = n
         /\ Head(Chunk(link, n)) = Byte(sent[link] + 1)
         /\ Last(Chunk(link, n)) = Byte(sent[link] + n)
<1>1. sent[link] \in Nat /\ n \in Nat /\ n >= 1 /\ (sent[link] + n) - sent[link] = n
  BY SizesAreNumbers DEF TypeOK
<1>2. Chunk(link, n) = Stretch(sent[link], sent[link] + n)
  BY <1>1 DEF Chunk, Stretch
<1>3. Chunk(link, n) \in Seq(Bytes) /\ Len(Chunk(link, n)) = n
  BY <1>1, <1>2, StretchType
<1>4. Chunk(link, n)[1] = Byte(sent[link] + 1) /\ Chunk(link, n)[n] = Byte(sent[link] + n)
  BY <1>1 DEF Chunk
<1> QED BY <1>1, <1>2, <1>3, <1>4 DEF Last

LEMMA TypeHolds ==
  ASSUME TypeOK, [Next]_vars
  PROVE  TypeOK'
<1>1. CASE jt808_rx_proc
  <2>1. Head(mail) \in Mail /\ Tail(mail) \in Seq(Mail) /\ Len(Tail(mail)) <= MailSlots
    BY <1>1, FrameAssumption DEF TypeOK, jt808_rx_proc
  <2> DEFINE found == FramesIn(Head(mail).bytes)
             new == [i \in DOMAIN found |-> <<Head(mail).link, found[i]>>]
  <2>2. found \in Seq(0 .. Frames) /\ Head(mail).link \in Links
    BY <2>1, FramesType DEF Mail
  <2>3. handled' = handled \o new
    BY <1>1 DEF jt808_rx_proc
  <2>4. new \in Seq(Links \X (0 .. Frames))
    <3> HIDE DEF found
    <3>1. DOMAIN found = 1 .. Len(found) /\ Len(found) \in Nat
          /\ \A i \in DOMAIN found : found[i] \in 0 .. Frames
      BY <2>2, ElementsOf
    <3>2. \A i \in DOMAIN found : <<Head(mail).link, found[i]>> \in Links \X (0 .. Frames)
      BY <2>2, <3>1
    <3> QED BY <3>1, <3>2
  <2>5. handled' \in Seq(Links \X (0 .. Frames))
    <3> HIDE DEF new
    <3> QED BY <2>3, <2>4 DEF TypeOK
  <2> QED BY <1>1, <2>1, <2>5 DEF TypeOK, jt808_rx_proc
<1>2. ASSUME NEW link \in Links, Receive(link) PROVE TypeOK'
  <2>1. PICK n \in 1 .. MaxChunk :
          /\ sent[link] + n <= StreamSize
          /\ gprs_rx(link, Chunk(link, n))
          /\ sent' = [sent EXCEPT ![link] = @ + n]
          /\ dropped' = (dropped \/ Lost(link, Chunk(link, n)))
          /\ IF CutAtFlag(sent[link] + n) THEN cuts < MaxCuts /\ cuts' = cuts + 1
                                          ELSE UNCHANGED cuts
          /\ UNCHANGED handled
    BY <1>2 DEF Receive
  <2> DEFINE chunk == Chunk(link, n)
  <2>2. /\ sent[link] \in Nat /\ n \in Nat
        /\ chunk \in Seq(Bytes)
    BY <2>1, ChunkIs
  <2>3. buf' \in Seq(Bytes) /\ Len(buf') <= BufSize
    <3>1. Joined(link, chunk) \in Seq(Bytes)
      <4>1. Kept(link, chunk) \in Seq(Bytes)
        BY DEF Kept, TypeOK
      <4> HIDE DEF chunk
      <4> QED BY <2>2, <4>1 DEF Joined
    <3>2. buf' = Posted(link, chunk)
      BY <2>1 DEF gprs_rx
    <3> QED BY <3>1, <3>2, FrameAssumption DEF Posted, Fits
  <2>4. mail' \in Seq(Mail) /\ Len(mail') <= MailSlots
    <3>1. [link |-> link, bytes |-> buf'] \in Mail
      BY <2>3 DEF Mail
    <3>2. mail' = mail \/ (Len(mail) < MailSlots /\ mail' = Append(mail, [link |-> link, bytes |-> buf']))
      BY <2>1 DEF gprs_rx
    <3>3. CASE mail' = mail
      BY <3>3 DEF TypeOK
    <3>4. CASE Len(mail) < MailSlots /\ mail' = Append(mail, [link |-> link, bytes |-> buf'])
      <4>1. mail \in Seq(Mail) /\ Len(mail) \in Nat /\ MailSlots \in Nat
        BY FrameAssumption DEF TypeOK
      <4> DEFINE m == [link |-> link, bytes |-> buf']
      <4>2. m \in Mail /\ mail' = Append(mail, m)
        BY <3>1, <3>4
      <4> HIDE DEF m
      <4> QED BY <3>4, <4>1, <4>2
    <3> QED BY <3>2, <3>3, <3>4
  <2>5. sent' \in [Links -> 0 .. StreamSize]
    BY <2>1, <2>2, SizesAreNumbers DEF TypeOK
  <2>6. dropped' \in BOOLEAN
    BY <2>1, Zenon DEF TypeOK, Lost
  <2>7. cuts' \in 0 .. MaxCuts
    BY <2>1, FrameAssumption DEF TypeOK
  <2>8. last_link' \in Links \cup {NoLink} /\ handled' = handled
    BY <2>1 DEF gprs_rx
  <2> QED BY <2>3, <2>4, <2>5, <2>6, <2>7, <2>8 DEF TypeOK
<1>3. CASE UNCHANGED vars
  BY <1>3 DEF TypeOK, vars
<1> QED BY <1>1, <1>2, <1>3 DEF Next

LEMMA TypeBegins == Init => TypeOK
<1>1. SUFFICES ASSUME Init PROVE TypeOK
  OBVIOUS
<1>2. sent \in [Links -> 0 .. StreamSize]
  BY <1>1, SizesAreNumbers DEF Init
<1>3. /\ buf \in Seq(Bytes) /\ Len(buf) <= BufSize
      /\ mail \in Seq(Mail) /\ Len(mail) <= MailSlots
      /\ handled \in Seq(Links \X (0 .. Frames))
  BY <1>1, FrameAssumption DEF Init
<1>4. last_link \in Links \cup {NoLink} /\ dropped \in BOOLEAN
  BY <1>1 DEF Init
<1>5. cuts \in 0 .. MaxCuts
  BY <1>1, FrameAssumption DEF Init
<1> QED BY <1>2, <1>3, <1>4, <1>5 DEF TypeOK

(* The mails, the buffer and the frames handed over keep their types.      *)
THEOREM FrameTypeInvariant == Spec => []TypeOK
BY TypeBegins, TypeHolds, PTL DEF Spec

-----------------------------------------------------------------------------
(* What the buffer holds. *)

Begun(link) ==
  IF link = last_link /\ InFrame(sent[link]) # 0 THEN sent[link] - Len(buf) ELSE sent[link]

BufferInv ==
  cuts = 0 =>
    /\ \A link \in Links : Uncut(sent[link])
    /\ last_link \in Links =>
         /\ Len(buf) <= sent[last_link]
         /\ Uncut(sent[last_link] - Len(buf))
         /\ buf = Stretch(sent[last_link] - Len(buf), sent[last_link])

LEMMA FlagsAreAtEnds ==
  ASSUME NEW p \in Nat
  PROVE  /\ Byte(p + 1) = Flag <=> InFrame(p) \in {0, FrameSize - 1}
         /\ Byte(p + 1) = Flag <=> InFrame(p + 1) \in {0, 1}
         /\ InFrame(p) = 0 => InFrame(p + 1) = 1 /\ InFrame(p + 2) = 2
         /\ InFrame(p) \in 0 .. FrameSize - 1
<1>1. /\ p \div FrameSize \in Nat /\ p % FrameSize \in 0 .. FrameSize - 1
      /\ p = FrameSize * (p \div FrameSize) + (p % FrameSize)
  BY SizesAreNumbers, PositionIs
<1>2. PICK k \in Nat, q \in 0 .. FrameSize - 1 : p = FrameSize * k + q
  BY <1>1
<1>3. InFrame(p) = q /\ FrameSize * k \in Nat
  BY <1>2, PlaceIs, SizesAreNumbers, NextEnd
<1>4. Byte(p + 1) = Flag <=> q \in {0, FrameSize - 1}
  <2>1. Byte(p + 1) = IF q \in {0, BodySize + 1} THEN Flag ELSE <<k + 1, q>>
    BY <1>2, ByteIs
  <2>2. <<k + 1, q>> # Flag
    BY FlagIsNoByte
  <2> QED BY <2>1, <2>2, SizesAreNumbers
<1>5. q < FrameSize - 1 => InFrame(p + 1) = q + 1
  <2>1. SUFFICES ASSUME q < FrameSize - 1 PROVE InFrame(p + 1) = q + 1
    OBVIOUS
  <2>2. q + 1 \in 0 .. FrameSize - 1 /\ p + 1 = FrameSize * k + (q + 1)
    BY <1>2, <1>3, <2>1, SizesAreNumbers
  <2> QED BY <2>2, PlaceIs
<1>6. q = FrameSize - 1 => InFrame(p + 1) = 0
  <2>1. SUFFICES ASSUME q = FrameSize - 1 PROVE InFrame(p + 1) = 0
    OBVIOUS
  <2>2. 0 \in 0 .. FrameSize - 1 /\ k + 1 \in Nat
    BY SizesAreNumbers
  <2>3. FrameSize * (k + 1) = FrameSize * k + FrameSize
    BY SizesAreNumbers, NextEnd
  <2>4. p + 1 = FrameSize * (k + 1) + 0
    BY <1>2, <1>3, <2>1, <2>3, SizesAreNumbers
  <2> QED BY <2>2, <2>4, PlaceIs
<1>7. q = 0 => InFrame(p + 2) = 2
  <2>1. SUFFICES ASSUME q = 0 PROVE InFrame(p + 2) = 2
    OBVIOUS
  <2>2. 2 \in 0 .. FrameSize - 1 /\ p + 2 = FrameSize * k + 2
    BY <1>2, <1>3, <2>1, SizesAreNumbers
  <2> QED BY <2>2, PlaceIs
<1> QED BY <1>3, <1>4, <1>5, <1>6, <1>7, SizesAreNumbers

(* What a chunk brings is joined to the rest of a frame in the buffer, or  *)
(* begins a frame; what does not fit leaves nothing.                       *)
LEMMA NewStretch ==
  ASSUME TypeOK, BufferInv, cuts = 0, NEW link \in Links, NEW n \in 1 .. MaxChunk,
         sent[link] + n <= StreamSize, ~CutAtFlag(sent[link] + n),
         gprs_rx(link, Chunk(link, n))
  PROVE  /\ Begun(link) \in Nat /\ Begun(link) <= sent[link]
         /\ Last(Chunk(link, n)) = Flag <=> InFrame(sent[link] + n) = 0
         /\ \E a \in Nat :
              /\ Uncut(a) /\ Begun(link) <= a /\ a <= sent[link] + n
              /\ buf' = Stretch(a, sent[link] + n)
              /\ Fits(Joined(link, Chunk(link, n))) => a = Begun(link)
<1> DEFINE s == sent[link]
           chunk == Chunk(link, n)
<1>1. /\ s \in Nat /\ n \in Nat /\ n >= 1 /\ s + n \in Nat
      /\ chunk = Stretch(s, s + n) /\ chunk \in Seq(Bytes) /\ Len(chunk) = n
      /\ Head(chunk) = Byte(s + 1) /\ Last(chunk) = Byte(s + n)
  BY ChunkIs
<1>2. Uncut(s) /\ Uncut(s + n)
  BY DEF BufferInv, Uncut
<1> HIDE DEF s, chunk
<1>3. Last(chunk) = Flag <=> InFrame(s + n) = 0
  <2>1. (s + n) - 1 \in Nat /\ ((s + n) - 1) + 1 = s + n
    BY <1>1
  <2>2. Byte(s + n) = Flag <=> InFrame(s + n) \in {0, 1}
    BY <2>1, FlagsAreAtEnds
  <2> QED BY <1>1, <1>2, <2>2 DEF Uncut, CutAtFlag
<1>4. /\ Begun(link) \in Nat /\ Begun(link) <= s /\ Uncut(Begun(link))
      /\ Joined(link, chunk) = Stretch(Begun(link), s + n)
  <2>1. CASE link = last_link /\ InFrame(s) # 0
    <3>1. Begun(link) = s - Len(buf)
      BY <2>1 DEF Begun, s
    <3>2. /\ Len(buf) <= s /\ Uncut(s - Len(buf)) /\ Len(buf) \in Nat
          /\ buf = Stretch(s - Len(buf), s)
      BY <2>1 DEF BufferInv, TypeOK, s
    <3>3. Head(chunk) # Flag
      <4>1. InFrame(s) # FrameSize - 1
        BY <1>2 DEF Uncut, CutAtFlag
      <4> QED BY <1>1, <2>1, <4>1, FlagsAreAtEnds
    <3>4. Joined(link, chunk) = buf \o chunk
      BY <2>1, <3>3 DEF Joined, Kept
    <3>5. PICK d \in Nat : d = s - Len(buf)
      BY <1>1, <3>2
    <3>6. d <= s /\ buf = Stretch(d, s) /\ Stretch(d, s) \o Stretch(s, s + n) = Stretch(d, s + n)
      BY <1>1, <3>2, <3>5 DEF Stretch
    <3> QED BY <1>1, <3>1, <3>2, <3>4, <3>5, <3>6
  <2>2. CASE ~(link = last_link /\ InFrame(s) # 0)
    <3>1. Begun(link) = s
      BY <2>2 DEF Begun, s
    <3>2. Kept(link, chunk) = <<>>
      <4>1. CASE link # last_link
        BY <4>1 DEF Kept
      <4>2. CASE InFrame(s) = 0
        <5>1. Head(chunk) = Flag /\ InFrame(s + 1) = 1 /\ InFrame(s + 2) = 2
          BY <1>1, <4>2, FlagsAreAtEnds
        <5>2. n # 1 /\ n # 2
          BY <1>2, <5>1 DEF Uncut, CutAtFlag
        <5> QED BY <1>1, <5>1, <5>2 DEF Kept
      <4> QED BY <2>2, <4>1, <4>2
    <3>3. <<>> \o chunk = chunk
      BY <1>1
    <3> QED BY <1>1, <1>2, <3>1, <3>2, <3>3 DEF Joined
  <2> QED BY <2>1, <2>2
<1>5. buf' = IF Fits(Joined(link, chunk)) THEN Joined(link, chunk) ELSE <<>>
  BY DEF gprs_rx, Posted, chunk
<1>6. \E a \in Nat :
        /\ Uncut(a) /\ Begun(link) <= a /\ a <= s + n
        /\ buf' = Stretch(a, s + n)
        /\ Fits(Joined(link, chunk)) => a = Begun(link)
  <2>1. CASE Fits(Joined(link, chunk))
    BY <1>1, <1>4, <1>5, <2>1
  <2>2. CASE ~Fits(Joined(link, chunk))
    <3>1. Stretch(s + n, s + n) = <<>>
      BY <1>1, StretchGrows
    <3> QED BY <1>1, <1>2, <1>4, <1>5, <2>2, <3>1
  <2> QED BY <2>1, <2>2
<1> QED BY <1>3, <1>4, <1>6 DEF s, chunk

(* A receipt, with the stretch it leaves in the buffer. *)
Receipt(link, n, a) ==
  /\ link \in Links /\ n \in Nat /\ n >= 1 /\ sent[link] \in Nat
  /\ sent[link] + n <= StreamSize /\ a \in Nat
  /\ Uncut(a) /\ Uncut(sent[link] + n) /\ Begun(link) <= a /\ a <= sent[link] + n
  /\ Begun(link) \in Nat /\ Begun(link) <= sent[link]
  /\ buf' = Stretch(a, sent[link] + n) /\ last_link' = link
  /\ sent' = [sent EXCEPT ![link] = @ + n] /\ handled' = handled
  /\ mail' = IF InFrame(sent[link] + n) = 0 /\ Len(mail) < MailSlots
             THEN Append(mail, [link |-> link, bytes |-> buf']) ELSE mail
  /\ dropped' = (dropped \/ Lost(link, Chunk(link, n)))
  /\ ~dropped' =>
       /\ a = Begun(link)
       /\ InFrame(sent[link] + n) = 0 => Len(mail) # MailSlots
       /\ \A l \in Links \ {link} : Begun(l) = sent[l]

LEMMA ReceiptIs ==
  ASSUME TypeOK, BufferInv, NEW link \in Links, Receive(link), cuts' = 0
  PROVE  cuts = 0 /\ \E n, a : Receipt(link, n, a)
<1>1. PICK n \in 1 .. MaxChunk :
        /\ sent[link] + n <= StreamSize
        /\ gprs_rx(link, Chunk(link, n))
        /\ sent' = [sent EXCEPT ![link] = @ + n]
        /\ dropped' = (dropped \/ Lost(link, Chunk(link, n)))
        /\ IF CutAtFlag(sent[link] + n) THEN cuts < MaxCuts /\ cuts' = cuts + 1
                                        ELSE UNCHANGED cuts
        /\ UNCHANGED handled
  BY DEF Receive
<1>2. cuts = 0 /\ ~CutAtFlag(sent[link] + n)
  BY <1>1 DEF TypeOK
<1>3. /\ Begun(link) \in Nat /\ Begun(link) <= sent[link]
      /\ Last(Chunk(link, n)) = Flag <=> InFrame(sent[link] + n) = 0
  BY <1>1, <1>2, NewStretch
<1>4. PICK a \in Nat :
        /\ Uncut(a) /\ Begun(link) <= a /\ a <= sent[link] + n
        /\ buf' = Stretch(a, sent[link] + n)
        /\ Fits(Joined(link, Chunk(link, n))) => a = Begun(link)
  BY <1>1, <1>2, NewStretch
<1>5. mail' = IF InFrame(sent[link] + n) = 0 /\ Len(mail) < MailSlots
              THEN Append(mail, [link |-> link, bytes |-> buf']) ELSE mail
  BY <1>1, <1>3 DEF gprs_rx
<1>6. last_link' = link
  BY <1>1 DEF gprs_rx
<1>7. ASSUME ~dropped'
      PROVE  /\ a = Begun(link)
             /\ InFrame(sent[link] + n) = 0 => Len(mail) # MailSlots
             /\ \A l \in Links \ {link} : Begun(l) = sent[l]
  <2>1. ~Lost(link, Chunk(link, n))
    BY <1>1, <1>7
  <2>2. ~(last_link \in Links \ {link} /\ InFrame(sent[last_link]) # 0)
    BY <2>1 DEF Lost
  <2>3. \A l \in Links \ {link} : Begun(l) = sent[l]
    BY <2>2 DEF Begun
  <2> QED BY <1>3, <1>4, <2>1, <2>3 DEF Lost
<1>8. n \in Nat /\ n >= 1 /\ sent[link] \in Nat
  BY <1>1, ChunkIs
<1>9. Receipt(link, n, a)
  BY <1>1, <1>2, <1>3, <1>4, <1>5, <1>6, <1>7, <1>8 DEF Receipt, Uncut
<1> QED BY <1>2, <1>9

LEMMA BufferHolds ==
  ASSUME TypeOK, BufferInv, [Next]_vars
  PROVE  BufferInv'
<1>1. CASE jt808_rx_proc
  BY <1>1 DEF jt808_rx_proc, BufferInv
<1>2. ASSUME NEW link \in Links, Receive(link) PROVE BufferInv'
  <2>1. SUFFICES ASSUME cuts' = 0
                 PROVE  /\ \A l \in Links : Uncut(sent'[l])
                        /\ Len(buf') <= sent'[link]
                        /\ Uncut(sent'[link] - Len(buf'))
                        /\ buf' = Stretch(sent'[link] - Len(buf'), sent'[link])
    <3>1. last_link' = link
      BY <1>2 DEF Receive, gprs_rx
    <3> QED BY <3>1 DEF BufferInv
  <2>2. cuts = 0
    BY <1>2, <2>1, ReceiptIs
  <2>3. PICK n, a : Receipt(link, n, a)
    BY <1>2, <2>1, ReceiptIs
  <2>4. sent'[link] = sent[link] + n /\ \A l \in Links \ {link} : sent'[l] = sent[l]
    BY <2>3 DEF Receipt, TypeOK
  <2>5. \A l \in Links : Uncut(sent'[l])
    BY <2>2, <2>3, <2>4 DEF BufferInv, Receipt
  <2>6. Len(buf') = (sent[link] + n) - a /\ (sent[link] + n) - Len(buf') = a
    <3>1. sent[link] + n \in Nat /\ a \in Nat /\ a <= sent[link] + n
          /\ buf' = Stretch(a, sent[link] + n)
      BY <2>3 DEF Receipt
    <3>2. PICK p \in Nat : p = sent[link] + n
      BY <3>1
    <3>3. Len(Stretch(a, p)) = p - a
      BY <3>1, <3>2, StretchIs
    <3>4. Len(buf') = p - a /\ p - (p - a) = a
      BY <3>1, <3>2, <3>3
    <3> QED BY <3>2, <3>4
  <2> QED BY <2>3, <2>4, <2>5, <2>6 DEF Receipt
<1>3. CASE UNCHANGED vars
  BY <1>3 DEF BufferInv, vars
<1> QED BY <1>1, <1>2, <1>3 DEF Next

LEMMA BufferBegins == Init => BufferInv
<1>1. 0 % FrameSize = 0
  BY SizesAreNumbers
<1>2. Uncut(0)
  BY <1>1, SizesAreNumbers DEF Uncut, CutAtFlag, InFrame
<1>3. Init => last_link \notin Links
  BY FrameAssumption DEF Init, NoLink
<1> QED BY <1>2, <1>3 DEF Init, BufferInv

-----------------------------------------------------------------------------
(* The order of the frames. *)

(* Frames handed over and frames in the mails are in the order of their    *)
(* link, and end before the place from which another one may be found.     *)
Ordered(hs, ms, begun) ==
  /\ \A i, j \in DOMAIN hs :
       /\ hs[i][2] > 0 /\ FrameSize * hs[i][2] <= begun[hs[i][1]]
       /\ i < j /\ hs[i][1] = hs[j][1] => hs[i][2] < hs[j][2]
  /\ \A i \in DOMAIN ms :
       /\ Increasing(FramesIn(ms[i].bytes))
       /\ \A x \in DOMAIN FramesIn(ms[i].bytes) :
            /\ FrameSize * FramesIn(ms[i].bytes)[x] <= begun[ms[i].link]
            /\ \A h \in DOMAIN hs :
                 hs[h][1] = ms[i].link => hs[h][2] < FramesIn(ms[i].bytes)[x]
            /\ \A j \in DOMAIN ms : \A y \in DOMAIN FramesIn(ms[j].bytes) :
                 i < j /\ ms[j].link = ms[i].link
                   => FramesIn(ms[i].bytes)[x] < FramesIn(ms[j].bytes)[y]

(* The frames of the first mail follow those handed over. *)
LEMMA FirstMailIsNext ==
  ASSUME NEW hs \in Seq(Links \X (0 .. Frames)), NEW ms \in Seq(Mail), ms # <<>>,
         NEW begun, Ordered(hs, ms, begun)
  PROVE  LET found == FramesIn(Head(ms).bytes)
         IN Ordered(hs \o [i \in DOMAIN found |-> <<Head(ms).link, found[i]>>],
                    Tail(ms), begun)
<1> DEFINE found == FramesIn(Head(ms).bytes)
           new == [i \in DOMAIN found |-> <<Head(ms).link, found[i]>>]
           all == hs \o new
           rest == Tail(ms)
<1>1. /\ Head(ms) = ms[1] /\ 1 \in DOMAIN ms
      /\ \A i \in DOMAIN rest : i + 1 \in DOMAIN ms /\ rest[i] = ms[i + 1] /\ i \in Nat /\ i >= 1
  OBVIOUS
<1>2. found \in Seq(0 .. Frames) /\ Head(ms) \in Mail
  <2>1. Head(ms) \in Mail
    OBVIOUS
  <2>2. Head(ms).bytes \in Seq(Bytes)
    BY <2>1 DEF Mail
  <2> QED BY <2>1, <2>2, FramesType
<1>3. /\ DOMAIN hs = 1 .. Len(hs) /\ Len(hs) \in Nat
      /\ DOMAIN found = 1 .. Len(found) /\ Len(found) \in Nat
  BY <1>2, ElementsOf
<1> DEFINE Old(i) == i \in DOMAIN hs /\ all[i] = hs[i]
           New(i) == \E x \in DOMAIN found : i = Len(hs) + x /\ all[i] = <<ms[1].link, found[x]>>
<1>4. \A i \in DOMAIN all : i \in Nat /\ (Old(i) \/ New(i))
  <2> HIDE DEF found
  <2>1. new \in [1 .. Len(found) -> {new[i] : i \in 1 .. Len(found)}] /\ Len(new) = Len(found)
    BY <1>3
  <2>2. DOMAIN all = 1 .. Len(hs) + Len(found)
    BY <1>3, <2>1
  <2>3. \A i \in 1 .. Len(hs) : all[i] = hs[i]
    BY <1>3, <2>1
  <2>4. \A x \in 1 .. Len(found) : all[Len(hs) + x] = <<ms[1].link, found[x]>>
    BY <1>1, <1>3, <2>1
  <2>5. ASSUME NEW i \in 1 .. Len(hs) + Len(found) PROVE i \in Nat /\ (Old(i) \/ New(i))
    <3>1. CASE i \in 1 .. Len(hs)
      BY <1>3, <2>3, <3>1
    <3>2. CASE i \notin 1 .. Len(hs)
      <4>1. i - Len(hs) \in 1 .. Len(found) /\ i = Len(hs) + (i - Len(hs)) /\ i \in Nat
        BY <1>3, <3>2
      <4> HIDE DEF all
      <4> QED BY <1>3, <2>4, <4>1
    <3> QED BY <3>1, <3>2
  <2> HIDE DEF all, Old, New
  <2> QED BY <2>2, <2>5
<1> HIDE DEF all, rest
<1>5. /\ Increasing(found)
      /\ \A x \in DOMAIN found :
           /\ found[x] > 0 /\ FrameSize * found[x] <= begun[ms[1].link]
           /\ \A h \in DOMAIN hs : hs[h][1] = ms[1].link => hs[h][2] < found[x]
           /\ \A j \in DOMAIN ms : \A y \in DOMAIN FramesIn(ms[j].bytes) :
                1 < j /\ ms[j].link = ms[1].link => found[x] < FramesIn(ms[j].bytes)[y]
  <2>1. found = FramesIn(ms[1].bytes)
    BY <1>1
  <2> HIDE DEF found
  <2> QED BY <1>1, <2>1 DEF Ordered, Increasing
<1> HIDE DEF found
<1>6. ASSUME NEW i \in DOMAIN all, NEW j \in DOMAIN all
      PROVE  /\ all[i][2] > 0 /\ FrameSize * all[i][2] <= begun[all[i][1]]
             /\ i < j /\ all[i][1] = all[j][1] => all[i][2] < all[j][2]
  <2>1. all[i][2] > 0 /\ FrameSize * all[i][2] <= begun[all[i][1]]
    <3>1. CASE Old(i)
      BY <3>1 DEF Ordered
    <3>2. CASE New(i)
      BY <3>2, <1>5
    <3> QED BY <1>4, <3>1, <3>2
  <2>2. ASSUME i < j, all[i][1] = all[j][1] PROVE all[i][2] < all[j][2]
    <3>1. CASE Old(i) /\ Old(j)
      BY <2>2, <3>1 DEF Ordered
    <3>2. CASE Old(i) /\ New(j)
      BY <2>2, <3>2, <1>5
    <3>3. CASE New(i) /\ Old(j)
      BY <2>2, <3>3, <1>3
    <3>4. CASE New(i) /\ New(j)
      <4>1. PICK x \in DOMAIN found : i = Len(hs) + x /\ all[i] = <<ms[1].link, found[x]>>
        BY <3>4
      <4>2. PICK y \in DOMAIN found : j = Len(hs) + y /\ all[j] = <<ms[1].link, found[y]>>
        BY <3>4
      <4>3. x < y
        BY <2>2, <4>1, <4>2, <1>3
      <4> QED BY <4>1, <4>2, <4>3, <1>5 DEF Increasing
    <3> HIDE DEF Old, New
    <3> QED BY <1>4, <3>1, <3>2, <3>3, <3>4
  <2> QED BY <2>1, <2>2
<1>7. ASSUME NEW i \in DOMAIN rest, NEW x \in DOMAIN FramesIn(rest[i].bytes)
      PROVE  /\ FrameSize * FramesIn(rest[i].bytes)[x] <= begun[rest[i].link]
             /\ \A h \in DOMAIN all :
                  all[h][1] = rest[i].link => all[h][2] < FramesIn(rest[i].bytes)[x]
             /\ \A j \in DOMAIN rest : \A y \in DOMAIN FramesIn(rest[j].bytes) :
                  i < j /\ rest[j].link = rest[i].link
                    => FramesIn(rest[i].bytes)[x] < FramesIn(rest[j].bytes)[y]
  <2>1. i + 1 \in DOMAIN ms /\ rest[i] = ms[i + 1] /\ 1 < i + 1
    BY <1>1
  <2>2. FrameSize * FramesIn(rest[i].bytes)[x] <= begun[rest[i].link]
    BY <2>1 DEF Ordered
  <2>3. ASSUME NEW h \in DOMAIN all, all[h][1] = rest[i].link
        PROVE  all[h][2] < FramesIn(rest[i].bytes)[x]
    <3>1. CASE Old(h)
      BY <2>1, <2>3, <3>1 DEF Ordered
    <3>2. CASE New(h)
      <4>1. PICK z \in DOMAIN found : all[h] = <<ms[1].link, found[z]>>
        BY <3>2
      <4>2. ms[i + 1].link = ms[1].link /\ x \in DOMAIN FramesIn(ms[i + 1].bytes)
        BY <2>1, <2>3, <4>1
      <4>3. found[z] < FramesIn(ms[i + 1].bytes)[x]
        BY <1>5, <2>1, <4>2
      <4> QED BY <2>1, <4>1, <4>3
    <3> HIDE DEF Old, New
    <3> QED BY <1>4, <3>1, <3>2
  <2>4. ASSUME NEW j \in DOMAIN rest, NEW y \in DOMAIN FramesIn(rest[j].bytes),
               i < j, rest[j].link = rest[i].link
        PROVE  FramesIn(rest[i].bytes)[x] < FramesIn(rest[j].bytes)[y]
    <3>1. j + 1 \in DOMAIN ms /\ rest[j] = ms[j + 1] /\ i + 1 < j + 1
      BY <1>1, <2>4
    <3> QED BY <2>1, <2>4, <3>1 DEF Ordered
  <2> QED BY <2>2, <2>3, <2>4
<1>8. \A i \in DOMAIN rest : Increasing(FramesIn(rest[i].bytes))
  BY <1>1 DEF Ordered
<1>9. Ordered(all, rest, begun)
  BY <1>6, <1>7, <1>8 DEF Ordered
<1> QED BY <1>9 DEF all, rest, found

(* The frames of a mail that begins where the next frame may be found      *)
(* follow all the others.                                                  *)
LEMMA LastMailIsLast ==
  ASSUME NEW hs \in Seq(Links \X (0 .. Frames)), NEW ms \in Seq(Mail), NEW m \in Mail,
         NEW begun, NEW after,
         Ordered(hs, ms, begun), Increasing(FramesIn(m.bytes)),
         \A l \in Links : begun[l] \in Nat /\ after[l] \in Nat /\ begun[l] <= after[l],
         \A x \in DOMAIN FramesIn(m.bytes) :
           /\ FramesIn(m.bytes)[x] \in 1 .. Frames
           /\ begun[m.link] <= FrameSize * (FramesIn(m.bytes)[x] - 1)
           /\ FrameSize * FramesIn(m.bytes)[x] <= after[m.link]
  PROVE  Ordered(hs, Append(ms, m), after)
<1> DEFINE all == Append(ms, m)
<1>1. /\ DOMAIN all = 1 .. Len(ms) + 1 /\ DOMAIN ms = 1 .. Len(ms) /\ Len(ms) \in Nat
      /\ all[Len(ms) + 1] = m
      /\ \A i \in DOMAIN ms : all[i] = ms[i]
  OBVIOUS
<1>2. /\ \A i \in DOMAIN ms : ms[i] \in Mail /\ ms[i].link \in Links /\ ms[i].bytes \in Seq(Bytes)
      /\ m.link \in Links
      /\ \A h \in DOMAIN hs : hs[h][1] \in Links /\ hs[h][2] \in 0 .. Frames
  <2>1. \A i \in DOMAIN ms : ms[i] \in Mail
    BY ElementsOf
  <2>2. \A h \in DOMAIN hs : hs[h] \in Links \X (0 .. Frames)
    BY ElementsOf
  <2> QED BY <2>1, <2>2 DEF Mail
<1>3. \A i \in DOMAIN ms : \A x \in DOMAIN FramesIn(ms[i].bytes) : FramesIn(ms[i].bytes)[x] \in 0 .. Frames
  BY <1>2, FramesType, ElementsOf
<1>4. ASSUME NEW f \in 0 .. Frames, NEW g \in 1 .. Frames, NEW b \in Nat,
             FrameSize * f <= b, b <= FrameSize * (g - 1)
      PROVE  f < g
  <2>0. f \in Nat /\ g - 1 \in Nat
    BY SizesAreNumbers
  <2>1. f \in Nat /\ g - 1 \in Nat /\ FrameSize * f \in Nat /\ FrameSize * (g - 1) \in Nat
    BY <2>0, SizesAreNumbers, NextEnd
  <2>2. g - 1 < f => FrameSize * (g - 1) + FrameSize <= FrameSize * f
    BY <2>1, SizesAreNumbers, EndsGrow
  <2> QED BY <1>4, <2>1, <2>2, SizesAreNumbers
<1>5. ASSUME NEW f \in 0 .. Frames, NEW l \in Links, FrameSize * f <= begun[l]
      PROVE  FrameSize * f <= after[l]
  <2>1. FrameSize * f \in Nat
    BY SizesAreNumbers, NextEnd
  <2> QED BY <1>5, <2>1
<1> HIDE DEF all
<1>6. ASSUME NEW i \in DOMAIN hs, NEW j \in DOMAIN hs
      PROVE  /\ hs[i][2] > 0 /\ FrameSize * hs[i][2] <= after[hs[i][1]]
             /\ i < j /\ hs[i][1] = hs[j][1] => hs[i][2] < hs[j][2]
  BY <1>2, <1>5 DEF Ordered
<1>7. ASSUME NEW i \in DOMAIN all, NEW x \in DOMAIN FramesIn(all[i].bytes)
      PROVE  /\ FrameSize * FramesIn(all[i].bytes)[x] <= after[all[i].link]
             /\ \A h \in DOMAIN hs :
                  hs[h][1] = all[i].link => hs[h][2] < FramesIn(all[i].bytes)[x]
             /\ \A j \in DOMAIN all : \A y \in DOMAIN FramesIn(all[j].bytes) :
                  i < j /\ all[j].link = all[i].link
                    => FramesIn(all[i].bytes)[x] < FramesIn(all[j].bytes)[y]
  <2>1. CASE i \in DOMAIN ms
    <3>1. all[i] = ms[i]
      BY <1>1, <2>1
    <3>2. FrameSize * FramesIn(ms[i].bytes)[x] <= begun[ms[i].link]
      BY <1>7, <2>1, <3>1 DEF Ordered
    <3>3. FrameSize * FramesIn(all[i].bytes)[x] <= after[all[i].link]
      BY <1>2, <1>3, <1>5, <1>7, <2>1, <3>1, <3>2
    <3>4. \A h \in DOMAIN hs :
            hs[h][1] = all[i].link => hs[h][2] < FramesIn(all[i].bytes)[x]
      BY <1>7, <2>1, <3>1 DEF Ordered
    <3>5. ASSUME NEW j \in DOMAIN all, NEW y \in DOMAIN FramesIn(all[j].bytes),
                 i < j, all[j].link = all[i].link
          PROVE  FramesIn(all[i].bytes)[x] < FramesIn(all[j].bytes)[y]
      <4>1. CASE j \in DOMAIN ms
        <5>1. all[j] = ms[j]
          BY <1>1, <4>1
        <5> QED BY <1>7, <2>1, <3>1, <3>5, <4>1, <5>1 DEF Ordered
      <4>2. CASE j \notin DOMAIN ms
        <5>1. all[j] = m
          BY <1>1, <4>2
        <5>2. begun[m.link] <= FrameSize * (FramesIn(m.bytes)[y] - 1)
              /\ FramesIn(m.bytes)[y] \in 1 .. Frames
          BY <3>5, <5>1
        <5>3. FramesIn(ms[i].bytes)[x] \in 0 .. Frames /\ begun[m.link] \in Nat
              /\ ms[i].link = m.link
          BY <1>2, <1>3, <1>7, <2>1, <3>1, <3>5, <5>1
        <5> QED BY <1>4, <3>1, <3>2, <5>1, <5>2, <5>3
      <4> QED BY <4>1, <4>2
    <3> QED BY <3>3, <3>4, <3>5
  <2>2. CASE i \notin DOMAIN ms
    <3>1. all[i] = m /\ i = Len(ms) + 1
      BY <1>1, <2>2
    <3>2. /\ FramesIn(m.bytes)[x] \in 1 .. Frames
          /\ begun[m.link] <= FrameSize * (FramesIn(m.bytes)[x] - 1)
          /\ FrameSize * FramesIn(m.bytes)[x] <= after[m.link]
      BY <1>7, <3>1
    <3>3. ASSUME NEW h \in DOMAIN hs, hs[h][1] = m.link
          PROVE  hs[h][2] < FramesIn(m.bytes)[x]
      <4>1. hs[h][2] \in 0 .. Frames /\ FrameSize * hs[h][2] <= begun[m.link] /\ begun[m.link] \in Nat
        BY <1>2, <3>3 DEF Ordered
      <4> QED BY <1>4, <3>2, <4>1
    <3>4. \A j \in DOMAIN all : ~(i < j)
      BY <1>1, <3>1
    <3> QED BY <3>1, <3>2, <3>3, <3>4
  <2> QED BY <2>1, <2>2
<1>8. \A i \in DOMAIN all : Increasing(FramesIn(all[i].bytes))
  <2>1. \A i \in DOMAIN ms : Increasing(FramesIn(ms[i].bytes))
    BY DEF Ordered
  <2>2. ASSUME NEW i \in DOMAIN all PROVE Increasing(FramesIn(all[i].bytes))
    <3>1. CASE i \in DOMAIN ms
      BY <1>1, <2>1, <3>1
    <3>2. CASE i \notin DOMAIN ms
      <4>1. all[i] = m
        BY <1>1, <3>2
      <4> QED BY <4>1
    <3> QED BY <3>1, <3>2
  <2> QED BY <2>2
<1>9. Ordered(hs, all, after)
  BY <1>6, <1>7, <1>8 DEF Ordered
<1> QED BY <1>9 DEF all

LEMMA OrderedGrows ==
  ASSUME NEW hs \in Seq(Links \X (0 .. Frames)), NEW ms \in Seq(Mail), NEW begun, NEW after,
         Ordered(hs, ms, begun),
         \A l \in Links : begun[l] \in Nat /\ after[l] \in Nat /\ begun[l] <= after[l]
  PROVE  Ordered(hs, ms, after)
<1>1. /\ \A i \in DOMAIN ms : ms[i].link \in Links /\ ms[i].bytes \in Seq(Bytes)
      /\ \A h \in DOMAIN hs : hs[h][1] \in Links /\ hs[h][2] \in 0 .. Frames
  <2>1. \A i \in DOMAIN ms : ms[i] \in Mail
    BY ElementsOf
  <2>2. \A h \in DOMAIN hs : hs[h] \in Links \X (0 .. Frames)
    BY ElementsOf
  <2> QED BY <2>1, <2>2 DEF Mail
<1>2. \A i \in DOMAIN ms : \A x \in DOMAIN FramesIn(ms[i].bytes) : FramesIn(ms[i].bytes)[x] \in 0 .. Frames
  BY <1>1, FramesType, ElementsOf
<1>3. ASSUME NEW f \in 0 .. Frames, NEW l \in Links, FrameSize * f <= begun[l]
      PROVE  FrameSize * f <= after[l]
  <2>1. FrameSize * f \in Nat
    BY SizesAreNumbers, NextEnd
  <2> QED BY <1>3, <2>1
<1>4. ASSUME NEW i \in DOMAIN hs PROVE FrameSize * hs[i][2] <= after[hs[i][1]]
  BY <1>1, <1>3 DEF Ordered
<1>5. ASSUME NEW i \in DOMAIN ms, NEW x \in DOMAIN FramesIn(ms[i].bytes)
      PROVE  FrameSize * FramesIn(ms[i].bytes)[x] <= after[ms[i].link]
  BY <1>1, <1>2, <1>3 DEF Ordered
<1> QED BY <1>4, <1>5 DEF Ordered

OrderInv == cuts = 0 => Ordered(handled, mail, [l \in Links |-> Begun(l)])

LEMMA BegunIs ==
  ASSUME TypeOK, BufferInv, cuts = 0, NEW l \in Links
  PROVE  Begun(l) \in Nat /\ Begun(l) <= sent[l] /\ sent[l] \in Nat
<1>1. sent[l] \in Nat /\ Len(buf) \in Nat
  BY SizesAreNumbers DEF TypeOK
<1>2. l = last_link => Len(buf) <= sent[l]
  BY DEF BufferInv
<1> QED BY <1>1, <1>2 DEF Begun

(* Where a receipt leaves the place from which the next frame may be found. *)
LEMMA BegunAfter ==
  ASSUME TypeOK, BufferInv, cuts = 0, NEW link, NEW n, NEW a, Receipt(link, n, a)
  PROVE  /\ Begun(link)' = IF InFrame(sent[link] + n) = 0 THEN sent[link] + n ELSE a
         /\ \A l \in Links \ {link} : Begun(l)' = sent[l]
         /\ \A l \in Links : Begun(l)' \in Nat /\ Begun(l) <= Begun(l)'
<1>1. /\ link \in Links /\ a \in Nat /\ sent[link] + n \in Nat /\ a <= sent[link] + n
      /\ last_link' = link /\ buf' = Stretch(a, sent[link] + n) /\ Begun(link) <= a
  BY DEF Receipt
<1>2. sent'[link] = sent[link] + n /\ \A l \in Links \ {link} : sent'[l] = sent[l]
  BY DEF Receipt, TypeOK
<1>3. PICK p \in Nat : p = sent[link] + n
  BY <1>1
<1>4. Len(Stretch(a, p)) = p - a
  BY <1>1, <1>3, StretchIs
<1>5. p - Len(buf') = a
  BY <1>1, <1>3, <1>4
<1>6. Begun(link)' = IF InFrame(p) # 0 THEN p - Len(buf') ELSE p
  BY <1>1, <1>2, <1>3 DEF Begun
<1>7. \A l \in Links \ {link} : Begun(l)' = sent[l]
  BY <1>1, <1>2 DEF Begun
<1>8. \A l \in Links : Begun(l) \in Nat /\ sent[l] \in Nat /\ Begun(l) <= sent[l]
  BY BegunIs
<1>9. Begun(link)' = IF InFrame(sent[link] + n) = 0 THEN sent[link] + n ELSE a
  BY <1>3, <1>5, <1>6
<1>10. ASSUME NEW l \in Links PROVE Begun(l)' \in Nat /\ Begun(l) <= Begun(l)'
  <2>1. CASE l = link
    BY <1>1, <1>3, <1>8, <1>9, <2>1
  <2>2. CASE l # link
    BY <1>7, <1>8, <2>2
  <2> QED BY <2>1, <2>2
<1> QED BY <1>7, <1>9, <1>10

LEMMA OrderHolds ==
  ASSUME TypeOK, BufferInv, OrderInv, [Next]_vars
  PROVE  OrderInv'
<1>0. handled \in Seq(Links \X (0 .. Frames)) /\ mail \in Seq(Mail)
  BY DEF TypeOK
<1>1. CASE jt808_rx_proc
  <2>1. [l \in Links |-> Begun(l)]' = [l \in Links |-> Begun(l)]
    BY <1>1 DEF jt808_rx_proc, Begun
  <2>2. /\ cuts' = cuts /\ mail # <<>> /\ mail' = Tail(mail)
        /\ LET found == FramesIn(Head(mail).bytes)
           IN handled' = handled \o [i \in DOMAIN found |-> <<Head(mail).link, found[i]>>]
    BY <1>1 DEF jt808_rx_proc
  <2> DEFINE b == [l \in Links |-> Begun(l)]
  <2>3. cuts = 0 => Ordered(handled, mail, b)
    BY DEF OrderInv
  <2> HIDE DEF b
  <2>4. cuts = 0 => Ordered(handled', mail', b)
    BY <1>0, <2>2, <2>3, FirstMailIsNext
  <2> QED BY <2>1, <2>2, <2>4 DEF OrderInv, b
<1>2. ASSUME NEW link \in Links, Receive(link) PROVE OrderInv'
  <2>1. SUFFICES ASSUME cuts' = 0 PROVE Ordered(handled', mail', [l \in Links |-> Begun(l)'])
    BY DEF OrderInv
  <2>2. cuts = 0
    BY <1>2, <2>1, ReceiptIs
  <2>3. PICK n, a : Receipt(link, n, a)
    BY <1>2, <2>1, ReceiptIs
  <2>4. /\ Begun(link)' = IF InFrame(sent[link] + n) = 0 THEN sent[link] + n ELSE a
        /\ \A l \in Links \ {link} : Begun(l)' = sent[l]
        /\ \A l \in Links : Begun(l)' \in Nat /\ Begun(l) <= Begun(l)'
        /\ \A l \in Links : Begun(l) \in Nat /\ sent[l] \in Nat /\ Begun(l) <= sent[l]
    BY <2>2, <2>3, BegunAfter, BegunIs
  <2>5. /\ a \in Nat /\ sent[link] + n \in Nat /\ a <= sent[link] + n /\ Begun(link) <= a
        /\ sent[link] + n <= StreamSize /\ Uncut(a) /\ buf' = Stretch(a, sent[link] + n)
        /\ handled' = handled
        /\ mail' = IF InFrame(sent[link] + n) = 0 /\ Len(mail) < MailSlots
                   THEN Append(mail, [link |-> link, bytes |-> buf']) ELSE mail
    BY <2>3 DEF Receipt
  <2>6. PICK p \in Nat : p = sent[link] + n
    BY <2>5
  <2>7. PICK b : b = [l \in Links |-> Begun(l)]
    OBVIOUS
  <2>8. PICK c : c = [l \in Links |-> Begun(l)']
    OBVIOUS
  <2>9. Ordered(handled, mail, b)
    BY <2>2, <2>7 DEF OrderInv
  <2>10. CASE mail' = mail
    <3>1. \A l \in Links : b[l] \in Nat /\ c[l] \in Nat /\ b[l] <= c[l]
      BY <2>4, <2>7, <2>8
    <3> QED BY <1>0, <2>5, <2>8, <2>9, <2>10, <3>1, OrderedGrows
  <2>11. CASE InFrame(p) = 0 /\ mail' = Append(mail, [link |-> link, bytes |-> Stretch(a, p)])
    <3> DEFINE m == [link |-> link, bytes |-> Stretch(a, p)]
               fs == FramesIn(Stretch(a, p))
               d == [b EXCEPT ![link] = a]
    <3>1. /\ Increasing(fs)
          /\ \A x \in DOMAIN fs :
               /\ fs[x] \in 1 .. Frames
               /\ a <= FrameSize * (fs[x] - 1) /\ FrameSize * fs[x] <= p
      BY <2>5, <2>6, FramesAreWhole
    <3>2. m \in Mail /\ m.link = link /\ FramesIn(m.bytes) = fs
      <4>1. Stretch(a, p) \in Seq(Bytes)
        BY <2>5, <2>6, StretchType
      <4> QED BY <4>1 DEF Mail
    <3>3. /\ \A l \in Links : b[l] \in Nat /\ d[l] \in Nat /\ b[l] <= d[l] /\ c[l] \in Nat /\ d[l] <= c[l]
          /\ d[link] = a /\ c[link] = p
      <4>1. c[link] = p /\ d[link] = a
        BY <2>4, <2>6, <2>7, <2>8, <2>11
      <4>2. ASSUME NEW l \in Links, l # link PROVE d[l] = Begun(l) /\ c[l] = sent[l]
        BY <2>4, <2>7, <2>8, <4>2
      <4> HIDE DEF d
      <4> QED BY <2>4, <2>5, <2>6, <2>7, <2>8, <4>1, <4>2
    <3> HIDE DEF m, fs, d
    <3>4. Ordered(handled, mail, d)
      BY <1>0, <2>9, <3>3, OrderedGrows
    <3>5. Ordered(handled, Append(mail, m), c)
      BY <1>0, <3>1, <3>2, <3>3, <3>4, LastMailIsLast
    <3> QED BY <2>5, <2>8, <2>11, <3>5 DEF m
  <2> QED BY <2>5, <2>6, <2>10, <2>11
<1>3. CASE UNCHANGED vars
  BY <1>3 DEF OrderInv, Begun, vars
<1> QED BY <1>1, <1>2, <1>3 DEF Next

LEMMA OrderBegins == Init => OrderInv
BY DEF Init, OrderInv, Ordered

LEMMA OrderGives == OrderInv => HandledInOrder
<1>1. SUFFICES ASSUME OrderInv, cuts = 0, NEW i \in DOMAIN handled, NEW j \in DOMAIN handled
               PROVE  /\ handled[i][2] # 0
                      /\ i < j /\ handled[i][1] = handled[j][1] => handled[i][2] < handled[j][2]
  BY DEF HandledInOrder, Astray
<1>2. PICK b : Ordered(handled, mail, b)
  BY <1>1 DEF OrderInv
<1>3. /\ handled[i][2] > 0
      /\ i < j /\ handled[i][1] = handled[j][1] => handled[i][2] < handled[j][2]
  BY <1>1, <1>2 DEF Ordered
<1> QED BY <1>3

(* The frames of a link come to their handlers once and in their order,    *)
(* none without its header, until a chunk ends next to a flag              *)
(* (jt808.c:1847-1859, 1879).                                              *)
THEOREM FramesInOrder == Spec => []HandledInOrder
<1>1. Init => TypeOK /\ BufferInv /\ OrderInv
  BY TypeBegins, BufferBegins, OrderBegins
<1>2. TypeOK /\ BufferInv /\ OrderInv /\ [Next]_vars => (TypeOK /\ BufferInv /\ OrderInv)'
  BY TypeHolds, BufferHolds, OrderHolds
<1>3. TypeOK /\ BufferInv /\ OrderInv => HandledInOrder
  BY OrderGives
<1> QED BY <1>1, <1>2, <1>3, PTL DEF Spec

-----------------------------------------------------------------------------
(* No frame is missed. *)

Reached(hs, ms, l, f) ==
  \/ Contains(hs, <<l, f>>)
  \/ \E i \in DOMAIN ms : ms[i].link = l /\ Contains(FramesIn(ms[i].bytes), f)

(* Until something is lost, what is in the buffer begins with a frame, and *)
(* every frame before it was handed over or waits in a mail.               *)
ReachedInv ==
  ~dropped /\ cuts = 0 =>
    \A l \in Links :
      /\ InFrame(Begun(l)) = 0
      /\ \A f \in 1 .. Frames : FrameSize * f <= Begun(l) => Reached(handled, mail, l, f)

LEMMA TakenIsReached ==
  ASSUME NEW hs \in Seq(Links \X (0 .. Frames)), NEW ms \in Seq(Mail), ms # <<>>,
         NEW l, NEW f, Reached(hs, ms, l, f)
  PROVE  LET found == FramesIn(Head(ms).bytes)
         IN Reached(hs \o [i \in DOMAIN found |-> <<Head(ms).link, found[i]>>], Tail(ms), l, f)
<1> DEFINE found == FramesIn(Head(ms).bytes)
           new == [i \in DOMAIN found |-> <<Head(ms).link, found[i]>>]
           all == hs \o new
<1>1. found \in Seq(0 .. Frames)
  <2>1. Head(ms) \in Mail
    OBVIOUS
  <2>2. Head(ms).bytes \in Seq(Bytes)
    BY <2>1 DEF Mail
  <2> QED BY <2>2, FramesType
<1>2. /\ DOMAIN hs = 1 .. Len(hs) /\ Len(hs) \in Nat
      /\ DOMAIN found = 1 .. Len(found) /\ Len(found) \in Nat
  BY <1>1, ElementsOf
<1>3. /\ Len(all) = Len(hs) + Len(found)
      /\ \A i \in 1 .. Len(hs) : all[i] = hs[i]
      /\ \A x \in 1 .. Len(found) : all[Len(hs) + x] = <<Head(ms).link, found[x]>>
  <2> HIDE DEF found
  <2>1. new \in [1 .. Len(found) -> {new[i] : i \in 1 .. Len(found)}] /\ Len(new) = Len(found)
    BY <1>2
  <2>2. \A x \in 1 .. Len(found) : new[x] = <<Head(ms).link, found[x]>>
    BY <1>2
  <2> HIDE DEF new
  <2>3. new \in Seq({new[i] : i \in 1 .. Len(found)})
    BY <1>2, <2>1
  <2>4. DOMAIN new = 1 .. Len(found)
    BY <2>1
  <2>5. Len(all) = Len(hs) + Len(found)
    <3>1. Len(new) = Len(found)
      BY <2>1
    <3>2. Len(hs \o new) = Len(hs) + Len(new)
      BY <2>3, JoinedLength
    <3> QED BY <3>1, <3>2
  <2>6. \A i \in 1 .. Len(hs) : all[i] = hs[i]
    BY <1>2, <2>1, <2>3
  <2>7. ASSUME NEW x \in 1 .. Len(found) PROVE all[Len(hs) + x] = new[x]
    <3>1. /\ Len(hs) + x \in 1 .. Len(hs) + Len(new) /\ ~(Len(hs) + x <= Len(hs))
          /\ (Len(hs) + x) - Len(hs) = x
      BY <1>2, <2>1
    <3> QED BY <2>3, <3>1
  <2>8. \A x \in 1 .. Len(found) : all[Len(hs) + x] = <<Head(ms).link, found[x]>>
    <3> HIDE DEF all
    <3> QED BY <2>2, <2>7
  <2> HIDE DEF all
  <2> QED BY <2>5, <2>6, <2>8
<1> HIDE DEF all, found
<1>4. CASE Contains(hs, <<l, f>>)
  <2>1. PICK i \in 1 .. Len(hs) : hs[i] = <<l, f>>
    BY <1>4 DEF Contains
  <2>2. i \in 1 .. Len(all) /\ all[i] = <<l, f>>
    BY <1>2, <1>3, <2>1
  <2> QED BY <2>2 DEF Contains, Reached, all, found
<1>5. ASSUME NEW i \in DOMAIN ms, ms[i].link = l, Contains(FramesIn(ms[i].bytes), f)
      PROVE  Reached(all, Tail(ms), l, f)
  <2>1. CASE i = 1
    <3>1. ms[i] = Head(ms)
      BY <2>1
    <3>2. PICK x \in 1 .. Len(found) : found[x] = f
      BY <1>5, <3>1 DEF Contains, found
    <3>3. Len(hs) + x \in 1 .. Len(all) /\ all[Len(hs) + x] = <<l, f>>
      BY <1>2, <1>3, <1>5, <3>1, <3>2
    <3> QED BY <3>3 DEF Contains, Reached
  <2>2. CASE i # 1
    <3>1. i - 1 \in DOMAIN Tail(ms) /\ Tail(ms)[i - 1] = ms[i]
      BY <2>2
    <3> QED BY <1>5, <3>1 DEF Reached
  <2> QED BY <2>1, <2>2
<1> QED BY <1>4, <1>5 DEF Reached, all, found

LEMMA PostedIsReached ==
  ASSUME NEW hs, NEW ms \in Seq(Mail), NEW m \in Mail, NEW l, NEW f,
         Reached(hs, ms, l, f) \/ (m.link = l /\ Contains(FramesIn(m.bytes), f))
  PROVE  Reached(hs, Append(ms, m), l, f)
<1> DEFINE all == Append(ms, m)
<1>1. /\ DOMAIN all = 1 .. Len(ms) + 1 /\ DOMAIN ms = 1 .. Len(ms) /\ Len(ms) \in Nat
      /\ all[Len(ms) + 1] = m /\ \A i \in DOMAIN ms : all[i] = ms[i]
  OBVIOUS
<1>2. Len(ms) + 1 \in DOMAIN all /\ \A i \in DOMAIN ms : i \in DOMAIN all
  BY <1>1
<1> HIDE DEF all
<1>3. Reached(hs, all, l, f)
  BY <1>1, <1>2 DEF Reached
<1> QED BY <1>3 DEF all

LEMMA ReachedHolds ==
  ASSUME TypeOK, BufferInv, ReachedInv, [Next]_vars
  PROVE  ReachedInv'
<1>0. handled \in Seq(Links \X (0 .. Frames)) /\ mail \in Seq(Mail)
  BY DEF TypeOK
<1>1. CASE jt808_rx_proc
  <2>1. \A l \in Links : Begun(l)' = Begun(l)
    BY <1>1 DEF jt808_rx_proc, Begun
  <2>2. /\ cuts' = cuts /\ dropped' = dropped /\ mail # <<>> /\ mail' = Tail(mail)
        /\ LET found == FramesIn(Head(mail).bytes)
           IN handled' = handled \o [i \in DOMAIN found |-> <<Head(mail).link, found[i]>>]
    BY <1>1 DEF jt808_rx_proc
  <2>3. \A l, f : Reached(handled, mail, l, f) => Reached(handled', mail', l, f)
    BY <1>0, <2>2, TakenIsReached
  <2> QED BY <2>1, <2>2, <2>3 DEF ReachedInv
<1>2. ASSUME NEW link \in Links, Receive(link) PROVE ReachedInv'
  <2>1. SUFFICES ASSUME ~dropped', cuts' = 0, NEW l \in Links
                 PROVE  /\ InFrame(Begun(l)') = 0
                        /\ \A f \in 1 .. Frames :
                             FrameSize * f <= Begun(l)' => Reached(handled', mail', l, f)
    BY DEF ReachedInv
  <2>2. cuts = 0
    BY <1>2, <2>1, ReceiptIs
  <2>3. PICK n, a : Receipt(link, n, a)
    BY <1>2, <2>1, ReceiptIs
  <2>4. /\ Begun(link)' = IF InFrame(sent[link] + n) = 0 THEN sent[link] + n ELSE a
        /\ \A k \in Links \ {link} : Begun(k)' = sent[k]
    BY <2>2, <2>3, BegunAfter
  <2>5. /\ a \in Nat /\ sent[link] + n \in Nat /\ a <= sent[link] + n /\ a = Begun(link)
        /\ sent[link] + n <= StreamSize /\ Uncut(a) /\ buf' = Stretch(a, sent[link] + n)
        /\ handled' = handled /\ ~dropped
        /\ mail' = IF InFrame(sent[link] + n) = 0 /\ Len(mail) < MailSlots
                   THEN Append(mail, [link |-> link, bytes |-> buf']) ELSE mail
        /\ InFrame(sent[link] + n) = 0 => Len(mail) # MailSlots
        /\ \A k \in Links \ {link} : Begun(k) = sent[k]
    <3>1. ~dropped
      BY <2>1, <2>3, Zenon DEF Receipt
    <3>2. /\ a = Begun(link)
          /\ InFrame(sent[link] + n) = 0 => Len(mail) # MailSlots
          /\ \A k \in Links \ {link} : Begun(k) = sent[k]
      BY <2>1, <2>3, Zenon DEF Receipt
    <3>3. /\ a \in Nat /\ link \in Links /\ n \in Nat /\ sent[link] \in Nat
          /\ a <= sent[link] + n
          /\ sent[link] + n <= StreamSize /\ Uncut(a) /\ buf' = Stretch(a, sent[link] + n)
          /\ handled' = handled
          /\ mail' = IF InFrame(sent[link] + n) = 0 /\ Len(mail) < MailSlots
                     THEN Append(mail, [link |-> link, bytes |-> buf']) ELSE mail
      BY <2>3, Zenon DEF Receipt
    <3> QED BY <3>1, <3>2, <3>3
  <2>6. PICK p \in Nat : p = sent[link] + n
    BY <2>5
  <2>7. /\ InFrame(Begun(l)) = 0
        /\ \A f \in 1 .. Frames : FrameSize * f <= Begun(l) => Reached(handled, mail, l, f)
    BY <2>2, <2>5 DEF ReachedInv
  <2>8. CASE InFrame(p) # 0
    <3>1. Begun(l)' = Begun(l) /\ mail' = mail
      BY <2>4, <2>5, <2>6, <2>8
    <3> QED BY <2>5, <2>7, <3>1
  <2>9. CASE InFrame(p) = 0
    <3> DEFINE m == [link |-> link, bytes |-> Stretch(a, p)]
    <3>1. Len(mail) < MailSlots
      BY <2>5, <2>6, <2>9, FrameAssumption DEF TypeOK
    <3>2. mail' = Append(mail, m) /\ m \in Mail /\ m.link = link /\ m.bytes = Stretch(a, p)
      <4>1. Stretch(a, p) \in Seq(Bytes)
        BY <2>5, <2>6, StretchType
      <4> QED BY <2>5, <2>6, <2>9, <3>1, <4>1 DEF Mail
    <3> HIDE DEF m
    <3>3. CASE l # link
      <4>1. Begun(l)' = Begun(l)
        BY <2>4, <2>5, <3>3
      <4>2. \A f \in 1 .. Frames : Reached(handled, mail, l, f) => Reached(handled', mail', l, f)
        BY <1>0, <2>5, <3>2, PostedIsReached
      <4> QED BY <2>7, <4>1, <4>2
    <3>4. CASE l = link
      <4>1. Begun(l)' = p
        BY <2>4, <2>6, <2>9, <3>4
      <4>2. ASSUME NEW f \in 1 .. Frames, FrameSize * f <= p
            PROVE  Reached(handled', mail', l, f)
        <5>1. CASE FrameSize * f <= a
          <6>1. Reached(handled, mail, l, f)
            BY <2>5, <2>7, <3>4, <5>1
          <6> QED BY <1>0, <2>5, <3>2, <6>1, PostedIsReached
        <5>2. CASE ~(FrameSize * f <= a)
          <6>1. InFrame(a) = 0
            BY <2>5, <2>7, <3>4
          <6>2. a <= FrameSize * (f - 1)
            <7>1. f \in Nat /\ f - 1 \in Nat
              OBVIOUS
            <7>2. a \div FrameSize \in Nat /\ FrameBefore(a) = a \div FrameSize
              BY <2>5, <6>1, SizesAreNumbers, PositionIs DEF FrameBefore
            <7>3. ~(f <= a \div FrameSize)
              BY <2>5, <5>2, <7>1, BetweenEnds
            <7>4. FrameBefore(a) <= f - 1
              BY <7>1, <7>2, <7>3
            <7> QED BY <2>5, <7>1, <7>4, BetweenEnds
          <6>3. Contains(FramesIn(Stretch(a, p)), f)
            BY <2>5, <2>6, <4>2, <6>2, FramesAreWhole
          <6> QED BY <1>0, <2>5, <3>2, <3>4, <6>3, PostedIsReached
        <5> QED BY <5>1, <5>2
      <4> QED BY <2>9, <4>1, <4>2
    <3> QED BY <3>3, <3>4
  <2> QED BY <2>8, <2>9
<1>3. CASE UNCHANGED vars
  BY <1>3 DEF ReachedInv, Begun, vars
<1> QED BY <1>1, <1>2, <1>3 DEF Next

LEMMA ReachedBegins == Init => ReachedInv
<1>1. SUFFICES ASSUME Init, NEW l \in Links
               PROVE  /\ InFrame(Begun(l)) = 0
                      /\ \A f \in 1 .. Frames : ~(FrameSize * f <= Begun(l))
  BY DEF ReachedInv
<1>2. Begun(l) = 0
  <2>1. l # NoLink
    BY FrameAssumption DEF NoLink
  <2> QED BY <1>1, <2>1 DEF Init, Begun
<1>3. 0 % FrameSize = 0 /\ \A f \in 1 .. Frames : ~(FrameSize * f <= 0)
  <2>1. ASSUME NEW f \in 1 .. Frames PROVE ~(FrameSize * f <= 0)
    <3>1. 0 \in Nat /\ f \in Nat /\ 0 < f
      OBVIOUS
    <3>2. FrameSize * 0 \in Nat /\ FrameSize * f \in Nat /\ FrameSize * 0 + FrameSize <= FrameSize * f
      BY <3>1, SizesAreNumbers, EndsGrow
    <3> QED BY <3>2, SizesAreNumbers
  <2> QED BY <2>1, SizesAreNumbers
<1> QED BY <1>2, <1>3 DEF InFrame

LEMMA ReachedGives ==
  ASSUME TypeOK, ReachedInv
  PROVE  NothingMissed
<1>1. SUFFICES ASSUME ~dropped, cuts = 0, mail = <<>>, NEW l \in Links, InFrame(sent[l]) = 0,
                      NEW k \in 1 .. sent[l] \div FrameSize
               PROVE  Contains(handled, <<l, k>>)
  BY DEF NothingMissed
<1>2. Begun(l) = sent[l] /\ sent[l] \in Nat /\ sent[l] <= StreamSize
  BY <1>1, SizesAreNumbers DEF Begun, TypeOK
<1>3. sent[l] \div FrameSize \in Nat
  BY <1>2, SizesAreNumbers, PositionIs
<1>4. k \in Nat /\ k <= sent[l] \div FrameSize /\ k >= 1
  BY <1>3
<1>5. FrameSize * k <= sent[l]
  BY <1>2, <1>4, BetweenEnds
<1>6. k \in 1 .. Frames
  <2>1. Frames < k => FrameSize * Frames + FrameSize <= FrameSize * k
    BY <1>4, SizesAreNumbers, EndsGrow
  <2>2. FrameSize * k \in Nat
    BY <1>4, SizesAreNumbers, NextEnd
  <2> QED BY <1>2, <1>4, <1>5, <2>1, <2>2, SizesAreNumbers
<1>7. Reached(handled, mail, l, k)
  BY <1>1, <1>2, <1>5, <1>6 DEF ReachedInv
<1> QED BY <1>1, <1>7 DEF Reached

(* A frame is lost only to a full buffer, a full mailbox, another link or  *)
(* a cut at a flag: otherwise it reaches its handler, however its bytes    *)
(* were split into chunks (jt808.c:1845-1882).                             *)
THEOREM FramesAreNotMissed == Spec => []NothingMissed
<1>1. Init => TypeOK /\ BufferInv /\ ReachedInv
  BY TypeBegins, BufferBegins, ReachedBegins
<1>2. TypeOK /\ BufferInv /\ ReachedInv /\ [Next]_vars => (TypeOK /\ BufferInv /\ ReachedInv)'
  BY TypeHolds, BufferHolds, ReachedHolds
<1>3. TypeOK /\ ReachedInv => NothingMissed
  BY ReachedGives
<1> QED BY <1>1, <1>2, <1>3, PTL DEF Spec

-----------------------------------------------------------------------------
(* A frame of its own. *)

LEMMA FreshStep ==
  ASSUME TypeOK, [Next]_vars, NEW link \in Links, InFrame(sent[link]) = 0,
         sent'[link] = sent[link] + FrameSize, Len(mail) < MailSlots, FrameSize <= BufSize
  PROVE  FramesIn(Last(mail').bytes) = <<sent'[link] \div FrameSize>>
<1>0. sent[link] \in Nat /\ sent[link] + FrameSize \in Nat /\ sent[link] + FrameSize # sent[link]
  BY SizesAreNumbers DEF TypeOK
<1>1. PICK l \in Links : Receive(l)
  BY <1>0 DEF Next, vars, jt808_rx_proc
<1>2. PICK n \in 1 .. MaxChunk :
        /\ sent[l] + n <= StreamSize
        /\ gprs_rx(l, Chunk(l, n))
        /\ sent' = [sent EXCEPT ![l] = @ + n]
  BY <1>1 DEF Receive
<1>3. l = link /\ n = FrameSize
  <2>1. sent[link] \in Nat /\ n \in Nat
    BY <1>0
  <2>2. l = link
    BY <1>0, <1>2 DEF TypeOK
  <2>3. sent'[link] = sent[link] + n
    BY <1>2, <2>2 DEF TypeOK
  <2> QED BY <2>1, <2>2, <2>3, SizesAreNumbers
<1>4. PICK s \in Nat : s = sent[link]
  BY <1>0
<1> DEFINE chunk == Chunk(link, FrameSize)
<1>5. /\ chunk = Stretch(s, s + FrameSize) /\ chunk \in Seq(Bytes) /\ Len(chunk) = FrameSize
      /\ Head(chunk) = Byte(s + 1) /\ Last(chunk) = Byte(s + FrameSize)
      /\ s + FrameSize <= StreamSize
  BY <1>2, <1>3, <1>4, ChunkIs
<1> HIDE DEF chunk
<1>6. PICK k \in Nat : k = s \div FrameSize /\ s = FrameSize * k /\ InFrame(s) = 0
  <2>1. s \div FrameSize \in Nat /\ s = FrameSize * (s \div FrameSize) + (s % FrameSize) /\ s % FrameSize = 0
    BY <1>4, SizesAreNumbers, PositionIs DEF InFrame
  <2>2. FrameSize * (s \div FrameSize) \in Nat
    BY <2>1, SizesAreNumbers, NextEnd
  <2> QED BY <1>4, <2>1, <2>2
<1>7. /\ s + FrameSize = FrameSize * (k + 1) + 0 /\ FrameSize * (k + 1) \in Nat
      /\ (s + FrameSize) \div FrameSize = k + 1 /\ InFrame(s + FrameSize) = 0
  <2>1. FrameSize * (k + 1) = FrameSize * k + FrameSize /\ FrameSize * (k + 1) \in Nat /\ k + 1 \in Nat
    BY SizesAreNumbers, NextEnd
  <2>2. 0 \in 0 .. FrameSize - 1
    BY SizesAreNumbers
  <2>3. s + FrameSize = FrameSize * (k + 1) + 0
    BY <1>6, <2>1, SizesAreNumbers
  <2> QED BY <2>1, <2>2, <2>3, PlaceIs
<1>8. Head(chunk) = Flag /\ Last(chunk) = Flag
  <2>1. Head(chunk) = Flag
    BY <1>4, <1>5, <1>6, FlagsAreAtEnds
  <2>2. (s + FrameSize) - 1 \in Nat /\ ((s + FrameSize) - 1) + 1 = s + FrameSize
    BY <1>4, SizesAreNumbers
  <2> QED BY <1>5, <1>7, <2>1, <2>2, FlagsAreAtEnds
<1>9. buf' = chunk
  <2>1. Kept(link, chunk) = <<>>
    BY <1>5, <1>8, SizesAreNumbers DEF Kept
  <2>2. Joined(link, chunk) = chunk
    BY <1>5, <2>1 DEF Joined
  <2>3. Fits(chunk)
    BY <1>5 DEF Fits
  <2>4. buf' = Posted(link, chunk)
    BY <1>2, <1>3 DEF gprs_rx, chunk
  <2> QED BY <2>2, <2>3, <2>4 DEF Posted
<1>10. Last(mail').bytes = Stretch(s, s + FrameSize)
  <2>1. mail' = Append(mail, [link |-> link, bytes |-> buf'])
    BY <1>2, <1>3, <1>8 DEF gprs_rx, chunk
  <2>2. mail \in Seq(Mail)
    BY DEF TypeOK
  <2> DEFINE m == [link |-> link, bytes |-> buf']
  <2>3. m \in Mail
    BY <1>5, <1>9 DEF Mail
  <2>4. m.bytes = buf'
    OBVIOUS
  <2> HIDE DEF m
  <2>5. Last(Append(mail, m)) = m
    BY <2>2, <2>3 DEF Last
  <2> QED BY <1>5, <1>9, <2>1, <2>4, <2>5 DEF m
<1>11. Uncut(s) /\ FrameBefore(s) = k
  BY <1>6, SizesAreNumbers DEF Uncut, CutAtFlag, FrameBefore
<1>12. FramesIn(Stretch(s, s + FrameSize)) = FramesFrom(k, k + 1)
  <2>1. s <= s + FrameSize /\ s + FrameSize \in Nat
    BY <1>4, SizesAreNumbers
  <2> QED BY <1>5, <1>7, <1>11, <2>1, FramesOfStretch
<1>13. FramesFrom(k, k + 1) = <<k + 1>>
  BY DEF FramesFrom
<1> QED BY <1>4, <1>7, <1>10, <1>12, <1>13

(* The next frame that comes as one chunk is found, and nothing else with  *)
(* it, whatever was in the buffer (jt808.c:1847-1854).                     *)
THEOREM FreshFrameIsFound == Spec => FreshFrameIsHandled
<1>1. TypeOK /\ [Next]_vars
        => [\A link \in Links :
              InFrame(sent[link]) = 0 /\ sent'[link] = sent[link] + FrameSize
                /\ Len(mail) < MailSlots /\ FrameSize <= BufSize
              => FramesIn(Last(mail').bytes) = <<sent'[link] \div FrameSize>>]_vars
  BY FreshStep
<1> QED BY <1>1, FrameTypeInvariant, PTL DEF Spec, FreshFrameIsHandled
=============================================================================
