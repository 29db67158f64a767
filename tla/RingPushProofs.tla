--------------------------- MODULE RingPushProofs ---------------------------
(***************************************************************************)
(* For every ring size, header size, frame set and range of positions: the *)
(* lemmas about % and about wrapping uint32_t positions, and the proof     *)
(* that every step of tn_ringbuf_push keeps the invariant of RingBuf.      *)
(***************************************************************************)
EXTENDS RingBuf, TLAPS

-----------------------------------------------------------------------------
(* Arithmetic of %.                                                        *)

\* Division with remainder.
LEMMA ModDef ==
  ASSUME NEW n \in Nat \ {0}, NEW a \in Int
  PROVE  /\ a % n \in 0 .. n - 1
         /\ a \div n \in Int
         /\ a = n * (a \div n) + (a % n)
  OBVIOUS

\* The remainder is unique.
LEMMA ModUnique ==
  ASSUME NEW n \in Nat \ {0}, NEW q \in Int, NEW r \in 0 .. n - 1
  PROVE  (n * q + r) % n = r
<1> DEFINE a == n * q + r
           d == q - (a \div n)
<1>1. a % n \in 0 .. n - 1 /\ a \div n \in Int /\ a = n * (a \div n) + (a % n)
  BY ModDef
<1>2. d \in Int /\ n * d = (a % n) - r
  BY <1>1
<1> HIDE DEF d
<1>3. d = 0
  <2>1. CASE d >= 1
    <3>1. n * d >= n
      BY <2>1, <1>2
    <3> QED BY <3>1, <1>1, <1>2
  <2>2. CASE d <= -1
    <3>1. n * d <= -n
      BY <2>2, <1>2
    <3> QED BY <3>1, <1>1, <1>2
  <2> QED BY <2>1, <2>2, <1>2
<1> QED BY <1>1, <1>2, <1>3

\* A value in range is its own remainder.
LEMMA ModSmall ==
  ASSUME NEW n \in Nat \ {0}, NEW r \in 0 .. n - 1
  PROVE  r % n = r
  OBVIOUS

\* Multiples of the modulus do not matter.
LEMMA ModAddMul ==
  ASSUME NEW n \in Nat \ {0}, NEW a \in Int, NEW k \in Int
  PROVE  (a + n * k) % n = a % n
<1> DEFINE q == (a \div n) + k
           r == a % n
<1>1. r \in 0 .. n - 1 /\ a \div n \in Int /\ a = n * (a \div n) + r
  BY ModDef
<1>2. a + n * k = n * q + r /\ q \in Int
  BY <1>1
<1> HIDE DEF q, r
<1>3. (n * q + r) % n = r
  BY <1>1, <1>2, ModUnique
<1> QED BY <1>2, <1>3 DEF r

\* A summand may be reduced first.
LEMMA ModAdd ==
  ASSUME NEW n \in Nat \ {0}, NEW a \in Int, NEW b \in Int
  PROVE  ((a % n) + b) % n = (a + b) % n
<1> DEFINE k == a \div n
           c == (a % n) + b
<1>1. k \in Int /\ c \in Int /\ a + b = c + n * k
  BY ModDef
<1>2. (c + n * k) % n = c % n
  BY <1>1, ModAddMul, Zenon
<1> QED BY <1>1, <1>2

\* A subtrahend may be reduced first.
LEMMA ModSub ==
  ASSUME NEW n \in Nat \ {0}, NEW a \in Int, NEW b \in Int
  PROVE  (b - (a % n)) % n = (b - a) % n
<1> DEFINE k == a \div n
           c == b - a
<1>1. k \in Int /\ c \in Int /\ b - (a % n) = c + n * k
  BY ModDef
<1>2. (c + n * k) % n = c % n
  BY <1>1, ModAddMul, Zenon
<1> QED BY <1>1, <1>2

\* Two values less than the modulus apart have different remainders.
LEMMA ModDistinct ==
  ASSUME NEW n \in Nat \ {0}, NEW a \in Int, NEW b \in Int, a < b, b < a + n
  PROVE  a % n # b % n
<1> DEFINE q == (b \div n) - (a \div n)
<1>1. q \in Int /\ b - a = n * q + ((b % n) - (a % n))
  <2> DEFINE x == a \div n
             y == b \div n
  <2>1. /\ x \in Int /\ a = n * x + (a % n) /\ a % n \in Int
        /\ y \in Int /\ b = n * y + (b % n) /\ b % n \in Int
    BY ModDef
  <2> HIDE DEF x, y
  <2>2. n * (y - x) = n * y - n * x
    BY <2>1
  <2> QED BY <2>1, <2>2 DEF x, y
<1> HIDE DEF q
<1>2. SUFFICES ASSUME a % n = b % n
               PROVE  FALSE
  OBVIOUS
<1>3. n * q = b - a
  BY <1>1, <1>2, ModDef
<1>4. CASE q >= 1
  <2>1. n * q >= n
    BY <1>1, <1>4
  <2> QED BY <2>1, <1>3
<1>5. CASE q <= 0
  <2>1. n * q <= 0
    BY <1>1, <1>5
  <2> QED BY <2>1, <1>3
<1> QED BY <1>1, <1>4, <1>5

\* Reducing by a multiple of the modulus first changes nothing.
LEMMA ModMod ==
  ASSUME NEW m \in Nat \ {0}, NEW n \in Nat \ {0}, n % m = 0, NEW a \in Int
  PROVE  (a % n) % m = a % m
<1> DEFINE p == n \div m
           q == a \div n
           k == p * q
           c == a % n
<1>1. p \in Int /\ n = m * p
  BY ModDef
<1>2. q \in Int /\ c \in Int /\ a = c + n * q
  BY ModDef
<1>3. k \in Int /\ a = c + m * k
  <2>1. n * q = m * (p * q)
    BY <1>1, <1>2
  <2> QED BY <1>1, <1>2, <2>1
<1> HIDE DEF k, c
<1>4. (c + m * k) % m = c % m
  BY <1>2, <1>3, ModAddMul, Zenon
<1> QED BY <1>3, <1>4 DEF c

Pos == 0 .. W - 1

-----------------------------------------------------------------------------
(* Arithmetic of positions.                                                *)

\* The sizes of the ring and of its positions.
LEMMA WType == W \in Nat \ {0} /\ Cap \in Nat \ {0} /\ Cap < W
  BY RingAssumption

\* A position advanced by uint32_t arithmetic is a position.
LEMMA AdvanceType == ASSUME NEW p \in Int, NEW n \in Int PROVE Advance(p, n) \in Pos
  BY ModDef, WType DEF Advance, Pos

\* head and tail are subtracted as uint32_t: a distance is in range.
LEMMA DistanceType == ASSUME NEW h \in Int, NEW p \in Int PROVE Distance(h, p) \in Pos
  BY ModDef, WType DEF Distance, Pos

\* The masked position is an index of the storage.
LEMMA IndexType == ASSUME NEW p \in Int PROVE Index(p) \in 0 .. Cap - 1
  BY ModDef, WType DEF Index

\* Positions are integers.
LEMMA PosInt == Pos \subseteq Int
  BY WType DEF Pos

\* The distance of two positions, spelled out for the arithmetic solver.
LEMMA DistanceRange ==
  ASSUME NEW h \in Pos, NEW p \in Pos
  PROVE  Distance(h, p) \in 0 .. W - 1
<1>1. h \in Int /\ p \in Int
  BY PosInt
<1> QED BY <1>1, DistanceType DEF Pos

\* The cell of a byte of a record is inside the storage.
LEMMA CellType ==
  ASSUME NEW p \in Pos, NEW i \in Nat
  PROVE  Index(Advance(p, i)) \in 0 .. Cap - 1
<1>0. p \in Int /\ i \in Int
  BY PosInt
<1>1. Advance(p, i) \in Int
  BY <1>0, AdvanceType, PosInt, Zenon
<1> QED BY <1>1, IndexType, WType

\* Advancing a position moves it away from head, as long as it does not
\* go once around.
LEMMA DistanceAdvance ==
  ASSUME NEW h \in Pos, NEW p \in Pos, NEW n \in Nat, Distance(h, p) + n < W
  PROVE  Distance(h, Advance(p, n)) = Distance(h, p) + n
<1> DEFINE d == Distance(h, p)
           a == p + n
           b == -h
           c == p - h
<1>0. Distance(h, p) \in 0 .. W - 1
  BY WType, DistanceType DEF Pos
<1>1. a \in Int /\ b \in Int /\ c \in Int /\ d \in Int /\ n \in Int
  BY <1>0, WType DEF Pos
<1>7. a + b = c + n /\ d + n \in 0 .. W - 1
  BY <1>0, WType DEF Pos
<1>2. d = c % W
  BY DEF Distance
<1>3. Distance(h, Advance(p, n)) = ((a % W) + b) % W
  BY WType, ModDef DEF Distance, Advance, Pos
<1> HIDE DEF a, b, c, d
<1>4. ((a % W) + b) % W = (a + b) % W
  BY <1>1, ModAdd, WType, Zenon
<1>5. ((c % W) + n) % W = (c + n) % W
  BY <1>1, ModAdd, WType, Zenon
<1>6. (d + n) % W = d + n
  BY <1>7, ModSmall, WType
<1> QED BY <1>2, <1>3, <1>4, <1>5, <1>6, <1>7 DEF d

\* Advancing head brings every later position closer.
LEMMA AdvanceHead ==
  ASSUME NEW h \in Pos, NEW p \in Pos, NEW n \in Nat, n <= Distance(h, p)
  PROVE  Distance(Advance(h, n), p) = Distance(h, p) - n
<1> DEFINE d == Distance(h, p)
           a == h + n
           c == p - h
           m == -n
<1>0. Distance(h, p) \in 0 .. W - 1
  BY WType, DistanceType DEF Pos
<1>1. a \in Int /\ c \in Int /\ d \in Int /\ m \in Int /\ p \in Int
  BY <1>0, WType DEF Pos
<1>6. p - a = c + m /\ d + m \in 0 .. W - 1 /\ d + m = d - n
  BY <1>0, WType DEF Pos
<1>2. d = c % W /\ Distance(Advance(h, n), p) = (p - (a % W)) % W
  BY DEF Distance, Advance
<1> HIDE DEF a, c, d, m
<1>3. (p - (a % W)) % W = (p - a) % W
  BY <1>1, ModSub, WType, Zenon
<1>4. ((c % W) + m) % W = (c + m) % W
  BY <1>1, ModAdd, WType, Zenon
<1>5. (d + m) % W = d + m
  BY <1>6, ModSmall, WType
<1> QED BY <1>2, <1>3, <1>4, <1>5, <1>6 DEF d

\* Only head itself is at distance zero.
LEMMA DistanceZero ==
  ASSUME NEW h \in Pos, NEW p \in Pos
  PROVE  (Distance(h, p) = 0) <=> (h = p)
<1> DEFINE c == p - h
           e == c + W
<1>1. c \in Int /\ Distance(h, p) = c % W
  BY WType DEF Distance, Pos
<1>2. CASE p >= h
  BY <1>1, <1>2, ModSmall, WType DEF Pos
<1>3. CASE p < h
  <2>1. e \in 1 .. W - 1
    BY <1>3, WType DEF Pos
  <2>2. \A k \in Int : (c + W * k) % W = c % W
    BY <1>1, ModAddMul, WType, Zenon
  <2>3. e = c + W * 1
    BY WType, <1>1
  <2> HIDE DEF c, e
  <2>4. e % W = c % W
    BY <2>2, <2>3
  <2>5. e % W = e
    BY <2>1, ModSmall, WType
  <2>6. h # p
    BY <1>3, WType DEF Pos
  <2> QED BY <1>1, <2>1, <2>4, <2>5, <2>6
<1> QED BY <1>2, <1>3 DEF Pos

\* The storage index of a position depends on its distance from head only.
LEMMA IndexOfDistance ==
  ASSUME NEW h \in Pos, NEW p \in Pos, NEW i \in Nat
  PROVE  Index(Advance(p, i)) = (h + Distance(h, p) + i) % Cap
<1> DEFINE d == Distance(h, p)
           c == p - h
           a == p + i
           b == h + i
           e == h + d + i
<1>1. a \in Int /\ b \in Int /\ c \in Int /\ d \in Int /\ e \in Int
  BY WType, DistanceType DEF Pos
<1>6. c + b = a /\ d + b = e
  BY WType, DistanceType DEF Pos
<1>2. d = c % W /\ Index(Advance(p, i)) = (a % W) % Cap
  BY DEF Distance, Index, Advance
<1> HIDE DEF a, b, c, d, e
<1>3. (a % W) % Cap = a % Cap
  BY <1>1, ModMod, WType, WrapAssumption, Zenon
<1>4. (e % W) % Cap = e % Cap
  BY <1>1, ModMod, WType, WrapAssumption, Zenon
<1>5. ((c % W) + b) % W = (c + b) % W
  BY <1>1, ModAdd, WType, Zenon
<1> QED BY <1>1, <1>2, <1>3, <1>4, <1>5, <1>6 DEF d, e

\* Bytes less than the capacity apart never share a storage cell.
LEMMA IndexDistinct ==
  ASSUME NEW h \in Pos, NEW p \in Pos, NEW q \in Pos, NEW i \in Nat, NEW j \in Nat,
         Distance(h, p) + i < Distance(h, q) + j,
         Distance(h, q) + j < Distance(h, p) + i + Cap
  PROVE  Index(Advance(p, i)) # Index(Advance(q, j))
<1> DEFINE x == h + Distance(h, p) + i
           y == h + Distance(h, q) + j
<1>0. Distance(h, p) \in 0 .. W - 1 /\ Distance(h, q) \in 0 .. W - 1
  BY WType, DistanceType DEF Pos
<1>1. x \in Int /\ y \in Int /\ x < y /\ y < x + Cap
  BY <1>0, WType DEF Pos
<1>2. Index(Advance(p, i)) = x % Cap /\ Index(Advance(q, j)) = y % Cap
  BY IndexOfDistance
<1> HIDE DEF x, y
<1> QED BY <1>1, <1>2, ModDistinct, WType, Zenon

\* A byte of a record in front of tail does not share a cell with a byte
\* written behind tail, as long as both fit into the capacity.
LEMMA NoClash ==
  ASSUME NEW h \in Pos, NEW p \in Pos, NEW t \in Pos, NEW s \in Nat, NEW z \in Nat,
         Distance(h, p) + s <= Distance(h, t), Distance(h, t) + z <= Cap,
         NEW k \in 0 .. s - 1, NEW i \in 0 .. z - 1
  PROVE  Index(Advance(p, k)) # Index(Advance(t, i))
<1> DEFINE x == Distance(h, p)
           y == Distance(h, t)
<1>1. x \in 0 .. W - 1 /\ y \in 0 .. W - 1
  BY DistanceRange
<1>2. x + k < y + i /\ y + i < x + k + Cap /\ k \in Nat /\ i \in Nat
  <2> HIDE DEF x, y
  <2>1. x + s <= y /\ y + z <= Cap
    BY DEF x, y
  <2> QED BY <1>1, <2>1, WType
<1> QED BY <1>2, IndexDistinct
-----------------------------------------------------------------------------
(* Records and types.                                                      *)

\* A record is longer than its header and no longer than header and MTU.
LEMMA SizeType ==
  ASSUME NEW f \in Frame
  PROVE  /\ Size[f] \in Nat /\ Size[f] = Hdr + FrameLen[f]
         /\ FrameLen[f] \in 1 .. Mtu /\ Hdr \in Nat \ {0} /\ Mtu \in Nat
  BY FrameAssumption, RingAssumption DEF Size

\* Different frames have different bytes.
LEMMA RecordInjective ==
  ASSUME NEW f \in Frame, NEW g \in Frame, Record(f) = Record(g)
  PROVE  f = g
<1>1. 0 \in 0 .. Size[f] - 1 /\ 0 \in 0 .. Size[g] - 1
  BY SizeType
<1>2. Record(f)[0] = <<f, 0>> /\ Record(g)[0] = <<g, 0>>
  BY <1>1 DEF Record
<1> QED BY <1>2

\* The bytes of a record tell which frame it holds.
LEMMA DecodeRecord ==
  ASSUME NEW f \in Frame
  PROVE  Decode(Record(f)) = f
<1>1. \A g \in Frame : Record(f) = Record(g) => g = f
  BY RecordInjective
<1> QED BY <1>1 DEF Decode

StrongInv == TypeOK /\ RingInv /\ NoTornFrame

\* tn_ringbuf_init establishes the invariant.
LEMMA InitInv == Init => StrongInv
<1> SUFFICES ASSUME Init PROVE StrongInv
  OBVIOUS
<1>1. TypeOK
  BY FrameAssumption, RingAssumption DEF Init, TypeOK, Byte, Zero
<1>2. Distance(0, 0) = 0
  BY WType, DistanceZero DEF Pos
<1>3. RingInv
  BY <1>2, WType DEF Init, RingInv, QueueInv, ProducerInv, ConsumerInv
<1> QED BY <1>1, <1>3 DEF StrongInv, NoTornFrame, Init

\* An element of a sequence is what the sequence is over.
LEMMA SeqElement ==
  ASSUME NEW R, NEW s \in Seq(R), NEW i \in 1 .. Len(s)
  PROVE  s[i] \in R
  OBVIOUS

\* Facts of the current state that every step below needs.
LEMMA StateTypes ==
  ASSUME TypeOK
  PROVE  /\ head \in Pos /\ tail \in Pos /\ chead \in Pos /\ ctail \in Pos
         /\ \A i \in 1 .. Len(queue) : queue[i].pos \in Pos /\ queue[i].frame \in Frame
         /\ Len(queue) \in Nat
         /\ queue # <<>> => 1 \in 1 .. Len(queue) /\ Len(queue) \in 1 .. Len(queue)
<1>1. head \in Pos /\ tail \in Pos /\ chead \in Pos /\ ctail \in Pos
  BY DEF TypeOK, Pos
<1>2. queue \in Seq([pos : Pos, frame : Frame])
  BY DEF TypeOK, Pos
<1>3. Len(queue) \in Nat
  BY <1>2
<1>4. ASSUME NEW i \in 1 .. Len(queue) PROVE queue[i].pos \in Pos /\ queue[i].frame \in Frame
  <2>1. queue[i] \in [pos : Pos, frame : Frame]
    BY <1>2, SeqElement, Zenon
  <2> QED BY <2>1
<1>5. queue # <<>> => 1 \in 1 .. Len(queue) /\ Len(queue) \in 1 .. Len(queue)
  BY <1>2
<1> QED BY <1>1, <1>3, <1>4, <1>5

\* Passing the space check of tn_ringbuf_push keeps the invariant.
LEMMA PushStartInv ==
  ASSUME StrongInv, NEW f \in Frame, PushStart(f)
  PROVE  StrongInv'
<1>1. TypeOK'
  <2>1. 0 .. Size[f] - 1 \subseteq 0 .. Hdr + Mtu - 1
    BY SizeType
  <2> QED BY <2>1 DEF StrongInv, TypeOK, PushStart, cvars
<1>2. QueueInv'
  BY Zenon DEF StrongInv, RingInv, QueueInv, PushStart
<1>3. ProducerInv'
  <2>1. Distance(head, tail) \in 0 .. W - 1
    BY StateTypes, DistanceType DEF StrongInv, Pos
  <2>2. Distance(head, tail) + Size[f] <= Cap
    BY <2>1, SizeType, WType DEF PushStart, HasRoom
  <2> QED BY <2>2, SizeType DEF PushStart, ProducerInv
<1>4. ConsumerInv'
  BY DEF StrongInv, RingInv, ConsumerInv, PushStart, cvars
<1>5. NoTornFrame'
  BY DEF StrongInv, NoTornFrame, PushStart, cvars
<1> QED BY <1>1, <1>2, <1>3, <1>4, <1>5 DEF StrongInv, RingInv

\* Dropping a frame keeps the invariant.
LEMMA PushDropInv ==
  ASSUME StrongInv, NEW f \in Frame, PushDrop(f)
  PROVE  StrongInv'
<1>1. dropped' \in 0 .. StatW - 1
  BY ModDef, RingAssumption DEF StrongInv, TypeOK, PushDrop
<1>2. TypeOK'
  BY <1>1 DEF StrongInv, TypeOK, PushDrop, cvars, pvars
<1>3. RingInv'
  BY Zenon DEF StrongInv, RingInv, QueueInv, ProducerInv, ConsumerInv, PushDrop, cvars, pvars
<1>4. NoTornFrame'
  BY DEF StrongInv, NoTornFrame, PushDrop, cvars
<1> QED BY <1>2, <1>3, <1>4 DEF StrongInv

\* A byte written behind tail touches no published record.
LEMMA PushByteInv ==
  ASSUME StrongInv, NEW i \in ptodo, PushByte(i)
  PROVE  StrongInv'
<1> DEFINE U == Distance(head, tail)
           x == Index(Advance(tail, i))
<1>1. /\ pframe \in Frame /\ i \in 0 .. Size[pframe] - 1
      /\ U \in 0 .. W - 1 /\ U + Size[pframe] <= Cap /\ x \in 0 .. Cap - 1
      /\ head \in Pos /\ tail \in Pos /\ i \in Nat
  <2>1. pframe \in Frame /\ i \in 0 .. Size[pframe] - 1 /\ U + Size[pframe] <= Cap
    BY DEF StrongInv, RingInv, ProducerInv, PushByte
  <2>2. head \in Pos /\ tail \in Pos /\ U \in 0 .. W - 1
    BY StateTypes, DistanceType DEF StrongInv, Pos
  <2>3. x \in 0 .. Cap - 1
    BY <2>1, <2>2, SizeType, CellType
  <2> QED BY <2>1, <2>2, <2>3, SizeType
<1>2. /\ buf' = [buf EXCEPT ![x] = <<pframe, i>>]
      /\ UNCHANGED <<head, tail, queue>>
  BY DEF PushByte
<1>3. TypeOK'
  <2>1. <<pframe, i>> \in Byte
    BY <1>1, SizeType DEF Byte
  <2> QED BY <1>2, <2>1, Zenon DEF StrongInv, TypeOK, PushByte, cvars
<1>4. ASSUME NEW q \in 1 .. Len(queue), NEW k \in 0 .. Size[queue[q].frame] - 1
      PROVE  buf'[Index(Advance(queue[q].pos, k))] = <<queue[q].frame, k>>
  <2> DEFINE p == queue[q].pos
  <2>1. p \in Pos /\ queue[q].frame \in Frame /\ k \in Nat /\ p \in Int
    <3>1. queue[q].pos \in Pos /\ queue[q].frame \in Frame
      BY StateTypes DEF StrongInv
    <3>2. Size[queue[q].frame] \in Nat
      BY <3>1, SizeType, Zenon
    <3>3. k \in Nat
      BY <3>2
    <3>4. queue[q].pos \in Int
      BY <3>1, PosInt, Zenon
    <3> QED BY <3>1, <3>3, <3>4, Zenon
  <2>2. Distance(head, p) \in 0 .. W - 1
    BY <2>1, <1>1, DistanceRange, Zenon
  <2>3. /\ Distance(head, p) + Size[queue[q].frame] <= U
        /\ buf[Index(Advance(p, k))] = <<queue[q].frame, k>>
    BY Zenon DEF StrongInv, RingInv, QueueInv
  <2>4. Size[queue[q].frame] \in Nat /\ Size[pframe] \in Nat
    BY <1>1, <2>1, SizeType
  <2> HIDE DEF p
  <2>5. Index(Advance(p, k)) # x
    BY <1>1, <2>1, <2>3, <2>4, NoClash, Zenon
  <2>6. Index(Advance(p, k)) \in 0 .. Cap - 1
    BY <2>1, CellType, Zenon
  <2>7. buf'[Index(Advance(p, k))] = buf[Index(Advance(p, k))]
    BY <1>2, <2>5, <2>6 DEF StrongInv, TypeOK
  <2> QED BY <2>3, <2>7 DEF p
<1>5. QueueInv'
  <2>1. QueueInv
    BY DEF StrongInv, RingInv
  <2>2. /\ Distance(head', tail') <= Cap
        /\ queue' = <<>> => head' = tail'
        /\ queue' # <<>> =>
             /\ queue'[1].pos = head'
             /\ tail' = Advance(queue'[Len(queue')].pos, Size[queue'[Len(queue')].frame])
        /\ \A q \in 1 .. Len(queue') - 1 :
             queue'[q+1].pos = Advance(queue'[q].pos, Size[queue'[q].frame])
    BY <1>2, <2>1, Zenon DEF QueueInv
  <2>3. ASSUME NEW q \in 1 .. Len(queue')
        PROVE  /\ Distance(head', queue'[q].pos) + Size[queue'[q].frame] <= Distance(head', tail')
               /\ \A k \in 0 .. Size[queue'[q].frame] - 1 :
                    buf'[Index(Advance(queue'[q].pos, k))] = <<queue'[q].frame, k>>
               /\ \A j \in 1 .. Len(queue') : q < j =>
                    Distance(head', queue'[q].pos) + Size[queue'[q].frame]
                      <= Distance(head', queue'[j].pos)
    BY <1>2, <1>4, <2>1, Zenon DEF QueueInv
  <2> QED BY <2>2, <2>3, Zenon DEF QueueInv
<1>6. ASSUME NEW k \in (0 .. Size[pframe] - 1) \ (ptodo \ {i})
      PROVE  buf'[Index(Advance(tail, k))] = <<pframe, k>>
  <2>1. k \in Nat
    BY <1>1, SizeType
  <2>2. Index(Advance(tail, k)) \in 0 .. Cap - 1
    BY <1>1, <2>1, CellType
  <2>3. CASE k = i
    BY <1>1, <1>2, <2>3 DEF StrongInv, TypeOK
  <2>4. CASE k # i
    <3>1. buf[Index(Advance(tail, k))] = <<pframe, k>>
      BY <2>4 DEF StrongInv, RingInv, ProducerInv, PushByte
    <3>2. Index(Advance(tail, k)) # x
      <4> HIDE DEF U
      <4>1. CASE k < i
        <5>1. U + k < U + i /\ U + i < U + k + Cap
          BY <1>1, <2>1, <4>1, SizeType, WType
        <5> QED BY <1>1, <2>1, <5>1, IndexDistinct DEF U
      <4>2. CASE i < k
        <5>1. U + i < U + k /\ U + k < U + i + Cap
          BY <1>1, <2>1, <4>2, SizeType, WType
        <5> QED BY <1>1, <2>1, <5>1, IndexDistinct DEF U
      <4> QED BY <1>1, <2>1, <2>4, <4>1, <4>2
    <3> QED BY <1>2, <2>2, <3>1, <3>2 DEF StrongInv, TypeOK
  <2> QED BY <2>3, <2>4
<1>7. ProducerInv'
  BY <1>6 DEF StrongInv, RingInv, ProducerInv, PushByte
<1>8. ConsumerInv'
  BY DEF StrongInv, RingInv, ConsumerInv, PushByte, cvars
<1>9. NoTornFrame'
  BY DEF StrongInv, NoTornFrame, PushByte, cvars
<1> QED BY <1>3, <1>5, <1>7, <1>8, <1>9 DEF StrongInv, RingInv

\* The store of tail publishes a complete record.
LEMMA PushPublishInv ==
  ASSUME StrongInv, PushPublish
  PROVE  StrongInv'
<1> DEFINE U == Distance(head, tail)
           r == [pos |-> tail, frame |-> pframe]
           n == Len(queue)
           z == Size[pframe]
<1>1. /\ pframe \in Frame /\ z \in Nat /\ z > 0
      /\ head \in Pos /\ tail \in Pos /\ U \in 0 .. W - 1 /\ U + z <= Cap
      /\ \A i \in 0 .. z - 1 : buf[Index(Advance(tail, i))] = <<pframe, i>>
  <2>1. /\ pframe \in Frame /\ U + z <= Cap
        /\ \A i \in 0 .. z - 1 : buf[Index(Advance(tail, i))] = <<pframe, i>>
    BY DEF StrongInv, RingInv, ProducerInv, PushPublish
  <2>2. head \in Pos /\ tail \in Pos /\ U \in 0 .. W - 1
    BY StateTypes, DistanceRange DEF StrongInv
  <2> QED BY <2>1, <2>2, SizeType
<1>2. /\ tail' = Advance(tail, z) /\ queue' = Append(queue, r)
      /\ ppc' = "idle" /\ UNCHANGED <<buf, head, dropped, pframe, ptodo>>
      /\ UNCHANGED <<cpc, chead, ctail, ctodo, crec, out>>
  BY DEF PushPublish, cvars
<1>3. tail' \in Pos /\ Distance(head, tail') = U + z
  <2>1. tail \in Int /\ z \in Int
    BY <1>1, PosInt
  <2>2. U + z < W
    <3> HIDE DEF U, z
    <3> QED BY <1>1, WType
  <2> QED BY <2>2, <1>1, <1>2, <2>1, AdvanceType, DistanceAdvance
<1>4. /\ queue \in Seq([pos : Pos, frame : Frame]) /\ n \in Nat
      /\ r \in [pos : Pos, frame : Frame]
  BY <1>1 DEF StrongInv, TypeOK, Pos
<1> HIDE DEF r
<1>5. /\ queue' \in Seq([pos : Pos, frame : Frame]) /\ Len(queue') = n + 1
      /\ queue'[n + 1] = r /\ \A i \in 1 .. n : queue'[i] = queue[i]
  BY <1>2, <1>4
<1>6. TypeOK'
  BY <1>2, <1>3, <1>5 DEF StrongInv, TypeOK, Pos
<1>7. queue # <<>> => /\ n \in 1 .. n /\ queue[1].pos = head
                      /\ tail = Advance(queue[n].pos, Size[queue[n].frame])
  BY StateTypes DEF StrongInv, RingInv, QueueInv
<1>8. queue = <<>> => n = 0 /\ head = tail
  BY DEF StrongInv, RingInv, QueueInv
<1>9. r.pos = tail /\ r.frame = pframe
  BY DEF r
<1>10. QueueInv'
  <2>1. Distance(head', tail') <= Cap
    BY <1>1, <1>2, <1>3
  <2>2. queue' # <<>> /\ queue'[Len(queue')] = r
    BY <1>4, <1>5
  <2>3. queue'[1].pos = head'
    BY <1>2, <1>4, <1>5, <1>7, <1>8, <1>9
  <2>4. tail' = Advance(queue'[Len(queue')].pos, Size[queue'[Len(queue')].frame])
    BY <1>2, <1>9, <2>2
  <2>5. ASSUME NEW i \in 1 .. Len(queue') - 1
        PROVE  queue'[i+1].pos = Advance(queue'[i].pos, Size[queue'[i].frame])
    <3>1. i \in 1 .. n
      BY <1>4, <1>5
    <3>2. CASE i = n
      <4>1. queue # <<>>
        BY <3>1, <1>8
      <4> QED BY <3>1, <3>2, <4>1, <1>4, <1>5, <1>7, <1>9
    <3>3. CASE i # n
      <4>1. i \in 1 .. n - 1 /\ i + 1 \in 1 .. n
        BY <3>1, <3>3, <1>4
      <4>2. queue[i+1].pos = Advance(queue[i].pos, Size[queue[i].frame])
        BY <4>1 DEF StrongInv, RingInv, QueueInv
      <4> QED BY <3>1, <4>1, <4>2, <1>5
    <3> QED BY <3>2, <3>3
  <2>6. ASSUME NEW i \in 1 .. Len(queue')
        PROVE  /\ Distance(head, queue'[i].pos) + Size[queue'[i].frame]
                    <= Distance(head, tail')
               /\ \A k \in 0 .. Size[queue'[i].frame] - 1 :
                    buf[Index(Advance(queue'[i].pos, k))] = <<queue'[i].frame, k>>
               /\ \A j \in 1 .. Len(queue') : i < j =>
                    Distance(head, queue'[i].pos) + Size[queue'[i].frame]
                      <= Distance(head, queue'[j].pos)
    <3>1. CASE i = n + 1
      BY <1>1, <1>3, <1>4, <1>5, <1>9, <3>1
    <3>2. CASE i # n + 1
      <4>1. i \in 1 .. n /\ queue'[i] = queue[i]
        BY <1>4, <1>5, <3>2
      <4> DEFINE e == Distance(head, queue[i].pos) + Size[queue[i].frame]
      <4>2. /\ e <= U
            /\ \A k \in 0 .. Size[queue[i].frame] - 1 :
                 buf[Index(Advance(queue[i].pos, k))] = <<queue[i].frame, k>>
            /\ \A j \in 1 .. n : i < j => e <= Distance(head, queue[j].pos)
        BY <4>1, Zenon DEF StrongInv, RingInv, QueueInv
      <4>3. e \in Int
        <5>1. queue[i].pos \in Pos /\ queue[i].frame \in Frame
          BY <4>1, StateTypes DEF StrongInv
        <5>2. Distance(head, queue[i].pos) \in 0 .. W - 1
          BY <5>1, <1>1, DistanceRange
        <5>3. Size[queue[i].frame] \in Nat
          BY <5>1, SizeType
        <5> QED BY <5>2, <5>3, WType
      <4> HIDE DEF e
      <4>4. e <= Distance(head, tail')
        BY <1>1, <1>3, <4>2, <4>3
      <4>5. ASSUME NEW j \in 1 .. Len(queue'), i < j
            PROVE  e <= Distance(head, queue'[j].pos)
        <5>1. CASE j = n + 1
          <6>1. queue'[j].pos = tail
            BY <1>5, <1>9, <5>1
          <6> QED BY <4>2, <6>1
        <5>2. CASE j # n + 1
          <6>1. j \in 1 .. n /\ queue'[j] = queue[j]
            BY <1>4, <1>5, <5>2
          <6> QED BY <4>2, <4>5, <6>1
        <5> QED BY <5>1, <5>2
      <4> QED BY <4>1, <4>2, <4>4, <4>5 DEF e
    <3> QED BY <3>1, <3>2
  <2> QED BY <1>2, <2>1, <2>2, <2>3, <2>4, <2>5, <2>6, Zenon DEF QueueInv
<1>11. ProducerInv'
  BY <1>2 DEF ProducerInv
<1>12. ConsumerInv'
  <2>1. queue # <<>> => queue' # <<>> /\ queue'[1] = queue[1]
    BY <1>4, <1>5, <1>7
  <2> QED BY <1>2, <2>1, Zenon DEF StrongInv, RingInv, ConsumerInv
<1>13. NoTornFrame'
  BY <1>2 DEF StrongInv, NoTornFrame
<1> QED BY <1>6, <1>10, <1>11, <1>12, <1>13 DEF StrongInv, RingInv
=============================================================================
