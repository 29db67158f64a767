--------------------------- MODULE RingBufProofs ---------------------------
(***************************************************************************)
(* For every ring size, header size, frame set and range of positions: the *)
(* ring of RingBuf, on a core that keeps loads before later stores, never  *)
(* returns a torn frame and implements the bounded FIFO of RxQueue.        *)
(***************************************************************************)
EXTENDS RingPushProofs, SequenceTheorems

\* The snapshot of tail taken by tn_ringbuf_pop covers the oldest record.
LEMMA PopStartInv ==
  ASSUME StrongInv, PopStart
  PROVE  StrongInv'
<1>1. TypeOK'
  <2>1. 0 .. Hdr - 1 \subseteq 0 .. Hdr + Mtu - 1
    BY FrameAssumption, RingAssumption
  <2> QED BY <2>1 DEF StrongInv, TypeOK, PopStart, pvars
<1>2. QueueInv' /\ ProducerInv'
  BY Zenon DEF StrongInv, RingInv, QueueInv, ProducerInv, PopStart, pvars
<1>3. head \in Pos /\ tail \in Pos
  BY StateTypes DEF StrongInv
<1>4. queue # <<>>
  <2>1. Distance(head, tail) # 0
    BY RingAssumption DEF PopStart
  <2> QED BY <1>3, <2>1, DistanceZero DEF StrongInv, RingInv, QueueInv
<1>5. Distance(head, tail) >= Size[queue[1].frame]
  <2>1. 1 \in 1 .. Len(queue) /\ queue[1].frame \in Frame
    BY <1>4, StateTypes DEF StrongInv
  <2>2. /\ Distance(head, queue[1].pos) + Size[queue[1].frame] <= Distance(head, tail)
        /\ queue[1].pos = head
    BY <1>4, <2>1 DEF StrongInv, RingInv, QueueInv
  <2>3. Distance(head, head) = 0 /\ Size[queue[1].frame] \in Nat
    BY <1>3, <2>1, DistanceZero, SizeType
  <2>4. Distance(head, tail) \in 0 .. W - 1
    BY <1>3, DistanceRange
  <2> QED BY <2>2, <2>3, <2>4, WType
<1>6. ConsumerInv'
  <2>1. crec' = [i \in (0 .. Hdr - 1) \ ctodo' |-> <<queue'[1].frame, i>>]
    <3>1. (0 .. Hdr - 1) \ ctodo' = {}
      BY DEF PopStart
    <3> QED BY <3>1 DEF PopStart
  <2> QED BY <1>4, <1>5, <2>1 DEF PopStart, ConsumerInv
<1>7. NoTornFrame'
  BY DEF StrongInv, NoTornFrame, PopStart
<1> QED BY <1>1, <1>2, <1>6, <1>7 DEF StrongInv, RingInv

\* A byte of the oldest record is what the consumer reads.
LEMMA ReadsOldest ==
  ASSUME StrongInv, queue # <<>>, NEW i \in 0 .. Size[queue[1].frame] - 1
  PROVE  buf[Index(Advance(head, i))] = <<queue[1].frame, i>>
  BY StateTypes, Zenon DEF StrongInv, RingInv, QueueInv

\* Every byte read by the consumer belongs to the oldest record.
LEMMA PopByteInv ==
  ASSUME StrongInv, NEW i \in ctodo, PopByte(i)
  PROVE  StrongInv'
<1> DEFINE g == queue[1].frame
<1>1. cpc \in {"header", "payload"} /\ queue # <<>> /\ chead = head
  BY DEF StrongInv, RingInv, ConsumerInv, PopByte
<1>2. g \in Frame
  BY <1>1, StateTypes DEF StrongInv
<1>3. i \in 0 .. Size[g] - 1
  <2>1. cpc = "header" => i \in 0 .. Hdr - 1
    BY DEF StrongInv, RingInv, ConsumerInv
  <2>2. cpc = "payload" => i \in Hdr .. Size[g] - 1
    BY DEF StrongInv, RingInv, ConsumerInv
  <2> QED BY <1>1, <1>2, <2>1, <2>2, SizeType
<1>4. crec' = [j \in DOMAIN crec \cup {i} |-> IF j = i THEN <<g, i>> ELSE crec[j]]
  BY <1>1, <1>3, ReadsOldest DEF PopByte
<1>5. TypeOK'
  BY DEF StrongInv, TypeOK, PopByte, pvars
<1>6. QueueInv' /\ ProducerInv'
  BY Zenon DEF StrongInv, RingInv, QueueInv, ProducerInv, PopByte, pvars
<1>7. ctodo' = ctodo \ {i} /\ UNCHANGED <<cpc, chead, head, ctail, queue, out>>
  BY DEF PopByte
<1>8. ASSUME NEW S, i \in S, crec = [j \in S \ ctodo |-> <<g, j>>]
      PROVE  crec' = [j \in S \ ctodo' |-> <<g, j>>]
  <2>1. DOMAIN crec \cup {i} = S \ ctodo'
    BY <1>7, <1>8
  <2> QED BY <1>4, <1>8, <2>1
<1>9. ConsumerInv'
  <2>1. CASE cpc = "header"
    <3>1. ctodo \subseteq 0 .. Hdr - 1 /\ crec = [j \in (0 .. Hdr - 1) \ ctodo |-> <<g, j>>]
      BY <2>1 DEF StrongInv, RingInv, ConsumerInv
    <3>2. crec' = [j \in (0 .. Hdr - 1) \ ctodo' |-> <<g, j>>]
      BY <3>1, <1>8, Zenon
    <3> QED BY <1>1, <1>7, <2>1, <3>1, <3>2 DEF StrongInv, RingInv, ConsumerInv
  <2>2. CASE cpc = "payload"
    <3>1. /\ ctodo \subseteq Hdr .. Size[g] - 1
          /\ crec = [j \in (0 .. Size[g] - 1) \ ctodo |-> <<g, j>>]
      BY <2>2 DEF StrongInv, RingInv, ConsumerInv
    <3>2. crec' = [j \in (0 .. Size[g] - 1) \ ctodo' |-> <<g, j>>]
      BY <1>3, <3>1, <1>8, Zenon
    <3> QED BY <1>1, <1>7, <2>2, <3>1, <3>2 DEF StrongInv, RingInv, ConsumerInv
  <2> QED BY <1>1, <2>1, <2>2
<1>10. NoTornFrame'
  BY <1>7 DEF StrongInv, NoTornFrame
<1> QED BY <1>5, <1>6, <1>9, <1>10 DEF StrongInv, RingInv

\* With the header read, the decoded length is that of the oldest record and
\* neither defensive branch of pop is taken.
LEMMA HeaderIntact ==
  ASSUME StrongInv, cpc = "header", ctodo = {}
  PROVE  /\ queue # <<>> /\ queue[1].frame \in Frame
         /\ crec = [j \in 0 .. Hdr - 1 |-> <<queue[1].frame, j>>]
         /\ DeclaredLen(crec[0]) = {FrameLen[queue[1].frame]}
         /\ Distance(chead, ctail) \in Int
         /\ Distance(chead, ctail) >= Size[queue[1].frame]
<1>1. /\ queue # <<>> /\ Distance(chead, ctail) >= Size[queue[1].frame]
      /\ crec = [j \in (0 .. Hdr - 1) \ {} |-> <<queue[1].frame, j>>]
  BY DEF StrongInv, RingInv, ConsumerInv
<1>2. queue[1].frame \in Frame
  BY <1>1, StateTypes DEF StrongInv
<1>3. crec[0] = <<queue[1].frame, 0>>
  BY <1>1, RingAssumption
<1>4. DeclaredLen(crec[0]) = {FrameLen[queue[1].frame]}
  BY <1>2, <1>3 DEF DeclaredLen
<1>5. Distance(chead, ctail) \in 0 .. W - 1
  BY StateTypes, DistanceRange DEF StrongInv
<1>6. Distance(chead, ctail) \in Int
  BY <1>5, WType
<1>7. (0 .. Hdr - 1) \ {} = 0 .. Hdr - 1
  OBVIOUS
<1> QED BY <1>1, <1>2, <1>4, <1>6, <1>7, Zenon

\* After the header check the consumer goes on to the payload.
LEMMA PopCheckInv ==
  ASSUME StrongInv, PopCheck
  PROVE  StrongInv'
<1> DEFINE g == queue[1].frame
<1>1. /\ queue # <<>> /\ g \in Frame /\ DeclaredLen(crec[0]) = {FrameLen[g]}
      /\ crec = [j \in 0 .. Hdr - 1 |-> <<g, j>>]
      /\ Distance(chead, ctail) \in Int /\ Distance(chead, ctail) >= Size[g]
  BY HeaderIntact DEF PopCheck
<1>2. ~(FrameLen[g] > Mtu) /\ ~(Distance(chead, ctail) < Hdr + FrameLen[g])
  <2> HIDE DEF g
  <2> QED BY <1>1, SizeType
<1>3. /\ head' = head /\ cpc' = "payload" /\ ctodo' = Hdr .. Hdr + FrameLen[g] - 1
      /\ UNCHANGED <<buf, tail, dropped, ppc, pframe, ptodo, chead, ctail, crec, out, queue>>
  BY <1>1, <1>2 DEF PopCheck, pvars
<1>4. ctodo' = Hdr .. Size[g] - 1 /\ ctodo' \subseteq 0 .. Hdr + Mtu - 1
  <2>1. /\ Hdr \in Nat /\ Mtu \in Nat /\ FrameLen[g] \in 1 .. Mtu
        /\ Size[g] = Hdr + FrameLen[g]
    BY <1>1, SizeType
  <2> HIDE DEF g
  <2> QED BY <1>3, <2>1
<1>5. TypeOK'
  BY <1>3, <1>4 DEF StrongInv, TypeOK
<1>6. QueueInv' /\ ProducerInv'
  BY <1>3, Zenon DEF StrongInv, RingInv, QueueInv, ProducerInv
<1>7. ConsumerInv'
  <2>1. (0 .. Size[g] - 1) \ ctodo' = 0 .. Hdr - 1
    <3>1. Hdr \in Nat /\ Size[g] \in Nat /\ Hdr <= Size[g]
      BY <1>1, SizeType
    <3> HIDE DEF g
    <3> QED BY <1>4, <3>1
  <2>2. chead = head
    BY DEF StrongInv, RingInv, ConsumerInv, PopCheck
  <2> QED BY <1>1, <1>3, <1>4, <2>1, <2>2, Zenon DEF ConsumerInv
<1>8. NoTornFrame'
  BY <1>3, Zenon DEF StrongInv, NoTornFrame
<1> QED BY <1>5, <1>6, <1>7, <1>8 DEF StrongInv, RingInv

\* What the consumer has in hand when it is about to store head.
LEMMA PayloadRead ==
  ASSUME StrongInv, cpc = "payload", ctodo = {}
  PROVE  /\ queue # <<>> /\ queue[1].frame \in Frame /\ chead = head
         /\ crec = Record(queue[1].frame)
         /\ Hdr + FrameLen[crec[0][1]] = Size[queue[1].frame]
<1> DEFINE g == queue[1].frame
<1>1. queue # <<>> /\ chead = head /\ crec = [j \in (0 .. Size[g] - 1) \ {} |-> <<g, j>>]
  BY DEF StrongInv, RingInv, ConsumerInv
<1>2. g \in Frame
  BY <1>1, StateTypes DEF StrongInv
<1>3. 0 \in 0 .. Size[g] - 1
  BY <1>2, SizeType
<1>4. crec[0] = <<g, 0>>
  BY <1>1, <1>3
<1> QED BY <1>1, <1>2, <1>4, SizeType DEF Record

\* The store of head removes exactly the record that was read.
LEMMA PopStoreHeadInv ==
  ASSUME StrongInv, PopStoreHead, ~WeakOrder
  PROVE  StrongInv'
<1> DEFINE g == queue[1].frame
           z == Size[g]
           n == Len(queue)
<1>1. /\ cpc = "payload" /\ ctodo = {} /\ queue # <<>> /\ g \in Frame
      /\ crec = Record(g) /\ head' = Advance(head, z)
  BY PayloadRead DEF PopStoreHead
<1>2. /\ queue' = Tail(queue) /\ cpc' = "return"
      /\ UNCHANGED <<buf, tail, dropped, ppc, pframe, ptodo, chead, ctail, ctodo, crec, out>>
  BY DEF PopStoreHead, pvars
<1>3. /\ head \in Pos /\ tail \in Pos /\ z \in Nat /\ n \in Nat
      /\ \A i \in 1 .. n : queue[i].pos \in Pos /\ queue[i].frame \in Frame
      /\ queue \in Seq([pos : Pos, frame : Frame])
  <2>1. TypeOK
    BY DEF StrongInv
  <2>2. queue \in Seq([pos : Pos, frame : Frame])
    BY <2>1 DEF TypeOK, Pos
  <2>3. z \in Nat
    BY <1>1, SizeType, Zenon
  <2> HIDE DEF z
  <2> QED BY <2>1, <2>2, <2>3, StateTypes
<1>4. head' \in Pos
  <2>1. head \in Int /\ z \in Int
    BY <1>3, PosInt
  <2> QED BY <1>1, <2>1, AdvanceType
<1>5. /\ queue' \in Seq([pos : Pos, frame : Frame]) /\ Len(queue') = n - 1 /\ n >= 1
      /\ \A i \in 1 .. n - 1 : queue'[i] = queue[i+1]
  BY <1>1, <1>2, <1>3, HeadTailProperties, EmptySeq
<1>6. TypeOK'
  BY <1>2, <1>4, <1>5 DEF StrongInv, TypeOK, Pos
<1>7. /\ queue[1].pos = head /\ Distance(head, head) = 0
      /\ Distance(head, tail) \in 0 .. W - 1 /\ Distance(head, tail) <= Cap
      /\ z <= Distance(head, tail)
  <2>1. queue[1].pos = head /\ Distance(head, tail) <= Cap
    BY <1>1 DEF StrongInv, RingInv, QueueInv
  <2>2. Distance(head, head) = 0
    BY <1>3, DistanceZero
  <2>3. Distance(head, tail) \in 0 .. W - 1
    BY <1>3, DistanceRange
  <2>4. Distance(head, queue[1].pos) + z <= Distance(head, tail)
    BY <1>1, StateTypes DEF StrongInv, RingInv, QueueInv
  <2> QED BY <1>3, <2>1, <2>2, <2>3, <2>4
<1>8. Distance(head', tail) = Distance(head, tail) - z
  BY <1>1, <1>3, <1>7, AdvanceHead
<1>9. ASSUME NEW i \in 2 .. n
      PROVE  /\ Distance(head, queue[i].pos) \in 0 .. W - 1
             /\ Distance(head', queue[i].pos) = Distance(head, queue[i].pos) - z
  <2>1. queue[i].pos \in Pos /\ i \in 1 .. n /\ 1 \in 1 .. n /\ 1 < i
    BY <1>3
  <2>2. Distance(head, queue[i].pos) \in 0 .. W - 1
    BY <1>3, <2>1, DistanceRange, Zenon
  <2>3. Distance(head, queue[1].pos) + z <= Distance(head, queue[i].pos)
    BY <2>1 DEF StrongInv, RingInv, QueueInv
  <2>4. z <= Distance(head, queue[i].pos)
    BY <1>3, <1>7, <2>2, <2>3
  <2> QED BY <1>1, <1>3, <2>1, <2>2, <2>4, AdvanceHead
<1>10. QueueInv'
  <2>1. Distance(head', tail') <= Cap
    <3> HIDE DEF z
    <3> QED BY <1>2, <1>3, <1>7, <1>8, WType
  <2>2. CASE n = 1
    <3>1. queue' = <<>> /\ Len(queue') = 0
      BY <1>5, <2>2, EmptySeq
    <3>2. tail' = head'
      BY <1>1, <1>2, <1>7, <2>2 DEF StrongInv, RingInv, QueueInv
    <3>3. 1 .. Len(queue') = {} /\ 1 .. Len(queue') - 1 = {}
      BY <3>1
    <3> HIDE DEF z, n, g
    <3> QED BY <2>1, <3>1, <3>2, <3>3, Zenon DEF QueueInv
  <2>3. CASE n # 1
    <3>1. n >= 2 /\ Len(queue') \in 1 .. n - 1 /\ 1 \in 1 .. n - 1 /\ n - 1 \in Nat
      BY <1>3, <1>5, <2>3
    <3>2. queue' # <<>> /\ queue'[1] = queue[2] /\ queue'[Len(queue')] = queue[n]
      BY <1>3, <1>5, <3>1
    <3>3. queue'[1].pos = head'
      BY <1>1, <1>7, <3>1, <3>2 DEF StrongInv, RingInv, QueueInv
    <3>4. tail' = Advance(queue'[Len(queue')].pos, Size[queue'[Len(queue')].frame])
      BY <1>1, <1>2, <3>2, Zenon DEF StrongInv, RingInv, QueueInv
    <3>5. ASSUME NEW i \in 1 .. Len(queue') - 1
          PROVE  queue'[i+1].pos = Advance(queue'[i].pos, Size[queue'[i].frame])
      <4>1. i + 1 \in 1 .. n - 1 /\ i \in 1 .. n - 1
        BY <1>3, <1>5
      <4>2. queue'[i] = queue[i+1] /\ queue'[i+1] = queue[(i+1)+1]
        BY <1>5, <4>1
      <4>3. queue[(i+1)+1].pos = Advance(queue[i+1].pos, Size[queue[i+1].frame])
        BY <4>1 DEF StrongInv, RingInv, QueueInv
      <4> QED BY <4>2, <4>3
    <3>6. ASSUME NEW i \in 1 .. Len(queue')
          PROVE  /\ Distance(head', queue'[i].pos) + Size[queue'[i].frame]
                      <= Distance(head', tail')
                 /\ \A k \in 0 .. Size[queue'[i].frame] - 1 :
                      buf'[Index(Advance(queue'[i].pos, k))] = <<queue'[i].frame, k>>
                 /\ \A j \in 1 .. Len(queue') : i < j =>
                      Distance(head', queue'[i].pos) + Size[queue'[i].frame]
                        <= Distance(head', queue'[j].pos)
      <4> DEFINE d(j) == Distance(head, queue[j].pos)
                 s == Size[queue[i+1].frame]
      <4>1. /\ i \in 1 .. n - 1 /\ i + 1 \in 2 .. n /\ i + 1 \in 1 .. n
            /\ queue'[i] = queue[i+1]
        BY <1>3, <1>5
      <4>2. s \in Nat
        BY <1>3, <4>1, SizeType
      <4>3. d(i+1) \in 0 .. W - 1 /\ Distance(head', queue[i+1].pos) = d(i+1) - z
        BY <1>9, <4>1
      <4>4. d(i+1) + s <= Distance(head, tail)
        BY <4>1 DEF StrongInv, RingInv, QueueInv
      <4>5. Distance(head', queue[i+1].pos) + s <= Distance(head', tail')
        <5> HIDE DEF z, s, d
        <5> QED BY <1>2, <1>3, <1>7, <1>8, <4>2, <4>3, <4>4, WType
      <4>6. \A k \in 0 .. s - 1 :
               buf[Index(Advance(queue[i+1].pos, k))] = <<queue[i+1].frame, k>>
        BY <4>1, Zenon DEF StrongInv, RingInv, QueueInv
      <4>7. ASSUME NEW j \in 1 .. Len(queue'), i < j
            PROVE  Distance(head', queue[i+1].pos) + s <= Distance(head', queue'[j].pos)
        <5>1. /\ j + 1 \in 2 .. n /\ j + 1 \in 1 .. n /\ i + 1 < j + 1
              /\ queue'[j] = queue[j+1]
          BY <1>3, <1>5, <4>1, <4>7
        <5>2. d(j+1) \in 0 .. W - 1 /\ Distance(head', queue[j+1].pos) = d(j+1) - z
          BY <1>9, <5>1
        <5>3. d(i+1) + s <= d(j+1)
          BY <4>1, <5>1 DEF StrongInv, RingInv, QueueInv
        <5> HIDE DEF z, s, d
        <5>4. d(i+1) - z + s <= d(j+1) - z
          <6>1. d(i+1) \in Int /\ d(j+1) \in Int /\ z \in Int /\ s \in Int
            BY <1>3, <4>2, <4>3, <5>2, WType
          <6> QED BY <5>3, <6>1
        <5> QED BY <4>3, <5>1, <5>2, <5>4
      <4> QED BY <1>2, <4>1, <4>5, <4>6, <4>7
    <3> QED BY <2>1, <3>2, <3>3, <3>4, <3>5, <3>6, Zenon DEF QueueInv
  <2> QED BY <2>2, <2>3
<1>11. ProducerInv'
  <2>1. SUFFICES ASSUME ppc = "write"
                 PROVE  Distance(head', tail') + Size[pframe] <= Cap
    BY <1>2 DEF StrongInv, RingInv, ProducerInv
  <2>2. Distance(head, tail) + Size[pframe] <= Cap /\ pframe \in Frame
    BY <2>1 DEF StrongInv, RingInv, ProducerInv
  <2>3. Size[pframe] \in Nat
    BY <2>2, SizeType
  <2> HIDE DEF z
  <2> QED BY <1>2, <1>3, <1>7, <1>8, <2>2, <2>3, WType
<1>12. ConsumerInv'
  BY <1>1, <1>2 DEF ConsumerInv, Record
<1>13. NoTornFrame'
  BY <1>2 DEF StrongInv, NoTornFrame
<1> QED BY <1>6, <1>10, <1>11, <1>12, <1>13 DEF StrongInv, RingInv

\* pop returns the record it has read.
LEMMA PopReturnInv ==
  ASSUME StrongInv, PopReturn
  PROVE  StrongInv'
<1>1. TypeOK'
  BY DEF StrongInv, TypeOK, PopReturn, pvars
<1>2. RingInv'
  BY Zenon DEF StrongInv, RingInv, QueueInv, ProducerInv, ConsumerInv, PopReturn, pvars
<1>3. NoTornFrame'
  BY DEF StrongInv, RingInv, ConsumerInv, NoTornFrame, PopReturn, Record
<1> QED BY <1>1, <1>2, <1>3 DEF StrongInv
-----------------------------------------------------------------------------
(* The theorems.                                                           *)

\* Every step of producer or consumer keeps the invariant.
LEMMA NextInv == StrongInv /\ ~WeakOrder /\ [Next]_vars => StrongInv'
<1> SUFFICES ASSUME StrongInv, ~WeakOrder, [Next]_vars
             PROVE  StrongInv'
  OBVIOUS
<1>1. ASSUME NEW f \in Frame, PushStart(f) PROVE StrongInv'
  BY <1>1, PushStartInv
<1>2. ASSUME NEW f \in Frame, PushDrop(f) PROVE StrongInv'
  BY <1>2, PushDropInv
<1>3. ASSUME NEW i \in ptodo, PushByte(i) PROVE StrongInv'
  BY <1>3, PushByteInv
<1>4. CASE PushPublish
  BY <1>4, PushPublishInv
<1>5. CASE PopStart
  BY <1>5, PopStartInv
<1>6. ASSUME NEW i \in ctodo, PopByte(i) PROVE StrongInv'
  BY <1>6, PopByteInv
<1>7. CASE PopCheck
  BY <1>7, PopCheckInv
<1>8. CASE PopStoreHead
  BY <1>8, PopStoreHeadInv
<1>9. CASE PopReturn
  BY <1>9, PopReturnInv
<1>10. CASE UNCHANGED vars
  <2>1. TypeOK'
    BY <1>10, Zenon DEF vars, StrongInv, TypeOK
  <2>2. QueueInv'
    BY <1>10, Zenon DEF vars, StrongInv, RingInv, QueueInv
  <2>3. ProducerInv' /\ ConsumerInv'
    BY <1>10, Zenon DEF vars, StrongInv, RingInv, ProducerInv, ConsumerInv
  <2>4. NoTornFrame'
    BY <1>10, Zenon DEF vars, StrongInv, NoTornFrame
  <2> QED BY <2>1, <2>2, <2>3, <2>4 DEF StrongInv, RingInv
<1> QED
  BY <1>1, <1>2, <1>3, <1>4, <1>5, <1>6, <1>7, <1>8, <1>9, <1>10
     DEF Next, Producer, Consumer

\* The inductive invariant: between head and tail lie whole records back to
\* back, untouched by the push in progress behind them.
THEOREM Invariance == ~WeakOrder => (Spec => []StrongInv)
<1> SUFFICES ASSUME ~WeakOrder PROVE Spec => []StrongInv
  OBVIOUS
<1>1. StrongInv /\ [Next]_vars => StrongInv'
  BY NextInv
<1> QED BY <1>1, InitInv, PTL DEF Spec

\* Whole records lie back to back between head and tail, and producer and
\* consumer touch only what is theirs.
THEOREM RingInvariant == ~WeakOrder => (Spec => []RingInv)
<1>1. StrongInv => RingInv
  BY DEF StrongInv
<1> QED BY <1>1, Invariance, PTL

\* tn_ringbuf_pop never returns a torn or stale frame, whatever the
\* interleaving of the bytes copied by producer and consumer, also when the
\* positions wrap.
THEOREM PopIsIntact == ~WeakOrder => (Spec => []NoTornFrame)
<1>1. StrongInv => NoTornFrame
  BY DEF StrongInv
<1> QED BY <1>1, Invariance, PTL

\* The two defensive branches of tn_ringbuf_pop are never taken.
THEOREM PopNeverResyncs == ~WeakOrder => (Spec => []NoResync)
<1>1. StrongInv => NoResync
  BY HeaderIntact DEF NoResync
<1> QED BY <1>1, Invariance, PTL

\* The store of tail is the moment a frame is accepted.
LEMMA PublishAccepts ==
  ASSUME StrongInv, PushPublish
  PROVE  \E f \in Frame : Abstract!Accept(f)
<1> DEFINE U == Distance(head, tail)
           z == Size[pframe]
           r == [pos |-> tail, frame |-> pframe]
<1>1. pframe \in Frame /\ U + z <= Cap
  BY DEF StrongInv, RingInv, ProducerInv, PushPublish
<1>2. head \in Pos /\ tail \in Pos /\ z \in Nat /\ U \in 0 .. W - 1
  BY <1>1, StateTypes, DistanceRange, SizeType DEF StrongInv
<1>3. U + z < W
  <2> HIDE DEF U, z
  <2> QED BY <1>1, <1>2, WType
<1>4. U' = U + z
  BY <1>2, <1>3, DistanceAdvance DEF PushPublish
<1>5. queue \in Seq([pos : Pos, frame : Frame]) /\ r \in [pos : Pos, frame : Frame]
  BY <1>1, <1>2 DEF StrongInv, TypeOK, Pos
<1>6. /\ Len(queue') = Len(queue) + 1 /\ queue'[Len(queue) + 1] = r /\ Len(queue) \in Nat
      /\ \A i \in 1 .. Len(queue) : queue'[i] = queue[i]
  BY <1>5, AppendProperties DEF PushPublish
<1>7. Frames' = Append(Frames, pframe)
  <2>1. Frames \in Seq(Frame) /\ Len(Frames) = Len(queue)
    BY StateTypes, <1>6 DEF Frames, StrongInv
  <2>2. /\ Append(Frames, pframe) \in Seq(Frame)
        /\ Len(Append(Frames, pframe)) = Len(queue) + 1
        /\ \A i \in 1 .. Len(queue) : Append(Frames, pframe)[i] = Frames[i]
        /\ Append(Frames, pframe)[Len(queue) + 1] = pframe
    BY <2>1, <1>1, AppendProperties
  <2>3. ASSUME NEW i \in 1 .. Len(queue) + 1
        PROVE  /\ queue'[i].frame = Append(Frames, pframe)[i]
               /\ queue'[i].frame \in Frame
    <3>1. CASE i = Len(queue) + 1
      BY <1>1, <1>6, <2>2, <3>1
    <3>2. CASE i # Len(queue) + 1
      <4>1. i \in 1 .. Len(queue)
        BY <1>6, <3>2
      <4>2. queue[i].frame \in Frame
        BY <4>1, StateTypes DEF StrongInv
      <4> QED BY <1>6, <2>2, <4>1, <4>2 DEF Frames
    <3> QED BY <3>1, <3>2, Zenon
  <2>4. Frames' = [i \in 1 .. Len(queue) + 1 |-> queue'[i].frame]
    BY <1>6 DEF Frames
  <2>5. Frames' \in Seq(Frame) /\ Len(Frames') = Len(queue) + 1
    BY <2>3, <2>4, <1>6
  <2>6. \A i \in 1 .. Len(Frames') : Frames'[i] = Append(Frames, pframe)[i]
    BY <2>3, <2>4, <2>5, Zenon
  <2> QED BY <2>2, <2>5, <2>6, SeqEqual
<1>8. UNCHANGED <<cpc, crec, out, dropped>>
  BY DEF PushPublish, cvars
<1> QED BY <1>1, <1>4, <1>7, <1>8 DEF Abstract!Accept

\* The store of head is the moment a frame is delivered.
LEMMA StoreHeadDelivers ==
  ASSUME StrongInv, PopStoreHead, ~WeakOrder
  PROVE  Abstract!Deliver
<1> DEFINE g == queue[1].frame
           z == Size[g]
<1>1. /\ cpc = "payload" /\ ctodo = {} /\ queue # <<>> /\ g \in Frame
      /\ crec = Record(g) /\ head' = Advance(head, z)
  BY PayloadRead DEF PopStoreHead
<1>2. /\ queue' = Tail(queue) /\ cpc' = "return" /\ UNCHANGED <<tail, dropped, crec>>
  BY DEF PopStoreHead
<1>3. head \in Pos /\ tail \in Pos /\ z \in Nat /\ Distance(head, tail) \in 0 .. W - 1
  BY <1>1, StateTypes, DistanceRange, SizeType, Zenon DEF StrongInv
<1>4. Distance(head', tail') = Distance(head, tail) - z
  <2>1. Distance(head, queue[1].pos) + z <= Distance(head, tail) /\ queue[1].pos = head
    BY <1>1, StateTypes DEF StrongInv, RingInv, QueueInv
  <2>2. Distance(head, head) = 0
    BY <1>3, DistanceZero
  <2>3. z <= Distance(head, tail)
    BY <1>3, <2>1, <2>2
  <2> QED BY <1>1, <1>2, <1>3, <2>3, AdvanceHead
<1>5. queue \in Seq([pos : Pos, frame : Frame])
  BY DEF StrongInv, TypeOK, Pos
<1>6. /\ Len(queue') = Len(queue) - 1 /\ Len(queue) \in Nat \ {0}
      /\ \A i \in 1 .. Len(queue) - 1 : queue'[i] = queue[i+1]
  BY <1>1, <1>2, <1>5, HeadTailProperties, EmptySeq
<1>7. Frames \in Seq(Frame) /\ Len(Frames) = Len(queue) /\ Frames # <<>> /\ Head(Frames) = g
  BY StateTypes, <1>6 DEF Frames, StrongInv
<1>8. Frames' = Tail(Frames)
  <2>1. /\ Tail(Frames) \in Seq(Frame) /\ Len(Tail(Frames)) = Len(queue) - 1
        /\ \A i \in 1 .. Len(queue) - 1 : Tail(Frames)[i] = Frames[i+1]
    BY <1>7, HeadTailProperties
  <2>2. Frames' = [i \in 1 .. Len(queue) - 1 |-> queue'[i].frame]
    BY <1>6 DEF Frames
  <2>3. ASSUME NEW i \in 1 .. Len(queue) - 1
        PROVE  queue'[i].frame = Frames[i+1] /\ queue'[i].frame \in Frame
    <3>1. i + 1 \in 1 .. Len(queue)
      BY <1>6
    <3> QED BY <1>6, <3>1, StateTypes DEF Frames, StrongInv
  <2>4. Frames' \in Seq(Frame) /\ Len(Frames') = Len(queue) - 1
    BY <2>2, <2>3, <1>6
  <2>5. \A i \in 1 .. Len(Frames') : Frames'[i] = Tail(Frames)[i]
    BY <2>1, <2>2, <2>3, <2>4
  <2> QED BY <2>1, <2>4, <2>5, SeqEqual
<1>9. Decode(crec') = g
  BY <1>1, <1>2, DecodeRecord
<1> QED BY <1>1, <1>2, <1>4, <1>7, <1>8, <1>9 DEF Abstract!Deliver

\* The ring implements the bounded FIFO of whole frames: a record is accepted
\* by the store of tail and delivered by the store of head, and a frame is
\* dropped only when it really does not fit.
THEOREM RingImplementsFifo == ~WeakOrder => (Spec => ImplementsFifo)
<1> SUFFICES ASSUME ~WeakOrder PROVE Spec => ImplementsFifo
  OBVIOUS
<1>1. Init => Abstract!Init
  <2> SUFFICES ASSUME Init PROVE Abstract!Init
    OBVIOUS
  <2>1. Distance(head, tail) = 0
    BY WType, DistanceZero DEF Init, Pos
  <2>2. Frames = <<>>
    BY DEF Init, Frames
  <2>3. Decode(out) = NoFrame
    <3>1. ASSUME NEW f \in Frame PROVE Record(f) # out
      <4>1. 0 \in DOMAIN Record(f)
        BY SizeType DEF Record
      <4>2. 0 \notin DOMAIN out
        BY DEF Init
      <4> QED BY <4>1, <4>2
    <3> QED BY <3>1 DEF Decode
  <2> QED BY <2>1, <2>2, <2>3 DEF Abstract!Init, Init
<1>2. StrongInv /\ [Next]_vars => [Abstract!Next]_Abstract!vars
  <2> SUFFICES ASSUME StrongInv, [Next]_vars
               PROVE  [Abstract!Next]_Abstract!vars
    OBVIOUS
  <2> DEFINE O == Decode(IF cpc = "return" THEN crec ELSE out)
             U == Distance(head, tail)
  <2>1. ASSUME UNCHANGED <<head, tail, dropped, queue>>, O' = O
        PROVE  UNCHANGED Abstract!vars
    <3>1. UNCHANGED <<Frames, Distance(head, tail), dropped>>
      BY <2>1 DEF Frames
    <3> QED BY <2>1, <3>1 DEF Abstract!vars
  <2>2. ASSUME NEW f \in Frame, PushStart(f) PROVE UNCHANGED Abstract!vars
    BY <2>1, <2>2 DEF PushStart, cvars
  <2>3. ASSUME NEW f \in Frame, PushDrop(f) PROVE Abstract!Drop(f)
    <3>1. U \in 0 .. W - 1
      BY StateTypes, DistanceRange DEF StrongInv
    <3>2. U + Size[f] > Cap
      BY <2>3, <3>1, SizeType, WType DEF PushDrop, HasRoom
    <3>3. UNCHANGED <<Frames, U, O>> /\ dropped' = (dropped + 1) % StatW
      BY <2>3 DEF PushDrop, cvars, Frames
    <3> QED BY <3>2, <3>3 DEF Abstract!Drop
  <2>4. ASSUME NEW i \in ptodo, PushByte(i) PROVE UNCHANGED Abstract!vars
    BY <2>1, <2>4 DEF PushByte, cvars
  <2>5. CASE PushPublish
    BY <2>5, PublishAccepts DEF Abstract!Next
  <2>6. CASE PopStart
    BY <2>1, <2>6 DEF PopStart
  <2>7. ASSUME NEW i \in ctodo, PopByte(i) PROVE UNCHANGED Abstract!vars
    <3>1. cpc # "return" /\ cpc' # "return"
      BY <2>7 DEF PopByte, StrongInv, RingInv, ConsumerInv
    <3> QED BY <2>1, <2>7, <3>1 DEF PopByte
  <2>8. CASE PopCheck
    <3>1. head' = head /\ cpc' # "return"
      <4>1. /\ queue[1].frame \in Frame
            /\ DeclaredLen(crec[0]) = {FrameLen[queue[1].frame]}
        BY <2>8, HeaderIntact DEF PopCheck
      <4>2. ~(FrameLen[queue[1].frame] > Mtu)
        BY <4>1, SizeType
      <4> QED BY <2>8, <4>1, <4>2 DEF PopCheck
    <3> QED BY <2>1, <2>8, <3>1 DEF PopCheck
  <2>9. CASE PopStoreHead
    BY <2>9, StoreHeadDelivers DEF Abstract!Next
  <2>10. CASE PopReturn
    BY <2>1, <2>10 DEF PopReturn
  <2>11. CASE UNCHANGED vars
    BY <2>1, <2>11 DEF vars
  <2> QED
    BY <2>2, <2>3, <2>4, <2>5, <2>6, <2>7, <2>8, <2>9, <2>10, <2>11
       DEF Next, Producer, Consumer, Abstract!Next
<1> QED BY <1>1, <1>2, Invariance, PTL DEF Spec, ImplementsFifo, Abstract!Spec
=============================================================================
