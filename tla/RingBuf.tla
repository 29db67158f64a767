------------------------------ MODULE RingBuf ------------------------------
(***************************************************************************)
(* core/ringbuf.c: the lock-free single-producer single-consumer receive   *)
(* ring.  The producer is treenet_rx() in an interrupt or on another core, *)
(* the consumer is tn_rx_drain() in treenet_poll().  Every access to       *)
(* shared memory is a step of its own: one byte of a memcpy, in any order, *)
(* a load of head or tail, a store of head or tail.                        *)
(*                                                                         *)
(* A byte is the pair <<frame, offset>> of the record it was written for,  *)
(* so a torn or stale byte is recognisable.  Positions are uint32_t and    *)
(* wrap at W.                                                              *)
(***************************************************************************)
EXTENDS Integers, Sequences

CONSTANTS Frame,      \* frames the radio may hand over
          FrameLen,   \* FrameLen[f]: meta->len
          Mtu,        \* TREENET_MTU
          Hdr,        \* TN_RX_HDR, bytes of the record header
          Cap,        \* rb->capacity, a power of two
          W,          \* 2^32, the range of head and tail
          StatW,      \* 2^32, the range of the statistics counter dropped
          WeakOrder,  \* TRUE: a core that may complete a load after a later store
          NoFrame     \* nothing delivered yet

ASSUME FrameAssumption ==
  /\ Mtu \in Nat
  /\ FrameLen \in [Frame -> 1..Mtu]      \* treenet_rx rejects the other lengths
  /\ NoFrame \notin Frame
ASSUME RingAssumption ==
  /\ Hdr \in Nat \ {0}
  /\ Cap \in Nat \ {0}
  /\ W \in Nat /\ StatW \in Nat \ {0}
  /\ Cap < W
ASSUME WrapAssumption == W % Cap = 0
ASSUME OrderAssumption == WeakOrder \in BOOLEAN

VARIABLES
  buf,       \* rb->buf, the storage
  head,      \* rb->head, written by the consumer only
  tail,      \* rb->tail, written by the producer only
  dropped,   \* rb->dropped
  ppc,       \* producer: "idle" or "write"
  pframe,    \* producer: the frame being pushed
  ptodo,     \* producer: offsets of the record still to be written
  cpc,       \* consumer: "idle", "header", "payload" or "return"
  chead,     \* consumer: its copy of head
  ctail,     \* consumer: its snapshot of tail
  ctodo,     \* consumer: offsets of the record still to be read
  crec,      \* consumer: bytes read so far, by offset
  out,       \* bytes returned by the last successful pop
  queue      \* ghost: published and not yet consumed records, oldest first

pvars == <<ppc, pframe, ptodo>>
cvars == <<cpc, chead, ctail, ctodo, crec, out>>
vars == <<buf, head, tail, dropped, ppc, pframe, ptodo,
          cpc, chead, ctail, ctodo, crec, out, queue>>

Size == [f \in Frame |-> Hdr + FrameLen[f]]
Record(f) == [i \in 0 .. Size[f] - 1 |-> <<f, i>>]
Zero == <<NoFrame, 0>>                    \* a byte of the zeroed storage
Byte == ((Frame \cup {NoFrame}) \X (0 .. Hdr + Mtu - 1))

\* Mutant: positions that do not wrap.
AdvanceNoWrap(pos, n) == pos + n

\* uint32_t arithmetic on positions, and the storage index of a position.
Advance(pos, n) == (pos + n) % W
Distance(from, to) == (to - from) % W
Index(pos) == pos % Cap

Init ==
  /\ buf = [i \in 0 .. Cap - 1 |-> Zero]
  /\ head = 0 /\ tail = 0 /\ dropped = 0
  /\ ppc = "idle" /\ pframe = NoFrame /\ ptodo = {}
  /\ cpc = "idle" /\ chead = 0 /\ ctail = 0 /\ ctodo = {}
  /\ crec = [i \in {} |-> Zero] /\ out = [i \in {} |-> Zero]
  /\ queue = <<>>
-----------------------------------------------------------------------------
(* The producer: tn_ringbuf_push.                                          *)

\* Mutants: the space check forgets the header, or never fills the ring.
HasRoomNoHeader(f) == Cap - Distance(head, tail) >= FrameLen[f]
HasRoomStrict(f) == Cap - Distance(head, tail) > Size[f]

\* The snapshot of head leaves room for the record.
HasRoom(f) == Cap - Distance(head, tail) >= Size[f]

PushStart(f) ==
  /\ ppc = "idle"
  /\ HasRoom(f)
  /\ ppc' = "write" /\ pframe' = f /\ ptodo' = 0 .. Size[f] - 1
  /\ UNCHANGED <<buf, head, tail, dropped, cvars, queue>>

PushDrop(f) ==
  /\ ppc = "idle"
  /\ ~HasRoom(f)
  /\ dropped' = (dropped + 1) % StatW
  /\ UNCHANGED <<buf, head, tail, pvars, cvars, queue>>

\* One byte of ring_write_at.
PushByte(i) ==
  /\ ppc = "write" /\ i \in ptodo
  /\ buf' = [buf EXCEPT ![Index(Advance(tail, i))] = <<pframe, i>>]
  /\ ptodo' = ptodo \ {i}
  /\ UNCHANGED <<head, tail, dropped, ppc, pframe, cvars, queue>>

\* Mutant: tail is stored before the bytes are written.
PushPublishEarly ==
  /\ ppc = "write"
  /\ tail' = Advance(tail, Size[pframe])
  /\ queue' = Append(queue, [pos |-> tail, frame |-> pframe])
  /\ ppc' = "idle"
  /\ UNCHANGED <<buf, head, dropped, pframe, ptodo, cvars>>

\* TN_PUBLISH() keeps the store of tail behind the bytes.
PushPublish ==
  /\ ppc = "write" /\ ptodo = {}
  /\ tail' = Advance(tail, Size[pframe])
  /\ queue' = Append(queue, [pos |-> tail, frame |-> pframe])
  /\ ppc' = "idle"
  /\ UNCHANGED <<buf, head, dropped, pframe, ptodo, cvars>>
-----------------------------------------------------------------------------
(* The consumer: tn_ringbuf_pop.                                           *)

\* An empty ring makes pop return false and changes nothing.
PopStart ==
  /\ cpc = "idle"
  /\ Distance(head, tail) >= Hdr
  /\ cpc' = "header" /\ chead' = head /\ ctail' = tail /\ ctodo' = 0 .. Hdr - 1
  /\ crec' = [i \in {} |-> Zero]
  /\ UNCHANGED <<buf, head, tail, dropped, pvars, out, queue>>

\* One byte of ring_read_at.
PopByte(i) ==
  /\ cpc \in {"header", "payload", "return"} /\ i \in ctodo
  /\ crec' = [j \in DOMAIN crec \cup {i} |->
                IF j = i THEN buf[Index(Advance(chead, i))] ELSE crec[j]]
  /\ ctodo' = ctodo \ {i}
  /\ UNCHANGED <<buf, head, tail, dropped, pvars, cpc, chead, ctail, out, queue>>

\* meta->len as decoded from the header.  The first byte of a record tells
\* its length; any other byte in its place decodes to anything.
DeclaredLen(b) ==
  IF b[1] \in Frame /\ b[2] = 0 THEN {FrameLen[b[1]]} ELSE 0 .. Mtu + 1

\* Mutant: a record that reaches up to tail is taken for unpublished.
PopCheckOffByOne ==
  /\ cpc = "header" /\ ctodo = {}
  /\ \E n \in DeclaredLen(crec[0]) :
       /\ head' = IF n > Mtu THEN ctail ELSE head
       /\ IF n > Mtu \/ Distance(chead, ctail) <= Hdr + n
            THEN cpc' = "idle" /\ UNCHANGED ctodo
            ELSE cpc' = "payload" /\ ctodo' = Hdr .. Hdr + n - 1
  /\ UNCHANGED <<buf, tail, dropped, pvars, chead, ctail, crec, out, queue>>

\* The tests on the decoded length: resynchronise, give up, or go on.  A
\* resynchronisation leaves the skipped records in the ghost queue: they were
\* published and are never delivered.
PopCheck ==
  /\ cpc = "header" /\ ctodo = {}
  /\ \E n \in DeclaredLen(crec[0]) :
       /\ head' = IF n > Mtu THEN ctail ELSE head
       /\ IF n > Mtu \/ Distance(chead, ctail) < Hdr + n
            THEN cpc' = "idle" /\ UNCHANGED ctodo
            ELSE cpc' = "payload" /\ ctodo' = Hdr .. Hdr + n - 1
  /\ UNCHANGED <<buf, tail, dropped, pvars, chead, ctail, crec, out, queue>>

\* Mutant: head is stored before the payload is copied.
PopStoreHeadEarly ==
  /\ cpc = "payload"
  /\ head' = Advance(chead, Hdr + FrameLen[crec[0][1]])
  /\ queue' = Tail(queue)
  /\ cpc' = "return"
  /\ UNCHANGED <<buf, tail, dropped, pvars, chead, ctail, ctodo, crec, out>>

\* TN_BARRIER() restrains the compiler only: a weakly ordered core may make
\* the store of head visible before the loads of the payload are done.
PopStoreHead ==
  /\ cpc = "payload"
  /\ WeakOrder \/ ctodo = {}
  /\ head' = Advance(chead, Hdr + FrameLen[crec[0][1]])
  /\ queue' = Tail(queue)
  /\ cpc' = "return"
  /\ UNCHANGED <<buf, tail, dropped, pvars, chead, ctail, ctodo, crec, out>>

PopReturn ==
  /\ cpc = "return" /\ ctodo = {}
  /\ out' = crec
  /\ cpc' = "idle"
  /\ UNCHANGED <<buf, head, tail, dropped, pvars, chead, ctail, ctodo, crec,
                 queue>>
-----------------------------------------------------------------------------
Producer ==
  \/ \E f \in Frame : PushStart(f) \/ PushDrop(f)
  \/ \E i \in ptodo : PushByte(i)
  \/ PushPublish

Consumer ==
  \/ PopStart \/ PopCheck \/ PopStoreHead \/ PopReturn
  \/ \E i \in ctodo : PopByte(i)

Next == Producer \/ Consumer

Spec == Init /\ [][Next]_vars

\* treenet_poll keeps being called; nothing is assumed of the producer, which
\* may stop in the middle of a push.
FairSpec == Spec /\ WF_vars(Consumer)
-----------------------------------------------------------------------------
TypeOK ==
  /\ buf \in [0 .. Cap - 1 -> Byte]
  /\ head \in 0 .. W - 1 /\ tail \in 0 .. W - 1 /\ dropped \in 0 .. StatW - 1
  /\ ppc \in {"idle", "write"} /\ pframe \in Frame \cup {NoFrame}
  /\ ptodo \subseteq 0 .. Hdr + Mtu - 1
  /\ cpc \in {"idle", "header", "payload", "return"}
  /\ chead \in 0 .. W - 1 /\ ctail \in 0 .. W - 1
  /\ ctodo \subseteq 0 .. Hdr + Mtu - 1
  /\ queue \in Seq([pos : 0 .. W - 1, frame : Frame])

\* A frame handed to the application by pop is, byte for byte, a frame that
\* was pushed: no byte of it is stale, torn or overwritten by the producer.
NoTornFrame ==
  out = [i \in {} |-> Zero] \/ \E f \in Frame : out = Record(f)

\* The two defensive branches of pop are dead code: a header read by the
\* consumer is the header of the oldest published record, whose length is in
\* range and whose bytes are all behind the snapshot of tail.
NoResync ==
  cpc = "header" /\ ctodo = {} =>
    /\ queue # <<>>
    /\ DeclaredLen(crec[0]) = {FrameLen[queue[1].frame]}
    /\ Distance(chead, ctail) >= Size[queue[1].frame]

\* The positions wrap and the producer works with an old value of head, yet
\* the published records lie back to back between head and tail, within the
\* capacity, with every byte in place ...
QueueInv ==
  /\ Distance(head, tail) <= Cap
  /\ queue = <<>> => head = tail
  /\ queue # <<>> =>
       /\ queue[1].pos = head
       /\ tail = Advance(queue[Len(queue)].pos, Size[queue[Len(queue)].frame])
  /\ \A i \in 1 .. Len(queue) - 1 :
       queue[i+1].pos = Advance(queue[i].pos, Size[queue[i].frame])
  /\ \A i \in 1 .. Len(queue) :
       /\ Distance(head, queue[i].pos) + Size[queue[i].frame] <= Distance(head, tail)
       /\ \A k \in 0 .. Size[queue[i].frame] - 1 :
            buf[Index(Advance(queue[i].pos, k))] = <<queue[i].frame, k>>
       /\ \A j \in 1 .. Len(queue) : i < j =>
            Distance(head, queue[i].pos) + Size[queue[i].frame]
              <= Distance(head, queue[j].pos)

\* ... the record being pushed fits behind them ...
ProducerInv ==
  ppc = "write" =>
    /\ pframe \in Frame
    /\ ptodo \subseteq 0 .. Size[pframe] - 1
    /\ Distance(head, tail) + Size[pframe] <= Cap
    /\ \A i \in (0 .. Size[pframe] - 1) \ ptodo :
         buf[Index(Advance(tail, i))] = <<pframe, i>>

\* ... and what the consumer has read so far are bytes of the oldest record,
\* all of which is behind its snapshot of tail.
ConsumerInv ==
  /\ cpc \in {"header", "payload"} =>
       /\ queue # <<>> /\ chead = head
       /\ Distance(chead, ctail) >= Size[queue[1].frame]
  /\ cpc = "header" =>
       /\ ctodo \subseteq 0 .. Hdr - 1
       /\ crec = [i \in (0 .. Hdr - 1) \ ctodo |-> <<queue[1].frame, i>>]
  /\ cpc = "payload" =>
       /\ ctodo \subseteq Hdr .. Size[queue[1].frame] - 1
       /\ crec = [i \in (0 .. Size[queue[1].frame] - 1) \ ctodo |->
                     <<queue[1].frame, i>>]
  /\ cpc = "return" => ctodo = {} /\ \E f \in Frame : crec = Record(f)

RingInv == QueueInv /\ ProducerInv /\ ConsumerInv

\* The ring implements the bounded FIFO of whole frames.  A frame counts as
\* delivered once the store of head has freed its bytes.
Decode(r) == IF \E f \in Frame : r = Record(f)
             THEN CHOOSE f \in Frame : r = Record(f) ELSE NoFrame
Frames == [i \in 1 .. Len(queue) |-> queue[i].frame]
Abstract == INSTANCE RxQueue WITH
  queue <- Frames,
  used <- Distance(head, tail),
  out <- Decode(IF cpc = "return" THEN crec ELSE out)
ImplementsFifo == Abstract!Spec

\* Every published frame is delivered, even if the producer stops for ever in
\* the middle of its next push.
EveryFrameDelivered ==
  \A f \in Frame : (queue # <<>> /\ queue[1].frame = f) ~> (out = Record(f))
=============================================================================
