------------------------- MODULE RoutingNodeLemmas -------------------------
(***************************************************************************)
(* Lemmas on the operations of one node (module RoutingNode), for every    *)
(* table size, set of neighbours, clock and timeout.                       *)
(***************************************************************************)
EXTENDS RoutingNode, RoutingProofs

Address == Addr \cup {Invalid}
EventRecord == [ev : EventName, arg : Address]

\* A sound neighbour table: entries in use have addresses, each its own.
TableOK(tbl) ==
  /\ tbl \in [Slot -> Entry]
  /\ \A i \in Slot : tbl[i].valid => tbl[i].addr \in Addr
  /\ \A i, j \in Slot : tbl[i].valid /\ tbl[j].valid /\ tbl[i].addr = tbl[j].addr => i = j

\* Rank r is above what the table has for neighbour a.
Above(tbl, a, r) ==
  \A i \in Slot : tbl[i].valid /\ a # Invalid /\ tbl[i].addr = a => r > tbl[i].rank

\* The inductive invariant.  That a node with a parent has a positive rank is
\* what saves RankAboveParent when the parent's entry is evicted and created
\* again, with rank 0.
Inv ==
  /\ TypeOK /\ TableOK(nbr)
  /\ StateConsistent
  /\ parent # Invalid => rank > 0
  /\ Above(nbr, parent, rank)
  /\ ParentAlive /\ DaoFollowsParent

-----------------------------------------------------------------------------
(* The clock and the event queue.                                          *)

\* Clock arithmetic stays within the clock.
LEMMA TimeType ==
  ASSUME NEW a \in Time, NEW n \in Nat
  PROVE  later(a, n) \in Time
BY TimeAssumption DEF Time, later

\* No time passes within an instant.
LEMMA NoTimeAtAll == ASSUME NEW a \in Time PROVE tn_elapsed(a, a) = 0
BY TimeAssumption DEF Time, tn_elapsed

\* The events of a decision, as records.
LEMMA RaisedType ==
  ASSUME NEW o, o.events \in Raisable, o.parent \in Address
  PROVE  raised(o) \in Seq(EventRecord)
<1> DEFINE f == raised(o)
<1>1. PICK n \in Nat : /\ DOMAIN o.events = 1 .. n
                       /\ \A k \in 1 .. n : o.events[k] \in EventName
  <2>1. CASE o.events = <<>>
    BY <2>1
  <2>2. CASE o.events = <<"JOINED", "NETWORK_READY">>
    BY <2>2 DEF EventName
  <2>3. CASE o.events = <<"PARENT_CHANGED">>
    BY <2>3 DEF EventName
  <2>4. CASE o.events = <<"ROUTE_LOST">>
    BY <2>4 DEF EventName
  <2> QED BY <2>1, <2>2, <2>3, <2>4 DEF Raisable
<1>2. f \in [1 .. n -> EventRecord]
  BY <1>1 DEF raised, EventRecord, Address
<1> QED BY <1>2

\* tn_emit_event never holds more than TREENET_EVENT_QUEUE_SIZE events.
LEMMA EmitType ==
  ASSUME TypeOK, NEW list \in Seq(EventRecord), EmitEvents(list)
  PROVE  /\ events' \in Seq(EventRecord) /\ Len(events') <= EvQ
         /\ dropped' \in BOOLEAN
<1> DEFINE all == events \o list
           over == IF Len(all) > EvQ THEN Len(all) - EvQ ELSE 0
<1>1. events \in Seq(EventRecord) /\ EvQ \in Nat
  BY NodeAssumption DEF TypeOK, EventRecord, Address
<1>2. all \in Seq(EventRecord) /\ Len(all) \in Nat
  BY <1>1
<1>3. events' = SubSeq(all, over + 1, Len(all)) /\ dropped' \in BOOLEAN
  BY DEF EmitEvents
<1> HIDE DEF all
<1>4. over \in Nat /\ Len(all) - over <= EvQ /\ over <= Len(all)
  BY <1>1, <1>2
<1> HIDE DEF over
<1>5. SubSeq(all, over + 1, Len(all)) \in Seq(EventRecord)
  BY <1>2, <1>4
<1>6. Len(SubSeq(all, over + 1, Len(all))) <= EvQ
  BY <1>1, <1>2, <1>4
<1> QED BY <1>3, <1>5, <1>6
-----------------------------------------------------------------------------
(* The neighbour table.                                                    *)

\* tn_neighbor_note_frame keeps the table sound.  Only the slot of the sender
\* changes, and its rank is what it was, or 0 if the entry is new.
LEMMA NoteFrame ==
  ASSUME TypeOK, TableOK(nbr), NEW a \in Addr, NEW c \in Cost,
         NEW i \in slot_for(nbr, a), NEW tbl, tbl = tn_neighbor_note_frame(nbr, i, a, c)
  PROVE  /\ i \in Slot /\ TableOK(tbl) /\ tbl[i].valid /\ tbl[i].addr = a
         /\ \A j \in Slot \ {i} : tbl[j] = nbr[j]
         /\ \/ tbl[i].rank = 0
            \/ nbr[i].valid /\ nbr[i].addr = a /\ tbl[i].rank = nbr[i].rank
<1>1. i \in Slot /\ c \in Nat /\ now \in Time /\ 0 \in Time
  BY NodeAssumption, TimeAssumption
     DEF slot_for, tn_neighbor_find, neighbor_oldest, TypeOK, Time
<1>2. CASE tn_neighbor_find(nbr, a) # {}
  <2>1. i \in tn_neighbor_find(nbr, a)
    BY <1>2 DEF slot_for
  <2>2. tbl = [nbr EXCEPT ![i] = [nbr[i] EXCEPT !.last_seen = now, !.link_cost = c]]
    BY <1>1, <1>2, Zenon DEF tn_neighbor_note_frame, get_or_create, TableOK, Entry
  <2>3. nbr[i] \in Entry /\ nbr[i].valid /\ nbr[i].addr = a
    BY <1>1, <2>1 DEF TableOK, tn_neighbor_find
  <2> DEFINE e == [nbr[i] EXCEPT !.last_seen = now, !.link_cost = c]
  <2>4. e \in Entry /\ e.valid /\ e.addr = a /\ e.rank = nbr[i].rank
    BY <1>1, <2>3, Zenon DEF Entry
  <2> HIDE DEF e
  <2>5. /\ tbl \in [Slot -> Entry] /\ tbl[i] = e
        /\ \A j \in Slot \ {i} : tbl[j] = nbr[j]
    BY <1>1, <2>2, <2>4 DEF TableOK, e
  <2>6. TableOK(tbl)
    BY <2>3, <2>4, <2>5 DEF TableOK
  <2> QED BY <1>1, <2>3, <2>4, <2>5, <2>6
<1>3. CASE tn_neighbor_find(nbr, a) = {}
  <2> DEFINE b == [Blank EXCEPT !.valid = TRUE, !.addr = a, !.last_seen = now]
             e == [b EXCEPT !.last_seen = now, !.link_cost = c]
  <2>1. tbl = [nbr EXCEPT ![i] = e]
    BY <1>1, <1>3, Zenon DEF tn_neighbor_note_frame, get_or_create, TableOK, Entry
  <2>2. e \in Entry /\ e.valid /\ e.addr = a /\ e.rank = 0
    <3>1. 0 \in 0 .. Inf /\ 0 \in Nat /\ a \in Addr \cup {Invalid}
      BY RankAssumption
    <3>2. Blank \in Entry /\ Blank.rank = 0
      BY <1>1, <3>1 DEF Blank, Entry
    <3>3. b \in Entry /\ b.valid /\ b.addr = a /\ b.rank = 0
      BY <1>1, <3>1, <3>2, Zenon DEF Entry
    <3> HIDE DEF b
    <3> QED BY <1>1, <3>3, Zenon DEF Entry
  <2> HIDE DEF e
  <2>3. /\ tbl \in [Slot -> Entry] /\ tbl[i] = e
        /\ \A j \in Slot \ {i} : tbl[j] = nbr[j]
    BY <1>1, <2>1, <2>2 DEF TableOK
  <2>4. \A j \in Slot : nbr[j].valid => nbr[j].addr # a
    BY <1>3 DEF tn_neighbor_find
  <2>5. TableOK(tbl)
    BY <2>2, <2>3, <2>4 DEF TableOK
  <2> QED BY <1>1, <2>2, <2>3, <2>5
<1> QED BY <1>2, <1>3

\* A frame leaves the rank above what the table has for the parent.
LEMMA NoteFrameAbove ==
  ASSUME Inv, NEW a \in Addr, NEW c \in Cost,
         NEW i \in slot_for(nbr, a), NEW tbl, tbl = tn_neighbor_note_frame(nbr, i, a, c)
  PROVE  Above(tbl, parent, rank)
<1>1. /\ i \in Slot /\ \A j \in Slot \ {i} : tbl[j] = nbr[j]
      /\ tbl[i].addr = a
      /\ \/ tbl[i].rank = 0
         \/ nbr[i].valid /\ nbr[i].addr = a /\ tbl[i].rank = nbr[i].rank
  BY NoteFrame DEF Inv
<1> QED BY <1>1 DEF Above, Inv

\* tn_neighbor_note_beacon, called on the entry just touched.
LEMMA NoteBeacon ==
  ASSUME TypeOK, NEW tbl, TableOK(tbl), NEW i \in Slot, NEW b \in Beacon, NEW c \in Cost
  PROVE  TableOK(tn_neighbor_note_beacon(tbl, i, b, c))
<1> DEFINE e == [tbl[i] EXCEPT !.rank = b.rank, !.router = (b.src \notin Leaf),
                               !.last_seen = now, !.link_cost = c]
           new == tn_neighbor_note_beacon(tbl, i, b, c)
<1>1. tbl[i] \in Entry /\ c \in Nat /\ b.rank \in 0 .. Inf /\ now \in Time
  BY NodeAssumption, Zenon DEF TableOK, Beacon, TypeOK
<1>2. new = [tbl EXCEPT ![i] = e]
  BY Zenon DEF tn_neighbor_note_beacon, TableOK, Entry
<1>3. e \in Entry /\ e.valid = tbl[i].valid /\ e.addr = tbl[i].addr
  BY <1>1, Zenon DEF Entry
<1> HIDE DEF e
<1>4. /\ new \in [Slot -> Entry] /\ new[i] = e
      /\ \A j \in Slot \ {i} : new[j] = tbl[j]
  BY <1>2, <1>3 DEF TableOK
<1> HIDE DEF new
<1>5. TableOK(new)
  BY <1>3, <1>4 DEF TableOK
<1> QED BY <1>5 DEF new

\* tn_link_ack_result changes neither the addresses nor the ranks.
LEMMA AckCounted ==
  ASSUME TypeOK, NEW tbl, TableOK(tbl), NEW d, NEW acked \in BOOLEAN
  PROVE  LET new == ack_counted(tbl, d, acked)
         IN  /\ TableOK(new)
             /\ \A i \in Slot : /\ new[i].valid = tbl[i].valid /\ new[i].addr = tbl[i].addr
                                /\ new[i].rank = tbl[i].rank
<1> DEFINE new == ack_counted(tbl, d, acked)
<1>1. later(now, Suspect) \in Time /\ 0 \in Time
  <2>1. now \in Time /\ Suspect \in Nat
    BY NodeAssumption DEF TypeOK
  <2>2. 0 \in Time
    BY TimeAssumption DEF Time
  <2> QED BY <2>1, <2>2, TimeType
<1>2. ASSUME NEW i \in Slot
      PROVE  /\ new[i] \in Entry /\ new[i].valid = tbl[i].valid
             /\ new[i].addr = tbl[i].addr /\ new[i].rank = tbl[i].rank
  <2>1. tbl[i] \in Entry
    BY DEF TableOK
  <2>2. new[i] \in {tbl[i], [tbl[i] EXCEPT !.ack_fail = 0, !.suspect_until = 0],
                    [tbl[i] EXCEPT !.ack_fail = 0, !.suspect_until = later(now, Suspect)],
                    [tbl[i] EXCEPT !.ack_fail = @ + 1]}
    BY DEF ack_counted
  <2> HIDE DEF new
  <2>3. CASE new[i] = tbl[i]
    BY <2>1, <2>3
  <2>4. CASE new[i] = [tbl[i] EXCEPT !.ack_fail = 0, !.suspect_until = 0]
    <3> DEFINE u == 0
    <3>1. u \in Time /\ 0 \in Nat
      BY <1>1
    <3> HIDE DEF u
    <3>2. new[i] = [tbl[i] EXCEPT !.ack_fail = 0, !.suspect_until = u]
      BY <2>4 DEF u
    <3> QED BY <2>1, <3>1, <3>2, Zenon DEF Entry
  <2>5. CASE new[i] = [tbl[i] EXCEPT !.ack_fail = 0, !.suspect_until = later(now, Suspect)]
    <3> DEFINE u == later(now, Suspect)
    <3>1. u \in Time /\ 0 \in Nat
      BY <1>1
    <3> HIDE DEF u
    <3>2. new[i] = [tbl[i] EXCEPT !.ack_fail = 0, !.suspect_until = u]
      BY <2>5 DEF u
    <3> QED BY <2>1, <3>1, <3>2, Zenon DEF Entry
  <2>6. CASE new[i] = [tbl[i] EXCEPT !.ack_fail = @ + 1]
    BY <2>1, <2>6 DEF Entry
  <2> QED BY <2>2, <2>3, <2>4, <2>5, <2>6
<1>3. new \in [Slot -> Entry]
  <2>1. new = [i \in Slot |-> new[i]]
    BY DEF ack_counted
  <2> HIDE DEF new
  <2> QED BY <1>2, <2>1
<1> HIDE DEF new
<1>4. TableOK(new)
  BY <1>2, <1>3 DEF TableOK
<1> QED BY <1>2, <1>4 DEF new
-----------------------------------------------------------------------------
(* A decision.                                                             *)

\* The outcome of a decision taken from st on table tbl.
SelectOK(st, tbl, o) ==
  /\ o.parent \in Address /\ o.rank \in 0 .. Inf
  /\ o.connected \in BOOLEAN /\ o.joined \in BOOLEAN
  /\ o.set \in BOOLEAN /\ o.advertised \in BOOLEAN
  /\ raised(o) \in Seq(EventRecord)
  /\ o.connected <=> o.parent # Invalid
  /\ o.connected <=> o.rank < Inf
  /\ o.connected => o.joined
  /\ o.parent # Invalid => o.rank > 0 /\ tn_neighbor_find(tbl, o.parent) # {}
  /\ Above(tbl, o.parent, o.rank)
  /\ o.parent \notin {st.parent, Invalid} => o.set /\ o.advertised

\* Any decision of a node that is not a Master, from its current state or from
\* the one in which the parent is forgotten, has such an outcome.
LEMMA SelectedOK ==
  ASSUME Inv, role # "MASTER", NEW st \in {t, forget_parent(t)}, NEW tbl, TableOK(tbl)
  PROVE  SelectOK(st, tbl, select_parent(st, tbl))
<1> DEFINE S == usable(tbl)
           d == dwell_ok
           o == tn_routing_select_parent(st, tbl, S, d)
           A == Address \cup {Self}
<1>1. S \subseteq Slot /\ S \subseteq Nat /\ d \in BOOLEAN
  BY NodeAssumption DEF usable, Slot, dwell_ok
<1>2. \A i \in S : tbl[i].valid /\ tbl[i] \in Entry /\ tbl[i].addr \in Addr
  BY <1>1 DEF usable, neighbor_usable, neighbor_fresh, TableOK
<1>3. Readable(A, tbl, S)
  BY <1>2, NodeAssumption, RankAssumption DEF Readable, Entry, Address
<1>4. /\ st \in State(A) /\ st.role # "MASTER" /\ st.rank \in 0 .. Inf
      /\ st.connected <=> st.parent # Invalid
      /\ st.connected => st.joined
      /\ st.parent = Invalid => st.rank = Inf
      /\ st.parent \in Address
  <2>1. /\ role \in {"MASTER", "NODE", "LEAF"} /\ parent \in Address /\ rank \in 0 .. Inf
        /\ connected \in BOOLEAN /\ joined \in BOOLEAN /\ rank \in Nat
    BY NodeAssumption, RankAssumption DEF Inv, TypeOK, Address
  <2>2. /\ connected <=> parent # Invalid
        /\ connected <=> rank < Inf
        /\ connected => joined
    BY DEF Inv, StateConsistent
  <2>3. parent = Invalid => rank = Inf
    BY <2>1, <2>2, RankAssumption
  <2>4. CASE st = t
    BY <2>1, <2>2, <2>3, <2>4 DEF t, State
  <2>5. CASE st = forget_parent(t)
    <3>1. st = [role |-> role, addr |-> Self, parent |-> Invalid, rank |-> Inf,
                connected |-> FALSE, joined |-> joined]
      BY <2>5, Zenon DEF t, forget_parent
    <3>2. Inf \in 0 .. Inf /\ Inf \in Nat /\ Invalid \in Address
      BY RankAssumption DEF Address
    <3> QED BY <2>1, <3>1, <3>2 DEF State
  <2> QED BY <2>4, <2>5
<1> HIDE DEF S, d
<1>a. Sound(A, st, tbl, S, o)
  <2>1. Invalid \in A
    BY DEF Address
  <2> HIDE DEF A
  <2> QED BY <1>1, <1>3, <1>4, <2>1, Decision, Zenon
<1> HIDE DEF o
<1>5. /\ o.parent \in A /\ o.rank \in 0 .. Inf
      /\ o.connected \in BOOLEAN /\ o.joined \in BOOLEAN
      /\ o.set \in BOOLEAN /\ o.advertised \in BOOLEAN
      /\ o.events \in Raisable
      /\ o.parent \notin {st.parent, Invalid} => o.set /\ o.advertised
      /\ o.connected <=> o.parent # Invalid
      /\ o.connected => o.joined
      /\ o.parent = Invalid => o.rank = Inf
      /\ o.parent # Invalid =>
           \E i \in S : /\ tbl[i].addr = o.parent
                        /\ o.rank = candidate_rank(tbl[i]) /\ o.rank < Inf
  BY <1>a DEF Sound
<1>6. ASSUME o.parent # Invalid
      PROVE  /\ o.parent \in Addr /\ o.rank > 0 /\ o.rank < Inf
             /\ tn_neighbor_find(tbl, o.parent) # {}
             /\ Above(tbl, o.parent, o.rank)
  <2>1. PICK i \in S : /\ tbl[i].addr = o.parent
                       /\ o.rank = candidate_rank(tbl[i]) /\ o.rank < Inf
    BY <1>5, <1>6
  <2>2. /\ i \in Slot /\ tbl[i].valid /\ tbl[i].addr \in Addr
        /\ tbl[i].rank \in Nat /\ tbl[i].link_cost \in Nat
    BY <1>1, <1>2, RankAssumption DEF Entry
  <2>3. o.rank # Inf
    BY <1>5, <2>1, RankAssumption
  <2>4. o.rank = tbl[i].rank + Step + tbl[i].link_cost
    BY <2>1, <2>2, <2>3, CandidateRank
  <2>5. o.rank > tbl[i].rank /\ o.rank > 0
    BY <2>2, <2>4, RankAssumption
  <2>6. tn_neighbor_find(tbl, o.parent) # {}
    BY <2>1, <2>2 DEF tn_neighbor_find
  <2>7. Above(tbl, o.parent, o.rank)
    <3>1. \A j \in Slot : tbl[j].valid /\ tbl[j].addr = o.parent => j = i
      BY <2>1, <2>2 DEF TableOK
    <3> QED BY <2>5, <3>1 DEF Above
  <2> QED BY <2>1, <2>2, <2>5, <2>6, <2>7
<1>7. o.parent \in Address
  BY <1>6 DEF Address
<1>8. raised(o) \in Seq(EventRecord)
  BY <1>5, <1>7, RaisedType
<1>9. Above(tbl, o.parent, o.rank)
  BY <1>6 DEF Above
<1>10. o.connected <=> o.rank < Inf
  BY <1>5, <1>6, RankAssumption
<1>11. SelectOK(st, tbl, o)
  BY <1>5, <1>6, <1>7, <1>8, <1>9, <1>10, Zenon DEF SelectOK
<1> QED BY <1>11 DEF select_parent, o, S, d
-----------------------------------------------------------------------------
(* The steps.                                                              *)

\* The part of Inv that is about the routing state and the events.
Settled ==
  /\ parent \in Address /\ rank \in 0 .. Inf
  /\ connected \in BOOLEAN /\ joined \in BOOLEAN
  /\ since \in Time /\ pbeacon \in Time
  /\ events \in Seq(EventRecord) /\ Len(events) <= EvQ /\ dropped \in BOOLEAN
  /\ dao \in Address
  /\ StateConsistent
  /\ parent # Invalid => rank > 0
  /\ DaoFollowsParent

\* The rest of it.
Rest ==
  /\ role \in Roles /\ now \in Time
  /\ phase \in {"idle", "rx", "age", "tx"} /\ aging \in Slot
  /\ app \in BOOLEAN
  /\ TableOK(nbr) /\ Above(nbr, parent, rank) /\ ParentAlive

\* The two together are Inv.
LEMMA InvParts == Inv <=> Settled /\ Rest
BY Zenon DEF Inv, TypeOK, Settled, Rest, EventRecord, Address, TableOK

\* A decision that is applied: the routing state is settled, and a parent is
\* in the table and either new or the one before.
LEMMA ApplyOK ==
  ASSUME Inv, role # "MASTER", role' = role, NEW st \in {t, forget_parent(t)},
         NEW tbl, TableOK(tbl), NEW pb \in Time, NEW list \in Seq(EventRecord),
         Apply(select_parent(st, tbl), pb, list)
  PROVE  /\ Settled' /\ Above(tbl, parent', rank')
         /\ parent' # Invalid => /\ tn_neighbor_find(tbl, parent') # {}
                                 /\ pbeacon' = now \/ (parent' = st.parent /\ pbeacon' = pb)
<1> DEFINE o == select_parent(st, tbl)
<1>1. SelectOK(st, tbl, o)
  BY SelectedOK
<1>2. Apply(o, pb, list)
  OBVIOUS
<1> HIDE DEF o
<1>3. /\ parent' = o.parent /\ rank' = o.rank /\ connected' = o.connected /\ joined' = o.joined
      /\ since' = IF o.set THEN now ELSE since
      /\ pbeacon' = IF o.set THEN now ELSE pb
      /\ dao' = IF o.advertised THEN o.parent ELSE dao
      /\ EmitEvents(list)
  BY <1>2 DEF Apply
<1>4. TypeOK /\ now \in Time /\ since \in Time /\ dao \in Address
  BY DEF Inv, TypeOK, Address
<1>5. events' \in Seq(EventRecord) /\ Len(events') <= EvQ /\ dropped' \in BOOLEAN
  BY <1>3, <1>4, EmitType
<1>6. /\ o.parent \in Address /\ o.rank \in 0 .. Inf
      /\ o.connected \in BOOLEAN /\ o.joined \in BOOLEAN
      /\ o.connected <=> o.parent # Invalid
      /\ o.connected <=> o.rank < Inf
      /\ o.connected => o.joined
      /\ o.parent # Invalid => o.rank > 0 /\ tn_neighbor_find(tbl, o.parent) # {}
      /\ Above(tbl, o.parent, o.rank)
      /\ o.parent \notin {st.parent, Invalid} => o.set /\ o.advertised
  BY <1>1 DEF SelectOK
<1>7. StateConsistent'
  BY <1>3, <1>6 DEF StateConsistent
<1>8. since' \in Time /\ pbeacon' \in Time /\ dao' \in Address
  BY <1>3, <1>4, <1>6
<1>9. DaoFollowsParent'
  <2>1. st.parent \in {parent, Invalid}
    <3>1. t.parent = parent
      BY DEF t
    <3>2. forget_parent(t).parent = Invalid
      BY DEF t, forget_parent
    <3> QED BY <3>1, <3>2
  <2>2. parent # Invalid => dao = parent
    BY DEF Inv, DaoFollowsParent
  <2>3. o.parent # Invalid => (IF o.advertised THEN o.parent ELSE dao) = o.parent
    BY <1>6, <2>1, <2>2
  <2> QED BY <1>3, <2>3 DEF DaoFollowsParent
<1>10. Settled'
  BY <1>3, <1>5, <1>6, <1>7, <1>8, <1>9 DEF Settled
<1>11. parent' # Invalid => pbeacon' = now \/ (parent' = st.parent /\ pbeacon' = pb)
  BY <1>3, <1>6
<1> QED BY <1>3, <1>6, <1>10, <1>11

\* A Master's decision.
LEMMA MasterOK ==
  ASSUME Inv, role = "MASTER", role' = role, NEW tbl, NEW pb \in Time,
         NEW before \in Seq(EventRecord),
         Apply(select_parent(t, tbl), pb, before \o raised(select_parent(t, tbl)))
  PROVE  Settled' /\ parent' = Invalid
<1> DEFINE o == select_parent(t, tbl)
<1>1. o = master_selects(t)
  BY DEF select_parent, tn_routing_select_parent, t
<1>2. /\ o.parent = Invalid /\ o.rank = 0 /\ o.connected = TRUE /\ o.joined = TRUE
      /\ o.set = FALSE /\ o.advertised = FALSE
  BY <1>1 DEF master_selects, outcome, t
<1>3. o.events \in Raisable
  BY <1>1 DEF master_selects, outcome, t, Raisable
<1>4. Apply(o, pb, before \o raised(o))
  OBVIOUS
<1> HIDE DEF o
<1>5. raised(o) \in Seq(EventRecord)
  BY <1>2, <1>3, RaisedType DEF Address
<1>6. /\ parent' = Invalid /\ rank' = 0 /\ connected' = TRUE /\ joined' = TRUE
      /\ since' = since /\ pbeacon' = pb /\ dao' = dao
      /\ EmitEvents(before \o raised(o))
  BY <1>2, <1>4 DEF Apply
<1>7. before \o raised(o) \in Seq(EventRecord)
  BY <1>5
<1>8. events' \in Seq(EventRecord) /\ Len(events') <= EvQ /\ dropped' \in BOOLEAN
  BY <1>6, <1>7, EmitType, Zenon DEF Inv
<1>9. since \in Time /\ dao \in Address /\ 0 \in 0 .. Inf /\ Invalid \in Address
  BY RankAssumption DEF Inv, TypeOK, Address
<1>10. StateConsistent' /\ DaoFollowsParent'
  BY <1>6 DEF StateConsistent, DaoFollowsParent
<1> QED BY <1>6, <1>8, <1>9, <1>10 DEF Settled

\* A handler that leaves the routing state alone.
LEMMA KeepOK ==
  ASSUME Inv, role' = role, NEW list \in Seq(EventRecord), KeepRouting(list)
  PROVE  Settled' /\ parent' = parent /\ rank' = rank /\ pbeacon' = pbeacon
<1>1. /\ UNCHANGED <<parent, rank, connected, joined, since, pbeacon, dao>>
      /\ EmitEvents(list)
  BY DEF KeepRouting
<1>2. events' \in Seq(EventRecord) /\ Len(events') <= EvQ /\ dropped' \in BOOLEAN
  BY <1>1, EmitType DEF Inv
<1>3. Settled
  BY InvParts
<1> QED BY <1>1, <1>2, <1>3 DEF Settled, StateConsistent, DaoFollowsParent

\* tn_link_ack_result, for a frame meant for d.
LEMMA LinkAckOK ==
  ASSUME Inv, role' = role, NEW tbl, TableOK(tbl), Above(tbl, parent, rank),
         NEW d \in Addr, NEW acked \in BOOLEAN,
         NEW before \in Seq(EventRecord), NEW after \in Seq(EventRecord),
         LinkAckResult(tbl, d, acked, before, after)
  PROVE  /\ Settled' /\ TableOK(nbr') /\ Above(nbr', parent', rank')
         /\ parent' # Invalid =>
              \/ pbeacon' = now /\ tn_neighbor_find(nbr', parent') # {}
              \/ /\ parent' = parent /\ pbeacon' = pbeacon
                 /\ tn_neighbor_find(nbr', parent) = tn_neighbor_find(tbl, parent)
<1> DEFINE new == ack_counted(tbl, d, acked)
<1>1. /\ TableOK(new)
      /\ \A i \in Slot : /\ new[i].valid = tbl[i].valid /\ new[i].addr = tbl[i].addr
                         /\ new[i].rank = tbl[i].rank
  BY AckCounted DEF Inv
<1>2. nbr' = new
  BY DEF LinkAckResult
<1> HIDE DEF new
<1>3. tn_neighbor_find(nbr', parent) = tn_neighbor_find(tbl, parent)
  BY <1>1, <1>2 DEF tn_neighbor_find
<1>4. CASE ~acked /\ trips(tbl, d) /\ d = parent
  <2> DEFINE o == select_parent(t, new)
  <2>1. Apply(o, pbeacon, before \o raised(o) \o after)
    BY <1>2, <1>4 DEF LinkAckResult
  <2>2. role # "MASTER"
    BY <1>4, NodeAssumption DEF Inv, StateConsistent
  <2>3. SelectOK(t, new, o)
    BY <1>1, <2>2, SelectedOK
  <2> HIDE DEF o
  <2>4. raised(o) \in Seq(EventRecord)
    BY <2>3 DEF SelectOK
  <2>5. before \o raised(o) \o after \in Seq(EventRecord)
    BY <2>4
  <2>6. pbeacon \in Time /\ t.parent = parent
    BY DEF Inv, TypeOK, t
  <2>7. /\ Settled' /\ Above(new, parent', rank')
        /\ parent' # Invalid =>
             /\ tn_neighbor_find(new, parent') # {}
             /\ pbeacon' = now \/ (parent' = t.parent /\ pbeacon' = pbeacon)
    BY <1>1, <2>1, <2>2, <2>5, <2>6, ApplyOK, Zenon DEF o
  <2> QED BY <1>1, <1>2, <1>3, <2>6, <2>7
<1>5. CASE ~(~acked /\ trips(tbl, d) /\ d = parent)
  <2>1. KeepRouting(before \o after)
    BY <1>5 DEF LinkAckResult
  <2>2. before \o after \in Seq(EventRecord)
    OBVIOUS
  <2>3. Settled' /\ parent' = parent /\ rank' = rank /\ pbeacon' = pbeacon
    BY <2>1, <2>2, KeepOK, Zenon
  <2>4. Above(nbr', parent, rank)
    BY <1>1, <1>2 DEF Above
  <2> QED BY <1>1, <1>2, <1>3, <2>3, <2>4
<1> QED BY <1>4, <1>5
=============================================================================
