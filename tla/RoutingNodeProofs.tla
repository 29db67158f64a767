------------------------- MODULE RoutingNodeProofs -------------------------
(***************************************************************************)
(* Proofs about one node (module RoutingNode), for every table size, every *)
(* set of neighbours, every clock and every timeout.                       *)
(***************************************************************************)
EXTENDS RoutingNodeLemmas

\* Every step keeps Inv.
LEMMA StepInv == Inv /\ [Next]_vars => Inv'
<1> SUFFICES ASSUME Inv, [Next]_vars PROVE Inv'
  OBVIOUS
<1> DEFINE E(name) == <<Event(name)>>
<1>1. Settled /\ Rest /\ TypeOK
  BY InvParts DEF Inv
<1>2. \A name \in EventName : E(name) \in Seq(EventRecord)
  BY DEF Event, EventRecord, Address
<1>3. <<>> \in Seq(EventRecord)
  OBVIOUS
<1>4. \A a \in Addr : added(a) \in Seq(EventRecord)
  BY <1>2, <1>3 DEF added, EventName
<1>5. ASSUME NEW d \in Time PROVE tn_elapsed(d, now) \in Nat
  BY <1>1, <1>5, TimeAssumption DEF tn_elapsed, Rest, Time
<1>6. \A a \in Addr : a # Invalid
  BY NodeAssumption
<1>7. Slots \in Nat /\ 1 \in Slot /\ ParentTimeout \in Nat
  BY NodeAssumption DEF Slot
<1>8. Inv' <=> Settled' /\ Rest'
  BY InvParts, PTL
<1> HIDE DEF E
<1>10. CASE Tick
  <2>1. now' \in Time
    BY <1>1, <1>10, TimeType DEF Tick, Rest
  <2>2. Settled'
    BY <1>1, <1>10 DEF Tick, Settled, StateConsistent, DaoFollowsParent
  <2>3. Rest'
    BY <1>1, <1>10, <2>1 DEF Tick, Rest, TableOK, Above, ParentAlive
  <2> QED BY <1>8, <2>2, <2>3
<1>11. ASSUME NEW a \in Addr, NEW c \in Cost, RxFrame(a, c) PROVE Inv'
  <2>1. PICK i \in slot_for(nbr, a) : nbr' = tn_neighbor_note_frame(nbr, i, a, c)
    BY <1>11 DEF RxFrame
  <2>2. TableOK(nbr') /\ Above(nbr', parent, rank)
    BY <1>1, <2>1, NoteFrame, NoteFrameAbove DEF Rest
  <2>3. Settled' /\ parent' = parent /\ rank' = rank
    BY <1>4, <1>11, KeepOK DEF RxFrame
  <2>4. Rest'
    BY <1>1, <1>11, <2>2, <2>3 DEF RxFrame, Rest, ParentAlive
  <2> QED BY <1>8, <2>3, <2>4
<1>12. ASSUME NEW b \in Beacon, NEW c \in Cost, RxBeacon(b, c) PROVE Inv'
  <2>1. b.src \in Addr
    BY DEF Beacon
  <2>2. PICK i \in slot_for(nbr, b.src) :
          nbr' = tn_neighbor_note_beacon(tn_neighbor_note_frame(nbr, i, b.src, c), i, b, c)
    BY <1>12 DEF RxBeacon
  <2> DEFINE tbl == nbr'
             o == select_parent(t, tbl)
             pb == IF b.src = parent THEN now ELSE pbeacon
  <2>3. TableOK(tbl)
    <3> DEFINE mid == tn_neighbor_note_frame(nbr, i, b.src, c)
    <3>1. TableOK(mid) /\ i \in Slot
      BY <1>1, <2>1, NoteFrame DEF Rest
    <3> HIDE DEF mid
    <3> QED BY <1>1, <2>2, <3>1, NoteBeacon DEF mid
  <2>4. Apply(o, pb, added(b.src) \o raised(o)) /\ role' = role /\ pb \in Time
    BY <1>1, <1>12 DEF RxBeacon, TypeOK
  <2> HIDE DEF tbl, pb
  <2>5. CASE role = "MASTER"
    <3>1. Settled' /\ parent' = Invalid
      BY <1>4, <2>1, <2>4, <2>5, MasterOK
    <3>2. Rest'
      BY <1>1, <1>12, <2>3, <3>1, Zenon DEF RxBeacon, Rest, ParentAlive, Above, tbl
    <3> QED BY <1>8, <3>1, <3>2
  <2>6. CASE role # "MASTER"
    <3>1. SelectOK(t, tbl, o)
      BY <2>3, <2>6, SelectedOK
    <3>2. raised(o) \in Seq(EventRecord)
      BY <3>1 DEF SelectOK
    <3>3. added(b.src) \o raised(o) \in Seq(EventRecord)
      BY <1>4, <2>1, <3>2
    <3>4. Settled' /\ Above(tbl, parent', rank')
      BY <2>3, <2>4, <2>6, <3>3, ApplyOK, Zenon
    <3>5. Rest'
      BY <1>1, <1>12, <2>3, <3>4 DEF RxBeacon, Rest, ParentAlive, tbl
    <3> QED BY <1>8, <3>4, <3>5
  <2> QED BY <2>5, <2>6
<1>13. ASSUME NEW a \in Addr, NEW d \in Addr, NEW c \in Cost, RxAck(a, d, c) PROVE Inv'
  <2>1. PICK i \in slot_for(nbr, a) :
          LinkAckResult(tn_neighbor_note_frame(nbr, i, a, c), d, a = d, added(a), E("TX_DONE"))
    BY <1>13 DEF RxAck, E
  <2> DEFINE tbl == tn_neighbor_note_frame(nbr, i, a, c)
             acked == a = d
  <2>2. TableOK(tbl) /\ Above(tbl, parent, rank)
    BY <1>1, NoteFrame, NoteFrameAbove DEF Rest
  <2>3. acked \in BOOLEAN /\ added(a) \in Seq(EventRecord) /\ E("TX_DONE") \in Seq(EventRecord)
    BY <1>2, <1>4 DEF EventName
  <2>4. LinkAckResult(tbl, d, acked, added(a), E("TX_DONE")) /\ role' = role
    BY <1>13, <2>1 DEF RxAck
  <2> HIDE DEF tbl, acked
  <2>5. Settled' /\ TableOK(nbr') /\ Above(nbr', parent', rank')
    BY <2>2, <2>3, <2>4, LinkAckOK
  <2>6. Rest'
    BY <1>1, <1>13, <2>5 DEF RxAck, Rest, ParentAlive
  <2> QED BY <1>8, <2>5, <2>6
<1>14. ASSUME NEW tbl, TableOK(tbl), NEW before \in Seq(EventRecord),
              ParentLost(tbl, before), role' = role, role # "MASTER"
       PROVE  /\ Settled' /\ Above(tbl, parent', rank')
              /\ parent' # Invalid => tn_neighbor_find(tbl, parent') # {} /\ pbeacon' = now
  <2> DEFINE st == forget_parent(t)
             o == select_parent(st, tbl)
             list == before \o E("DISCONNECTED") \o raised(o)
  <2>1. SelectOK(st, tbl, o) /\ st.parent = Invalid
    BY <1>14, SelectedOK DEF forget_parent, t
  <2>2. raised(o) \in Seq(EventRecord) /\ E("DISCONNECTED") \in Seq(EventRecord)
    BY <1>2, <2>1, Zenon DEF SelectOK, EventName
  <2>3. list \in Seq(EventRecord)
    <3> HIDE DEF o
    <3> QED BY <1>14, <2>2
  <2>4. Apply(o, pbeacon, list) /\ pbeacon \in Time
    BY <1>1, <1>14 DEF ParentLost, E, TypeOK
  <2> HIDE DEF list, st
  <2>5. st \in {t, forget_parent(t)}
    BY DEF st
  <2>6. /\ Settled' /\ Above(tbl, parent', rank')
        /\ parent' # Invalid =>
             /\ tn_neighbor_find(tbl, parent') # {}
             /\ pbeacon' = now \/ (parent' = st.parent /\ pbeacon' = pbeacon)
    BY <1>14, <2>3, <2>4, <2>5, ApplyOK
  <2> QED BY <2>1, <2>6
<1>15. CASE RoutingTick
  <2>1. /\ role' = role /\ now' = now /\ nbr' = nbr /\ app' = app
        /\ phase' = "age" /\ aging' = 1
    BY <1>15 DEF RoutingTick
  <2>2. CASE parent_dead
    <3>1. ParentLost(nbr, <<>>) /\ role # "MASTER"
      BY <1>15, <2>2 DEF RoutingTick, parent_dead
    <3>2. /\ Settled' /\ Above(nbr, parent', rank')
          /\ parent' # Invalid => tn_neighbor_find(nbr, parent') # {} /\ pbeacon' = now
      BY <1>1, <1>3, <1>14, <2>1, <3>1, Zenon DEF Rest
    <3>3. ParentAlive'
      BY <1>1, <1>7, <2>1, <3>2, NoTimeAtAll DEF ParentAlive, Rest, tn_neighbor_find
    <3> QED BY <1>1, <1>7, <1>8, <2>1, <3>2, <3>3 DEF Rest
  <2>3. CASE ~parent_dead
    <3>1. Settled' /\ parent' = parent /\ rank' = rank /\ pbeacon' = pbeacon
      BY <1>3, <1>15, <2>1, <2>3, KeepOK, Zenon DEF RoutingTick
    <3>2. parent # Invalid => role # "MASTER"
      BY <1>1 DEF Settled, StateConsistent
    <3>3. pbeacon \in Time
      BY <1>1 DEF Settled
    <3>4. parent # Invalid => /\ tn_neighbor_find(nbr, parent) # {}
                              /\ tn_elapsed(pbeacon, now) <= ParentTimeout
      BY <1>5, <1>7, <2>3, <3>2, <3>3 DEF parent_dead
    <3>5. ParentAlive'
      BY <2>1, <3>1, <3>4 DEF ParentAlive, tn_neighbor_find
    <3> QED BY <1>1, <1>7, <1>8, <2>1, <3>1, <3>5 DEF Rest
  <2> QED BY <2>2, <2>3
<1>16. CASE SkipMaintenance
  <2>1. Settled'
    BY <1>1, <1>16 DEF SkipMaintenance, Settled, StateConsistent, DaoFollowsParent
  <2>2. Rest'
    BY <1>1, <1>16
       DEF SkipMaintenance, Rest, TableOK, Above, ParentAlive, tn_neighbor_find
  <2> QED BY <1>8, <2>1, <2>2
<1>17. CASE AgeNeighbor
  <2> DEFINE e == nbr[aging]
             gone == e.valid /\ tn_elapsed(e.last_seen, now) > NeighborTimeout
             tbl == IF gone THEN [nbr EXCEPT ![aging] = Blank] ELSE nbr
             left == IF gone THEN E("NEIGHBOR_REMOVED") ELSE <<>>
  <2>1. /\ nbr' = tbl /\ role' = role /\ now' = now /\ app' = app /\ phase = "age"
        /\ IF aging = Slots THEN phase' = "tx" /\ aging' = 1
                            ELSE phase' = phase /\ aging' = aging + 1
        /\ IF gone /\ e.addr = parent THEN ParentLost(nbr', E("NEIGHBOR_REMOVED"))
                                      ELSE KeepRouting(left)
    BY <1>17 DEF AgeNeighbor, E
  <2>2. /\ aging \in Slot /\ TableOK(nbr) /\ Above(nbr, parent, rank)
        /\ nbr \in [Slot -> Entry]
    BY <1>1 DEF Rest, TableOK
  <2>3. phase' \in {"age", "tx"} /\ aging' \in Slot
    BY <1>7, <2>1, <2>2 DEF Slot
  <2>4. E("NEIGHBOR_REMOVED") \in Seq(EventRecord) /\ left \in Seq(EventRecord)
    BY <1>2, <1>3 DEF EventName
  <2>5. Blank \in Entry /\ ~Blank.valid
    <3>1. 0 \in 0 .. Inf /\ 0 \in Time
      BY RankAssumption, TimeAssumption DEF Time
    <3> QED BY <3>1 DEF Blank, Entry
  <2> HIDE DEF gone
  <2>6. /\ tbl \in [Slot -> Entry]
        /\ \A j \in Slot : \/ tbl[j] = nbr[j] /\ (gone => j # aging)
                           \/ gone /\ j = aging /\ ~tbl[j].valid
    BY <2>2, <2>5
  <2> HIDE DEF tbl
  <2>7. TableOK(tbl)
    BY <2>2, <2>6 DEF TableOK
  <2>8. CASE gone /\ e.addr = parent
    <3>1. parent # Invalid
      BY <1>6, <2>2, <2>8 DEF TableOK, gone
    <3>2. role # "MASTER"
      BY <1>1, <3>1 DEF Settled, StateConsistent
    <3>3. ParentLost(tbl, E("NEIGHBOR_REMOVED"))
      BY <2>1, <2>8
    <3>4. /\ Settled' /\ Above(tbl, parent', rank')
          /\ parent' # Invalid => tn_neighbor_find(tbl, parent') # {} /\ pbeacon' = now
      BY <1>14, <2>1, <2>4, <2>7, <3>2, <3>3
    <3>5. ParentAlive'
      BY <1>1, <1>7, <2>1, <3>4, NoTimeAtAll DEF ParentAlive, Rest, tn_neighbor_find
    <3> QED BY <1>1, <1>8, <2>1, <2>3, <2>7, <3>4, <3>5 DEF Rest
  <2>9. CASE ~(gone /\ e.addr = parent)
    <3>1. Settled' /\ parent' = parent /\ rank' = rank /\ pbeacon' = pbeacon
      BY <2>1, <2>4, <2>9, KeepOK, Zenon
    <3>2. Above(tbl, parent, rank)
      BY <2>2, <2>6 DEF Above
    <3>3. tn_neighbor_find(tbl, parent) = tn_neighbor_find(nbr, parent)
      BY <2>2, <2>6, <2>9 DEF tn_neighbor_find
    <3>4. ParentAlive'
      BY <1>1, <2>1, <3>1, <3>3, Zenon DEF ParentAlive, Rest, tn_neighbor_find
    <3> QED BY <1>1, <1>8, <2>1, <2>3, <2>7, <3>1, <3>2, <3>4 DEF Rest
  <2> QED BY <2>8, <2>9
<1>18. ASSUME NEW d \in Addr, TxFail(d) PROVE Inv'
  <2>1. /\ LinkAckResult(nbr, d, FALSE, <<>>, E("TX_FAILED")) /\ phase = "tx"
        /\ role' = role /\ now' = now /\ phase' = phase /\ aging' = aging /\ app' = app
    BY <1>18, Zenon DEF TxFail, E
  <2>2. E("TX_FAILED") \in Seq(EventRecord) /\ FALSE \in BOOLEAN
    BY <1>2 DEF EventName
  <2>3. /\ Settled' /\ TableOK(nbr') /\ Above(nbr', parent', rank')
        /\ parent' # Invalid =>
             \/ pbeacon' = now /\ tn_neighbor_find(nbr', parent') # {}
             \/ /\ parent' = parent /\ pbeacon' = pbeacon
                /\ tn_neighbor_find(nbr', parent) = tn_neighbor_find(nbr, parent)
    BY <1>1, <1>3, <2>1, <2>2, LinkAckOK, Zenon DEF Rest
  <2>4. now \in Time /\ tn_elapsed(now, now) <= ParentTimeout
    BY <1>1, <1>7, NoTimeAtAll DEF Rest
  <2>5. ParentAlive'
    <3>1. parent # Invalid => /\ tn_neighbor_find(nbr, parent) # {}
                              /\ tn_elapsed(pbeacon, now) <= ParentTimeout
      BY <1>1, <2>1 DEF ParentAlive, Rest
    <3>2. parent' # Invalid => /\ tn_neighbor_find(nbr', parent') # {}
                               /\ tn_elapsed(pbeacon', now') <= ParentTimeout
      BY <2>1, <2>3, <2>4, <3>1
    <3> QED BY <3>2 DEF ParentAlive, tn_neighbor_find
  <2> QED BY <1>1, <1>8, <2>1, <2>3, <2>5 DEF Rest
<1>19. CASE PollEnd
  <2>1. /\ UNCHANGED <<role, now, aging, nbr, parent, rank, connected, joined,
                       since, pbeacon, dao, dropped>>
        /\ phase' = "idle" /\ events' = <<>>
    BY <1>19 DEF PollEnd
  <2>2. app' \in BOOLEAN
    BY <1>1, <1>19, Zenon DEF PollEnd, Rest
  <2>3. Settled'
    BY <1>1, <2>1, NodeAssumption DEF Settled, StateConsistent, DaoFollowsParent
  <2>4. Rest'
    BY <1>1, <2>1, <2>2 DEF Rest, TableOK, Above, ParentAlive
  <2> QED BY <1>8, <2>3, <2>4
<1>20. CASE UNCHANGED vars
  <2>1. Settled'
    BY <1>1, <1>20 DEF vars, Settled, StateConsistent, DaoFollowsParent
  <2>2. Rest'
    BY <1>1, <1>20 DEF vars, Rest, TableOK, Above, ParentAlive, tn_neighbor_find
  <2> QED BY <1>8, <2>1, <2>2
<1> QED
  BY <1>10, <1>11, <1>12, <1>13, <1>15, <1>16, <1>17, <1>18, <1>19, <1>20 DEF Next

\* Inv holds in every reachable state.
LEMMA Invariance == Spec => []Inv
<1>1. Init => Inv
  <2> SUFFICES ASSUME Init PROVE Inv
    OBVIOUS
  <2>1. 0 \in 0 .. Inf /\ 0 \in Time /\ Inf \in 0 .. Inf /\ 0 < Inf
    BY RankAssumption, TimeAssumption DEF Time
  <2>2. Blank \in Entry /\ ~Blank.valid
    BY <2>1 DEF Blank, Entry
  <2>3. TableOK(nbr) /\ Above(nbr, parent, rank)
    BY <2>2 DEF Init, TableOK, Above
  <2>4. role \in Roles /\ now \in Time /\ aging \in Slot /\ app \in BOOLEAN
    BY NodeAssumption DEF Init, Slot
  <2>5. Rest
    BY <2>3, <2>4 DEF Init, Rest, ParentAlive
  <2>6. StateConsistent /\ DaoFollowsParent
    <3>1. CASE role = "MASTER"
      BY <3>1, Zenon DEF Init, StateConsistent, DaoFollowsParent
    <3>2. CASE role # "MASTER"
      <4>1. parent = Invalid /\ connected = FALSE /\ rank = Inf
        BY <3>2, Zenon DEF Init
      <4> QED BY <2>1, <3>2, <4>1, RankAssumption DEF StateConsistent, DaoFollowsParent
    <3> QED BY <3>1, <3>2
  <2>7. Settled
    <3>1. rank \in 0 .. Inf /\ connected \in BOOLEAN /\ joined \in BOOLEAN
      BY <2>1 DEF Init
    <3>2. /\ parent = Invalid /\ dao = Invalid /\ since \in Time /\ pbeacon \in Time
          /\ dropped \in BOOLEAN
      BY <2>1, Zenon DEF Init
    <3>3. events \in Seq(EventRecord) /\ Len(events) <= EvQ
      BY NodeAssumption DEF Init
    <3> QED BY <2>6, <3>1, <3>2, <3>3 DEF Settled, Address
  <2> QED BY <2>5, <2>7, InvParts
<1> QED BY <1>1, StepInv, PTL DEF Spec

\* Every variable keeps its type; the event queue keeps its bound.
THEOREM TypeCorrect == Spec => []TypeOK
<1>1. Inv => TypeOK
  BY DEF Inv
<1> QED BY <1>1, Invariance, PTL

\* For every table size, timeout, threshold and clock, and for every order in
\* which frames, acknowledgements, failures and time come, connected, parent
\* and rank tell the same story between any two handlers of treenet_poll.
THEOREM Consistent == Spec => []StateConsistent
<1>1. Inv => StateConsistent
  BY DEF Inv
<1> QED BY <1>1, Invariance, PTL

\* tn_neighbor_get_or_create never gives a neighbour a second entry.
THEOREM UniqueEntries == Spec => []OneEntryPerNeighbor
<1>1. Inv => OneEntryPerNeighbor
  BY DEF Inv, TableOK, OneEntryPerNeighbor
<1> QED BY <1>1, Invariance, PTL

\* The rank stays above the rank the parent last advertised, through
\* evictions, cost changes and every path that leads to a decision.
THEOREM RankAbove == Spec => []RankAboveParent
<1>1. Inv => RankAboveParent
  BY DEF Inv, Above, RankAboveParent
<1> QED BY <1>1, Invariance, PTL

\* After tn_routing_tick, and until the next poll, a parent has an entry and
\* is not overdue.
THEOREM ParentStaysAlive == Spec => []ParentAlive
<1>1. Inv => ParentAlive
  BY DEF Inv
<1> QED BY <1>1, Invariance, PTL

\* No parent switch is left without a DAO (routing_set_parent).
THEOREM DaoFollows == Spec => []DaoFollowsParent
<1>1. Inv => DaoFollowsParent
  BY DEF Inv
<1> QED BY <1>1, Invariance, PTL
-----------------------------------------------------------------------------
\* What NoFlapping says of a step that makes p the parent with rank r, on
\* table tbl.
Justified(tbl, p, r) ==
  \A i \in Slot :
    /\ parent # Invalid /\ p \notin {parent, Invalid}
    /\ tbl[i].addr = parent /\ neighbor_usable(tbl[i]) /\ candidate_rank(tbl[i]) < Inf
    => dwell_ok /\ clearly_better(r, candidate_rank(tbl[i]))

\* A decision from the current state is justified in that sense.
LEMMA SelectJustified ==
  ASSUME Inv, NEW tbl, TableOK(tbl)
  PROVE  LET o == select_parent(t, tbl) IN Justified(tbl, o.parent, o.rank)
<1> DEFINE S == usable(tbl)
           d == dwell_ok
           o == tn_routing_select_parent(t, tbl, S, d)
           A == Address \cup {Self}
<1> SUFFICES ASSUME NEW i \in Slot, parent # Invalid, o.parent \notin {parent, Invalid},
                    tbl[i].addr = parent, neighbor_usable(tbl[i]),
                    candidate_rank(tbl[i]) < Inf
             PROVE  d /\ clearly_better(o.rank, candidate_rank(tbl[i]))
  BY DEF Justified, select_parent
<1> HIDE DEF o, A, S, d
<1>1. S \subseteq Slot /\ S \subseteq Nat
  BY NodeAssumption DEF S, usable, Slot
<1>d. d \in BOOLEAN
  BY DEF d, dwell_ok
<1>2. \A k \in S : tbl[k].valid /\ tbl[k] \in Entry /\ tbl[k].addr \in Addr
  <2> SUFFICES ASSUME NEW k \in S
               PROVE  tbl[k].valid /\ tbl[k] \in Entry /\ tbl[k].addr \in Addr
    OBVIOUS
  <2>1. k \in Slot /\ neighbor_usable(tbl[k])
    BY DEF S, usable
  <2>2. tbl[k].valid
    BY <2>1 DEF neighbor_usable, neighbor_fresh
  <2> QED BY <2>1, <2>2 DEF TableOK
<1>3. Readable(A, tbl, S)
  BY <1>2, NodeAssumption, RankAssumption DEF A, Readable, Entry, Address
<1>4. t \in State(A) /\ t.role # "MASTER" /\ t.parent = parent
  <2>1. TypeOK /\ StateConsistent
    BY DEF Inv
  <2>2. role \in {"MASTER", "NODE", "LEAF"}
    BY <2>1, NodeAssumption DEF TypeOK
  <2>3. parent \in A /\ Self \in A
    BY <2>1 DEF TypeOK, Address, A
  <2>4. rank \in Nat
    BY <2>1, RankAssumption DEF TypeOK
  <2>5. connected \in BOOLEAN /\ joined \in BOOLEAN
    BY <2>1 DEF TypeOK
  <2>6. role # "MASTER"
    BY <2>1 DEF StateConsistent
  <2> QED BY <2>2, <2>3, <2>4, <2>5, <2>6 DEF t, State
<1>5. i \in S
  BY DEF S, usable
<1>6. cur_alive(t, tbl, S) = {i}
  <2>1. candidate_rank(tbl[i]) # Inf
    <3>1. tbl[i].rank \in Nat /\ tbl[i].link_cost \in Nat
      BY <1>2, <1>5, RankAssumption DEF Entry
    <3>2. candidate_rank(tbl[i]) \in 0 .. Inf
      BY <3>1, CandidateRank
    <3> QED BY <3>2, RankAssumption
  <2>2. \A k \in S : tbl[k].addr = parent => k = i
    BY <1>1, <1>2, <1>5 DEF TableOK
  <2> QED BY <1>4, <1>5, <2>1, <2>2 DEF cur_alive
<1>7. CASE Stays(t, tbl, S, o)
  <2>1. PICK r : o = keep_parent(t, r)
    BY <1>7 DEF Stays
  <2>2. o.parent = parent
    BY <1>4, <2>1 DEF keep_parent, outcome, State
  <2> QED BY <2>2
<1>8. CASE Switches(t, tbl, S, d, o)
  <2>1. PICK k \in candidates(t, tbl, S) :
          /\ o = routing_set_parent(t, tbl[k].addr, candidate_rank(tbl[k]))
          /\ d /\ clearly_better(candidate_rank(tbl[k]), candidate_rank(tbl[i]))
    BY <1>6, <1>8, Zenon DEF Switches
  <2>2. \A a, r : routing_set_parent(t, a, r).rank = r
    BY DEF routing_set_parent, outcome, t
  <2>3. o.rank = candidate_rank(tbl[k])
    BY <2>1, <2>2, Zenon
  <2> QED BY <2>1, <2>3, Zenon
<1>9. ~GivesUp(t, tbl, S, o)
  BY <1>6 DEF GivesUp
<1> QED
  <2>1. Stays(t, tbl, S, o) \/ Switches(t, tbl, S, d, o)
    BY <1>1, <1>d, <1>3, <1>4, <1>9, SelectCases, Zenon DEF o
  <2> QED BY <1>7, <1>8, <2>1, Zenon

\* While the parent is usable, no frame makes the node leave it for a candidate
\* that is not better by the hysteresis, or before the dwell time has passed
\* (tn_routing_select_parent).
THEOREM NeverFlaps == Spec => NoFlapping
<1> DEFINE Step1 == \A i \in Slot :
       /\ parent # Invalid /\ parent' \notin {parent, Invalid} /\ phase' = "rx"
       /\ nbr'[i].addr = parent /\ neighbor_usable(nbr'[i])
       /\ candidate_rank(nbr'[i]) < Inf
       => dwell_ok /\ clearly_better(rank', candidate_rank(nbr'[i]))
<1>1. ASSUME Inv, [Next]_vars PROVE [Step1]_vars
  <2>1. CASE parent' = parent \/ phase' # "rx"
    <3>1. Step1
      BY <2>1
    <3> QED BY <3>1
  <2>2. CASE Justified(nbr', parent', rank')
    BY <2>2 DEF Justified
  <2>3. ASSUME NEW b \in Beacon, NEW c \in Cost, RxBeacon(b, c)
        PROVE  Justified(nbr', parent', rank')
    <3>1. b.src \in Addr /\ TypeOK /\ TableOK(nbr)
      BY <1>1 DEF Beacon, Inv
    <3>2. PICK i \in slot_for(nbr, b.src) :
            nbr' = tn_neighbor_note_beacon(tn_neighbor_note_frame(nbr, i, b.src, c), i, b, c)
      BY <2>3 DEF RxBeacon
    <3>3. TableOK(nbr')
      <4> DEFINE mid == tn_neighbor_note_frame(nbr, i, b.src, c)
      <4>1. mid = tn_neighbor_note_frame(nbr, i, b.src, c)
        OBVIOUS
      <4> HIDE DEF mid
      <4>2. TableOK(mid) /\ i \in Slot
        BY <3>1, <4>1, NoteFrame
      <4>3. TableOK(tn_neighbor_note_beacon(mid, i, b, c))
        BY <3>1, <4>2, NoteBeacon
      <4> QED BY <3>2, <4>1, <4>3
    <3> DEFINE tbl == nbr'
               o == select_parent(t, tbl)
    <3>4. parent' = o.parent /\ rank' = o.rank
      BY <2>3 DEF RxBeacon, Apply
    <3> HIDE DEF tbl
    <3>5. Justified(tbl, o.parent, o.rank)
      BY <1>1, <3>3, SelectJustified DEF tbl
    <3> QED BY <3>4, <3>5 DEF tbl
  <2>4. ASSUME NEW a \in Addr, NEW d \in Addr, NEW c \in Cost, RxAck(a, d, c)
        PROVE  parent' = parent \/ Justified(nbr', parent', rank')
    <3>1. PICK i \in slot_for(nbr, a) :
            LinkAckResult(tn_neighbor_note_frame(nbr, i, a, c), d, a = d,
                          added(a), <<Event("TX_DONE")>>)
      BY <2>4 DEF RxAck
    <3> DEFINE mid == tn_neighbor_note_frame(nbr, i, a, c)
               tbl == ack_counted(mid, d, a = d)
               o == select_parent(t, tbl)
    <3>2. nbr' = tbl /\ (parent' = parent \/ (parent' = o.parent /\ rank' = o.rank))
      BY <3>1 DEF LinkAckResult, Apply, KeepRouting
    <3>3. TypeOK /\ TableOK(mid)
      <4>1. mid = tn_neighbor_note_frame(nbr, i, a, c)
        OBVIOUS
      <4>2. TypeOK /\ TableOK(nbr)
        BY <1>1 DEF Inv
      <4> HIDE DEF mid
      <4> QED BY <4>1, <4>2, NoteFrame
    <3>4. TableOK(tbl)
      <4> HIDE DEF mid
      <4> QED BY <3>3, AckCounted, Zenon
    <3> HIDE DEF tbl
    <3>5. Justified(tbl, o.parent, o.rank)
      BY <1>1, <3>4, SelectJustified
    <3> QED BY <3>2, <3>5
  <2>5. ASSUME NEW a \in Addr, NEW c \in Cost, RxFrame(a, c) PROVE parent' = parent
    BY <2>5 DEF RxFrame, KeepRouting
  <2>6. Tick \/ SkipMaintenance \/ PollEnd \/ UNCHANGED vars => parent' = parent
    BY Zenon DEF Tick, SkipMaintenance, PollEnd, vars
  <2>7. RoutingTick \/ AgeNeighbor => phase' # "rx"
    BY DEF RoutingTick, AgeNeighbor
  <2>8. ASSUME NEW d \in Addr, TxFail(d) PROVE phase' # "rx"
    BY <2>8 DEF TxFail
  <2> HIDE DEF Step1
  <2> QED BY <1>1, <2>1, <2>2, <2>3, <2>4, <2>5, <2>6, <2>7, <2>8 DEF Next
<1>2. Inv /\ [Next]_vars => [Step1]_vars
  BY <1>1
<1> QED BY <1>2, Invariance, PTL DEF Spec, NoFlapping
=============================================================================
