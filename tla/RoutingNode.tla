---------------------------- MODULE RoutingNode ----------------------------
(***************************************************************************)
(* One node's neighbour table and parent, over the whole of treenet_poll:  *)
(* frames drained from the receive ring (tn_rx_drain), the parent check    *)
(* (tn_routing_tick), neighbour ageing (tn_age_neighbors), failed reliable *)
(* frames (tn_tx_poll) and event delivery (tn_events_flush).  phase says   *)
(* how far the poll has come; the clock advances between polls only, since *)
(* a poll reads it once.                                                   *)
(*                                                                         *)
(* Frames come from the air in any order and at any time.  What the radio  *)
(* measures is abstracted to the link cost computed from it, which any     *)
(* frame may change.  Transmit slots, routes and the data plane are not    *)
(* part of this module: a reliable frame is acknowledged, or fails, at any *)
(* time, and dao records to whom tn_dao_send was last told to send.        *)
(***************************************************************************)
EXTENDS Routing, WrapTime, Sequences

CONSTANTS
  Self,            \* t->addr
  Addr,            \* addresses of other nodes
  Leaf,            \* those whose role is LEAF; the others are routers
  Slots,           \* TREENET_MAX_NEIGHBORS
  Rank,            \* ranks that beacons advertise
  Cost,            \* link costs
  EvQ,             \* TREENET_EVENT_QUEUE_SIZE
  ParentTimeout,   \* TREENET_PARENT_TIMEOUT_MS
  NeighborTimeout, \* TREENET_NEIGHBOR_TIMEOUT_MS
  Dwell,           \* TREENET_PARENT_DWELL_MS
  Suspect,         \* TREENET_LINK_SUSPECT_MS
  FailThreshold,   \* TREENET_ACK_FAIL_THRESHOLD
  Roles,           \* roles to consider
  Boot,            \* instants at which the node may start
  LastTime         \* the clock stops there; -1: it never stops

ASSUME NodeAssumption ==
  /\ Leaf \subseteq Addr
  /\ Self \notin Addr /\ Invalid \notin Addr /\ Invalid # Self
  /\ Slots \in Nat \ {0}
  /\ Rank \subseteq 0 .. Inf /\ Cost \subseteq Nat
  /\ EvQ \in Nat \ {0}
  /\ ParentTimeout \in Nat /\ NeighborTimeout \in Nat /\ Dwell \in Nat
  /\ Suspect \in Nat /\ FailThreshold \in Nat \ {0}
  /\ Roles \subseteq {"MASTER", "NODE"}   \* LEAF and REPEATER route as NODE
  /\ Boot \subseteq Time

VARIABLES
  role, now,
  phase,      \* "idle" between polls, then "rx", "age" and "tx"
  aging,      \* slot the ageing loop has reached
  nbr,        \* t->neighbors.entries
  parent, rank, connected, joined,
  since,      \* t->parent_since
  pbeacon,    \* t->parent_beacon_ms
  events,     \* t->events, oldest first
  dao,        \* where the last DAO was sent to
  app,        \* the application: connected, as far as its events tell
  dropped     \* an event was dropped from the full queue

vars == <<role, now, phase, aging, nbr, parent, rank, connected, joined,
          since, pbeacon, events, dao, app, dropped>>

Slot == 1 .. Slots
t == [role |-> role, addr |-> Self, parent |-> parent, rank |-> rank,
      connected |-> connected, joined |-> joined]
-----------------------------------------------------------------------------
(* link/neighbor.c                                                         *)

Entry == [valid : BOOLEAN, addr : Addr \cup {Invalid}, rank : 0 .. Inf,
          router : BOOLEAN, link_cost : Nat, last_seen : Time,
          ack_fail : Nat, suspect_until : Time]

\* An entry after memset(); a free slot has this content.
Blank == [valid |-> FALSE, addr |-> Invalid, rank |-> 0, router |-> FALSE,
          link_cost |-> 0, last_seen |-> 0, ack_fail |-> 0, suspect_until |-> 0]

\* Mutant: the search stops one slot early.
tn_neighbor_find_short(tbl, a) == {i \in 1 .. Slots - 1 : tbl[i].valid /\ tbl[i].addr = a}

tn_neighbor_find(tbl, a) == {i \in Slot : tbl[i].valid /\ tbl[i].addr = a}

\* The first free slot, else the last of the longest silent ones.
neighbor_oldest(tbl) ==
  LET free == {i \in Slot : ~tbl[i].valid}
      age(i) == tn_elapsed(tbl[i].last_seen, now)
  IN  IF free # {} THEN {i \in free : \A j \in free : i <= j}
      ELSE {i \in Slot : \A j \in Slot : age(j) < age(i) \/ (age(j) = age(i) /\ j <= i)}

\* The slot tn_neighbor_get_or_create returns for a.
slot_for(tbl, a) ==
  IF tn_neighbor_find(tbl, a) # {} THEN tn_neighbor_find(tbl, a) ELSE neighbor_oldest(tbl)

get_or_create(tbl, i, a) ==
  IF tn_neighbor_find(tbl, a) # {} THEN tbl
  ELSE [tbl EXCEPT ![i] = [Blank EXCEPT !.valid = TRUE, !.addr = a, !.last_seen = now]]

tn_neighbor_note_frame(tbl, i, a, cost) ==
  [get_or_create(tbl, i, a) EXCEPT ![i].last_seen = now, ![i].link_cost = cost]

\* The entry exists: tn_rx_drain has called tn_neighbor_note_frame before.
tn_neighbor_note_beacon(tbl, i, b, cost) ==
  [tbl EXCEPT ![i].rank = b.rank, ![i].router = (b.src \notin Leaf),
              ![i].last_seen = now, ![i].link_cost = cost]
-----------------------------------------------------------------------------
(* Freshness and suspicion of a link.                                      *)

neighbor_fresh(e) == e.valid /\ tn_elapsed(e.last_seen, now) <= ParentTimeout

\* Mutant: the arguments of tn_time_after are swapped.
neighbor_usable_swapped(e) == neighbor_fresh(e) /\ ~tn_time_after(now, e.suspect_until)

neighbor_usable(e) == neighbor_fresh(e) /\ ~tn_time_after(e.suspect_until, now)
usable(tbl) == {i \in Slot : neighbor_usable(tbl[i])}
dwell_ok == tn_elapsed(since, now) >= Dwell

\* Mutant: no dwell time.
select_parent_at_once(st, tbl) == tn_routing_select_parent(st, tbl, usable(tbl), TRUE)

select_parent(st, tbl) == tn_routing_select_parent(st, tbl, usable(tbl), dwell_ok)
-----------------------------------------------------------------------------
(* The event queue.  The argument of PARENT_CHANGED is a pointer to        *)
(* t->parent; arg remembers, for the properties, what it pointed to when   *)
(* the event was raised.                                                   *)

Event(name) == [ev |-> name, arg |-> Invalid]
raised(o) ==
  [k \in DOMAIN o.events |->
     [ev |-> o.events[k],
      arg |-> IF o.events[k] = "PARENT_CHANGED" THEN o.parent ELSE Invalid]]

\* Mutant: a full queue is not noticed.
EmitUnbounded(list) == events' = events \o list /\ UNCHANGED dropped

\* tn_emit_event, for each event of a list: the oldest make room.
EmitEvents(list) ==
  LET all == events \o list
      over == IF Len(all) > EvQ THEN Len(all) - EvQ ELSE 0
  IN  /\ events' = SubSeq(all, over + 1, Len(all))
      /\ dropped' = (dropped \/ over > 0)

\* The routing state after a decision o; pb is parent_beacon_ms before it.
Apply(o, pb, list) ==
  /\ parent' = o.parent /\ rank' = o.rank
  /\ connected' = o.connected /\ joined' = o.joined
  /\ since' = IF o.set THEN now ELSE since
  /\ pbeacon' = IF o.set THEN now ELSE pb
  /\ dao' = IF o.advertised THEN o.parent ELSE dao
  /\ EmitEvents(list)

KeepRouting(list) ==
  /\ UNCHANGED <<parent, rank, connected, joined, since, pbeacon, dao>>
  /\ EmitEvents(list)
-----------------------------------------------------------------------------
(* treenet_poll                                                            *)

Init ==
  /\ role \in Roles /\ now \in Boot
  /\ phase = "idle" /\ aging = 1
  /\ nbr = [i \in Slot |-> Blank]
  /\ parent = Invalid
  /\ rank = (IF role = "MASTER" THEN 0 ELSE Inf)
  /\ connected = (role = "MASTER") /\ joined = (role = "MASTER")
  /\ since = 0 /\ pbeacon = 0
  /\ events = <<>> /\ dao = Invalid
  /\ app = (role = "MASTER") /\ dropped = FALSE

Tick ==
  /\ phase = "idle" /\ now # LastTime
  /\ now' = later(now, 1)
  /\ UNCHANGED <<role, phase, aging, nbr, parent, rank, connected, joined,
                 since, pbeacon, events, dao, app, dropped>>

\* treenet_poll starts with the first frame it drains, or without any.
draining == phase \in {"idle", "rx"}

added(a) ==
  IF tn_neighbor_find(nbr, a) = {} THEN <<Event("NEIGHBOR_ADDED")>> ELSE <<>>

\* A frame whose handler leaves routing alone, or a beacon that fails the
\* sanity checks of tn_process_frame.
RxFrame(a, cost) ==
  /\ draining /\ phase' = "rx"
  /\ \E i \in slot_for(nbr, a) : nbr' = tn_neighbor_note_frame(nbr, i, a, cost)
  /\ KeepRouting(added(a))
  /\ UNCHANGED <<role, now, aging, app>>

\* An acceptable beacon: tn_routing_on_beacon.
RxBeacon(b, cost) ==
  /\ draining /\ phase' = "rx"
  /\ \E i \in slot_for(nbr, b.src) :
       nbr' = tn_neighbor_note_beacon(tn_neighbor_note_frame(nbr, i, b.src, cost), i, b, cost)
  /\ LET o == select_parent(t, nbr')
     IN  Apply(o, IF b.src = parent THEN now ELSE pbeacon, added(b.src) \o raised(o))
  /\ UNCHANGED <<role, now, aging, app>>

\* The failure count of the next hop d reaches the threshold.
trips(tbl, d) ==
  \E i \in tn_neighbor_find(tbl, d) : tbl[i].ack_fail + 1 >= FailThreshold

\* tn_link_ack_result: what it does to the entry of d ...
ack_counted(tbl, d, acked_by_dst) ==
  [i \in Slot |->
     IF i \notin tn_neighbor_find(tbl, d) THEN tbl[i]
     ELSE IF acked_by_dst
       THEN [tbl[i] EXCEPT !.ack_fail = 0, !.suspect_until = 0]
     ELSE IF trips(tbl, d)
       THEN [tbl[i] EXCEPT !.ack_fail = 0, !.suspect_until = later(now, Suspect)]
     ELSE [tbl[i] EXCEPT !.ack_fail = @ + 1]]

\* ... and to the parent: a parent that became suspect is replaced at once.
LinkAckResult(tbl, d, acked_by_dst, before, after) ==
  /\ nbr' = ack_counted(tbl, d, acked_by_dst)
  /\ IF ~acked_by_dst /\ trips(tbl, d) /\ d = parent
       THEN LET o == select_parent(t, nbr')
            IN  Apply(o, pbeacon, before \o raised(o) \o after)
       ELSE KeepRouting(before \o after)

\* An ACK from a, matching a pending reliable frame meant for d: tn_handle_ack.
RxAck(a, d, cost) ==
  /\ draining /\ phase' = "rx"
  /\ \E i \in slot_for(nbr, a) :
       LinkAckResult(tn_neighbor_note_frame(nbr, i, a, cost), d, a = d,
                     added(a), <<Event("TX_DONE")>>)
  /\ UNCHANGED <<role, now, aging, app>>

\* tn_routing_on_parent_lost, with the table already changed.
ParentLost(tbl, before) ==
  LET o == select_parent(forget_parent(t), tbl)
  IN  Apply(o, pbeacon, before \o <<Event("DISCONNECTED")>> \o raised(o))

\* Mutant: an evicted parent goes unnoticed until its beacons are overdue.
parent_overdue ==
  role # "MASTER" /\ parent # Invalid /\ tn_elapsed(pbeacon, now) > ParentTimeout

parent_dead ==
  /\ role # "MASTER" /\ parent # Invalid
  /\ \/ tn_neighbor_find(nbr, parent) = {}
     \/ tn_elapsed(pbeacon, now) > ParentTimeout

RoutingTick ==
  /\ draining
  /\ IF parent_dead THEN ParentLost(nbr, <<>>) ELSE KeepRouting(<<>>)
  /\ phase' = "age" /\ aging' = 1
  /\ UNCHANGED <<role, now, nbr, app>>

\* Maintenance is skipped when next_maint_deadline is not 0, hence only when
\* no neighbour is due.
SkipMaintenance ==
  /\ phase = "age" /\ aging = 1
  /\ \A i \in Slot : nbr[i].valid =>
       deadline_in(later(nbr[i].last_seen, NeighborTimeout), now) # 0
  /\ phase' = "tx"
  /\ UNCHANGED <<role, now, aging, nbr, parent, rank, connected, joined,
                 since, pbeacon, events, dao, app, dropped>>

\* One round of the loop of tn_age_neighbors.
AgeNeighbor ==
  /\ phase = "age"
  /\ LET e == nbr[aging]
         gone == e.valid /\ tn_elapsed(e.last_seen, now) > NeighborTimeout
     IN  /\ nbr' = IF gone THEN [nbr EXCEPT ![aging] = Blank] ELSE nbr
         /\ IF gone /\ e.addr = parent
              THEN ParentLost(nbr', <<Event("NEIGHBOR_REMOVED")>>)
              ELSE KeepRouting(IF gone THEN <<Event("NEIGHBOR_REMOVED")>> ELSE <<>>)
  /\ IF aging = Slots THEN phase' = "tx" /\ aging' = 1
                      ELSE phase' = phase /\ aging' = aging + 1
  /\ UNCHANGED <<role, now, app>>

\* tn_tx_poll gives up on a reliable frame meant for d.
TxFail(d) ==
  /\ phase = "tx"
  /\ LinkAckResult(nbr, d, FALSE, <<>>, <<Event("TX_FAILED")>>)
  /\ UNCHANGED <<role, now, phase, aging, app>>

Up == {"JOINED", "PARENT_CHANGED"}
Down == {"ROUTE_LOST", "DISCONNECTED"}

\* tn_events_flush.  The application follows the connection by its events;
\* the last one of them decides.
PollEnd ==
  /\ phase = "tx" /\ phase' = "idle"
  /\ app' = LET told == {k \in DOMAIN events : events[k].ev \in Up \cup Down}
            IN  IF told = {} THEN app
                ELSE \E k \in told : events[k].ev \in Up /\ \A j \in told : j <= k
  /\ events' = <<>>
  /\ UNCHANGED <<role, now, aging, nbr, parent, rank, connected, joined,
                 since, pbeacon, dao, dropped>>
-----------------------------------------------------------------------------
Beacon == [src : Addr, rank : Rank]

Next ==
  \/ Tick
  \/ \E a \in Addr, c \in Cost : RxFrame(a, c)
  \/ \E b \in Beacon, c \in Cost : RxBeacon(b, c)
  \/ \E a, d \in Addr, c \in Cost : RxAck(a, d, c)
  \/ RoutingTick \/ SkipMaintenance \/ AgeNeighbor
  \/ \E d \in Addr : TxFail(d)
  \/ PollEnd

Spec == Init /\ [][Next]_vars
-----------------------------------------------------------------------------
EventName == {"JOINED", "NETWORK_READY", "PARENT_CHANGED", "ROUTE_LOST",
              "DISCONNECTED", "NEIGHBOR_ADDED", "NEIGHBOR_REMOVED",
              "TX_DONE", "TX_FAILED"}

TypeOK ==
  /\ role \in Roles /\ now \in Time
  /\ phase \in {"idle", "rx", "age", "tx"} /\ aging \in Slot
  /\ nbr \in [Slot -> Entry]
  /\ parent \in Addr \cup {Invalid} /\ rank \in 0 .. Inf
  /\ connected \in BOOLEAN /\ joined \in BOOLEAN
  /\ since \in Time /\ pbeacon \in Time
  /\ events \in Seq([ev : EventName, arg : Addr \cup {Invalid}])
  /\ Len(events) <= EvQ
  /\ dao \in Addr \cup {Invalid}
  /\ app \in BOOLEAN /\ dropped \in BOOLEAN

\* Between any two handlers, connected, parent and rank tell the same story:
\* a Master is its own root, any other node is connected exactly if it has a
\* parent and a finite rank, and then it has joined.
StateConsistent ==
  IF role = "MASTER" THEN connected /\ rank = 0 /\ parent = Invalid
  ELSE /\ connected <=> parent # Invalid
       /\ connected <=> rank < Inf
       /\ connected => joined

\* No neighbour has two entries, so that every lookup by address, and the
\* eviction of the longest silent entry, hits the only one.
OneEntryPerNeighbor ==
  \A i, j \in Slot :
    nbr[i].valid /\ nbr[j].valid /\ nbr[i].addr = nbr[j].addr => i = j

\* A node's rank is above the rank its parent last advertised, although the
\* parent's entry may be evicted and created again by any frame, and its link
\* cost changes without a new decision.
RankAboveParent ==
  \A i \in Slot : nbr[i].valid /\ parent # Invalid /\ nbr[i].addr = parent =>
    rank > nbr[i].rank

\* Once tn_routing_tick has run, the parent is in the neighbour table and its
\* silence is no longer than TREENET_PARENT_TIMEOUT_MS, whatever was evicted
\* or aged out in this poll.
ParentAlive ==
  phase \in {"age", "tx"} /\ parent # Invalid =>
    /\ tn_neighbor_find(nbr, parent) # {}
    /\ tn_elapsed(pbeacon, now) <= ParentTimeout

\* The latest DAO went to the current parent: no switch, on any of the paths
\* that lead to one, is left unadvertised.
DaoFollowsParent == parent # Invalid => dao = parent

\* An application that counts itself connected after JOINED or
\* PARENT_CHANGED and disconnected after ROUTE_LOST or DISCONNECTED agrees
\* with treenet_is_connected() after every poll, unless the queue overflowed.
AppTracksConnection == phase = "idle" /\ ~dropped => app = connected

\* While the parent is usable, the node leaves it only for a candidate that
\* is clearly better, and not before the dwell time has passed.
NoFlapping ==
  [][\A i \in Slot :
       /\ parent # Invalid /\ parent' \notin {parent, Invalid} /\ phase' = "rx"
       /\ nbr'[i].addr = parent /\ neighbor_usable(nbr'[i])
       /\ candidate_rank(nbr'[i]) < Inf
       => dwell_ok /\ clearly_better(rank', candidate_rank(nbr'[i]))]_vars

\* A beacon from a router with a finite rank, on a link that is not suspect,
\* leaves the node connected.
BeaconConnects ==
  [][\A b \in Beacon, c \in Cost, i \in Slot :
       /\ RxBeacon(b, c)
       /\ nbr'[i].valid /\ nbr'[i].addr = b.src /\ nbr'[i].suspect_until = 0
       /\ candidate_rank(nbr'[i]) < Inf
       => connected']_vars

\* A parent whose beacons stop is given up after TREENET_PARENT_TIMEOUT_MS.
SilentParentDropped ==
  [][RoutingTick /\ parent # Invalid /\ tn_elapsed(pbeacon, now) > ParentTimeout
       => parent' # parent]_vars

\* When PARENT_CHANGED is delivered, its argument points to the new parent.
ParentChangedArg ==
  [][PollEnd => \A k \in DOMAIN events :
                  events[k].ev = "PARENT_CHANGED" => events[k].arg = parent]_vars
=============================================================================
