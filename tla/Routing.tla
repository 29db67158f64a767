------------------------------ MODULE Routing ------------------------------
(***************************************************************************)
(* routing/routing.c: the decision a node takes whenever it reconsiders    *)
(* its parent.  The functions are operators on                             *)
(*   t       the routing state of the node, a record of the fields role,   *)
(*           addr, parent, rank, connected and joined of struct treenet;   *)
(*   nbr     the neighbour table, from slots to entries;                   *)
(*   usable  the slots for which neighbor_usable() holds;                  *)
(*   dwellOk whether TREENET_PARENT_DWELL_MS have passed since the switch. *)
(* Deciding what is usable, and when, is left to the module that has the   *)
(* clock: RoutingNode for one node, Dodag for a network.                   *)
(***************************************************************************)
EXTENDS Integers

CONSTANTS Inf,       \* TREENET_RANK_INFINITE
          Step,      \* TREENET_RANK_STEP
          Hyst,      \* TREENET_PARENT_HYSTERESIS_PCT
          Invalid    \* TREENET_ADDR_INVALID

ASSUME RankAssumption ==
  /\ Inf \in Nat \ {0}
  /\ Step \in Nat \ {0}
  /\ Hyst \in 0 .. 100

\* Mutant: the increment is computed and not added.
candidate_rank_flat(e) ==
  IF e.router /\ e.rank < Inf /\ e.rank + Step + e.link_cost < Inf THEN e.rank ELSE Inf

\* Mutant: leaves are accepted.
candidate_rank_any(e) ==
  IF e.rank < Inf /\ e.rank + Step + e.link_cost < Inf
    THEN e.rank + Step + e.link_cost ELSE Inf

\* Mutant: the sum is not capped.
candidate_rank_uncapped(e) ==
  IF e.router /\ e.rank < Inf THEN e.rank + Step + e.link_cost ELSE Inf

\* tn_routing_candidate_rank: the rank the node would have below a neighbour.
candidate_rank(e) ==
  IF e.router /\ e.rank < Inf /\ e.rank + Step + e.link_cost < Inf
    THEN e.rank + Step + e.link_cost ELSE Inf

\* The neighbours best_candidate() can return, and the one it returns: the
\* lowest slot among those of lowest rank.
candidates(t, nbr, usable) ==
  {i \in usable : nbr[i].addr # t.addr /\ candidate_rank(nbr[i]) < Inf}

best_candidate(t, nbr, usable) ==
  LET C == candidates(t, nbr, usable)
      lowest == {i \in C : \A j \in C : candidate_rank(nbr[i]) <= candidate_rank(nbr[j])}
  IN  CHOOSE i \in lowest : \A j \in lowest : i <= j
-----------------------------------------------------------------------------
(* The outcome of a decision: the new routing state, whether               *)
(* routing_set_parent() ran, whether it advertised the switch (Trickle     *)
(* reset and DAO), and the events raised, in order.                        *)

outcome(t, set, advertised, events) ==
  [parent |-> t.parent, rank |-> t.rank, connected |-> t.connected,
   joined |-> t.joined, set |-> set, advertised |-> advertised, events |-> events]

\* Mutant: whether the parent changed is asked after it was assigned.
routing_set_parent_late(t, new_parent, new_rank) ==
  outcome([t EXCEPT !.parent = new_parent, !.rank = new_rank,
                    !.connected = TRUE, !.joined = TRUE],
          TRUE, ~t.joined, IF ~t.joined THEN <<"JOINED", "NETWORK_READY">> ELSE <<>>)

routing_set_parent(t, new_parent, new_rank) ==
  LET changed == new_parent # t.parent
  IN  outcome([t EXCEPT !.parent = new_parent, !.rank = new_rank,
                        !.connected = TRUE, !.joined = TRUE],
              TRUE, changed \/ ~t.joined,
              IF ~t.joined THEN <<"JOINED", "NETWORK_READY">>
              ELSE IF changed THEN <<"PARENT_CHANGED">> ELSE <<>>)

\* Mutant: the old rank is kept, and advertised.
no_parent_keeps_rank(t) ==
  IF t.connected \/ t.parent # Invalid
    THEN outcome([t EXCEPT !.parent = Invalid, !.connected = FALSE],
                 FALSE, FALSE, <<"ROUTE_LOST">>)
    ELSE outcome(t, FALSE, FALSE, <<>>)

\* Mutant: the application is not told.
no_parent_silent(t) ==
  outcome([t EXCEPT !.parent = Invalid, !.rank = Inf, !.connected = FALSE],
          FALSE, FALSE, <<>>)

\* No viable parent at all.
no_parent(t) ==
  IF t.connected \/ t.parent # Invalid
    THEN outcome([t EXCEPT !.parent = Invalid, !.rank = Inf, !.connected = FALSE],
                 FALSE, FALSE, <<"ROUTE_LOST">>)
    ELSE outcome(t, FALSE, FALSE, <<>>)

\* The hysteresis test: best must be below cur by Hyst percent.
clearly_better(best, cur) == best < (cur * (100 - Hyst)) \div 100

\* Mutant: the rank is left alone while the parent stays.
keep_parent_old_rank(t, cur_rank) == outcome(t, FALSE, FALSE, <<>>)

\* Mutant: the step is added a second time.
keep_parent_adds_step(t, cur_rank) ==
  outcome([t EXCEPT !.rank = cur_rank + Step], FALSE, FALSE, <<>>)

\* The parent stays; the rank follows it.
keep_parent(t, cur_rank) ==
  outcome([t EXCEPT !.rank = cur_rank], FALSE, FALSE, <<>>)

\* tn_routing_select_parent for a Master.
master_selects(t) ==
  outcome([t EXCEPT !.rank = 0, !.parent = Invalid,
                    !.connected = TRUE, !.joined = TRUE],
          FALSE, FALSE,
          IF t.joined THEN <<>> ELSE <<"JOINED", "NETWORK_READY">>)

\* The usable slot of the current parent, if it has a finite rank.
cur_alive(t, nbr, usable) ==
  {i \in usable : /\ t.parent # Invalid /\ nbr[i].addr = t.parent
                  /\ candidate_rank(nbr[i]) # Inf}

tn_routing_select_parent(t, nbr, usable, dwellOk) ==
  LET viable == candidates(t, nbr, usable) # {}
      best == nbr[best_candidate(t, nbr, usable)]
      best_rank == candidate_rank(best)
      cur == cur_alive(t, nbr, usable)
      cur_rank == candidate_rank(nbr[CHOOSE i \in cur : TRUE])
  IN  IF t.role = "MASTER" THEN master_selects(t)
      ELSE IF cur # {}
        THEN IF /\ viable /\ best.addr # t.parent
                /\ dwellOk /\ clearly_better(best_rank, cur_rank)
               THEN routing_set_parent([t EXCEPT !.rank = cur_rank], best.addr, best_rank)
               ELSE keep_parent(t, cur_rank)
      ELSE IF viable THEN routing_set_parent(t, best.addr, best_rank)
      ELSE no_parent(t)

\* tn_routing_on_parent_lost forgets the parent, then looks for another one.
\* DISCONNECTED is raised before the search.
forget_parent(t) ==
  [t EXCEPT !.parent = Invalid, !.rank = Inf, !.connected = FALSE]
=============================================================================
