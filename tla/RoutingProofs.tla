--------------------------- MODULE RoutingProofs ---------------------------
(***************************************************************************)
(* What the decision of routing/routing.c guarantees, for every neighbour  *)
(* table and every setting of the constants.                               *)
(***************************************************************************)
EXTENDS Routing, WellFoundedInduction, TLAPS

\* Every set of naturals has a least element.
LEMMA LeastNat ==
  ASSUME NEW T, T \subseteq Nat, T # {}
  PROVE  \E x \in T : \A y \in T : x <= y
<1>1. PICK x \in T : \A y \in T : ~(<<y, x>> \in OpToRel(<, Nat))
  BY NatLessThanWellFounded, WFMin
<1>2. ASSUME NEW y \in T PROVE x <= y
  <2>1. x \in Nat /\ y \in Nat
    OBVIOUS
  <2>2. ~(y < x)
    BY <1>1, <2>1, Zenon DEF OpToRel
  <2> QED BY <2>1, <2>2
<1> QED BY <1>2
-----------------------------------------------------------------------------
\* The entries a decision looks at have an address, a rank and a link cost.
Readable(A, nbr, S) ==
  \A i \in S : /\ nbr[i].addr \in A /\ nbr[i].addr # Invalid
               /\ nbr[i].rank \in Nat /\ nbr[i].link_cost \in Nat

\* A candidate rank is a rank; a finite one means a router and lies above the
\* rank the neighbour advertised (tn_routing_candidate_rank).
LEMMA CandidateRank ==
  ASSUME NEW e, e.rank \in Nat, e.link_cost \in Nat
  PROVE  /\ candidate_rank(e) \in 0 .. Inf
         /\ candidate_rank(e) # Inf => /\ e.router
                                       /\ candidate_rank(e) < Inf
                                       /\ candidate_rank(e) = e.rank + Step + e.link_cost
                                       /\ e.rank < candidate_rank(e)
BY RankAssumption DEF candidate_rank

\* When there is a candidate, best_candidate is one, and none has a lower rank.
LEMMA BestCandidate ==
  ASSUME NEW A, NEW st, NEW nbr, NEW S, S \subseteq Nat, Readable(A, nbr, S),
         candidates(st, nbr, S) # {}
  PROVE  /\ best_candidate(st, nbr, S) \in candidates(st, nbr, S)
         /\ \A j \in candidates(st, nbr, S) :
              candidate_rank(nbr[best_candidate(st, nbr, S)]) <= candidate_rank(nbr[j])
<1> DEFINE C == candidates(st, nbr, S)
           R == {candidate_rank(nbr[i]) : i \in C}
           lowest == {i \in C : \A j \in C : candidate_rank(nbr[i]) <= candidate_rank(nbr[j])}
<1>1. C \subseteq S
  BY DEF candidates
<1>2. \A i \in C : candidate_rank(nbr[i]) \in Nat
  <2>1. \A i \in C : nbr[i].rank \in Nat /\ nbr[i].link_cost \in Nat
    BY <1>1 DEF Readable
  <2> HIDE DEF C
  <2> QED BY <2>1, CandidateRank, RankAssumption
<1>3. R \subseteq Nat /\ R # {}
  BY <1>2
<1>4. PICK x \in R : \A y \in R : x <= y
  BY <1>3, LeastNat, Zenon
<1>5. lowest # {}
  BY <1>4
<1>6. lowest \subseteq Nat
  BY <1>1, Zenon
<1>7. PICK i \in lowest : \A j \in lowest : i <= j
  BY <1>5, <1>6, LeastNat, Zenon
<1>8. best_candidate(st, nbr, S) = CHOOSE k \in lowest : \A j \in lowest : k <= j
  BY DEF best_candidate
<1>9. best_candidate(st, nbr, S) \in lowest
  BY <1>7, <1>8
<1> QED BY <1>9
-----------------------------------------------------------------------------
(* A decision, for any role but the Master, is one of three.               *)

\* Stay with a usable parent of finite rank.
Stays(st, nbr, S, o) ==
  \E i \in cur_alive(st, nbr, S) : o = keep_parent(st, candidate_rank(nbr[i]))

\* Switch to the best usable candidate; away from such a parent only when
\* dwell time and hysteresis allow it.
Switches(st, nbr, S, dwellOk, o) ==
  \E i \in candidates(st, nbr, S) :
    /\ o = routing_set_parent(st, nbr[i].addr, candidate_rank(nbr[i]))
    /\ \A j \in candidates(st, nbr, S) : candidate_rank(nbr[i]) <= candidate_rank(nbr[j])
    /\ cur_alive(st, nbr, S) # {} =>
         /\ dwellOk /\ nbr[i].addr # st.parent
         /\ \E k \in cur_alive(st, nbr, S) :
              clearly_better(candidate_rank(nbr[i]), candidate_rank(nbr[k]))

\* Give up, as there is no candidate.
GivesUp(st, nbr, S, o) ==
  /\ cur_alive(st, nbr, S) = {} /\ candidates(st, nbr, S) = {}
  /\ o = no_parent(st)

\* The routing state of a node whose addresses are in A.
State(A) == [role : {"MASTER", "NODE", "LEAF"}, addr : A, parent : A,
             rank : Nat, connected : BOOLEAN, joined : BOOLEAN]

\* tn_routing_select_parent stays, switches or gives up.
LEMMA SelectCases ==
  ASSUME NEW A, NEW st \in State(A), NEW nbr, NEW S, NEW dwellOk \in BOOLEAN,
         S \subseteq Nat, Readable(A, nbr, S), st.role # "MASTER"
  PROVE  LET o == tn_routing_select_parent(st, nbr, S, dwellOk)
         IN  \/ Stays(st, nbr, S, o)
             \/ Switches(st, nbr, S, dwellOk, o)
             \/ GivesUp(st, nbr, S, o)
<1> DEFINE o == tn_routing_select_parent(st, nbr, S, dwellOk)
           C == candidates(st, nbr, S)
           b == best_candidate(st, nbr, S)
           cur == cur_alive(st, nbr, S)
           k == CHOOSE i \in cur : TRUE
           cr == candidate_rank(nbr[k])
           br == candidate_rank(nbr[b])
           ba == nbr[b].addr
           better == C # {} /\ ba # st.parent /\ dwellOk /\ clearly_better(br, cr)
<1>1. o = IF cur # {}
            THEN IF better THEN routing_set_parent([st EXCEPT !.rank = cr], ba, br)
                           ELSE keep_parent(st, cr)
          ELSE IF C # {} THEN routing_set_parent(st, ba, br) ELSE no_parent(st)
  BY DEF tn_routing_select_parent
<1>2. C # {} => b \in C /\ \A j \in C : br <= candidate_rank(nbr[j])
  BY BestCandidate, Zenon
<1>3. cur # {} => k \in cur
  OBVIOUS
<1>4. ASSUME NEW a, NEW r, NEW q
      PROVE  routing_set_parent([st EXCEPT !.rank = q], a, r) = routing_set_parent(st, a, r)
  BY DEF routing_set_parent, outcome, State
<1>5. CASE cur # {} /\ better
  <2>1. o = routing_set_parent(st, ba, br)
    BY <1>1, <1>4, <1>5
  <2>2. Switches(st, nbr, S, dwellOk, o)
    <3> HIDE DEF o, br, cr, ba
    <3>1. b \in C /\ k \in cur
      BY <1>2, <1>3, <1>5
    <3>2. dwellOk /\ ba # st.parent /\ clearly_better(br, cr)
      BY <1>5
    <3> QED BY <1>2, <2>1, <3>1, <3>2 DEF Switches, br, cr, ba
  <2> QED BY <2>2
<1>6. CASE cur # {} /\ ~better
  <2>1. o = keep_parent(st, cr) /\ k \in cur
    BY <1>1, <1>3, <1>6
  <2> QED BY <2>1, Zenon DEF Stays
<1>7. CASE cur = {} /\ C # {}
  <2>1. o = routing_set_parent(st, ba, br) /\ b \in C
    BY <1>1, <1>2, <1>7
  <2> QED BY <1>2, <1>7, <2>1 DEF Switches
<1>8. CASE cur = {} /\ C = {}
  BY <1>1, <1>8 DEF GivesUp
<1> QED BY <1>5, <1>6, <1>7, <1>8

\* The events a decision may raise.
Raisable == {<<>>, <<"JOINED", "NETWORK_READY">>, <<"PARENT_CHANGED">>, <<"ROUTE_LOST">>}

\* What a decision o from the state st promises: a parent is an entry of S, and
\* the rank is that entry's candidate rank.
Sound(A, st, nbr, S, o) ==
  /\ o.parent \in A /\ o.rank \in 0 .. Inf
  /\ o.connected \in BOOLEAN /\ o.joined \in BOOLEAN
  /\ o.set \in BOOLEAN /\ o.advertised \in BOOLEAN
  /\ o.events \in Raisable
  /\ o.parent \notin {st.parent, Invalid} => o.set /\ o.advertised
  /\ o.connected <=> o.parent # Invalid
  /\ o.connected => o.joined
  /\ o.parent = Invalid => o.rank = Inf
  /\ o.parent # Invalid =>
       \E i \in S : /\ nbr[i].addr = o.parent
                    /\ o.rank = candidate_rank(nbr[i]) /\ o.rank < Inf

\* What holds of the routing state after a decision, however it comes about:
\* a node with a parent is connected, and has the candidate rank of a usable
\* entry of that parent; one without has an infinite rank; and a new parent is
\* recorded and advertised as one.
LEMMA Decision ==
  ASSUME NEW A, Invalid \in A, NEW st \in State(A), NEW nbr, NEW S,
         NEW dwellOk \in BOOLEAN, S \subseteq Nat, Readable(A, nbr, S),
         st.role # "MASTER",
         st.rank \in 0 .. Inf,
         st.connected <=> st.parent # Invalid,
         st.connected => st.joined,
         st.parent = Invalid => st.rank = Inf
  PROVE  Sound(A, st, nbr, S, tn_routing_select_parent(st, nbr, S, dwellOk))
<1> DEFINE o == tn_routing_select_parent(st, nbr, S, dwellOk)
<1>1. CASE Stays(st, nbr, S, o)
  <2>1. PICK i \in cur_alive(st, nbr, S) : o = keep_parent(st, candidate_rank(nbr[i]))
    BY <1>1 DEF Stays
  <2> DEFINE r == candidate_rank(nbr[i])
  <2>2. i \in S /\ st.parent # Invalid /\ nbr[i].addr = st.parent /\ r # Inf
    BY <2>1 DEF cur_alive
  <2>3. r \in 0 .. Inf /\ r < Inf
    BY <2>2, CandidateRank DEF Readable
  <2> HIDE DEF r
  <2>4. /\ o.parent = st.parent /\ o.rank = r /\ o.connected = st.connected
        /\ o.joined = st.joined /\ o.set = FALSE /\ o.advertised = FALSE /\ o.events = <<>>
    BY <2>1 DEF keep_parent, outcome, State, r
  <2> HIDE DEF o
  <2>5. st.parent \in A /\ st.connected \in BOOLEAN /\ st.joined \in BOOLEAN
    BY DEF State
  <2>6. o.parent # Invalid =>
          \E j \in S : /\ nbr[j].addr = o.parent
                       /\ o.rank = candidate_rank(nbr[j]) /\ o.rank < Inf
    BY <2>2, <2>3, <2>4 DEF r
  <2>7. o.events \in Raisable
    BY <2>4 DEF Raisable
  <2> QED BY <2>2, <2>3, <2>4, <2>5, <2>6, <2>7, Zenon DEF Sound, o
<1>2. CASE Switches(st, nbr, S, dwellOk, o)
  <2>1. PICK i \in candidates(st, nbr, S) :
          o = routing_set_parent(st, nbr[i].addr, candidate_rank(nbr[i]))
    BY <1>2 DEF Switches
  <2> DEFINE r == candidate_rank(nbr[i])
             a == nbr[i].addr
  <2>2. i \in S /\ r < Inf /\ a \in A /\ a # Invalid
    BY <2>1 DEF candidates, Readable
  <2>3. r \in 0 .. Inf
    BY <2>2, CandidateRank DEF Readable
  <2> HIDE DEF r, a
  <2>4. /\ o.parent = a /\ o.rank = r /\ o.connected = TRUE /\ o.joined = TRUE
        /\ o.set = TRUE /\ o.advertised = (a # st.parent \/ ~st.joined)
    BY <2>1 DEF routing_set_parent, outcome, State, r, a
  <2>5. o.events \in Raisable
    BY <2>1 DEF routing_set_parent, outcome, Raisable
  <2> HIDE DEF o
  <2>6. o.parent # Invalid =>
          \E j \in S : /\ nbr[j].addr = o.parent
                       /\ o.rank = candidate_rank(nbr[j]) /\ o.rank < Inf
    BY <2>2, <2>3, <2>4 DEF r, a
  <2>7. o.advertised \in BOOLEAN /\ (o.parent # st.parent => o.advertised)
    BY <2>4, Zenon
  <2> QED BY <2>2, <2>3, <2>4, <2>5, <2>6, <2>7, RankAssumption, Zenon DEF Sound, o
<1>3. CASE GivesUp(st, nbr, S, o)
  <2>1. CASE st.connected \/ st.parent # Invalid
    <3>1. o.parent = Invalid /\ o.rank = Inf /\ o.connected = FALSE
          /\ o.joined = st.joined /\ o.set = FALSE /\ o.advertised = FALSE
          /\ o.events \in Raisable
      BY <1>3, <2>1 DEF GivesUp, no_parent, outcome, State, Raisable
    <3> HIDE DEF o
    <3>2. st.joined \in BOOLEAN
      BY DEF State
    <3>3. o.rank \in 0 .. Inf
      BY <3>1, RankAssumption
    <3> QED BY <3>1, <3>2, <3>3, Zenon DEF Sound, o
  <2>2. CASE ~(st.connected \/ st.parent # Invalid)
    <3>1. o.parent = Invalid /\ o.rank = st.rank /\ o.connected = st.connected
          /\ o.joined = st.joined /\ o.set = FALSE /\ o.advertised = FALSE
          /\ o.events \in Raisable
      BY <1>3, <2>2 DEF GivesUp, no_parent, outcome, State, Raisable
    <3> HIDE DEF o
    <3>2. st.joined \in BOOLEAN /\ st.connected \in BOOLEAN /\ st.parent = Invalid
      BY <2>2 DEF State
    <3> QED BY <2>2, <3>1, <3>2, RankAssumption, Zenon DEF Sound, o
  <2> QED BY <2>1, <2>2
<1> QED BY <1>1, <1>2, <1>3, SelectCases

\* The hysteresis test compares with something no larger than the rank.
LEMMA ClearlyBetter ==
  ASSUME NEW best \in Nat, NEW cur \in Nat, clearly_better(best, cur)
  PROVE  best < cur
<1> DEFINE p == 100 - Hyst
<1>1. p \in 0 .. 100
  BY RankAssumption
<1>2. cur * p \in Nat /\ cur * p <= cur * 100
  <2> HIDE DEF p
  <2> QED BY <1>1, SMTT(30)
<1> DEFINE m == cur * p
<1>3. best < m \div 100
  BY DEF clearly_better
<1> HIDE DEF m
<1>4. m \in Nat /\ m <= cur * 100
  BY <1>2 DEF m
<1> QED BY <1>3, <1>4
=============================================================================
