------------------------- MODULE DodagQuietProofs -------------------------
(***************************************************************************)
(* Without faults (no reboot, no silent neighbour, no suspect link) every  *)
(* node's rank is above its parent's own rank: the parents form a tree,    *)
(* and ranks only fall.                                                    *)
(***************************************************************************)
EXTENDS DodagProofs

\* What is on the air, and what has been heard, is at least the current rank
\* of its sender; a newer beacon never advertises more than an older one.
Announced ==
  \A n, m \in Node :
    /\ air[n][m] # None => node[m].rank <= air[n][m]
    /\ m \in fresh[n] => /\ node[m].rank <= nbr[n][m].rank
                         /\ air[n][m] # None => air[n][m] <= nbr[n][m].rank
                         /\ nbr[n][m].router = (m \notin Leaf)

\* A node's rank is the candidate rank of its parent's entry, which is fresh.
RankInStep ==
  \A n \in Node : node[n].parent # Invalid =>
    /\ node[n].parent \in fresh[n] /\ node[n].rank < Inf
    /\ node[n].rank = candidate_rank(nbr[n][node[n].parent])

Quiet == /\ faults = 0 /\ \A n \in Node : suspect[n] = {}
         /\ Announced /\ RankInStep

\* A parent's own rank is below its child's.
LEMMA QuietCloser == Inv /\ Quiet => ParentCloser
<1> SUFFICES ASSUME Inv, Quiet, NEW n \in Node, node[n].parent # Invalid
             PROVE  node[node[n].parent].rank < node[n].rank
  BY DEF ParentCloser
<1> DEFINE q == node[n].parent
<1>1. q \in Hears[n] \ Leaf /\ node[n].rank > nbr[n][q].rank
  BY DEF Inv, Below
<1>2. q \in fresh[n] /\ q \in Node
  BY <1>1, DodagAssumption DEF Quiet, RankInStep
<1>3. node[q].rank <= nbr[n][q].rank
  BY <1>2 DEF Quiet, Announced
<1>4. node[q].rank \in 0 .. Inf /\ node[n].rank \in 0 .. Inf /\ nbr[n][q].rank \in 0 .. Inf
  BY <1>2 DEF Inv, TypeOK
<1> HIDE DEF q
<1>5. node[q].rank < node[n].rank
  BY <1>1, <1>3, <1>4, RankAssumption
<1> QED BY <1>5 DEF q

\* Where every parent has a lower rank, there is no loop: a member of lowest
\* rank has its parent outside the set.
LEMMA CloserNoLoop == Inv /\ ParentCloser => NoLoop
<1> SUFFICES ASSUME Inv, ParentCloser, NEW S \in SUBSET Node, S # {}
             PROVE  \E n \in S : node[n].parent \notin S
  BY DEF NoLoop
<1> DEFINE R == {node[n].rank : n \in S}
<1>1. \A n \in Node : node[n].rank \in Nat
  BY RankAssumption DEF Inv, TypeOK
<1>2. R \subseteq Nat /\ R # {}
  BY <1>1
<1>3. PICK x \in R : \A y \in R : x <= y
  BY <1>2, LeastNat, Zenon
<1>4. PICK n \in S : \A k \in S : node[n].rank <= node[k].rank
  BY <1>3
<1>5. ASSUME node[n].parent \in S PROVE FALSE
  <2>1. node[n].parent \in Node /\ node[n].parent # Invalid
    BY <1>5, DodagAssumption, Zenon
  <2>2. node[node[n].parent].rank < node[n].rank
    BY <2>1 DEF ParentCloser
  <2> QED BY <1>1, <1>4, <1>5, <2>1, <2>2
<1> QED BY <1>5

\* The fact about one decision on which everything else rests: a node that
\* keeps hearing from its parent, at ranks that do not increase, ends up with
\* a rank no larger than before.
LEMMA DecisionFalls ==
  ASSUME NEW n \in Node, n # Master, NEW st, NodeOK(n, st), st.parent # Invalid,
         NEW tbl, TableOK(tbl), NEW S \in SUBSET Hears[n], NEW d \in BOOLEAN,
         st.parent \in S, candidate_rank(tbl[st.parent]) < Inf,
         candidate_rank(tbl[st.parent]) <= st.rank
  PROVE  tn_routing_select_parent(st, tbl, S, d).rank <= st.rank
<1> DEFINE o == tn_routing_select_parent(st, tbl, S, d)
           q == st.parent
           r == candidate_rank(tbl[q])
<1>1. S \subseteq Node /\ S \subseteq Nat
  BY DodagAssumption
<1>2. st \in State(Address) /\ st.role # "MASTER" /\ st.rank \in Nat
  BY RankAssumption DEF NodeOK, RoutingState, State, Address
<1>3. \A m \in S : /\ tbl[m].addr = m /\ m # Invalid
                   /\ tbl[m].rank \in Nat /\ tbl[m].link_cost \in Nat
  BY <1>1, DodagAssumption, RankAssumption DEF TableOK
<1>4. Readable(Address, tbl, S)
  BY <1>1, <1>3 DEF Readable, Address
<1>5. \A m \in S : candidate_rank(tbl[m]) \in Nat
  BY <1>3, CandidateRank, RankAssumption
<1>6. cur_alive(st, tbl, S) = {q}
  <2>1. r # Inf
    BY <1>5, RankAssumption
  <2> QED BY <1>3, <2>1 DEF cur_alive
<1>7. CASE Stays(st, tbl, S, o)
  <2>1. o = keep_parent(st, r)
    BY <1>6, <1>7 DEF Stays
  <2>2. o.rank = r
    BY <1>2, <2>1 DEF keep_parent, outcome, State
  <2> QED BY <2>2
<1>8. CASE Switches(st, tbl, S, d, o)
  <2>1. PICK i \in candidates(st, tbl, S) :
          /\ o = routing_set_parent(st, tbl[i].addr, candidate_rank(tbl[i]))
          /\ clearly_better(candidate_rank(tbl[i]), r)
    BY <1>6, <1>8 DEF Switches
  <2>2. o.rank = candidate_rank(tbl[i]) /\ i \in S
    BY <1>2, <2>1 DEF routing_set_parent, outcome, State, candidates
  <2>3. candidate_rank(tbl[i]) < r
    BY <1>5, <2>1, <2>2, ClearlyBetter
  <2> HIDE DEF o, r
  <2>4. o.rank \in Nat /\ r \in Nat /\ r <= st.rank
    BY <1>5, <2>2 DEF r
  <2>5. o.rank <= st.rank
    BY <1>2, <2>2, <2>3, <2>4
  <2> QED BY <2>5 DEF o
<1>9. ~GivesUp(st, tbl, S, o)
  BY <1>6 DEF GivesUp
<1> QED BY <1>1, <1>2, <1>4, <1>7, <1>8, <1>9, SelectCases, Zenon

\* A beacon received while nothing goes wrong.
LEMMA ReceiveFalls ==
  ASSUME Inv, Quiet, MaxFaults = 0,
         NEW n \in Node, NEW m \in Hears[n], NEW c \in Cost, Receive(n, m, c)
  PROVE  /\ faults' = 0
         /\ \A k \in Node : node'[k].rank <= node[k].rank
         /\ RankInStep'
<1> DEFINE e == [addr |-> m, rank |-> air[n][m], router |-> m \notin Leaf, link_cost |-> c]
           tbl == [nbr[n] EXCEPT ![m] = e]
           S == (fresh[n] \cup {m}) \ suspect[n]
           o == tn_routing_select_parent(node[n], tbl, S, n \in dwelled)
           q == node[n].parent
<1>1. m \in Node
  BY DodagAssumption
<1>2. /\ air[n][m] # None /\ nbr' = [nbr EXCEPT ![n] = tbl]
      /\ fresh' = [fresh EXCEPT ![n] = fresh[n] \cup {m}]
      /\ UNCHANGED suspect
      /\ Decide(n, node[n], nbr'[n], fresh'[n] \ suspect[n])
  BY <1>1 DEF Receive, Inv, TypeOK
<1>3. nbr'[n] = tbl /\ fresh'[n] = fresh[n] \cup {m}
  BY <1>1, <1>2 DEF Inv, TypeOK
<1>4. /\ faults' = 0
      /\ m \in fresh[n] => c = nbr[n][m].link_cost
  BY DEF Receive, Fault, Quiet
<1>5. TableOK(tbl)
  BY <1>2, ReceivedTable
<1>6. /\ NodeOK(n, node[n]) /\ S \in SUBSET Hears[n] /\ suspect[n] = {}
      /\ (n \in dwelled) \in BOOLEAN
  BY DEF Inv, Quiet
<1>7. Decide(n, node[n], tbl, S)
  BY <1>2, <1>3, Zenon
<1> HIDE DEF tbl, S
<1>8. /\ node' \in [Node -> RoutingState]
      /\ \A k \in Node \ {n} : node'[k] = node[k]
      /\ NodeOK(n, node'[n])
      /\ node'[n].parent # Invalid =>
           /\ node'[n].parent \in S
           /\ node'[n].rank = candidate_rank(tbl[node'[n].parent])
           /\ node'[n].rank < Inf
  BY <1>5, <1>6, <1>7, DecideOK
<1>9. \A k \in Node : node[k].rank \in Nat /\ node'[k].rank \in 0 .. Inf
  BY <1>8, RankAssumption DEF Inv, TypeOK, RoutingState
<1>10. node'[n].rank = o.rank
  <2>1. node \in [Node -> RoutingState]
    BY DEF Inv, TypeOK, RoutingState, Address
  <2>2. node' = [node EXCEPT ![n] = After(node[n], o)]
    BY <1>7, <2>1, AdoptNode DEF Decide
  <2> HIDE DEF o
  <2>3. node[n] \in RoutingState /\ node'[n] = After(node[n], o)
    BY <2>1, <2>2
  <2> QED BY <2>3 DEF After, RoutingState
<1>11. node'[n].rank <= node[n].rank
  <2>1. CASE n = Master
    BY <1>6, <1>8, <2>1 DEF NodeOK
  <2>2. CASE n # Master /\ q = Invalid
    <3>1. node[n].rank = Inf
      BY <1>6, <2>2 DEF NodeOK
    <3> QED BY <1>9, <3>1
  <2>3. CASE n # Master /\ q # Invalid
    <3>1. /\ q \in fresh[n] /\ node[n].rank < Inf
          /\ node[n].rank = candidate_rank(nbr[n][q])
      BY <2>3 DEF Quiet, RankInStep
    <3>2. q \in Node /\ q \in S
      BY <1>6, <3>1 DEF Inv, TypeOK, S
    <3>3. candidate_rank(tbl[q]) <= candidate_rank(nbr[n][q])
      <4>1. CASE q # m
        <5>1. tbl[q] = nbr[n][q]
          BY <1>1, <3>2, <4>1 DEF tbl, Inv, TypeOK
        <5> QED BY <1>9, <3>1, <5>1
      <4>2. CASE q = m
        <5> DEFINE f == nbr[n][q]
        <5>1. tbl[q] = e
          BY <1>1, <4>2 DEF tbl, Inv, TypeOK
        <5>2. air[n][m] <= f.rank /\ f.router = (m \notin Leaf) /\ c = f.link_cost
          BY <1>1, <1>2, <1>4, <3>1, <4>2 DEF Quiet, Announced
        <5>3. air[n][m] \in Nat /\ f.rank \in Nat /\ f.link_cost \in Nat
          BY <1>1, <1>2, <3>2, RankAssumption DEF Inv, TypeOK
        <5>4. candidate_rank(f) # Inf /\ candidate_rank(f) \in Nat
          BY <1>9, <3>1, RankAssumption
        <5>5. /\ f.router /\ f.rank < Inf
              /\ candidate_rank(f) = f.rank + Step + f.link_cost
              /\ candidate_rank(f) < Inf
          BY <5>3, <5>4, CandidateRank, RankAssumption, Zenon DEF candidate_rank
        <5>6. /\ e.router = f.router /\ e.rank = air[n][m] /\ e.link_cost = f.link_cost
          BY <5>2, Zenon
        <5> HIDE DEF f, e
        <5>7. candidate_rank(e) = e.rank + Step + e.link_cost
          BY <5>2, <5>3, <5>5, <5>6, RankAssumption DEF candidate_rank
        <5>8. candidate_rank(e) <= candidate_rank(f)
          BY <5>2, <5>3, <5>5, <5>6, <5>7, RankAssumption
        <5> QED BY <5>1, <5>8 DEF f
      <4> QED BY <4>1, <4>2
    <3>4. candidate_rank(tbl[q]) \in Nat
      <4>1. tbl[q].rank \in Nat /\ tbl[q].link_cost \in Nat
        BY <1>5, <3>2, RankAssumption DEF TableOK
      <4> QED BY <4>1, CandidateRank, RankAssumption
    <3>5. candidate_rank(tbl[q]) <= node[n].rank /\ candidate_rank(tbl[q]) < Inf
      BY <1>9, <3>1, <3>3, <3>4, RankAssumption
    <3> QED BY <1>5, <1>6, <1>10, <2>3, <3>2, <3>5, DecisionFalls, Zenon
  <2> QED BY <2>1, <2>2, <2>3
<1>12. \A k \in Node : node'[k].rank <= node[k].rank
  BY <1>8, <1>9, <1>11
<1>13. RankInStep'
  <2>1. ASSUME NEW k \in Node, node'[k].parent # Invalid
        PROVE  /\ node'[k].parent \in fresh'[k] /\ node'[k].rank < Inf
               /\ node'[k].rank = candidate_rank(nbr'[k][node'[k].parent])
    <3>1. CASE k = n
      BY <1>3, <1>8, <2>1, <3>1 DEF S
    <3>2. CASE k # n
      BY <1>2, <1>8, <2>1, <3>2 DEF Quiet, RankInStep, Inv, TypeOK
    <3> QED BY <3>1, <3>2
  <2> QED BY <2>1 DEF RankInStep
<1> QED BY <1>4, <1>12, <1>13

\* While nothing goes wrong, every step keeps Quiet and increases no rank.
LEMMA QuietStep ==
  ASSUME MaxFaults = 0, Inv, Quiet, [Next]_vars
  PROVE  Quiet' /\ \A n \in Node : node'[n].rank <= node[n].rank
<1>1. ~Fault
  BY DEF Fault, Quiet
<1>2. \A n \in Node : node[n].rank \in Nat
  BY RankAssumption DEF Inv, TypeOK
<1>3. ASSUME UNCHANGED <<node, nbr, fresh, suspect, faults>>, UNCHANGED air
      PROVE  Quiet' /\ \A n \in Node : node'[n].rank <= node[n].rank
  <2>1. Announced' /\ RankInStep'
    BY <1>3 DEF Quiet, Announced, RankInStep
  <2> QED BY <1>2, <1>3, <2>1 DEF Quiet
<1>4. ASSUME NEW m \in Node, SendBeacon(m)
      PROVE  Quiet' /\ \A n \in Node : node'[n].rank <= node[n].rank
  <2>1. UNCHANGED <<node, nbr, fresh, suspect, faults>>
    BY <1>4 DEF SendBeacon
  <2>2. \A n, k \in Node : air'[n][k] = air[n][k] \/ (k = m /\ air'[n][k] = node[m].rank)
    BY <1>4 DEF SendBeacon, Inv, TypeOK
  <2>3. Announced'
    <3>1. ASSUME NEW n \in Node, NEW k \in Node
          PROVE  /\ air'[n][k] # None => node[k].rank <= air'[n][k]
                 /\ k \in fresh[n] => /\ node[k].rank <= nbr[n][k].rank
                                      /\ air'[n][k] # None => air'[n][k] <= nbr[n][k].rank
                                      /\ nbr[n][k].router = (k \notin Leaf)
      BY <1>2, <2>2 DEF Quiet, Announced
    <3> QED BY <2>1, <3>1 DEF Announced
  <2>4. RankInStep'
    BY <2>1 DEF Quiet, RankInStep
  <2> QED BY <1>2, <2>1, <2>3, <2>4 DEF Quiet
<1>5. ASSUME NEW n \in Node, ParentLost(n) PROVE FALSE
  BY <1>5, DodagAssumption DEF ParentLost, Quiet, RankInStep
<1>6. ASSUME NEW n \in Node, DwellPasses(n)
      PROVE  UNCHANGED <<node, nbr, fresh, suspect, faults>> /\ UNCHANGED air
  BY <1>6 DEF DwellPasses
<1>7. ASSUME NEW n \in Node, NEW m \in Hears[n] PROVE ~SuspicionEnds(n, m)
  BY DEF SuspicionEnds, Quiet
<1>8. ASSUME NEW n \in Node, NEW m \in Hears[n], NEW c \in Cost, Receive(n, m, c)
      PROVE  Quiet' /\ \A k \in Node : node'[k].rank <= node[k].rank
  <2>1. /\ faults' = 0 /\ RankInStep'
        /\ \A k \in Node : node'[k].rank <= node[k].rank
    BY <1>8, ReceiveFalls
  <2>2. m \in Node /\ Inv'
    BY <1>8, StepInv, DodagAssumption DEF Next
  <2> DEFINE e == [addr |-> m, rank |-> air[n][m], router |-> m \notin Leaf, link_cost |-> c]
  <2>3. /\ air[n][m] # None /\ nbr' = [nbr EXCEPT ![n][m] = e]
        /\ fresh' = [fresh EXCEPT ![n] = fresh[n] \cup {m}]
        /\ air' = [air EXCEPT ![n][m] = None] /\ UNCHANGED suspect
    BY <1>8 DEF Receive
  <2>4. \A k, j \in Node : \/ k = n /\ j = m
                           \/ /\ nbr'[k][j] = nbr[k][j] /\ air'[k][j] = air[k][j]
                              /\ j \in fresh'[k] <=> j \in fresh[k]
    <3> HIDE DEF e
    <3>1. /\ fresh \in [Node -> SUBSET Node] /\ DOMAIN air = Node /\ DOMAIN nbr = Node
          /\ \A k \in Node : DOMAIN nbr[k] = Node /\ DOMAIN air[k] = Node
      BY DEF Inv, TypeOK
    <3>2. \A k, j \in Node : k # n \/ j # m =>
            nbr'[k][j] = nbr[k][j] /\ air'[k][j] = air[k][j]
      BY <2>2, <2>3, <3>1
    <3>3. \A k, j \in Node : k # n \/ j # m => (j \in fresh'[k] <=> j \in fresh[k])
      BY <2>2, <2>3, <3>1
    <3> QED BY <3>2, <3>3
  <2>5. nbr'[n][m] = e /\ air'[n][m] = None
    BY <2>2, <2>3 DEF Inv, TypeOK
  <2>6. \A k, j \in Node :
          /\ node'[j].rank \in Nat /\ nbr[k][j].rank \in Nat
          /\ air[k][j] # None => air[k][j] \in Nat
    <3>1. \A j \in Node : node'[j].rank \in 0 .. Inf
      BY <2>2 DEF Inv, TypeOK
    <3>2. \A k, j \in Node : /\ nbr[k][j].rank \in 0 .. Inf
                             /\ air[k][j] # None => air[k][j] \in 0 .. Inf
      BY DEF Inv, TypeOK
    <3> QED BY <3>1, <3>2, RankAssumption
  <2>7. ASSUME NEW k \in Node, NEW j \in Node
        PROVE  /\ air'[k][j] # None => node'[j].rank <= air'[k][j]
               /\ j \in fresh'[k] => /\ node'[j].rank <= nbr'[k][j].rank
                                     /\ air'[k][j] # None => air'[k][j] <= nbr'[k][j].rank
                                     /\ nbr'[k][j].router = (j \notin Leaf)
    <3>1. CASE k = n /\ j = m
      <4>1. node[m].rank <= air[n][m]
        BY <2>2, <2>3 DEF Quiet, Announced
      <4>2. node'[m].rank <= air[n][m]
        BY <1>2, <2>1, <2>2, <2>3, <2>6, <4>1
      <4> QED BY <2>5, <3>1, <4>2
    <3>2. CASE ~(k = n /\ j = m)
      <4>1. /\ air[k][j] # None => node[j].rank <= air[k][j]
            /\ j \in fresh[k] => /\ node[j].rank <= nbr[k][j].rank
                                 /\ air[k][j] # None => air[k][j] <= nbr[k][j].rank
                                 /\ nbr[k][j].router = (j \notin Leaf)
        BY DEF Quiet, Announced
      <4>2. /\ nbr'[k][j] = nbr[k][j] /\ air'[k][j] = air[k][j]
            /\ j \in fresh'[k] <=> j \in fresh[k]
        BY <2>4, <3>2
      <4>3. node'[j].rank <= node[j].rank
        BY <2>1
      <4> QED BY <1>2, <2>6, <4>1, <4>2, <4>3
    <3> QED BY <3>1, <3>2
  <2>8. Announced'
    BY <2>7 DEF Announced
  <2> QED BY <2>1, <2>3, <2>8 DEF Quiet
<1>9. CASE UNCHANGED vars
  BY <1>3, <1>9 DEF vars
<1>10. CASE Next
  <2>1. \A n \in Node : ~Restart(n) /\ \A m \in Hears[n] :
          ~LoseBeacon(n, m) /\ ~Silence(n, m) /\ ~AckFailure(n, m)
    BY <1>1 DEF Restart, LoseBeacon, Silence, AckFailure
  <2> QED BY <1>3, <1>4, <1>5, <1>6, <1>7, <1>8, <1>10, <2>1, Zenon DEF Next
<1> QED BY <1>9, <1>10

\* Quiet holds throughout an execution without faults.
LEMMA StaysQuiet == MaxFaults = 0 => (Spec => [](Inv /\ Quiet))
<1> SUFFICES ASSUME MaxFaults = 0 PROVE Spec => [](Inv /\ Quiet)
  OBVIOUS
<1>1. Init => Quiet
  <2> SUFFICES ASSUME Init PROVE Quiet
    OBVIOUS
  <2>1. \A n, m \in Node : air[n][m] = None /\ fresh[n] = {}
    BY DEF Init
  <2>2. \A n \in Node : suspect[n] = {} /\ node[n].parent = Invalid
    BY DEF Init, Start
  <2>3. faults = 0
    BY DEF Init
  <2> QED BY <2>1, <2>2, <2>3 DEF Quiet, Announced, RankInStep
<1>2. Inv /\ Quiet /\ [Next]_vars => Quiet'
  BY QuietStep
<1> QED BY <1>1, <1>2, Invariance, PTL DEF Spec

\* In a network of any size and shape, with any link costs and any number of
\* beacons under way, the parents form a tree as long as nothing goes wrong:
\* every parent has a lower rank than its child and no node is its own
\* ancestor (tn_routing_select_parent).
THEOREM FormationIsATree == MaxFaults = 0 => (Spec => [](ParentCloser /\ NoLoop))
<1> SUFFICES ASSUME MaxFaults = 0 PROVE Spec => [](ParentCloser /\ NoLoop)
  OBVIOUS
<1>1. Inv /\ Quiet => ParentCloser /\ NoLoop
  BY QuietCloser, CloserNoLoop
<1>2. Spec => [](Inv /\ Quiet)
  BY StaysQuiet
<1> QED BY <1>1, <1>2, PTL

\* In the same executions the rank of a node never increases, so that no two
\* nodes ever chase each other's ranks upwards (tn_routing_select_parent).
THEOREM RanksFall == MaxFaults = 0 => (Spec => RankNeverIncreases)
<1> SUFFICES ASSUME MaxFaults = 0 PROVE Spec => RankNeverIncreases
  OBVIOUS
<1>1. Inv /\ Quiet /\ [Next]_vars => [\A n \in Node : node'[n].rank <= node[n].rank]_vars
  BY QuietStep
<1>2. Spec => [](Inv /\ Quiet)
  BY StaysQuiet
<1> QED BY <1>1, <1>2, PTL DEF Spec, RankNeverIncreases
=============================================================================
