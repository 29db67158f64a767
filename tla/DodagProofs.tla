---------------------------- MODULE DodagProofs ----------------------------
(***************************************************************************)
(* Proofs about the tree of module Dodag, for every network, every set of  *)
(* link costs and every number of faults.                                  *)
(*                                                                         *)
(* With faults, every node's rank stays above the last rank it heard from  *)
(* its parent.                                                             *)
(***************************************************************************)
EXTENDS Dodag, RoutingProofs

Address == Node \cup {Invalid}

RoutingState == [role : {"MASTER", "NODE", "LEAF"}, addr : Node, parent : Address,
                 rank : 0 .. Inf, connected : BOOLEAN, joined : BOOLEAN]

\* The routing state of node n by itself ...
NodeOK(n, st) ==
  /\ st \in RoutingState /\ st.addr = n
  /\ st.role = "MASTER" <=> n = Master
  /\ n = Master => st.parent = Invalid /\ st.rank = 0
  /\ n # Master => /\ st.connected <=> st.parent # Invalid
                   /\ st.connected => st.joined
                   /\ st.parent = Invalid => st.rank = Inf

\* ... its neighbour table ...
TableOK(tbl) ==
  /\ tbl \in [Node -> [addr : Node, rank : 0 .. Inf, router : BOOLEAN, link_cost : Nat]]
  /\ \A m \in Node : tbl[m].addr = m /\ (tbl[m].router => m \notin Leaf)

\* ... and how the two go together.
Below(n, st, tbl) ==
  st.parent # Invalid => /\ st.parent \in Hears[n] \ Leaf
                         /\ st.rank > tbl[st.parent].rank

\* st after the decision o.
After(st, o) == [st EXCEPT !.parent = o.parent, !.rank = o.rank,
                           !.connected = o.connected, !.joined = o.joined]

\* The inductive invariant behind ParentHeardCloser.
Inv ==
  /\ TypeOK
  /\ \A n \in Node : /\ NodeOK(n, node[n]) /\ TableOK(nbr[n])
                     /\ Below(n, node[n], nbr[n])
                     /\ fresh[n] \subseteq Hears[n]

\* A decision of n, on a sound table and on nodes in its range, leaves n in a
\* sound state: whoever is its parent is usable, and n's rank is the candidate
\* rank of the parent's entry.
LEMMA DecisionOK ==
  ASSUME NEW n \in Node, NEW st, NodeOK(n, st), NEW tbl, TableOK(tbl),
         NEW S \in SUBSET Hears[n], NEW d \in BOOLEAN
  PROVE  LET o == tn_routing_select_parent(st, tbl, S, d)
         IN  /\ NodeOK(n, After(st, o)) /\ Below(n, After(st, o), tbl)
             /\ o.set \in BOOLEAN
             /\ o.parent # Invalid => /\ o.parent \in S
                                      /\ o.rank = candidate_rank(tbl[o.parent])
                                      /\ o.rank < Inf
<1> DEFINE o == tn_routing_select_parent(st, tbl, S, d)
           a == After(st, o)
<1>1. S \subseteq Node /\ S \subseteq Nat
  BY DodagAssumption
<1>2. st \in State(Address)
  BY RankAssumption DEF NodeOK, RoutingState, State, Address
<1>3. Readable(Address, tbl, S)
  <2>1. ASSUME NEW m \in S
        PROVE  /\ tbl[m].addr \in Address /\ tbl[m].addr # Invalid
               /\ tbl[m].rank \in Nat /\ tbl[m].link_cost \in Nat
    BY <1>1, DodagAssumption, RankAssumption DEF TableOK, Address
  <2> QED BY <2>1 DEF Readable
<1>4. CASE n = Master
  <2>1. st.role = "MASTER"
    BY <1>4 DEF NodeOK
  <2>2. o = master_selects(st)
    BY <2>1 DEF tn_routing_select_parent
  <2>3. o.parent = Invalid /\ o.rank = 0 /\ o.connected = TRUE /\ o.joined = TRUE
        /\ o.set = FALSE
    BY <1>2, <2>2 DEF master_selects, outcome, State
  <2> HIDE DEF o
  <2>4. NodeOK(n, a)
    BY <1>4, <2>1, <2>3, RankAssumption, Zenon DEF NodeOK, After, RoutingState, Address
  <2>5. Below(n, a, tbl)
    BY <1>2, <2>3 DEF Below, After, State
  <2> QED BY <2>3, <2>4, <2>5, Zenon DEF o
<1>5. CASE n # Master
  <2>1. st.role # "MASTER"
    BY <1>5 DEF NodeOK
  <2>2. /\ st.rank \in 0 .. Inf
        /\ st.connected <=> st.parent # Invalid
        /\ st.connected => st.joined
        /\ st.parent = Invalid => st.rank = Inf
    BY <1>5 DEF NodeOK, RoutingState
  <2>3. Invalid \in Address
    BY DEF Address
  <2>a. Sound(Address, st, tbl, S, o)
    BY <1>1, <1>2, <1>3, <2>1, <2>2, <2>3, Decision, Zenon
  <2> HIDE DEF o
  <2>4. /\ o.parent \in Address /\ o.rank \in 0 .. Inf
        /\ o.connected \in BOOLEAN /\ o.joined \in BOOLEAN
        /\ o.set \in BOOLEAN /\ o.advertised \in BOOLEAN
        /\ o.events \in Raisable
        /\ o.parent \notin {st.parent, Invalid} => o.set /\ o.advertised
        /\ o.connected <=> o.parent # Invalid
        /\ o.connected => o.joined
        /\ o.parent = Invalid => o.rank = Inf
        /\ o.parent # Invalid =>
             \E i \in S : /\ tbl[i].addr = o.parent
                          /\ o.rank = candidate_rank(tbl[i]) /\ o.rank < Inf
    BY <2>a DEF Sound
  <2>5. NodeOK(n, a)
    <3>1. st \in RoutingState /\ st.addr = n /\ (st.role = "MASTER" <=> n = Master)
      BY DEF NodeOK
    <3>2. a \in RoutingState
      BY <2>4, <3>1, Zenon DEF RoutingState, After
    <3>3. /\ a.addr = st.addr /\ a.role = st.role /\ a.parent = o.parent /\ a.rank = o.rank
          /\ a.connected = o.connected /\ a.joined = o.joined
      BY <3>1 DEF RoutingState, After
    <3> HIDE DEF a
    <3> QED BY <1>5, <2>4, <3>1, <3>2, <3>3, Zenon DEF NodeOK
  <2>6. o.parent # Invalid => /\ o.parent \in S
                              /\ o.rank = candidate_rank(tbl[o.parent])
                              /\ o.rank < Inf
    BY <1>1, <2>4 DEF TableOK
  <2>7. Below(n, a, tbl)
    <3>1. a.parent = o.parent /\ a.rank = o.rank
      BY <1>2 DEF State, After
    <3>2. ASSUME o.parent # Invalid
          PROVE  o.parent \in Hears[n] \ Leaf /\ o.rank > tbl[o.parent].rank
      <4>1. /\ tbl[o.parent].rank \in Nat /\ tbl[o.parent].link_cost \in Nat
            /\ tbl[o.parent].router => o.parent \notin Leaf
        <5> DEFINE q == o.parent
        <5>1. q \in Node
          BY <1>1, <2>6, <3>2, Zenon
        <5> HIDE DEF q
        <5>2. tbl[q].rank \in 0 .. Inf /\ tbl[q].link_cost \in Nat
              /\ (tbl[q].router => q \notin Leaf)
          BY <5>1 DEF TableOK
        <5> QED BY <5>2, RankAssumption DEF q
      <4>2. candidate_rank(tbl[o.parent]) # Inf
        <5>1. o.rank \in 0 .. Inf
          BY <2>4
        <5> QED BY <2>6, <3>2, <5>1, RankAssumption
      <4>3. o.rank > tbl[o.parent].rank /\ tbl[o.parent].router
        BY <2>6, <3>2, <4>1, <4>2, CandidateRank, RankAssumption
      <4> QED BY <2>6, <3>2, <4>1, <4>3
    <3> HIDE DEF a
    <3> QED BY <3>1, <3>2 DEF Below
  <2> QED BY <2>4, <2>5, <2>6, <2>7 DEF o
<1> QED BY <1>4, <1>5
-----------------------------------------------------------------------------
\* Adopt changes the state of n, and nothing else, to the one after o.
LEMMA AdoptNode ==
  ASSUME node \in [Node -> RoutingState], NEW n \in Node, NEW o, Adopt(n, o)
  PROVE  node' = [node EXCEPT ![n] = After(node[n], o)]
BY Zenon DEF Adopt, After, RoutingState

\* A decision in the running system: Decide keeps node n sound.
LEMMA DecideOK ==
  ASSUME Inv, NEW n \in Node, NEW st, NodeOK(n, st), NEW tbl, TableOK(tbl),
         NEW S \in SUBSET Hears[n], Decide(n, st, tbl, S),
         \A o : After(st, o) = After(node[n], o)
  PROVE  /\ node' \in [Node -> RoutingState]
         /\ \A k \in Node \ {n} : node'[k] = node[k]
         /\ NodeOK(n, node'[n]) /\ Below(n, node'[n], tbl)
         /\ dwelled' \subseteq Node
         /\ node'[n].parent # Invalid =>
              /\ node'[n].parent \in S
              /\ node'[n].rank = candidate_rank(tbl[node'[n].parent])
              /\ node'[n].rank < Inf
<1> DEFINE d == n \in dwelled
           o == tn_routing_select_parent(st, tbl, S, d)
<1>0. d \in BOOLEAN
  OBVIOUS
<1> HIDE DEF d
<1>1. /\ NodeOK(n, After(st, o)) /\ Below(n, After(st, o), tbl)
      /\ o.set \in BOOLEAN
      /\ o.parent # Invalid => /\ o.parent \in S
                               /\ o.rank = candidate_rank(tbl[o.parent])
                               /\ o.rank < Inf
  BY <1>0, DecisionOK
<1>2. Adopt(n, o)
  BY DEF Decide, d
<1> HIDE DEF o
<1>3. node \in [Node -> RoutingState]
  BY DEF Inv, TypeOK, RoutingState, Address
<1>4. node' = [node EXCEPT ![n] = After(node[n], o)]
  BY <1>2, <1>3, AdoptNode
<1>5. After(st, o) = After(node[n], o)
  OBVIOUS
<1>6. After(node[n], o) \in RoutingState
  BY <1>1, <1>5 DEF NodeOK
<1>7. node'[n] = After(node[n], o) /\ \A k \in Node \ {n} : node'[k] = node[k]
  BY <1>3, <1>4
<1>8. node' \in [Node -> RoutingState]
  BY <1>3, <1>4, <1>6
<1>9. dwelled' \subseteq Node
  BY <1>2 DEF Adopt, Inv, TypeOK
<1>10. node'[n].parent = o.parent /\ node'[n].rank = o.rank
  <2>1. node[n] \in RoutingState
    BY <1>3
  <2> QED BY <1>7, <2>1, Zenon DEF After, RoutingState
<1> QED BY <1>1, <1>5, <1>7, <1>8, <1>9, <1>10

\* forget_parent leaves a node other than the Master in a sound state.
LEMMA ForgetOK ==
  ASSUME NEW n \in Node, NEW st, NodeOK(n, st), n # Master
  PROVE  /\ NodeOK(n, forget_parent(st))
         /\ \A o : After(forget_parent(st), o) = After(st, o)
<1>1. st \in RoutingState /\ st.addr = n
  BY DEF NodeOK
<1> DEFINE f == forget_parent(st)
<1>2. /\ f \in RoutingState /\ f.addr = st.addr /\ f.role = st.role
      /\ f.parent = Invalid /\ f.rank = Inf /\ f.connected = FALSE
  <2>1. Inf \in 0 .. Inf /\ Invalid \in Address /\ FALSE \in BOOLEAN
    BY RankAssumption DEF Address
  <2> QED BY <1>1, <2>1, Zenon DEF RoutingState, forget_parent
<1>3. ASSUME NEW o PROVE After(f, o) = After(st, o)
  BY <1>1, Zenon DEF RoutingState, After, forget_parent
<1> HIDE DEF f
<1>4. NodeOK(n, f)
  BY <1>2 DEF NodeOK
<1> QED BY <1>3, <1>4 DEF f
-----------------------------------------------------------------------------
\* A beacon in range gives an entry that belongs in a sound table.
LEMMA ReceivedTable ==
  ASSUME Inv, NEW n \in Node, NEW m \in Hears[n], NEW c \in Cost,
         air[n][m] # None, NEW tbl,
         tbl = [nbr[n] EXCEPT ![m] = [addr |-> m, rank |-> air[n][m],
                                      router |-> m \notin Leaf, link_cost |-> c]]
  PROVE  TableOK(tbl)
<1>1. m \in Node /\ c \in Nat
  BY DodagAssumption
<1>2. air[n][m] \in 0 .. Inf
  BY <1>1 DEF Inv, TypeOK
<1>3. TableOK(nbr[n])
  BY DEF Inv
<1> DEFINE e == [addr |-> m, rank |-> air[n][m], router |-> m \notin Leaf, link_cost |-> c]
<1>4. /\ e \in [addr : Node, rank : 0 .. Inf, router : BOOLEAN, link_cost : Nat]
      /\ e.addr = m /\ (e.router => m \notin Leaf)
  BY <1>1, <1>2, Zenon
<1>5. tbl = [nbr[n] EXCEPT ![m] = e]
  OBVIOUS
<1> HIDE DEF e
<1> QED BY <1>1, <1>3, <1>4, <1>5 DEF TableOK

\* The state treenet_init leaves behind is sound.
LEMMA StartOK ==
  ASSUME NEW n \in Node
  PROVE  /\ NodeOK(n, Start(n)) /\ TableOK([m \in Node |-> Blank(m)])
         /\ Below(n, Start(n), [m \in Node |-> Blank(m)])
<1>1. Inf \in 0 .. Inf /\ 0 \in 0 .. Inf /\ Invalid \in Address
  BY RankAssumption DEF Address
<1>2. NodeOK(n, Start(n))
  BY <1>1, DodagAssumption, Zenon DEF NodeOK, Start, RoutingState
<1>3. TableOK([m \in Node |-> Blank(m)])
  BY <1>1 DEF TableOK, Blank
<1> QED BY <1>2, <1>3 DEF Below, Start

\* Every step keeps Inv.
LEMMA StepInv == Inv /\ [Next]_vars => Inv'
<1> SUFFICES ASSUME Inv, [Next]_vars PROVE Inv'
  OBVIOUS
<1> USE DEF Inv
<1>0. /\ TypeOK
      /\ \A n \in Node : /\ NodeOK(n, node[n]) /\ TableOK(nbr[n])
                         /\ Below(n, node[n], nbr[n]) /\ fresh[n] \subseteq Hears[n]
  OBVIOUS
<1>1. \A n \in Node : Hears[n] \subseteq Node
  BY DodagAssumption
<1>2. ASSUME NEW m \in Node, SendBeacon(m) PROVE Inv'
  <2>1. node[m].rank \in 0 .. Inf
    BY DEF TypeOK
  <2>2. air' \in [Node -> [Node -> 0 .. Inf \cup {None}]]
    BY <1>2, <2>1 DEF SendBeacon, TypeOK
  <2> QED BY <1>0, <1>2, <2>2 DEF SendBeacon, TypeOK
<1>3. ASSUME NEW n \in Node, ParentLost(n) PROVE Inv'
  <2>1. n # Master
    BY <1>0, <1>3, DodagAssumption DEF ParentLost, NodeOK
  <2>2. /\ NodeOK(n, forget_parent(node[n]))
        /\ \A o : After(forget_parent(node[n]), o) = After(node[n], o)
    BY <1>0, <2>1, ForgetOK
  <2>3. TableOK(nbr[n]) /\ fresh[n] \ suspect[n] \in SUBSET Hears[n]
    BY <1>0
  <2>4. Decide(n, forget_parent(node[n]), nbr[n], fresh[n] \ suspect[n])
    BY <1>3 DEF ParentLost
  <2>5. /\ node' \in [Node -> RoutingState] /\ dwelled' \subseteq Node
        /\ \A k \in Node \ {n} : node'[k] = node[k]
        /\ NodeOK(n, node'[n]) /\ Below(n, node'[n], nbr[n])
    BY <2>2, <2>3, <2>4, DecideOK
  <2>6. UNCHANGED <<nbr, fresh, suspect, air, faults>>
    BY <1>3 DEF ParentLost
  <2>7. TypeOK'
    BY <2>5, <2>6 DEF TypeOK, RoutingState, Address
  <2>8. \A k \in Node : NodeOK(k, node'[k]) /\ Below(k, node'[k], nbr[k])
    BY <1>0, <2>5
  <2> QED BY <1>0, <2>6, <2>7, <2>8
<1>4. ASSUME NEW n \in Node, DwellPasses(n) PROVE Inv'
  BY <1>0, <1>4 DEF DwellPasses, TypeOK
<1>5. ASSUME NEW n \in Node, Restart(n) PROVE Inv'
  <2> DEFINE blank == [m \in Node |-> Blank(m)]
  <2>1. NodeOK(n, Start(n)) /\ TableOK(blank) /\ Below(n, Start(n), blank)
    BY StartOK
  <2>2. /\ node' = [node EXCEPT ![n] = Start(n)] /\ nbr' = [nbr EXCEPT ![n] = blank]
        /\ fresh' = [fresh EXCEPT ![n] = {}] /\ suspect' = [suspect EXCEPT ![n] = {}]
        /\ dwelled' = dwelled \cup {n}
        /\ air' = [air EXCEPT ![n] = [m \in Node |-> None]]
        /\ faults < MaxFaults /\ faults' = faults + 1
    BY <1>5 DEF Restart, Fault
  <2>3. /\ node'[n] = Start(n) /\ nbr'[n] = blank /\ fresh'[n] = {}
        /\ \A k \in Node \ {n} : /\ node'[k] = node[k] /\ nbr'[k] = nbr[k]
                                 /\ fresh'[k] = fresh[k]
    BY <2>2 DEF TypeOK
  <2>4. Start(n) \in RoutingState
    BY <2>1 DEF NodeOK
  <2>5. blank \in [Node -> [addr : Node, rank : 0 .. Inf, router : BOOLEAN, link_cost : Nat]]
    BY <2>1 DEF TableOK
  <2> HIDE DEF blank
  <2>6. TypeOK'
    <3>1. node' \in [Node -> RoutingState]
      BY <2>2, <2>4 DEF TypeOK, RoutingState, Address
    <3>2. faults' \in 0 .. MaxFaults
      BY <2>2, DodagAssumption DEF TypeOK
    <3> QED BY <2>2, <2>5, <3>1, <3>2 DEF TypeOK, RoutingState, Address
  <2>7. \A k \in Node : /\ NodeOK(k, node'[k]) /\ TableOK(nbr'[k])
                        /\ Below(k, node'[k], nbr'[k]) /\ fresh'[k] \subseteq Hears[k]
    BY <1>0, <2>1, <2>3
  <2> QED BY <2>6, <2>7
<1>6. ASSUME NEW n \in Node, NEW m \in Hears[n], LoseBeacon(n, m) PROVE Inv'
  <2>1. faults' \in 0 .. MaxFaults
    BY <1>6, DodagAssumption DEF LoseBeacon, Fault, TypeOK
  <2>2. air' \in [Node -> [Node -> 0 .. Inf \cup {None}]]
    BY <1>1, <1>6 DEF LoseBeacon, TypeOK
  <2> QED BY <1>0, <1>6, <2>1, <2>2 DEF LoseBeacon, TypeOK
<1>7. ASSUME NEW n \in Node, NEW m \in Hears[n], Silence(n, m) PROVE Inv'
  <2>1. faults' \in 0 .. MaxFaults
    BY <1>7, DodagAssumption DEF Silence, Fault, TypeOK
  <2>2. /\ fresh' \in [Node -> SUBSET Node]
        /\ \A k \in Node : fresh'[k] \subseteq Hears[k]
    BY <1>0, <1>7 DEF Silence, TypeOK
  <2> QED BY <1>0, <1>7, <2>1, <2>2 DEF Silence, TypeOK
<1>8. ASSUME NEW n \in Node, NEW m \in Hears[n], AckFailure(n, m) PROVE Inv'
  <2>1. faults' \in 0 .. MaxFaults
    BY <1>8, DodagAssumption DEF AckFailure, Fault, TypeOK
  <2>2. suspect' \in [Node -> SUBSET Node] /\ UNCHANGED <<nbr, fresh, air>>
    BY <1>1, <1>8 DEF AckFailure, TypeOK
  <2>3. CASE m = node[n].parent
    <3>1. fresh[n] \ suspect'[n] \in SUBSET Hears[n]
      BY <1>0
    <3>2. Decide(n, node[n], nbr[n], fresh[n] \ suspect'[n])
      BY <1>8, <2>3 DEF AckFailure
    <3>3. /\ node' \in [Node -> RoutingState] /\ dwelled' \subseteq Node
          /\ \A k \in Node \ {n} : node'[k] = node[k]
          /\ NodeOK(n, node'[n]) /\ Below(n, node'[n], nbr[n])
      BY <1>0, <3>1, <3>2, DecideOK
    <3>4. TypeOK'
      BY <2>1, <2>2, <3>3 DEF TypeOK, RoutingState, Address
    <3>5. \A k \in Node : NodeOK(k, node'[k]) /\ Below(k, node'[k], nbr[k])
      BY <1>0, <3>3
    <3> QED BY <1>0, <2>2, <3>4, <3>5
  <2>4. CASE m # node[n].parent
    BY <1>0, <1>8, <2>1, <2>2, <2>4 DEF AckFailure, TypeOK
  <2> QED BY <2>3, <2>4
<1>9. ASSUME NEW n \in Node, NEW m \in Hears[n], SuspicionEnds(n, m) PROVE Inv'
  BY <1>0, <1>9 DEF SuspicionEnds, TypeOK
<1>10. ASSUME NEW n \in Node, NEW m \in Hears[n], NEW c \in Cost, Receive(n, m, c)
       PROVE  Inv'
  <2> DEFINE e == [addr |-> m, rank |-> air[n][m], router |-> m \notin Leaf, link_cost |-> c]
  <2>1. /\ air[n][m] # None /\ nbr' = [nbr EXCEPT ![n][m] = e]
        /\ fresh' = [fresh EXCEPT ![n] = fresh[n] \cup {m}]
        /\ air' = [air EXCEPT ![n][m] = None]
        /\ UNCHANGED suspect
        /\ Decide(n, node[n], nbr'[n], fresh'[n] \ suspect[n])
    BY <1>10 DEF Receive
  <2>2. /\ m \in Node /\ nbr'[n] = [nbr[n] EXCEPT ![m] = e]
        /\ fresh'[n] = fresh[n] \cup {m}
        /\ \A k \in Node \ {n} : nbr'[k] = nbr[k] /\ fresh'[k] = fresh[k]
    BY <1>1, <2>1 DEF TypeOK
  <2>3. TableOK(nbr'[n])
    BY <2>1, <2>2, ReceivedTable
  <2>4. fresh'[n] \subseteq Hears[n] /\ fresh'[n] \ suspect[n] \in SUBSET Hears[n]
    BY <1>0, <2>2
  <2>5. /\ node' \in [Node -> RoutingState] /\ dwelled' \subseteq Node
        /\ \A k \in Node \ {n} : node'[k] = node[k]
        /\ NodeOK(n, node'[n]) /\ Below(n, node'[n], nbr'[n])
    <3> DEFINE tbl == nbr'[n]
               S == fresh'[n] \ suspect[n]
    <3>1. NodeOK(n, node[n]) /\ TableOK(tbl) /\ S \in SUBSET Hears[n]
          /\ Decide(n, node[n], tbl, S)
      BY <1>0, <2>1, <2>3, <2>4
    <3> HIDE DEF tbl, S
    <3> QED BY <3>1, DecideOK DEF tbl
  <2>6. \A k \in Node : /\ NodeOK(k, node'[k]) /\ TableOK(nbr'[k])
                        /\ Below(k, node'[k], nbr'[k]) /\ fresh'[k] \subseteq Hears[k]
    BY <1>0, <2>2, <2>3, <2>4, <2>5
  <2>7. TypeOK'
    <3>1. faults' \in 0 .. MaxFaults
      BY <1>10, DodagAssumption DEF Receive, Fault, TypeOK
    <3>2. nbr' \in [Node -> [Node -> [addr : Node, rank : 0 .. Inf,
                                      router : BOOLEAN, link_cost : Nat]]]
      <4> HIDE DEF e
      <4>1. DOMAIN nbr' = Node /\ nbr' = [k \in Node |-> nbr'[k]]
        BY <2>1, Zenon DEF TypeOK
      <4> QED BY <2>6, <4>1 DEF TableOK
    <3>3. air' \in [Node -> [Node -> 0 .. Inf \cup {None}]]
      BY <2>1, <2>2 DEF TypeOK
    <3>4. fresh' \in [Node -> SUBSET Node]
      BY <2>1, <2>2 DEF TypeOK
    <3> QED BY <2>1, <2>5, <3>1, <3>2, <3>3, <3>4 DEF TypeOK, RoutingState, Address
  <2> QED BY <2>6, <2>7
<1>11. CASE UNCHANGED vars
  BY <1>0, <1>11 DEF vars, TypeOK
<1> QED BY <1>2, <1>3, <1>4, <1>5, <1>6, <1>7, <1>8, <1>9, <1>10, <1>11 DEF Next

\* Inv holds in every reachable state.
LEMMA Invariance == Spec => []Inv
<1>1. Init => Inv
  <2> SUFFICES ASSUME Init PROVE Inv
    OBVIOUS
  <2>1. \A n \in Node : /\ node[n] = Start(n) /\ nbr[n] = [m \in Node |-> Blank(m)]
                        /\ fresh[n] = {}
    BY DEF Init
  <2>2. \A n \in Node : /\ NodeOK(n, node[n]) /\ TableOK(nbr[n])
                        /\ Below(n, node[n], nbr[n]) /\ fresh[n] \subseteq Hears[n]
    BY <2>1, StartOK, Zenon
  <2>3. /\ node \in [Node -> RoutingState]
        /\ nbr \in [Node -> [Node -> [addr : Node, rank : 0 .. Inf,
                                      router : BOOLEAN, link_cost : Nat]]]
    BY <2>2, Zenon DEF Init, NodeOK, TableOK
  <2>4. TypeOK
    BY <2>3, DodagAssumption DEF Init, TypeOK, RoutingState, Address
  <2> QED BY <2>2, <2>4 DEF Inv
<1> QED BY <1>1, StepInv, PTL DEF Spec

\* Every variable keeps its type.
THEOREM TypeCorrect == Spec => []TypeOK
<1>1. Inv => TypeOK
  BY DEF Inv
<1> QED BY <1>1, Invariance, PTL

\* For every network and any number of lost beacons, silences, missing
\* acknowledgements, changing costs and restarts: a parent is a router in
\* range, and the rank of its child is above the rank it last advertised to
\* it (tn_routing_select_parent).
THEOREM HeardCloser == Spec => []ParentHeardCloser
<1>1. Inv => ParentHeardCloser
  BY DEF Inv, Below, ParentHeardCloser
<1> QED BY <1>1, Invariance, PTL
=============================================================================
