------------------------------- MODULE Dodag -------------------------------
(***************************************************************************)
(* The tree the nodes build together: each one advertises its rank in      *)
(* beacons (link/beacon.c) and takes its decisions (Routing) from the      *)
(* beacons it has heard, which may be lost, overtaken or out of date.      *)
(*                                                                         *)
(* Time is abstracted to its consequences.  A link that has been silent    *)
(* for TREENET_PARENT_TIMEOUT_MS is no longer fresh, one whose frames were *)
(* not acknowledged is suspect for a while, and dwelled says that          *)
(* TREENET_PARENT_DWELL_MS have passed.  Slot j of a neighbour table is    *)
(* for node j, so the table is never full; RoutingNode has the real one.   *)
(*                                                                         *)
(* What goes wrong on the air is counted: lost beacons, silence, missing   *)
(* acknowledgements, a link whose cost changes, a node that restarts.      *)
(***************************************************************************)
EXTENDS Routing, FiniteSets

CONSTANTS Node,       \* addresses
          Master,     \* the node of role MASTER
          Leaf,       \* nodes of role LEAF, never a parent
          Hears,      \* Hears[n]: nodes whose transmissions reach n
          Cost,       \* link costs
          MaxFaults   \* bound on what goes wrong

ASSUME DodagAssumption ==
  /\ Node \subseteq Nat /\ Master \in Node /\ Leaf \subseteq Node \ {Master}
  /\ Hears \in [Node -> SUBSET Node] /\ \A n \in Node : n \notin Hears[n]
  /\ Invalid \notin Node
  /\ Cost \subseteq Nat
  /\ MaxFaults \in Nat

VARIABLES
  node,      \* routing state of each node
  nbr,       \* neighbour table of each node
  fresh,     \* neighbours heard recently
  suspect,   \* neighbours that did not acknowledge
  dwelled,   \* nodes whose last switch is old enough
  air,       \* air[n][m]: rank in the beacon on its way from m to n
  faults

vars == <<node, nbr, fresh, suspect, dwelled, air, faults>>

None == -1                       \* no beacon on its way

Start(n) ==
  [role |-> IF n = Master THEN "MASTER" ELSE IF n \in Leaf THEN "LEAF" ELSE "NODE",
   addr |-> n, parent |-> Invalid, rank |-> IF n = Master THEN 0 ELSE Inf,
   connected |-> n = Master, joined |-> n = Master]

Blank(m) == [addr |-> m, rank |-> Inf, router |-> FALSE, link_cost |-> 0]

Init ==
  /\ node = [n \in Node |-> Start(n)]
  /\ nbr = [n \in Node |-> [m \in Node |-> Blank(m)]]
  /\ fresh = [n \in Node |-> {}] /\ suspect = [n \in Node |-> {}]
  /\ dwelled = Node
  /\ air = [n \in Node |-> [m \in Node |-> None]]
  /\ faults = 0

Fault == faults < MaxFaults /\ faults' = faults + 1

\* The routing state of n after the decision o.
Adopt(n, o) ==
  /\ node' = [node EXCEPT ![n].parent = o.parent, ![n].rank = o.rank,
                          ![n].connected = o.connected, ![n].joined = o.joined]
  /\ dwelled' = IF o.set THEN dwelled \ {n} ELSE dwelled

Decide(n, t, tbl, usable) ==
  Adopt(n, tn_routing_select_parent(t, tbl, usable, n \in dwelled))
-----------------------------------------------------------------------------
\* Mutant: the rank is not filled in.
SendBlankBeacon(m) ==
  /\ air' = [n \in Node |-> IF m \in Hears[n] THEN [air[n] EXCEPT ![m] = 0] ELSE air[n]]
  /\ UNCHANGED <<node, nbr, fresh, suspect, dwelled, faults>>

\* tn_beacon_send: the current rank goes out to everyone in range.
SendBeacon(m) ==
  /\ air' = [n \in Node |-> IF m \in Hears[n] THEN [air[n] EXCEPT ![m] = node[m].rank]
                                              ELSE air[n]]
  /\ UNCHANGED <<node, nbr, fresh, suspect, dwelled, faults>>

LoseBeacon(n, m) ==
  /\ air[n][m] # None /\ Fault
  /\ air' = [air EXCEPT ![n][m] = None]
  /\ UNCHANGED <<node, nbr, fresh, suspect, dwelled>>

\* Mutant: a worse rank than the one known is ignored.
ReceiveIfBetter(n, m, cost) ==
  /\ air[n][m] # None
  /\ IF m \in fresh[n] /\ cost # nbr[n][m].link_cost THEN Fault ELSE UNCHANGED faults
  /\ nbr' = [nbr EXCEPT ![n][m] =
               [addr |-> m, rank |-> IF nbr[n][m].rank < air[n][m] THEN nbr[n][m].rank
                                                                   ELSE air[n][m],
                router |-> m \notin Leaf, link_cost |-> cost]]
  /\ fresh' = [fresh EXCEPT ![n] = @ \cup {m}]
  /\ air' = [air EXCEPT ![n][m] = None]
  /\ Decide(n, node[n], nbr'[n], fresh'[n] \ suspect[n])
  /\ UNCHANGED suspect

\* tn_routing_on_beacon.  The measured link cost may have changed.
Receive(n, m, cost) ==
  /\ air[n][m] # None
  /\ IF m \in fresh[n] /\ cost # nbr[n][m].link_cost THEN Fault ELSE UNCHANGED faults
  /\ nbr' = [nbr EXCEPT ![n][m] = [addr |-> m, rank |-> air[n][m],
                                   router |-> m \notin Leaf, link_cost |-> cost]]
  /\ fresh' = [fresh EXCEPT ![n] = @ \cup {m}]
  /\ air' = [air EXCEPT ![n][m] = None]
  /\ Decide(n, node[n], nbr'[n], fresh'[n] \ suspect[n])
  /\ UNCHANGED suspect

\* Nothing heard from m for TREENET_PARENT_TIMEOUT_MS.
Silence(n, m) ==
  /\ m \in fresh[n] /\ Fault
  /\ fresh' = [fresh EXCEPT ![n] = @ \ {m}]
  /\ UNCHANGED <<node, nbr, suspect, dwelled, air>>

\* tn_routing_tick finds the parent silent: tn_routing_on_parent_lost.
ParentLost(n) ==
  /\ node[n].parent \in Node \ fresh[n]
  /\ Decide(n, forget_parent(node[n]), nbr[n], fresh[n] \ suspect[n])
  /\ UNCHANGED <<nbr, fresh, suspect, air, faults>>

\* tn_link_ack_result reaches TREENET_ACK_FAIL_THRESHOLD for the link to m.
AckFailure(n, m) ==
  /\ m \in fresh[n] \ suspect[n] /\ Fault
  /\ suspect' = [suspect EXCEPT ![n] = @ \cup {m}]
  /\ IF m = node[n].parent
       THEN Decide(n, node[n], nbr[n], fresh[n] \ suspect'[n])
       ELSE UNCHANGED <<node, dwelled>>
  /\ UNCHANGED <<nbr, fresh, air>>

\* TREENET_LINK_SUSPECT_MS have passed, or m has acknowledged a frame.
SuspicionEnds(n, m) ==
  /\ m \in suspect[n]
  /\ suspect' = [suspect EXCEPT ![n] = @ \ {m}]
  /\ UNCHANGED <<node, nbr, fresh, dwelled, air, faults>>

DwellPasses(n) ==
  /\ n \notin dwelled
  /\ dwelled' = dwelled \cup {n}
  /\ UNCHANGED <<node, nbr, fresh, suspect, air, faults>>

\* Power cycle: treenet_init starts from zeroed memory.
Restart(n) ==
  /\ Fault
  /\ node' = [node EXCEPT ![n] = Start(n)]
  /\ nbr' = [nbr EXCEPT ![n] = [m \in Node |-> Blank(m)]]
  /\ fresh' = [fresh EXCEPT ![n] = {}]
  /\ suspect' = [suspect EXCEPT ![n] = {}]
  /\ dwelled' = dwelled \cup {n}
  /\ air' = [air EXCEPT ![n] = [m \in Node |-> None]]

Next ==
  \/ \E n \in Node : SendBeacon(n) \/ ParentLost(n) \/ DwellPasses(n) \/ Restart(n)
  \/ \E n \in Node : \E m \in Hears[n] :
       \/ LoseBeacon(n, m) \/ Silence(n, m)
       \/ AckFailure(n, m) \/ SuspicionEnds(n, m)
       \/ \E c \in Cost : Receive(n, m, c)

Spec == Init /\ [][Next]_vars

\* Beacons keep being sent and those on the air arrive, since Trickle never
\* stops and poll keeps being called; time passes and poll notices it.  Each
\* conjunct is weak fairness of an action, stated by the states in which the
\* action is disabled or has just been taken, which coincide.
Fairness ==
  \A n \in Node :
    /\ []<>(\A k \in Node : n \in Hears[k] => air[k][n] = node[n].rank) \* SendBeacon(n)
    /\ []<>(node[n].parent \notin Node \ fresh[n])                       \* ParentLost(n)
    /\ []<>(n \in dwelled)                                               \* DwellPasses(n)
    /\ \A m \in Hears[n] : /\ []<>(air[n][m] = None)                    \* Receive(n, m)
                           /\ []<>(m \notin suspect[n])                \* SuspicionEnds(n, m)

FairSpec == Spec /\ Fairness
-----------------------------------------------------------------------------
TypeOK ==
  /\ node \in [Node -> [role : {"MASTER", "NODE", "LEAF"}, addr : Node,
                        parent : Node \cup {Invalid}, rank : 0 .. Inf,
                        connected : BOOLEAN, joined : BOOLEAN]]
  /\ nbr \in [Node -> [Node -> [addr : Node, rank : 0 .. Inf,
                                router : BOOLEAN, link_cost : Nat]]]
  /\ fresh \in [Node -> SUBSET Node] /\ suspect \in [Node -> SUBSET Node]
  /\ dwelled \subseteq Node
  /\ air \in [Node -> [Node -> 0 .. Inf \cup {None}]]
  /\ faults \in 0 .. MaxFaults

\* A node's rank is above the last rank it heard from its parent, and only
\* routers in range are parents, whatever was lost, restarted or overtaken.
ParentHeardCloser ==
  \A n \in Node : LET p == node[n].parent IN
    p # Invalid => /\ p \in Hears[n] \ Leaf
                   /\ node[n].rank > nbr[n][p].rank

\* No node is its own ancestor: every set of nodes has a member whose parent
\* is outside the set.
NoLoop ==
  \A S \in (SUBSET Node) \ {{}} : \E n \in S : node[n].parent \notin S

\* While nothing goes wrong, a parent's own rank is below its child's ...
ParentCloser ==
  \A n \in Node : LET p == node[n].parent IN
    p # Invalid => node[p].rank < node[n].rank

\* ... and no node's rank ever increases.
RankNeverIncreases == [][\A n \in Node : node'[n].rank <= node[n].rank]_vars

\* Once nothing goes wrong any more, the loops that stale ranks have closed
\* dissolve and every node ends up, for good, below the Master.
Converges == <>[](NoLoop /\ \A n \in Node : node[n].connected)
=============================================================================
