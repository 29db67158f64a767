--------------------------- MODULE MCRoutingNode ---------------------------
(* Two neighbours of one node. *)
EXTENDS RoutingNode, TLC
CONSTANTS a, b
MCAddr == {a, b}
MCLeaf == {b}
NoLeaf == {}
MCRoles == {"MASTER", "NODE"}
MCCost == {0, 2}
MCRank == {0, 4}
NodeOnly == {"NODE"}
Symmetry == Permutations(MCAddr)
MCBoot == {1}
Never == -1
OneCost == {1}
RootOrLost == {0, Inf}
MCBootLate == {3}
=============================================================================
