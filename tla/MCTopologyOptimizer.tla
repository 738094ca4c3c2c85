------------------------ MODULE MCTopologyOptimizer ------------------------
(***************************************************************************)
(* All demands of a few sizes between a few pairs of a small network, in   *)
(* one direction, and one with demands in both.                            *)
(***************************************************************************)
EXTENDS TopologyOptimizer, TLC

CONSTANTS Sizes, MaxPairs

Pairs == {unordered_edge_id(i, j) : i, j \in Nodes} \ {edge_id(i, i) : i \in Nodes}

MCDemands ==
  (UNION {[ids -> Sizes] : ids \in {set \in SUBSET Pairs : Cardinality(set) <= MaxPairs}}) \cup
  {(edge_id(0, 1) :> 1) @@ (edge_id(1, 0) :> 2) @@ (edge_id(1, 2) :> 3)}
=============================================================================
