------------------------- MODULE TopologyOptimizer -------------------------
(***************************************************************************)
(* The topologies and routes of the reconfigurable network                 *)
(* (dyn_net_sch.cpp): FlatDegConstraintNetworkTopologyGenerator for the    *)
(* first one, DemandHeuristicNetworkOptimizer for the others.              *)
(*                                                                         *)
(* One iteration of a loop is one action, and every random choice one of   *)
(* its outcomes; draws the code repeats until they fit are not steps.  The *)
(* searches of get_routes_from_src do not depend on one another, and that  *)
(* of one source is followed.                                              *)
(***************************************************************************)
EXTENDS Integers, FiniteSets, FiniteSetsExt, Sequences, SequencesExt

CONSTANTS
  NNode,    \* nnode: the nodes are 0..NNode - 1
  IfCnt,    \* if_cnt, degree: the interfaces of a node
  Demands   \* what logical_traffic_demand may be: functions of some edge ids

Nodes == 0..NNode - 1

\* Some nodes by their numbers.
InOrder(set) ==
  LET below[n \in 0..NNode] ==
        IF n = 0 THEN <<>>
        ELSE IF n - 1 \in set THEN Append(below[n - 1], n - 1) ELSE below[n - 1]
  IN  below[NNode]

edge_id(i, j) == i * NNode + j
unordered_edge_id(i, j) == IF i > j THEN edge_id(i, j) ELSE edge_id(j, i)
Ends(id) == {id \div NNode, id % NNode}

\* With one interface the chain of unused nodes takes more than there are.
ASSUME OptimizerAssumption ==
  /\ NNode \in Nat \ {0, 1} /\ IfCnt \in Nat \ {0, 1}
  /\ \A d \in Demands : \A id \in DOMAIN d :
       d[id] \in Nat \ {0} /\ id \in {edge_id(i, j) : i, j \in Nodes} /\ Cardinality(Ends(id)) = 2

VARIABLES
  demand,     \* logical_traffic_demand
  generating, \* the generator runs, and not the optimizer
  phase,      \* the loop that runs
  conn,       \* the number of links between any two nodes
  allocated,  \* node_if_allocated; 0 for a node that is not in the map
  pq,         \* the demands left, with their edges
  chain,      \* the nodes to chain, those visited, and the last one
  avail,      \* node_with_avail_if
  idToDemand, \* logical_id_to_demand
  ccs,        \* the connected components; n_cc is their number
  search      \* the breadth first search: source, queue, visited, dist and prev

vars == <<demand, generating, phase, conn, allocated, pq, chain, avail, idToDemand, ccs, search>>

-----------------------------------------------------------------------------
get_if_in_use(c, node) ==
  LET links[n \in 0..NNode] == IF n = 0 THEN 0 ELSE links[n - 1] + c[node][n - 1]
  IN  links[NNode]

Linked(c, i, j) == [c EXCEPT ![i][j] = @ + 1, ![j][i] = @ + 1]
Counted(i, j) == [allocated EXCEPT ![i] = @ + 1, ![j] = @ + 1]

\* remove_link for some links and then add_link for others, which are sequences.
Times(links, i, j) == Cardinality({k \in DOMAIN links : {links[k][1], links[k][2]} = {i, j}})
Rewired(change) ==
  [i \in Nodes |-> [j \in Nodes |->
     conn[i][j] - Times(change.removed, i, j) + Times(change.added, i, j)]]

\* The larger of the demands of a pair's directions.
MaxOfBidir(d) ==
  [id \in {unordered_edge_id(e \div NNode, e % NNode) : e \in DOMAIN d} |->
     Max({d[e] : e \in {x \in DOMAIN d : Ends(x) = Ends(id)}})]

Init ==
  /\ generating \in BOOLEAN
  /\ IF generating THEN demand = <<>> ELSE demand \in Demands
  /\ phase = IF generating THEN "chain" ELSE "demand"
  /\ conn = [i \in Nodes |-> [j \in Nodes |-> 0]]
  /\ allocated = [i \in Nodes |-> 0]
  /\ pq = {<<MaxOfBidir(demand)[id], id>> : id \in DOMAIN MaxOfBidir(demand)}
  /\ chain = IF generating THEN [nodes |-> Nodes, visited |-> {0}, curr |-> 0]
                           ELSE [nodes |-> {}, visited |-> {}, curr |-> 0]
  /\ avail = <<>>
  /\ idToDemand = <<>>
  /\ ccs = <<>>
  /\ search = [src |-> 0, q |-> <<>>, visited |-> {}, dist |-> <<>>, prev |-> <<>>]

-----------------------------------------------------------------------------
(* optimize_demand: a link for the largest demand, which is halved.        *)

Largest(s) == CHOOSE t \in s : \A u \in s : t[1] > u[1] \/ (t[1] = u[1] /\ t[2] >= u[2])

ServeDemand ==
  /\ phase = "demand" /\ pq # {}
  /\ LET target == Largest(pq)
         node0 == target[2] \div NNode
         node1 == target[2] % NNode
         rest == (pq \ {target}) \cup
                 (IF target[1] \div 2 > 0 THEN {<<target[1] \div 2, target[2]>>} ELSE {})
     IN  /\ conn' = Linked(conn, node0, node1)
         /\ allocated' = Counted(node0, node1)
         /\ pq' = {t \in rest : \A v \in {node0, node1} \cap Ends(t[2]) : allocated'[v] # IfCnt}
  /\ UNCHANGED <<demand, generating, phase, chain, avail, idToDemand, ccs, search>>

\* The nodes within so many hops of v, and all it is connected with.
Near(c, v) == {v} \cup {w \in Nodes : c[v][w] > 0}

Within(c, v) ==
  LET within[hops \in Nodes] ==
        IF hops = 0 THEN {v} ELSE UNION {Near(c, u) : u \in within[hops - 1]}
  IN  within

Reach(c, v) == Within(c, v)[NNode - 1]

\* In the order of their first nodes.
Components(c) ==
  LET firsts == {v \in Nodes : v = Min(Reach(c, v))}
  IN  LET first == InOrder(firsts) IN [i \in 1..Len(first) |-> Reach(c, first[i])]

\* connect_cc begins.  The map was filled from demands to edges: where two edges
\* have the same demand, either may be the one kept.
ToConnect ==
  LET max == MaxOfBidir(demand)
      amounts == {max[id] : id \in DOMAIN max}
  IN  /\ phase' = "connect"
      /\ ccs' = Components(conn)
      /\ idToDemand' \in {f \in [amounts -> DOMAIN max] : \A a \in amounts : max[f[a]] = a}
      /\ UNCHANGED <<demand, generating, conn, allocated, pq, search>>

\* connect_unused_node begins, unless at most one node is without a link.
DemandServed ==
  /\ phase = "demand" /\ pq = {}
  /\ LET unlinked == {v \in Nodes : allocated[v] = 0}
     IN  IF Cardinality(unlinked) > 1
         THEN /\ phase' = "chain"
              /\ chain' = [nodes |-> unlinked, visited |-> {Min(unlinked)}, curr |-> Min(unlinked)]
              /\ UNCHANGED <<demand, generating, conn, allocated, pq, avail, idToDemand, ccs, search>>
         ELSE ToConnect /\ UNCHANGED <<chain, avail>>

-----------------------------------------------------------------------------
(* The unused nodes, for the generator all nodes, become a chain in random *)
(* order; then random links are added between nodes with interfaces left.  *)

Chain ==
  /\ phase = "chain"
  /\ \E next \in chain.nodes \ chain.visited :
       /\ conn' = Linked(conn, next, chain.curr)
       /\ allocated' = IF generating THEN allocated ELSE Counted(next, chain.curr)
       /\ chain' = [chain EXCEPT !.visited = @ \cup {next}, !.curr = next]
  /\ UNCHANGED <<demand, generating, phase, pq, avail, idToDemand, ccs, search>>

IfInUse(i) == IF generating THEN get_if_in_use(conn, i) ELSE allocated[i]

Chained ==
  /\ phase = "chain" /\ chain.visited = chain.nodes
  /\ phase' = "fill"
  /\ avail' = LET free == InOrder({i \in Nodes : IfInUse(i) < IfCnt})
              IN  [k \in 1..Len(free) |-> <<free[k], IfCnt - IfInUse(free[k])>>]
  /\ UNCHANGED <<demand, generating, conn, allocated, pq, chain, idToDemand, ccs, search>>

\* Faulty: it waits for the last node too.
AllMaxed == Cardinality({v \in Nodes : allocated[v] = IfCnt}) >= NNode

Maxed == Cardinality({v \in Nodes : allocated[v] = IfCnt}) >= NNode - 1

Filled == IF generating THEN Len(avail) <= 1 ELSE Maxed

\* Faulty: the second index is not moved when the first entry is erased.
TakeInPlace(a, b) ==
  LET lessA == [avail EXCEPT ![a][2] = @ - 1]
      x == IF lessA[a][2] = 0 THEN RemoveAt(lessA, a) ELSE lessA
      b1 == Min({b, Len(x)})
      lessB == [x EXCEPT ![b1][2] = @ - 1]
  IN  IF lessB[b1][2] = 0 THEN RemoveAt(lessB, b1) ELSE lessB

\* An interface of entry a and one of entry b are taken; used up entries are erased.
Take(a, b) ==
  LET lessA == [avail EXCEPT ![a][2] = @ - 1]
      erased == lessA[a][2] = 0
      x == IF erased THEN RemoveAt(lessA, a) ELSE lessA
      b1 == IF erased /\ a < b THEN b - 1 ELSE b
      lessB == [x EXCEPT ![b1][2] = @ - 1]
  IN  IF lessB[b1][2] = 0 THEN RemoveAt(lessB, b1) ELSE lessB

\* With a single entry left the code would draw for another one for ever.
Fill ==
  /\ phase = "fill" /\ ~Filled
  /\ \E a, b \in 1..Len(avail) :
       /\ a # b
       /\ conn' = Linked(conn, avail[a][1], avail[b][1])
       /\ allocated' = IF generating THEN allocated ELSE Counted(avail[a][1], avail[b][1])
       /\ avail' = Take(a, b)
  /\ UNCHANGED <<demand, generating, phase, pq, chain, idToDemand, ccs, search>>

FillEnds ==
  /\ phase = "fill" /\ Filled
  /\ avail' = <<>>
  /\ UNCHANGED chain
  /\ IF generating
     THEN /\ phase' = "done"
          /\ UNCHANGED <<demand, generating, conn, allocated, pq, idToDemand, ccs, search>>
     ELSE ToConnect

-----------------------------------------------------------------------------
(* connect_cc: the first two components are joined until one is left.      *)

LinksIn(group) == {p \in group \X group : p[1] < p[2] /\ conn[p[1]][p[2]] > 0}

IdOf(p) == unordered_edge_id(p[1], p[2])
HasDemand(p) == IdOf(p) \in DOMAIN idToDemand
Before(p, q) == p[1] < q[1] \/ (p[1] = q[1] /\ p[2] < q[2])

\* Of the rows of conn, which are left at a link that is not in the map, the last
\* link that is not, or that has less than all looked at before.
LinkToRemove(group) ==
  LET LookedAt(p) == \A q \in LinksIn(group) : q[1] = p[1] /\ q[2] < p[2] => HasDemand(q)
      IsChosen(p) ==
        /\ LookedAt(p)
        /\ HasDemand(p) => \A q \in LinksIn(group) :
             Before(q, p) /\ LookedAt(q) /\ HasDemand(q) => idToDemand[IdOf(q)] > idToDemand[IdOf(p)]
      chosen == {p \in LinksIn(group) : IsChosen(p)}
  IN  CHOOSE p \in chosen : \A q \in chosen \ {p} : Before(q, p)

\* Faulty: the new node is attached to one end of the link it replaces.
AttachToOneEnd(v, p) == [removed |-> <<p>>, added |-> <<<<v, p[1]>>, <<v, p[1]>>>>]

\* The larger node comes first in an edge id, and is e_to_remove / ndevs.
Subdivide(v, p) == [removed |-> <<p>>, added |-> <<<<v, p[1]>>, <<v, p[2]>>>>]

\* The links of a group that may come first in the order of demands.
Weight(p) == IF HasDemand(p) THEN idToDemand[IdOf(p)] ELSE 0
Lightest(group) == {p \in LinksIn(group) : \A q \in LinksIn(group) : Weight(p) <= Weight(q)}

Swap(p, q) == [removed |-> <<p, q>>, added |-> <<<<p[1], q[2]>>, <<p[2], q[1]>>>>]

The(set) == CHOOSE v \in set : TRUE

\* The ways to join components g and h; a component of several nodes has a link.
Changes(g, h) ==
  CASE Cardinality(g) = 1 /\ Cardinality(h) = 1 ->
         {[removed |-> <<>>, added |-> <<<<The(g), The(h)>>, <<The(g), The(h)>>>>]}
    [] Cardinality(g) = 1 /\ Cardinality(h) > 1 -> {Subdivide(The(g), LinkToRemove(h))}
    [] Cardinality(g) > 1 /\ Cardinality(h) = 1 -> {Subdivide(The(h), LinkToRemove(g))}
    [] OTHER -> {Swap(p, q) : p \in Lightest(g), q \in Lightest(h)}

\* add_link fails, and an assert with it, if a node has no interface left.
Join ==
  /\ phase = "connect" /\ Len(ccs) > 1
  /\ \E change \in Changes(ccs[1], ccs[2]) :
       LET c == Rewired(change)
       IN  IF \A v \in Nodes : get_if_in_use(c, v) <= IfCnt
           THEN conn' = c /\ UNCHANGED phase
           ELSE phase' = "assert failed" /\ UNCHANGED conn
  /\ ccs' = <<ccs[1] \cup ccs[2]>> \o SubSeq(ccs, 3, Len(ccs))
  /\ UNCHANGED <<demand, generating, allocated, pq, chain, avail, idToDemand, search>>

-----------------------------------------------------------------------------
(* get_routes_from_src: of the neighbours at the same distance, any may    *)
(* become the predecessor.                                                 *)

Unreached == NNode  \* farther than any node
NoNode == NNode

StartSearch ==
  /\ phase = "connect" /\ Len(ccs) = 1
  /\ phase' = "routes"
  /\ \E src \in Nodes :
       search' = [src |-> src, q |-> <<src>>, visited |-> {},
                  dist |-> [i \in Nodes |-> IF i = src THEN 0 ELSE Unreached],
                  prev |-> [i \in Nodes |-> NoNode]]
  /\ UNCHANGED <<demand, generating, conn, allocated, pq, chain, avail, idToDemand, ccs>>

\* Faulty: the node found last is expanded first.
PushFront(q, nodes) == InOrder(nodes) \o q

Push(q, nodes) == q \o InOrder(nodes)

Expand ==
  /\ phase = "routes" /\ search.q # <<>>
  /\ LET node == Head(search.q)
         visited == search.visited \cup {node}
         dist == search.dist[node] + 1
         next == {i \in Nodes \ visited : conn[node][i] # 0}
         closer == {i \in next : dist < search.dist[i]}
     IN  \E ties \in SUBSET {i \in next : dist = search.dist[i]} :
           search' = [search EXCEPT
             !.q = Push(Tail(@), closer \cup ties),
             !.visited = visited,
             !.dist = [i \in Nodes |-> IF i \in closer \cup ties THEN dist ELSE @[i]],
             !.prev = [i \in Nodes |-> IF i \in closer \cup ties THEN node ELSE @[i]]]
  /\ UNCHANGED <<demand, generating, phase, conn, allocated, pq, chain, avail, idToDemand, ccs>>

SearchEnds ==
  /\ phase = "routes" /\ search.q = <<>>
  /\ phase' = "done"
  /\ UNCHANGED <<demand, generating, conn, allocated, pq, chain, avail, idToDemand, ccs, search>>

\* final_result: the nodes on the way to i, without the source.
RouteTo(i) ==
  LET route[v \in Nodes] == IF search.prev[v] = NoNode THEN <<>> ELSE Append(route[search.prev[v]], v)
  IN  route[i]

Next ==
  \/ ServeDemand \/ DemandServed
  \/ Chain \/ Chained \/ Fill \/ FillEnds
  \/ Join
  \/ StartSearch \/ Expand \/ SearchEnds

\* The loops run; a draw that does not fit is repeated, and fits at last.
Spec == Init /\ [][Next]_vars /\ WF_vars(Next)

-----------------------------------------------------------------------------
(* Properties.                                                             *)

\* No node ever has more links than interfaces, whichever loop added them: the
\* loops keep a tally, a list of what is left, or count, and must agree.
DegreeIsKept ==
  \A v \in Nodes :
    /\ get_if_in_use(conn, v) <= IfCnt
    /\ \A w \in Nodes : conn[v][w] = conn[w][v]
    /\ ~generating /\ phase \in {"demand", "chain", "fill"} => allocated[v] = get_if_in_use(conn, v)

\* connect_cc takes links away to make room for new ones.  A single node always
\* joins, without cutting anything off, and no step makes components more.
JoiningJoins ==
  [][Len(ccs) > 1 =>
       LET before == Len(Components(conn))
           after == Len(Components(conn'))
       IN  /\ after <= before
           /\ 1 \in {Cardinality(ccs[1]), Cardinality(ccs[2])} => after < before]_ccs

\* What the comment in optimize says of connect_cc: all components are connected.
AllConnected == phase \in {"routes", "done"} => Len(Components(conn)) = 1

\* The route to every node is a shortest one over existing links, whichever ties
\* were broken how; a node that is not connected has none.
Distance(from, to) ==
  LET hops == {d \in Nodes : to \in Within(conn, from)[d]} IN IF hops = {} THEN 0 ELSE Min(hops)

RoutesAreShortest ==
  phase = "done" /\ ~generating =>
    \A i \in Nodes \ {search.src} :
      LET nodes == <<search.src>> \o RouteTo(i)
      IN  /\ Len(RouteTo(i)) = Distance(search.src, i)
          /\ \A k \in 1..Len(nodes) - 1 : conn[nodes[k]][nodes[k + 1]] > 0

\* A topology is computed in the end, with a link for every node, and after a
\* generator's work with at most one node that has interfaces left: no loop
\* waits for ever for a node that fits, and no assert fails.
Finished ==
  /\ phase = "done"
  /\ \A v \in Nodes : get_if_in_use(conn, v) > 0
  /\ generating => /\ Cardinality({v \in Nodes : get_if_in_use(conn, v) < IfCnt}) <= 1
                   /\ Len(Components(conn)) = 1

ATopologyIsComputed == <>Finished
=============================================================================
