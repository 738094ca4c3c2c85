---------------------------- MODULE FlatNetworks ----------------------------
(***************************************************************************)
(* The networks without layers: the full mesh FCTopology (fc_topology.cpp) *)
(* and the loaded FlatTopology (flat_topology.cpp), whose nodes switch and *)
(* send; and the single switches TestTopology and StarTopology.            *)
(***************************************************************************)
EXTENDS Routes

CONSTANTS
  NoOfFlat,    \* the nodes of the mesh, of the flat network and of the single switches
  Conn,        \* the pairs of the flat network's file with a connection
  FlatRoutes   \* FlatRoutes[<<s, d>>]: its routes, as sequences of two nodes or more

Ids == 0..NoOfFlat - 1
Node(i) == <<"node", i>>

FCLinks == (UNION {Both(Node(j), Node(k)) : j, k \in Ids}) \ {<<Node(j), Node(j)>> : j \in Ids}

FCPaths(s, d) == {Reversible(Walk(<<Node(s), Node(d)>>), Walk(<<Node(d), Node(s)>>))}

FlatLinks == UNION {Both(Node(pair[1]), Node(pair[2])) : pair \in Conn}

\* The loop of the reverse route stops at i > 1, one link short of the source.
FlatPaths(s, d) ==
  {Reversible([i \in 1..Len(r) - 1 |-> <<Node(r[i]), Node(r[i + 1])>>],
              [i \in 1..Len(r) - 2 |-> <<Node(r[Len(r) - i + 1]), Node(r[Len(r) - i])>>]) :
     r \in FlatRoutes[<<s, d>>]}

TestLinks == UNION {Both(Lower(0), Host(k)) : k \in Ids}

TestPaths(s, d) == {ViaRack(s, 0, 0, d)}

StarLinks == {<<Host(j), Core(0)>> : j \in Ids} \cup {<<Core(0), Host(j)>> : j \in Ids}

StarPaths(s, d) == {OneWay(Walk(<<Host(s), Core(0), Host(d)>>))}
=============================================================================
