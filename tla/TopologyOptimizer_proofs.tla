---------------------- MODULE TopologyOptimizer_proofs ----------------------
(***************************************************************************)
(* The topologies and routes that are computed are sound, for every number *)
(* of nodes, number of interfaces and demand: the three ways of counting   *)
(* used interfaces agree with the links, joining components never makes    *)
(* them more, and the routes are shortest ones.                            *)
(***************************************************************************)
EXTENDS TopologyOptimizer, SharedLemmas

-----------------------------------------------------------------------------
(* Recursion over the numbers of nodes.                                    *)

LEMMA NodeNumbers ==
  /\ NNode \in Nat /\ NNode > 1
  /\ \A n \in 1..NNode : n - 1 \in Nodes
  /\ IfCnt \in Nat /\ IfCnt > 1
  /\ 0 \in Nodes /\ Nodes \subseteq Nat
  BY OptimizerAssumption DEF Nodes

LEMMA NodesAreFinite == IsFiniteSet(Nodes) /\ Cardinality(Nodes) = NNode
<1>1. 0 \in Int /\ NNode - 1 \in Int
  BY NodeNumbers
<1>2. IsFiniteSet(0..NNode - 1) /\ Cardinality(0..NNode - 1)
                                     = IF 0 > NNode - 1 THEN 0 ELSE NNode - 1 - 0 + 1
  BY <1>1, FS_Interval
<1>. QED BY <1>2, NodeNumbers DEF Nodes

Tables == [0..NNode -> Int]

\* g sums the entries of a row.
Sums(g, row) == g[0] = 0 /\ \A i \in 1..NNode : g[i] = g[i - 1] + row[i - 1]

Rows == [Nodes -> Int]

LEMMA DegreeIsSum ==
  ASSUME NEW c, NEW v, c[v] \in Rows
  PROVE  \E g \in Tables : Sums(g, c[v]) /\ get_if_in_use(c, v) = g[NNode]
<1>. DEFINE row == c[v]
            Goal(g) == g = [n \in 0..NNode |-> IF n = 0 THEN 0 ELSE g[n - 1] + c[v][n - 1]]
            links == CHOOSE g : Goal(g)
            step == [i \in 1..NNode |-> [x \in Int |-> x + row[i - 1]]]
<1>1. get_if_in_use(c, v) = links[NNode]
  BY DEF get_if_in_use
<1>2. step \in [1..NNode -> [Int -> Int]] /\ 0 \in Int
  BY NodeNumbers DEF Rows
<1>3. PICK g \in [0..NNode -> Int] : g[0] = 0 /\ \A i \in 1..NNode : g[i] = step[i][g[i - 1]]
  <2>1. RunsOf(Int, 0, NNode, step) # {}
    <3>. HIDE DEF step
    <3>. QED BY <1>2, NodeNumbers, RecursionExists
  <2>. QED BY <2>1 DEF RunsOf
<1>4. \A i \in 1..NNode : g[i] = g[i - 1] + row[i - 1]
  <2>. TAKE i \in 1..NNode
  <2>1. i - 1 \in 0..NNode /\ g[i - 1] \in Int
    BY NodeNumbers
  <2>. QED BY <1>3, <2>1
<1>5. Goal(g)
  BY <1>3, <1>4, NodeNumbers
<1>6. Goal(links)
  <2>. HIDE DEF Goal
  <2>. QED BY <1>5
<1>. HIDE DEF links
<1>7. Sums(links, row)
  BY <1>6, NodeNumbers DEF Sums
<1>8. links \in Tables
  <2>. DEFINE S == {n \in Nat : n <= NNode => links[n] \in Int}
  <2>1. 0 \in S
    BY <1>7 DEF Sums
  <2>2. ASSUME NEW n \in Nat, n \in S PROVE n + 1 \in S
    <3>. SUFFICES ASSUME n + 1 <= NNode PROVE links[n + 1] \in Int
      OBVIOUS
    <3>1. n + 1 \in 1..NNode /\ links[n] \in Int /\ n \in Nodes /\ (n + 1) - 1 = n
      BY <2>2, NodeNumbers DEF Nodes
    <3>2. links[n + 1] = links[n] + row[n]
      BY <1>7, <3>1 DEF Sums
    <3>. QED BY <3>1, <3>2 DEF Rows
  <2>. HIDE DEF S
  <2>3. Nat \subseteq S
    BY <2>1, <2>2, NatInductionOnSets
  <2>4. \A n \in 0..NNode : links[n] \in Int
    BY <2>3, NodeNumbers DEF S
  <2>5. links = [n \in 0..NNode |-> links[n]]
    BY <1>6
  <2>. QED BY <2>4, <2>5 DEF Tables
<1>. QED BY <1>1, <1>7, <1>8

\* If one entry of a row grows, its sum grows as much.
OneEntryDiffers(r, s, j, k) == s[j] = r[j] + k /\ \A i \in Nodes \ {j} : s[i] = r[i]

LEMMA SumsDiffer ==
  ASSUME NEW r \in Rows, NEW s \in Rows, NEW j \in Nodes, NEW k \in Int,
         OneEntryDiffers(r, s, j, k),
         NEW g \in Tables, NEW h \in Tables, Sums(g, r), Sums(h, s)
  PROVE  h[NNode] = g[NNode] + k
<1>. DEFINE S == {n \in Nat : n <= NNode => h[n] = g[n] + (IF n > j THEN k ELSE 0)}
<1>1. 0 \in S
  BY DEF Sums, Nodes
<1>2. ASSUME NEW n \in Nat, n \in S PROVE n + 1 \in S
  <2>. SUFFICES ASSUME n + 1 <= NNode PROVE h[n + 1] = g[n + 1] + (IF n + 1 > j THEN k ELSE 0)
    OBVIOUS
  <2>1. n + 1 \in 1..NNode /\ n \in Nodes /\ (n + 1) - 1 = n /\ n \in 0..NNode
    BY NodeNumbers DEF Nodes
  <2>2. h[n] = g[n] + (IF n > j THEN k ELSE 0) /\ h[n + 1] = h[n] + s[n] /\ g[n + 1] = g[n] + r[n]
    BY <1>2, <2>1 DEF Sums
  <2>3. s[n] = r[n] + (IF n = j THEN k ELSE 0) /\ r[n] \in Int /\ g[n] \in Int
    BY <2>1 DEF Rows, Tables, OneEntryDiffers
  <2>. QED BY <2>2, <2>3 DEF Nodes
<1>. HIDE DEF S
<1>3. Nat \subseteq S
  BY <1>1, <1>2, NatInductionOnSets
<1>. QED BY <1>3, NodeNumbers DEF S, Nodes

LEMMA DegreesDiffer ==
  ASSUME NEW c, NEW d, NEW v, c[v] \in Rows, d[v] \in Rows, NEW j \in Nodes, NEW k \in Int,
         d[v][j] = c[v][j] + k, \A i \in Nodes \ {j} : d[v][i] = c[v][i]
  PROVE  get_if_in_use(d, v) = get_if_in_use(c, v) + k
<1>1. PICK g \in Tables : Sums(g, c[v]) /\ get_if_in_use(c, v) = g[NNode]
  BY DegreeIsSum
<1>2. PICK h \in Tables : Sums(h, d[v]) /\ get_if_in_use(d, v) = h[NNode]
  BY DegreeIsSum
<1>. DEFINE r == c[v]
            s == d[v]
<1>3. /\ r \in Rows /\ s \in Rows /\ OneEntryDiffers(r, s, j, k)
      /\ Sums(g, r) /\ Sums(h, s)
  BY <1>1, <1>2 DEF OneEntryDiffers
<1>. HIDE DEF r, s
<1>4. h[NNode] = g[NNode] + k
  BY <1>3, SumsDiffer
<1>. QED BY <1>1, <1>2, <1>4

LEMMA DegreeIsInt ==
  ASSUME NEW c, NEW v, c[v] \in Rows
  PROVE  get_if_in_use(c, v) \in Int
<1>1. PICK g \in Tables : Sums(g, c[v]) /\ get_if_in_use(c, v) = g[NNode]
  BY DegreeIsSum
<1>. QED BY <1>1, NodeNumbers DEF Tables

LEMMA NoLinks ==
  ASSUME NEW c, NEW v, c[v] = [j \in Nodes |-> 0]
  PROVE  get_if_in_use(c, v) = 0
<1>1. c[v] \in Rows
  BY DEF Rows
<1>2. PICK g \in Tables : Sums(g, c[v]) /\ get_if_in_use(c, v) = g[NNode]
  BY <1>1, DegreeIsSum
<1>. DEFINE S == {n \in Nat : n <= NNode => g[n] = 0}
<1>3. 0 \in S
  BY <1>2 DEF Sums
<1>4. ASSUME NEW n \in Nat, n \in S PROVE n + 1 \in S
  <2>. SUFFICES ASSUME n + 1 <= NNode PROVE g[n + 1] = 0
    OBVIOUS
  <2>1. n + 1 \in 1..NNode /\ n \in Nodes /\ (n + 1) - 1 = n
    BY NodeNumbers DEF Nodes
  <2>2. c[v][n] = 0
    BY <2>1
  <2>3. g[n + 1] = g[n] + c[v][(n + 1) - 1]
    BY <1>2, <2>1 DEF Sums
  <2>. QED BY <1>4, <2>1, <2>2, <2>3, NodeNumbers
<1>. HIDE DEF S
<1>5. Nat \subseteq S
  BY <1>3, <1>4, NatInductionOnSets
<1>. QED BY <1>2, <1>5, NodeNumbers DEF S

Symmetric(c) == \A v, w \in Nodes : c[v][w] = c[w][v]
Matrices == [Nodes -> Rows]

\* A new link counts at both of its ends.
LEMMA LinkCounts ==
  ASSUME NEW c \in Matrices, Symmetric(c), NEW i \in Nodes, NEW j \in Nodes, i # j
  PROVE  /\ Linked(c, i, j) \in Matrices /\ Symmetric(Linked(c, i, j))
         /\ \A v, w \in Nodes :
              Linked(c, i, j)[v][w] = c[v][w] + (IF {v, w} = {i, j} THEN 1 ELSE 0)
         /\ \A v \in Nodes : get_if_in_use(Linked(c, i, j), v)
                               = get_if_in_use(c, v) + (IF v \in {i, j} THEN 1 ELSE 0)
<1>. DEFINE d == Linked(c, i, j)
<1>1. d \in Matrices
  <2>. DEFINE e == [c EXCEPT ![i][j] = @ + 1]
  <2>1. e \in [Nodes -> [Nodes -> Int]]
    BY DEF Matrices, Rows
  <2>2. d = [e EXCEPT ![j][i] = @ + 1]
    BY DEF Linked
  <2>. HIDE DEF d, e
  <2>. QED BY <2>1, <2>2 DEF Matrices, Rows
<1>2. \A v, w \in Nodes : d[v][w] = IF (v = i /\ w = j) \/ (v = j /\ w = i) THEN c[v][w] + 1 ELSE c[v][w]
  BY DEF Linked, Matrices, Rows
<1>. HIDE DEF d
<1>3. Symmetric(d)
  BY <1>2 DEF Symmetric
<1>4. \A v, w \in Nodes : d[v][w] = c[v][w] + (IF {v, w} = {i, j} THEN 1 ELSE 0)
  <2>. TAKE v, w \in Nodes
  <2>1. {v, w} = {i, j} <=> (v = i /\ w = j) \/ (v = j /\ w = i)
    OBVIOUS
  <2>2. c[v][w] \in Int
    BY DEF Matrices, Rows
  <2>. QED BY <1>2, <2>1, <2>2
<1>5. ASSUME NEW v \in Nodes
      PROVE  get_if_in_use(d, v) = get_if_in_use(c, v) + (IF v \in {i, j} THEN 1 ELSE 0)
  <2>1. c[v] \in Rows /\ d[v] \in Rows
    BY <1>1 DEF Matrices
  <2>2. CASE v = i
    <3>1. d[v][j] = c[v][j] + 1 /\ \A w \in Nodes \ {j} : d[v][w] = c[v][w]
      BY <1>2, <2>2
    <3>2. get_if_in_use(d, v) = get_if_in_use(c, v) + 1
      BY <2>1, <3>1, DegreesDiffer
    <3>. QED BY <2>2, <3>2
  <2>3. CASE v = j
    <3>1. d[v][i] = c[v][i] + 1 /\ \A w \in Nodes \ {i} : d[v][w] = c[v][w]
      BY <1>2, <2>3
    <3>2. get_if_in_use(d, v) = get_if_in_use(c, v) + 1
      BY <2>1, <3>1, DegreesDiffer
    <3>. QED BY <2>3, <3>2
  <2>4. CASE v \notin {i, j}
    <3>1. d[v][i] = c[v][i] + 0 /\ \A w \in Nodes \ {i} : d[v][w] = c[v][w]
      BY <1>2, <2>1, <2>4 DEF Rows
    <3>2. get_if_in_use(d, v) = get_if_in_use(c, v) + 0
      BY <2>1, <3>1, DegreesDiffer
    <3>. QED BY <2>1, <2>4, <3>2, DegreeIsInt
  <2>. QED BY <2>2, <2>3, <2>4
<1>. QED BY <1>1, <1>3, <1>4, <1>5 DEF d

-----------------------------------------------------------------------------
(* Nodes in order.                                                         *)

Below(set, n) == {v \in set : v < n}

\* s lists exactly the nodes of a set, each once.
Lists(s, set) ==
  /\ s \in Seq(set)
  /\ \A v \in set : \E k \in 1..Len(s) : s[k] = v
  /\ \A k, m \in 1..Len(s) : k < m => s[k] < s[m]

LEMMA ListsMore ==
  ASSUME NEW set \in SUBSET Nodes, NEW n \in Nodes, NEW s, Lists(s, Below(set, n))
  PROVE  Lists(IF n \in set THEN Append(s, n) ELSE s, Below(set, n + 1))
<1>1. n \in Nat /\ set \subseteq Nat
  BY NodeNumbers
<1>2. CASE n \notin set
  <2>1. \A v \in set : v < n + 1 <=> v < n
    BY <1>1, <1>2
  <2>2. Below(set, n + 1) = Below(set, n)
    BY <2>1 DEF Below
  <2>. QED BY <1>2, <2>2
<1>3. CASE n \in set
  <2>. DEFINE A == Below(set, n)
              B == Below(set, n + 1)
              t == Append(s, n)
  <2>1. B = A \cup {n} /\ A \subseteq Nat /\ \A v \in A : v < n
    <3>1. \A v \in set : v \in Nat /\ (v < n + 1 <=> v < n \/ v = n)
      BY <1>1
    <3>. QED BY <1>3, <3>1 DEF Below
  <2>2. /\ s \in Seq(A) /\ (\A v \in A : \E k \in 1..Len(s) : s[k] = v)
        /\ \A k, m \in 1..Len(s) : k < m => s[k] < s[m]
    BY DEF Lists
  <2>. HIDE DEF A, B
  <2>3. /\ t \in Seq(B) /\ Len(t) = Len(s) + 1 /\ t[Len(s) + 1] = n /\ Len(s) \in Nat
        /\ \A k \in 1..Len(s) : t[k] = s[k] /\ s[k] \in A
    BY <2>1, <2>2
  <2>. HIDE DEF t
  <2>4. \A v \in B : \E k \in 1..Len(t) : t[k] = v
    <3>. TAKE v \in B
    <3>1. CASE v = n
      BY <2>3, <3>1
    <3>2. CASE v \in A
      <4>1. PICK k \in 1..Len(s) : s[k] = v
        BY <2>2, <3>2
      <4>. QED BY <2>3, <4>1
    <3>. QED BY <2>1, <3>1, <3>2
  <2>5. \A k, m \in 1..Len(t) : k < m => t[k] < t[m]
    <3>. SUFFICES ASSUME NEW k \in 1..Len(t), NEW m \in 1..Len(t), k < m PROVE t[k] < t[m]
      OBVIOUS
    <3>1. k \in 1..Len(s) /\ t[k] \in A /\ t[k] = s[k]
      BY <2>3
    <3>2. CASE m = Len(s) + 1
      BY <2>1, <2>3, <3>1, <3>2
    <3>3. CASE m # Len(s) + 1
      <4>1. m \in 1..Len(s) /\ t[m] = s[m]
        BY <2>3, <3>3
      <4>2. s[k] < s[m]
        BY <2>2, <3>1, <4>1
      <4>. QED BY <3>1, <4>1, <4>2
    <3>. QED BY <3>2, <3>3
  <2>6. Lists(t, B)
    BY <2>3, <2>4, <2>5 DEF Lists
  <2>. QED BY <1>3, <2>6 DEF t, B
<1>. QED BY <1>2, <1>3

LEMMA InOrderLists ==
  ASSUME NEW set \in SUBSET Nodes
  PROVE  Lists(InOrder(set), set)
<1>. DEFINE D == Seq(Nodes)
            Goal(g) == g = [n \in 0..NNode |->
                              IF n = 0 THEN <<>>
                              ELSE IF n - 1 \in set THEN Append(g[n - 1], n - 1) ELSE g[n - 1]]
            below == CHOOSE g : Goal(g)
            step == [i \in 1..NNode |-> [s \in D |-> IF i - 1 \in set THEN Append(s, i - 1) ELSE s]]
<1>1. InOrder(set) = below[NNode]
  BY DEF InOrder
<1>2. step \in [1..NNode -> [D -> D]] /\ <<>> \in D
  <2>. SUFFICES ASSUME NEW i \in 1..NNode, NEW s \in D
                PROVE  (IF i - 1 \in set THEN Append(s, i - 1) ELSE s) \in D
    OBVIOUS
  <2>1. i - 1 \in Nodes
    BY NodeNumbers
  <2>. QED BY <2>1
<1>3. PICK g \in [0..NNode -> D] : g[0] = <<>> /\ \A i \in 1..NNode : g[i] = step[i][g[i - 1]]
  <2>1. RunsOf(D, <<>>, NNode, step) # {}
    <3>. HIDE DEF step, D
    <3>. QED BY <1>2, NodeNumbers, RecursionExists
  <2>. QED BY <2>1 DEF RunsOf
<1>4. \A i \in 1..NNode : g[i] = IF i - 1 \in set THEN Append(g[i - 1], i - 1) ELSE g[i - 1]
  <2>. TAKE i \in 1..NNode
  <2>1. i - 1 \in 0..NNode /\ g[i - 1] \in D
    BY NodeNumbers
  <2>. HIDE DEF D
  <2>. QED BY <1>3, <2>1
<1>5. Goal(g)
  <2>. DEFINE value(n) == IF n = 0 THEN <<>>
                          ELSE IF n - 1 \in set THEN Append(g[n - 1], n - 1) ELSE g[n - 1]
  <2>1. \A n \in 0..NNode : g[n] = value(n)
    <3>. TAKE n \in 0..NNode
    <3>1. CASE n = 0
      BY <1>3, <3>1
    <3>2. CASE n # 0
      <4>1. n \in 1..NNode
        BY <3>2, NodeNumbers
      <4>. QED BY <1>4, <3>2, <4>1
    <3>. QED BY <3>1, <3>2
  <2>2. g = [n \in 0..NNode |-> g[n]]
    OBVIOUS
  <2>. HIDE DEF value
  <2>3. g = [n \in 0..NNode |-> value(n)]
    BY <2>1, <2>2
  <2>. QED BY <2>3 DEF value
<1>6. Goal(below)
  <2>. HIDE DEF Goal
  <2>. QED BY <1>5
<1>. HIDE DEF below
<1>7. /\ below[0] = <<>>
      /\ \A i \in 1..NNode : below[i] = IF i - 1 \in set THEN Append(below[i - 1], i - 1) ELSE below[i - 1]
  <2>. DEFINE value(n) == IF n = 0 THEN <<>>
                          ELSE IF n - 1 \in set THEN Append(below[n - 1], n - 1) ELSE below[n - 1]
  <2>1. below = [n \in 0..NNode |-> value(n)]
    BY <1>6
  <2>. HIDE DEF value, Goal
  <2>2. \A n \in 0..NNode : below[n] = value(n)
    BY <2>1
  <2>3. 0 \in 0..NNode /\ \A i \in 1..NNode : i \in 0..NNode /\ i # 0
    BY NodeNumbers
  <2>. QED BY <2>2, <2>3 DEF value
<1>. HIDE DEF Goal
<1>. DEFINE S == {n \in Nat : n <= NNode => Lists(below[n], Below(set, n))}
<1>8. 0 \in S
  <2>1. \A v \in set : ~(v < 0)
    BY NodeNumbers
  <2>2. Below(set, 0) = {}
    BY <2>1 DEF Below
  <2>3. Lists(<<>>, {})
    BY DEF Lists
  <2>. QED BY <1>7, <2>2, <2>3
<1>9. ASSUME NEW n \in Nat, n \in S PROVE n + 1 \in S
  <2>. SUFFICES ASSUME n + 1 <= NNode PROVE Lists(below[n + 1], Below(set, n + 1))
    OBVIOUS
  <2>1. n + 1 \in 1..NNode /\ n \in Nodes /\ (n + 1) - 1 = n
    BY NodeNumbers DEF Nodes
  <2>2. below[n + 1] = IF n \in set THEN Append(below[n], n) ELSE below[n]
    BY <1>7, <2>1
  <2>3. Lists(below[n], Below(set, n))
    BY <1>9, NodeNumbers
  <2>. QED BY <2>1, <2>2, <2>3, ListsMore
<1>. HIDE DEF S
<1>10. Nat \subseteq S
  BY <1>8, <1>9, NatInductionOnSets
<1>11. Below(set, NNode) = set
  <2>1. \A v \in set : v < NNode
    BY NodeNumbers DEF Nodes
  <2>. QED BY <2>1 DEF Below
<1>. QED BY <1>1, <1>10, <1>11, NodeNumbers DEF S

-----------------------------------------------------------------------------
(* Edges and demands.                                                      *)

\* Between two different nodes.
IsEdge(id) ==
  /\ id \in Nat /\ id < NNode * NNode
  /\ id \div NNode \in Nodes /\ id % NNode \in Nodes /\ id \div NNode # id % NNode

LEMMA EdgeNodes ==
  ASSUME NEW i \in Nodes, NEW j \in Nodes
  PROVE  /\ edge_id(i, j) \div NNode = i /\ edge_id(i, j) % NNode = j
         /\ edge_id(i, j) \in Nat /\ edge_id(i, j) < NNode * NNode
<1>1. NNode \in Nat /\ NNode > 0 /\ i \in 0..NNode - 1 /\ j \in 0..NNode - 1
  BY NodeNumbers DEF Nodes
<1>2. (i * NNode + j) \div NNode = i /\ (i * NNode + j) % NNode = j
  BY <1>1
<1>3. i * NNode + j \in Nat /\ i * NNode + j < NNode * NNode
  BY <1>1
<1>. QED BY <1>2, <1>3 DEF edge_id

LEMMA UnorderedEdge ==
  ASSUME NEW i \in Nodes, NEW j \in Nodes, i # j
  PROVE  IsEdge(unordered_edge_id(i, j)) /\ Ends(unordered_edge_id(i, j)) = {i, j}
<1>1. CASE i > j
  BY <1>1, EdgeNodes DEF unordered_edge_id, IsEdge, Ends
<1>2. CASE ~(i > j)
  BY <1>2, EdgeNodes DEF unordered_edge_id, IsEdge, Ends
<1>. QED BY <1>1, <1>2

\* A finite set of numbers is bounded.
LEMMA FiniteIsBounded ==
  ASSUME NEW T \in SUBSET Nat, IsFiniteSet(T)
  PROVE  \E b \in Nat : \A x \in T : x <= b
<1>. DEFINE Bounded(U) == \E b \in Nat : \A x \in U : x <= b
            S == {n \in Nat : \A U \in SUBSET Nat :
                                IsFiniteSet(U) /\ Cardinality(U) = n => Bounded(U)}
<1>1. 0 \in S
  <2>. SUFFICES ASSUME NEW U \in SUBSET Nat, IsFiniteSet(U), Cardinality(U) = 0 PROVE Bounded(U)
    OBVIOUS
  <2>1. U = {}
    BY FS_EmptySet
  <2>. QED BY <2>1
<1>2. ASSUME NEW n \in Nat, n \in S PROVE n + 1 \in S
  <2>. SUFFICES ASSUME NEW U \in SUBSET Nat, IsFiniteSet(U), Cardinality(U) = n + 1
                PROVE  Bounded(U)
    <3>. HIDE DEF Bounded
    <3>. QED OBVIOUS
  <2>0. U # {}
    BY FS_EmptySet
  <2>1. PICK x \in U : TRUE
    BY <2>0
  <2>2. IsFiniteSet(U \ {x}) /\ Cardinality(U \ {x}) = n
    <3>1. Cardinality(U \ {x}) = IF x \in U THEN Cardinality(U) - 1 ELSE Cardinality(U)
      BY FS_RemoveElement
    <3>. QED BY <2>1, <3>1, FS_RemoveElement
  <2>3. PICK b \in Nat : \A y \in U \ {x} : y <= b
    BY <1>2, <2>2
  <2>4. x \in Nat /\ \A y \in U : y <= IF x > b THEN x ELSE b
    BY <2>3
  <2>5. (IF x > b THEN x ELSE b) \in Nat
    BY <2>4
  <2>. QED BY <2>4, <2>5
<1>. HIDE DEF S, Bounded
<1>3. Nat \subseteq S
  BY <1>1, <1>2, NatInductionOnSets
<1>4. Cardinality(T) \in Nat
  BY FS_CardinalityType
<1>5. Bounded(T)
  BY <1>3, <1>4 DEF S
<1>. QED BY <1>5 DEF Bounded

-----------------------------------------------------------------------------
(* The inductive invariant about interfaces.                               *)

Deg(v) == get_if_in_use(conn, v)

LinksFit == conn \in Matrices /\ Symmetric(conn) /\ \A v \in Nodes : Deg(v) <= IfCnt

Phases == {"demand", "chain", "fill", "connect", "assert failed", "routes", "done"}

Tallied ==
  /\ generating \in BOOLEAN /\ phase \in Phases
  /\ allocated \in [Nodes -> Int]
  /\ ~generating /\ phase \in {"demand", "chain", "fill"} => \A v \in Nodes : allocated[v] = Deg(v)

\* What is left of a demand is between nodes that have an interface left.
MayBeServed(t) ==
  /\ t \in (Nat \ {0}) \X Nat /\ IsEdge(t[2])
  /\ allocated[t[2] \div NNode] < IfCnt /\ allocated[t[2] % NNode] < IfCnt

Serving ==
  /\ \E b \in Nat : \A t \in pq : t[1] <= b
  /\ phase = "demand" => ~generating /\ \A t \in pq : MayBeServed(t)

\* The nodes that are not chained yet have no links, and the last one has at most one.
Chaining ==
  phase = "chain" =>
    /\ chain \in [nodes : SUBSET Nodes, visited : SUBSET Nodes, curr : Nodes]
    /\ chain.visited \subseteq chain.nodes /\ chain.curr \in chain.visited /\ Deg(chain.curr) <= 1
    /\ \A v \in chain.nodes \ chain.visited : Deg(v) = 0

\* Of each node that has interfaces left, their number.
Free(a, left) ==
  /\ a \in Seq(Nodes \X (Nat \ {0}))
  /\ \A k \in 1..Len(a) : a[k][2] = left[a[k][1]]
  /\ \A k, m \in 1..Len(a) : k # m => a[k][1] # a[m][1]

Left == [v \in Nodes |-> IfCnt - Deg(v)]

Filling == phase = "fill" => Free(avail, Left)

DInv == LinksFit /\ Tallied /\ Serving /\ Chaining /\ Filling

-----------------------------------------------------------------------------
(* The initial states.                                                     *)

LEMMA LargestIsMember ==
  ASSUME NEW s, s # {}, \A t \in s : t \in Nat \X Nat,
         NEW a \in Nat, NEW b \in Nat, \A t \in s : t[1] <= a /\ t[2] <= b
  PROVE  /\ Largest(s) \in s
         /\ \A u \in s : LET t == Largest(s) IN t[1] > u[1] \/ (t[1] = u[1] /\ t[2] >= u[2])
<1>. DEFINE F == {t[1] : t \in s}
            m == Max(F)
            G == {t[2] : t \in {u \in s : u[1] = m}}
            k == Max(G)
<1>1. m \in F /\ \A x \in F : m >= x
  <2>1. F \in SUBSET Nat /\ F # {} /\ \A x \in F : x <= a
    OBVIOUS
  <2>. HIDE DEF F
  <2>. QED BY <2>1, MaxOfNaturals
<1>. HIDE DEF m
<1>2. k \in G /\ \A x \in G : k >= x
  <2>1. G \in SUBSET Nat /\ G # {} /\ \A x \in G : x <= b
    BY <1>1
  <2>. HIDE DEF G
  <2>. QED BY <2>1, MaxOfNaturals
<1>. HIDE DEF k
<1>3. PICK t \in s : t[1] = m /\ t[2] = k
  BY <1>2
<1>4. \A u \in s : t[1] > u[1] \/ (t[1] = u[1] /\ t[2] >= u[2])
  <2>. TAKE u \in s
  <2>1. u[1] \in Nat /\ m \in Nat /\ m >= u[1]
    BY <1>1
  <2>2. u[1] = m => k >= u[2]
    BY <1>2
  <2>. QED BY <1>3, <2>1, <2>2
<1>. QED BY <1>4 DEF Largest

LEMMA MaxOfBidirFacts ==
  ASSUME NEW d \in Demands
  PROVE  /\ \A id \in DOMAIN MaxOfBidir(d) : IsEdge(id) /\ MaxOfBidir(d)[id] \in Nat \ {0}
         /\ \E b \in Nat : \A id \in DOMAIN MaxOfBidir(d) : MaxOfBidir(d)[id] <= b
<1>. DEFINE D == DOMAIN d
            ids == {unordered_edge_id(e \div NNode, e % NNode) : e \in D}
            amounts(id) == {d[e] : e \in {x \in D : Ends(x) = Ends(id)}}
            T == {d[e] : e \in D}
<1>1. \A e \in D : d[e] \in Nat \ {0} /\ IsEdge(e)
  <2>. TAKE e \in D
  <2>1. d[e] \in Nat \ {0} /\ e \in {edge_id(i, j) : i, j \in Nodes} /\ Cardinality(Ends(e)) = 2
    BY OptimizerAssumption
  <2>2. PICK i \in Nodes, j \in Nodes : e = edge_id(i, j)
    BY <2>1
  <2>3. /\ e \div NNode = i /\ e % NNode = j /\ e \in Nat /\ e < NNode * NNode
    BY <2>2, EdgeNodes
  <2>4. i # j
    <3>. SUFFICES ASSUME i = j PROVE FALSE
      OBVIOUS
    <3>1. Ends(e) = {i}
      BY <2>3 DEF Ends
    <3>. QED BY <2>1, <3>1, FS_Singleton
  <2>. QED BY <2>1, <2>3, <2>4 DEF IsEdge
<1>2. \A e \in D : LET id == unordered_edge_id(e \div NNode, e % NNode)
                   IN  IsEdge(id) /\ Ends(e) = Ends(id)
  BY <1>1, UnorderedEdge DEF IsEdge, Ends
<1>3. IsFiniteSet(D)
  <2>. DEFINE E == 0..NNode * NNode
  <2>1. NNode * NNode \in Nat
    BY NodeNumbers
  <2>2. IsFiniteSet(E)
    BY <2>1, FS_Interval
  <2>3. D \subseteq E
    BY <1>1, <2>1 DEF IsEdge
  <2>. HIDE DEF D, E
  <2>. QED BY <2>2, <2>3, FS_Subset
<1>4. PICK b \in Nat : \A x \in T : x <= b
  <2>. DEFINE f == [e \in D |-> d[e]]
  <2>1. f \in Surjection(D, T)
    BY Fun_IsSurj
  <2>2. T \in SUBSET Nat
    BY <1>1
  <2>. HIDE DEF f, D, T
  <2>3. IsFiniteSet(T)
    BY <1>3, <2>1, FS_Surjection
  <2>. QED BY <2>2, <2>3, FiniteIsBounded
<1>5. ASSUME NEW id \in ids
      PROVE  IsEdge(id) /\ Max(amounts(id)) \in Nat \ {0} /\ Max(amounts(id)) <= b
  <2>1. PICK e \in D : id = unordered_edge_id(e \div NNode, e % NNode)
    OBVIOUS
  <2>2. IsEdge(id) /\ Ends(e) = Ends(id)
    BY <1>2, <2>1
  <2>3. /\ d[e] \in amounts(id) /\ amounts(id) \subseteq T
        /\ amounts(id) \subseteq Nat \ {0}
    BY <1>1, <2>2
  <2>. DEFINE A == amounts(id)
  <2>4. A \in SUBSET Nat /\ A # {} /\ \A x \in A : x <= b
    BY <1>4, <2>3
  <2>5. Max(A) \in A
    <3>. HIDE DEF A, T
    <3>. QED BY <2>4, MaxOfNaturals
  <2>. HIDE DEF T
  <2>. QED BY <1>4, <2>2, <2>3, <2>5
<1>6. MaxOfBidir(d) = [id \in ids |-> Max(amounts(id))]
  BY DEF MaxOfBidir
<1>. HIDE DEF ids, amounts
<1>. QED BY <1>5, <1>6

LEMMA DegreeInit == Init => DInv
<1>. SUFFICES ASSUME Init PROVE DInv
  OBVIOUS
<1>1. \A v \in Nodes : conn[v] = [j \in Nodes |-> 0]
  BY DEF Init
<1>2. \A v \in Nodes : Deg(v) = 0
  BY <1>1, NoLinks DEF Deg
<1>3. LinksFit
  <2>1. conn \in Matrices /\ Symmetric(conn)
    BY DEF Init, Matrices, Rows, Symmetric
  <2>. QED BY <1>2, <2>1, NodeNumbers DEF LinksFit
<1>4. Tallied
  BY <1>2 DEF Init, Tallied, Phases
<1>5. Serving
  <2>. DEFINE m == MaxOfBidir(demand)
  <2>1. pq = {<<m[id], id>> : id \in DOMAIN m}
    BY DEF Init
  <2>2. CASE generating
    <3>1. demand = <<>> /\ phase # "demand"
      BY <2>2 DEF Init
    <3>2. DOMAIN m = {}
      BY <3>1 DEF MaxOfBidir
    <3>. HIDE DEF m
    <3>. QED BY <2>1, <3>1, <3>2 DEF Serving
  <2>3. CASE ~generating
    <3>1. demand \in Demands
      BY <2>3 DEF Init
    <3>2. /\ \A id \in DOMAIN m : IsEdge(id) /\ m[id] \in Nat \ {0}
          /\ \E b \in Nat : \A id \in DOMAIN m : m[id] <= b
      BY <3>1, MaxOfBidirFacts
    <3>. HIDE DEF m
    <3>3. PICK b \in Nat : \A id \in DOMAIN m : m[id] <= b
      BY <3>2
    <3>4. \A t \in pq : t[1] <= b
      BY <2>1, <3>3
    <3>5. \A v \in Nodes : allocated[v] < IfCnt
      BY NodeNumbers DEF Init
    <3>6. ASSUME NEW t \in pq PROVE MayBeServed(t)
      <4>1. PICK id \in DOMAIN m : t = <<m[id], id>>
        BY <2>1
      <4>2. IsEdge(id) /\ m[id] \in Nat \ {0} /\ id \in Nat
        BY <3>2 DEF IsEdge
      <4>. QED BY <3>5, <4>1, <4>2 DEF MayBeServed, IsEdge
    <3>. QED BY <2>3, <3>4, <3>6 DEF Serving
  <2>. QED BY <2>2, <2>3
<1>6. Chaining
  <2>1. phase = "chain" => generating
    BY DEF Init
  <2>2. generating => chain.nodes = Nodes /\ chain.visited = {0} /\ chain.curr = 0
    BY DEF Init
  <2>3. Deg(0) = 0 /\ 0 \in Nodes
    BY <1>2, NodeNumbers
  <2>4. {0} \in SUBSET Nodes /\ 0 \in {0} /\ \A v \in Nodes \ {0} : Deg(v) = 0
    BY <1>2, <2>3
  <2>5. CASE phase # "chain"
    BY <2>5 DEF Chaining
  <2>6. CASE phase = "chain"
    <3>1. chain.nodes = Nodes /\ chain.visited = {0} /\ chain.curr = 0
      BY <2>1, <2>2, <2>6
    <3>2. chain \in [nodes : SUBSET Nodes, visited : SUBSET Nodes, curr : Nodes]
      BY <2>1, <2>3, <2>4, <2>6 DEF Init
    <3>. QED BY <2>3, <2>4, <3>1, <3>2 DEF Chaining
  <2>. QED BY <2>5, <2>6
<1>7. Filling
  BY DEF Init, Filling
<1>. QED BY <1>3, <1>4, <1>5, <1>6, <1>7 DEF DInv

-----------------------------------------------------------------------------
(* The steps.                                                              *)

LEMMA LinkStep ==
  ASSUME LinksFit, NEW i \in Nodes, NEW j \in Nodes, i # j, Deg(i) < IfCnt, Deg(j) < IfCnt,
         conn' = Linked(conn, i, j)
  PROVE  /\ LinksFit'
         /\ \A v \in Nodes : Deg(v) \in Int /\ Deg(v)' = Deg(v) + (IF v \in {i, j} THEN 1 ELSE 0)
<1>1. conn \in Matrices /\ Symmetric(conn)
  BY DEF LinksFit
<1>2. conn' \in Matrices /\ Symmetric(conn)'
  BY <1>1, LinkCounts DEF Symmetric
<1>3. \A v \in Nodes : Deg(v)' = Deg(v) + (IF v \in {i, j} THEN 1 ELSE 0)
  BY <1>1, LinkCounts DEF Deg
<1>4. \A v \in Nodes : Deg(v) \in Int
  BY <1>1, DegreeIsInt DEF Deg, Matrices
<1>5. \A v \in Nodes : Deg(v)' <= IfCnt
  BY <1>3, <1>4, NodeNumbers DEF LinksFit
<1>. QED BY <1>2, <1>3, <1>4, <1>5 DEF LinksFit

LEMMA CountedCounts ==
  ASSUME allocated \in [Nodes -> Int], NEW i \in Nodes, NEW j \in Nodes, i # j
  PROVE  /\ Counted(i, j) \in [Nodes -> Int]
         /\ \A v \in Nodes : Counted(i, j)[v] = allocated[v] + (IF v \in {i, j} THEN 1 ELSE 0)
  BY DEF Counted

LEMMA ServeDemandFits == DInv /\ ServeDemand => DInv'
<1>. SUFFICES ASSUME DInv, ServeDemand PROVE DInv'
  OBVIOUS
<1>. DEFINE target == Largest(pq)
            i == target[2] \div NNode
            j == target[2] % NNode
            half == target[1] \div 2
            rest == (pq \ {target}) \cup (IF half > 0 THEN {<<half, target[2]>>} ELSE {})
<1>1. /\ phase = "demand" /\ ~generating /\ pq # {} /\ phase' = phase /\ generating' = generating
      /\ \A t \in pq : MayBeServed(t)
  BY DEF DInv, Serving, ServeDemand
<1>2. PICK b \in Nat : \A t \in pq : t[1] <= b
  BY DEF DInv, Serving
<1>3. target \in pq
  <2>1. NNode * NNode \in Nat
    BY NodeNumbers
  <2>2. \A t \in pq : t \in Nat \X Nat /\ t[1] <= b /\ t[2] <= NNode * NNode
    BY <1>1, <1>2, <2>1 DEF MayBeServed, IsEdge
  <2>. QED BY <1>1, <1>2, <2>1, <2>2, LargestIsMember
<1>4. /\ target[1] \in Nat \ {0} /\ target[2] \in Nat /\ IsEdge(target[2])
      /\ i \in Nodes /\ j \in Nodes /\ i # j
      /\ allocated[i] < IfCnt /\ allocated[j] < IfCnt
  BY <1>1, <1>3 DEF MayBeServed, IsEdge
<1>5. /\ conn' = Linked(conn, i, j) /\ allocated' = Counted(i, j)
      /\ pq' = {t \in rest : \A v \in {i, j} \cap Ends(t[2]) : allocated'[v] # IfCnt}
  BY DEF ServeDemand
<1>. HIDE DEF target
<1>6. half \in Nat /\ half <= target[1]
  BY <1>4
<1>7. \A t \in rest : t \in (Nat \ {0}) \X Nat /\ IsEdge(t[2]) /\ t[1] <= b
                         /\ allocated[t[2] \div NNode] < IfCnt /\ allocated[t[2] % NNode] < IfCnt
  <2>. TAKE t \in rest
  <2>1. CASE t \in pq
    BY <1>1, <1>2, <2>1 DEF MayBeServed
  <2>2. CASE t = <<half, target[2]>> /\ half > 0
    <3>1. target[1] <= b /\ half <= b
      BY <1>2, <1>3, <1>4, <1>6
    <3>. QED BY <1>4, <1>6, <2>2, <3>1
  <2>. QED BY <2>1, <2>2
<1>. HIDE DEF half, rest, i, j
<1>8. /\ LinksFit /\ allocated \in [Nodes -> Int]
      /\ \A v \in Nodes : allocated[v] = Deg(v)
  BY <1>1 DEF DInv, Tallied
<1>9. /\ LinksFit'
      /\ \A v \in Nodes : Deg(v) \in Int /\ Deg(v)' = Deg(v) + (IF v \in {i, j} THEN 1 ELSE 0)
  BY <1>4, <1>5, <1>8, LinkStep
<1>10. /\ allocated' \in [Nodes -> Int]
       /\ \A v \in Nodes : allocated'[v] = allocated[v] + (IF v \in {i, j} THEN 1 ELSE 0)
  BY <1>4, <1>5, <1>8, CountedCounts
<1>11. Tallied'
  BY <1>1, <1>8, <1>9, <1>10 DEF Tallied, DInv
<1>12. ASSUME NEW t \in pq' PROVE MayBeServed(t)'
  <2>. DEFINE u == t[2] \div NNode
              w == t[2] % NNode
  <2>1. /\ t \in rest /\ t \in (Nat \ {0}) \X Nat /\ IsEdge(t[2]) /\ u \in Nodes /\ w \in Nodes
        /\ allocated[u] < IfCnt /\ allocated[w] < IfCnt
    BY <1>5, <1>7 DEF IsEdge
  <2>2. \A v \in {u, w} : v \in {i, j} => allocated'[v] # IfCnt
    BY <1>5 DEF Ends
  <2>. HIDE DEF u, w
  <2>3. allocated'[u] < IfCnt /\ allocated'[w] < IfCnt
    BY <1>8, <1>10, <2>1, <2>2, NodeNumbers
  <2>. QED BY <2>1, <2>3 DEF MayBeServed, u, w
<1>13. Serving'
  <2>1. \A t \in pq' : t[1] <= b
    BY <1>5, <1>7
  <2>. QED BY <1>1, <1>12, <2>1 DEF Serving
<1>14. Chaining' /\ Filling'
  BY <1>1 DEF Chaining, Filling
<1>. QED BY <1>9, <1>11, <1>13, <1>14 DEF DInv

LEMMA ChainFits == DInv /\ Chain => DInv'
<1>. SUFFICES ASSUME DInv, NEW next \in chain.nodes \ chain.visited, phase = "chain",
                     conn' = Linked(conn, next, chain.curr),
                     allocated' = IF generating THEN allocated ELSE Counted(next, chain.curr),
                     chain' = [chain EXCEPT !.visited = @ \cup {next}, !.curr = next],
                     UNCHANGED <<generating, phase, pq, avail>>
              PROVE  DInv'
  BY DEF Chain
<1>. DEFINE curr == chain.curr
<1>0. chain \in [nodes : SUBSET Nodes, visited : SUBSET Nodes, curr : Nodes]
  BY DEF DInv, Chaining
<1>1. /\ chain.nodes \in SUBSET Nodes /\ chain.visited \in SUBSET chain.nodes
      /\ curr \in chain.visited /\ Deg(curr) <= 1
      /\ \A v \in chain.nodes \ chain.visited : Deg(v) = 0
  BY <1>0 DEF DInv, Chaining
<1>2. next \in Nodes /\ curr \in Nodes /\ next # curr /\ Deg(next) = 0
  BY <1>1
<1>3. LinksFit /\ conn \in Matrices
  BY DEF DInv, LinksFit
<1>4. Deg(curr) \in Int /\ Deg(next) < IfCnt /\ Deg(curr) < IfCnt
  <2>1. Deg(curr) \in Int
    BY <1>2, <1>3, DegreeIsInt DEF Deg, Matrices
  <2>. QED BY <1>1, <1>2, <2>1, NodeNumbers
<1>5. /\ LinksFit'
      /\ \A v \in Nodes : Deg(v) \in Int /\ Deg(v)' = Deg(v) + (IF v \in {next, curr} THEN 1 ELSE 0)
  BY <1>2, <1>3, <1>4, LinkStep
<1>6. Tallied'
  <2>1. allocated \in [Nodes -> Int] /\ (~generating => \A v \in Nodes : allocated[v] = Deg(v))
    BY DEF DInv, Tallied
  <2>2. CASE generating
    BY <2>1, <2>2 DEF DInv, Tallied
  <2>3. CASE ~generating
    <3>1. /\ allocated' \in [Nodes -> Int]
          /\ \A v \in Nodes : allocated'[v] = allocated[v] + (IF v \in {next, curr} THEN 1 ELSE 0)
      BY <1>2, <2>1, <2>3, CountedCounts
    <3>. QED BY <1>5, <2>1, <2>3, <3>1 DEF DInv, Tallied
  <2>. QED BY <2>2, <2>3
<1>7. Chaining'
  <2>1. /\ chain' \in [nodes : SUBSET Nodes, visited : SUBSET Nodes, curr : Nodes]
        /\ chain'.nodes = chain.nodes /\ chain'.visited = chain.visited \cup {next}
        /\ chain'.curr = next
    BY <1>0, <1>2
  <2>2. Deg(next)' <= 1
    BY <1>2, <1>5
  <2>3. \A v \in chain.nodes \ (chain.visited \cup {next}) : Deg(v)' = 0
    BY <1>1, <1>5
  <2>. QED BY <1>1, <2>1, <2>2, <2>3 DEF Chaining
<1>8. Serving' /\ Filling'
  BY DEF DInv, Serving, Filling
<1>. QED BY <1>5, <1>6, <1>7, <1>8 DEF DInv

LEMMA ToConnectKeeps ==
  ASSUME DInv, ToConnect
  PROVE  DInv'
<1>1. /\ LinksFit /\ allocated \in [Nodes -> Int] /\ generating \in BOOLEAN
      /\ \E b \in Nat : \A t \in pq : t[1] <= b
  BY DEF DInv, Tallied, Serving
<1>2. phase' = "connect" /\ UNCHANGED <<generating, conn, allocated, pq>>
  BY DEF ToConnect
<1>3. LinksFit'
  BY <1>1, <1>2 DEF LinksFit, Deg
<1>4. Tallied' /\ Serving' /\ Chaining' /\ Filling'
  BY <1>1, <1>2 DEF Tallied, Serving, Chaining, Filling, Phases
<1>. QED BY <1>3, <1>4 DEF DInv

LEMMA DemandServedFits == DInv /\ DemandServed => DInv'
<1>. SUFFICES ASSUME DInv, DemandServed PROVE DInv'
  OBVIOUS
<1>. DEFINE unlinked == {v \in Nodes : allocated[v] = 0}
<1>1. CASE Cardinality(unlinked) > 1
  <2>1. /\ phase = "demand" /\ phase' = "chain"
        /\ chain' = [nodes |-> unlinked, visited |-> {Min(unlinked)}, curr |-> Min(unlinked)]
        /\ UNCHANGED <<generating, conn, allocated, pq>>
    BY <1>1 DEF DemandServed
  <2>2. /\ LinksFit /\ allocated \in [Nodes -> Int] /\ ~generating /\ generating \in BOOLEAN
        /\ (\A v \in Nodes : allocated[v] = Deg(v))
        /\ \E b \in Nat : \A t \in pq : t[1] <= b
    BY <2>1 DEF DInv, Tallied, Serving
  <2>3. unlinked # {} /\ unlinked \in SUBSET Nat
    <3>1. unlinked # {}
      <4>. HIDE DEF unlinked
      <4>. QED BY <1>1, FS_EmptySet
    <3>. QED BY <3>1, NodeNumbers
  <2>4. Min(unlinked) \in unlinked
    <3>. HIDE DEF unlinked
    <3>. QED BY <2>3, MinOfNaturals
  <2>. DEFINE m == Min(unlinked)
  <2>5. \A v \in unlinked : v \in Nodes /\ Deg(v) = 0
    BY <2>2
  <2>6. Deg(m)' = 0 /\ \A v \in unlinked : Deg(v)' = 0
    BY <2>1, <2>4, <2>5 DEF Deg
  <2>. HIDE DEF unlinked, m
  <2>7. /\ chain' \in [nodes : SUBSET Nodes, visited : SUBSET Nodes, curr : Nodes]
        /\ chain'.nodes = unlinked /\ chain'.visited = {m} /\ chain'.curr = m
    BY <2>1, <2>4, <2>5 DEF m
  <2>8. Chaining'
    BY <2>4, <2>6, <2>7 DEF Chaining, m
  <2>9. LinksFit'
    BY <2>1, <2>2 DEF LinksFit, Deg
  <2>10. Tallied'
    BY <2>1, <2>2 DEF Tallied, Phases, Deg
  <2>11. Serving' /\ Filling'
    BY <2>1, <2>2 DEF Serving, Filling
  <2>. QED BY <2>8, <2>9, <2>10, <2>11 DEF DInv
<1>2. CASE ~(Cardinality(unlinked) > 1)
  BY <1>2, ToConnectKeeps DEF DemandServed
<1>. QED BY <1>1, <1>2

LEMMA ChainedFits == DInv /\ Chained => DInv'
<1>. SUFFICES ASSUME DInv, Chained PROVE DInv'
  OBVIOUS
<1>. DEFINE set == {i \in Nodes : IfInUse(i) < IfCnt}
            free == InOrder(set)
<1>1. /\ phase = "chain" /\ phase' = "fill" /\ UNCHANGED <<generating, conn, allocated, pq>>
      /\ avail' = [k \in 1..Len(free) |-> <<free[k], IfCnt - IfInUse(free[k])>>]
  BY DEF Chained
<1>2. /\ LinksFit /\ allocated \in [Nodes -> Int] /\ generating \in BOOLEAN
      /\ (~generating => \A v \in Nodes : allocated[v] = Deg(v))
      /\ \E b \in Nat : \A t \in pq : t[1] <= b
  BY <1>1 DEF DInv, Tallied, Serving
<1>3. \A v \in Nodes : IfInUse(v) = Deg(v) /\ Deg(v) \in Int
  BY <1>2, DegreeIsInt DEF IfInUse, Deg, LinksFit, Matrices
<1>4. Lists(free, set)
  BY InOrderLists
<1>5. /\ free \in Seq(Nodes) /\ Len(free) \in Nat
      /\ \A k \in 1..Len(free) : free[k] \in Nodes /\ Deg(free[k]) < IfCnt
      /\ \A k, m \in 1..Len(free) : k < m => free[k] < free[m]
  <2>1. set \subseteq Nodes /\ \A v \in set : Deg(v) < IfCnt
    BY <1>3
  <2>. HIDE DEF set, free
  <2>2. /\ free \in Seq(set) /\ Len(free) \in Nat
        /\ \A k, m \in 1..Len(free) : k < m => free[k] < free[m]
    BY <1>4 DEF Lists
  <2>3. \A k \in 1..Len(free) : free[k] \in set
    BY <2>2
  <2>. QED BY <2>1, <2>2, <2>3
<1>. HIDE DEF set, free
<1>6. \A k \in 1..Len(free) : IfCnt - IfInUse(free[k]) \in Nat \ {0}
  <2>. TAKE k \in 1..Len(free)
  <2>1. free[k] \in Nodes /\ Deg(free[k]) < IfCnt
    BY <1>5
  <2>2. IfInUse(free[k]) = Deg(free[k]) /\ Deg(free[k]) \in Int
    BY <1>3, <2>1
  <2>. QED BY <2>1, <2>2, NodeNumbers
<1>. DEFINE entry(k) == <<free[k], IfCnt - IfInUse(free[k])>>
<1>7. avail' \in Seq(Nodes \X (Nat \ {0})) /\ Len(avail') = Len(free)
      /\ \A k \in 1..Len(free) : avail'[k] = entry(k)
  <2>1. \A k \in 1..Len(free) : entry(k) \in Nodes \X (Nat \ {0})
    BY <1>5, <1>6
  <2>. HIDE DEF entry
  <2>2. avail' = [k \in 1..Len(free) |-> entry(k)]
    BY <1>1 DEF entry
  <2>. QED BY <1>5, <2>1, <2>2
<1>8. \A k \in 1..Len(avail') : avail'[k][2] = Left'[avail'[k][1]]
  <2>. TAKE k \in 1..Len(avail')
  <2>1. avail'[k] = entry(k) /\ free[k] \in Nodes
    BY <1>5, <1>7
  <2>2. Left'[free[k]] = IfCnt - Deg(free[k])
    BY <1>1, <2>1 DEF Left, Deg
  <2>. QED BY <1>3, <2>1, <2>2
<1>9. \A k, m \in 1..Len(avail') : k # m => avail'[k][1] # avail'[m][1]
  <2>. SUFFICES ASSUME NEW k \in 1..Len(free), NEW m \in 1..Len(free), k # m
                PROVE  avail'[k][1] # avail'[m][1]
    BY <1>7
  <2>1. free[k] # free[m]
    <3>1. k \in Nat /\ m \in Nat /\ free[k] \in Nat /\ free[m] \in Nat
      <4>1. free[k] \in Nodes /\ free[m] \in Nodes
        BY <1>5
      <4>2. Nodes \subseteq Nat
        BY NodeNumbers
      <4>3. k \in Nat /\ m \in Nat
        BY <1>5
      <4>. QED BY <4>1, <4>2, <4>3
    <3>2. CASE k < m
      BY <1>5, <3>1, <3>2
    <3>3. CASE m < k
      BY <1>5, <3>1, <3>3
    <3>. QED BY <3>1, <3>2, <3>3
  <2>2. avail'[k] = entry(k) /\ avail'[m] = entry(m)
    BY <1>7
  <2>3. avail'[k][1] = free[k] /\ avail'[m][1] = free[m]
    BY <2>2
  <2>. QED BY <2>1, <2>3
<1>10. Filling'
  BY <1>7, <1>8, <1>9 DEF Filling, Free
<1>11. LinksFit'
  BY <1>1, <1>2 DEF LinksFit, Deg
<1>12. Tallied'
  BY <1>1, <1>2 DEF Tallied, Phases, Deg
<1>13. Serving' /\ Chaining'
  BY <1>1, <1>2 DEF Serving, Chaining
<1>. QED BY <1>10, <1>11, <1>12, <1>13 DEF DInv

\* An interface of entry k is used; it is the last one if the entry is erased.
Erased(s, k) == [s EXCEPT ![k][2] = @ - 1][k][2] = 0
Used(s, k) ==
  LET less == [s EXCEPT ![k][2] = @ - 1] IN IF less[k][2] = 0 THEN RemoveAt(less, k) ELSE less
\* Where entry m is then.
Moved(s, k, m) == IF Erased(s, k) /\ k < m THEN m - 1 ELSE m

LEMMA RemoveAtEntries ==
  ASSUME NEW S, NEW s \in Seq(S), NEW i \in 1..Len(s)
  PROVE  /\ RemoveAt(s, i) \in Seq(S) /\ Len(RemoveAt(s, i)) = Len(s) - 1
         /\ \A k \in 1..Len(s) - 1 : RemoveAt(s, i)[k] = s[IF k < i THEN k ELSE k + 1]
<1>. DEFINE a == SubSeq(s, 1, i - 1)
            b == SubSeq(s, i + 1, Len(s))
<1>0. Len(s) \in Nat /\ i \in Nat /\ i >= 1 /\ i <= Len(s)
  OBVIOUS
<1>1. a \in Seq(S) /\ Len(a) = i - 1 /\ \A k \in 1..i - 1 : a[k] = s[k]
  BY <1>0
<1>2. b \in Seq(S) /\ Len(b) = Len(s) - i /\ \A k \in 1..Len(s) - i : b[k] = s[i + k]
  BY <1>0
<1>3. RemoveAt(s, i) = a \o b
  BY DEF RemoveAt
<1>. HIDE DEF a, b
<1>4. a \o b \in Seq(S) /\ Len(a \o b) = Len(s) - 1
  <2>1. a \o b \in Seq(S) /\ Len(a \o b) = Len(a) + Len(b)
    <3>1. a \in Seq(S) /\ b \in Seq(S)
      BY <1>1, <1>2
    <3>. QED BY <3>1
  <2>. QED BY <1>0, <1>1, <1>2, <2>1
<1>5. \A k \in 1..Len(s) - 1 : (a \o b)[k] = IF k <= Len(a) THEN a[k] ELSE b[k - Len(a)]
  BY <1>0, <1>1, <1>2
<1>6. ASSUME NEW k \in 1..Len(s) - 1
      PROVE  (a \o b)[k] = s[IF k < i THEN k ELSE k + 1]
  <2>1. CASE k < i
    <3>1. k \in 1..i - 1 /\ k <= Len(a)
      BY <1>0, <1>1, <2>1
    <3>. QED BY <1>1, <1>5, <2>1, <3>1
  <2>2. CASE ~(k < i)
    <3>1. ~(k <= Len(a)) /\ k - Len(a) \in 1..Len(s) - i /\ i + (k - Len(a)) = k + 1
      BY <1>0, <1>1, <2>2
    <3>2. b[k - Len(a)] = s[k + 1]
      BY <1>2, <3>1
    <3>. QED BY <1>5, <2>2, <3>1, <3>2
  <2>. QED BY <2>1, <2>2
<1>. QED BY <1>3, <1>4, <1>6

LEMMA EntriesDecide ==
  ASSUME NEW S, NEW T, NEW s \in Seq(S), \A m \in 1..Len(s) : s[m] \in T
  PROVE  s \in Seq(T)
  OBVIOUS

Entries == Nodes \X (Nat \ {0})
Remains == Nodes \X Nat

LEMMA UsedLeaves ==
  ASSUME NEW s, NEW left \in [Nodes -> Int], Free(s, left), NEW k \in 1..Len(s),
         NEW less \in [Nodes -> Int],
         \A v \in Nodes : less[v] = left[v] - (IF v = s[k][1] THEN 1 ELSE 0)
  PROVE  /\ Free(Used(s, k), less)
         /\ \A m \in 1..Len(s) \ {k} :
              Moved(s, k, m) \in 1..Len(Used(s, k)) /\ Used(s, k)[Moved(s, k, m)] = s[m]
<1>. DEFINE t == [s EXCEPT ![k][2] = @ - 1]
            E == Remains
            P == Entries
<1>1. /\ s \in Seq(P) /\ Len(s) \in Nat
      /\ \A m \in 1..Len(s) : s[m] \in P /\ s[m][1] \in Nodes /\ s[m][2] \in Nat \ {0}
                             /\ s[m][2] = left[s[m][1]]
      /\ \A l, m \in 1..Len(s) : l # m => s[l][1] # s[m][1]
  <2>1. s \in Seq(Entries)
    BY DEF Free, Entries
  <2>2. \A m \in 1..Len(s) : s[m] \in Entries
    BY <2>1
  <2>3. \A m \in 1..Len(s) : s[m][1] \in Nodes /\ s[m][2] \in Nat \ {0}
    BY <2>2 DEF Entries
  <2>. QED BY <2>1, <2>2, <2>3 DEF Free
<1>2. /\ t \in Seq(E) /\ Len(t) = Len(s)
      /\ \A m \in 1..Len(s) : m # k => t[m] = s[m]
      /\ t[k] \in E /\ t[k][1] = s[k][1] /\ t[k][2] = s[k][2] - 1
  <2>1. s[k] \in Nodes \X (Nat \ {0})
    BY <1>1 DEF Entries
  <2>2. s[k] = <<s[k][1], s[k][2]>>
    BY <2>1
  <2>3. [s[k] EXCEPT ![2] = @ - 1] = <<s[k][1], s[k][2] - 1>>
    BY <2>1
  <2>4. t = [s EXCEPT ![k] = <<s[k][1], s[k][2] - 1>>]
    BY <2>3
  <2>. DEFINE new == <<s[k][1], s[k][2] - 1>>
  <2>5. new \in E /\ new[1] = s[k][1] /\ new[2] = s[k][2] - 1
    BY <1>1 DEF Remains
  <2>6. s \in Seq(E)
    <3>1. \A m \in 1..Len(s) : s[m] \in Remains
      BY <1>1 DEF Entries, Remains
    <3>. QED BY <1>1, <3>1, EntriesDecide
  <2>. HIDE DEF t, new
  <2>7. t = [s EXCEPT ![k] = new]
    BY <2>4 DEF new
  <2>. QED BY <2>5, <2>6, <2>7
<1>. HIDE DEF t
<1>3. \A m \in 1..Len(s) : t[m] \in E /\ t[m][1] = s[m][1] /\ t[m][2] = less[t[m][1]]
  <2>. TAKE m \in 1..Len(s)
  <2>0. t[m] \in E
    BY <1>1, <1>2
  <2>1. CASE m = k
    BY <1>1, <1>2, <2>0, <2>1
  <2>2. CASE m # k
    <3>1. s[m][1] # s[k][1] /\ less[s[m][1]] = left[s[m][1]] - 0 /\ left[s[m][1]] \in Int
      BY <1>1, <2>2
    <3>. QED BY <1>1, <1>2, <2>0, <2>2, <3>1
  <2>. QED BY <2>1, <2>2
<1>4. CASE s[k][2] = 1
  <2>. DEFINE u == RemoveAt(t, k)
              at(m) == IF m < k THEN m ELSE m + 1
  <2>1. Used(s, k) = u /\ Erased(s, k)
    BY <1>2, <1>4 DEF Used, Erased, t
  <2>2. /\ u \in Seq(E) /\ Len(u) = Len(s) - 1
        /\ \A m \in 1..Len(s) - 1 : u[m] = t[at(m)]
    <3>1. /\ u \in Seq(E) /\ Len(u) = Len(t) - 1
          /\ \A m \in 1..Len(t) - 1 : u[m] = t[at(m)]
      BY <1>2, RemoveAtEntries
    <3>. QED BY <1>2, <3>1
  <2>. HIDE DEF u
  <2>3. \A m \in 1..Len(u) : at(m) \in 1..Len(s) /\ at(m) # k /\ u[m] = s[at(m)]
    <3>. TAKE m \in 1..Len(u)
    <3>1. m \in 1..Len(s) - 1 /\ at(m) \in 1..Len(s) /\ at(m) # k
      BY <1>1, <2>2
    <3>. HIDE DEF at
    <3>. QED BY <1>2, <2>2, <3>1
  <2>4. \A l, m \in 1..Len(u) : l # m => at(l) # at(m)
    <3>1. 1..Len(u) \subseteq Nat
      BY <1>1, <2>2
    <3>2. \A l, m \in Nat : l # m => at(l) # at(m)
      OBVIOUS
    <3>. QED BY <3>1, <3>2
  <2>. HIDE DEF at
  <2>5. u \in Seq(P)
    <3>1. \A m \in 1..Len(u) : u[m] \in P
      BY <1>1, <2>3
    <3>. QED BY <2>2, <3>1, EntriesDecide
  <2>6. \A m \in 1..Len(u) : u[m][2] = less[u[m][1]]
    <3>. TAKE m \in 1..Len(u)
    <3>1. at(m) \in 1..Len(s) /\ at(m) # k /\ u[m] = s[at(m)]
      BY <2>3
    <3>2. t[at(m)] = s[at(m)]
      BY <1>2, <3>1
    <3>. QED BY <1>3, <3>1, <3>2
  <2>7. \A l, m \in 1..Len(u) : l # m => u[l][1] # u[m][1]
    <3>. SUFFICES ASSUME NEW l \in 1..Len(u), NEW m \in 1..Len(u), l # m
                  PROVE  u[l][1] # u[m][1]
      OBVIOUS
    <3>1. /\ at(l) \in 1..Len(s) /\ u[l] = s[at(l)] /\ at(m) \in 1..Len(s) /\ u[m] = s[at(m)]
          /\ at(l) # at(m)
      BY <2>3, <2>4
    <3>. QED BY <1>1, <3>1
  <2>8. Free(u, less)
    BY <2>5, <2>6, <2>7 DEF Free, Entries
  <2>9. ASSUME NEW m \in 1..Len(s) \ {k}
        PROVE  Moved(s, k, m) \in 1..Len(u) /\ u[Moved(s, k, m)] = s[m]
    <3>1. Moved(s, k, m) = IF k < m THEN m - 1 ELSE m
      BY <2>1 DEF Moved
    <3>2. Moved(s, k, m) \in 1..Len(s) - 1 /\ at(Moved(s, k, m)) = m
      BY <1>1, <3>1 DEF at
    <3>. QED BY <2>2, <2>3, <3>2
  <2>. QED BY <2>1, <2>8, <2>9
<1>5. CASE s[k][2] # 1
  <2>1. Used(s, k) = t /\ ~Erased(s, k) /\ t[k][2] \in Nat \ {0}
    BY <1>1, <1>2, <1>5 DEF Used, Erased, t
  <2>2. \A m \in 1..Len(t) : t[m] \in P
    <3>. TAKE m \in 1..Len(t)
    <3>1. CASE m = k
      BY <1>2, <2>1, <3>1 DEF Entries, Remains
    <3>2. CASE m # k
      BY <1>1, <1>2, <3>2
    <3>. QED BY <3>1, <3>2
  <2>3. t \in Seq(P)
    <3>. QED BY <1>2, <2>2, EntriesDecide
  <2>4. Free(t, less)
    <3>1. \A m \in 1..Len(t) : t[m][2] = less[t[m][1]] /\ t[m][1] = s[m][1]
      BY <1>2, <1>3
    <3>2. \A l, m \in 1..Len(t) : l # m => t[l][1] # t[m][1]
      <4>. SUFFICES ASSUME NEW l \in 1..Len(s), NEW m \in 1..Len(s), l # m
                    PROVE  t[l][1] # t[m][1]
        BY <1>2
      <4>1. t[l][1] = s[l][1] /\ t[m][1] = s[m][1]
        BY <1>2, <3>1
      <4>. QED BY <1>1, <4>1
    <3>. QED BY <2>3, <3>1, <3>2 DEF Free, Entries
  <2>5. \A m \in 1..Len(s) \ {k} : Moved(s, k, m) \in 1..Len(t) /\ t[Moved(s, k, m)] = s[m]
    BY <1>2, <2>1 DEF Moved
  <2>. QED BY <2>1, <2>4, <2>5
<1>. QED BY <1>4, <1>5

LEMMA FillFits == DInv /\ Fill => DInv'
<1>. SUFFICES ASSUME DInv, NEW a \in 1..Len(avail), NEW b \in 1..Len(avail), a # b,
                     phase = "fill", conn' = Linked(conn, avail[a][1], avail[b][1]),
                     allocated' = IF generating THEN allocated
                                                ELSE Counted(avail[a][1], avail[b][1]),
                     avail' = Take(a, b), UNCHANGED <<generating, phase, pq>>
              PROVE  DInv'
  BY DEF Fill
<1>. DEFINE i == avail[a][1]
            j == avail[b][1]
            x == Used(avail, a)
            b1 == Moved(avail, a, b)
            once == [v \in Nodes |-> IfCnt - Deg(v) - (IF v = i THEN 1 ELSE 0)]
<1>1. Free(avail, Left) /\ LinksFit
  BY DEF DInv, Filling
<1>2. /\ \A k \in 1..Len(avail) : /\ avail[k][1] \in Nodes /\ avail[k][2] \in Nat \ {0}
                                  /\ avail[k][2] = Left[avail[k][1]]
      /\ \A k, m \in 1..Len(avail) : k # m => avail[k][1] # avail[m][1]
  <2>1. avail \in Seq(Entries)
    BY <1>1 DEF Free, Entries
  <2>2. \A k \in 1..Len(avail) : avail[k] \in Entries
    BY <2>1
  <2>3. \A k \in 1..Len(avail) : avail[k][1] \in Nodes /\ avail[k][2] \in Nat \ {0}
    BY <2>2 DEF Entries
  <2>. QED BY <1>1, <2>3 DEF Free
<1>3. \A v \in Nodes : Deg(v) \in Int
  BY <1>1, DegreeIsInt DEF Deg, LinksFit, Matrices
<1>4. i \in Nodes /\ j \in Nodes /\ i # j /\ Deg(i) < IfCnt /\ Deg(j) < IfCnt
  <2>1. i \in Nodes /\ j \in Nodes /\ i # j /\ Left[i] > 0 /\ Left[j] > 0
    BY <1>2
  <2>2. Left[i] = IfCnt - Deg(i) /\ Left[j] = IfCnt - Deg(j)
    BY <2>1 DEF Left
  <2>. QED BY <1>3, <2>1, <2>2, NodeNumbers
<1>5. /\ LinksFit'
      /\ \A v \in Nodes : Deg(v) \in Int /\ Deg(v)' = Deg(v) + (IF v \in {i, j} THEN 1 ELSE 0)
  BY <1>1, <1>4, LinkStep
<1>6. Tallied'
  <2>1. allocated \in [Nodes -> Int] /\ (~generating => \A v \in Nodes : allocated[v] = Deg(v))
    BY DEF DInv, Tallied
  <2>2. CASE generating
    BY <2>1, <2>2 DEF DInv, Tallied
  <2>3. CASE ~generating
    <3>1. /\ allocated' \in [Nodes -> Int]
          /\ \A v \in Nodes : allocated'[v] = allocated[v] + (IF v \in {i, j} THEN 1 ELSE 0)
      BY <1>4, <2>1, <2>3, CountedCounts
    <3>. QED BY <1>5, <2>1, <2>3, <3>1 DEF DInv, Tallied
  <2>. QED BY <2>2, <2>3
<1>7. Take(a, b) = Used(x, b1)
  BY DEF Take, Used, Moved, Erased
<1>8. /\ Left \in [Nodes -> Int] /\ once \in [Nodes -> Int] /\ Left' \in [Nodes -> Int]
      /\ \A v \in Nodes : once[v] = Left[v] - (IF v = i THEN 1 ELSE 0)
      /\ \A v \in Nodes : Left'[v] = once[v] - (IF v = j THEN 1 ELSE 0)
  <2>1. \A v \in Nodes : Deg(v)' \in Int /\ Deg(v)' = Deg(v) + (IF v = i \/ v = j THEN 1 ELSE 0)
    BY <1>5
  <2>2. /\ Left \in [Nodes -> Int] /\ once \in [Nodes -> Int]
        /\ \A v \in Nodes : once[v] = Left[v] - (IF v = i THEN 1 ELSE 0)
    BY <1>3, NodeNumbers DEF Left
  <2>3. \A v \in Nodes : Left'[v] = IfCnt - Deg(v)'
    BY DEF Left
  <2>4. Left' \in [Nodes -> Int]
    BY <2>1, NodeNumbers DEF Left
  <2>5. \A v \in Nodes : once[v] = IfCnt - Deg(v) - (IF v = i THEN 1 ELSE 0)
    OBVIOUS
  <2>. HIDE DEF i, j, once
  <2>6. ASSUME NEW v \in Nodes
        PROVE  Left'[v] = once[v] - (IF v = j THEN 1 ELSE 0)
    <3>1. Left'[v] = IfCnt - Deg(v)' /\ once[v] = IfCnt - Deg(v) - (IF v = i THEN 1 ELSE 0)
      BY <2>3, <2>5
    <3>2. Deg(v) \in Int /\ Deg(v)' = Deg(v) + (IF v = i \/ v = j THEN 1 ELSE 0) /\ i # j
      BY <1>3, <1>4, <2>1
    <3>. QED BY <3>1, <3>2, NodeNumbers
  <2>. QED BY <2>2, <2>4, <2>6
<1>. HIDE DEF once, i, j, x, b1
<1>9. /\ Free(x, once)
      /\ b1 \in 1..Len(x) /\ x[b1][1] = j
  <2>1. /\ Free(x, once)
        /\ \A m \in 1..Len(avail) \ {a} :
             Moved(avail, a, m) \in 1..Len(x) /\ x[Moved(avail, a, m)] = avail[m]
    BY <1>1, <1>8, UsedLeaves DEF x, i
  <2>. QED BY <2>1 DEF b1, j
<1>10. Free(Used(x, b1), Left')
  BY <1>8, <1>9, UsedLeaves
<1>11. Filling'
  BY <1>7, <1>10 DEF Filling
<1>12. Serving' /\ Chaining'
  BY DEF DInv, Serving, Chaining
<1>. QED BY <1>5, <1>6, <1>11, <1>12 DEF DInv

LEMMA FillEndsFits == DInv /\ FillEnds => DInv'
<1>. SUFFICES ASSUME DInv, FillEnds PROVE DInv'
  OBVIOUS
<1>1. CASE generating
  <2>1. phase' = "done" /\ UNCHANGED <<generating, conn, allocated, pq>>
    BY <1>1 DEF FillEnds
  <2>2. LinksFit'
    BY <2>1 DEF DInv, LinksFit, Deg
  <2>3. Tallied' /\ Serving' /\ Chaining' /\ Filling'
    BY <1>1, <2>1 DEF DInv, Tallied, Phases, Serving, Chaining, Filling
  <2>. QED BY <2>2, <2>3 DEF DInv
<1>2. CASE ~generating
  BY <1>2, ToConnectKeeps DEF FillEnds
<1>. QED BY <1>1, <1>2

\* How often a link occurs in a short list.
Is(p, i, j) == IF {p[1], p[2]} = {i, j} THEN 1 ELSE 0

LEMMA TimesFacts ==
  ASSUME NEW i, NEW j, NEW p, NEW q
  PROVE  /\ Times(<<>>, i, j) = 0
         /\ Times(<<p>>, i, j) = Is(p, i, j)
         /\ Times(<<p, q>>, i, j) = Is(p, i, j) + Is(q, i, j)
<1>. DEFINE K(links) == {k \in DOMAIN links : {links[k][1], links[k][2]} = {i, j}}
<1>1. K(<<>>) = {}
  OBVIOUS
<1>2. K(<<p>>) = IF {p[1], p[2]} = {i, j} THEN {1} ELSE {}
  OBVIOUS
<1>3. K(<<p, q>>) = (IF {p[1], p[2]} = {i, j} THEN {1} ELSE {})
                      \cup (IF {q[1], q[2]} = {i, j} THEN {2} ELSE {})
  OBVIOUS
<1>4. /\ Cardinality({}) = 0 /\ Cardinality({1}) = 1 /\ Cardinality({2}) = 1
      /\ Cardinality({1} \cup {2}) = 2
  <2>1. Cardinality({}) = 0 /\ Cardinality({1}) = 1 /\ Cardinality({2}) = 1 /\ IsFiniteSet({1})
    BY FS_EmptySet, FS_Singleton
  <2>2. Cardinality({1} \cup {2}) = IF 2 \in {1} THEN Cardinality({1}) ELSE Cardinality({1}) + 1
    BY <2>1, FS_AddElement
  <2>. QED BY <2>1, <2>2
<1>5. \A links : Times(links, i, j) = Cardinality(K(links))
  BY DEF Times
<1>. HIDE DEF K
<1>6. Times(<<>>, i, j) = 0
  BY <1>1, <1>4, <1>5
<1>7. Times(<<p>>, i, j) = Is(p, i, j)
  BY <1>2, <1>4, <1>5 DEF Is
<1>8. Times(<<p, q>>, i, j) = Is(p, i, j) + Is(q, i, j)
  <2>. DEFINE P == {p[1], p[2]} = {i, j}
              Q == {q[1], q[2]} = {i, j}
  <2>1. CASE P /\ Q
    BY <1>3, <1>4, <1>5, <2>1 DEF Is
  <2>2. CASE P /\ ~Q
    <3>1. K(<<p, q>>) = {1}
      BY <1>3, <2>2
    <3>. QED BY <1>4, <1>5, <2>2, <3>1 DEF Is
  <2>3. CASE ~P /\ Q
    <3>1. K(<<p, q>>) = {2}
      BY <1>3, <2>3
    <3>. QED BY <1>4, <1>5, <2>3, <3>1 DEF Is
  <2>4. CASE ~P /\ ~Q
    <3>1. K(<<p, q>>) = {}
      BY <1>3, <2>4
    <3>. QED BY <1>4, <1>5, <2>4, <3>1 DEF Is
  <2>. QED BY <2>1, <2>2, <2>3, <2>4
<1>. QED BY <1>6, <1>7, <1>8

\* Two links are added, and at most two taken away.
LEMMA ChangeForms ==
  ASSUME NEW g, NEW h, NEW change \in Changes(g, h)
  PROVE  /\ \/ change.removed = <<>>
            \/ \E p : change.removed = <<p>>
            \/ \E p, q : change.removed = <<p, q>>
         /\ \E p, q : change.added = <<p, q>>
<1>1. CASE Cardinality(g) = 1 /\ Cardinality(h) = 1
  BY <1>1 DEF Changes
<1>2. CASE Cardinality(g) = 1 /\ Cardinality(h) > 1
  BY <1>2 DEF Changes, Subdivide
<1>3. CASE Cardinality(g) > 1 /\ Cardinality(h) = 1
  BY <1>3 DEF Changes, Subdivide
<1>4. CASE /\ ~(Cardinality(g) = 1 /\ Cardinality(h) = 1)
           /\ ~(Cardinality(g) = 1 /\ Cardinality(h) > 1)
           /\ ~(Cardinality(g) > 1 /\ Cardinality(h) = 1)
  BY <1>4 DEF Changes, Swap
<1>. QED BY <1>1, <1>2, <1>3, <1>4

LEMMA TimesIsInt ==
  ASSUME NEW g, NEW h, NEW change \in Changes(g, h), NEW i, NEW j
  PROVE  Times(change.removed, i, j) \in Int /\ Times(change.added, i, j) \in Int
<1>1. \A p : Is(p, i, j) \in Int
  BY DEF Is
<1>2. /\ \/ change.removed = <<>>
         \/ \E p : change.removed = <<p>>
         \/ \E p, q : change.removed = <<p, q>>
      /\ \E p, q : change.added = <<p, q>>
  BY ChangeForms
<1>3. \A p, q : /\ Times(<<>>, i, j) \in Int /\ Times(<<p>>, i, j) \in Int
               /\ Times(<<p, q>>, i, j) \in Int
  <2>. TAKE p, q
  <2>1. Is(p, i, j) \in Int /\ Is(q, i, j) \in Int
    BY <1>1
  <2>. QED BY <2>1, TimesFacts
<1>. QED BY <1>2, <1>3

LEMMA JoinFits == DInv /\ Join => DInv'
<1>. SUFFICES ASSUME DInv, Join PROVE DInv'
  OBVIOUS
<1>1. PICK change \in Changes(ccs[1], ccs[2]) :
        LET c == Rewired(change)
        IN  IF \A v \in Nodes : get_if_in_use(c, v) <= IfCnt
            THEN conn' = c /\ UNCHANGED phase
            ELSE phase' = "assert failed" /\ UNCHANGED conn
  BY DEF Join
<1>2. phase = "connect" /\ UNCHANGED <<generating, allocated, pq>>
  BY DEF Join
<1>3. LinksFit
  BY DEF DInv
<1>4. LinksFit' /\ phase' \in {"connect", "assert failed"}
  <2>. DEFINE c == Rewired(change)
  <2>1. CASE \A v \in Nodes : get_if_in_use(c, v) <= IfCnt
    <3>1. conn' = c /\ phase' = phase
      BY <1>1, <2>1
    <3>2. \A i, j \in Nodes : c[i][j] = conn[i][j] - Times(change.removed, i, j) + Times(change.added, i, j)
      BY DEF Rewired
    <3>3. c = [i \in Nodes |-> [j \in Nodes |-> c[i][j]]]
      BY DEF Rewired
    <3>. HIDE DEF c
    <3>4. \A i, j \in Nodes : c[i][j] \in Int
      <4>. TAKE i, j \in Nodes
      <4>1. conn[i][j] \in Int
        BY <1>3 DEF LinksFit, Matrices, Rows
      <4>2. Times(change.removed, i, j) \in Int /\ Times(change.added, i, j) \in Int
        BY TimesIsInt
      <4>. QED BY <3>2, <4>1, <4>2
    <3>5. c \in Matrices
      BY <3>3, <3>4 DEF Matrices, Rows
    <3>6. \A i, j \in Nodes : c[i][j] = c[j][i]
      <4>. TAKE i, j \in Nodes
      <4>1. \A links : Times(links, i, j) = Times(links, j, i)
        <5>1. {i, j} = {j, i}
          OBVIOUS
        <5>. QED BY <5>1 DEF Times
      <4>2. conn[i][j] = conn[j][i]
        BY <1>3 DEF LinksFit, Symmetric
      <4>. QED BY <3>2, <4>1, <4>2
    <3>. QED BY <1>2, <2>1, <3>1, <3>5, <3>6 DEF LinksFit, Symmetric, Deg
  <2>2. CASE ~(\A v \in Nodes : get_if_in_use(c, v) <= IfCnt)
    BY <1>1, <1>3, <2>2 DEF LinksFit, Deg
  <2>. QED BY <2>1, <2>2
<1>5. Tallied' /\ Serving' /\ Chaining' /\ Filling'
  BY <1>2, <1>4 DEF DInv, Tallied, Phases, Serving, Chaining, Filling
<1>. QED BY <1>4, <1>5 DEF DInv

LEMMA RoutingFits ==
  ASSUME DInv, StartSearch \/ Expand \/ SearchEnds \/ UNCHANGED vars
  PROVE  DInv'
<1>1. /\ UNCHANGED <<generating, conn, allocated, pq>>
      /\ phase' \in {"routes", "done"} \/ UNCHANGED <<phase, chain, avail>>
  BY DEF StartSearch, Expand, SearchEnds, vars
<1>2. LinksFit'
  BY <1>1 DEF DInv, LinksFit, Deg
<1>3. Tallied'
  BY <1>1 DEF DInv, Tallied, Phases, Deg
<1>4. Serving' /\ Chaining'
  BY <1>1 DEF DInv, Serving, MayBeServed, Chaining, Deg
<1>5. Filling'
  BY <1>1 DEF DInv, Filling, Left, Deg
<1>. QED BY <1>2, <1>3, <1>4, <1>5 DEF DInv

LEMMA DegreeNext == DInv /\ [Next]_vars => DInv'
  BY ServeDemandFits, DemandServedFits, ChainFits, ChainedFits, FillFits, FillEndsFits, JoinFits,
     RoutingFits DEF Next

\* No node has more links than interfaces: the tally of optimize_demand, the list
\* of what is left when random links are added, and the count of add_link agree.
THEOREM DegreesAreKept == Spec => []DegreeIsKept
<1>1. DInv => DegreeIsKept
  BY DEF DInv, LinksFit, Tallied, DegreeIsKept, Symmetric, Deg
<1>. QED BY <1>1, DegreeInit, DegreeNext, PTL DEF Spec

-----------------------------------------------------------------------------
(* What is reached over the links.                                         *)

Closed(c, set) == \A u \in set : Near(c, u) \subseteq set

LEMMA NearFacts ==
  ASSUME NEW c, NEW v \in Nodes
  PROVE  v \in Near(c, v) /\ Near(c, v) \subseteq Nodes
  BY DEF Near

LEMMA WithinFacts ==
  ASSUME NEW c, NEW v \in Nodes
  PROVE  /\ Within(c, v)[0] = {v}
         /\ \A k \in 1..NNode - 1 :
              Within(c, v)[k] = UNION {Near(c, u) : u \in Within(c, v)[k - 1]}
         /\ \A k \in 0..NNode - 1 : Within(c, v)[k] \in SUBSET Nodes
<1>. DEFINE D == SUBSET Nodes
            n == NNode - 1
            grown(S) == UNION {Near(c, u) : u \in S}
            Goal(g) == g = [hops \in Nodes |-> IF hops = 0 THEN {v} ELSE grown(g[hops - 1])]
            within == CHOOSE g : Goal(g)
            step == [i \in 1..n |-> [S \in D |-> grown(S)]]
<1>1. Within(c, v) = within
  BY DEF Within
<1>2. \A S \in D : grown(S) \in D
  BY NearFacts
<1>3. n \in Nat /\ Nodes = 0..n
  BY NodeNumbers DEF Nodes
<1>. HIDE DEF D, n, grown
<1>4. step \in [1..n -> [D -> D]]
  BY <1>2
<1>5. {v} \in D
  BY DEF D
<1>6. PICK g \in [0..n -> D] : g[0] = {v} /\ \A i \in 1..n : g[i] = step[i][g[i - 1]]
  <2>1. RunsOf(D, {v}, n, step) # {}
    <3>. HIDE DEF step
    <3>. QED BY <1>3, <1>4, <1>5, RecursionExists
  <2>. QED BY <2>1 DEF RunsOf
<1>7. \A i \in 1..n : g[i] = grown(g[i - 1])
  <2>. TAKE i \in 1..n
  <2>1. i - 1 \in 0..n /\ g[i - 1] \in D
    BY <1>3
  <2>. QED BY <1>6, <2>1
<1>. DEFINE value(g1, k) == IF k = 0 THEN {v} ELSE grown(g1[k - 1])
<1>8. Goal(g)
  <2>1. \A k \in 0..n : g[k] = value(g, k)
    <3>. TAKE k \in 0..n
    <3>1. CASE k = 0
      BY <1>6, <3>1
    <3>2. CASE k # 0
      <4>1. k \in 1..n
        BY <1>3, <3>2
      <4>. QED BY <1>7, <3>2, <4>1
    <3>. QED BY <3>1, <3>2
  <2>2. g = [k \in 0..n |-> g[k]]
    OBVIOUS
  <2>. HIDE DEF value
  <2>3. g = [k \in 0..n |-> value(g, k)]
    BY <2>1, <2>2
  <2>. QED BY <1>3, <2>3 DEF value
<1>9. Goal(within)
  <2>. HIDE DEF Goal
  <2>. QED BY <1>8
<1>. HIDE DEF within
<1>10. within[0] = {v} /\ \A k \in 1..n : within[k] = grown(within[k - 1])
  <2>1. within = [k \in 0..n |-> value(within, k)]
    BY <1>3, <1>9
  <2>. HIDE DEF value, Goal
  <2>2. \A k \in 0..n : within[k] = value(within, k)
    BY <2>1
  <2>3. 0 \in 0..n /\ \A i \in 1..n : i \in 0..n /\ i # 0
    BY <1>3
  <2>. QED BY <2>2, <2>3 DEF value
<1>. HIDE DEF Goal
<1>. DEFINE S == {k \in Nat : k <= n => within[k] \in D}
<1>11. 0 \in S
  BY <1>5, <1>10
<1>12. ASSUME NEW k \in Nat, k \in S PROVE k + 1 \in S
  <2>. SUFFICES ASSUME k + 1 <= n PROVE within[k + 1] \in D
    OBVIOUS
  <2>1. k + 1 \in 1..n /\ (k + 1) - 1 = k /\ within[k] \in D
    BY <1>3, <1>12
  <2>. QED BY <1>2, <1>10, <2>1
<1>. HIDE DEF S
<1>13. Nat \subseteq S
  BY <1>11, <1>12, NatInductionOnSets
<1>14. \A k \in 0..n : within[k] \in D
  BY <1>3, <1>13 DEF S
<1>. QED BY <1>1, <1>10, <1>14 DEF D, n, grown

\* As many hops as there are other nodes are enough.
LEMMA ReachIsClosed ==
  ASSUME NEW c, NEW v \in Nodes
  PROVE  /\ Reach(c, v) \in SUBSET Nodes /\ v \in Reach(c, v) /\ Closed(c, Reach(c, v))
         /\ \A C : v \in C /\ Closed(c, C) => Reach(c, v) \subseteq C
<1>. DEFINE W == Within(c, v)
            n == NNode - 1
<1>1. /\ W[0] = {v} /\ (\A k \in 1..n : W[k] = UNION {Near(c, u) : u \in W[k - 1]})
      /\ (\A k \in 0..n : W[k] \in SUBSET Nodes) /\ n \in Nat /\ NNode = n + 1
  BY WithinFacts, NodeNumbers
<1>. HIDE DEF W, n
<1>2. ASSUME NEW k \in Nat, k + 1 <= n
      PROVE  /\ W[k] \in SUBSET Nodes /\ W[k + 1] \in SUBSET Nodes
             /\ W[k + 1] = UNION {Near(c, u) : u \in W[k]} /\ W[k] \subseteq W[k + 1]
  <2>1. k + 1 \in 1..n /\ (k + 1) - 1 = k /\ k \in 0..n /\ k + 1 \in 0..n
    BY <1>1, <1>2
  <2>2. W[k] \in SUBSET Nodes /\ W[k + 1] \in SUBSET Nodes
    BY <1>1, <2>1
  <2>3. W[k + 1] = UNION {Near(c, u) : u \in W[k]}
    BY <1>1, <2>1
  <2>4. \A u \in W[k] : u \in Near(c, u)
    BY <2>2, NearFacts
  <2>. QED BY <2>2, <2>3, <2>4
<1>. DEFINE S == {k \in Nat : k <= n =>
                    /\ v \in W[k]
                    /\ Closed(c, W[k]) \/ Cardinality(W[k]) >= k + 1
                    /\ \A C : v \in C /\ Closed(c, C) => W[k] \subseteq C}
<1>3. 0 \in S
  <2>1. Cardinality({v}) = 1
    BY FS_Singleton
  <2>. QED BY <1>1, <2>1
<1>4. ASSUME NEW k \in Nat, k \in S PROVE k + 1 \in S
  <2>. SUFFICES ASSUME k + 1 <= n
                PROVE  /\ v \in W[k + 1]
                       /\ Closed(c, W[k + 1]) \/ Cardinality(W[k + 1]) >= (k + 1) + 1
                       /\ \A C : v \in C /\ Closed(c, C) => W[k + 1] \subseteq C
    OBVIOUS
  <2>1. /\ W[k] \in SUBSET Nodes /\ W[k + 1] \in SUBSET Nodes
        /\ W[k + 1] = UNION {Near(c, u) : u \in W[k]} /\ W[k] \subseteq W[k + 1]
    BY <1>2
  <2>2. /\ v \in W[k] /\ (Closed(c, W[k]) \/ Cardinality(W[k]) >= k + 1)
        /\ \A C : v \in C /\ Closed(c, C) => W[k] \subseteq C
    BY <1>1, <1>4
  <2>3. \A C : v \in C /\ Closed(c, C) => W[k + 1] \subseteq C
    BY <2>1, <2>2 DEF Closed
  <2>4. CASE Closed(c, W[k])
    <3>1. W[k + 1] = W[k]
      BY <2>1, <2>4 DEF Closed
    <3>. QED BY <2>2, <2>3, <2>4, <3>1
  <2>5. CASE ~Closed(c, W[k])
    <3>1. W[k + 1] # W[k]
      BY <2>1, <2>5 DEF Closed
    <3>2. PICK w \in W[k + 1] : w \notin W[k]
      BY <2>1, <3>1
    <3>. DEFINE A == W[k]
                B == W[k + 1]
    <3>3. A \subseteq B \ {w} /\ w \in B /\ B \subseteq Nodes /\ Cardinality(A) >= k + 1
      BY <2>1, <2>2, <2>5, <3>2
    <3>. HIDE DEF A, B
    <3>4. IsFiniteSet(B) /\ IsFiniteSet(B \ {w}) /\ Cardinality(B \ {w}) = Cardinality(B) - 1
      BY <3>3, NodesAreFinite, FS_Subset, FS_RemoveElement
    <3>5. Cardinality(A) <= Cardinality(B \ {w})
      BY <3>3, <3>4, FS_Subset
    <3>6. Cardinality(A) \in Nat /\ Cardinality(B) \in Nat
      BY <3>3, <3>4, FS_Subset, FS_CardinalityType
    <3>7. Cardinality(B) >= (k + 1) + 1
      BY <3>3, <3>4, <3>5, <3>6
    <3>. QED BY <2>1, <2>2, <2>3, <3>7 DEF B
  <2>. QED BY <2>4, <2>5
<1>. HIDE DEF S
<1>5. Nat \subseteq S
  BY <1>3, <1>4, NatInductionOnSets
<1>6. /\ v \in W[n] /\ (Closed(c, W[n]) \/ Cardinality(W[n]) >= n + 1)
      /\ \A C : v \in C /\ Closed(c, C) => W[n] \subseteq C
  BY <1>1, <1>5 DEF S
<1>7. W[n] \in SUBSET Nodes
  BY <1>1
<1>8. Closed(c, W[n])
  <2>. SUFFICES ASSUME Cardinality(W[n]) >= n + 1 PROVE Closed(c, W[n])
    BY <1>6
  <2>. DEFINE R == W[n]
  <2>1. R \subseteq Nodes /\ Cardinality(R) >= NNode
    BY <1>1, <1>7
  <2>. HIDE DEF R
  <2>2. Cardinality(R) <= NNode /\ (Cardinality(R) = NNode => R = Nodes) /\ Cardinality(R) \in Nat
    BY <2>1, NodesAreFinite, FS_Subset, FS_CardinalityType
  <2>3. R = Nodes
    BY <2>1, <2>2, NodeNumbers
  <2>. QED BY <2>3, NearFacts DEF Closed, R
<1>9. Reach(c, v) = W[n]
  BY DEF Reach, W, n
<1>. QED BY <1>6, <1>7, <1>8, <1>9

LEMMA ReachIsMutual ==
  ASSUME NEW c, \A v, w \in Nodes : c[v][w] = c[w][v], NEW v \in Nodes, NEW u \in Reach(c, v)
  PROVE  u \in Nodes /\ Reach(c, u) = Reach(c, v)
<1>1. u \in Nodes
  BY ReachIsClosed
<1>2. Reach(c, u) \subseteq Reach(c, v)
  BY <1>1, ReachIsClosed
<1>3. v \in Reach(c, u)
  <2>. SUFFICES ASSUME v \notin Reach(c, u) PROVE FALSE
    OBVIOUS
  <2>. DEFINE C == Nodes \ Reach(c, u)
  <2>1. Closed(c, C)
    <3>. SUFFICES ASSUME NEW x \in C, NEW w \in Near(c, x), w \in Reach(c, u) PROVE FALSE
      BY NearFacts DEF Closed
    <3>1. x \in Nodes /\ w \in Nodes
      BY NearFacts
    <3>2. x \in Near(c, w)
      BY <3>1 DEF Near
    <3>. QED BY <1>1, <3>2, ReachIsClosed DEF Closed
  <2>2. Reach(c, v) \subseteq C
    BY <2>1, ReachIsClosed
  <2>. QED BY <1>1, <2>2, ReachIsClosed
<1>4. Reach(c, v) \subseteq Reach(c, u)
  BY <1>1, <1>3, ReachIsClosed
<1>. QED BY <1>1, <1>2, <1>4

-----------------------------------------------------------------------------
(* Joining components: the links that are replaced exist.                  *)

\* What is to be joined has no node twice, and is linked within.
Disjoint(groups) ==
  /\ groups \in Seq(SUBSET Nodes)
  /\ \A k \in 1..Len(groups) : groups[k] # {}
  /\ \A k, m \in 1..Len(groups) : k # m => groups[k] \cap groups[m] = {}

Joining ==
  phase = "connect" =>
    Disjoint(ccs) /\ \A k \in 1..Len(ccs) : Cardinality(ccs[k]) > 1 => LinksIn(ccs[k]) # {}

LinksAreNat == \A v, w \in Nodes : conn[v][w] \in Nat

JInv == DInv /\ LinksAreNat /\ Joining


LEMMA ComponentsAreGroups ==
  ASSUME \A v, w \in Nodes : conn[v][w] = conn[w][v]
  PROVE  /\ Disjoint(Components(conn))
         /\ \A k \in 1..Len(Components(conn)) :
              Cardinality(Components(conn)[k]) > 1 => LinksIn(Components(conn)[k]) # {}
<1>. DEFINE firsts == {v \in Nodes : v = Min(Reach(conn, v))}
            first == InOrder(firsts)
            at(k) == Reach(conn, first[k])
            s == [k \in 1..Len(first) |-> at(k)]
<1>1. Components(conn) = s
  BY DEF Components
<1>2. Lists(first, firsts)
  BY InOrderLists
<1>3. /\ first \in Seq(firsts) /\ Len(first) \in Nat
      /\ \A k, m \in 1..Len(first) : k < m => first[k] < first[m]
  <2>. HIDE DEF first, firsts
  <2>. QED BY <1>2 DEF Lists
<1>4. \A k \in 1..Len(first) : first[k] \in Nodes /\ first[k] = Min(Reach(conn, first[k]))
  <2>1. \A v \in firsts : v \in Nodes /\ v = Min(Reach(conn, v))
    OBVIOUS
  <2>2. \A k \in 1..Len(first) : first[k] \in firsts
    <3>. HIDE DEF first, firsts
    <3>. QED BY <1>3
  <2>. HIDE DEF first, firsts
  <2>. QED BY <2>1, <2>2
<1>. HIDE DEF first, firsts
<1>5. \A k \in 1..Len(first) : at(k) \in SUBSET Nodes /\ first[k] \in at(k)
  BY <1>4, ReachIsClosed
<1>6. /\ s \in Seq(SUBSET Nodes) /\ Len(s) = Len(first)
      /\ \A k \in 1..Len(first) : s[k] = at(k)
  <2>. HIDE DEF at
  <2>. QED BY <1>3, <1>5
<1>7. ASSUME NEW k \in 1..Len(first), NEW m \in 1..Len(first), k # m
      PROVE  at(k) \cap at(m) = {}
  <2>. SUFFICES ASSUME NEW u \in at(k), u \in at(m) PROVE FALSE
    OBVIOUS
  <2>1. at(k) = at(m)
    BY <1>4, ReachIsMutual
  <2>2. first[k] = first[m]
    BY <1>4, <2>1
  <2>3. first[k] \in Nat /\ k \in Nat /\ m \in Nat
    <3>1. first[k] \in Nodes /\ Nodes \subseteq Nat
      BY <1>4, NodeNumbers
    <3>2. first[k] \in Nat
      BY <3>1
    <3>3. k \in Nat /\ m \in Nat
      BY <1>3
    <3>. QED BY <3>2, <3>3
  <2>4. k < m \/ m < k
    BY <1>7, <2>3
  <2>. QED BY <1>3, <2>2, <2>3, <2>4
<1>8. Disjoint(s)
  <2>. HIDE DEF s, at
  <2>. QED BY <1>5, <1>6, <1>7 DEF Disjoint
<1>9. ASSUME NEW k \in 1..Len(first), Cardinality(at(k)) > 1
      PROVE  LinksIn(at(k)) # {}
  <2>. DEFINE v == first[k]
              R == at(k)
  <2>1. PICK w \in Near(conn, v) : w # v
    <3>. SUFFICES ASSUME Near(conn, v) \subseteq {v} PROVE FALSE
      OBVIOUS
    <3>1. Closed(conn, {v})
      BY DEF Closed
    <3>2. R = {v}
      BY <1>4, <3>1, ReachIsClosed
    <3>3. Cardinality({v}) = 1
      BY FS_Singleton
    <3>. QED BY <1>9, <3>2, <3>3
  <2>2. v \in Nodes /\ w \in Nodes /\ v \in R /\ w \in R /\ conn[v][w] > 0
    BY <1>4, <2>1, ReachIsClosed DEF Closed, Near
  <2>3. conn[w][v] > 0 /\ v \in Nat /\ w \in Nat
    BY <2>2, NodeNumbers
  <2>4. CASE v < w
    <3>1. <<v, w>> \in LinksIn(R)
      BY <2>2, <2>4 DEF LinksIn
    <3>. QED BY <3>1
  <2>5. CASE w < v
    <3>1. <<w, v>> \in LinksIn(R)
      BY <2>2, <2>3, <2>5 DEF LinksIn
    <3>. QED BY <3>1
  <2>. QED BY <2>1, <2>3, <2>4, <2>5
<1>. HIDE DEF at
<1>. QED BY <1>1, <1>6, <1>8, <1>9

\* The link that makes room for a node exists.
LEMMA RemovedLinkExists ==
  ASSUME NEW group \in SUBSET Nodes, LinksIn(group) # {}
  PROVE  LinkToRemove(group) \in LinksIn(group)
<1>. DEFINE L == LinksIn(group)
            LookedAt(p) == \A q \in L : q[1] = p[1] /\ q[2] < p[2] => HasDemand(q)
            IsChosen(p) ==
              /\ LookedAt(p)
              /\ HasDemand(p) => \A q \in L :
                   Before(q, p) /\ LookedAt(q) /\ HasDemand(q) => idToDemand[IdOf(q)] > idToDemand[IdOf(p)]
            chosen == {p \in L : IsChosen(p)}
<1>1. \A p \in L : /\ p \in Nat \X Nat /\ p[1] \in Nat /\ p[2] \in Nat
                  /\ p[1] <= NNode /\ p[2] <= NNode /\ p = <<p[1], p[2]>>
  <2>. TAKE p \in L
  <2>1. p \in group \X group
    BY DEF LinksIn
  <2>2. p = <<p[1], p[2]>> /\ p[1] \in group /\ p[2] \in group
    BY <2>1
  <2>3. p[1] \in Nat /\ p[2] \in Nat /\ p[1] <= NNode /\ p[2] <= NNode
    BY <2>2, NodeNumbers DEF Nodes
  <2>. QED BY <2>2, <2>3
<1>2. PICK p \in L : \A q \in L : ~Before(q, p)
  <2>. DEFINE F == {q[1] : q \in L}
              m == Min(F)
              G == {q[2] : q \in {r \in L : r[1] = m}}
              k == Min(G)
  <2>. HIDE DEF L
  <2>1. m \in F /\ \A x \in F : m <= x
    <3>1. F \in SUBSET Nat /\ F # {}
      BY <1>1 DEF L
    <3>. HIDE DEF F
    <3>. QED BY <3>1, MinOfNaturals
  <2>. HIDE DEF m
  <2>2. k \in G /\ \A x \in G : k <= x
    <3>1. G \in SUBSET Nat /\ G # {}
      BY <1>1, <2>1
    <3>. HIDE DEF G
    <3>. QED BY <3>1, MinOfNaturals
  <2>. HIDE DEF k
  <2>3. PICK p \in L : p[1] = m /\ p[2] = k
    BY <2>2
  <2>4. ASSUME NEW q \in L PROVE ~Before(q, p)
    <3>1. q[1] \in Nat /\ q[2] \in Nat /\ m \in Nat /\ k \in Nat /\ m <= q[1]
      BY <1>1, <2>1, <2>3
    <3>2. q[1] = m => k <= q[2]
      BY <2>2
    <3>. QED BY <2>3, <3>1, <3>2 DEF Before
  <2>. QED BY <2>3, <2>4
<1>3. p \in chosen
  <2>1. LookedAt(p)
    BY <1>2 DEF Before
  <2>. HIDE DEF L, LookedAt
  <2>. QED BY <1>2, <2>1
<1>. DEFINE last == Largest(chosen)
<1>4. chosen # {} /\ chosen \subseteq L
  BY <1>3
<1>5. last \in chosen /\ \A q \in chosen : last[1] > q[1] \/ (last[1] = q[1] /\ last[2] >= q[2])
  <2>. HIDE DEF chosen, L
  <2>1. NNode \in Nat
    BY NodeNumbers
  <2>2. \A t \in chosen : t \in Nat \X Nat /\ t[1] <= NNode /\ t[2] <= NNode
    BY <1>1, <1>4
  <2>. QED BY <1>4, <2>1, <2>2, LargestIsMember
<1>6. LinkToRemove(group) = CHOOSE x \in chosen : \A q \in chosen \ {x} : Before(q, x)
  BY DEF LinkToRemove
<1>. HIDE DEF chosen, last, L
<1>7. \A q \in chosen \ {last} : Before(q, last)
  <2>. TAKE q \in chosen \ {last}
  <2>1. last \in L /\ q \in L
    BY <1>4, <1>5
  <2>2. /\ last[1] \in Nat /\ last[2] \in Nat /\ q[1] \in Nat /\ q[2] \in Nat
        /\ (last[1] # q[1] \/ last[2] # q[2])
    BY <1>1, <2>1
  <2>. QED BY <1>5, <2>2 DEF Before
<1>8. LinkToRemove(group) \in chosen
  BY <1>5, <1>6, <1>7
<1>. QED BY <1>4, <1>8 DEF L

LEMMA IsFacts ==
  ASSUME NEW p, NEW i, NEW j
  PROVE  /\ Is(p, i, j) \in {0, 1}
         /\ Is(p, i, j) = 1 => \/ i = p[1] /\ j = p[2]
                               \/ i = p[2] /\ j = p[1]
         /\ i = p[1] /\ j = p[2] => Is(p, i, j) = 1
         /\ i = p[2] /\ j = p[1] => Is(p, i, j) = 1
<1>1. {p[1], p[2]} = {i, j} <=> (i = p[1] /\ j = p[2]) \/ (i = p[2] /\ j = p[1])
  OBVIOUS
<1>. QED BY <1>1 DEF Is

\* How the links within a group change when something in it is rewired.
LEMMA RewiredGroup ==
  ASSUME LinksAreNat, NEW group \in SUBSET Nodes, NEW change, NEW a, NEW b,
         change.added = <<a, b>>,
         a[1] \in group, a[2] \in group, a[1] # a[2], b[1] \in group, b[2] \in group,
         \A i, j \in Nodes : LET n == Times(change.removed, i, j)
                             IN  n \in Nat /\ n <= conn[i][j] /\ (i \notin group => n = 0)
  PROVE  LET c == Rewired(change)
         IN  /\ \A i, j \in Nodes : c[i][j] \in Nat /\ (i \notin group => c[i][j] = conn[i][j])
             /\ \E v, w \in group : v < w /\ c[v][w] > 0
<1>. DEFINE c == Rewired(change)
            gone(i, j) == Times(change.removed, i, j)
<1>1. ASSUME NEW i \in Nodes, NEW j \in Nodes
      PROVE  c[i][j] = conn[i][j] - gone(i, j) + Is(a, i, j) + Is(b, i, j)
  <2>1. c[i][j] = conn[i][j] - gone(i, j) + Times(change.added, i, j)
    BY DEF Rewired
  <2>. DEFINE added == change.added
  <2>2. Times(added, i, j) = Is(a, i, j) + Is(b, i, j)
    <3>1. Times(<<a, b>>, i, j) = Is(a, i, j) + Is(b, i, j)
      BY TimesFacts
    <3>2. added = <<a, b>>
      OBVIOUS
    <3>. HIDE DEF added
    <3>. QED BY <3>1, <3>2
  <2>3. /\ Is(a, i, j) \in Nat /\ Is(b, i, j) \in Nat /\ conn[i][j] \in Nat /\ gone(i, j) \in Nat
    BY IsFacts DEF LinksAreNat
  <2>. QED BY <2>1, <2>2, <2>3
<1>2. \A i, j \in Nodes : /\ gone(i, j) \in Nat /\ gone(i, j) <= conn[i][j]
                          /\ (i \notin group => gone(i, j) = 0)
  OBVIOUS
<1>. HIDE DEF c, gone
<1>3. ASSUME NEW i \in Nodes, NEW j \in Nodes
      PROVE  c[i][j] \in Nat /\ c[i][j] >= Is(a, i, j) /\ (i \notin group => c[i][j] = conn[i][j])
  <2>1. /\ Is(a, i, j) \in {0, 1} /\ Is(b, i, j) \in {0, 1}
        /\ (i \notin group => Is(a, i, j) # 1 /\ Is(b, i, j) # 1)
    BY IsFacts
  <2>2. conn[i][j] \in Nat
    BY DEF LinksAreNat
  <2>. QED BY <1>1, <1>2, <2>1, <2>2
<1>4. /\ a[1] \in Nodes /\ a[2] \in Nodes /\ a[1] \in Nat /\ a[2] \in Nat
      /\ Is(a, a[1], a[2]) = 1 /\ Is(a, a[2], a[1]) = 1
  <2>1. Is(a, a[1], a[2]) = 1 /\ Is(a, a[2], a[1]) = 1
    BY IsFacts
  <2>2. a[1] \in Nodes /\ a[2] \in Nodes /\ Nodes \subseteq Nat
    BY NodeNumbers
  <2>3. a[1] \in Nat /\ a[2] \in Nat
    BY <2>2
  <2>. QED BY <2>1, <2>2, <2>3
<1>5. c[a[1]][a[2]] > 0 /\ c[a[2]][a[1]] > 0
  BY <1>3, <1>4
<1>6. \E v, w \in group : v < w /\ c[v][w] > 0
  <2>1. a[1] < a[2] \/ a[2] < a[1]
    BY <1>4
  <2>. QED BY <1>5, <2>1
<1>. QED BY <1>3, <1>6 DEF c

LEMMA JoinedGroup ==
  ASSUME LinksAreNat, Symmetric(conn), NEW g \in SUBSET Nodes, NEW h \in SUBSET Nodes,
         g # {}, h # {}, g \cap h = {},
         Cardinality(g) > 1 => LinksIn(g) # {}, Cardinality(h) > 1 => LinksIn(h) # {},
         NEW change \in Changes(g, h)
  PROVE  LET c == Rewired(change)
         IN  /\ \A i, j \in Nodes : c[i][j] \in Nat /\ (i \notin g \cup h => c[i][j] = conn[i][j])
             /\ \E v, w \in g \cup h : v < w /\ c[v][w] > 0
<1>. DEFINE U == g \cup h
            gone(i, j) == Times(change.removed, i, j)
            Possible == \A i, j \in Nodes : LET n == gone(i, j)
                                             IN n \in Nat /\ n <= conn[i][j] /\ (i \notin U => n = 0)
            Added(a, b) == /\ change.added = <<a, b>>
                           /\ a[1] \in U /\ a[2] \in U /\ a[1] # a[2] /\ b[1] \in U /\ b[2] \in U
<1>1. SUFFICES Possible /\ \E a, b : Added(a, b)
  <2>. SUFFICES ASSUME Possible, NEW a, NEW b, Added(a, b)
                PROVE  LET c == Rewired(change)
                       IN  /\ \A i, j \in Nodes : c[i][j] \in Nat /\ (i \notin U => c[i][j] = conn[i][j])
                           /\ \E v, w \in U : v < w /\ c[v][w] > 0
    OBVIOUS
  <2>1. U \in SUBSET Nodes
    OBVIOUS
  <2>. HIDE DEF U
  <2>. QED BY <2>1, RewiredGroup
<1>2. The(g) \in g /\ The(h) \in h
  BY DEF The
<1>3. \A i, j \in Nodes : conn[i][j] \in Nat /\ conn[i][j] = conn[j][i]
  BY DEF LinksAreNat, Symmetric
<1>4. ASSUME NEW k \in {g, h}, NEW p \in LinksIn(k)
      PROVE  /\ p[1] \in k /\ p[2] \in k /\ p[1] # p[2]
             /\ \A i, j \in Nodes : /\ Is(p, i, j) \in Nat /\ Is(p, i, j) <= conn[i][j]
                                    /\ i \notin k => Is(p, i, j) = 0
  <2>1. /\ p[1] \in k /\ p[2] \in k /\ p[1] < p[2] /\ conn[p[1]][p[2]] > 0
    BY DEF LinksIn
  <2>2. p[1] \in Nodes /\ p[2] \in Nodes
    BY <2>1
  <2>3. p[1] # p[2] /\ conn[p[2]][p[1]] > 0
    <3>1. Nodes \subseteq Nat /\ p[1] \in Nodes
      BY <2>2, NodeNumbers
    <3>2. p[1] \in Nat
      BY <3>1
    <3>3. conn[p[2]][p[1]] = conn[p[1]][p[2]]
      BY <1>3, <2>2
    <3>. QED BY <2>1, <3>2, <3>3
  <2>4. ASSUME NEW i \in Nodes, NEW j \in Nodes
        PROVE  /\ Is(p, i, j) \in Nat /\ Is(p, i, j) <= conn[i][j]
               /\ i \notin k => Is(p, i, j) = 0
    <3>1. /\ Is(p, i, j) \in {0, 1}
          /\ Is(p, i, j) = 1 => (i = p[1] /\ j = p[2]) \/ (i = p[2] /\ j = p[1])
      BY IsFacts
    <3>2. Is(p, i, j) = 1 => conn[i][j] > 0 /\ i \in k
      BY <2>1, <2>3, <3>1
    <3>3. conn[i][j] \in Nat
      BY <1>3
    <3>. QED BY <3>1, <3>2, <3>3
  <2>. QED BY <2>1, <2>3, <2>4
<1>5. CASE Cardinality(g) = 1 /\ Cardinality(h) = 1
  <2>. DEFINE a == <<The(g), The(h)>>
  <2>1. change.removed = <<>> /\ change.added = <<a, a>>
    BY <1>5 DEF Changes
  <2>2. Added(a, a)
    BY <1>2, <2>1
  <2>3. \A i, j \in Nodes : gone(i, j) = 0
    BY <2>1, TimesFacts
  <2>. QED BY <1>3, <2>2, <2>3
<1>6. ASSUME NEW k \in {g, h}, NEW v \in U \ k, NEW p \in LinksIn(k), change = Subdivide(v, p)
      PROVE  Possible /\ \E a, b : Added(a, b)
  <2>. DEFINE a == <<v, p[1]>>
              b == <<v, p[2]>>
  <2>1. change.removed = <<p>> /\ change.added = <<a, b>>
    BY <1>6 DEF Subdivide
  <2>2. p[1] \in k /\ p[2] \in k /\ k \subseteq U
    BY <1>4
  <2>3. Added(a, b)
    BY <2>1, <2>2
  <2>4. \A i, j \in Nodes : gone(i, j) = Is(p, i, j)
    BY <2>1, TimesFacts
  <2>5. Possible
    <3>. SUFFICES ASSUME NEW i \in Nodes, NEW j \in Nodes
                  PROVE  /\ gone(i, j) \in Nat /\ gone(i, j) <= conn[i][j]
                         /\ i \notin U => gone(i, j) = 0
      OBVIOUS
    <3>. HIDE DEF gone, U
    <3>. QED BY <1>4, <2>2, <2>4
  <2>. HIDE DEF Possible, Added
  <2>. QED BY <2>3, <2>5
<1>7. CASE Cardinality(g) = 1 /\ Cardinality(h) > 1
  <2>1. change = Subdivide(The(g), LinkToRemove(h))
    BY <1>7 DEF Changes
  <2>2. LinkToRemove(h) \in LinksIn(h)
    BY <1>7, RemovedLinkExists
  <2>3. h \in {g, h} /\ The(g) \in U \ h
    BY <1>2
  <2>. HIDE DEF Possible, Added, U
  <2>. QED BY <1>6, <2>1, <2>2, <2>3
<1>8. CASE Cardinality(g) > 1 /\ Cardinality(h) = 1
  <2>1. change = Subdivide(The(h), LinkToRemove(g))
    BY <1>8 DEF Changes
  <2>2. LinkToRemove(g) \in LinksIn(g)
    BY <1>8, RemovedLinkExists
  <2>3. g \in {g, h} /\ The(h) \in U \ g
    BY <1>2
  <2>. HIDE DEF Possible, Added, U
  <2>. QED BY <1>6, <2>1, <2>2, <2>3
<1>9. CASE /\ ~(Cardinality(g) = 1 /\ Cardinality(h) = 1)
           /\ ~(Cardinality(g) = 1 /\ Cardinality(h) > 1)
           /\ ~(Cardinality(g) > 1 /\ Cardinality(h) = 1)
  <2>1. PICK p \in Lightest(g), q \in Lightest(h) : change = Swap(p, q)
    BY <1>9 DEF Changes
  <2>2. p \in LinksIn(g) /\ q \in LinksIn(h)
    BY DEF Lightest
  <2>. DEFINE a == <<p[1], q[2]>>
              b == <<p[2], q[1]>>
  <2>3. change.removed = <<p, q>> /\ change.added = <<a, b>>
    BY <2>1 DEF Swap
  <2>4. p[1] \in g /\ p[2] \in g /\ q[1] \in h /\ q[2] \in h
    BY <1>4, <2>2
  <2>5. Added(a, b)
    BY <2>3, <2>4
  <2>6. \A i, j \in Nodes : gone(i, j) = Is(p, i, j) + Is(q, i, j)
    BY <2>3, TimesFacts
  <2>7. Possible
    <3>. SUFFICES ASSUME NEW i \in Nodes, NEW j \in Nodes
                  PROVE  /\ gone(i, j) \in Nat /\ gone(i, j) <= conn[i][j]
                         /\ i \notin U => gone(i, j) = 0
      OBVIOUS
    <3>1. /\ Is(p, i, j) \in Nat /\ Is(p, i, j) <= conn[i][j] /\ (i \notin g => Is(p, i, j) = 0)
      BY <1>4, <2>2
    <3>2. /\ Is(q, i, j) \in Nat /\ Is(q, i, j) <= conn[i][j] /\ (i \notin h => Is(q, i, j) = 0)
      BY <1>4, <2>2
    <3>3. i \notin g \/ i \notin h
      OBVIOUS
    <3>4. gone(i, j) = Is(p, i, j) + Is(q, i, j) /\ conn[i][j] \in Nat
      BY <1>3, <2>6
    <3>. HIDE DEF gone
    <3>. QED BY <3>1, <3>2, <3>3, <3>4
  <2>. HIDE DEF Possible, Added
  <2>. QED BY <2>5, <2>7
<1>. HIDE DEF Possible, Added
<1>. QED BY <1>5, <1>7, <1>8, <1>9

NatMatrices == [Nodes -> [Nodes -> Nat]]

LEMMA LinkedIsNat ==
  ASSUME LinksFit, LinksAreNat, NEW i, NEW j, conn' = Linked(conn, i, j)
  PROVE  LinksAreNat'
<1>1. conn \in NatMatrices
  BY DEF LinksFit, LinksAreNat, Matrices, Rows, NatMatrices
<1>2. CASE i \in Nodes /\ j \in Nodes
  BY <1>1, <1>2 DEF Linked, LinksAreNat, NatMatrices
<1>3. CASE i \notin Nodes
  BY <1>1, <1>3 DEF Linked, LinksAreNat, NatMatrices
<1>4. CASE j \notin Nodes
  BY <1>1, <1>4 DEF Linked, LinksAreNat, NatMatrices
<1>. QED BY <1>2, <1>3, <1>4

LEMMA FirstTwoReplaced ==
  ASSUME NEW S, NEW s \in Seq(S), Len(s) > 1, NEW x \in S
  PROVE  LET t == <<x>> \o SubSeq(s, 3, Len(s))
         IN  /\ t \in Seq(S) /\ Len(t) = Len(s) - 1 /\ t[1] = x
             /\ \A k \in 2..Len(t) : t[k] = s[k + 1]
<1>. DEFINE n == Len(s)
            others == SubSeq(s, 3, Len(s))
            first == <<x>>
<1>1. s \in Seq(S) /\ n \in Nat /\ n > 1 /\ \A k \in 3..n : s[k] \in S
  OBVIOUS
<1>2. others = [k \in 1..(n - 3 + 1) |-> s[k + 3 - 1]]
  BY <1>1
<1>3. first \in Seq(S) /\ Len(first) = 1 /\ first[1] = x
  OBVIOUS
<1>. HIDE DEF n, others, first
<1>4. n - 3 + 1 = n - 2 /\ n - 2 \in Nat /\ \A k \in 1..n - 2 : k + 3 - 1 = k + 2 /\ k + 2 \in 3..n
  BY <1>1
<1>5. others = [k \in 1..n - 2 |-> s[k + 2]]
  BY <1>2, <1>4
<1>6. \A k \in 1..n - 2 : s[k + 2] \in S
  BY <1>1, <1>4
<1>7. others \in Seq(S) /\ Len(others) = n - 2
  BY <1>4, <1>5, <1>6
<1>8. \A k \in 1..n - 2 : others[k] = s[k + 2]
  BY <1>5
<1>. DEFINE t == first \o others
<1>9. /\ t \in Seq(S) /\ Len(t) = n - 1 /\ t[1] = x
      /\ \A k \in 2..n - 1 : t[k] = others[k - 1] /\ k - 1 \in 1..n - 2
  <2>1. /\ t \in Seq(S) /\ Len(t) = 1 + Len(others) /\ t[1] = x
        /\ \A k \in 2..1 + Len(others) : t[k] = others[k - 1]
    <3>1. first \in Seq(S) /\ others \in Seq(S) /\ Len(first) = 1 /\ first[1] = x
      BY <1>3, <1>7
    <3>2. t \in Seq(S) /\ Len(t) = 1 + Len(others)
      BY <3>1, ConcatProperties
    <3>3. \A k \in 1..1 + Len(others) : t[k] = IF k <= 1 THEN first[k] ELSE others[k - 1]
      BY <3>1, ConcatProperties
    <3>4. Len(others) \in Nat
      BY <1>1, <1>7
    <3>. DEFINE m == Len(others)
    <3>. HIDE DEF t, m
    <3>5. m \in Nat /\ \A k \in 1..1 + m : t[k] = IF k <= 1 THEN first[k] ELSE others[k - 1]
      BY <3>3, <3>4 DEF m
    <3>6. t[1] = first[1]
      BY <3>5
    <3>7. \A k \in 2..1 + m : t[k] = others[k - 1]
      BY <3>5
    <3>. QED BY <3>1, <3>2, <3>6, <3>7 DEF m
  <2>2. 1 + Len(others) = n - 1 /\ \A k \in 2..n - 1 : k - 1 \in 1..n - 2
    BY <1>1, <1>7
  <2>. HIDE DEF t
  <2>. QED BY <2>1, <2>2
<1>. HIDE DEF t
<1>10. ASSUME NEW k \in 2..n - 1 PROVE t[k] = s[k + 1]
  <2>1. k - 1 \in 1..n - 2 /\ (k - 1) + 2 = k + 1
    BY <1>1
  <2>2. others[k - 1] = s[(k - 1) + 2]
    BY <1>8, <2>1
  <2>. QED BY <1>9, <2>1, <2>2
<1>. QED BY <1>9, <1>10 DEF t, n, first, others

LEMMA JoinJoins == JInv /\ Join => LinksAreNat' /\ Joining'
<1>. SUFFICES ASSUME JInv, Join PROVE LinksAreNat' /\ Joining'
  OBVIOUS
<1>. DEFINE g == ccs[1]
            h == ccs[2]
            others == SubSeq(ccs, 3, Len(ccs))
            joined == <<g \cup h>> \o others
<1>1. PICK change \in Changes(g, h) :
        LET c == Rewired(change)
        IN  IF \A v \in Nodes : get_if_in_use(c, v) <= IfCnt
            THEN conn' = c /\ UNCHANGED phase
            ELSE phase' = "assert failed" /\ UNCHANGED conn
  BY DEF Join
<1>2. phase = "connect" /\ Len(ccs) > 1 /\ ccs' = joined
  BY DEF Join
<1>. HIDE DEF joined
<1>3. /\ LinksAreNat /\ Symmetric(conn) /\ Disjoint(ccs)
      /\ \A k \in 1..Len(ccs) : Cardinality(ccs[k]) > 1 => LinksIn(ccs[k]) # {}
  BY <1>2 DEF JInv, DInv, LinksFit, Joining
<1>4. CASE ~(\A v \in Nodes : get_if_in_use(Rewired(change), v) <= IfCnt)
  BY <1>1, <1>3, <1>4 DEF LinksAreNat, Joining
<1>5. CASE \A v \in Nodes : get_if_in_use(Rewired(change), v) <= IfCnt
  <2>. DEFINE c == Rewired(change)
  <2>1. conn' = c /\ phase' = "connect"
    BY <1>1, <1>2, <1>5
  <2>. HIDE DEF c
  <2>2. /\ ccs \in Seq(SUBSET Nodes) /\ Len(ccs) \in Nat /\ 1 \in 1..Len(ccs) /\ 2 \in 1..Len(ccs)
        /\ g \in SUBSET Nodes /\ h \in SUBSET Nodes /\ g # {} /\ h # {} /\ g \cap h = {}
    <3>1. ccs \in Seq(SUBSET Nodes) /\ Len(ccs) \in Nat /\ 1 \in 1..Len(ccs) /\ 2 \in 1..Len(ccs)
      BY <1>2, <1>3 DEF Disjoint
    <3>. QED BY <1>3, <3>1 DEF Disjoint
  <2>. HIDE DEF g, h
  <2>3. /\ Cardinality(g) > 1 => LinksIn(g) # {}
        /\ Cardinality(h) > 1 => LinksIn(h) # {}
    BY <1>3, <2>2 DEF g, h
  <2>4. /\ \A i, j \in Nodes : c[i][j] \in Nat /\ (i \notin g \cup h => c[i][j] = conn[i][j])
        /\ \E v, w \in g \cup h : v < w /\ c[v][w] > 0
    <3>1. /\ LinksAreNat /\ Symmetric(conn) /\ change \in Changes(g, h)
          /\ g \in SUBSET Nodes /\ h \in SUBSET Nodes /\ g # {} /\ h # {} /\ g \cap h = {}
      BY <1>1, <1>3, <2>2 DEF g, h
    <3>. QED BY <3>1, <2>3, JoinedGroup DEF c
  <2>5. LinksAreNat'
    BY <2>1, <2>4 DEF LinksAreNat
  <2>6. /\ joined \in Seq(SUBSET Nodes) /\ Len(joined) = Len(ccs) - 1
        /\ joined[1] = g \cup h
        /\ \A k \in 2..Len(joined) : joined[k] = ccs[k + 1]
    <3>. DEFINE both == g \cup h
    <3>1. both \in SUBSET Nodes /\ ccs \in Seq(SUBSET Nodes) /\ Len(ccs) > 1
      BY <1>2, <2>2
    <3>. HIDE DEF both
    <3>. QED BY <3>1, FirstTwoReplaced DEF joined, both
  <2>7. Disjoint(joined)
    <3>1. \A k, m \in 1..Len(ccs) : /\ ccs[k] # {}
                                    /\ k # m => ccs[k] \cap ccs[m] = {}
      BY <1>3 DEF Disjoint
    <3>2. \A k \in 2..Len(joined) : /\ k + 1 \in 1..Len(ccs) /\ joined[k] = ccs[k + 1]
                                    /\ joined[k] \cap (g \cup h) = {}
      <4>. TAKE k \in 2..Len(joined)
      <4>1. k + 1 \in 1..Len(ccs) /\ k + 1 # 1 /\ k + 1 # 2 /\ joined[k] = ccs[k + 1]
        BY <2>2, <2>6
      <4>2. ccs[k + 1] \cap ccs[1] = {} /\ ccs[k + 1] \cap ccs[2] = {}
        BY <2>2, <3>1, <4>1
      <4>. QED BY <4>1, <4>2 DEF g, h
    <3>3. \A k \in 1..Len(joined) : joined[k] # {}
      <4>. TAKE k \in 1..Len(joined)
      <4>1. k = 1 \/ k \in 2..Len(joined)
        BY <2>2, <2>6
      <4>. QED BY <2>2, <2>6, <3>1, <3>2, <4>1
    <3>4. ASSUME NEW k \in 1..Len(joined), NEW m \in 1..Len(joined), k # m
          PROVE  joined[k] \cap joined[m] = {}
      <4>1. /\ k = 1 \/ k \in 2..Len(joined)
            /\ m = 1 \/ m \in 2..Len(joined)
        BY <2>2, <2>6
      <4>2. CASE k \in 2..Len(joined) /\ m \in 2..Len(joined)
        <5>1. k + 1 # m + 1
          BY <3>4, <4>2
        <5>. QED BY <3>1, <3>2, <4>2, <5>1
      <4>3. CASE k = 1
        BY <2>6, <3>2, <3>4, <4>1, <4>3
      <4>4. CASE m = 1
        BY <2>6, <3>2, <3>4, <4>1, <4>4
      <4>. QED BY <4>1, <4>2, <4>3, <4>4
    <3>. QED BY <2>6, <3>3, <3>4 DEF Disjoint
  <2>8. ASSUME NEW k \in 1..Len(joined), Cardinality(joined[k]) > 1
        PROVE  \E p \in joined[k] \X joined[k] : p[1] < p[2] /\ c[p[1]][p[2]] > 0
    <3>1. k = 1 \/ k \in 2..Len(joined)
      BY <2>2, <2>6
    <3>2. CASE k = 1
      <4>1. PICK v \in g \cup h, w \in g \cup h : v < w /\ c[v][w] > 0
        BY <2>4
      <4>2. <<v, w>> \in joined[k] \X joined[k]
        BY <2>6, <3>2, <4>1
      <4>. QED BY <4>1, <4>2
    <3>3. CASE k \in 2..Len(joined)
      <4>1. k + 1 \in 1..Len(ccs) /\ k + 1 # 1 /\ k + 1 # 2 /\ joined[k] = ccs[k + 1]
        BY <2>2, <2>6, <3>3
      <4>2. /\ joined[k] \subseteq Nodes
            /\ joined[k] \cap g = {} /\ joined[k] \cap h = {}
        BY <1>3, <2>2, <4>1 DEF Disjoint, g, h
      <4>3. PICK p \in LinksIn(joined[k]) : TRUE
        BY <1>3, <2>8, <4>1
      <4>4. p \in joined[k] \X joined[k] /\ p[1] < p[2] /\ conn[p[1]][p[2]] > 0
        BY DEF LinksIn
      <4>5. p[1] \in Nodes /\ p[2] \in Nodes /\ p[1] \notin g \cup h
        BY <4>2, <4>4
      <4>. QED BY <2>4, <4>4, <4>5
    <3>. QED BY <3>1, <3>2, <3>3
  <2>9. Joining'
    <3>1. ASSUME NEW k \in 1..Len(ccs'), Cardinality(ccs'[k]) > 1
          PROVE  LinksIn(ccs[k])' # {}
      <4>1. PICK p \in joined[k] \X joined[k] : p[1] < p[2] /\ c[p[1]][p[2]] > 0
        BY <1>2, <2>8, <3>1
      <4>. QED BY <1>2, <2>1, <4>1 DEF LinksIn
    <3>2. Disjoint(ccs')
      BY <1>2, <2>7
    <3>. QED BY <3>1, <3>2 DEF Joining, Disjoint, LinksIn
  <2>. QED BY <2>5, <2>9
<1>. QED BY <1>4, <1>5

LEMMA ToConnectJoins ==
  ASSUME JInv, ToConnect
  PROVE  LinksAreNat' /\ Joining'
<1>1. ccs' = Components(conn) /\ conn' = conn
  BY DEF ToConnect
<1>2. \A v, w \in Nodes : conn[v][w] = conn[w][v]
  BY DEF JInv, DInv, LinksFit, Symmetric
<1>3. /\ Disjoint(ccs')
      /\ \A k \in 1..Len(ccs') : Cardinality(ccs'[k]) > 1 => LinksIn(ccs'[k]) # {}
  BY <1>1, <1>2, ComponentsAreGroups
<1>4. Joining'
  BY <1>1, <1>3 DEF Joining, Disjoint, LinksIn
<1>. QED BY <1>1, <1>4 DEF JInv, LinksAreNat

LEMMA JoiningInit == Init => JInv
<1>. SUFFICES ASSUME Init PROVE LinksAreNat /\ Joining
  BY DegreeInit DEF JInv
<1>. QED BY DEF Init, LinksAreNat, Joining

LEMMA JoiningNext == JInv /\ [Next]_vars => JInv'
<1>. SUFFICES ASSUME JInv, [Next]_vars PROVE LinksAreNat' /\ Joining'
  BY DegreeNext DEF JInv
<1>0. LinksFit /\ LinksAreNat
  BY DEF JInv, DInv
<1>1. CASE ServeDemand
  <2>1. phase' = "demand" /\ \E i, j : conn' = Linked(conn, i, j)
    BY <1>1 DEF ServeDemand
  <2>. QED BY <1>0, <2>1, LinkedIsNat DEF Joining
<1>2. CASE Chain
  <2>1. phase' = "chain" /\ \E i, j : conn' = Linked(conn, i, j)
    BY <1>2 DEF Chain
  <2>. QED BY <1>0, <2>1, LinkedIsNat DEF Joining
<1>3. CASE Fill
  <2>1. phase' = "fill" /\ \E i, j : conn' = Linked(conn, i, j)
    BY <1>3 DEF Fill
  <2>. QED BY <1>0, <2>1, LinkedIsNat DEF Joining
<1>4. CASE ToConnect
  BY <1>4, ToConnectJoins
<1>5. CASE Join
  BY <1>5, JoinJoins
<1>6. CASE phase' # "connect" /\ UNCHANGED conn
  BY <1>0, <1>6 DEF LinksAreNat, Joining
<1>7. CASE UNCHANGED <<phase, conn, ccs>>
  BY <1>7 DEF JInv, LinksAreNat, Joining, Disjoint, LinksIn
<1>8. DemandServed => ToConnect \/ (phase' # "connect" /\ UNCHANGED conn)
  BY DEF DemandServed
<1>9. FillEnds => ToConnect \/ (phase' # "connect" /\ UNCHANGED conn)
  BY DEF FillEnds
<1>10. Chained \/ StartSearch \/ SearchEnds => phase' # "connect" /\ UNCHANGED conn
  BY DEF Chained, StartSearch, SearchEnds
<1>11. Expand \/ UNCHANGED vars => UNCHANGED <<phase, conn, ccs>>
  BY DEF Expand, vars
<1>. QED BY <1>1, <1>2, <1>3, <1>4, <1>5, <1>6, <1>7, <1>8, <1>9, <1>10, <1>11 DEF Next

-----------------------------------------------------------------------------
(* The search.                                                             *)

Searches ==
  [src : Nodes, q : Seq(Nodes), visited : SUBSET Nodes, dist : [Nodes -> 0..NNode],
   prev : [Nodes -> 0..NNode]]

Reached(s, v) == s.dist[v] < NNode

\* Distances are those of the way back over prev, and one more along a link
\* from a node that was expanded.
Relaxed(c, s) ==
  /\ s.dist[s.src] = 0 /\ s.prev[s.src] = NoNode
  /\ \A v \in Nodes \ {s.src} :
       IF Reached(s, v)
       THEN /\ s.prev[v] \in s.visited /\ c[s.prev[v]][v] > 0
            /\ s.dist[v] = s.dist[s.prev[v]] + 1
       ELSE s.prev[v] = NoNode
  /\ \A v \in s.visited : /\ Reached(s, v)
                          /\ \A w \in Nodes : c[v][w] # 0 => s.dist[w] <= s.dist[v] + 1

\* Nodes wait in the order of their distances, which differ by at most one and
\* are no less than those of the nodes that were expanded.
Ordered(s) ==
  /\ \A v \in Nodes : Reached(s, v) => v \in s.visited \/ \E k \in 1..Len(s.q) : s.q[k] = v
  /\ \A k \in 1..Len(s.q) :
       /\ Reached(s, s.q[k]) /\ s.dist[s.q[k]] <= s.dist[s.q[1]] + 1
       /\ \A v \in s.visited : s.dist[v] <= s.dist[s.q[k]]
       /\ \A m \in 1..Len(s.q) : k <= m => s.dist[s.q[k]] <= s.dist[s.q[m]]

Searching ==
  phase = "routes" \/ (phase = "done" /\ ~generating) =>
    /\ search \in Searches /\ Relaxed(conn, search) /\ Ordered(search)
    /\ phase = "done" => search.q = <<>>

SInv == JInv /\ Searching

LEMMA SearchTypes ==
  ASSUME NEW s \in Searches
  PROVE  /\ s.src \in Nodes /\ s.q \in Seq(Nodes) /\ s.visited \in SUBSET Nodes
         /\ \A v \in Nodes : s.dist[v] \in 0..NNode /\ s.prev[v] \in 0..NNode
         /\ \A v \in Nodes : s.dist[v] \in Nat
         /\ Len(s.q) \in Nat /\ \A k \in 1..Len(s.q) : s.q[k] \in Nodes
<1>1. /\ s.src \in Nodes /\ s.q \in Seq(Nodes) /\ s.visited \in SUBSET Nodes
      /\ s.dist \in [Nodes -> 0..NNode] /\ s.prev \in [Nodes -> 0..NNode]
  BY DEF Searches
<1>2. \A v \in Nodes : s.dist[v] \in 0..NNode /\ s.prev[v] \in 0..NNode
  BY <1>1
<1>3. \A v \in Nodes : s.dist[v] \in Nat
  <2>1. 0..NNode \subseteq Nat
    BY NodeNumbers
  <2>. QED BY <1>2, <2>1
<1>4. Len(s.q) \in Nat /\ \A k \in 1..Len(s.q) : s.q[k] \in Nodes
  <2>. DEFINE q == s.q
  <2>1. q \in Seq(Nodes)
    BY <1>1
  <2>. HIDE DEF q
  <2>2. Len(q) \in Nat /\ \A k \in 1..Len(q) : q[k] \in Nodes
    BY <2>1
  <2>. QED BY <2>2 DEF q
<1>. QED BY <1>1, <1>2, <1>3, <1>4

\* On the way to a node there is one at every smaller distance: with a node that is
\* not reached at all, distances stay below the number of nodes.
LEMMA DistancesAreSmall ==
  ASSUME NEW c, NEW s \in Searches, Relaxed(c, s),
         NEW v \in Nodes, Reached(s, v), NEW i \in Nodes, ~Reached(s, i)
  PROVE  s.dist[v] + 1 < NNode
<1>. DEFINE D(u) == s.dist[u]
            n == D(v)
            S == {k \in Nat : k <= n => \E u \in Nodes : D(u) = n - k}
            T == {D(u) : u \in Nodes}
<1>1. /\ \A u \in Nodes : D(u) \in 0..NNode /\ D(u) \in Nat
      /\ D(s.src) = 0 /\ s.src \in Nodes /\ s.visited \in SUBSET Nodes
  BY SearchTypes DEF Relaxed
<1>2. n \in Nat /\ n < NNode
  BY <1>1 DEF Reached
<1>3. \A u \in Nodes \ {s.src} : D(u) < NNode => s.prev[u] \in Nodes /\ D(u) = D(s.prev[u]) + 1
  BY <1>1 DEF Relaxed, Reached
<1>4. D(i) = NNode
  <2>1. D(i) \in 0..NNode /\ ~(D(i) < NNode)
    BY <1>1 DEF Reached
  <2>. QED BY <2>1, NodeNumbers
<1>. HIDE DEF D, n
<1>5. 0 \in S
  BY <1>2 DEF n
<1>6. ASSUME NEW k \in Nat, k \in S PROVE k + 1 \in S
  <2>. SUFFICES ASSUME k + 1 <= n PROVE \E u \in Nodes : D(u) = n - (k + 1)
    OBVIOUS
  <2>1. PICK u \in Nodes : D(u) = n - k
    BY <1>2, <1>6
  <2>2. u # s.src /\ D(u) < NNode
    <3>1. D(u) >= 1 /\ D(u) < NNode
      BY <1>2, <2>1, NodeNumbers
    <3>. QED BY <1>1, <3>1
  <2>3. s.prev[u] \in Nodes /\ D(u) = D(s.prev[u]) + 1 /\ D(s.prev[u]) \in Nat
    BY <1>1, <1>3, <2>2
  <2>4. D(s.prev[u]) = n - (k + 1)
    BY <1>2, <2>1, <2>3
  <2>. QED BY <2>3, <2>4
<1>. HIDE DEF S
<1>7. Nat \subseteq S
  BY <1>5, <1>6, NatInductionOnSets
<1>8. 0..n \subseteq T
  <2>. SUFFICES ASSUME NEW d \in 0..n PROVE d \in T
    OBVIOUS
  <2>1. n - d \in Nat /\ n - d <= n /\ n - (n - d) = d
    BY <1>2
  <2>. QED BY <1>7, <2>1 DEF S
<1>9. NNode \in T
  BY <1>4
<1>. HIDE DEF T
<1>10. IsFiniteSet(0..n) /\ Cardinality(0..n) = n + 1
  <2>1. 0 \in Int /\ n \in Int /\ ~(0 > n)
    BY <1>2
  <2>2. IsFiniteSet(0..n) /\ Cardinality(0..n) = IF 0 > n THEN 0 ELSE n - 0 + 1
    BY <2>1, FS_Interval
  <2>. QED BY <2>1, <2>2
<1>. DEFINE I == 0..n
            J == I \cup {NNode}
<1>11. IsFiniteSet(J) /\ Cardinality(J) = n + 2
  <2>1. NNode \notin I
    BY <1>2, NodeNumbers
  <2>2. IsFiniteSet(I) /\ Cardinality(I) = n + 1
    BY <1>10
  <2>. HIDE DEF I
  <2>3. IsFiniteSet(J) /\ Cardinality(J) = Cardinality(I) + 1
    BY <2>1, <2>2, FS_AddElement
  <2>. QED BY <1>2, <2>2, <2>3
<1>12. IsFiniteSet(T) /\ Cardinality(T) <= NNode
  <2>. DEFINE f == [u \in Nodes |-> D(u)]
  <2>1. f \in Surjection(Nodes, T)
    BY DEF Surjection, T
  <2>. HIDE DEF f
  <2>. QED BY <2>1, NodesAreFinite, FS_Surjection
<1>13. J \subseteq T
  BY <1>8, <1>9
<1>. HIDE DEF I, J
<1>14. Cardinality(J) <= Cardinality(T) /\ Cardinality(T) \in Nat
  BY <1>12, <1>13, FS_Subset, FS_CardinalityType
<1>15. n + 1 < NNode
  BY <1>2, <1>11, <1>12, <1>14, NodeNumbers
<1>. QED BY <1>15 DEF n, D

LEMMA SearchStarts ==
  ASSUME NEW c, NEW src \in Nodes
  PROVE  LET s == [src |-> src, q |-> <<src>>, visited |-> {},
                   dist |-> [i \in Nodes |-> IF i = src THEN 0 ELSE Unreached],
                   prev |-> [i \in Nodes |-> NoNode]]
         IN  s \in Searches /\ Relaxed(c, s) /\ Ordered(s)
<1>. DEFINE dist == [i \in Nodes |-> IF i = src THEN 0 ELSE Unreached]
            prev == [i \in Nodes |-> NoNode]
            s == [src |-> src, q |-> <<src>>, visited |-> {}, dist |-> dist, prev |-> prev]
<1>1. /\ s.src = src /\ s.q = <<src>> /\ s.visited = {}
      /\ \A i \in Nodes : s.dist[i] = (IF i = src THEN 0 ELSE NNode) /\ s.prev[i] = NNode
  BY DEF Unreached, NoNode
<1>2. 0 \in 0..NNode /\ NNode \in 0..NNode /\ 0 < NNode /\ ~(NNode < NNode)
  BY NodeNumbers
<1>3. s \in Searches
  <2>1. dist \in [Nodes -> 0..NNode]
    BY <1>2 DEF Unreached
  <2>2. prev \in [Nodes -> 0..NNode]
    BY <1>2 DEF NoNode
  <2>3. <<src>> \in Seq(Nodes)
    OBVIOUS
  <2>. HIDE DEF dist, prev
  <2>. QED BY <2>1, <2>2, <2>3 DEF Searches
<1>. HIDE DEF s
<1>4. \A i \in Nodes : Reached(s, i) <=> i = src
  BY <1>1, <1>2 DEF Reached
<1>5. Relaxed(c, s)
  BY <1>1, <1>4 DEF Relaxed, NoNode
<1>6. Ordered(s)
  <2>1. Len(s.q) = 1 /\ s.q[1] = src /\ s.dist[src] = 0
    BY <1>1
  <2>2. \A k \in 1..1 : k = 1
    OBVIOUS
  <2>. QED BY <1>1, <1>4, <2>1, <2>2 DEF Ordered
<1>. QED BY <1>3, <1>5, <1>6 DEF s, dist, prev

\* What expanding a node does to a search.
Expanded(c, s, ties, t) ==
  LET node == Head(s.q)
      visited == s.visited \cup {node}
      dist == s.dist[node] + 1
      next == {i \in Nodes \ visited : c[node][i] # 0}
      closer == {i \in next : dist < s.dist[i]}
  IN  /\ ties \subseteq {i \in next : dist = s.dist[i]}
      /\ t = [s EXCEPT
                !.q = Push(Tail(@), closer \cup ties),
                !.visited = visited,
                !.dist = [i \in Nodes |-> IF i \in closer \cup ties THEN dist ELSE @[i]],
                !.prev = [i \in Nodes |-> IF i \in closer \cup ties THEN node ELSE @[i]]]

LEMMA ExpandKeeps ==
  ASSUME NEW c \in NatMatrices, NEW s \in Searches, Relaxed(c, s), Ordered(s), s.q # <<>>,
         NEW ties, NEW t, Expanded(c, s, ties, t)
  PROVE  t \in Searches /\ Relaxed(c, t) /\ Ordered(t)
<1>. DEFINE node == Head(s.q)
            visited == s.visited \cup {node}
            x == s.dist[node]
            next == {i \in Nodes \ visited : c[node][i] # 0}
            closer == {i \in next : x + 1 < s.dist[i]}
            found == closer \cup ties
            dist == [i \in Nodes |-> IF i \in found THEN x + 1 ELSE s.dist[i]]
            prev == [i \in Nodes |-> IF i \in found THEN node ELSE s.prev[i]]
            q == Push(Tail(s.q), found)
<1>1. /\ ties \subseteq {i \in next : x + 1 = s.dist[i]}
      /\ t = [s EXCEPT !.q = q, !.visited = visited, !.dist = dist, !.prev = prev]
  BY DEF Expanded
<1>2. /\ s.src \in Nodes /\ s.q \in Seq(Nodes) /\ s.visited \in SUBSET Nodes
      /\ \A v \in Nodes : s.dist[v] \in 0..NNode /\ s.prev[v] \in 0..NNode
      /\ \A v \in Nodes : s.dist[v] \in Nat
      /\ Len(s.q) \in Nat /\ \A k \in 1..Len(s.q) : s.q[k] \in Nodes
  BY SearchTypes
<1>3. Len(s.q) >= 1 /\ node = s.q[1] /\ 1 \in 1..Len(s.q)
  <2>1. Len(s.q) # 0
    BY <1>2
  <2>. QED BY <1>2, <2>1
<1>4. /\ node \in Nodes /\ visited \in SUBSET Nodes /\ x \in Nat /\ x < NNode /\ Reached(s, node)
  BY <1>2, <1>3 DEF Ordered, Reached
<1>5. \A v \in visited : s.dist[v] <= x /\ Reached(s, v)
  BY <1>2, <1>3, <1>4 DEF Ordered, Relaxed
<1>6. ASSUME NEW i \in found
      PROVE  /\ i \in Nodes /\ i \notin visited /\ c[node][i] > 0 /\ x + 1 <= s.dist[i]
             /\ x + 1 < NNode
             /\ i \in closer => ~Reached(s, i)
  <2>1. i \in next /\ x + 1 <= s.dist[i]
    BY <1>1, <1>2, <1>4
  <2>2. c[node][i] > 0
    BY <1>4, <2>1 DEF NatMatrices
  <2>3. i \in closer => ~Reached(s, i)
    <3>. SUFFICES ASSUME x + 1 < s.dist[i], Reached(s, i) PROVE FALSE
      OBVIOUS
    <3>1. i \in Nodes /\ i \notin s.visited
      BY <2>1
    <3>2. PICK k \in 1..Len(s.q) : s.q[k] = i
      BY <3>1 DEF Ordered
    <3>3. s.dist[i] <= x + 1
      BY <1>3, <3>2 DEF Ordered
    <3>. QED BY <1>2, <1>4, <3>1, <3>3
  <2>4. x + 1 < NNode
    <3>1. CASE Reached(s, i)
      <4>1. x + 1 = s.dist[i]
        BY <1>1, <2>3, <3>1
      <4>. QED BY <3>1, <4>1 DEF Reached
    <3>2. CASE ~Reached(s, i)
      BY <1>4, <2>1, <3>2, DistancesAreSmall
    <3>. QED BY <3>1, <3>2
  <2>. QED BY <2>1, <2>2, <2>3, <2>4
<1>. HIDE DEF node, next, visited, found, x
<1>7. /\ t.src = s.src /\ t.q = q /\ t.visited = visited /\ t.dist = dist /\ t.prev = prev
      /\ t = [src |-> s.src, q |-> q, visited |-> visited, dist |-> dist, prev |-> prev]
  <2>. HIDE DEF q, dist, prev
  <2>. QED BY <1>1 DEF Searches
<1>8. Lists(InOrder(found), found) /\ found \in SUBSET Nodes
  <2>1. found \in SUBSET Nodes
    BY <1>6
  <2>. QED BY <2>1, InOrderLists
<1>. DEFINE new == InOrder(found)
            old == Tail(s.q)
<1>9. /\ old \in Seq(Nodes) /\ Len(old) = Len(s.q) - 1
      /\ \A k \in 1..Len(old) : old[k] = s.q[k + 1] /\ k + 1 \in 1..Len(s.q)
  BY <1>2, <1>3
<1>10. /\ new \in Seq(Nodes) /\ Len(new) \in Nat
       /\ \A k \in 1..Len(new) : new[k] \in found
       /\ \A v \in found : \E k \in 1..Len(new) : new[k] = v
  <2>. HIDE DEF new
  <2>. QED BY <1>8 DEF Lists, new
<1>11. q = old \o new
  BY DEF Push
<1>. HIDE DEF q, new, old
<1>12. /\ q \in Seq(Nodes) /\ Len(q) = Len(old) + Len(new) /\ Len(old) \in Nat
       /\ \A k \in 1..Len(old) : k \in 1..Len(q) /\ q[k] = old[k]
       /\ \A k \in 1..Len(new) : k + Len(old) \in 1..Len(q) /\ q[k + Len(old)] = new[k]
  <2>1. Len(old) \in Nat
    BY <1>2, <1>3, <1>9
  <2>2. q \in Seq(Nodes) /\ Len(q) = Len(old) + Len(new)
    <3>1. old \in Seq(Nodes) /\ new \in Seq(Nodes) /\ q = old \o new
      BY <1>9, <1>10, <1>11
    <3>. QED BY <3>1
  <2>3. \A k \in 1..Len(q) : q[k] = IF k <= Len(old) THEN old[k] ELSE new[k - Len(old)]
    <3>1. old \in Seq(Nodes) /\ new \in Seq(Nodes) /\ q = old \o new
      BY <1>9, <1>10, <1>11
    <3>. QED BY <2>1, <2>2, <3>1
  <2>4. \A k \in 1..Len(old) : k \in 1..Len(q) /\ k <= Len(old)
    BY <1>10, <2>1, <2>2
  <2>5. \A k \in 1..Len(new) : /\ k + Len(old) \in 1..Len(q) /\ ~(k + Len(old) <= Len(old))
                                /\ (k + Len(old)) - Len(old) = k
    BY <1>10, <2>1, <2>2
  <2>6. \A k \in 1..Len(old) : q[k] = old[k]
    BY <2>3, <2>4
  <2>7. \A k \in 1..Len(new) : q[k + Len(old)] = new[k]
    BY <2>3, <2>5
  <2>. QED BY <2>1, <2>2, <2>4, <2>5, <2>6, <2>7
<1>13. dist \in [Nodes -> 0..NNode] /\ prev \in [Nodes -> 0..NNode]
  <2>1. \A i \in found : x + 1 \in 0..NNode
    BY <1>4, <1>6, NodeNumbers
  <2>2. node \in 0..NNode
    BY <1>4, NodeNumbers DEF Nodes
  <2>. QED BY <1>2, <2>1, <2>2
<1>14. \A i \in Nodes : /\ t.dist[i] = IF i \in found THEN x + 1 ELSE s.dist[i]
                        /\ t.prev[i] = IF i \in found THEN node ELSE s.prev[i]
  BY <1>7
<1>15. t \in Searches
  <2>. HIDE DEF dist, prev
  <2>. QED BY <1>2, <1>4, <1>7, <1>12, <1>13 DEF Searches
<1>. HIDE DEF dist, prev
<1>16. \A i \in Nodes : t.dist[i] \in Nat /\ t.dist[i] <= s.dist[i]
  BY <1>2, <1>4, <1>6, <1>14
\* Only the distances of nodes that were not reached change.
<1>17. \A i \in Nodes : Reached(s, i) => t.dist[i] = s.dist[i]
  <2>. SUFFICES ASSUME NEW i \in Nodes, Reached(s, i), i \in found PROVE s.dist[i] = x + 1
    BY <1>14
  <2>1. i \in ties
    BY <1>6 DEF found
  <2>. QED BY <1>1, <2>1
<1>18. Relaxed(c, t)
  <2>1. t.dist[t.src] = 0 /\ t.prev[t.src] = NoNode
    <3>1. s.dist[s.src] = 0 /\ s.prev[s.src] = NoNode
      BY DEF Relaxed
    <3>2. s.src \notin found
      BY <1>4, <1>6, <3>1
    <3>. QED BY <1>2, <1>7, <1>14, <3>1, <3>2
  <2>2. ASSUME NEW v \in Nodes \ {t.src}
        PROVE  IF Reached(t, v)
               THEN /\ t.prev[v] \in t.visited /\ c[t.prev[v]][v] > 0
                    /\ t.dist[v] = t.dist[t.prev[v]] + 1
               ELSE t.prev[v] = NoNode
    <3>1. CASE v \in found
      <4>1. t.prev[v] = node /\ t.dist[v] = x + 1 /\ node \in visited /\ c[node][v] > 0
        BY <1>6, <1>14, <3>1 DEF visited
      <4>2. t.dist[node] = x
        BY <1>4, <1>17 DEF x
      <4>3. Reached(t, v)
        BY <1>6, <3>1, <4>1 DEF Reached
      <4>. QED BY <1>7, <4>1, <4>2, <4>3
    <3>2. CASE v \notin found
      <4>1. t.dist[v] = s.dist[v] /\ t.prev[v] = s.prev[v] /\ (Reached(t, v) <=> Reached(s, v))
        BY <1>14, <3>2 DEF Reached
      <4>2. v \in Nodes \ {s.src}
        BY <1>7
      <4>3. CASE Reached(s, v)
        <5>1. /\ s.prev[v] \in s.visited /\ c[s.prev[v]][v] > 0
              /\ s.dist[v] = s.dist[s.prev[v]] + 1
          BY <4>2, <4>3 DEF Relaxed
        <5>2. s.prev[v] \in visited /\ s.prev[v] \in Nodes
          BY <1>2, <5>1 DEF visited
        <5>3. t.dist[s.prev[v]] = s.dist[s.prev[v]]
          BY <1>5, <1>17, <5>2
        <5>. QED BY <1>7, <4>1, <4>3, <5>1, <5>2, <5>3
      <4>4. CASE ~Reached(s, v)
        BY <4>1, <4>2, <4>4 DEF Relaxed
      <4>. QED BY <4>3, <4>4
    <3>. QED BY <3>1, <3>2
  <2>3. ASSUME NEW v \in t.visited
        PROVE  /\ Reached(t, v)
               /\ \A w \in Nodes : c[v][w] # 0 => t.dist[w] <= t.dist[v] + 1
    <3>1. v \in visited /\ v \in Nodes /\ Reached(s, v) /\ t.dist[v] = s.dist[v]
      BY <1>4, <1>5, <1>7, <1>17
    <3>2. Reached(t, v)
      BY <3>1 DEF Reached
    <3>3. ASSUME NEW w \in Nodes, c[v][w] # 0 PROVE t.dist[w] <= s.dist[v] + 1
      <4>1. CASE v \in s.visited
        <5>1. s.dist[w] <= s.dist[v] + 1
          BY <3>3, <4>1 DEF Relaxed
        <5>. QED BY <1>2, <1>16, <3>1, <5>1
      <4>2. CASE v = node
        <5>1. CASE w \in visited
          <6>1. s.dist[w] <= x
            BY <1>5, <5>1
          <6>. QED BY <1>2, <1>4, <1>16, <4>2, <6>1 DEF x
        <5>2. CASE w \in closer
          <6>1. t.dist[w] = x + 1
            BY <1>14, <5>2 DEF found
          <6>. QED BY <1>4, <4>2, <6>1 DEF x
        <5>3. CASE w \notin visited /\ w \notin closer
          <6>1. w \in next
            BY <3>3, <4>2, <5>3 DEF next
          <6>2. s.dist[w] <= x + 1
            BY <1>2, <1>4, <5>3, <6>1
          <6>. QED BY <1>2, <1>4, <1>16, <4>2, <6>2 DEF x
        <5>. QED BY <5>1, <5>2, <5>3
      <4>. QED BY <3>1, <4>1, <4>2 DEF visited
    <3>. QED BY <3>1, <3>2, <3>3
  <2>. QED BY <2>1, <2>2, <2>3 DEF Relaxed
<1>19. ASSUME NEW k \in 1..Len(old)
       PROVE  /\ old[k] \in Nodes /\ Reached(s, old[k]) /\ t.dist[old[k]] = s.dist[old[k]]
              /\ x <= s.dist[old[k]] /\ s.dist[old[k]] <= x + 1
              /\ \A m \in 1..Len(old) : k <= m => s.dist[old[k]] <= s.dist[old[m]]
  <2>1. k + 1 \in 1..Len(s.q) /\ old[k] = s.q[k + 1] /\ old[k] \in Nodes /\ 1 <= k + 1
    BY <1>2, <1>9
  <2>2. /\ Reached(s, old[k]) /\ s.dist[old[k]] <= x + 1 /\ x <= s.dist[old[k]]
    BY <1>3, <2>1 DEF Ordered, x
  <2>3. ASSUME NEW m \in 1..Len(old), k <= m PROVE s.dist[old[k]] <= s.dist[old[m]]
    <3>1. m + 1 \in 1..Len(s.q) /\ old[m] = s.q[m + 1] /\ k + 1 <= m + 1
      BY <1>9, <1>12, <2>3
    <3>. QED BY <2>1, <3>1 DEF Ordered
  <2>. QED BY <1>17, <2>1, <2>2, <2>3
<1>20. ASSUME NEW k \in 1..Len(q)
       PROVE  /\ Reached(t, q[k]) /\ x <= t.dist[q[k]] /\ t.dist[q[k]] <= x + 1 /\ q[k] \in Nodes
              /\ k \notin 1..Len(old) => t.dist[q[k]] = x + 1
  <2>1. CASE k \in 1..Len(old)
    <3>1. q[k] = old[k]
      BY <1>12, <2>1
    <3>. QED BY <1>19, <2>1, <3>1 DEF Reached
  <2>2. CASE k \notin 1..Len(old)
    <3>. DEFINE m == k - Len(old)
    <3>1. m \in 1..Len(new) /\ m + Len(old) = k
      BY <1>10, <1>12, <2>2
    <3>2. q[k] \in found
      BY <1>10, <1>12, <3>1
    <3>3. q[k] \in Nodes /\ t.dist[q[k]] = x + 1 /\ x + 1 < NNode
      BY <1>6, <1>14, <3>2
    <3>. QED BY <1>4, <3>3 DEF Reached
  <2>. QED BY <2>1, <2>2
<1>21. Ordered(t)
  <2>1. ASSUME NEW v \in Nodes, Reached(t, v)
        PROVE  v \in visited \/ \E k \in 1..Len(q) : q[k] = v
    <3>1. CASE v \in found
      <4>1. PICK k \in 1..Len(new) : new[k] = v
        BY <1>10, <3>1
      <4>. QED BY <1>12, <4>1
    <3>2. CASE v \notin found
      <4>1. Reached(s, v)
        BY <1>14, <2>1, <3>2 DEF Reached
      <4>2. CASE v \in s.visited
        BY <4>2 DEF visited
      <4>3. CASE \E k \in 1..Len(s.q) : s.q[k] = v
        <5>1. PICK k \in 1..Len(s.q) : s.q[k] = v
          BY <4>3
        <5>2. CASE k = 1
          BY <1>3, <5>1, <5>2 DEF visited
        <5>3. CASE k # 1
          <6>1. k - 1 \in 1..Len(old) /\ (k - 1) + 1 = k
            BY <1>2, <1>9, <5>3
          <6>2. q[k - 1] = v /\ k - 1 \in 1..Len(q)
            BY <1>9, <1>12, <5>1, <6>1
          <6>. QED BY <6>2
        <5>. QED BY <5>2, <5>3
      <4>. QED BY <4>1, <4>2, <4>3 DEF Ordered
    <3>. QED BY <3>1, <3>2
  <2>2. ASSUME NEW k \in 1..Len(q)
        PROVE  /\ Reached(t, q[k]) /\ t.dist[q[k]] <= t.dist[q[1]] + 1
               /\ \A v \in visited : t.dist[v] <= t.dist[q[k]]
               /\ \A m \in 1..Len(q) : k <= m => t.dist[q[k]] <= t.dist[q[m]]
    <3>1. 1 \in 1..Len(q) /\ k \in Nat
      BY <1>10, <1>12
    <3>2. /\ Reached(t, q[k]) /\ x <= t.dist[q[k]] /\ t.dist[q[k]] <= x + 1 /\ x <= t.dist[q[1]]
          /\ t.dist[q[k]] \in Nat /\ t.dist[q[1]] \in Nat
      BY <1>16, <1>20, <3>1
    <3>3. ASSUME NEW v \in visited PROVE t.dist[v] <= t.dist[q[k]]
      <4>1. t.dist[v] <= x /\ t.dist[v] \in Nat
        BY <1>4, <1>5, <1>16, <1>17
      <4>. QED BY <1>4, <3>2, <4>1
    <3>4. ASSUME NEW m \in 1..Len(q), k <= m PROVE t.dist[q[k]] <= t.dist[q[m]]
      <4>1. CASE m \notin 1..Len(old)
        BY <1>20, <3>2, <4>1
      <4>2. CASE m \in 1..Len(old)
        <5>1. k \in 1..Len(old)
          BY <1>12, <3>1, <3>4, <4>2
        <5>2. t.dist[old[k]] <= t.dist[old[m]]
          BY <1>19, <3>4, <4>2, <5>1
        <5>. QED BY <1>12, <4>2, <5>1, <5>2
      <4>. QED BY <4>1, <4>2
    <3>. QED BY <1>4, <3>2, <3>3, <3>4
  <2>. QED BY <1>7, <2>1, <2>2 DEF Ordered
<1>. QED BY <1>15, <1>18, <1>21

LEMMA SearchingInit == Init => SInv
<1>. SUFFICES ASSUME Init PROVE Searching
  BY JoiningInit DEF SInv
<1>. QED BY DEF Init, Searching

LEMMA SearchingNext == SInv /\ [Next]_vars => SInv'
<1>. SUFFICES ASSUME SInv, [Next]_vars PROVE Searching'
  BY JoiningNext DEF SInv
<1>1. CASE StartSearch
  <2>. DEFINE start(src) == [src |-> src, q |-> <<src>>, visited |-> {},
                             dist |-> [i \in Nodes |-> IF i = src THEN 0 ELSE Unreached],
                             prev |-> [i \in Nodes |-> NoNode]]
  <2>1. PICK src \in Nodes : search' = start(src)
    BY <1>1 DEF StartSearch
  <2>2. start(src) \in Searches /\ Relaxed(conn', start(src)) /\ Ordered(start(src))
    BY SearchStarts
  <2>3. phase' = "routes"
    BY <1>1 DEF StartSearch
  <2>. HIDE DEF start
  <2>. QED BY <2>1, <2>2, <2>3 DEF Searching
<1>2. CASE Expand
  <2>1. phase = "routes" /\ phase' = "routes" /\ conn' = conn /\ search.q # <<>>
    BY <1>2 DEF Expand
  <2>2. search \in Searches /\ Relaxed(conn, search) /\ Ordered(search)
    BY <2>1 DEF SInv, Searching
  <2>3. conn \in NatMatrices
    BY DEF SInv, JInv, DInv, LinksFit, LinksAreNat, Matrices, Rows, NatMatrices
  <2>4. PICK ties : Expanded(conn, search, ties, search')
    BY <1>2 DEF Expand, Expanded
  <2>5. search' \in Searches /\ Relaxed(conn, search') /\ Ordered(search')
    BY <2>1, <2>2, <2>3, <2>4, ExpandKeeps
  <2>. QED BY <2>1, <2>5 DEF Searching
<1>3. CASE SearchEnds
  BY <1>3 DEF SearchEnds, SInv, Searching
<1>4. CASE UNCHANGED vars
  BY <1>4 DEF vars, SInv, Searching
<1>5. CASE ServeDemand
  BY <1>5 DEF ServeDemand, Searching
<1>6. CASE DemandServed
  BY <1>6 DEF DemandServed, ToConnect, Searching
<1>7. CASE Chain
  BY <1>7 DEF Chain, Searching
<1>8. CASE Chained
  BY <1>8 DEF Chained, Searching
<1>9. CASE Fill
  BY <1>9 DEF Fill, Searching
<1>10. CASE FillEnds
  BY <1>10 DEF FillEnds, ToConnect, Searching
<1>11. CASE Join
  <2>1. phase' = phase \/ phase' = "assert failed"
    BY <1>11 DEF Join
  <2>. QED BY <1>11, <2>1 DEF Join, Searching
<1>. QED BY <1>1, <1>2, <1>3, <1>4, <1>5, <1>6, <1>7, <1>8, <1>9, <1>10, <1>11 DEF Next

-----------------------------------------------------------------------------
(* What a search that has ended says.                                      *)

\* A search that has ended knows all that is within so many hops.
LEMMA EndedSearchIsComplete ==
  ASSUME NEW c \in NatMatrices, NEW s \in Searches, Relaxed(c, s), Ordered(s), s.q = <<>>,
         NEW d \in Nodes
  PROVE  Within(c, s.src)[d] = {w \in Nodes : s.dist[w] <= d}
<1>. DEFINE W == Within(c, s.src)
            n == NNode - 1
            D(w) == s.dist[w]
            S == {k \in Nat : k <= n => W[k] = {w \in Nodes : D(w) <= k}}
<1>1. /\ s.src \in Nodes /\ D(s.src) = 0
      /\ (\A w \in Nodes : D(w) \in Nat /\ D(w) <= NNode) /\ s.visited \in SUBSET Nodes
  BY SearchTypes DEF Relaxed
<1>2. /\ W[0] = {s.src} /\ (\A k \in 1..n : W[k] = UNION {Near(c, u) : u \in W[k - 1]})
      /\ n \in Nat /\ NNode = n + 1
  <2>1. n \in Nat /\ NNode = n + 1
    BY NodeNumbers
  <2>. DEFINE src == s.src
  <2>2. src \in Nodes
    BY <1>1
  <2>. HIDE DEF src
  <2>3. /\ Within(c, src)[0] = {src}
        /\ \A k \in 1..NNode - 1 : Within(c, src)[k] = UNION {Near(c, u) : u \in Within(c, src)[k - 1]}
    BY <2>2, WithinFacts
  <2>. QED BY <2>1, <2>3 DEF src
<1>3. \A w \in Nodes \ {s.src} : D(w) <= n =>
        s.prev[w] \in Nodes /\ c[s.prev[w]][w] > 0 /\ D(w) = D(s.prev[w]) + 1
  <2>1. \A w \in Nodes : D(w) <= n => Reached(s, w)
    BY <1>1, <1>2 DEF Reached
  <2>. QED BY <1>1, <2>1 DEF Relaxed
<1>4. \A u \in Nodes : D(u) <= n => \A w \in Nodes : c[u][w] > 0 => D(w) <= D(u) + 1
  <2>. SUFFICES ASSUME NEW u \in Nodes, D(u) <= n, NEW w \in Nodes, c[u][w] > 0
                PROVE  D(w) <= D(u) + 1
    OBVIOUS
  <2>1. Reached(s, u)
    BY <1>1, <1>2 DEF Reached
  <2>2. u \in s.visited
    BY <2>1 DEF Ordered
  <2>3. c[u][w] # 0
    OBVIOUS
  <2>. QED BY <2>2, <2>3 DEF Relaxed
<1>. HIDE DEF W, n, D
<1>5. 0 \in S
  <2>1. ASSUME NEW w \in Nodes, D(w) <= 0 PROVE w = s.src
    <3>. SUFFICES ASSUME w # s.src PROVE FALSE
      OBVIOUS
    <3>1. D(w) <= n
      BY <1>1, <1>2, <2>1
    <3>2. s.prev[w] \in Nodes /\ D(w) = D(s.prev[w]) + 1
      BY <1>3, <3>1
    <3>. QED BY <1>1, <2>1, <3>2
  <2>2. {s.src} = {w \in Nodes : D(w) <= 0}
    BY <1>1, <2>1
  <2>. QED BY <1>2, <2>2
<1>6. ASSUME NEW k \in Nat, k \in S PROVE k + 1 \in S
  <2>. SUFFICES ASSUME k + 1 <= n PROVE W[k + 1] = {w \in Nodes : D(w) <= k + 1}
    OBVIOUS
  <2>1. k + 1 \in 1..n /\ (k + 1) - 1 = k /\ k <= n
    BY <1>2
  <2>2. W[k + 1] = UNION {Near(c, u) : u \in W[k]}
    BY <1>2, <2>1
  <2>3. W[k] = {w \in Nodes : D(w) <= k}
    BY <1>6, <2>1
  <2>4. ASSUME NEW u \in W[k], NEW w \in Near(c, u) PROVE w \in Nodes /\ D(w) <= k + 1
    <3>1. u \in Nodes /\ D(u) <= k /\ D(u) <= n /\ D(u) \in Nat
      BY <1>1, <1>2, <2>1, <2>3
    <3>2. w = u \/ (w \in Nodes /\ c[u][w] > 0)
      BY DEF Near
    <3>3. CASE w = u
      BY <3>1, <3>3
    <3>4. CASE w \in Nodes /\ c[u][w] > 0
      <4>1. D(w) <= D(u) + 1 /\ D(w) \in Nat
        BY <1>1, <1>4, <3>1, <3>4
      <4>. QED BY <3>1, <3>4, <4>1
    <3>. QED BY <3>2, <3>3, <3>4
  <2>5. ASSUME NEW w \in Nodes, D(w) <= k + 1 PROVE \E u \in W[k] : w \in Near(c, u)
    <3>1. CASE w = s.src
      <4>1. w \in W[k] /\ w \in Near(c, w)
        BY <1>1, <2>3, <3>1 DEF Near
      <4>. QED BY <4>1
    <3>2. CASE w # s.src
      <4>1. D(w) <= n
        BY <1>1, <1>2, <2>5
      <4>2. s.prev[w] \in Nodes /\ c[s.prev[w]][w] > 0 /\ D(w) = D(s.prev[w]) + 1
        BY <1>3, <3>2, <4>1
      <4>3. D(s.prev[w]) \in Nat
        BY <1>1, <4>2
      <4>4. D(s.prev[w]) <= k
        BY <2>5, <4>2, <4>3
      <4>. QED BY <2>3, <4>2, <4>4 DEF Near
    <3>. QED BY <3>1, <3>2
  <2>. QED BY <2>2, <2>4, <2>5
<1>. HIDE DEF S
<1>7. Nat \subseteq S
  BY <1>5, <1>6, NatInductionOnSets
<1>8. d \in Nat /\ d <= n
  BY NodeNumbers DEF Nodes, n
<1>. QED BY <1>7, <1>8 DEF S, W, D

LEMMA DistanceIsFound ==
  ASSUME NEW i \in Nodes, NEW s \in Searches, conn \in NatMatrices,
         Relaxed(conn, s), Ordered(s), s.q = <<>>
  PROVE  Distance(s.src, i) = IF Reached(s, i) THEN s.dist[i] ELSE 0
<1>. DEFINE hops == {d \in Nodes : i \in Within(conn, s.src)[d]}
            D == s.dist[i]
<1>1. Distance(s.src, i) = IF hops = {} THEN 0 ELSE Min(hops)
  BY DEF Distance
<1>2. D \in Nat /\ D <= NNode
  BY SearchTypes
<1>3. hops = {d \in Nodes : D <= d}
  BY EndedSearchIsComplete
<1>. HIDE DEF hops, D
<1>4. CASE Reached(s, i)
  <2>1. D \in hops
    BY <1>2, <1>3, <1>4, NodeNumbers DEF Reached, Nodes, D
  <2>2. hops \in SUBSET Nat /\ hops # {}
    BY <1>3, <2>1, NodeNumbers
  <2>3. Min(hops) \in hops /\ Min(hops) <= D
    BY <2>1, <2>2, MinOfNaturals
  <2>4. Min(hops) \in Nat /\ D <= Min(hops)
    BY <1>3, <2>2, <2>3
  <2>5. Min(hops) = D
    BY <1>2, <2>3, <2>4
  <2>. QED BY <1>1, <1>4, <2>2, <2>5 DEF D
<1>5. CASE ~Reached(s, i)
  <2>1. ~(D < NNode)
    BY <1>5 DEF Reached, D
  <2>2. hops = {}
    BY <1>2, <1>3, <2>1, NodeNumbers DEF Nodes
  <2>. QED BY <1>1, <1>5, <2>2
<1>. QED BY <1>4, <1>5

\* The way to a node is that to the node before it, and the node.
Extends(s, g, v) == IF s.prev[v] = NoNode THEN <<>> ELSE Append(g[s.prev[v]], v)

Routes(s, g) == g = [v \in Nodes |-> Extends(s, g, v)]

LEMMA RoutesExist ==
  ASSUME NEW c, NEW s \in Searches, Relaxed(c, s)
  PROVE  \E g : Routes(s, g)
<1>. DEFINE Ways == [Nodes -> Seq(Nodes)]
            none == [v \in Nodes |-> <<>>]
            longer == [g \in Ways |-> [v \in Nodes |-> Extends(s, g, v)]]
            step == [k \in 1..NNode |-> longer]
            D(v) == s.dist[v]
<1>1. /\ \A v \in Nodes : s.prev[v] # NoNode => s.prev[v] \in Nodes
      /\ \A v \in Nodes : D(v) \in Nat
      /\ s.visited \subseteq Nodes
  <2>1. \A v \in Nodes : s.prev[v] \in 0..NNode /\ D(v) \in Nat
    BY SearchTypes
  <2>2. s.visited \subseteq Nodes
    BY SearchTypes
  <2>. QED BY <2>1, <2>2, NodeNumbers DEF NoNode, Nodes
<1>2. \A v \in Nodes : s.prev[v] # NoNode => D(v) = D(s.prev[v]) + 1 /\ D(v) < NNode
  BY DEF Relaxed, Reached
<1>3. \A g \in Ways : longer[g] \in Ways
  <2>. SUFFICES ASSUME NEW g \in Ways, NEW v \in Nodes PROVE Extends(s, g, v) \in Seq(Nodes)
    OBVIOUS
  <2>1. CASE s.prev[v] = NoNode
    BY <2>1 DEF Extends
  <2>2. CASE s.prev[v] # NoNode
    <3>1. g[s.prev[v]] \in Seq(Nodes)
      BY <1>1, <2>2
    <3>. QED BY <2>2, <3>1 DEF Extends
  <2>. QED BY <2>1, <2>2
<1>4. none \in Ways
  OBVIOUS
<1>5. \A g \in Ways, v \in Nodes : longer[g][v] = Extends(s, g, v)
  OBVIOUS
<1>6. \A g \in Ways : longer[g] = [v \in Nodes |-> Extends(s, g, v)]
  OBVIOUS
<1>7. longer \in [Ways -> Ways]
  BY <1>3
<1>. HIDE DEF Ways, longer, none
<1>8. step \in [1..NNode -> [Ways -> Ways]]
  BY <1>7
<1>9. PICK f \in [0..NNode -> Ways] : f[0] = none /\ \A k \in 1..NNode : f[k] = step[k][f[k - 1]]
  <2>1. RunsOf(Ways, none, NNode, step) # {}
    <3>. HIDE DEF step
    <3>. QED BY <1>4, <1>8, NodeNumbers, RecursionExists
  <2>. QED BY <2>1 DEF RunsOf
<1>10. \A k \in 1..NNode : f[k] = longer[f[k - 1]] /\ f[k - 1] \in Ways
  <2>. TAKE k \in 1..NNode
  <2>1. k - 1 \in 0..NNode
    BY NodeNumbers
  <2>. QED BY <1>9, <2>1
<1>. HIDE DEF D
<1>. DEFINE S == {k \in Nat : k + 1 <= NNode =>
                    \A v \in Nodes : s.prev[v] = NoNode \/ D(v) < k + 1 => f[k + 1][v] = f[k][v]}
<1>11. \A k \in Nat, v \in Nodes : k + 1 <= NNode => f[k + 1][v] = Extends(s, f[k], v) /\ f[k] \in Ways
  <2>. SUFFICES ASSUME NEW k \in Nat, k + 1 <= NNode, NEW v \in Nodes
                PROVE  f[k + 1][v] = Extends(s, f[k], v) /\ f[k] \in Ways
    OBVIOUS
  <2>1. k + 1 \in 1..NNode /\ (k + 1) - 1 = k
    BY NodeNumbers
  <2>2. f[k + 1] = longer[f[k]] /\ f[k] \in Ways
    BY <1>10, <2>1
  <2>. QED BY <1>5, <2>2
<1>12. 0 \in S
  <2>. SUFFICES ASSUME NEW v \in Nodes, s.prev[v] = NoNode \/ D(v) < 1
                PROVE  f[1][v] = f[0][v]
    BY NodeNumbers
  <2>1. s.prev[v] = NoNode
    <3>. SUFFICES ASSUME s.prev[v] # NoNode, D(v) < 1 PROVE FALSE
      OBVIOUS
    <3>1. D(v) = D(s.prev[v]) + 1 /\ D(s.prev[v]) \in Nat
      BY <1>1, <1>2
    <3>. QED BY <3>1
  <2>2. f[0 + 1][v] = Extends(s, f[0], v)
    BY <1>11, NodeNumbers
  <2>. QED BY <1>9, <2>1, <2>2 DEF Extends, none
<1>13. ASSUME NEW k \in Nat, k \in S PROVE k + 1 \in S
  <2>. SUFFICES ASSUME (k + 1) + 1 <= NNode, NEW v \in Nodes, s.prev[v] = NoNode \/ D(v) < (k + 1) + 1
                PROVE  f[(k + 1) + 1][v] = f[k + 1][v]
    OBVIOUS
  <2>1. k + 1 <= NNode /\ k + 1 \in Nat
    BY NodeNumbers
  <2>2. f[(k + 1) + 1][v] = Extends(s, f[k + 1], v) /\ f[k + 1][v] = Extends(s, f[k], v)
    BY <1>11, <2>1
  <2>3. CASE s.prev[v] = NoNode
    BY <2>2, <2>3 DEF Extends
  <2>4. CASE s.prev[v] # NoNode
    <3>1. s.prev[v] \in Nodes /\ D(v) = D(s.prev[v]) + 1 /\ D(s.prev[v]) \in Nat
      BY <1>1, <1>2, <2>4
    <3>2. D(s.prev[v]) < k + 1
      BY <2>4, <3>1
    <3>3. f[k + 1][s.prev[v]] = f[k][s.prev[v]]
      BY <1>13, <2>1, <3>1, <3>2
    <3>. QED BY <2>2, <2>4, <3>3 DEF Extends
  <2>. QED BY <2>3, <2>4
<1>. HIDE DEF S
<1>14. Nat \subseteq S
  BY <1>12, <1>13, NatInductionOnSets
<1>. DEFINE n == NNode - 1
<1>15. n \in Nat /\ n + 1 = NNode
  BY NodeNumbers
<1>. HIDE DEF n
<1>16. \A v \in Nodes : f[n + 1][v] = f[n][v]
  <2>1. \A v \in Nodes : s.prev[v] = NoNode \/ D(v) < n + 1
    BY <1>2, <1>15
  <2>2. n \in S /\ n + 1 <= NNode
    BY <1>14, <1>15, NodeNumbers
  <2>. QED BY <2>1, <2>2 DEF S
<1>17. f[n] \in Ways /\ \A v \in Nodes : f[n][v] = Extends(s, f[n], v)
  <2>1. n + 1 <= NNode /\ 0 \in Nodes
    BY <1>15, NodeNumbers
  <2>. QED BY <1>11, <1>15, <1>16, <2>1
<1>18. f[n] = [v \in Nodes |-> Extends(s, f[n], v)]
  <2>. DEFINE g == f[n]
  <2>1. g \in [Nodes -> Seq(Nodes)] /\ \A v \in Nodes : g[v] = Extends(s, g, v)
    BY <1>17 DEF Ways
  <2>. HIDE DEF g
  <2>2. g = [v \in Nodes |-> g[v]]
    BY <2>1
  <2>3. g = [v \in Nodes |-> Extends(s, g, v)]
    BY <2>1, <2>2
  <2>. QED BY <2>3 DEF g
<1>. QED BY <1>18 DEF Routes

\* A way over links, as long as the distance, to v.
Way(c, s, v, r) ==
  LET nodes == <<s.src>> \o r
  IN  /\ r \in Seq(Nodes) /\ Len(r) = s.dist[v] /\ nodes[Len(nodes)] = v
      /\ \A k \in 1..Len(nodes) - 1 : c[nodes[k]][nodes[k + 1]] > 0

LEMMA WayExtends ==
  ASSUME NEW c, NEW s, s.src \in Nodes, NEW u \in Nodes, NEW v \in Nodes, c[u][v] > 0,
         s.dist[v] = s.dist[u] + 1, NEW r, Way(c, s, u, r)
  PROVE  Way(c, s, v, Append(r, v))
<1>. DEFINE src == s.src
            old == <<src>> \o r
            new == <<src>> \o Append(r, v)
            n == Len(r) + 1
<1>1. /\ r \in Seq(Nodes) /\ Len(r) = s.dist[u] /\ old[Len(old)] = u
      /\ \A k \in 1..Len(old) - 1 : c[old[k]][old[k + 1]] > 0
  BY DEF Way
<1>2. src \in Nodes /\ Len(r) \in Nat /\ n \in Nat
  BY <1>1
<1>3. Append(r, v) \in Seq(Nodes) /\ Len(Append(r, v)) = s.dist[v]
  BY <1>1
<1>. HIDE DEF src
<1>4. /\ Len(old) = n /\ Len(new) = n + 1 /\ new[n + 1] = v
      /\ \A k \in 1..n : new[k] = old[k]
  BY <1>1, <1>2
<1>. HIDE DEF old, new, n
<1>5. ASSUME NEW k \in 1..Len(new) - 1 PROVE c[new[k]][new[k + 1]] > 0
  <2>1. CASE k = n
    <3>1. new[k] = u /\ new[k + 1] = v
      <4>1. n \in 1..n
        BY <1>2, <1>4, <1>5, <2>1
      <4>. QED BY <1>1, <1>4, <2>1, <4>1
    <3>. QED BY <3>1
  <2>2. CASE k # n
    <3>1. k \in 1..n /\ k + 1 \in 1..n /\ k \in 1..Len(old) - 1
      BY <1>2, <1>4, <1>5, <2>2
    <3>2. new[k] = old[k] /\ new[k + 1] = old[k + 1]
      BY <1>4, <3>1
    <3>. QED BY <1>1, <3>1, <3>2
  <2>. QED BY <2>1, <2>2
<1>6. new[Len(new)] = v
  BY <1>4
<1>. QED BY <1>3, <1>5, <1>6 DEF Way, new, src

LEMMA RoutesAreWays ==
  ASSUME NEW c, NEW s \in Searches, Relaxed(c, s), NEW g, Routes(s, g), NEW i \in Nodes
  PROVE  IF Reached(s, i) THEN Way(c, s, i, g[i]) ELSE i # s.src => g[i] = <<>>
<1>. DEFINE D(v) == s.dist[v]
            S == {k \in Nat : \A v \in Nodes : D(v) = k /\ Reached(s, v) => Way(c, s, v, g[v])}
<1>1. /\ s.src \in Nodes /\ D(s.src) = 0 /\ s.prev[s.src] = NoNode
      /\ (\A v \in Nodes : D(v) \in Nat) /\ s.visited \subseteq Nodes
  <2>1. s.src \in Nodes /\ s.visited \subseteq Nodes /\ \A v \in Nodes : s.dist[v] \in Nat
    BY SearchTypes
  <2>. QED BY <2>1 DEF Relaxed
<1>2. \A v \in Nodes : g[v] = Extends(s, g, v)
  BY DEF Routes
<1>3. \A v \in Nodes \ {s.src} : IF Reached(s, v)
                                 THEN /\ s.prev[v] \in Nodes /\ c[s.prev[v]][v] > 0
                                      /\ D(v) = D(s.prev[v]) + 1
                                 ELSE s.prev[v] = NoNode
  BY <1>1 DEF Relaxed
<1>. HIDE DEF D
<1>4. 0 \in S
  <2>. SUFFICES ASSUME NEW v \in Nodes, D(v) = 0, Reached(s, v) PROVE Way(c, s, v, g[v])
    OBVIOUS
  <2>1. v = s.src
    <3>. SUFFICES ASSUME v # s.src PROVE FALSE
      OBVIOUS
    <3>1. s.prev[v] \in Nodes /\ D(v) = D(s.prev[v]) + 1
      BY <1>3
    <3>. QED BY <1>1, <3>1
  <2>2. g[v] = <<>>
    BY <1>1, <1>2, <2>1 DEF Extends
  <2>. DEFINE nodes == <<s.src>> \o <<>>
  <2>3. Len(nodes) = 1 /\ nodes[1] = s.src
    BY <1>1
  <2>. HIDE DEF nodes
  <2>4. /\ <<>> \in Seq(Nodes) /\ Len(<<>>) = s.dist[v] /\ nodes[Len(nodes)] = v
        /\ \A k \in 1..Len(nodes) - 1 : c[nodes[k]][nodes[k + 1]] > 0
    BY <2>1, <2>3 DEF D
  <2>. QED BY <2>2, <2>4 DEF Way, nodes
<1>5. ASSUME NEW k \in Nat, k \in S PROVE k + 1 \in S
  <2>. SUFFICES ASSUME NEW v \in Nodes, D(v) = k + 1, Reached(s, v) PROVE Way(c, s, v, g[v])
    OBVIOUS
  <2>. DEFINE u == s.prev[v]
  <2>1. v # s.src
    BY <1>1
  <2>2. u \in Nodes /\ c[u][v] > 0 /\ D(v) = D(u) + 1 /\ D(u) \in Nat
    BY <1>1, <1>3, <2>1
  <2>3. D(u) = k /\ Reached(s, u)
    BY <2>2, NodeNumbers DEF Reached, D
  <2>4. Way(c, s, u, g[u])
    BY <1>5, <2>2, <2>3
  <2>5. g[v] = Append(g[u], v)
    <3>1. NNode \notin Nodes
      BY NodeNumbers DEF Nodes
    <3>2. u # NoNode
      BY <2>2, <3>1 DEF NoNode
    <3>. QED BY <1>2, <3>2 DEF Extends
  <2>. HIDE DEF u
  <2>6. Way(c, s, v, Append(g[u], v))
    BY <1>1, <2>2, <2>4, WayExtends DEF D
  <2>. QED BY <2>5, <2>6
<1>. HIDE DEF S
<1>6. Nat \subseteq S
  BY <1>4, <1>5, NatInductionOnSets
<1>7. CASE Reached(s, i)
  BY <1>1, <1>6, <1>7 DEF S
<1>8. CASE ~Reached(s, i)
  BY <1>2, <1>3, <1>8 DEF Extends
<1>. QED BY <1>7, <1>8

LEMMA SearchingImpliesShortest == SInv => RoutesAreShortest
<1>. SUFFICES ASSUME SInv, phase = "done", ~generating, NEW i \in Nodes \ {search.src}
              PROVE  LET nodes == <<search.src>> \o RouteTo(i)
                     IN  /\ Len(RouteTo(i)) = Distance(search.src, i)
                         /\ \A k \in 1..Len(nodes) - 1 : conn[nodes[k]][nodes[k + 1]] > 0
  BY DEF RoutesAreShortest
<1>. DEFINE g == CHOOSE h : Routes(search, h)
<1>1. search \in Searches /\ Relaxed(conn, search) /\ Ordered(search) /\ search.q = <<>>
  BY DEF SInv, Searching
<1>2. conn \in NatMatrices
  BY DEF SInv, JInv, DInv, LinksFit, LinksAreNat, Matrices, Rows, NatMatrices
<1>3. RouteTo(i) = g[i]
  BY DEF RouteTo, Routes, Extends
<1>4. Routes(search, g)
  BY <1>1, RoutesExist
<1>. HIDE DEF g
<1>5. Distance(search.src, i) = IF Reached(search, i) THEN search.dist[i] ELSE 0
  BY <1>1, <1>2, DistanceIsFound
<1>6. CASE Reached(search, i)
  <2>1. Way(conn, search, i, g[i])
    BY <1>1, <1>4, <1>6, RoutesAreWays
  <2>. QED BY <1>3, <1>5, <1>6, <2>1 DEF Way
<1>7. CASE ~Reached(search, i)
  <2>1. g[i] = <<>>
    BY <1>1, <1>4, <1>7, RoutesAreWays
  <2>2. search.src \in Nodes
    BY <1>1, SearchTypes
  <2>. DEFINE nodes == <<search.src>> \o <<>>
  <2>3. Len(nodes) = 1
    BY <2>2
  <2>. HIDE DEF nodes
  <2>4. \A k \in 1..Len(nodes) - 1 : conn[nodes[k]][nodes[k + 1]] > 0
    BY <2>3
  <2>. QED BY <1>3, <1>5, <1>7, <2>1, <2>4 DEF nodes
<1>. QED BY <1>6, <1>7

\* The route that is computed to every node is a shortest one over links that
\* exist, however ties between predecessors are broken, and is empty for a node
\* that cannot be reached.
THEOREM RoutesComputedAreShortest == Spec => []RoutesAreShortest
<1>1. SInv => RoutesAreShortest
  BY SearchingImpliesShortest
<1>. QED BY <1>1, SearchingInit, SearchingNext, PTL DEF Spec

-----------------------------------------------------------------------------
(* Components and their first nodes.                                       *)

\* The first node of every component.
Firsts(c) == {v \in Nodes : v = Min(Reach(c, v))}

LEMMA ListsLength ==
  ASSUME NEW set \in SUBSET Nodes, NEW s, Lists(s, set)
  PROVE  Len(s) = Cardinality(set)
<1>1. /\ s \in Seq(set) /\ Len(s) \in Nat
      /\ \A v \in set : \E k \in 1..Len(s) : s[k] = v
  BY DEF Lists
<1>2. s \in [1..Len(s) -> set]
  BY <1>1
<1>3. \A k, m \in 1..Len(s) : s[k] = s[m] => k = m
  <2>. SUFFICES ASSUME NEW k \in 1..Len(s), NEW m \in 1..Len(s), s[k] = s[m], k # m PROVE FALSE
    OBVIOUS
  <2>1. s[k] \in set /\ set \subseteq Nat
    BY <1>2, NodeNumbers
  <2>2. s[k] \in Nat /\ s[m] \in Nat
    BY <2>1
  <2>3. k < m \/ m < k
    BY <1>1
  <2>4. s[k] < s[m] \/ s[m] < s[k]
    BY <2>3 DEF Lists
  <2>. QED BY <2>2, <2>4
<1>4. s \in Bijection(1..Len(s), set)
  BY <1>1, <1>2, <1>3 DEF Bijection, Injection, Surjection, IsInjective
<1>5. ExistsBijection(1..Len(s), set)
  BY <1>4 DEF ExistsBijection
<1>. QED BY <1>1, <1>5, IntervalSize, FS_Bijection

LEMMA ComponentsAreCounted ==
  ASSUME NEW c
  PROVE  Len(Components(c)) = Cardinality(Firsts(c))
<1>. DEFINE first == InOrder(Firsts(c))
            s == [i \in 1..Len(first) |-> Reach(c, first[i])]
<1>1. Firsts(c) \in SUBSET Nodes
  BY DEF Firsts
<1>2. Components(c) = s
  BY DEF Components, Firsts
<1>3. Lists(first, Firsts(c))
  BY <1>1, InOrderLists
<1>4. Len(first) = Cardinality(Firsts(c)) /\ Len(first) \in Nat
  <2>1. Len(first) \in Nat
    BY <1>3 DEF Lists
  <2>. QED BY <1>1, <1>3, <2>1, ListsLength
<1>. HIDE DEF first
<1>5. Len(s) = Len(first)
  BY <1>4
<1>. QED BY <1>2, <1>4, <1>5

LEMMA FirstOfReach ==
  ASSUME NEW c, Symmetric(c), NEW v \in Nodes
  PROVE  /\ Min(Reach(c, v)) \in Reach(c, v) /\ Min(Reach(c, v)) \in Firsts(c)
         /\ \A u \in Reach(c, v) : u \in Firsts(c) => u = Min(Reach(c, v))
         /\ \A u \in Reach(c, v) : u \in Nodes /\ Min(Reach(c, v)) <= u
<1>. DEFINE R == Reach(c, v)
            m == Min(R)
<1>1. R \in SUBSET Nodes /\ v \in R
  BY ReachIsClosed
<1>2. m \in R /\ \A y \in R : m <= y
  <2>1. R \in SUBSET Nat /\ R # {}
    BY <1>1, NodeNumbers
  <2>. HIDE DEF R
  <2>. QED BY <2>1, MinOfNaturals
<1>3. \A u \in R : u \in Nodes /\ Reach(c, u) = R
  BY ReachIsMutual DEF Symmetric
<1>. HIDE DEF m, R
<1>4. m \in Firsts(c)
  BY <1>2, <1>3 DEF Firsts, m
<1>5. \A u \in R : u \in Firsts(c) => u = m
  BY <1>3 DEF Firsts, m
<1>. QED BY <1>2, <1>3, <1>4, <1>5 DEF m, R

LEMMA FirstsAreFinite ==
  ASSUME NEW c
  PROVE  IsFiniteSet(Firsts(c)) /\ Cardinality(Firsts(c)) \in Nat
<1>1. Firsts(c) \subseteq Nodes
  BY DEF Firsts
<1>. QED BY <1>1, NodesAreFinite, FS_Subset, FS_CardinalityType

\* No connection is lost if every link is kept or replaced by a way over one node.
Kept(c, d) ==
  \A i, j \in Nodes : c[i][j] > 0 => d[i][j] > 0 \/ \E v \in Nodes : d[i][v] > 0 /\ d[v][j] > 0

LEMMA BridgeJoins ==
  ASSUME NEW c, NEW d, Symmetric(c), Symmetric(d), Kept(c, d),
         NEW g \in SUBSET Nodes, NEW h \in SUBSET Nodes, Closed(c, g), Closed(c, h), g \cap h = {},
         NEW a \in g, NEW b \in h, d[a][b] > 0
  PROVE  Cardinality(Firsts(d)) < Cardinality(Firsts(c))
<1>1. ASSUME NEW u \in Nodes PROVE Reach(c, u) \subseteq Reach(d, u)
  <2>. DEFINE R == Reach(d, u)
  <2>1. R \in SUBSET Nodes /\ u \in R /\ \A x \in R : Near(d, x) \subseteq R
    BY ReachIsClosed DEF Closed
  <2>. HIDE DEF R
  <2>2. ASSUME NEW x \in R, NEW w \in Near(c, x) PROVE w \in R
    <3>1. x \in Nodes /\ (w = x \/ (w \in Nodes /\ c[x][w] > 0))
      BY <2>1 DEF Near
    <3>2. CASE w = x
      BY <3>2
    <3>3. CASE w \in Nodes /\ d[x][w] > 0
      BY <2>1, <3>3 DEF Near
    <3>4. CASE w \in Nodes /\ \E v \in Nodes : d[x][v] > 0 /\ d[v][w] > 0
      <4>1. PICK v \in Nodes : d[x][v] > 0 /\ d[v][w] > 0
        BY <3>4
      <4>2. v \in R
        BY <2>1, <4>1 DEF Near
      <4>. QED BY <2>1, <3>4, <4>1, <4>2 DEF Near
    <3>. QED BY <3>1, <3>2, <3>3, <3>4 DEF Kept
  <2>3. Closed(c, R)
    BY <2>2 DEF Closed
  <2>4. Reach(c, u) \subseteq R
    BY <2>1, <2>3, ReachIsClosed
  <2>. QED BY <2>4 DEF R
<1>2. Firsts(d) \subseteq Firsts(c)
  <2>. SUFFICES ASSUME NEW u \in Firsts(d) PROVE u \in Firsts(c)
    OBVIOUS
  <2>1. u \in Nodes /\ u = Min(Reach(d, u))
    BY DEF Firsts
  <2>. DEFINE m == Min(Reach(c, u))
  <2>2. m \in Reach(c, u) /\ m <= u /\ m \in Nodes /\ m \in Firsts(c)
    BY <2>1, FirstOfReach, ReachIsClosed
  <2>3. u <= m
    BY <1>1, <2>1, <2>2, FirstOfReach
  <2>. HIDE DEF m
  <2>4. u = m
    <3>1. Nodes \subseteq Nat
      BY NodeNumbers
    <3>2. u \in Nat /\ m \in Nat
      BY <2>1, <2>2, <3>1
    <3>. QED BY <2>2, <2>3, <3>2
  <2>. QED BY <2>2, <2>4
<1>. DEFINE x == Min(Reach(c, a))
            y == Min(Reach(c, b))
<1>3. x \in Reach(c, a) /\ x \in Firsts(c) /\ y \in Reach(c, b) /\ y \in Firsts(c)
  BY FirstOfReach
<1>4. Reach(c, a) \subseteq g /\ Reach(c, b) \subseteq h
  BY ReachIsClosed
<1>5. x \in Reach(d, a) /\ y \in Reach(d, a)
  <2>1. b \in Reach(d, a)
    <3>1. b \in Near(d, a)
      BY DEF Near
    <3>2. a \in Reach(d, a) /\ Closed(d, Reach(d, a))
      BY ReachIsClosed
    <3>. QED BY <3>1, <3>2 DEF Closed
  <2>2. Reach(d, b) = Reach(d, a)
    BY <2>1, ReachIsMutual DEF Symmetric
  <2>. HIDE DEF x, y
  <2>. QED BY <1>1, <1>3, <2>2
<1>. HIDE DEF x, y
<1>6. x # y
  BY <1>3, <1>4
<1>7. PICK z \in {x, y} : z \notin Firsts(d)
  <2>. SUFFICES ASSUME x \in Firsts(d), y \in Firsts(d) PROVE FALSE
    OBVIOUS
  <2>1. x = Min(Reach(d, a)) /\ y = Min(Reach(d, a))
    BY <1>5, FirstOfReach
  <2>. QED BY <1>6, <2>1
<1>8. Firsts(d) \subseteq Firsts(c) \ {z} /\ z \in Firsts(c)
  BY <1>2, <1>3, <1>7
<1>9. IsFiniteSet(Firsts(c)) /\ Cardinality(Firsts(c)) \in Nat /\ Cardinality(Firsts(d)) \in Nat
  BY FirstsAreFinite
<1>10. IsFiniteSet(Firsts(c) \ {z}) /\ Cardinality(Firsts(c) \ {z}) = Cardinality(Firsts(c)) - 1
  BY <1>8, <1>9, FS_RemoveElement
<1>11. Cardinality(Firsts(d)) <= Cardinality(Firsts(c) \ {z})
  BY <1>8, <1>10, FS_Subset
<1>. QED BY <1>9, <1>10, <1>11

LEMMA OneMore ==
  ASSUME NEW S, IsFiniteSet(S), NEW x
  PROVE  /\ IsFiniteSet(S \cup {x}) /\ Cardinality(S \cup {x}) \in Nat
         /\ Cardinality(S \cup {x}) <= Cardinality(S) + 1
<1>1. /\ IsFiniteSet(S \cup {x})
      /\ Cardinality(S \cup {x}) = IF x \in S THEN Cardinality(S) ELSE Cardinality(S) + 1
  BY FS_AddElement
<1>2. Cardinality(S) \in Nat /\ Cardinality(S \cup {x}) \in Nat
  BY <1>1, FS_CardinalityType
<1>. QED BY <1>1, <1>2

\* Two links, within groups that are closed, are replaced by links between them.
Crossed(c, d, x, y, z, w) ==
  /\ \A i, j \in Nodes : c[i][j] > 0 => d[i][j] > 0 \/ {i, j} = {x, y} \/ {i, j} = {z, w}
  /\ \A i, j \in Nodes : d[i][j] > 0 => c[i][j] > 0 \/ {i, j} = {x, w} \/ {i, j} = {y, z}
  /\ c[x][y] > 0 /\ c[z][w] > 0 /\ d[x][w] > 0 /\ d[y][z] > 0

LEMMA CrossingJoins ==
  ASSUME NEW c, NEW d, Symmetric(c), Symmetric(d),
         NEW g \in SUBSET Nodes, NEW h \in SUBSET Nodes, Closed(c, g), Closed(c, h), g \cap h = {},
         NEW x \in g, NEW y \in g, NEW z \in h, NEW w \in h, Crossed(c, d, x, y, z, w)
  PROVE  Cardinality(Firsts(d)) <= Cardinality(Firsts(c))
<1>. DEFINE P == Reach(c, x)
            Q == Reach(c, z)
            U == P \cup Q
            S == Reach(d, x) \cup Reach(d, y)
            F == Firsts(c) \ U
            a == Min(P)
            b == Min(Q)
            e == Min(Reach(d, x))
            f == Min(Reach(d, y))
<1>1. /\ P \in SUBSET Nodes /\ x \in P /\ y \in P /\ P \subseteq g /\ Closed(c, P)
      /\ Q \in SUBSET Nodes /\ z \in Q /\ w \in Q /\ Q \subseteq h /\ Closed(c, Q)
  <2>1. y \in Near(c, x) /\ w \in Near(c, z)
    BY DEF Crossed, Near
  <2>. QED BY <2>1, ReachIsClosed DEF Closed
<1>2. a \in P /\ a \in Firsts(c) /\ b \in Q /\ b \in Firsts(c)
  BY FirstOfReach
<1>3. U \subseteq S
  <2>1. /\ \A u \in S : u \in Nodes /\ Near(d, u) \subseteq S
        /\ x \in S /\ y \in S /\ z \in S /\ w \in S
    <3>1. /\ Reach(d, x) \in SUBSET Nodes /\ x \in Reach(d, x) /\ Closed(d, Reach(d, x))
          /\ Reach(d, y) \in SUBSET Nodes /\ y \in Reach(d, y) /\ Closed(d, Reach(d, y))
      BY ReachIsClosed
    <3>2. w \in Near(d, x) /\ z \in Near(d, y)
      BY DEF Near, Crossed
    <3>. QED BY <3>1, <3>2 DEF Closed
  <2>. HIDE DEF S
  <2>2. ASSUME NEW u \in S, NEW v \in Near(c, u) PROVE v \in S
    <3>1. u \in Nodes /\ (v = u \/ (v \in Nodes /\ c[u][v] > 0))
      BY <2>1 DEF Near
    <3>2. CASE v \in Nodes /\ d[u][v] > 0
      BY <2>1, <3>2 DEF Near
    <3>3. CASE {u, v} = {x, y} \/ {u, v} = {z, w}
      <4>1. v \in {x, y, z, w}
        BY <3>3
      <4>. QED BY <2>1, <4>1
    <3>. QED BY <3>1, <3>2, <3>3 DEF Crossed
  <2>3. Closed(c, S)
    BY <2>2 DEF Closed
  <2>. QED BY <2>1, <2>3, ReachIsClosed
<1>4. ASSUME NEW u \in Nodes, u \notin U, NEW v \in Nodes
      PROVE  /\ (c[u][v] > 0 <=> d[u][v] > 0)
             /\ c[u][v] > 0 => v \notin U
  <2>1. x \in U /\ y \in U /\ z \in U /\ w \in U
    BY <1>1
  <2>2. {u, v} # {x, y} /\ {u, v} # {z, w} /\ {u, v} # {x, w} /\ {u, v} # {y, z}
    BY <1>4, <2>1
  <2>3. c[u][v] > 0 <=> d[u][v] > 0
    BY <2>2 DEF Crossed
  <2>4. ASSUME c[u][v] > 0, v \in U PROVE FALSE
    <3>1. c[v][u] > 0
      BY <2>4 DEF Symmetric
    <3>2. u \in Near(c, v)
      BY <3>1 DEF Near
    <3>3. u \in U
      BY <1>1, <2>4, <3>2 DEF Closed
    <3>. QED BY <1>4, <3>3
  <2>. QED BY <2>3, <2>4
<1>. DEFINE V == Nodes \ U
<1>5. ASSUME NEW u \in V PROVE Reach(c, u) = Reach(d, u)
  <2>1. \A v \in V : v \in Nodes /\ Near(c, v) = Near(d, v) /\ Near(c, v) \subseteq V
    <3>. TAKE v \in V
    <3>1. v \in Nodes /\ v \notin U
      OBVIOUS
    <3>. HIDE DEF U
    <3>2. \A r \in Nodes : (c[v][r] > 0 <=> d[v][r] > 0) /\ (c[v][r] > 0 => r \notin U)
      BY <1>4, <3>1
    <3>3. Near(c, v) = Near(d, v)
      BY <3>2 DEF Near
    <3>4. Near(c, v) \subseteq V
      BY <3>1, <3>2 DEF Near
    <3>. QED BY <3>1, <3>3, <3>4
  <2>. HIDE DEF V
  <2>2. Closed(c, V) /\ Closed(d, V) /\ u \in Nodes
    BY <2>1 DEF Closed
  <2>3. Reach(c, u) \subseteq V /\ Reach(d, u) \subseteq V
    BY <2>2, ReachIsClosed
  <2>4. Closed(d, Reach(c, u)) /\ Closed(c, Reach(d, u))
    <3>1. Closed(c, Reach(c, u)) /\ Closed(d, Reach(d, u))
      BY <2>2, ReachIsClosed
    <3>. QED BY <2>1, <2>3, <3>1 DEF Closed
  <2>. QED BY <2>2, <2>4, ReachIsClosed
<1>6. Firsts(d) \subseteq F \cup {e, f}
  <2>. SUFFICES ASSUME NEW u \in Firsts(d) PROVE u \in F \cup {e, f}
    OBVIOUS
  <2>1. u \in Nodes /\ u = Min(Reach(d, u))
    BY DEF Firsts
  <2>2. CASE u \notin U
    <3>1. Reach(c, u) = Reach(d, u)
      BY <1>5, <2>1, <2>2
    <3>2. u \in Firsts(c)
      BY <2>1, <3>1 DEF Firsts
    <3>. QED BY <2>2, <3>2
  <2>3. CASE u \in Reach(d, x)
    BY <2>3, FirstOfReach
  <2>4. CASE u \in Reach(d, y)
    BY <2>4, FirstOfReach
  <2>. HIDE DEF F, U
  <2>. QED BY <1>3, <2>2, <2>3, <2>4
<1>7. (F \cup {a}) \cup {b} \subseteq Firsts(c) /\ a \notin F /\ b \notin F \cup {a}
  <2>1. a # b
    BY <1>1, <1>2
  <2>. HIDE DEF a, b, P, Q
  <2>. QED BY <1>2, <2>1
<1>. HIDE DEF F, a, b, e, f, U
<1>8. IsFiniteSet(F) /\ Cardinality(F) \in Nat
  <2>1. F \subseteq Firsts(c)
    BY DEF F
  <2>. QED BY <2>1, FirstsAreFinite, FS_Subset, FS_CardinalityType
<1>9. IsFiniteSet(F \cup {a}) /\ Cardinality(F \cup {a}) = Cardinality(F) + 1
  BY <1>7, <1>8, FS_AddElement
<1>10. Cardinality((F \cup {a}) \cup {b}) = Cardinality(F) + 2
  <2>1. Cardinality((F \cup {a}) \cup {b}) = Cardinality(F \cup {a}) + 1
    BY <1>7, <1>9, FS_AddElement
  <2>. QED BY <1>8, <1>9, <2>1
<1>11. Cardinality((F \cup {a}) \cup {b}) <= Cardinality(Firsts(c))
  BY <1>7, FirstsAreFinite, FS_Subset
<1>12. /\ IsFiniteSet((F \cup {e}) \cup {f}) /\ Cardinality((F \cup {e}) \cup {f}) \in Nat
       /\ Cardinality((F \cup {e}) \cup {f}) <= Cardinality(F) + 2
  <2>1. /\ IsFiniteSet(F \cup {e}) /\ Cardinality(F \cup {e}) <= Cardinality(F) + 1
        /\ Cardinality(F \cup {e}) \in Nat
    BY <1>8, OneMore
  <2>2. /\ IsFiniteSet((F \cup {e}) \cup {f})
        /\ Cardinality((F \cup {e}) \cup {f}) <= Cardinality(F \cup {e}) + 1
        /\ Cardinality((F \cup {e}) \cup {f}) \in Nat
    BY <2>1, OneMore
  <2>. QED BY <1>8, <2>1, <2>2
<1>13. Cardinality(Firsts(d)) <= Cardinality((F \cup {e}) \cup {f})
  <2>1. Firsts(d) \subseteq (F \cup {e}) \cup {f}
    BY <1>6
  <2>. QED BY <1>12, <2>1, FS_Subset
<1>. QED BY <1>8, <1>10, <1>11, <1>12, <1>13, FirstsAreFinite

-----------------------------------------------------------------------------
(* The three ways to join.                                                 *)

\* For every pair of nodes, from matrix c to d: two links between v and w are added.
Doubled(c, d, v, w) ==
  \A i, j \in Nodes : d[i][j] = c[i][j] + Is(<<v, w>>, i, j) + Is(<<v, w>>, i, j)

\* v gets in between x and y.
Subdivided(c, d, v, x, y) ==
  /\ c[x][y] > 0 /\ x # y
  /\ \A i, j \in Nodes :
       d[i][j] = c[i][j] - Is(<<x, y>>, i, j) + Is(<<v, x>>, i, j) + Is(<<v, y>>, i, j)

\* The links between x and y and between z and w are swapped.
Swapped(c, d, x, y, z, w) ==
  /\ c[x][y] > 0 /\ c[z][w] > 0 /\ x # y /\ z # w
  /\ \A i, j \in Nodes :
       d[i][j] = c[i][j] - (Is(<<x, y>>, i, j) + Is(<<z, w>>, i, j))
                   + Is(<<x, w>>, i, j) + Is(<<y, z>>, i, j)

Joined(c, d, g, h) ==
  \/ \E v, w \in Nodes : g = {v} /\ h = {w} /\ Doubled(c, d, v, w)
  \/ \E v \in Nodes : g = {v} /\ \E x, y \in h : Subdivided(c, d, v, x, y)
  \/ \E v \in Nodes : h = {v} /\ \E x, y \in g : Subdivided(c, d, v, x, y)
  \/ /\ Cardinality(g) # 1 /\ Cardinality(h) # 1
     /\ \E x, y \in g, z, w \in h : Swapped(c, d, x, y, z, w)

LEMMA LinksWithin ==
  ASSUME NEW group \in SUBSET Nodes, NEW p \in LinksIn(group)
  PROVE  p[1] \in group /\ p[2] \in group /\ p[1] # p[2] /\ conn[p[1]][p[2]] > 0 /\ p = <<p[1], p[2]>>
<1>1. /\ p \in group \X group /\ p[1] < p[2] /\ conn[p[1]][p[2]] > 0
  BY DEF LinksIn
<1>2. p[1] \in group /\ p[2] \in group /\ Nodes \subseteq Nat
  BY <1>1, NodeNumbers
<1>3. p[1] \in Nat
  BY <1>2
<1>. QED BY <1>1, <1>2, <1>3

LEMMA RewiredLinks ==
  ASSUME conn \in Matrices, NEW change, NEW i \in Nodes, NEW j \in Nodes, NEW a, NEW b,
         change.added = <<a, b>>
  PROVE  Rewired(change)[i][j]
           = conn[i][j] - Times(change.removed, i, j) + Times(<<a, b>>, i, j)
  BY DEF Rewired

LEMMA ChangesJoin ==
  ASSUME conn \in Matrices, NEW g \in SUBSET Nodes, NEW h \in SUBSET Nodes, g # {}, h # {},
         Cardinality(g) > 1 => LinksIn(g) # {}, Cardinality(h) > 1 => LinksIn(h) # {},
         NEW change \in Changes(g, h)
  PROVE  Joined(conn, Rewired(change), g, h)
<1>. DEFINE d == Rewired(change)
<1>1. /\ IsFiniteSet(g) /\ IsFiniteSet(h) /\ Cardinality(g) \in Nat /\ Cardinality(h) \in Nat
      /\ Cardinality(g) # 0 /\ Cardinality(h) # 0
  BY NodesAreFinite, FS_Subset, FS_CardinalityType, FS_EmptySet
<1>2. ASSUME NEW k \in {g, h}, Cardinality(k) = 1 PROVE k = {The(k)} /\ The(k) \in Nodes
  <2>1. \E v : k = {v}
    BY <1>1, <1>2, FS_Singleton
  <2>. QED BY <2>1 DEF The
<1>3. \A p, i, j : Is(p, i, j) \in Int
  BY DEF Is
<1>4. \A i, j \in Nodes : conn[i][j] \in Int
  BY DEF Matrices, Rows
<1>5. CASE Cardinality(g) = 1 /\ Cardinality(h) = 1
  <2>. DEFINE a == <<The(g), The(h)>>
  <2>1. change.removed = <<>> /\ change.added = <<a, a>>
    BY <1>5 DEF Changes
  <2>2. ASSUME NEW i \in Nodes, NEW j \in Nodes
        PROVE  d[i][j] = conn[i][j] + Is(a, i, j) + Is(a, i, j)
    <3>. HIDE DEF a
    <3>1. d[i][j] = conn[i][j] - Times(<<>>, i, j) + Times(<<a, a>>, i, j)
      BY <2>1, RewiredLinks
    <3>2. Times(<<>>, i, j) = 0 /\ Times(<<a, a>>, i, j) = Is(a, i, j) + Is(a, i, j)
      BY TimesFacts
    <3>3. conn[i][j] \in Int /\ Is(a, i, j) \in Int
      BY <1>3, <1>4
    <3>. QED BY <3>1, <3>2, <3>3
  <2>3. Doubled(conn, d, The(g), The(h))
    BY <2>2 DEF Doubled
  <2>. QED BY <1>2, <1>5, <2>3 DEF Joined
<1>6. ASSUME NEW v, NEW p, p = <<p[1], p[2]>>, change = Subdivide(v, p),
             conn[p[1]][p[2]] > 0, p[1] # p[2]
      PROVE  Subdivided(conn, d, v, p[1], p[2])
  <2>. DEFINE a == <<v, p[1]>>
              b == <<v, p[2]>>
  <2>1. change.removed = <<p>> /\ change.added = <<a, b>>
    BY <1>6 DEF Subdivide
  <2>2. ASSUME NEW i \in Nodes, NEW j \in Nodes
        PROVE  d[i][j] = conn[i][j] - Is(p, i, j) + Is(a, i, j) + Is(b, i, j)
    <3>. HIDE DEF a, b
    <3>1. d[i][j] = conn[i][j] - Times(<<p>>, i, j) + Times(<<a, b>>, i, j)
      BY <2>1, RewiredLinks
    <3>2. Times(<<p>>, i, j) = Is(p, i, j) /\ Times(<<a, b>>, i, j) = Is(a, i, j) + Is(b, i, j)
      BY TimesFacts
    <3>3. conn[i][j] \in Int /\ Is(a, i, j) \in Int /\ Is(b, i, j) \in Int /\ Is(p, i, j) \in Int
      BY <1>3, <1>4
    <3>. QED BY <3>1, <3>2, <3>3
  <2>3. \A i, j : Is(p, i, j) = Is(<<p[1], p[2]>>, i, j)
    BY <1>6
  <2>. QED BY <1>6, <2>2, <2>3 DEF Subdivided
<1>7. CASE Cardinality(g) = 1 /\ Cardinality(h) > 1
  <2>. DEFINE p == LinkToRemove(h)
  <2>1. change = Subdivide(The(g), p)
    BY <1>7 DEF Changes
  <2>2. p \in LinksIn(h)
    BY <1>7, RemovedLinkExists
  <2>. HIDE DEF p
  <2>3. p[1] \in h /\ p[2] \in h /\ p[1] # p[2] /\ conn[p[1]][p[2]] > 0 /\ p = <<p[1], p[2]>>
    BY <2>2, LinksWithin
  <2>4. Subdivided(conn, d, The(g), p[1], p[2])
    BY <1>6, <2>1, <2>3
  <2>5. g = {The(g)} /\ The(g) \in Nodes
    BY <1>2, <1>7
  <2>. QED BY <2>3, <2>4, <2>5 DEF Joined
<1>8. CASE Cardinality(g) > 1 /\ Cardinality(h) = 1
  <2>. DEFINE p == LinkToRemove(g)
  <2>1. change = Subdivide(The(h), p)
    BY <1>8 DEF Changes
  <2>2. p \in LinksIn(g)
    BY <1>8, RemovedLinkExists
  <2>. HIDE DEF p
  <2>3. p[1] \in g /\ p[2] \in g /\ p[1] # p[2] /\ conn[p[1]][p[2]] > 0 /\ p = <<p[1], p[2]>>
    BY <2>2, LinksWithin
  <2>4. Subdivided(conn, d, The(h), p[1], p[2])
    BY <1>6, <2>1, <2>3
  <2>5. h = {The(h)} /\ The(h) \in Nodes
    BY <1>2, <1>8
  <2>. QED BY <2>3, <2>4, <2>5 DEF Joined
<1>9. CASE /\ ~(Cardinality(g) = 1 /\ Cardinality(h) = 1)
           /\ ~(Cardinality(g) = 1 /\ Cardinality(h) > 1)
           /\ ~(Cardinality(g) > 1 /\ Cardinality(h) = 1)
  <2>1. PICK p \in Lightest(g), q \in Lightest(h) : change = Swap(p, q)
    BY <1>9 DEF Changes
  <2>2. /\ p[1] \in g /\ p[2] \in g /\ p[1] # p[2] /\ conn[p[1]][p[2]] > 0 /\ p = <<p[1], p[2]>>
        /\ q[1] \in h /\ q[2] \in h /\ q[1] # q[2] /\ conn[q[1]][q[2]] > 0 /\ q = <<q[1], q[2]>>
    <3>1. p \in LinksIn(g) /\ q \in LinksIn(h)
      BY DEF Lightest
    <3>. QED BY <3>1, LinksWithin
  <2>. DEFINE a == <<p[1], q[2]>>
              b == <<p[2], q[1]>>
  <2>3. change.removed = <<p, q>> /\ change.added = <<a, b>>
    BY <2>1 DEF Swap
  <2>4. ASSUME NEW i \in Nodes, NEW j \in Nodes
        PROVE  d[i][j] = conn[i][j] - (Is(p, i, j) + Is(q, i, j)) + Is(a, i, j) + Is(b, i, j)
    <3>. HIDE DEF a, b
    <3>1. d[i][j] = conn[i][j] - Times(<<p, q>>, i, j) + Times(<<a, b>>, i, j)
      BY <2>3, RewiredLinks
    <3>2. /\ Times(<<p, q>>, i, j) = Is(p, i, j) + Is(q, i, j)
          /\ Times(<<a, b>>, i, j) = Is(a, i, j) + Is(b, i, j)
      BY TimesFacts
    <3>3. /\ conn[i][j] \in Int /\ Is(a, i, j) \in Int /\ Is(b, i, j) \in Int
          /\ Is(p, i, j) \in Int /\ Is(q, i, j) \in Int
      BY <1>3, <1>4
    <3>. QED BY <3>1, <3>2, <3>3
  <2>5. \A i, j : /\ Is(p, i, j) = Is(<<p[1], p[2]>>, i, j)
                  /\ Is(q, i, j) = Is(<<q[1], q[2]>>, i, j)
    BY <2>2
  <2>6. Swapped(conn, d, p[1], p[2], q[1], q[2])
    BY <2>2, <2>4, <2>5 DEF Swapped
  <2>7. Cardinality(g) # 1 /\ Cardinality(h) # 1
    BY <1>1, <1>9
  <2>. QED BY <2>2, <2>6, <2>7 DEF Joined
<1>. HIDE DEF d
<1>. QED BY <1>5, <1>7, <1>8, <1>9 DEF d

LEMMA IsOf ==
  ASSUME NEW x, NEW y, NEW i, NEW j
  PROVE  Is(<<x, y>>, i, j) = IF (i = x /\ j = y) \/ (i = y /\ j = x) THEN 1 ELSE 0
<1>1. {x, y} = {i, j} <=> (i = x /\ j = y) \/ (i = y /\ j = x)
  OBVIOUS
<1>. QED BY <1>1 DEF Is

NoLoops(c) == \A v \in Nodes : c[v][v] = 0

\* What is added is within the two components, and between different nodes.
LEMMA JoinedLinks ==
  ASSUME NEW c \in Matrices, NEW d, NEW g \in SUBSET Nodes, NEW h \in SUBSET Nodes, g \cap h = {},
         Joined(c, d, g, h)
  PROVE  /\ \A i, j \in Nodes : d[i][j] > 0 => c[i][j] > 0 \/ (i \in g \cup h /\ j \in g \cup h)
         /\ NoLoops(c) => NoLoops(d)
<1>0. \A i, j \in Nodes : c[i][j] \in Int
  BY DEF Matrices, Rows
<1>. DEFINE Goal(i, j) == /\ d[i][j] > 0 => c[i][j] > 0 \/ (i \in g \cup h /\ j \in g \cup h)
                          /\ i = j => d[i][j] = c[i][j]
<1>1. ASSUME NEW v \in Nodes, NEW x \in Nodes, NEW y \in Nodes, v \in g \cup h, x \in g \cup h,
             y \in g \cup h, v # x, v # y, Subdivided(c, d, v, x, y), NEW i \in Nodes, NEW j \in Nodes
      PROVE  Goal(i, j)
  <2>1. /\ x # y /\ c[i][j] \in Int
        /\ d[i][j] = c[i][j] - Is(<<x, y>>, i, j) + Is(<<v, x>>, i, j) + Is(<<v, y>>, i, j)
    BY <1>0, <1>1 DEF Subdivided
  <2>. QED BY <1>1, <2>1, IsOf
<1>2. ASSUME NEW v \in Nodes, NEW w \in Nodes, g = {v}, h = {w}, Doubled(c, d, v, w),
             NEW i \in Nodes, NEW j \in Nodes
      PROVE  Goal(i, j)
  <2>1. v # w /\ c[i][j] \in Int /\ d[i][j] = c[i][j] + Is(<<v, w>>, i, j) + Is(<<v, w>>, i, j)
    BY <1>0, <1>2 DEF Doubled
  <2>. QED BY <1>2, <2>1, IsOf
<1>3. ASSUME NEW x \in g, NEW y \in g, NEW z \in h, NEW w \in h, Swapped(c, d, x, y, z, w),
             NEW i \in Nodes, NEW j \in Nodes
      PROVE  Goal(i, j)
  <2>1. /\ x # y /\ z # w /\ x # z /\ x # w /\ y # z /\ y # w /\ c[i][j] \in Int
        /\ d[i][j] = c[i][j] - (Is(<<x, y>>, i, j) + Is(<<z, w>>, i, j))
                      + Is(<<x, w>>, i, j) + Is(<<y, z>>, i, j)
    BY <1>0, <1>3 DEF Swapped
  <2>. QED BY <1>3, <2>1, IsOf
<1>. HIDE DEF Goal
<1>. SUFFICES \A i, j \in Nodes : Goal(i, j)
  BY DEF Goal, NoLoops
<1>4. CASE \E v, w \in Nodes : g = {v} /\ h = {w} /\ Doubled(c, d, v, w)
  BY <1>2, <1>4
<1>5. CASE \E v \in Nodes : g = {v} /\ \E x, y \in h : Subdivided(c, d, v, x, y)
  BY <1>1, <1>5
<1>6. CASE \E v \in Nodes : h = {v} /\ \E x, y \in g : Subdivided(c, d, v, x, y)
  BY <1>1, <1>6
<1>7. CASE \E x, y \in g, z, w \in h : Swapped(c, d, x, y, z, w)
  BY <1>3, <1>7
<1>. QED BY <1>4, <1>5, <1>6, <1>7 DEF Joined

LEMMA JoinedComponents ==
  ASSUME NEW c \in NatMatrices, NEW d, Symmetric(c), Symmetric(d),
         NEW g \in SUBSET Nodes, NEW h \in SUBSET Nodes, Closed(c, g), Closed(c, h), g \cap h = {},
         Joined(c, d, g, h)
  PROVE  /\ Cardinality(Firsts(d)) <= Cardinality(Firsts(c))
         /\ 1 \in {Cardinality(g), Cardinality(h)} => Cardinality(Firsts(d)) < Cardinality(Firsts(c))
<1>0. \A i, j \in Nodes : c[i][j] \in Nat
  BY DEF NatMatrices
<1>. DEFINE Fewer == Cardinality(Firsts(d)) < Cardinality(Firsts(c))
<1>1. Fewer => Cardinality(Firsts(d)) <= Cardinality(Firsts(c))
  BY FirstsAreFinite
<1>2. CASE \E v, w \in Nodes : g = {v} /\ h = {w} /\ Doubled(c, d, v, w)
  <2>1. PICK v \in Nodes, w \in Nodes : g = {v} /\ h = {w} /\ Doubled(c, d, v, w)
    BY <1>2
  <2>2. \A i, j \in Nodes : d[i][j] = c[i][j] + Is(<<v, w>>, i, j) + Is(<<v, w>>, i, j)
    BY <2>1 DEF Doubled
  <2>3. \A i, j \in Nodes : c[i][j] > 0 => d[i][j] > 0
    BY <1>0, <2>2, IsOf
  <2>4. d[v][w] > 0
    BY <1>0, <2>2, IsOf
  <2>5. Kept(c, d)
    BY <2>3 DEF Kept
  <2>6. v \in g /\ w \in h
    BY <2>1
  <2>7. Fewer
    BY <2>4, <2>5, <2>6, BridgeJoins
  <2>. HIDE DEF Fewer
  <2>. QED BY <1>1, <2>7 DEF Fewer
<1>3. ASSUME NEW k, NEW m, <<k, m>> \in {<<g, h>>, <<h, g>>}, NEW v \in Nodes, k = {v},
             NEW x \in m, NEW y \in m, Subdivided(c, d, v, x, y)
      PROVE  Fewer
  <2>1. /\ k \in SUBSET Nodes /\ m \in SUBSET Nodes /\ Closed(c, k) /\ Closed(c, m)
        /\ k \cap m = {} /\ v \in k
    BY <1>3
  <2>2. x \in Nodes /\ y \in Nodes /\ v # x /\ v # y /\ x # y
    BY <1>3, <2>1 DEF Subdivided
  <2>3. \A i, j \in Nodes :
          d[i][j] = c[i][j] - Is(<<x, y>>, i, j) + Is(<<v, x>>, i, j) + Is(<<v, y>>, i, j)
    BY <1>3 DEF Subdivided
  <2>4. d[v][x] > 0 /\ d[x][v] > 0 /\ d[v][y] > 0 /\ d[y][v] > 0
    BY <1>0, <2>2, <2>3, IsOf
  <2>5. \A i, j \in Nodes : c[i][j] > 0 =>
          d[i][j] > 0 \/ (i = x /\ j = y) \/ (i = y /\ j = x)
    BY <1>0, <2>3, IsOf
  <2>6. Kept(c, d)
    BY <2>4, <2>5 DEF Kept
  <2>. QED BY <2>1, <2>4, <2>6, BridgeJoins DEF Fewer
<1>4. CASE \E v \in Nodes : g = {v} /\ \E x, y \in h : Subdivided(c, d, v, x, y)
  <2>. HIDE DEF Fewer
  <2>1. Fewer
    BY <1>3, <1>4
  <2>. QED BY <1>1, <2>1 DEF Fewer
<1>5. CASE \E v \in Nodes : h = {v} /\ \E x, y \in g : Subdivided(c, d, v, x, y)
  <2>. HIDE DEF Fewer
  <2>1. Fewer
    BY <1>3, <1>5
  <2>. QED BY <1>1, <2>1 DEF Fewer
<1>6. CASE /\ Cardinality(g) # 1 /\ Cardinality(h) # 1
           /\ \E x, y \in g, z, w \in h : Swapped(c, d, x, y, z, w)
  <2>1. PICK x \in g, y \in g, z \in h, w \in h : Swapped(c, d, x, y, z, w)
    BY <1>6
  <2>2. /\ x # y /\ z # w /\ x # z /\ x # w /\ y # z /\ y # w
        /\ x \in Nodes /\ y \in Nodes /\ z \in Nodes /\ w \in Nodes
        /\ c[x][y] > 0 /\ c[z][w] > 0
        /\ \A i, j \in Nodes :
             d[i][j] = c[i][j] - (Is(<<x, y>>, i, j) + Is(<<z, w>>, i, j))
                         + Is(<<x, w>>, i, j) + Is(<<y, z>>, i, j)
    BY <2>1 DEF Swapped
  <2>3. d[x][w] > 0 /\ d[y][z] > 0
    BY <1>0, <2>2, IsOf
  <2>4. ASSUME NEW i \in Nodes, NEW j \in Nodes
        PROVE  /\ c[i][j] > 0 => d[i][j] > 0 \/ {i, j} = {x, y} \/ {i, j} = {z, w}
               /\ d[i][j] > 0 => c[i][j] > 0 \/ {i, j} = {x, w} \/ {i, j} = {y, z}
    <3>1. /\ c[i][j] \in Nat
          /\ d[i][j] = c[i][j] - (Is(<<x, y>>, i, j) + Is(<<z, w>>, i, j))
                         + Is(<<x, w>>, i, j) + Is(<<y, z>>, i, j)
      BY <1>0, <2>2
    <3>2. \A a, b : /\ Is(<<a, b>>, i, j) \in {0, 1}
                    /\ Is(<<a, b>>, i, j) = 1 => {i, j} = {a, b}
      BY DEF Is
    <3>3. /\ Is(<<x, y>>, i, j) \in {0, 1} /\ Is(<<z, w>>, i, j) \in {0, 1}
          /\ Is(<<x, w>>, i, j) \in {0, 1} /\ Is(<<y, z>>, i, j) \in {0, 1}
      BY <3>2
    <3>4. c[i][j] > 0 => d[i][j] > 0 \/ Is(<<x, y>>, i, j) = 1 \/ Is(<<z, w>>, i, j) = 1
      BY <3>1, <3>3
    <3>5. d[i][j] > 0 => c[i][j] > 0 \/ Is(<<x, w>>, i, j) = 1 \/ Is(<<y, z>>, i, j) = 1
      BY <3>1, <3>3
    <3>. QED BY <3>2, <3>4, <3>5
  <2>5. Crossed(c, d, x, y, z, w)
    BY <2>2, <2>3, <2>4 DEF Crossed
  <2>6. Cardinality(Firsts(d)) <= Cardinality(Firsts(c))
    BY <2>5, CrossingJoins
  <2>. QED BY <1>6, <2>6
<1>. QED BY <1>2, <1>4, <1>5, <1>6 DEF Joined

LEMMA EntriesOfMatrices ==
  ASSUME NEW c \in Matrices, NEW d \in Matrices, \A i, j \in Nodes : c[i][j] = d[i][j]
  PROVE  c = d
<1>1. ASSUME NEW i \in Nodes PROVE c[i] = d[i]
  <2>1. c[i] \in [Nodes -> Int] /\ d[i] \in [Nodes -> Int]
    BY DEF Matrices, Rows
  <2>. QED BY <2>1
<1>. QED BY <1>1 DEF Matrices

\* How many of the ends of a link are at u.
AtEnd(x, y, u) == IF u \in {x, y} THEN 1 ELSE 0

LEMMA LinkAdds ==
  ASSUME NEW c \in Matrices, Symmetric(c), NEW d \in Matrices,
         NEW x \in Nodes, NEW y \in Nodes, x # y,
         \A i, j \in Nodes : d[i][j] = c[i][j] + Is(<<x, y>>, i, j)
  PROVE  /\ Symmetric(d)
         /\ \A u \in Nodes : get_if_in_use(d, u) = get_if_in_use(c, u) + AtEnd(x, y, u)
<1>. DEFINE e == Linked(c, x, y)
<1>1. /\ e \in Matrices /\ Symmetric(e)
      /\ \A i, j \in Nodes : e[i][j] = c[i][j] + (IF {i, j} = {x, y} THEN 1 ELSE 0)
      /\ \A u \in Nodes : get_if_in_use(e, u)
                            = get_if_in_use(c, u) + (IF u \in {x, y} THEN 1 ELSE 0)
  BY LinkCounts
<1>. HIDE DEF e
<1>2. \A i, j \in Nodes : Is(<<x, y>>, i, j) = IF {i, j} = {x, y} THEN 1 ELSE 0
  BY DEF Is
<1>3. \A i, j \in Nodes : d[i][j] = e[i][j]
  BY <1>1, <1>2
<1>4. d = e
  BY <1>1, <1>3, EntriesOfMatrices
<1>. QED BY <1>1, <1>4 DEF AtEnd

\* A matrix plus or minus the links x, y.
With(c, k, x, y) == [i \in Nodes |-> [j \in Nodes |-> c[i][j] + k * Is(<<x, y>>, i, j)]]

LEMMA WithIsMatrix ==
  ASSUME NEW c \in Matrices, Symmetric(c), NEW k \in {1, -1}, NEW x, NEW y
  PROVE  /\ With(c, k, x, y) \in Matrices /\ Symmetric(With(c, k, x, y))
         /\ \A i, j \in Nodes : With(c, k, x, y)[i][j]
              = IF k = 1 THEN c[i][j] + Is(<<x, y>>, i, j) ELSE c[i][j] - Is(<<x, y>>, i, j)
<1>. DEFINE d == With(c, k, x, y)
<1>1. \A i, j \in Nodes : d[i][j] = c[i][j] + k * Is(<<x, y>>, i, j)
  BY DEF With
<1>2. \A i, j \in Nodes : /\ c[i][j] \in Int /\ Is(<<x, y>>, i, j) \in Int
                          /\ Is(<<x, y>>, i, j) = Is(<<x, y>>, j, i) /\ c[i][j] = c[j][i]
  <2>. TAKE i, j \in Nodes
  <2>1. Is(<<x, y>>, i, j) = Is(<<x, y>>, j, i)
    <3>1. {i, j} = {j, i}
      OBVIOUS
    <3>. QED BY <3>1 DEF Is
  <2>2. c[i][j] \in Int /\ c[i][j] = c[j][i]
    BY DEF Matrices, Rows, Symmetric
  <2>. QED BY <2>1, <2>2 DEF Is
<1>3. d = [i \in Nodes |-> [j \in Nodes |-> d[i][j]]]
  BY DEF With
<1>. HIDE DEF d
<1>4. \A i, j \in Nodes : /\ d[i][j] \in Int /\ d[i][j] = d[j][i]
                          /\ d[i][j] = IF k = 1 THEN c[i][j] + Is(<<x, y>>, i, j)
                                                ELSE c[i][j] - Is(<<x, y>>, i, j)
  <2>. TAKE i, j \in Nodes
  <2>1. CASE k = 1
    BY <1>1, <1>2, <2>1
  <2>2. CASE k = -1
    BY <1>1, <1>2, <2>2
  <2>. QED BY <2>1, <2>2
<1>5. d \in Matrices
  BY <1>3, <1>4 DEF Matrices, Rows
<1>. QED BY <1>4, <1>5 DEF d, Symmetric

LEMMA DoubledDegrees ==
  ASSUME NEW c \in Matrices, Symmetric(c), NEW d \in Matrices,
         NEW v \in Nodes, NEW w \in Nodes, v # w, Doubled(c, d, v, w)
  PROVE  \A u \in Nodes : get_if_in_use(d, u) = get_if_in_use(c, u) + (IF u \in {v, w} THEN 2 ELSE 0)
<1>. DEFINE e == With(c, 1, v, w)
<1>1. /\ e \in Matrices /\ Symmetric(e)
      /\ \A i, j \in Nodes : e[i][j] = c[i][j] + Is(<<v, w>>, i, j)
  BY WithIsMatrix
<1>. HIDE DEF e
<1>2. \A i, j \in Nodes : d[i][j] = e[i][j] + Is(<<v, w>>, i, j)
  BY <1>1 DEF Doubled
<1>3. \A u \in Nodes : get_if_in_use(e, u) = get_if_in_use(c, u) + AtEnd(v, w, u)
  BY <1>1, LinkAdds
<1>4. \A u \in Nodes : get_if_in_use(d, u) = get_if_in_use(e, u) + AtEnd(v, w, u)
  BY <1>1, <1>2, LinkAdds
<1>5. \A u \in Nodes : get_if_in_use(c, u) \in Int
  BY DegreeIsInt DEF Matrices
<1>. QED BY <1>3, <1>4, <1>5 DEF AtEnd

LEMMA SubdividedDegrees ==
  ASSUME NEW c \in Matrices, Symmetric(c), NEW d \in Matrices,
         NEW v \in Nodes, NEW x \in Nodes, NEW y \in Nodes, v # x, v # y, Subdivided(c, d, v, x, y)
  PROVE  \A u \in Nodes : get_if_in_use(d, u) = get_if_in_use(c, u) + (IF u = v THEN 2 ELSE 0)
<1>. DEFINE m == With(c, -1, x, y)
            e == With(m, 1, v, x)
<1>1. /\ m \in Matrices /\ Symmetric(m)
      /\ \A i, j \in Nodes : m[i][j] = c[i][j] - Is(<<x, y>>, i, j)
  BY WithIsMatrix
<1>. HIDE DEF m
<1>2. /\ e \in Matrices /\ Symmetric(e)
      /\ \A i, j \in Nodes : e[i][j] = m[i][j] + Is(<<v, x>>, i, j)
  <2>. DEFINE k == 1
  <2>1. k \in {1, -1} /\ k = 1
    OBVIOUS
  <2>. HIDE DEF k
  <2>2. /\ With(m, k, v, x) \in Matrices /\ Symmetric(With(m, k, v, x))
        /\ \A i, j \in Nodes : With(m, k, v, x)[i][j] = m[i][j] + Is(<<v, x>>, i, j)
    <3>1. m \in Matrices /\ Symmetric(m)
      BY <1>1
    <3>2. With(m, k, v, x) \in Matrices /\ Symmetric(With(m, k, v, x))
      BY <2>1, <3>1, WithIsMatrix
    <3>3. \A i, j \in Nodes : With(m, k, v, x)[i][j] = m[i][j] + Is(<<v, x>>, i, j)
      BY <2>1, <3>1, WithIsMatrix
    <3>. QED BY <3>2, <3>3
  <2>. QED BY <2>1, <2>2
<1>. HIDE DEF e
<1>3. /\ \A i, j \in Nodes : c[i][j] = m[i][j] + Is(<<x, y>>, i, j)
      /\ \A i, j \in Nodes : d[i][j] = e[i][j] + Is(<<v, y>>, i, j)
      /\ x # y
  <2>1. \A i, j \in Nodes : c[i][j] \in Int /\ Is(<<x, y>>, i, j) \in Int
    BY DEF Matrices, Rows, Is
  <2>2. \A i, j \in Nodes : c[i][j] = m[i][j] + Is(<<x, y>>, i, j)
    BY <1>1, <2>1
  <2>3. x # y /\ \A i, j \in Nodes :
          d[i][j] = c[i][j] - Is(<<x, y>>, i, j) + Is(<<v, x>>, i, j) + Is(<<v, y>>, i, j)
    BY DEF Subdivided
  <2>4. \A i, j \in Nodes : d[i][j] = e[i][j] + Is(<<v, y>>, i, j)
    BY <1>1, <1>2, <2>3
  <2>. QED BY <2>2, <2>3, <2>4
<1>4. \A u \in Nodes : get_if_in_use(c, u) = get_if_in_use(m, u) + AtEnd(x, y, u)
  BY <1>1, <1>3, LinkAdds
<1>5. \A u \in Nodes : get_if_in_use(e, u) = get_if_in_use(m, u) + AtEnd(v, x, u)
  BY <1>1, <1>2, LinkAdds
<1>6. \A u \in Nodes : get_if_in_use(d, u) = get_if_in_use(e, u) + AtEnd(v, y, u)
  BY <1>2, <1>3, LinkAdds
<1>7. \A u \in Nodes : get_if_in_use(m, u) \in Int
  BY <1>1, DegreeIsInt DEF Matrices
<1>. QED BY <1>3, <1>4, <1>5, <1>6, <1>7 DEF AtEnd

LEMMA AloneHasNoLinks ==
  ASSUME LinksFit, LinksAreNat, NoLoops(conn), NEW v \in Nodes, Closed(conn, {v})
  PROVE  Deg(v) = 0
<1>1. \A j \in Nodes : conn[v][j] = 0
  <2>. TAKE j \in Nodes
  <2>1. CASE j = v
    BY <2>1 DEF NoLoops
  <2>2. CASE j # v
    <3>1. j \notin Near(conn, v)
      BY <2>2 DEF Closed
    <3>2. ~(conn[v][j] > 0) /\ conn[v][j] \in Nat
      BY <3>1 DEF Near, LinksAreNat
    <3>. QED BY <3>2
  <2>. QED BY <2>1, <2>2
<1>2. conn[v] \in [Nodes -> Int]
  BY DEF LinksFit, Matrices, Rows
<1>3. conn[v] = [j \in Nodes |-> 0]
  BY <1>1, <1>2
<1>. QED BY <1>3, NoLinks DEF Deg

\* A single node has two interfaces for its links, so that add_link does not fail.
LEMMA SingleNodeFits ==
  ASSUME LinksFit, LinksAreNat, NoLoops(conn), NEW d \in Matrices,
         NEW g \in SUBSET Nodes, NEW h \in SUBSET Nodes, g \cap h = {},
         Closed(conn, g), Closed(conn, h), Joined(conn, d, g, h), 1 \in {Cardinality(g), Cardinality(h)}
  PROVE  \A u \in Nodes : get_if_in_use(d, u) <= IfCnt
<1>1. /\ conn \in Matrices /\ Symmetric(conn) /\ IfCnt \in Nat /\ IfCnt > 1
      /\ \A u \in Nodes : Deg(u) \in Int /\ Deg(u) <= IfCnt
  <2>1. conn \in Matrices /\ Symmetric(conn) /\ \A u \in Nodes : Deg(u) <= IfCnt
    BY DEF LinksFit
  <2>. QED BY <2>1, NodeNumbers, DegreeIsInt DEF Matrices, Deg
<1>2. CASE \E v, w \in Nodes : g = {v} /\ h = {w} /\ Doubled(conn, d, v, w)
  <2>1. PICK v \in Nodes, w \in Nodes : g = {v} /\ h = {w} /\ Doubled(conn, d, v, w)
    BY <1>2
  <2>2. v # w /\ Deg(v) = 0 /\ Deg(w) = 0
    BY <2>1, AloneHasNoLinks
  <2>3. \A u \in Nodes : get_if_in_use(d, u) = Deg(u) + (IF u \in {v, w} THEN 2 ELSE 0)
    BY <1>1, <2>1, <2>2, DoubledDegrees DEF Deg
  <2>. QED BY <1>1, <2>2, <2>3
<1>3. ASSUME NEW v \in Nodes, Closed(conn, {v}), NEW x \in Nodes, NEW y \in Nodes, v # x, v # y,
             Subdivided(conn, d, v, x, y)
      PROVE  \A u \in Nodes : get_if_in_use(d, u) <= IfCnt
  <2>1. \A u \in Nodes : get_if_in_use(d, u) = Deg(u) + (IF u = v THEN 2 ELSE 0)
    BY <1>1, <1>3, SubdividedDegrees DEF Deg
  <2>2. Deg(v) = 0
    BY <1>3, AloneHasNoLinks
  <2>. QED BY <1>1, <2>1, <2>2
<1>4. CASE \E v \in Nodes : g = {v} /\ \E x, y \in h : Subdivided(conn, d, v, x, y)
  BY <1>3, <1>4
<1>5. CASE \E v \in Nodes : h = {v} /\ \E x, y \in g : Subdivided(conn, d, v, x, y)
  BY <1>3, <1>5
<1>. QED BY <1>2, <1>4, <1>5 DEF Joined

-----------------------------------------------------------------------------
(* Joining never makes components more.                                    *)

\* What is to be joined is not linked with the rest.
Apart == phase = "connect" => \A k \in 1..Len(ccs) : Closed(conn, ccs[k])

NotYet == phase \in {"demand", "chain", "fill"} => ccs = <<>>

CInv == JInv /\ NoLoops(conn) /\ Apart /\ NotYet

\* The two components that are joined, and how.
LEMMA JoinStep ==
  ASSUME CInv, Join
  PROVE  LET g == ccs[1]
             h == ccs[2]
         IN  /\ phase = "connect" /\ ccs \in Seq(SUBSET Nodes) /\ Len(ccs) > 1
             /\ ccs' = <<g \cup h>> \o SubSeq(ccs, 3, Len(ccs))
             /\ g \in SUBSET Nodes /\ h \in SUBSET Nodes /\ g # {} /\ h # {} /\ g \cap h = {}
             /\ Closed(conn, g) /\ Closed(conn, h)
             /\ \E d \in Matrices : /\ Symmetric(d) /\ Joined(conn, d, g, h)
                                    /\ IF \A v \in Nodes : get_if_in_use(d, v) <= IfCnt
                                       THEN conn' = d /\ phase' = "connect"
                                       ELSE conn' = conn /\ phase' = "assert failed"
<1>. DEFINE g == ccs[1]
            h == ccs[2]
<1>1. PICK change \in Changes(g, h) :
        LET c == Rewired(change)
        IN  IF \A v \in Nodes : get_if_in_use(c, v) <= IfCnt
            THEN conn' = c /\ UNCHANGED phase
            ELSE phase' = "assert failed" /\ UNCHANGED conn
  BY DEF Join
<1>2. /\ phase = "connect" /\ Len(ccs) > 1
      /\ ccs' = <<g \cup h>> \o SubSeq(ccs, 3, Len(ccs))
  BY DEF Join
<1>3. /\ ccs \in Seq(SUBSET Nodes) /\ Len(ccs) \in Nat /\ 1 \in 1..Len(ccs) /\ 2 \in 1..Len(ccs)
      /\ LinksFit
  BY <1>2 DEF CInv, JInv, DInv, Joining, Disjoint
<1>4. /\ g \in SUBSET Nodes /\ h \in SUBSET Nodes /\ g # {} /\ h # {} /\ g \cap h = {}
      /\ Closed(conn, g) /\ Closed(conn, h)
      /\ Cardinality(g) > 1 => LinksIn(g) # {}
      /\ Cardinality(h) > 1 => LinksIn(h) # {}
  BY <1>2, <1>3 DEF CInv, JInv, Joining, Disjoint, Apart
<1>. DEFINE d == Rewired(change)
<1>. HIDE DEF g, h
<1>5. Joined(conn, d, g, h)
  BY <1>3, <1>4, ChangesJoin DEF LinksFit
<1>6. d \in Matrices /\ Symmetric(d)
  <2>1. \A i, j \in Nodes : d[i][j] = conn[i][j] - Times(change.removed, i, j) + Times(change.added, i, j)
    BY DEF Rewired
  <2>2. d = [i \in Nodes |-> [j \in Nodes |-> d[i][j]]]
    BY DEF Rewired
  <2>. HIDE DEF d
  <2>3. \A i, j \in Nodes : d[i][j] \in Int /\ d[i][j] = d[j][i]
    <3>. TAKE i, j \in Nodes
    <3>1. conn[i][j] \in Int /\ conn[i][j] = conn[j][i]
      BY <1>3 DEF LinksFit, Matrices, Rows, Symmetric
    <3>2. Times(change.removed, i, j) \in Int /\ Times(change.added, i, j) \in Int
      BY TimesIsInt
    <3>3. \A links : Times(links, i, j) = Times(links, j, i)
      <4>1. {i, j} = {j, i}
        OBVIOUS
      <4>. QED BY <4>1 DEF Times
    <3>. QED BY <2>1, <3>1, <3>2, <3>3
  <2>. QED BY <2>2, <2>3 DEF Matrices, Rows, Symmetric
<1>7. IF \A v \in Nodes : get_if_in_use(d, v) <= IfCnt
      THEN conn' = d /\ phase' = "connect"
      ELSE conn' = conn /\ phase' = "assert failed"
  <2>1. CASE \A v \in Nodes : get_if_in_use(d, v) <= IfCnt
    BY <1>1, <1>2, <2>1
  <2>2. CASE ~(\A v \in Nodes : get_if_in_use(d, v) <= IfCnt)
    BY <1>1, <2>2
  <2>. HIDE DEF d
  <2>. QED BY <2>1, <2>2
<1>. HIDE DEF d
<1>. QED BY <1>2, <1>3, <1>4, <1>5, <1>6, <1>7 DEF g, h

LEMMA JoinFewer ==
  ASSUME CInv, Join
  PROVE  /\ Cardinality(Firsts(conn')) <= Cardinality(Firsts(conn))
         /\ 1 \in {Cardinality(ccs[1]), Cardinality(ccs[2])} =>
              Cardinality(Firsts(conn')) < Cardinality(Firsts(conn))
<1>. DEFINE g == ccs[1]
            h == ccs[2]
            single == 1 \in {Cardinality(g), Cardinality(h)}
<1>1. /\ g \in SUBSET Nodes /\ h \in SUBSET Nodes /\ g \cap h = {}
      /\ Closed(conn, g) /\ Closed(conn, h)
  BY JoinStep
<1>2. PICK d \in Matrices : /\ Symmetric(d) /\ Joined(conn, d, g, h)
                            /\ IF \A v \in Nodes : get_if_in_use(d, v) <= IfCnt
                               THEN conn' = d /\ phase' = "connect"
                               ELSE conn' = conn /\ phase' = "assert failed"
  BY JoinStep
<1>3. LinksFit /\ LinksAreNat /\ NoLoops(conn) /\ Symmetric(conn) /\ conn \in NatMatrices
  BY DEF CInv, JInv, DInv, LinksFit, LinksAreNat, Matrices, Rows, NatMatrices
<1>. HIDE DEF g, h
<1>4. /\ Cardinality(Firsts(d)) <= Cardinality(Firsts(conn))
      /\ single => Cardinality(Firsts(d)) < Cardinality(Firsts(conn))
  BY <1>1, <1>2, <1>3, JoinedComponents
<1>5. single => \A v \in Nodes : get_if_in_use(d, v) <= IfCnt
  BY <1>1, <1>2, <1>3, SingleNodeFits
<1>6. Cardinality(Firsts(conn)) \in Nat
  BY FirstsAreFinite
<1>7. CASE \A v \in Nodes : get_if_in_use(d, v) <= IfCnt
  BY <1>2, <1>4, <1>7 DEF g, h
<1>8. CASE ~(\A v \in Nodes : get_if_in_use(d, v) <= IfCnt)
  <2>1. conn' = conn /\ ~single
    BY <1>2, <1>5, <1>8
  <2>. QED BY <1>6, <2>1 DEF g, h
<1>. QED BY <1>7, <1>8

LEMMA JoinKeepsApart == CInv /\ Join => NoLoops(conn)' /\ Apart' /\ NotYet'
<1>. SUFFICES ASSUME CInv, Join PROVE NoLoops(conn)' /\ Apart' /\ NotYet'
  OBVIOUS
<1>. DEFINE g == ccs[1]
            h == ccs[2]
            others == SubSeq(ccs, 3, Len(ccs))
<1>1. /\ phase = "connect" /\ ccs \in Seq(SUBSET Nodes) /\ Len(ccs) > 1 /\ ccs' = <<g \cup h>> \o others
      /\ g \in SUBSET Nodes /\ h \in SUBSET Nodes /\ g \cap h = {}
      /\ Closed(conn, g) /\ Closed(conn, h)
  BY JoinStep
<1>2. PICK d \in Matrices : /\ Symmetric(d) /\ Joined(conn, d, g, h)
                            /\ IF \A v \in Nodes : get_if_in_use(d, v) <= IfCnt
                               THEN conn' = d /\ phase' = "connect"
                               ELSE conn' = conn /\ phase' = "assert failed"
  BY JoinStep
<1>3. /\ conn \in Matrices /\ NoLoops(conn) /\ Disjoint(ccs) /\ Len(ccs) \in Nat
      /\ \A k \in 1..Len(ccs) : Closed(conn, ccs[k])
  BY <1>1 DEF CInv, JInv, DInv, LinksFit, Joining, Apart
<1>4. NotYet'
  BY <1>2 DEF NotYet
<1>5. CASE ~(\A v \in Nodes : get_if_in_use(d, v) <= IfCnt)
  BY <1>2, <1>3, <1>4, <1>5 DEF NoLoops, Apart
<1>6. CASE \A v \in Nodes : get_if_in_use(d, v) <= IfCnt
  <2>. DEFINE U == g \cup h
  <2>1. conn' = d
    BY <1>2, <1>6
  <2>2. ASSUME NEW k \in 1..Len(ccs')
        PROVE  ccs'[k] = U \/ (ccs'[k] \in SUBSET Nodes /\ ccs'[k] \cap U = {} /\ Closed(conn, ccs'[k]))
    <3>1. /\ Len(ccs') = Len(ccs) - 1 /\ ccs'[1] = U
          /\ \A m \in 2..Len(ccs') : ccs'[m] = ccs[m + 1]
      <4>1. U \in SUBSET Nodes
        BY <1>1
      <4>. HIDE DEF U
      <4>2. ccs' = <<U>> \o SubSeq(ccs, 3, Len(ccs))
        BY <1>1 DEF U
      <4>. QED BY <1>1, <4>1, <4>2, FirstTwoReplaced
    <3>2. CASE k = 1
      BY <3>1, <3>2
    <3>3. CASE k # 1
      <4>. DEFINE m == k + 1
      <4>1. ccs'[k] = ccs[m] /\ m \in 3..Len(ccs)
        BY <1>3, <3>1, <3>3
      <4>. HIDE DEF m
      <4>2. m \in 1..Len(ccs) /\ m # 1 /\ m # 2 /\ 1 \in 1..Len(ccs) /\ 2 \in 1..Len(ccs)
        BY <1>1, <1>3, <4>1
      <4>3. ccs[m] \in SUBSET Nodes /\ ccs[m] \cap g = {} /\ ccs[m] \cap h = {} /\ Closed(conn, ccs[m])
        BY <1>1, <1>3, <4>2 DEF Disjoint
      <4>. QED BY <4>1, <4>3
    <3>. QED BY <3>2, <3>3
  <2>3. (\A i, j \in Nodes : d[i][j] > 0 => conn[i][j] > 0 \/ (i \in U /\ j \in U)) /\ NoLoops(d)
    <3>. HIDE DEF g, h
    <3>1. conn \in Matrices /\ Joined(conn, d, g, h) /\ NoLoops(conn)
      BY <1>2, <1>3
    <3>2. g \in SUBSET Nodes /\ h \in SUBSET Nodes /\ g \cap h = {}
      BY <1>1
    <3>. QED BY <3>1, <3>2, JoinedLinks
  <2>4. Closed(conn, U) /\ U \in SUBSET Nodes
    BY <1>1 DEF Closed
  <2>. HIDE DEF U
  <2>5. ASSUME NEW k \in 1..Len(ccs') PROVE Closed(d, ccs'[k])
    <3>. DEFINE G == ccs'[k]
    <3>1. (G = U \/ G \cap U = {}) /\ G \in SUBSET Nodes /\ Closed(conn, G)
      BY <2>2, <2>4
    <3>. HIDE DEF G
    <3>2. ASSUME NEW u \in G, NEW w \in Near(d, u) PROVE w \in G
      <4>1. u \in Nodes /\ (w = u \/ (w \in Nodes /\ d[u][w] > 0))
        BY <3>1 DEF Near
      <4>2. CASE w \in Nodes /\ conn[u][w] > 0
        BY <3>1, <4>2 DEF Closed, Near
      <4>. QED BY <2>3, <3>1, <4>1, <4>2
    <3>3. Closed(d, G)
      BY <3>2 DEF Closed
    <3>. QED BY <3>3 DEF G
  <2>6. NoLoops(conn)'
    BY <2>1, <2>3
  <2>7. Apart'
    BY <2>1, <2>5 DEF Apart
  <2>. QED BY <1>4, <2>6, <2>7
<1>. QED BY <1>5, <1>6

LEMMA ToConnectApart ==
  ASSUME CInv, ToConnect
  PROVE  NoLoops(conn)' /\ Apart' /\ NotYet'
<1>1. ccs' = Components(conn) /\ conn' = conn /\ phase' = "connect"
  BY DEF ToConnect
<1>. DEFINE first == InOrder(Firsts(conn))
            s == [i \in 1..Len(first) |-> Reach(conn, first[i])]
<1>2. Components(conn) = s
  BY DEF Components, Firsts
<1>3. Lists(first, Firsts(conn)) /\ Firsts(conn) \subseteq Nodes
  BY InOrderLists DEF Firsts
<1>. HIDE DEF first
<1>4. Len(first) \in Nat /\ \A k \in 1..Len(first) : first[k] \in Nodes
  BY <1>3 DEF Lists
<1>5. Len(s) = Len(first) /\ \A k \in 1..Len(first) : s[k] = Reach(conn, first[k])
  BY <1>4
<1>. HIDE DEF s
<1>6. \A k \in 1..Len(s) : Closed(conn, s[k])
  BY <1>4, <1>5, ReachIsClosed
<1>. QED BY <1>1, <1>2, <1>6 DEF CInv, NoLoops, Apart, NotYet

\* Whatever adds a link outside of connect_cc adds it between different nodes.
LEMMA LinkedNodesDiffer ==
  ASSUME DInv, ServeDemand \/ Chain \/ Fill
  PROVE  \E i, j \in Nodes : i # j /\ conn' = Linked(conn, i, j)
<1>1. CASE ServeDemand
  <2>. DEFINE target == Largest(pq)
              i == target[2] \div NNode
              j == target[2] % NNode
  <2>1. /\ phase = "demand" /\ pq # {} /\ conn' = Linked(conn, i, j)
        /\ \A t \in pq : MayBeServed(t)
    BY <1>1 DEF DInv, Serving, ServeDemand
  <2>2. PICK b \in Nat : \A t \in pq : t[1] <= b
    BY DEF DInv, Serving
  <2>3. target \in pq
    <3>1. NNode * NNode \in Nat
      BY NodeNumbers
    <3>2. \A t \in pq : t \in Nat \X Nat /\ t[1] <= b /\ t[2] <= NNode * NNode
      BY <2>1, <2>2, <3>1 DEF MayBeServed, IsEdge
    <3>. QED BY <2>1, <2>2, <3>1, <3>2, LargestIsMember
  <2>4. i \in Nodes /\ j \in Nodes /\ i # j
    BY <2>1, <2>3 DEF MayBeServed, IsEdge
  <2>. QED BY <2>1, <2>4
<1>2. CASE Chain
  <2>1. PICK next \in chain.nodes \ chain.visited : phase = "chain" /\ conn' = Linked(conn, next, chain.curr)
    BY <1>2 DEF Chain
  <2>2. /\ chain \in [nodes : SUBSET Nodes, visited : SUBSET Nodes, curr : Nodes]
        /\ chain.curr \in chain.visited
    BY <2>1 DEF DInv, Chaining
  <2>3. next \in Nodes /\ chain.curr \in Nodes /\ next # chain.curr
    BY <2>2
  <2>. QED BY <2>1, <2>3
<1>3. CASE Fill
  <2>1. PICK a \in 1..Len(avail), b \in 1..Len(avail) :
          a # b /\ phase = "fill" /\ conn' = Linked(conn, avail[a][1], avail[b][1])
    BY <1>3 DEF Fill
  <2>2. Free(avail, Left)
    BY <2>1 DEF DInv, Filling
  <2>3. avail \in Seq(Entries) /\ avail[a][1] # avail[b][1]
    BY <2>1, <2>2 DEF Free, Entries
  <2>4. avail[a] \in Entries /\ avail[b] \in Entries
    BY <2>3
  <2>5. avail[a][1] \in Nodes /\ avail[b][1] \in Nodes
    BY <2>4 DEF Entries
  <2>. QED BY <2>1, <2>3, <2>5
<1>. QED BY <1>1, <1>2, <1>3

LEMMA ApartInit == Init => CInv
<1>. SUFFICES ASSUME Init PROVE NoLoops(conn) /\ Apart /\ NotYet
  BY JoiningInit DEF CInv
<1>. QED BY DEF Init, NoLoops, Apart, NotYet

LEMMA ApartNext == CInv /\ [Next]_vars => CInv'
<1>. SUFFICES ASSUME CInv, [Next]_vars PROVE NoLoops(conn)' /\ Apart' /\ NotYet'
  BY JoiningNext DEF CInv
<1>1. CASE ServeDemand \/ Chain \/ Fill
  <2>1. PICK i \in Nodes, j \in Nodes : i # j /\ conn' = Linked(conn, i, j)
    BY <1>1, LinkedNodesDiffer DEF CInv, JInv
  <2>2. conn \in Matrices /\ Symmetric(conn)
    BY DEF CInv, JInv, DInv, LinksFit
  <2>3. \A v \in Nodes : conn'[v][v] = conn[v][v]
    <3>1. \A v, w \in Nodes : Linked(conn, i, j)[v][w] = conn[v][w] + (IF {v, w} = {i, j} THEN 1 ELSE 0)
      BY <2>1, <2>2, LinkCounts
    <3>2. ASSUME NEW v \in Nodes PROVE conn'[v][v] = conn[v][v]
      <4>1. {v, v} # {i, j}
        BY <2>1
      <4>2. conn[v][v] \in Int
        BY <2>2 DEF Matrices, Rows
      <4>. QED BY <2>1, <3>1, <4>1, <4>2
    <3>. QED BY <3>2
  <2>4. UNCHANGED <<phase, ccs>> /\ phase \in {"demand", "chain", "fill"}
    BY <1>1 DEF ServeDemand, Chain, Fill
  <2>. QED BY <2>3, <2>4 DEF CInv, NoLoops, Apart, NotYet
<1>2. CASE ToConnect
  BY <1>2, ToConnectApart
<1>3. CASE Join
  BY <1>3, JoinKeepsApart
<1>4. CASE /\ UNCHANGED <<conn, ccs>> /\ phase' # "connect"
           /\ phase' \in {"demand", "chain", "fill"} => phase \in {"demand", "chain", "fill"}
  BY <1>4 DEF CInv, NoLoops, Apart, NotYet
<1>5. CASE UNCHANGED <<phase, conn, ccs>>
  BY <1>5 DEF CInv, NoLoops, Apart, NotYet
<1>6. DemandServed \/ FillEnds =>
        \/ ToConnect
        \/ /\ UNCHANGED <<conn, ccs>> /\ phase' # "connect"
           /\ phase' \in {"demand", "chain", "fill"} => phase \in {"demand", "chain", "fill"}
  BY DEF DemandServed, FillEnds
<1>7. Chained \/ StartSearch \/ SearchEnds =>
        /\ UNCHANGED <<conn, ccs>> /\ phase' # "connect"
        /\ phase' \in {"demand", "chain", "fill"} => phase \in {"demand", "chain", "fill"}
  BY DEF Chained, StartSearch, SearchEnds
<1>8. Expand \/ UNCHANGED vars => UNCHANGED <<phase, conn, ccs>>
  BY DEF Expand, vars
<1>. QED BY <1>1, <1>2, <1>3, <1>4, <1>5, <1>6, <1>7, <1>8 DEF Next

\* Whenever two components are joined, by links that are added and removed, there
\* are not more components than before, and fewer if one of them is a single
\* node: removing links to make room never cuts more off than is joined.
THEOREM JoiningNeverSplits == Spec => JoiningJoins
<1>. DEFINE Fact == Len(ccs) > 1 =>
                      LET before == Len(Components(conn))
                          after == Len(Components(conn'))
                      IN  /\ after <= before
                          /\ 1 \in {Cardinality(ccs[1]), Cardinality(ccs[2])} => after < before
<1>1. CInv /\ [Next]_vars => [Fact]_ccs
  <2>. SUFFICES ASSUME CInv, [Next]_vars, ccs' # ccs, Len(ccs) > 1
                PROVE  LET before == Len(Components(conn))
                           after == Len(Components(conn'))
                       IN  /\ after <= before
                           /\ 1 \in {Cardinality(ccs[1]), Cardinality(ccs[2])} => after < before
    OBVIOUS
  <2>1. Join
    <3>1. phase \notin {"demand", "chain", "fill"}
      <4>1. Len(<<>>) = 0
        OBVIOUS
      <4>. QED BY <4>1 DEF CInv, NotYet
    <3>2. ~DemandServed /\ ~FillEnds
      BY <3>1 DEF DemandServed, FillEnds
    <3>3. ~(ServeDemand \/ Chain \/ Chained \/ Fill \/ StartSearch \/ Expand \/ SearchEnds \/ UNCHANGED vars)
      BY DEF ServeDemand, Chain, Chained, Fill, StartSearch, Expand, SearchEnds, vars
    <3>. QED BY <3>2, <3>3 DEF Next
  <2>2. /\ Len(Components(conn)) = Cardinality(Firsts(conn))
        /\ Len(Components(conn')) = Cardinality(Firsts(conn'))
    BY ComponentsAreCounted
  <2>. QED BY <2>1, <2>2, JoinFewer
<1>. QED BY <1>1, ApartInit, ApartNext, PTL DEF Spec, JoiningJoins
=============================================================================
