----------------------- MODULE LosslessNetwork_proofs -----------------------
(***************************************************************************)
(* Proofs about queues that pause their neighbours (LOSSLESS_INPUT): pause *)
(* and go are matched, and no input queue overflows, for any routes,       *)
(* numbers of packets, thresholds and sizes.                               *)
(***************************************************************************)
EXTENDS LosslessNetwork, SharedLemmas

-----------------------------------------------------------------------------
(* Routes.                                                                 *)

Nodes == UNION {ToSet(Routes[r]) : r \in Flows}

LEMMA FlowsAreFinite ==
  /\ Flows = 1..Len(Routes) /\ Len(Routes) \in Nat /\ IsFiniteSet(Flows)
  /\ \A r \in Flows : Routes[r] \in Seq(Nodes) /\ Len(Routes[r]) \in Nat
<1>1. Routes \in Seq(Seq(Nodes))
  BY LosslessAssumption DEF Nodes
<1>2. Flows = 1..Len(Routes) /\ Len(Routes) \in Nat
  BY <1>1 DEF Flows
<1>3. \A r \in Flows : Routes[r] \in Seq(Nodes)
  BY <1>1, <1>2
<1>. QED BY <1>2, <1>3, IntervalSize

\* A route does not come to a node twice, and only its ends are hosts.
LEMMA RouteNodes ==
  ASSUME NEW r \in Flows
  PROVE  /\ Len(Routes[r]) \in Nat /\ Len(Routes[r]) > 2
         /\ \A i, j \in 1..Len(Routes[r]) : Routes[r][i] = Routes[r][j] => i = j
         /\ \A i \in 1..Len(Routes[r]) : Routes[r][i] \in Hosts <=> i = 1 \/ i = Len(Routes[r])
<1>. DEFINE R == Routes[r]
            n == Len(R)
<1>1. R \in Seq(Nodes) /\ n \in Nat /\ n > 2
  BY FlowsAreFinite, LosslessAssumption
<1>2. Cardinality(ToSet(R)) = n /\ {i \in DOMAIN R : R[i] \in Hosts} = {1, n}
  BY LosslessAssumption
<1>. HIDE DEF R
<1>3. DOMAIN R = 1..n
  BY <1>1
<1>4. \A i \in 1..n : R[i] \in Hosts <=> i = 1 \/ i = n
  BY <1>2, <1>3
<1>5. \A i, j \in 1..n : R[i] = R[j] => i = j
  <2>1. R \in Surjection(1..n, ToSet(R))
    BY <1>1, <1>3 DEF Surjection, ToSet
  <2>2. IsFiniteSet(1..n) /\ Cardinality(1..n) = n
    BY <1>1, IntervalSize
  <2>. HIDE DEF n
  <2>3. R \in Injection(1..n, ToSet(R))
    BY <1>2, <2>1, <2>2, FS_Surjection
  <2>. QED BY <2>3 DEF Injection, IsInjective
<1>. QED BY <1>1, <1>4, <1>5 DEF R

\* A link that a route takes.
OnWay(r, l) == \E j \in 1..Len(Routes[r]) - 1 : l = <<Routes[r][j], Routes[r][j + 1]>>

LEMMA WayFacts ==
  ASSUME NEW r \in Flows, NEW l, OnWay(r, l)
  PROVE  /\ l \in Links /\ l[1] # l[2]
         /\ l[2] \notin Hosts =>
              /\ OnWay(r, NextLink(r, l)) /\ NextLink(r, l) \in Links \ HostLinks
              /\ NextLink(r, l)[1] = l[2] /\ LinkBefore(r, NextLink(r, l)) = l
         /\ l[1] \notin Hosts =>
              /\ LinkBefore(r, l) \in Links /\ LinkBefore(r, l)[2] = l[1]
              /\ l[2] # LinkBefore(r, l)[1]
<1>. DEFINE R == Routes[r]
            n == Len(R)
            at(node) == CHOOSE i \in 1..n - 1 : R[i] = node
<1>1. /\ n \in Nat /\ n > 2
      /\ \A i, k \in 1..n : R[i] = R[k] => i = k
      /\ \A i \in 1..n : R[i] \in Hosts <=> i = 1 \/ i = n
  BY RouteNodes
<1>2. PICK j \in 1..n - 1 : l = <<R[j], R[j + 1]>>
  BY DEF OnWay
<1>3. \A i \in 1..n - 1 : <<R[i], R[i + 1]>> \in Links /\ OnWay(r, <<R[i], R[i + 1]>>)
  BY DEF Links, OnWay
<1>4. /\ \A m : NextLink(r, m) = <<R[at(m[1]) + 1], R[at(m[1]) + 2]>>
      /\ \A m : LinkBefore(r, m) = <<R[at(m[1]) - 1], R[at(m[1])]>>
  BY DEF NextLink, LinkBefore
<1>5. ASSUME NEW i \in 1..n - 1 PROVE at(R[i]) = i
  <2>1. \A k \in 1..n - 1 : R[k] = R[i] => k = i
    BY <1>1
  <2>. QED BY <2>1
<1>. HIDE DEF at, R, n
<1>6. j \in 1..n /\ j + 1 \in 1..n /\ j # j + 1 /\ j \in Nat
  BY <1>1
<1>7. l \in Links /\ l[1] = R[j] /\ l[2] = R[j + 1] /\ l[1] # l[2]
  BY <1>1, <1>2, <1>3, <1>6
<1>8. ASSUME l[2] \notin Hosts
      PROVE  /\ OnWay(r, NextLink(r, l)) /\ NextLink(r, l) \in Links \ HostLinks
             /\ NextLink(r, l)[1] = l[2] /\ LinkBefore(r, NextLink(r, l)) = l
  <2>1. j + 1 \in 1..n - 1 /\ (j + 1) + 1 = j + 2 /\ (j + 1) - 1 = j
    BY <1>1, <1>6, <1>7, <1>8
  <2>2. NextLink(r, l) = <<R[j + 1], R[j + 2]>>
    BY <1>4, <1>5, <1>7
  <2>3. LinkBefore(r, NextLink(r, l)) = <<R[j], R[j + 1]>>
    <3>. DEFINE m == NextLink(r, l)
    <3>1. m[1] = R[j + 1] /\ at(R[j + 1]) = j + 1
      BY <1>5, <2>1, <2>2
    <3>2. LinkBefore(r, m) = <<R[at(m[1]) - 1], R[at(m[1])]>>
      BY <1>4
    <3>. HIDE DEF m
    <3>3. LinkBefore(r, m) = <<R[(j + 1) - 1], R[j + 1]>>
      BY <3>1, <3>2
    <3>. QED BY <2>1, <3>3 DEF m
  <2>4. NextLink(r, l) \in Links /\ OnWay(r, NextLink(r, l))
    BY <1>3, <2>1, <2>2
  <2>. QED BY <1>2, <1>7, <1>8, <2>2, <2>3, <2>4 DEF HostLinks
<1>9. ASSUME l[1] \notin Hosts
      PROVE  /\ LinkBefore(r, l) \in Links /\ LinkBefore(r, l)[2] = l[1]
             /\ l[2] # LinkBefore(r, l)[1]
  <2>1. j - 1 \in 1..n - 1 /\ (j - 1) + 1 = j
    BY <1>1, <1>6, <1>7, <1>9
  <2>3. R[j + 1] # R[j - 1]
    <3>1. j - 1 \in 1..n /\ j - 1 # j + 1
      BY <1>1, <2>1
    <3>. QED BY <1>1, <1>6, <3>1
  <2>2. LinkBefore(r, l) = <<R[j - 1], R[j]>>
    BY <1>4, <1>5, <1>7
  <2>. QED BY <1>3, <1>7, <2>1, <2>2, <2>3
<1>. QED BY <1>7, <1>8, <1>9

LEMMA FirstLink ==
  ASSUME NEW r \in Flows
  PROVE  LET first == <<Routes[r][1], Routes[r][2]>> IN first \in HostLinks /\ OnWay(r, first)
<1>1. /\ Len(Routes[r]) \in Nat /\ Len(Routes[r]) > 2 /\ Routes[r][1] \in Hosts
  BY RouteNodes
<1>2. 1 \in 1..Len(Routes[r]) - 1 /\ 1 + 1 = 2
  BY <1>1
<1>3. OnWay(r, <<Routes[r][1], Routes[r][2]>>)
  BY <1>2 DEF OnWay
<1>. QED BY <1>1, <1>3, WayFacts DEF HostLinks

LEMMA LinksAreFinite == IsFiniteSet(Links)
<1>. DEFINE W(r) == {<<Routes[r][i], Routes[r][i + 1]>> : i \in 1..Len(Routes[r]) - 1}
            All == {W(r) : r \in Flows}
<1>1. ASSUME NEW r \in Flows PROVE IsFiniteSet(W(r))
  <2>. DEFINE I == 1..Len(Routes[r]) - 1
              f == [i \in I |-> <<Routes[r][i], Routes[r][i + 1]>>]
  <2>1. IsFiniteSet(I)
    <3>1. 1 \in Int /\ Len(Routes[r]) - 1 \in Int
      BY FlowsAreFinite
    <3>. QED BY <3>1, FS_Interval
  <2>2. f \in Surjection(I, W(r))
    BY DEF Surjection
  <2>. HIDE DEF f, I, W
  <2>. QED BY <2>1, <2>2, FS_Surjection
<1>2. IsFiniteSet(All)
  <2>. DEFINE f == [r \in Flows |-> W(r)]
  <2>1. f \in Surjection(Flows, All)
    BY DEF Surjection
  <2>. HIDE DEF f, All
  <2>. QED BY <2>1, FlowsAreFinite, FS_Surjection
<1>3. Links = UNION All
  BY DEF Links
<1>4. \A T \in All : IsFiniteSet(T)
  BY <1>1
<1>. HIDE DEF All
<1>. QED BY <1>2, <1>3, <1>4, FS_UNION

-----------------------------------------------------------------------------
(* The load of an input queue.                                             *)

From(node) == {l \in Links : l[1] = node}

\* The flows whose packets in the queue of l came through buffer b.
Via(b, l) == {r \in Flows : LinkBefore(r, l) = b}

Queues == [queue : Seq(Flows), state_send : {"READY", "PAUSED", "PAUSE_RECEIVED"},
           services : Nat, meanwhile : SUBSET Links]

LEMMA QueueFields ==
  ASSUME NEW q \in Queues
  PROVE  /\ q.queue \in Seq(Flows) /\ Len(q.queue) \in Nat
         /\ q.state_send \in {"READY", "PAUSED", "PAUSE_RECEIVED"}
         /\ q.services \in Nat /\ q.meanwhile \in SUBSET Links
<1>1. /\ q.queue \in Seq(Flows) /\ q.state_send \in {"READY", "PAUSED", "PAUSE_RECEIVED"}
      /\ q.services \in Nat /\ q.meanwhile \in SUBSET Links
  BY DEF Queues
<1>. QED BY <1>1

Held(o, b, l) == {i \in 1..Len(o[l].queue) : LinkBefore(o[l].queue[i], l) = b}

LEMMA HeldIsCount ==
  ASSUME NEW o \in [Links -> Queues], NEW b, NEW l \in Links
  PROVE  /\ IsFiniteSet(Held(o, b, l)) /\ Count(o[l].queue, Via(b, l)) \in Nat
         /\ IsFiniteSet({l} \X Held(o, b, l))
         /\ Cardinality({l} \X Held(o, b, l)) = Count(o[l].queue, Via(b, l))
<1>. DEFINE s == o[l].queue
            V == Via(b, l)
            H == Held(o, b, l)
<1>1. s \in Seq(Flows)
  BY QueueFields
<1>2. H = {i \in 1..Len(s) : s[i] \in V}
  <2>1. \A i \in 1..Len(s) : s[i] \in Flows
    BY <1>1
  <2>. QED BY <2>1 DEF Held, Via
<1>. HIDE DEF s, V, H
<1>3. Count(s, V) = Cardinality(H)
  BY <1>2 DEF Count
<1>4. IsFiniteSet(H)
  <2>1. H \subseteq 1..Len(s) /\ Len(s) \in Nat
    BY <1>1, <1>2
  <2>. QED BY <2>1, IntervalSize, FS_Subset
<1>5. Cardinality(H) \in Nat
  BY <1>4, FS_CardinalityType
<1>6. IsFiniteSet({l}) /\ Cardinality({l}) = 1
  BY FS_Singleton
<1>7. IsFiniteSet({l} \X H) /\ Cardinality({l} \X H) = Cardinality({l}) * Cardinality(H)
  BY <1>4, <1>6, FS_Product
<1>8. Cardinality({l} \X H) = Cardinality(H)
  BY <1>5, <1>6, <1>7
<1>. QED BY <1>3, <1>4, <1>5, <1>7, <1>8 DEF s, V, H

\* When one queue changes, the load changes by what of the buffer's packets is in it.
LEMMA LoadChanges ==
  ASSUME Discipline = "LOSSLESS_INPUT", NEW o \in [Links -> Queues], NEW p \in [Links -> Queues],
         NEW b, NEW l \in Links, \A m \in Links \ {l} : p[m].queue = o[m].queue
  PROVE  /\ Load(o, b) \in Nat /\ Load(p, b) \in Nat
         /\ l[1] # b[2] => Load(p, b) = Load(o, b)
         /\ l[1] = b[2] => Load(p, b) = Load(o, b) + Count(p[l].queue, Via(b, l))
                                                   - Count(o[l].queue, Via(b, l))
<1>. DEFINE part(x, m) == {m} \X Held(x, b, m)
            All(x) == UNION {part(x, m) : m \in From(b[2])}
            Rest(x) == UNION {part(x, m) : m \in From(b[2]) \ {l}}
<1>1. \A x : Load(x, b) = Cardinality(All(x))
  BY DEF Load, From, Held
<1>2. ASSUME NEW x \in [Links -> Queues], NEW S \in SUBSET Links
      PROVE  IsFiniteSet(UNION {part(x, m) : m \in S})
  <2>. DEFINE f == [m \in S |-> part(x, m)]
              Parts == {part(x, m) : m \in S}
  <2>1. IsFiniteSet(S)
    BY LinksAreFinite, FS_Subset
  <2>2. f \in Surjection(S, Parts)
    BY DEF Surjection
  <2>3. \A T \in Parts : IsFiniteSet(T)
    <3>1. \A m \in S : IsFiniteSet(part(x, m))
      <4>. TAKE m \in S
      <4>1. m \in Links
        OBVIOUS
      <4>. QED BY <4>1, HeldIsCount
    <3>. QED BY <3>1
  <2>. HIDE DEF f, Parts, part
  <2>4. IsFiniteSet(Parts)
    BY <2>1, <2>2, FS_Surjection
  <2>5. IsFiniteSet(UNION Parts)
    BY <2>3, <2>4, FS_UNION
  <2>. QED BY <2>5 DEF Parts
<1>3. From(b[2]) \in SUBSET Links
  BY DEF From
<1>4. Rest(p) = Rest(o)
  <2>1. \A m \in From(b[2]) \ {l} : Held(p, b, m) = Held(o, b, m)
    BY <1>3 DEF Held
  <2>. QED BY <2>1
<1>5. l \in From(b[2]) <=> l[1] = b[2]
  BY DEF From
<1>6. ASSUME NEW x \in [Links -> Queues]
      PROVE  /\ Load(x, b) \in Nat /\ Cardinality(Rest(x)) \in Nat
             /\ l[1] # b[2] => Load(x, b) = Cardinality(Rest(x))
             /\ l[1] = b[2] => Load(x, b) = Cardinality(Rest(x)) + Count(x[l].queue, Via(b, l))
  <2>1. IsFiniteSet(All(x)) /\ IsFiniteSet(Rest(x))
    <3>. HIDE DEF part
    <3>. QED BY <1>2, <1>3
  <2>2. Cardinality(All(x)) \in Nat /\ Cardinality(Rest(x)) \in Nat
    <3>. HIDE DEF All, Rest
    <3>. QED BY <2>1, FS_CardinalityType
  <2>3. CASE l[1] # b[2]
    <3>1. All(x) = Rest(x)
      BY <1>5, <2>3
    <3>. HIDE DEF All, Rest
    <3>. QED BY <1>1, <2>2, <2>3, <3>1
  <2>4. CASE l[1] = b[2]
    <3>1. All(x) = Rest(x) \cup part(x, l)
      <4>. HIDE DEF part
      <4>. QED BY <1>5, <2>4
    <3>2. Rest(x) \cap part(x, l) = {}
      OBVIOUS
    <3>3. IsFiniteSet(part(x, l)) /\ Cardinality(part(x, l)) = Count(x[l].queue, Via(b, l))
      BY HeldIsCount
    <3>4. Count(x[l].queue, Via(b, l)) \in Nat
      BY HeldIsCount
    <3>. DEFINE A == Rest(x)
                B == part(x, l)
    <3>. HIDE DEF All, Rest, part
    <3>5. Cardinality(A \cup B) = Cardinality(A) + Cardinality(B) - Cardinality(A \cap B)
      <4>1. IsFiniteSet(A) /\ IsFiniteSet(B)
        BY <2>1, <3>3
      <4>. HIDE DEF A, B
      <4>. QED BY <4>1, FS_Union
    <3>6. Cardinality(A \cap B) = 0
      BY <3>2, FS_EmptySet
    <3>7. Cardinality(A \cup B) = Cardinality(A) + Cardinality(B)
      BY <2>2, <3>3, <3>4, <3>5, <3>6
    <3>. QED BY <1>1, <2>2, <2>4, <3>1, <3>3, <3>7
  <2>. QED BY <2>3, <2>4
<1>7. Cardinality(Rest(p)) = Cardinality(Rest(o))
  BY <1>4
<1>8. Count(o[l].queue, Via(b, l)) \in Nat /\ Count(p[l].queue, Via(b, l)) \in Nat
  BY HeldIsCount
<1>. HIDE DEF Rest, All
<1>9. /\ Load(o, b) \in Nat /\ Cardinality(Rest(o)) \in Nat
      /\ l[1] # b[2] => Load(o, b) = Cardinality(Rest(o))
      /\ l[1] = b[2] => Load(o, b) = Cardinality(Rest(o)) + Count(o[l].queue, Via(b, l))
  BY <1>6
<1>10. /\ Load(p, b) \in Nat
       /\ l[1] # b[2] => Load(p, b) = Cardinality(Rest(p))
       /\ l[1] = b[2] => Load(p, b) = Cardinality(Rest(p)) + Count(p[l].queue, Via(b, l))
  BY <1>6
<1>. QED BY <1>7, <1>8, <1>9, <1>10

-----------------------------------------------------------------------------
(* The inductive invariant.                                                *)

\* The packets s are on their way when they are at the link l.
Along(s, l) == \A k \in 1..Len(s) : OnWay(s[k], l)

Types ==
  /\ out \in [Links -> Queues] /\ pipe \in [Links -> Seq(Flows)]
  /\ recv \in [Buffers -> {"READY", "PAUSED"}]
  /\ \A l \in Links :
       /\ Len(pipe[l]) <= PipeSize
       /\ Along(pipe[l], l) /\ Along(out[l].queue, l)

\* Packets that may be sent are being sent.
Awake(q) == q.state_send = "READY" /\ q.queue # <<>> => q.services > 0

\* A queue that may send has one service event while it has packets; a paused
\* one has none, unless it finishes a packet first.
Sound(q) ==
  /\ q.state_send = "READY" => q.services = (IF q.queue = <<>> THEN 0 ELSE 1)
  /\ q.state_send = "PAUSED" => q.services = 0
  /\ q.state_send = "PAUSE_RECEIVED" => q.services = 1 /\ q.queue # <<>>

Serving ==
  \A l \in Links :
    /\ Awake(out[l])
    /\ FewPorts(l) => Sound(out[l])
    /\ out[l].state_send # "READY" <=> l \in Buffers /\ recv[l] = "PAUSED"

\* A buffer tells its sender to stop when it is too full, and to go on when it is
\* nearly empty.
Levels ==
  \A b \in Buffers : IF recv[b] = "PAUSED" THEN Load(out, b) >= Low ELSE Load(out, b) <= High

\* What may still reach a buffer that has paused its sender fits.
InFlight(b) == IF out[b].state_send = "PAUSE_RECEIVED" THEN 1 ELSE 0
Headroom ==
  \A b \in Buffers : FewPorts(b) /\ recv[b] = "PAUSED" =>
    Load(out, b) + Len(pipe[b]) + InFlight(b) <= High + 1 + PipeSize

\* While a host finishes a packet, a buffer loses at most one packet to each queue
\* of its switch since it has paused the host.
Draining ==
  \A b \in Buffers \cap HostLinks : FewPorts(b) /\ out[b].state_send = "PAUSE_RECEIVED" =>
    Load(out, b) + Cardinality(out[b].meanwhile \cap Onward(b)) >= High + 1

LInv == Types /\ Serving /\ Levels /\ Headroom /\ Draining

-----------------------------------------------------------------------------
(* What happens to one queue.                                              *)

Begun(q, n) == [q EXCEPT !.services = n, !.meanwhile = {}]
Holding(q, s) == [q EXCEPT !.queue = s]
Freed(q) == [q EXCEPT !.state_send = "READY"]
Ended(q, s, n, state) ==
  [q EXCEPT !.queue = s, !.services = n, !.meanwhile = {}, !.state_send = state]

LEMMA BegunFields ==
  ASSUME NEW q \in Queues, NEW n \in Nat
  PROVE  /\ Begun(q, n) \in Queues
         /\ Begun(q, n).queue = q.queue /\ Begun(q, n).services = n
         /\ Begun(q, n).state_send = q.state_send /\ Begun(q, n).meanwhile = {}
  BY DEF Queues, Begun

LEMMA HoldingFields ==
  ASSUME NEW q \in Queues, NEW s \in Seq(Flows)
  PROVE  /\ Holding(q, s) \in Queues
         /\ Holding(q, s).queue = s /\ Holding(q, s).services = q.services
         /\ Holding(q, s).state_send = q.state_send /\ Holding(q, s).meanwhile = q.meanwhile
  BY DEF Queues, Holding

LEMMA EnqueueFacts ==
  ASSUME NEW q \in Queues, Awake(q), NEW r \in Flows
  PROVE  /\ Enqueue(q, r) \in Queues /\ Awake(Enqueue(q, r))
         /\ Sound(q) => Sound(Enqueue(q, r))
         /\ Enqueue(q, r).queue = Append(q.queue, r)
         /\ Enqueue(q, r).state_send = q.state_send
         /\ q.queue # <<>> => Enqueue(q, r).meanwhile = q.meanwhile
<1>. DEFINE added == Holding(q, Append(q.queue, r))
            e == Begun(added, added.services + 1)
<1>1. /\ added \in Queues /\ added.queue = Append(q.queue, r) /\ added.state_send = q.state_send
      /\ added.services = q.services /\ added.meanwhile = q.meanwhile
  <2>1. Append(q.queue, r) \in Seq(Flows)
    BY QueueFields
  <2>. QED BY <2>1, HoldingFields
<1>2. added.queue # <<>> /\ q.services \in Nat
  <2>1. q.queue \in Seq(Flows) /\ q.services \in Nat
    BY QueueFields
  <2>. QED BY <1>1, <2>1
<1>3. Enqueue(q, r) = IF q.queue = <<>> /\ q.state_send = "READY" THEN e ELSE added
  BY DEF Enqueue, BeginService, Begun, Holding
<1>. HIDE DEF added
<1>4. /\ e \in Queues /\ e.queue = added.queue /\ e.state_send = added.state_send
      /\ e.services = added.services + 1
  <2>1. added.services + 1 \in Nat
    BY <1>1, QueueFields
  <2>. QED BY <1>1, <2>1, BegunFields
<1>. HIDE DEF e
<1>5. CASE q.queue = <<>> /\ q.state_send = "READY"
  <2>1. Enqueue(q, r) = e /\ e.queue # <<>> /\ e.state_send = "READY" /\ e.services > 0
    BY <1>1, <1>2, <1>3, <1>4, <1>5
  <2>2. Sound(q) => e.services = 1
    BY <1>1, <1>4, <1>5 DEF Sound
  <2>3. Awake(e) /\ (Sound(q) => Sound(e))
    BY <2>1, <2>2 DEF Awake, Sound
  <2>. QED BY <1>1, <1>4, <1>5, <2>1, <2>3
<1>6. CASE ~(q.queue = <<>> /\ q.state_send = "READY")
  <2>1. Enqueue(q, r) = added
    BY <1>3, <1>6
  <2>2. Awake(added) /\ (Sound(q) => Sound(added))
    BY <1>1, <1>2, <1>6 DEF Awake, Sound
  <2>. QED BY <1>1, <2>1, <2>2
<1>. QED BY <1>5, <1>6

LEMMA PauseFacts ==
  ASSUME NEW q \in Queues, q.state_send = "READY", NEW l
  PROVE  /\ Pause(l, q) \in Queues /\ Pause(l, q).state_send # "READY"
         /\ Awake(Pause(l, q)) /\ (Sound(q) => Sound(Pause(l, q)))
         /\ Pause(l, q).queue = q.queue /\ Pause(l, q).meanwhile = q.meanwhile
<1>. DEFINE flying == IF l \in HostLinks THEN q.queue # <<>> ELSE q.services > 0
            state == IF flying THEN "PAUSE_RECEIVED" ELSE "PAUSED"
            e == [q EXCEPT !.state_send = state]
<1>1. Pause(l, q) = e
  BY DEF Pause
<1>2. Sound(q) => q.services = IF q.queue = <<>> THEN 0 ELSE 1
  BY DEF Sound
<1>3. /\ state \in {"PAUSED", "PAUSE_RECEIVED"}
      /\ Sound(q) => IF q.queue = <<>> THEN state = "PAUSED" ELSE state = "PAUSE_RECEIVED"
  BY <1>2
<1>. HIDE DEF state
<1>4. /\ e \in Queues /\ e.state_send = state /\ e.queue = q.queue
      /\ e.services = q.services /\ e.meanwhile = q.meanwhile
  BY <1>3 DEF Queues
<1>. HIDE DEF e
<1>5. e.state_send # "READY" /\ Awake(e)
  BY <1>3, <1>4 DEF Awake
<1>6. Sound(q) => Sound(e)
  BY <1>2, <1>3, <1>4 DEF Sound
<1>. QED BY <1>1, <1>4, <1>5, <1>6

LEMMA GoFacts ==
  ASSUME NEW q \in Queues, NEW l
  PROVE  /\ Go(l, q) \in Queues /\ Awake(Go(l, q)) /\ Go(l, q).state_send = "READY"
         /\ Go(l, q).queue = q.queue
         /\ /\ Sound(q) /\ q.state_send # "READY"
            /\ l \in HostLinks => q.state_send # "PAUSE_RECEIVED"
            => Sound(Go(l, q))
<1>. DEFINE ready == Freed(q)
            begun == Begun(ready, ready.services + 1)
<1>1. Go(l, q) = IF q.queue # <<>> /\ (l \in HostLinks \/ q.services = 0) THEN begun ELSE ready
  BY DEF Go, BeginService, Begun, Freed
<1>2. /\ ready \in Queues /\ ready.state_send = "READY" /\ ready.queue = q.queue
      /\ ready.services = q.services /\ q.services \in Nat
  BY QueueFields DEF Queues, Freed
<1>3. /\ begun \in Queues /\ begun.state_send = "READY" /\ begun.queue = q.queue
      /\ begun.services = q.services + 1
  <2>. DEFINE n == ready.services + 1
  <2>1. n \in Nat /\ n = q.services + 1 /\ begun = Begun(ready, n)
    BY <1>2
  <2>. HIDE DEF ready, begun, n
  <2>2. /\ Begun(ready, n) \in Queues /\ Begun(ready, n).queue = ready.queue
        /\ Begun(ready, n).services = n /\ Begun(ready, n).state_send = ready.state_send
    BY <1>2, <2>1, BegunFields
  <2>. QED BY <1>2, <2>1, <2>2
<1>. HIDE DEF ready, begun
<1>4. Awake(Go(l, q))
  BY <1>1, <1>2, <1>3 DEF Awake
<1>5. ASSUME Sound(q), q.state_send # "READY", l \in HostLinks => q.state_send # "PAUSE_RECEIVED"
      PROVE  Sound(Go(l, q))
  <2>1. \/ q.state_send = "PAUSED" /\ q.services = 0
        \/ q.state_send = "PAUSE_RECEIVED" /\ q.services = 1 /\ q.queue # <<>>
    BY <1>5, QueueFields DEF Sound
  <2>2. CASE q.state_send = "PAUSED" /\ q.services = 0
    BY <1>1, <1>2, <1>3, <2>2 DEF Sound
  <2>3. CASE q.state_send = "PAUSE_RECEIVED" /\ q.services = 1 /\ q.queue # <<>>
    BY <1>1, <1>2, <1>5, <2>3 DEF Sound
  <2>. QED BY <2>1, <2>2, <2>3
<1>. QED BY <1>1, <1>2, <1>3, <1>4, <1>5

LEMMA CompleteFacts ==
  ASSUME NEW q \in Queues, q.services > 0, q.queue # <<>>
  PROVE  /\ CompleteService(q) \in Queues /\ Awake(CompleteService(q))
         /\ Sound(q) => Sound(CompleteService(q)) /\ q.state_send \in {"READY", "PAUSE_RECEIVED"}
         /\ CompleteService(q).queue = Tail(q.queue)
         /\ CompleteService(q).state_send = IF q.state_send = "READY" THEN "READY" ELSE "PAUSED"
<1>. DEFINE state == IF q.state_send = "PAUSE_RECEIVED" THEN "PAUSED" ELSE q.state_send
            rest == Tail(q.queue)
            left == q.services - 1
            sent == Ended(q, rest, left, state)
            begun == Begun(sent, sent.services + 1)
<1>1. CompleteService(q) = IF sent.queue # <<>> /\ sent.state_send = "READY" THEN begun ELSE sent
  BY DEF CompleteService, BeginService, Begun, Ended
<1>2. /\ q.queue \in Seq(Flows) /\ q.state_send \in {"READY", "PAUSED", "PAUSE_RECEIVED"}
      /\ q.services \in Nat
  BY QueueFields
<1>3. Sound(q) => q.services = 1 /\ q.state_send \in {"READY", "PAUSE_RECEIVED"}
  BY <1>2 DEF Sound
<1>4. rest \in Seq(Flows) /\ left \in Nat /\ rest = Tail(q.queue) /\ (Sound(q) => left = 0)
  BY <1>2, <1>3
<1>5. state = (IF q.state_send = "READY" THEN "READY" ELSE "PAUSED")
  BY <1>2
<1>. HIDE DEF state, rest, left
<1>6. /\ sent \in Queues /\ sent.queue = rest /\ sent.services = left
      /\ sent.state_send = state /\ sent.meanwhile = {}
  <2>1. state \in {"READY", "PAUSED", "PAUSE_RECEIVED"}
    BY <1>5
  <2>. QED BY <1>4, <2>1 DEF Ended, Queues
<1>7. /\ begun \in Queues /\ begun.queue = rest /\ begun.services = left + 1
      /\ begun.state_send = state
  <2>. DEFINE n == sent.services + 1
  <2>1. n \in Nat /\ n = left + 1
    BY <1>4, <1>6
  <2>. HIDE DEF sent, n
  <2>. QED BY <1>6, <2>1, BegunFields
<1>. HIDE DEF sent, begun
<1>8. CASE rest # <<>> /\ state = "READY"
  <2>1. CompleteService(q) = begun /\ left + 1 > 0
    BY <1>1, <1>4, <1>6, <1>8
  <2>2. Awake(begun) /\ (Sound(q) => Sound(begun))
    BY <1>4, <1>7, <1>8 DEF Awake, Sound
  <2>. QED BY <1>3, <1>4, <1>5, <1>7, <2>1, <2>2
<1>9. CASE ~(rest # <<>> /\ state = "READY")
  <2>1. CompleteService(q) = sent
    BY <1>1, <1>6, <1>9
  <2>2. Awake(sent)
    BY <1>6, <1>9 DEF Awake
  <2>3. ASSUME left = 0 PROVE Sound(sent)
    BY <1>5, <1>6, <1>9, <2>3 DEF Sound
  <2>. QED BY <1>3, <1>4, <1>5, <1>6, <2>1, <2>2, <2>3
<1>. QED BY <1>8, <1>9

LEMMA MeanwhileFields ==
  ASSUME NEW q \in Queues, NEW who \in SUBSET Links
  PROVE  LET e == [q EXCEPT !.meanwhile = who]
         IN  /\ e \in Queues /\ (Awake(q) => Awake(e)) /\ (Sound(q) => Sound(e))
             /\ e.queue = q.queue /\ e.state_send = q.state_send
             /\ e.services = q.services /\ e.meanwhile = who
<1>. DEFINE e == [q EXCEPT !.meanwhile = who]
<1>1. /\ e \in Queues /\ e.queue = q.queue /\ e.state_send = q.state_send
      /\ e.services = q.services /\ e.meanwhile = who
  BY DEF Queues
<1>. HIDE DEF e
<1>2. (Awake(q) => Awake(e)) /\ (Sound(q) => Sound(e))
  BY <1>1 DEF Awake, Sound
<1>. QED BY <1>1, <1>2 DEF e

LEMMA AlongFacts ==
  ASSUME NEW l, NEW s \in Seq(Flows), Along(s, l)
  PROVE  /\ \A r \in Flows : OnWay(r, l) => Append(s, r) \in Seq(Flows) /\ Along(Append(s, r), l)
                                             /\ Len(Append(s, r)) = Len(s) + 1
         /\ s # <<>> => /\ Head(s) \in Flows /\ OnWay(Head(s), l)
                        /\ Tail(s) \in Seq(Flows) /\ Along(Tail(s), l) /\ Len(Tail(s)) = Len(s) - 1
<1>1. ASSUME NEW r \in Flows, OnWay(r, l)
      PROVE  Append(s, r) \in Seq(Flows) /\ Along(Append(s, r), l) /\ Len(Append(s, r)) = Len(s) + 1
  <2>1. Append(s, r) \in Seq(Flows) /\ Len(Append(s, r)) = Len(s) + 1
    OBVIOUS
  <2>2. \A k \in 1..Len(s) + 1 : Append(s, r)[k] = IF k \in 1..Len(s) THEN s[k] ELSE r
    OBVIOUS
  <2>. QED BY <1>1, <2>1, <2>2 DEF Along
<1>2. ASSUME s # <<>>
      PROVE  /\ Head(s) \in Flows /\ OnWay(Head(s), l)
             /\ Tail(s) \in Seq(Flows) /\ Along(Tail(s), l) /\ Len(Tail(s)) = Len(s) - 1
  <2>1. Len(s) \in Nat /\ 1 \in 1..Len(s) /\ Head(s) = s[1] /\ Head(s) \in Flows
    BY <1>2
  <2>2. Tail(s) \in Seq(Flows) /\ Len(Tail(s)) = Len(s) - 1
    BY <1>2
  <2>3. \A k \in 1..Len(s) - 1 : Tail(s)[k] = s[k + 1] /\ k + 1 \in 1..Len(s)
    BY <1>2
  <2>. QED BY <2>1, <2>2, <2>3 DEF Along
<1>. QED BY <1>1, <1>2

\* With input queues a buffer is named by its link and pauses its other end.
LEMMA InputQueues ==
  ASSUME Discipline = "LOSSLESS_INPUT"
  PROVE  /\ Buffers = {l \in Links : l[2] \notin Hosts}
         /\ \A b : Senders(b) = {b}
         /\ \A r, l : BufferOf(r, l) = LinkBefore(r, l)
  BY DEF Buffers, Senders, BufferOf

LEMMA LoadUnchanged ==
  ASSUME Discipline = "LOSSLESS_INPUT", NEW o, NEW p, NEW b,
         \A m \in Links : p[m].queue = o[m].queue
  PROVE  Load(p, b) = Load(o, b)
<1>1. \A m \in From(b[2]) : Held(p, b, m) = Held(o, b, m)
  BY DEF Held, From
<1>2. \A x : Load(x, b) = Cardinality(UNION {{m} \X Held(x, b, m) : m \in From(b[2])})
  BY DEF Load, From, Held
<1>. QED BY <1>1, <1>2

\* What a host queues is in no input queue.
LEMMA HostsLoadNothing ==
  ASSUME Discipline = "LOSSLESS_INPUT", NEW o \in [Links -> Queues], NEW p \in [Links -> Queues],
         NEW l \in HostLinks, \A m \in Links \ {l} : p[m].queue = o[m].queue, NEW b \in Buffers
  PROVE  Load(p, b) = Load(o, b) /\ Load(o, b) \in Nat
<1>1. l \in Links /\ l[1] # b[2]
  BY InputQueues DEF HostLinks
<1>. QED BY <1>1, LoadChanges

-----------------------------------------------------------------------------
(* Each step preserves the invariant.                                      *)

LEMMA InitHolds ==
  ASSUME Discipline = "LOSSLESS_INPUT", Init
  PROVE  LInv
<1>. DEFINE fresh == [queue |-> <<>>, state_send |-> "READY", services |-> 0, meanwhile |-> {}]
<1>1. /\ fresh \in Queues /\ Awake(fresh) /\ Sound(fresh)
      /\ fresh.queue = <<>> /\ fresh.state_send = "READY"
  <2>1. <<>> \in Seq(Flows)
    OBVIOUS
  <2>. QED BY <2>1 DEF Queues, Awake, Sound
<1>2. out = [l \in Links |-> fresh] /\ pipe = [l \in Links |-> <<>>]
      /\ recv = [b \in Buffers |-> "READY"]
  BY DEF Init
<1>. HIDE DEF fresh
<1>3. \A l \in Links : out[l] = fresh /\ out[l].queue = <<>> /\ pipe[l] = <<>>
  BY <1>1, <1>2
<1>4. Types
  <2>1. out \in [Links -> Queues]
    BY <1>1, <1>2
  <2>2. pipe \in [Links -> Seq(Flows)] /\ recv \in [Buffers -> {"READY", "PAUSED"}]
    BY <1>2
  <2>3. \A l : Along(<<>>, l)
    BY DEF Along
  <2>4. Len(<<>>) <= PipeSize
    BY LosslessAssumption
  <2>. QED BY <1>3, <2>1, <2>2, <2>3, <2>4 DEF Types
<1>5. Serving
  BY <1>1, <1>2, <1>3 DEF Serving
<1>6. Levels /\ Headroom
  <2>1. ASSUME NEW b \in Buffers PROVE recv[b] = "READY" /\ Load(out, b) <= High
    <3>1. \A m \in Links : Held(out, b, m) = {}
      BY <1>3 DEF Held
    <3>2. UNION {{m} \X Held(out, b, m) : m \in From(b[2])} = {}
      BY <3>1 DEF From
    <3>3. Load(out, b) = Cardinality(UNION {{m} \X Held(out, b, m) : m \in From(b[2])})
      BY DEF Load, From, Held
    <3>4. Load(out, b) = 0
      BY <3>2, <3>3, FS_EmptySet
    <3>. QED BY <1>2, <3>4, LosslessAssumption
  <2>. QED BY <2>1 DEF Levels, Headroom
<1>7. Draining
  <2>1. \A b \in Buffers \cap HostLinks : out[b].state_send = "READY"
    BY <1>1, <1>3 DEF HostLinks
  <2>. QED BY <2>1 DEF Draining
<1>. QED BY <1>4, <1>5, <1>6, <1>7 DEF LInv

LEMMA DeliverHolds ==
  ASSUME Discipline = "LOSSLESS_INPUT", LInv, NEW l \in Links, Deliver(l)
  PROVE  LInv'
<1>1. /\ pipe[l] # <<>> /\ l[2] \in Hosts /\ pipe' = [pipe EXCEPT ![l] = Tail(pipe[l])]
      /\ out' = out /\ recv' = recv
  BY DEF Deliver
<1>2. Types /\ Serving /\ Levels /\ Headroom /\ Draining
  BY DEF LInv
<1>3. /\ pipe \in [Links -> Seq(Flows)] /\ pipe[l] \in Seq(Flows)
      /\ Len(pipe[l]) <= PipeSize /\ Along(pipe[l], l)
  BY <1>2 DEF Types
<1>4. /\ Tail(pipe[l]) \in Seq(Flows) /\ Along(Tail(pipe[l]), l)
      /\ Len(Tail(pipe[l])) <= PipeSize
  <2>1. /\ Tail(pipe[l]) \in Seq(Flows) /\ Along(Tail(pipe[l]), l)
        /\ Len(Tail(pipe[l])) = Len(pipe[l]) - 1
    BY <1>1, <1>3, AlongFacts
  <2>2. Len(pipe[l]) \in Nat /\ PipeSize \in Nat
    BY <1>3, LosslessAssumption
  <2>. QED BY <1>3, <2>1, <2>2
<1>5. Types'
  <2>1. pipe' \in [Links -> Seq(Flows)]
    BY <1>1, <1>3, <1>4
  <2>2. ASSUME NEW m \in Links PROVE Len(pipe'[m]) <= PipeSize /\ Along(pipe'[m], m)
    <3>1. CASE m = l
      BY <1>1, <1>3, <1>4, <3>1
    <3>2. CASE m # l
      BY <1>1, <1>2, <1>3, <3>2 DEF Types
    <3>. QED BY <3>1, <3>2
  <2>. QED BY <1>1, <1>2, <2>1, <2>2 DEF Types
<1>6. Serving'
  BY <1>1, <1>2 DEF Serving
<1>7. Levels' /\ Headroom'
  <2>1. l \notin Buffers /\ \A b \in Buffers : b \in Links
    BY <1>1, InputQueues
  <2>2. \A b \in Buffers : pipe'[b] = pipe[b]
    BY <1>1, <1>3, <2>1
  <2>3. \A b \in Buffers : Load(out', b) = Load(out, b) /\ InFlight(b)' = InFlight(b)
    BY <1>1 DEF InFlight
  <2>. QED BY <1>1, <1>2, <2>2, <2>3 DEF Levels, Headroom
<1>8. Draining'
  BY <1>1, <1>2 DEF Draining
<1>. QED BY <1>5, <1>6, <1>7, <1>8 DEF LInv

LEMMA SendHolds ==
  ASSUME Discipline = "LOSSLESS_INPUT", LInv, NEW r \in Flows, Send(r)
  PROVE  LInv'
<1>. DEFINE l == <<Routes[r][1], Routes[r][2]>>
<1>1. l \in HostLinks /\ l \in Links /\ OnWay(r, l)
  BY FirstLink DEF HostLinks
<1>2. out' = [out EXCEPT ![l] = Enqueue(out[l], r)] /\ pipe' = pipe /\ recv' = recv
  BY DEF Send
<1>. HIDE DEF l
<1>3. Types /\ Serving /\ Levels /\ Headroom /\ Draining
  BY DEF LInv
<1>4. out \in [Links -> Queues] /\ out[l] \in Queues /\ Awake(out[l]) /\ Along(out[l].queue, l)
  BY <1>1, <1>3 DEF Types, Serving
<1>5. out'[l] = Enqueue(out[l], r) /\ \A m \in Links \ {l} : out'[m] = out[m]
  BY <1>1, <1>2, <1>4
<1>6. /\ out'[l] \in Queues /\ Awake(out'[l]) /\ (Sound(out[l]) => Sound(out'[l]))
      /\ out'[l].queue = Append(out[l].queue, r)
      /\ out'[l].state_send = out[l].state_send
      /\ out[l].queue # <<>> => out'[l].meanwhile = out[l].meanwhile
  BY <1>4, <1>5, EnqueueFacts
<1>7. out' \in [Links -> Queues]
  BY <1>1, <1>2, <1>4, <1>5, <1>6
<1>8. Along(out'[l].queue, l)
  <2>1. out[l].queue \in Seq(Flows)
    BY <1>4, QueueFields
  <2>. QED BY <1>1, <1>4, <1>6, <2>1, AlongFacts
<1>9. Types'
  BY <1>2, <1>3, <1>5, <1>7, <1>8 DEF Types
<1>10. \A m \in Links : /\ Awake(out'[m]) /\ (FewPorts(m) => Sound(out'[m]))
                        /\ out'[m].state_send = out[m].state_send
  BY <1>3, <1>5, <1>6 DEF Serving
<1>11. Serving'
  BY <1>2, <1>3, <1>10 DEF Serving
<1>12. \A b \in Buffers : Load(out', b) = Load(out, b) /\ b \in Links
  <2>1. \A m \in Links \ {l} : out'[m].queue = out[m].queue
    BY <1>5
  <2>2. \A b \in Buffers : Load(out', b) = Load(out, b)
    BY <1>1, <1>4, <1>7, <2>1, HostsLoadNothing
  <2>. QED BY <2>2, InputQueues
<1>13. Levels' /\ Headroom'
  <2>1. \A b \in Buffers : InFlight(b)' = InFlight(b)
    BY <1>10, <1>12 DEF InFlight
  <2>. QED BY <1>2, <1>3, <1>12, <2>1 DEF Levels, Headroom
<1>14. Draining'
  <2>1. ASSUME NEW b \in Buffers \cap HostLinks, FewPorts(b), out'[b].state_send = "PAUSE_RECEIVED"
        PROVE  out'[b].meanwhile = out[b].meanwhile /\ out[b].state_send = "PAUSE_RECEIVED"
    <3>1. b \in Links /\ out[b].state_send = "PAUSE_RECEIVED" /\ out[b].queue # <<>>
      BY <1>3, <1>10, <1>12, <2>1 DEF Serving, Sound
    <3>. QED BY <1>5, <1>6, <3>1
  <2>. QED BY <1>3, <1>12, <2>1 DEF Draining
<1>. QED BY <1>9, <1>11, <1>13, <1>14 DEF LInv

\* The threshold of the pause leaves room for what is underway.
LEMMA PacketArrivesHolds ==
  ASSUME Discipline = "LOSSLESS_INPUT", LInv, NEW l \in Links, PacketArrives(l)
  PROVE  LInv'
<1>. DEFINE r == Head(pipe[l])
            next == NextLink(r, l)
            queued == [out EXCEPT ![next] = Enqueue(out[next], r)]
            pauses == TooFull(Load(queued, l)) /\ recv[l] # "PAUSED"
<1>1. Types /\ Serving /\ Levels /\ Headroom /\ Draining
  BY DEF LInv
<1>2. pipe[l] # <<>> /\ l[2] \notin Hosts
  BY DEF PacketArrives
<1>3. /\ out \in [Links -> Queues] /\ pipe \in [Links -> Seq(Flows)] /\ pipe[l] \in Seq(Flows)
      /\ recv \in [Buffers -> {"READY", "PAUSED"}] /\ Along(pipe[l], l)
  BY <1>1 DEF Types
<1>4. r \in Flows /\ OnWay(r, l)
  BY <1>2, <1>3, AlongFacts
<1>5. /\ next \in Links \ HostLinks /\ OnWay(r, next) /\ next[1] = l[2] /\ l[1] # l[2]
      /\ LinkBefore(r, next) = l
  BY <1>2, <1>4, WayFacts
<1>6. l \in Buffers /\ \A b \in Buffers : b \in Links
  BY <1>2, InputQueues
<1>7. /\ pipe' = [pipe EXCEPT ![l] = Tail(pipe[l])]
      /\ recv' = IF pauses THEN [recv EXCEPT ![l] = "PAUSED"] ELSE recv
      /\ out' = [m \in Links |-> IF pauses /\ m = l THEN Pause(m, queued[m]) ELSE queued[m]]
  <2>. DEFINE b == BufferOf(r, next)
              stops == TooFull(Load(queued, b)) /\ recv[b] # "PAUSED"
  <2>1. b = l /\ \A m : m \in Senders(b) <=> m = l
    BY <1>5, InputQueues
  <2>2. /\ pipe' = [pipe EXCEPT ![l] = Tail(pipe[l])]
        /\ recv' = IF stops THEN [recv EXCEPT ![b] = "PAUSED"] ELSE recv
        /\ out' = [m \in Links |-> IF stops /\ m \in Senders(b) THEN Pause(m, queued[m]) ELSE queued[m]]
    BY DEF PacketArrives
  <2>3. stops <=> pauses
    BY <2>1
  <2>. HIDE DEF b, stops, pauses, queued
  <2>4. /\ recv' = IF pauses THEN [recv EXCEPT ![l] = "PAUSED"] ELSE recv
        /\ out' = [m \in Links |-> IF pauses /\ m = l THEN Pause(m, queued[m]) ELSE queued[m]]
    BY <2>1, <2>2, <2>3
  <2>. QED BY <2>2, <2>4
<1>8. next # l
  BY <1>5
<1>. HIDE DEF r, next
<1>9. /\ queued \in [Links -> Queues]
      /\ queued[next].queue = Append(out[next].queue, r)
      /\ \A m \in Links : /\ Awake(queued[m]) /\ (FewPorts(m) => Sound(queued[m]))
                          /\ queued[m].state_send = out[m].state_send
      /\ \A m \in Links \ {next} : queued[m] = out[m]
  <2>1. next \in Links /\ out[next] \in Queues /\ Awake(out[next])
    BY <1>1, <1>3, <1>5 DEF Serving
  <2>2. /\ Enqueue(out[next], r) \in Queues /\ Awake(Enqueue(out[next], r))
        /\ Sound(out[next]) => Sound(Enqueue(out[next], r))
        /\ Enqueue(out[next], r).queue = Append(out[next].queue, r)
        /\ Enqueue(out[next], r).state_send = out[next].state_send
    BY <1>4, <2>1, EnqueueFacts
  <2>3. queued[next] = Enqueue(out[next], r) /\ \A m \in Links \ {next} : queued[m] = out[m]
    BY <1>3, <2>1
  <2>4. queued \in [Links -> Queues]
    BY <1>3, <2>1, <2>2
  <2>5. \A m \in Links : /\ Awake(queued[m]) /\ (FewPorts(m) => Sound(queued[m]))
                         /\ queued[m].state_send = out[m].state_send
    BY <1>1, <2>2, <2>3 DEF Serving
  <2>. QED BY <2>2, <2>3, <2>4, <2>5
<1>. HIDE DEF queued
<1>10. /\ \A b \in Buffers : Load(out, b) \in Nat
       /\ Load(queued, l) = Load(out, l) + 1
       /\ \A b \in Buffers \ {l} : Load(queued, b) = Load(out, b)
  <2>1. ASSUME NEW b \in Buffers
        PROVE  Load(out, b) \in Nat /\ Load(queued, b) = Load(out, b) + (IF b = l THEN 1 ELSE 0)
    <3>. DEFINE c == Count(out[next].queue, Via(b, next))
                d == Count(queued[next].queue, Via(b, next))
    <3>1. next \in Links /\ \A m \in Links \ {next} : queued[m].queue = out[m].queue
      BY <1>5, <1>9
    <3>2. out[next].queue \in Seq(Flows)
      BY <1>3, <3>1, QueueFields
    <3>3. c \in Nat /\ d = c + (IF r \in Via(b, next) THEN 1 ELSE 0)
      BY <1>4, <1>9, <3>2, CountType, CountAppend
    <3>4. r \in Via(b, next) <=> b = l
      BY <1>4, <1>5 DEF Via
    <3>5. /\ Load(out, b) \in Nat /\ Load(queued, b) \in Nat
          /\ next[1] # b[2] => Load(queued, b) = Load(out, b)
          /\ next[1] = b[2] => Load(queued, b) = Load(out, b) + d - c
      BY <1>3, <1>9, <3>1, LoadChanges
    <3>6. b = l => next[1] = b[2]
      BY <1>5
    <3>. HIDE DEF c, d
    <3>. QED BY <3>3, <3>4, <3>5, <3>6
  <2>. QED BY <1>6, <2>1
<1>11. /\ \A m \in Links \ {l} : out'[m] = queued[m]
       /\ out'[l] = IF pauses THEN Pause(l, queued[l]) ELSE queued[l]
  BY <1>7
<1>12. pauses => recv[l] = "READY" /\ out[l].state_send = "READY" /\ Load(out, l) <= High
  <2>1. recv[l] \in {"READY", "PAUSED"}
    BY <1>3, <1>6
  <2>2. pauses => recv[l] = "READY"
    BY <2>1
  <2>. HIDE DEF pauses
  <2>. QED BY <1>1, <1>6, <2>2 DEF Serving, Levels
<1>13. pauses <=> Load(queued, l) > High /\ recv[l] # "PAUSED"
  BY DEF TooFull
<1>. HIDE DEF pauses
<1>14. pauses => /\ out'[l] \in Queues /\ out'[l].state_send # "READY"
                 /\ Awake(out'[l]) /\ (FewPorts(l) => Sound(out'[l]))
                 /\ out'[l].queue = queued[l].queue
  <2>1. pauses => /\ queued[l] \in Queues /\ queued[l].state_send = "READY"
                  /\ FewPorts(l) => Sound(queued[l])
    BY <1>9, <1>12
  <2>. QED BY <1>11, <2>1, PauseFacts
<1>15. /\ \A m \in Links : /\ out'[m] \in Queues /\ out'[m].queue = queued[m].queue
                           /\ Awake(out'[m]) /\ (FewPorts(m) => Sound(out'[m]))
       /\ \A m \in Links : m # l \/ ~pauses => out'[m] = queued[m]
  BY <1>9, <1>11, <1>14
<1>16. out' \in [Links -> Queues]
  <2>1. out' = [m \in Links |-> out'[m]]
    BY <1>7
  <2>. QED BY <1>15, <2>1
<1>17. /\ Tail(pipe[l]) \in Seq(Flows) /\ Along(Tail(pipe[l]), l)
       /\ Len(Tail(pipe[l])) = Len(pipe[l]) - 1 /\ Len(pipe[l]) \in Nat
       /\ \A m \in Links : Len(pipe[m]) \in Nat /\ Len(pipe[m]) <= PipeSize
  <2>1. \A m \in Links : Len(pipe[m]) \in Nat /\ Len(pipe[m]) <= PipeSize
    BY <1>1, <1>3 DEF Types
  <2>. QED BY <1>2, <1>3, <2>1, AlongFacts
<1>18. pipe'[l] = Tail(pipe[l]) /\ \A m \in Links \ {l} : pipe'[m] = pipe[m]
  BY <1>3, <1>7
<1>19. /\ \A b \in Buffers \ {l} : recv'[b] = recv[b]
       /\ recv'[l] = IF pauses THEN "PAUSED" ELSE recv[l]
       /\ recv' \in [Buffers -> {"READY", "PAUSED"}]
  BY <1>3, <1>6, <1>7
<1>20. Types'
  <2>1. pipe' \in [Links -> Seq(Flows)]
    BY <1>3, <1>7, <1>17
  <2>2. ASSUME NEW m \in Links PROVE Len(pipe'[m]) <= PipeSize /\ Along(pipe'[m], m)
    <3>1. CASE m = l
      <4>1. Len(pipe[l]) - 1 <= PipeSize
        BY <1>17, LosslessAssumption
      <4>. QED BY <1>17, <1>18, <3>1, <4>1
    <3>2. CASE m # l
      BY <1>1, <1>18, <3>2 DEF Types
    <3>. QED BY <3>1, <3>2
  <2>3. ASSUME NEW m \in Links PROVE Along(out'[m].queue, m)
    <3>1. CASE m = next
      <4>1. out[m].queue \in Seq(Flows) /\ Along(out[m].queue, m)
        BY <1>1, <1>3, QueueFields DEF Types
      <4>2. Along(Append(out[m].queue, r), m)
        BY <1>4, <1>5, <3>1, <4>1, AlongFacts
      <4>. QED BY <1>9, <1>15, <3>1, <4>2
    <3>2. CASE m # next
      <4>1. out'[m].queue = out[m].queue
        BY <1>9, <1>15, <3>2
      <4>. QED BY <1>1, <4>1 DEF Types
    <3>. QED BY <3>1, <3>2
  <2>. QED BY <1>16, <1>19, <2>1, <2>2, <2>3 DEF Types
<1>21. Serving'
  <2>1. ASSUME NEW m \in Links
        PROVE  out'[m].state_send # "READY" <=> m \in Buffers /\ recv'[m] = "PAUSED"
    <3>1. CASE m = l /\ pauses
      BY <1>6, <1>14, <1>19, <3>1
    <3>2. CASE m # l \/ ~pauses
      <4>1. out'[m].state_send = out[m].state_send
        BY <1>9, <1>15, <3>2
      <4>2. m \in Buffers => recv'[m] = recv[m]
        BY <1>19, <3>2
      <4>. QED BY <1>1, <4>1, <4>2 DEF Serving
    <3>. QED BY <3>1, <3>2
  <2>. QED BY <1>15, <2>1 DEF Serving
<1>22. \A b \in Buffers : Load(out', b) = Load(queued, b)
  BY <1>15, LoadUnchanged
<1>23. Levels'
  <2>1. ASSUME NEW b \in Buffers
        PROVE  IF recv'[b] = "PAUSED" THEN Load(out', b) >= Low ELSE Load(out', b) <= High
    <3>1. IF recv[b] = "PAUSED" THEN Load(out, b) >= Low ELSE Load(out, b) <= High
      BY <1>1 DEF Levels
    <3>2. High \in Nat /\ Low \in Nat /\ Low < High
      BY LosslessAssumption
    <3>3. CASE b # l
      BY <1>10, <1>19, <1>22, <3>1, <3>3
    <3>4. CASE b = l /\ pauses
      BY <1>10, <1>13, <1>19, <1>22, <3>2, <3>4
    <3>5. CASE b = l /\ ~pauses
      <4>1. Load(out', b) = Load(out, b) + 1 /\ Load(out, b) \in Nat /\ recv'[b] = recv[b]
        BY <1>10, <1>19, <1>22, <3>5
      <4>2. recv[b] # "PAUSED" => ~(Load(out', b) > High)
        BY <1>13, <1>22, <3>5
      <4>. QED BY <3>1, <3>2, <4>1, <4>2
    <3>. QED BY <3>3, <3>4, <3>5
  <2>. QED BY <2>1 DEF Levels
<1>24. Headroom'
  <2>. DEFINE flying(q) == IF q.state_send = "PAUSE_RECEIVED" THEN 1 ELSE 0
  <2>1. ASSUME NEW b \in Buffers, FewPorts(b), recv'[b] = "PAUSED"
        PROVE  Load(out', b) + Len(pipe'[b]) + flying(out'[b]) <= High + 1 + PipeSize
    <3>1. recv[b] = "PAUSED" => Load(out, b) + Len(pipe[b]) + flying(out[b]) <= High + 1 + PipeSize
      BY <1>1, <2>1 DEF Headroom, InFlight
    <3>2. \A q : flying(q) \in {0, 1}
      OBVIOUS
    <3>3. b # l \/ ~pauses => flying(out'[b]) = flying(out[b])
      BY <1>6, <1>9, <1>15
    <3>4. High \in Nat /\ PipeSize \in Nat
      BY LosslessAssumption
    <3>. HIDE DEF flying
    <3>5. CASE b # l
      BY <1>10, <1>18, <1>19, <1>22, <1>6, <2>1, <3>1, <3>3, <3>5
    <3>6. CASE b = l /\ pauses
      <4>1. Load(out', b) = Load(out, l) + 1 /\ Load(out, l) <= High /\ Load(out, l) \in Nat
        BY <1>10, <1>12, <1>22, <3>6
      <4>2. Len(pipe'[b]) = Len(pipe[l]) - 1 /\ Len(pipe[l]) <= PipeSize /\ Len(pipe[l]) \in Nat
        BY <1>17, <1>18, <3>6
      <4>. QED BY <3>2, <3>4, <4>1, <4>2
    <3>7. CASE b = l /\ ~pauses
      <4>1. Load(out', b) = Load(out, l) + 1 /\ Load(out, l) \in Nat
        BY <1>10, <1>22, <3>7
      <4>2. Len(pipe'[b]) = Len(pipe[l]) - 1 /\ Len(pipe[l]) \in Nat
        BY <1>17, <1>18, <3>7
      <4>3. recv[l] = "PAUSED"
        BY <1>19, <2>1, <3>7
      <4>. QED BY <3>1, <3>2, <3>3, <3>4, <3>7, <4>1, <4>2, <4>3
    <3>. QED BY <3>5, <3>6, <3>7
  <2>. QED BY <2>1 DEF Headroom, InFlight
<1>25. Draining'
  <2>1. ASSUME NEW b \in Buffers \cap HostLinks, FewPorts(b), out'[b].state_send = "PAUSE_RECEIVED"
        PROVE  Load(out', b) + Cardinality(out'[b].meanwhile \cap Onward(b)) >= High + 1
    <3>1. b \in Links /\ b # next /\ High \in Nat
      BY <1>5, <1>6, LosslessAssumption
    <3>2. \A who : Cardinality(who \cap Onward(b)) \in Nat
      <4>1. \A who : IsFiniteSet(who \cap Onward(b))
        <5>1. \A who : who \cap Onward(b) \subseteq Links
          BY DEF Onward
        <5>. QED BY <5>1, LinksAreFinite, FS_Subset
      <4>. QED BY <4>1, FS_CardinalityType
    <3>3. CASE b = l /\ pauses
      <4>1. Load(out', b) > High /\ Load(out', b) \in Nat
        BY <1>10, <1>13, <1>22, <3>3, <1>6
      <4>2. Cardinality(out'[b].meanwhile \cap Onward(b)) \in Nat
        BY <3>2
      <4>. QED BY <3>1, <4>1, <4>2
    <3>4. CASE b # l \/ ~pauses
      <4>1. out'[b] = out[b]
        BY <1>9, <1>15, <3>1, <3>4
      <4>2. Load(out, b) + Cardinality(out[b].meanwhile \cap Onward(b)) >= High + 1
        BY <1>1, <2>1, <4>1 DEF Draining
      <4>3. Load(out', b) >= Load(out, b) /\ Load(out, b) \in Nat /\ Load(out', b) \in Nat
        BY <1>6, <1>10, <1>22
      <4>4. Cardinality(out[b].meanwhile \cap Onward(b)) \in Nat
        BY <3>2
      <4>. QED BY <3>1, <4>1, <4>2, <4>3, <4>4
    <3>. QED BY <3>3, <3>4
  <2>. QED BY <2>1 DEF Draining
<1>. QED BY <1>20, <1>21, <1>23, <1>24, <1>25 DEF LInv

\* A buffer that a packet has left resumes its sender only when it has nearly
\* drained; a host has by then finished the packet it was sending.
LEMMA SendOnHolds ==
  ASSUME Discipline = "LOSSLESS_INPUT", LInv, NEW l \in Links, SendOn(l)
  PROVE  LInv'
<1>. DEFINE r == Head(out[l].queue)
            sent == [m \in Links |-> IF m = l THEN CompleteService(out[l])
                                     ELSE IF m \in HostLinks /\ out[m].services > 0
                                          THEN [out[m] EXCEPT !.meanwhile = out[m].meanwhile \cup {l}]
                                     ELSE out[m]]
            b == BufferOf(r, l)
            resumes == l \notin HostLinks /\ EmptyEnough(Load(sent, b)) /\ recv[b] = "PAUSED"
<1>1. Types /\ Serving /\ Levels /\ Headroom /\ Draining
  BY DEF LInv
<1>2. /\ out[l].services > 0 /\ out[l].queue # <<>> /\ MayComplete(l)
      /\ pipe' = [pipe EXCEPT ![l] = Append(pipe[l], r)]
      /\ recv' = IF resumes THEN [recv EXCEPT ![b] = "READY"] ELSE recv
      /\ out' = [m \in Links |-> IF resumes /\ m \in Senders(b) THEN Go(m, sent[m]) ELSE sent[m]]
  BY DEF SendOn
<1>3. /\ out \in [Links -> Queues] /\ pipe \in [Links -> Seq(Flows)]
      /\ recv \in [Buffers -> {"READY", "PAUSED"}]
      /\ out[l] \in Queues /\ out[l].queue \in Seq(Flows)
      /\ Along(out[l].queue, l) /\ pipe[l] \in Seq(Flows) /\ Along(pipe[l], l)
  BY <1>1, QueueFields DEF Types, Serving
<1>4. r \in Flows /\ OnWay(r, l) /\ l[1] # l[2]
  BY <1>2, <1>3, AlongFacts, WayFacts
<1>5. b = LinkBefore(r, l) /\ \A m : m \in Senders(b) <=> m = b
  BY InputQueues
<1>6. l \notin HostLinks => b \in Buffers /\ b \in Links /\ b[2] = l[1] /\ b # l /\ l[2] # b[1]
  <2>1. l \notin HostLinks => l[1] \notin Hosts
    BY DEF HostLinks
  <2>. HIDE DEF b, r
  <2>. QED BY <1>4, <1>5, <2>1, WayFacts, InputQueues
<1>7. \A c \in Buffers : c \in Links /\ c[2] \notin Hosts
  BY InputQueues
<1>. HIDE DEF r, b
<1>8. /\ CompleteService(out[l]) \in Queues /\ Awake(CompleteService(out[l]))
      /\ FewPorts(l) => /\ Sound(CompleteService(out[l]))
                        /\ out[l].state_send \in {"READY", "PAUSE_RECEIVED"}
      /\ CompleteService(out[l]).queue = Tail(out[l].queue)
      /\ CompleteService(out[l]).state_send = IF out[l].state_send = "READY" THEN "READY" ELSE "PAUSED"
  BY <1>1, <1>2, <1>3, CompleteFacts DEF Serving
<1>9. ASSUME NEW m \in Links, m # l
      PROVE  /\ sent[m] \in Queues /\ Awake(sent[m]) /\ (FewPorts(m) => Sound(sent[m]))
             /\ sent[m].queue = out[m].queue
             /\ sent[m].state_send = out[m].state_send
             /\ m \in HostLinks /\ out[m].services > 0 => sent[m].meanwhile = out[m].meanwhile \cup {l}
  <2>1. /\ out[m] \in Queues /\ Awake(out[m]) /\ (FewPorts(m) => Sound(out[m]))
        /\ out[m].meanwhile \cup {l} \in SUBSET Links
    BY <1>1, <1>3, QueueFields DEF Serving
  <2>. DEFINE noted == [out[m] EXCEPT !.meanwhile = out[m].meanwhile \cup {l}]
  <2>2. sent[m] = IF m \in HostLinks /\ out[m].services > 0 THEN noted ELSE out[m]
    BY <1>9
  <2>3. /\ noted \in Queues /\ Awake(noted) /\ (FewPorts(m) => Sound(noted))
        /\ noted.queue = out[m].queue
        /\ noted.state_send = out[m].state_send /\ noted.meanwhile = out[m].meanwhile \cup {l}
    <3>1. \A who \in SUBSET Links :
            LET e == [out[m] EXCEPT !.meanwhile = who]
            IN  /\ e \in Queues /\ (Awake(out[m]) => Awake(e)) /\ (Sound(out[m]) => Sound(e))
                /\ e.queue = out[m].queue
                /\ e.state_send = out[m].state_send /\ e.meanwhile = who
      BY <2>1, MeanwhileFields
    <3>. QED BY <2>1, <3>1
  <2>. HIDE DEF noted, sent
  <2>. QED BY <2>1, <2>2, <2>3
<1>10. sent[l] = CompleteService(out[l]) /\ sent = [m \in Links |-> sent[m]]
  OBVIOUS
<1>. HIDE DEF sent
<1>11. \A m \in Links : sent[m] \in Queues /\ Awake(sent[m]) /\ (FewPorts(m) => Sound(sent[m]))
  BY <1>8, <1>9, <1>10
<1>12. sent \in [Links -> Queues]
  BY <1>10, <1>11
<1>13. ASSUME NEW c \in Buffers
       PROVE  /\ Load(out, c) \in Nat /\ Load(sent, c) \in Nat
              /\ Load(sent, c) = Load(out, c) - (IF l \notin HostLinks /\ c = b THEN 1 ELSE 0)
  <2>. DEFINE d == Count(out[l].queue, Via(c, l))
              e == Count(sent[l].queue, Via(c, l))
  <2>1. \A m \in Links \ {l} : sent[m].queue = out[m].queue
    BY <1>9
  <2>2. /\ Load(out, c) \in Nat /\ Load(sent, c) \in Nat
        /\ l[1] # c[2] => Load(sent, c) = Load(out, c)
        /\ l[1] = c[2] => Load(sent, c) = Load(out, c) + e - d
    BY <1>3, <1>12, <2>1, LoadChanges
  <2>3. d \in Nat /\ e \in Nat /\ d = e + (IF r \in Via(c, l) THEN 1 ELSE 0)
    <3>1. sent[l].queue = Tail(out[l].queue) /\ sent[l].queue \in Seq(Flows)
      BY <1>8, <1>10, <1>11, QueueFields
    <3>2. r = Head(out[l].queue)
      BY DEF r
    <3>3. d = Count(Tail(out[l].queue), Via(c, l)) + (IF Head(out[l].queue) \in Via(c, l) THEN 1 ELSE 0)
      BY <1>2, <1>3, CountTail
    <3>4. d \in Nat /\ e \in Nat
      BY <1>3, <3>1, CountType
    <3>. QED BY <3>1, <3>2, <3>3, <3>4
  <2>4. r \in Via(c, l) <=> c = b
    BY <1>4, <1>5 DEF Via
  <2>5. l \in HostLinks => l[1] # c[2]
    BY <1>7 DEF HostLinks
  <2>. HIDE DEF d, e
  <2>6. CASE l \in HostLinks
    BY <2>2, <2>5, <2>6
  <2>7. CASE l \notin HostLinks /\ c = b
    BY <1>6, <2>2, <2>3, <2>4, <2>7
  <2>8. CASE l \notin HostLinks /\ c # b
    BY <2>2, <2>3, <2>4, <2>8
  <2>. QED BY <2>6, <2>7, <2>8
<1>14. resumes <=> l \notin HostLinks /\ Load(sent, b) < Low /\ recv[b] = "PAUSED"
  BY DEF EmptyEnough
<1>15. \A m \in Links : out'[m] = IF resumes /\ m = b THEN Go(m, sent[m]) ELSE sent[m]
  BY <1>2, <1>5
<1>16. /\ recv' \in [Buffers -> {"READY", "PAUSED"}]
       /\ \A c \in Buffers : recv'[c] = IF resumes /\ c = b THEN "READY" ELSE recv[c]
  <2>1. resumes => b \in Buffers
    BY <1>6, <1>14
  <2>. HIDE DEF resumes
  <2>. QED BY <1>2, <1>3, <2>1
<1>. HIDE DEF resumes
<1>17. ASSUME NEW m \in Links \cap HostLinks, m \in Buffers
       PROVE  /\ IsFiniteSet(out[m].meanwhile \cap Onward(m))
              /\ Cardinality(out[m].meanwhile \cap Onward(m)) \in Nat
              /\ l \notin out[m].meanwhile
              /\ l \in Onward(m) <=> l[1] = m[2] /\ l[2] # m[1]
  <2>1. out[m].meanwhile \cap Onward(m) \subseteq Links
    BY DEF Onward
  <2>2. IsFiniteSet(out[m].meanwhile \cap Onward(m))
    BY <2>1, LinksAreFinite, FS_Subset
  <2>. QED BY <1>2, <2>2, FS_CardinalityType DEF MayComplete, Onward
<1>18. resumes => /\ b \in Links /\ b # l /\ b \in Buffers /\ sent[b].state_send # "READY"
                  /\ FewPorts(b) /\ b \in HostLinks => sent[b].state_send # "PAUSE_RECEIVED"
  <2>. SUFFICES ASSUME resumes
                PROVE  /\ b \in Links /\ b # l /\ b \in Buffers /\ sent[b].state_send # "READY"
                       /\ FewPorts(b) /\ b \in HostLinks => sent[b].state_send # "PAUSE_RECEIVED"
    OBVIOUS
  <2>1. b \in Buffers /\ b \in Links /\ b[2] = l[1] /\ b # l /\ l[2] # b[1] /\ recv[b] = "PAUSED"
        /\ Load(sent, b) < Low /\ l \notin HostLinks
    BY <1>6, <1>14
  <2>2. sent[b].state_send = out[b].state_send /\ out[b].state_send # "READY"
    BY <1>1, <1>9, <2>1 DEF Serving
  <2>3. ASSUME FewPorts(b), b \in HostLinks, out[b].state_send = "PAUSE_RECEIVED" PROVE FALSE
    <3>. DEFINE during == out[b].meanwhile \cap Onward(b)
    <3>1. Load(out, b) + Cardinality(during) >= High + 1
      BY <1>1, <2>1, <2>3 DEF Draining
    <3>2. /\ IsFiniteSet(during) /\ Cardinality(during) \in Nat
          /\ l \notin during /\ l \in Onward(b)
      BY <1>17, <2>1, <2>3
    <3>3. Cardinality(during \cup {l}) = Cardinality(during) + 1
      <4>. HIDE DEF during
      <4>. QED BY <3>2, FS_AddElement
    <3>4. Cardinality(during \cup {l}) <= Cardinality(Onward(b)) /\ Cardinality(Onward(b)) \in Nat
      <4>1. Onward(b) \subseteq Links /\ during \cup {l} \subseteq Onward(b)
        BY <3>2 DEF Onward
      <4>2. IsFiniteSet(Onward(b))
        BY <4>1, LinksAreFinite, FS_Subset
      <4>. HIDE DEF during
      <4>. QED BY <4>1, <4>2, FS_Subset, FS_CardinalityType
    <3>5. Cardinality(Onward(b)) <= High + 1 - Low
      BY <2>3 DEF FewPorts
    <3>6. Load(out, b) \in Nat /\ Load(sent, b) = Load(out, b) - 1
      BY <1>13, <2>1
    <3>. HIDE DEF during
    <3>. QED BY <2>1, <3>1, <3>2, <3>3, <3>4, <3>5, <3>6, LosslessAssumption
  <2>. QED BY <2>1, <2>2, <2>3
<1>19. resumes => /\ out'[b] \in Queues /\ out'[b].state_send = "READY"
                  /\ Awake(out'[b]) /\ (FewPorts(b) => Sound(out'[b]))
                  /\ out'[b].queue = sent[b].queue
  <2>. SUFFICES ASSUME resumes
                PROVE  /\ out'[b] \in Queues /\ out'[b].state_send = "READY"
                       /\ Awake(out'[b]) /\ (FewPorts(b) => Sound(out'[b]))
                       /\ out'[b].queue = sent[b].queue
    OBVIOUS
  <2>1. /\ b \in Links /\ sent[b].state_send # "READY" /\ sent[b] \in Queues
        /\ FewPorts(b) => /\ Sound(sent[b])
                          /\ b \in HostLinks => sent[b].state_send # "PAUSE_RECEIVED"
    BY <1>11, <1>18
  <2>2. out'[b] = Go(b, sent[b])
    BY <1>15, <2>1
  <2>. QED BY <2>1, <2>2, GoFacts
<1>20. \A m \in Links : /\ out'[m] \in Queues /\ out'[m].queue = sent[m].queue
                        /\ Awake(out'[m]) /\ (FewPorts(m) => Sound(out'[m]))
  BY <1>11, <1>15, <1>19
<1>21. out' \in [Links -> Queues]
  <2>1. out' = [m \in Links |-> out'[m]]
    BY <1>2
  <2>. QED BY <1>20, <2>1
<1>22. /\ Append(pipe[l], r) \in Seq(Flows) /\ Along(Append(pipe[l], r), l)
       /\ Len(Append(pipe[l], r)) = Len(pipe[l]) + 1 /\ Len(Append(pipe[l], r)) <= PipeSize
       /\ Len(pipe[l]) \in Nat
  <2>1. /\ Append(pipe[l], r) \in Seq(Flows) /\ Along(Append(pipe[l], r), l)
        /\ Len(Append(pipe[l], r)) = Len(pipe[l]) + 1
    BY <1>3, <1>4, AlongFacts
  <2>2. Len(pipe[l]) < PipeSize /\ PipeSize \in Nat /\ Len(pipe[l]) \in Nat
    BY <1>2, <1>3, LosslessAssumption DEF MayComplete
  <2>. QED BY <2>1, <2>2
<1>23. pipe'[l] = Append(pipe[l], r) /\ \A m \in Links \ {l} : pipe'[m] = pipe[m]
  BY <1>2, <1>3
<1>24. Types'
  <2>1. pipe' \in [Links -> Seq(Flows)]
    BY <1>2, <1>3, <1>22
  <2>2. ASSUME NEW m \in Links PROVE Len(pipe'[m]) <= PipeSize /\ Along(pipe'[m], m)
    <3>1. CASE m = l
      BY <1>22, <1>23, <3>1
    <3>2. CASE m # l
      BY <1>1, <1>23, <3>2 DEF Types
    <3>. QED BY <3>1, <3>2
  <2>3. ASSUME NEW m \in Links PROVE Along(out'[m].queue, m)
    <3>1. CASE m = l
      <4>1. out'[m].queue = Tail(out[l].queue)
        BY <1>8, <1>10, <1>20, <3>1
      <4>. QED BY <1>2, <1>3, <3>1, <4>1, AlongFacts
    <3>2. CASE m # l
      <4>1. out'[m].queue = out[m].queue
        BY <1>9, <1>20, <3>2
      <4>. QED BY <1>1, <4>1 DEF Types
    <3>. QED BY <3>1, <3>2
  <2>. QED BY <1>16, <1>21, <2>1, <2>2, <2>3 DEF Types
<1>25. out'[l] = sent[l] /\ \A m \in Links : ~(resumes /\ m = b) => out'[m] = sent[m]
  BY <1>15, <1>18
<1>26. Serving'
  <2>1. ASSUME NEW m \in Links
        PROVE  out'[m].state_send # "READY" <=> m \in Buffers /\ recv'[m] = "PAUSED"
    <3>1. CASE resumes /\ m = b
      BY <1>16, <1>18, <1>19, <3>1
    <3>2. CASE ~(resumes /\ m = b)
      <4>1. out'[m].state_send # "READY" <=> out[m].state_send # "READY"
        BY <1>8, <1>9, <1>10, <1>25, <3>2
      <4>2. m \in Buffers => recv'[m] = recv[m]
        BY <1>16, <3>2
      <4>. QED BY <1>1, <4>1, <4>2 DEF Serving
    <3>. QED BY <3>1, <3>2
  <2>. QED BY <1>20, <2>1 DEF Serving
<1>27. \A c \in Buffers : Load(out', c) = Load(sent, c)
  BY <1>20, LoadUnchanged
<1>28. Levels'
  <2>1. ASSUME NEW c \in Buffers
        PROVE  IF recv'[c] = "PAUSED" THEN Load(out', c) >= Low ELSE Load(out', c) <= High
    <3>1. IF recv[c] = "PAUSED" THEN Load(out, c) >= Low ELSE Load(out, c) <= High
      BY <1>1 DEF Levels
    <3>2. High \in Nat /\ Low \in Nat /\ Low < High
      BY LosslessAssumption
    <3>3. /\ Load(out, c) \in Nat /\ Load(out', c) \in Nat
          /\ Load(out', c) = Load(out, c) - (IF l \notin HostLinks /\ c = b THEN 1 ELSE 0)
      BY <1>13, <1>27
    <3>4. CASE resumes /\ c = b
      BY <1>14, <1>16, <1>27, <3>2, <3>3, <3>4
    <3>5. CASE ~resumes /\ c = b /\ l \notin HostLinks
      <4>1. recv'[c] = recv[c] /\ (recv[c] = "PAUSED" => ~(Load(out', c) < Low))
        BY <1>14, <1>16, <1>27, <3>5
      <4>. QED BY <3>1, <3>2, <3>3, <4>1
    <3>6. CASE ~(resumes /\ c = b) /\ (c # b \/ l \in HostLinks)
      BY <1>16, <3>1, <3>3, <3>6
    <3>. QED BY <3>4, <3>5, <3>6
  <2>. QED BY <2>1 DEF Levels
<1>29. Headroom'
  <2>. DEFINE flying(q) == IF q.state_send = "PAUSE_RECEIVED" THEN 1 ELSE 0
  <2>1. ASSUME NEW c \in Buffers, FewPorts(c), recv'[c] = "PAUSED"
        PROVE  Load(out', c) + Len(pipe'[c]) + flying(out'[c]) <= High + 1 + PipeSize
    <3>1. recv[c] = "PAUSED" /\ ~(resumes /\ c = b)
      BY <1>16, <2>1
    <3>2. Load(out, c) + Len(pipe[c]) + flying(out[c]) <= High + 1 + PipeSize
      BY <1>1, <2>1, <3>1 DEF Headroom, InFlight
    <3>3. /\ c \in Links /\ Len(pipe[c]) \in Nat /\ High \in Nat /\ PipeSize \in Nat
          /\ Load(out', c) \in Nat /\ Load(out, c) \in Nat /\ Load(out', c) <= Load(out, c)
      <4>1. c \in Links /\ Len(pipe[c]) \in Nat /\ High \in Nat /\ PipeSize \in Nat
        BY <1>3, <1>7, LosslessAssumption
      <4>2. Load(out', c) \in Nat /\ Load(out, c) \in Nat /\ Load(out', c) <= Load(out, c)
        BY <1>13, <1>27
      <4>. QED BY <4>1, <4>2
    <3>4. CASE c = l
      <4>1. out'[c] = sent[l] /\ Len(pipe'[c]) = Len(pipe[c]) + 1
        BY <1>22, <1>23, <1>25, <3>4
      <4>2. out[c].state_send = "PAUSE_RECEIVED" /\ out'[c].state_send = "PAUSED"
        BY <1>1, <1>8, <1>10, <2>1, <3>1, <3>3, <3>4, <4>1 DEF Serving
      <4>3. flying(out[c]) = 1 /\ flying(out'[c]) = 0
        BY <4>2
      <4>. HIDE DEF flying
      <4>. QED BY <3>2, <3>3, <4>1, <4>3
    <3>5. CASE c # l
      <4>1. pipe'[c] = pipe[c] /\ out'[c].state_send = out[c].state_send
        BY <1>9, <1>23, <1>25, <3>1, <3>3, <3>5
      <4>2. flying(out'[c]) = flying(out[c]) /\ flying(out[c]) \in {0, 1}
        BY <4>1
      <4>. HIDE DEF flying
      <4>. QED BY <3>2, <3>3, <4>1, <4>2
    <3>. QED BY <3>4, <3>5
  <2>. QED BY <2>1 DEF Headroom, InFlight
<1>30. Draining'
  <2>1. ASSUME NEW c \in Buffers \cap HostLinks, FewPorts(c), out'[c].state_send = "PAUSE_RECEIVED"
        PROVE  Load(out', c) + Cardinality(out'[c].meanwhile \cap Onward(c)) >= High + 1
    <3>. DEFINE before == out[c].meanwhile \cap Onward(c)
                now == out'[c].meanwhile \cap Onward(c)
    <3>1. c \in Links /\ ~(resumes /\ c = b) /\ c # l
      BY <1>7, <1>8, <1>10, <1>19, <1>25, <2>1
    <3>2. /\ out'[c].meanwhile = sent[c].meanwhile /\ out[c].state_send = "PAUSE_RECEIVED"
      BY <1>9, <1>25, <2>1, <3>1
    <3>3. out[c].services > 0 /\ out'[c].meanwhile = out[c].meanwhile \cup {l}
      <4>1. out[c].services = 1
        BY <1>1, <2>1, <3>1, <3>2 DEF Serving, Sound
      <4>. QED BY <1>9, <2>1, <3>1, <3>2, <4>1
    <3>4. Load(out, c) + Cardinality(before) >= High + 1
      BY <1>1, <2>1, <3>2 DEF Draining
    <3>5. IsFiniteSet(before) /\ Cardinality(before) \in Nat /\ l \notin before
      BY <1>17, <2>1, <3>1
    <3>6. now = IF l \in Onward(c) THEN before \cup {l} ELSE before
      BY <3>3
    <3>. HIDE DEF before, now
    <3>7. Cardinality(now) = Cardinality(before) + (IF l \in Onward(c) THEN 1 ELSE 0)
      <4>1. Cardinality(before \cup {l}) = Cardinality(before) + 1
        BY <3>5, FS_AddElement
      <4>2. CASE l \in Onward(c)
        BY <3>6, <4>1, <4>2
      <4>3. CASE l \notin Onward(c)
        BY <3>5, <3>6, <4>3
      <4>. QED BY <4>2, <4>3
    <3>8. l \notin HostLinks /\ c = b => l \in Onward(c)
      BY <1>6 DEF Onward
    <3>9. /\ Load(out, c) \in Nat
          /\ Load(out', c) = Load(out, c) - (IF l \notin HostLinks /\ c = b THEN 1 ELSE 0)
      BY <1>13, <1>27, <2>1
    <3>10. High \in Nat
      BY LosslessAssumption
    <3>11. Load(out', c) + Cardinality(now) >= High + 1
      BY <3>4, <3>5, <3>7, <3>8, <3>9, <3>10
    <3>. QED BY <3>11 DEF now
  <2>. QED BY <2>1 DEF Draining
<1>. QED BY <1>24, <1>26, <1>28, <1>29, <1>30 DEF LInv

-----------------------------------------------------------------------------
LEMMA LosslessInductive ==
  ASSUME Discipline = "LOSSLESS_INPUT"
  PROVE  Spec => []LInv
<1>1. Init => LInv
  BY InitHolds
<1>2. LInv /\ [Next]_vars => LInv'
  <2>. SUFFICES ASSUME LInv, [Next]_vars PROVE LInv'
    OBVIOUS
  <2>1. ASSUME NEW r \in Flows, Send(r) PROVE LInv'
    BY <2>1, SendHolds
  <2>2. ASSUME NEW l \in Links, SendOn(l) PROVE LInv'
    BY <2>2, SendOnHolds
  <2>3. ASSUME NEW l \in Links, PacketArrives(l) PROVE LInv'
    BY <2>3, PacketArrivesHolds
  <2>4. ASSUME NEW l \in Links, Deliver(l) PROVE LInv'
    BY <2>4, DeliverHolds
  <2>5. CASE UNCHANGED vars
    BY <2>5 DEF vars, LInv, Types, Serving, Levels, Headroom, Draining, InFlight
  <2>. QED BY <2>1, <2>2, <2>3, <2>4, <2>5 DEF Next, NextEvent
<1>. QED BY <1>1, <1>2, PTL DEF Spec

\* The input queues that switches feed, and those of hosts whose switch has few
\* ports, never overflow, whatever the routes, thresholds and pipes, provided they
\* leave the room the constructor asks for: what is underway when a pause is sent
\* still fits (queue_lossless_input.cpp:56).
THEOREM RoomIsKept ==
  ASSUME Discipline = "LOSSLESS_INPUT"
  PROVE  Spec => [](\A b \in Buffers : FewPorts(b) => Load(out, b) <= MaxSize)
<1>1. LInv => \A b \in Buffers : FewPorts(b) => Load(out, b) <= MaxSize
  <2>. SUFFICES ASSUME LInv, NEW b \in Buffers, FewPorts(b) PROVE Load(out, b) <= MaxSize
    OBVIOUS
  <2>1. /\ out \in [Links -> Queues] /\ pipe \in [Links -> Seq(Flows)] /\ b \in Links
    BY InputQueues DEF LInv, Types
  <2>2. Load(out, b) \in Nat /\ Len(pipe[b]) \in Nat /\ InFlight(b) \in {0, 1}
    <3>1. \A m \in Links \ {b} : out[m].queue = out[m].queue
      OBVIOUS
    <3>2. Load(out, b) \in Nat
      BY <2>1, <3>1, LoadChanges
    <3>. QED BY <2>1, <3>2 DEF InFlight
  <2>3. IF recv[b] = "PAUSED" THEN Load(out, b) + Len(pipe[b]) + InFlight(b) <= High + 1 + PipeSize
                              ELSE Load(out, b) <= High
    BY DEF LInv, Levels, Headroom
  <2>. QED BY <2>2, <2>3, LosslessAssumption
<1>. QED BY <1>1, LosslessInductive, PTL

\* Hence nothing is dropped in a network whose hosts are at switches with few ports.
THEOREM NothingIsDropped ==
  ASSUME Discipline = "LOSSLESS_INPUT", \A b \in Buffers : FewPorts(b)
  PROVE  Spec => []NothingOverflows
<1>1. (\A b \in Buffers : FewPorts(b) => Load(out, b) <= MaxSize) => NothingOverflows
  BY DEF NothingOverflows
<1>. QED BY <1>1, RoomIsKept, PTL

\* A queue is paused exactly while the input queue at the end of its link is, and
\* that one only while it is not nearly empty; whatever may be sent is being sent;
\* and service events find packets, of switches always, of hosts if no go can find
\* them serving.  All this although pause and go cross the packets being sent.
THEOREM PauseAndGoMatch ==
  ASSUME Discipline = "LOSSLESS_INPUT"
  PROVE  Spec => []PausesAreMatched
<1>1. LInv => PausesAreMatched
  <2>. SUFFICES ASSUME LInv
                PROVE  /\ \A l \in Links :
                            /\ (out[l].state_send # "READY") <=> (\E b \in Buffers : l \in Senders(b) /\ recv[b] = "PAUSED")
                            /\ out[l].state_send = "READY" /\ out[l].queue # <<>> => out[l].services > 0
                            /\ FewPorts(l) => out[l].services <= (IF out[l].queue = <<>> THEN 0 ELSE 1)
                       /\ \A b \in Buffers : recv[b] = "PAUSED" => Load(out, b) >= Low
    BY DEF PausesAreMatched
  <2>1. ASSUME NEW l \in Links
        PROVE  /\ (out[l].state_send # "READY") <=> (\E b \in Buffers : l \in Senders(b) /\ recv[b] = "PAUSED")
               /\ out[l].state_send = "READY" /\ out[l].queue # <<>> => out[l].services > 0
               /\ FewPorts(l) => out[l].services <= (IF out[l].queue = <<>> THEN 0 ELSE 1)
    <3>1. /\ out[l] \in Queues /\ Awake(out[l]) /\ (FewPorts(l) => Sound(out[l]))
          /\ (out[l].state_send # "READY" <=> l \in Buffers /\ recv[l] = "PAUSED")
      BY DEF LInv, Types, Serving
    <3>2. (\E b \in Buffers : l \in Senders(b) /\ recv[b] = "PAUSED") <=> l \in Buffers /\ recv[l] = "PAUSED"
      BY InputQueues
    <3>3. FewPorts(l) => out[l].services <= (IF out[l].queue = <<>> THEN 0 ELSE 1)
      BY <3>1, QueueFields DEF Sound
    <3>. QED BY <3>1, <3>2, <3>3 DEF Awake
  <2>2. \A b \in Buffers : recv[b] = "PAUSED" => Load(out, b) >= Low
    BY DEF LInv, Levels
  <2>. QED BY <2>1, <2>2
<1>. QED BY <1>1, LosslessInductive, PTL
=============================================================================
