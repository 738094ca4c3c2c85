------------------------- MODULE Forwarding_proofs -------------------------
(***************************************************************************)
(* Forwarding over any topology.  Where the routes get_paths returns lead  *)
(* over links from source to destination, and back over the same nodes, a  *)
(* packet is handed on where it is, also when it bounces, however long the *)
(* route is: the index arithmetic of bounce is what that proof is about.   *)
(* The rest shows of the topologies of clos/datacenter, BCube and CamCube  *)
(* excepted, that their routes do lead there for every size, and that the  *)
(* trees return every shortest path: each of the five trees builds the one *)
(* of PodTree, although they number its switches in terms of their own.    *)
(***************************************************************************)
EXTENDS Forwarding, PodTree, SharedLemmas, SequenceTheorems, TLAPS

\* What a run checks of each topology and the theorem assumes of all.
RoutesLead ==
  \A n \in Nets : \A pair \in Ends[n] : \A set \in PathSets[n][pair] : \A r \in set :
    IsRoute(r, pair[1], pair[2], n)

-----------------------------------------------------------------------------
(* The elements of a route.                                                *)

QueueOf(link) == Element("queue", link[1], link[2])
PipeOf(link) == Element("pipe", link[1], link[2])

\* A queue at the odd places, and its pipe behind it.
LEMMA ElementsOfLinks ==
  ASSUME NEW links, Len(links) \in Nat
  PROVE  /\ \E S : Elements(links) \in Seq(S)
         /\ Len(Elements(links)) = 2 * Len(links)
         /\ \A j \in 1..Len(links) : /\ Elements(links)[2 * j - 1] = QueueOf(links[j])
                                     /\ Elements(links)[2 * j] = PipeOf(links[j])
         /\ \A i \in 1..2 * Len(links) : \E j \in 1..Len(links) : i = 2 * j - 1 \/ i = 2 * j
<1>. DEFINE n == 2 * Len(links)
            at(i) == LET link == links[(i + 1) \div 2]
                     IN  Element(IF i % 2 = 1 THEN "queue" ELSE "pipe", link[1], link[2])
            S == {at(i) : i \in 1..n}
<1>1. n \in Nat
  OBVIOUS
<1>2. Elements(links) = [i \in 1..n |-> at(i)]
  BY DEF Elements
<1>3. Elements(links) \in Seq(S) /\ Len(Elements(links)) = n
  <2>. HIDE DEF n, at
  <2>. QED  BY <1>1, <1>2
<1>4. ASSUME NEW j \in 1..Len(links)
      PROVE  /\ Elements(links)[2 * j - 1] = QueueOf(links[j])
             /\ Elements(links)[2 * j] = PipeOf(links[j])
  <2>1. /\ 2 * j - 1 \in 1..n /\ (2 * j - 1) % 2 = 1 /\ ((2 * j - 1) + 1) \div 2 = j
        /\ 2 * j \in 1..n /\ (2 * j) % 2 = 0 /\ (2 * j + 1) \div 2 = j
    OBVIOUS
  <2>2. Elements(links)[2 * j - 1] = at(2 * j - 1) /\ Elements(links)[2 * j] = at(2 * j)
    <3>. HIDE DEF n, at
    <3>. QED  BY <1>2, <2>1
  <2>. QED  BY <2>1, <2>2 DEF QueueOf, PipeOf
<1>5. ASSUME NEW i \in 1..n PROVE \E j \in 1..Len(links) : i = 2 * j - 1 \/ i = 2 * j
  <2>1. (i + 1) \div 2 \in 1..Len(links)
    OBVIOUS
  <2>2. i = 2 * ((i + 1) \div 2) - 1 \/ i = 2 * ((i + 1) \div 2)
    OBVIOUS
  <2>. QED  BY <2>1, <2>2
<1>. QED  BY <1>3, <1>4, <1>5

Feeders(r) == IF r.feeder THEN 1 ELSE 0

\* The places on a route with its endpoints.
LEMMA OutOf ==
  ASSUME NEW r, Len(r.out) \in Nat
  PROVE  /\ Len(Out(r)) = Feeders(r) + 2 * Len(r.out) + 1
         /\ r.feeder => Out(r)[1] = Element("feeder", src, src)
         /\ \A i \in 1..2 * Len(r.out) : Out(r)[Feeders(r) + i] = Elements(r.out)[i]
         /\ Out(r)[Feeders(r) + 2 * Len(r.out) + 1] = End(dst)
<1>1. PICK S : Elements(r.out) \in Seq(S) /\ Len(Elements(r.out)) = 2 * Len(r.out)
  BY ElementsOfLinks
<1>. DEFINE feeder == IF r.feeder THEN <<Element("feeder", src, src)>> ELSE <<>>
            m == Elements(r.out)
            T == S \cup {Element("feeder", src, src), End(dst)}
<1>2. Seq(S) \subseteq Seq(T)
  OBVIOUS
<1>3. /\ feeder \in Seq(T) /\ m \in Seq(T) /\ <<End(dst)>> \in Seq(T)
      /\ Len(m) = 2 * Len(r.out)
      /\ Len(feeder) = Feeders(r) /\ Feeders(r) \in 0..1
      /\ r.feeder => feeder[1] = Element("feeder", src, src) /\ Feeders(r) = 1
  <2>1. m \in Seq(T) /\ Len(m) = 2 * Len(r.out)
    BY <1>1, <1>2
  <2>. DEFINE first == Element("feeder", src, src)
              last == End(dst)
  <2>2. first \in T /\ last \in T
    OBVIOUS
  <2>. HIDE DEF first, last, T
  <2>3. <<last>> \in Seq(T)
    BY <2>2
  <2>4. CASE r.feeder
    <3>1. feeder = <<first>> /\ Feeders(r) = 1
      BY <2>4 DEF Feeders, first
    <3>2. <<first>> \in Seq(T) /\ Len(<<first>>) = 1 /\ <<first>>[1] = first
      BY <2>2
    <3>. QED  BY <2>1, <2>3, <3>1, <3>2 DEF first, last
  <2>5. CASE ~r.feeder
    <3>1. feeder = <<>> /\ Feeders(r) = 0
      BY <2>5 DEF Feeders
    <3>2. <<>> \in Seq(T) /\ Len(<<>>) = 0
      OBVIOUS
    <3>. QED  BY <2>1, <2>3, <2>5, <3>1, <3>2 DEF last
  <2>. QED  BY <2>4, <2>5
<1>4. Out(r) = (feeder \o m) \o <<End(dst)>>
  BY DEF Out
<1>. HIDE DEF feeder, m, T
<1>5. /\ feeder \o m \in Seq(T) /\ Len(feeder \o m) = Feeders(r) + 2 * Len(r.out)
      /\ \A i \in 1..Feeders(r) + 2 * Len(r.out) :
           (feeder \o m)[i] = IF i <= Feeders(r) THEN feeder[i] ELSE m[i - Feeders(r)]
  <2>1. Len(feeder) + Len(m) = Feeders(r) + 2 * Len(r.out)
    BY <1>3
  <2>2. /\ feeder \o m \in Seq(T) /\ Len(feeder \o m) = Len(feeder) + Len(m)
        /\ \A i \in 1..Len(feeder) + Len(m) :
             (feeder \o m)[i] = IF i <= Len(feeder) THEN feeder[i] ELSE m[i - Len(feeder)]
    BY <1>3, ConcatProperties
  <2>. QED  BY <1>3, <2>1, <2>2
<1>6. /\ Len(Out(r)) = Feeders(r) + 2 * Len(r.out) + 1
      /\ \A i \in 1..Feeders(r) + 2 * Len(r.out) + 1 :
           Out(r)[i] = IF i <= Feeders(r) + 2 * Len(r.out) THEN (feeder \o m)[i] ELSE End(dst)
  <2>1. Len(<<End(dst)>>) = 1 /\ <<End(dst)>>[1] = End(dst)
    OBVIOUS
  <2>. HIDE DEF End
  <2>. QED  BY <1>3, <1>4, <1>5, <2>1, ConcatProperties
<1>7. r.feeder => Out(r)[1] = Element("feeder", src, src)
  BY <1>3, <1>5, <1>6
<1>. DEFINE N == 2 * Len(r.out)
            F == Feeders(r)
<1>8. /\ \A i \in 1..2 * Len(r.out) : Out(r)[Feeders(r) + i] = m[i]
      /\ Out(r)[Feeders(r) + 2 * Len(r.out) + 1] = End(dst)
  <2>1. N \in Nat /\ F \in Nat
    BY <1>3
  <2>2. \A i \in 1..N : F + i \in 1..F + N + 1 /\ F + i <= F + N /\ F + i \in 1..F + N
                        /\ ~(F + i <= F) /\ (F + i) - F = i
    <3>. HIDE DEF N, F
    <3>. QED  BY <2>1
  <2>3. F + N + 1 \in 1..F + N + 1 /\ ~(F + N + 1 <= F + N)
    <3>. HIDE DEF N, F
    <3>. QED  BY <2>1
  <2>4. /\ \A i \in 1..F + N + 1 : Out(r)[i] = IF i <= F + N THEN (feeder \o m)[i] ELSE End(dst)
        /\ \A i \in 1..F + N : (feeder \o m)[i] = IF i <= F THEN feeder[i] ELSE m[i - F]
    BY <1>5, <1>6
  <2>5. (\A i \in 1..N : Out(r)[F + i] = m[i]) /\ Out(r)[F + N + 1] = End(dst)
    <3>. HIDE DEF N, F
    <3>. QED  BY <2>2, <2>3, <2>4
  <2>. QED  BY <2>5
<1>. QED  BY <1>6, <1>7, <1>8 DEF m

\* The places of a reverse route.
LEMMA BackOf ==
  ASSUME NEW r, Len(r.back) \in Nat
  PROVE  /\ Len(Back(r)) = 2 * Len(r.back) + 1
         /\ \A i \in 1..2 * Len(r.back) : Back(r)[i] = Elements(r.back)[i]
         /\ Back(r)[2 * Len(r.back) + 1] = End(src)
<1>1. PICK S : Elements(r.back) \in Seq(S) /\ Len(Elements(r.back)) = 2 * Len(r.back)
  BY ElementsOfLinks
<1>. DEFINE m == Elements(r.back)
            T == S \cup {End(src)}
<1>2. Seq(S) \subseteq Seq(T)
  OBVIOUS
<1>3. /\ m \in Seq(T) /\ <<End(src)>> \in Seq(T)
      /\ Len(<<End(src)>>) = 1 /\ <<End(src)>>[1] = End(src)
  BY <1>1, <1>2
<1>4. Back(r) = m \o <<End(src)>>
  BY DEF Back
<1>. HIDE DEF m, T
<1>5. /\ Len(Back(r)) = 2 * Len(r.back) + 1
      /\ \A i \in 1..2 * Len(r.back) + 1 :
           Back(r)[i] = IF i <= 2 * Len(r.back) THEN m[i] ELSE End(src)
  <2>. DEFINE last == <<End(src)>>
  <2>1. /\ Len(m \o last) = Len(m) + Len(last)
        /\ \A i \in 1..Len(m) + Len(last) :
             (m \o last)[i] = IF i <= Len(m) THEN m[i] ELSE last[i - Len(m)]
    <3>. HIDE DEF last
    <3>. QED  BY <1>3, ConcatProperties DEF last
  <2>2. Len(m) = 2 * Len(r.back) /\ Len(m) \in Nat
    BY <1>1 DEF m
  <2>. HIDE DEF End
  <2>. QED  BY <1>3, <1>4, <2>1, <2>2
<1>. QED  BY <1>5 DEF m

-----------------------------------------------------------------------------
(* Along a route, each element ends where the next one begins.             *)

Connected(elements, from) ==
  /\ elements[1].from = from
  /\ \A i \in 1..Len(elements) :
       /\ Exists(elements[i])
       /\ elements[i].kind \in {"feeder", "queue", "pipe", "end"}
       /\ elements[i].kind = "end" <=> i = Len(elements)
  /\ \A i \in 1..Len(elements) - 1 : Leaves(elements[i]) = elements[i + 1].from

\* A queue and a pipe of a link exist, and are at its ends.
LEMMA ElementsOfLink ==
  ASSUME NEW l, <<l[1], l[2]>> \in Links[net]
  PROVE  /\ Exists(QueueOf(l)) /\ QueueOf(l).kind = "queue"
         /\ Exists(PipeOf(l)) /\ PipeOf(l).kind = "pipe"
         /\ QueueOf(l).from = l[1] /\ Leaves(QueueOf(l)) = l[1]
         /\ PipeOf(l).from = l[1] /\ Leaves(PipeOf(l)) = l[2]
BY DEF Exists, Leaves, QueueOf, PipeOf, Element

\* The elements of a walk lead from one end to the other.
LEMMA LinksConnect ==
  ASSUME NEW links, NEW from, NEW to, Walks(links, from, to, net)
  PROVE  /\ Elements(links)[1].from = from
         /\ Leaves(Elements(links)[2 * Len(links)]) = to
         /\ \A i \in 1..2 * Len(links) :
              Exists(Elements(links)[i]) /\ Elements(links)[i].kind \in {"queue", "pipe"}
         /\ \A i \in 1..2 * Len(links) - 1 :
              Leaves(Elements(links)[i]) = Elements(links)[i + 1].from
<1>. DEFINE n == Len(links)
            m == Elements(links)
<1>1. n \in Nat \ {0} /\ links[1][1] = from /\ links[n][2] = to
  BY DEF Walks
<1>2. \A j \in 1..n : m[2 * j - 1] = QueueOf(links[j]) /\ m[2 * j] = PipeOf(links[j])
  BY <1>1, ElementsOfLinks
<1>3. \A j \in 1..n : /\ Exists(m[2 * j - 1]) /\ m[2 * j - 1].kind = "queue"
                      /\ Exists(m[2 * j]) /\ m[2 * j].kind = "pipe"
                      /\ m[2 * j - 1].from = links[j][1] /\ Leaves(m[2 * j - 1]) = links[j][1]
                      /\ m[2 * j].from = links[j][1] /\ Leaves(m[2 * j]) = links[j][2]
  <2>. SUFFICES ASSUME NEW j \in 1..n
                PROVE  /\ Exists(m[2 * j - 1]) /\ m[2 * j - 1].kind = "queue"
                       /\ Exists(m[2 * j]) /\ m[2 * j].kind = "pipe"
                       /\ m[2 * j - 1].from = links[j][1] /\ Leaves(m[2 * j - 1]) = links[j][1]
                       /\ m[2 * j].from = links[j][1] /\ Leaves(m[2 * j]) = links[j][2]
    OBVIOUS
  <2>1. <<links[j][1], links[j][2]>> \in Links[net]
    BY DEF Walks
  <2>2. m[2 * j - 1] = QueueOf(links[j]) /\ m[2 * j] = PipeOf(links[j])
    BY <1>2
  <2>. HIDE DEF m, n
  <2>. QED  BY <2>1, <2>2, ElementsOfLink
<1>4. \A i \in 1..2 * n : \E j \in 1..n : i = 2 * j - 1 \/ i = 2 * j
  BY <1>1, ElementsOfLinks
<1>. HIDE DEF m, n
<1>5. m[1].from = from /\ Leaves(m[2 * n]) = to
  <2>1. 1 \in 1..n /\ n \in 1..n /\ 2 * 1 - 1 = 1
    BY <1>1
  <2>. QED  BY <1>1, <1>3, <2>1
<1>6. \A i \in 1..2 * n : Exists(m[i]) /\ m[i].kind \in {"queue", "pipe"}
  <2>. SUFFICES ASSUME NEW i \in 1..2 * n
                PROVE  Exists(m[i]) /\ m[i].kind \in {"queue", "pipe"}
    OBVIOUS
  <2>1. PICK j \in 1..n : i = 2 * j - 1 \/ i = 2 * j
    BY <1>4
  <2>. QED  BY <1>3, <2>1
<1>7. ASSUME NEW i \in 1..2 * n - 1 PROVE Leaves(m[i]) = m[i + 1].from
  <2>. i \in 1..2 * n
    BY <1>1
  <2>1. PICK j \in 1..n : i = 2 * j - 1 \/ i = 2 * j
    BY <1>4
  <2>2. CASE i = 2 * j - 1
    <3>1. i + 1 = 2 * j
      BY <2>2
    <3>. QED  BY <1>3, <2>2, <3>1
  <2>3. CASE i = 2 * j
    <3>1. j \in 1..n - 1 /\ j + 1 \in 1..n /\ i + 1 = 2 * (j + 1) - 1
      BY <1>1, <2>3
    <3>2. links[j][2] = links[j + 1][1]
      BY <3>1 DEF Walks, n
    <3>. QED  BY <1>3, <2>3, <3>1, <3>2
  <2>. QED  BY <2>1, <2>2, <2>3
<1>. QED  BY <1>5, <1>6, <1>7 DEF m, n

\* The sink or source at the end of a route.
LEMMA EndOfRoute ==
  ASSUME NEW node
  PROVE  /\ End(node).kind = "end" /\ End(node).from = node /\ Exists(End(node))
         /\ Leaves(End(node)) = node
BY DEF End, Element, Exists, Leaves

\* The whole of a route, sink included.
LEMMA OutConnects ==
  ASSUME NEW r, IsRoute(r, src, dst, net)
  PROVE  Connected(Out(r), src) /\ Len(Out(r)) \in Nat \ {0}
<1>. DEFINE N == 2 * Len(r.out)
            F == Feeders(r)
            m == Elements(r.out)
            o == Out(r)
<1>1. Walks(r.out, src, dst, net) /\ Len(r.out) \in Nat \ {0} /\ N \in Nat /\ N >= 2
  BY DEF IsRoute, Walks
<1>2. F \in 0..1 /\ (F = 1 <=> r.feeder)
  BY DEF Feeders
<1>3. /\ Len(o) = F + N + 1
      /\ F = 1 => o[1] = Element("feeder", src, src)
      /\ \A i \in 1..N : o[F + i] = m[i]
      /\ o[F + N + 1] = End(dst)
  BY <1>1, <1>2, OutOf
<1>4. /\ m[1].from = src /\ Leaves(m[N]) = dst
      /\ \A i \in 1..N : Exists(m[i]) /\ m[i].kind \in {"queue", "pipe"}
      /\ \A i \in 1..N - 1 : Leaves(m[i]) = m[i + 1].from
  BY <1>1, LinksConnect
<1>5. F = 1 => /\ o[1].kind = "feeder" /\ o[1].from = src /\ Exists(o[1])
               /\ Leaves(o[1]) = src
  BY <1>3 DEF Element, Exists, Leaves
<1>6. o[F + N + 1].kind = "end" /\ o[F + N + 1].from = dst /\ Exists(o[F + N + 1])
  BY <1>3, EndOfRoute
<1>. HIDE DEF N, F, m, o
<1>7. \A i \in 1..F + N + 1 : \/ i = 1 /\ F = 1
                              \/ i = F + N + 1
                              \/ i - F \in 1..N /\ o[i] = m[i - F]
  <2>. SUFFICES ASSUME NEW i \in 1..F + N + 1, ~(i = 1 /\ F = 1), i # F + N + 1
                PROVE  i - F \in 1..N /\ o[i] = m[i - F]
    OBVIOUS
  <2>1. i - F \in 1..N /\ F + (i - F) = i
    BY <1>1, <1>2
  <2>. QED  BY <1>3, <2>1
<1>8. o[1].from = src
  <2>1. CASE F = 1
    BY <1>5, <2>1
  <2>2. CASE F = 0
    <3>1. o[1] = m[1]
      BY <1>1, <1>3, <2>2
    <3>. QED  BY <1>4, <3>1
  <2>. QED  BY <1>2, <2>1, <2>2
<1>9. ASSUME NEW i \in 1..F + N + 1
      PROVE  /\ Exists(o[i]) /\ o[i].kind \in {"feeder", "queue", "pipe", "end"}
             /\ o[i].kind = "end" <=> i = F + N + 1
  <2>1. CASE i = 1 /\ F = 1
    BY <1>1, <1>5, <2>1
  <2>2. CASE i = F + N + 1
    BY <1>6, <2>2
  <2>3. CASE i - F \in 1..N /\ o[i] = m[i - F]
    <3>1. i # F + N + 1
      BY <1>1, <1>2, <2>3
    <3>2. Exists(o[i]) /\ o[i].kind \in {"queue", "pipe"}
      BY <1>4, <2>3
    <3>. QED  BY <3>1, <3>2
  <2>. QED  BY <1>7, <2>1, <2>2, <2>3
<1>10. ASSUME NEW i \in 1..F + N PROVE Leaves(o[i]) = o[i + 1].from
  <2>1. CASE i = 1 /\ F = 1
    <3>1. o[i + 1] = m[1]
      BY <1>1, <1>3, <2>1
    <3>. QED  BY <1>4, <1>5, <2>1, <3>1
  <2>2. CASE i = F + N
    <3>1. N \in 1..N /\ o[i] = m[N]
      BY <1>1, <1>3, <2>2
    <3>. QED  BY <1>4, <1>6, <2>2, <3>1
  <2>3. CASE ~(i = 1 /\ F = 1) /\ i # F + N
    <3>1. /\ i - F \in 1..N - 1 /\ i - F \in 1..N /\ (i - F) + 1 \in 1..N
          /\ F + (i - F) = i /\ F + ((i - F) + 1) = i + 1
      BY <1>1, <1>2, <2>3
    <3>2. o[i] = m[i - F] /\ o[i + 1] = m[(i - F) + 1]
      BY <1>3, <3>1
    <3>. QED  BY <1>4, <3>1, <3>2
  <2>. QED  BY <2>1, <2>2, <2>3
<1>11. Len(o) - 1 = F + N /\ Len(o) \in Nat \ {0}
  BY <1>1, <1>2, <1>3
<1>. QED  BY <1>3, <1>8, <1>9, <1>10, <1>11 DEF Connected, o

\* The whole of a reverse route, source included.
LEMMA BackConnects ==
  ASSUME NEW r, Walks(r.back, dst, src, net)
  PROVE  Connected(Back(r), dst) /\ Len(Back(r)) = 2 * Len(r.back) + 1
<1>. DEFINE N == 2 * Len(r.back)
            m == Elements(r.back)
            o == Back(r)
<1>1. Len(r.back) \in Nat \ {0} /\ N \in Nat /\ N >= 2
  BY DEF Walks
<1>2. /\ Len(o) = N + 1 /\ o[N + 1] = End(src)
      /\ \A i \in 1..N : o[i] = m[i]
  BY <1>1, BackOf
<1>3. /\ m[1].from = dst /\ Leaves(m[N]) = src
      /\ \A i \in 1..N : Exists(m[i]) /\ m[i].kind \in {"queue", "pipe"}
      /\ \A i \in 1..N - 1 : Leaves(m[i]) = m[i + 1].from
  BY LinksConnect
<1>4. o[N + 1].kind = "end" /\ o[N + 1].from = src /\ Exists(o[N + 1])
  BY <1>2, EndOfRoute
<1>. HIDE DEF N, m, o
<1>5. ASSUME NEW i \in 1..N + 1
      PROVE  /\ Exists(o[i]) /\ o[i].kind \in {"feeder", "queue", "pipe", "end"}
             /\ o[i].kind = "end" <=> i = N + 1
  <2>1. i = N + 1 \/ i \in 1..N
    BY <1>1
  <2>2. N + 1 \notin 1..N
    BY <1>1
  <2>. QED  BY <1>2, <1>3, <1>4, <2>1, <2>2
<1>6. ASSUME NEW i \in 1..N PROVE Leaves(o[i]) = o[i + 1].from
  <2>1. CASE i = N
    BY <1>1, <1>2, <1>3, <1>4, <2>1
  <2>2. CASE i # N
    <3>1. i \in 1..N - 1 /\ i + 1 \in 1..N
      BY <1>1, <2>2
    <3>. QED  BY <1>2, <1>3, <3>1
  <2>. QED  BY <2>1, <2>2
<1>7. Len(o) - 1 = N /\ 1 \in 1..N
  BY <1>1, <1>2
<1>8. o[1].from = dst
  BY <1>2, <1>3, <1>7
<1>. QED  BY <1>2, <1>5, <1>6, <1>7, <1>8 DEF Connected, o, N

-----------------------------------------------------------------------------
(* Where the packet is.                                                    *)

Placed ==
  \/ packet.at = Element("source", src, src) /\ packet.nexthop = 0 /\ packet.bounced = FALSE
  \/ /\ packet.route \in paths /\ packet.bounced = FALSE
     /\ packet.nexthop \in 1..Len(Out(packet.route))
     /\ packet.at = Out(packet.route)[packet.nexthop]
  \/ /\ packet.route \in paths /\ packet.route.reversible /\ net \in Bouncing
     /\ packet.bounced = TRUE
     /\ packet.nexthop \in 1..Len(Back(packet.route))
     /\ packet.at = Back(packet.route)[packet.nexthop]

FInv ==
  /\ \A r \in paths : IsRoute(r, src, dst, net)
  /\ packet = [route |-> packet.route, nexthop |-> packet.nexthop,
               bounced |-> packet.bounced, at |-> packet.at]
  /\ Placed

Moved == /\ packet'.at # AssertFailed /\ Exists(packet'.at)
         /\ Leaves(packet.at) = packet'.at.from

\* An element of a route is no failed assert.
LEMMA NotFailed ==
  ASSUME NEW element, element.kind \in {"feeder", "queue", "pipe", "end"}
  PROVE  element # AssertFailed
BY DEF AssertFailed, Element

At(r, k, b, element) == [route |-> r, nexthop |-> k, bounced |-> b, at |-> element]

\* sendOn, on the way out.
LEMMA SendOnOut ==
  ASSUME NEW r, NEW k \in Nat, NEW element, Len(Out(r)) \in Nat, k < Len(Out(r))
  PROVE  SendOn(At(r, k, FALSE, element)) = At(r, k + 1, FALSE, Out(r)[k + 1])
BY DEF SendOn, At

\* sendOn, on the way back.
LEMMA SendOnBack ==
  ASSUME NEW r, NEW k \in Nat, NEW element, k > 0, k < Len(Out(r)), k < Len(Back(r))
  PROVE  SendOn(At(r, k, TRUE, element)) = At(r, k + 1, TRUE, Back(r)[k + 1])
BY DEF SendOn, At

\* What the source and a queue change.
LEMMA NewRoute ==
  ASSUME NEW r, NEW k, NEW b, NEW element, NEW s
  PROVE  [At(r, k, b, element) EXCEPT !.route = s] = At(s, k, b, element)
BY DEF At

\* What unbounce changes.
LEMMA Unbounced ==
  ASSUME NEW r, NEW k, NEW b, NEW element
  PROVE  Unbounce(At(r, k, b, element)) = At(r, 0, FALSE, element)
<1>1. \A c, n : [[At(r, k, b, element) EXCEPT !.bounced = c] EXCEPT !.nexthop = n] = At(r, n, c, element)
  <2>. TAKE c, n
  <2>1. [At(r, k, b, element) EXCEPT !.bounced = c] = At(r, k, c, element)
    BY DEF At
  <2>2. [At(r, k, c, element) EXCEPT !.nexthop = n] = At(r, n, c, element)
    BY DEF At
  <2>. QED  BY <2>1, <2>2
<1>2. Unbounce(At(r, k, b, element)) = [[At(r, k, b, element) EXCEPT !.bounced = FALSE] EXCEPT !.nexthop = 0]
  BY DEF Unbounce
<1>3. [[At(r, k, b, element) EXCEPT !.bounced = FALSE] EXCEPT !.nexthop = 0] = At(r, 0, FALSE, element)
  BY <1>1, Zenon
<1>. QED  BY <1>2, <1>3, Zenon

USE DEF At

\* The packet, as its four fields.
LEMMA PacketIs ==
  ASSUME FInv
  PROVE  \E r, k, b, element :
           /\ packet = At(r, k, b, element)
           /\ r = packet.route /\ k = packet.nexthop /\ b = packet.bounced /\ element = packet.at
BY DEF FInv, At

\* The source sends the packet, for the first time or again.
LEMMA Sent ==
  ASSUME FInv, NEW r \in paths, UNCHANGED <<net, src, dst, paths>>,
         packet' = SendOn(At(r, 0, FALSE, packet.at)),
         Leaves(packet.at) = src
  PROVE  FInv' /\ Moved
<1>1. IsRoute(r, src, dst, net) /\ Connected(Out(r), src) /\ Len(Out(r)) \in Nat \ {0}
  BY OutConnects DEF FInv
<1>2. packet' = [route |-> r, nexthop |-> 1, bounced |-> FALSE, at |-> Out(r)[1]]
  <2>1. 0 \in Nat /\ 0 < Len(Out(r)) /\ 0 + 1 = 1
    BY <1>1
  <2>2. packet' = At(r, 0 + 1, FALSE, Out(r)[0 + 1])
    BY <1>1, <2>1, SendOnOut
  <2>. QED  BY <2>1, <2>2 DEF At
<1>3. 1 \in 1..Len(Out(r)) /\ Out(r)' = Out(r)
  BY <1>1 DEF Out
<1>4. Moved
  <2>1. Out(r)[1] # AssertFailed /\ Exists(Out(r)[1]) /\ Out(r)[1].from = src
    BY <1>1, <1>3, NotFailed DEF Connected
  <2>2. packet'.at = Out(r)[1]
    BY <1>2
  <2>. QED  BY <2>1, <2>2 DEF Moved, Exists
<1>5. FInv'
  <2>1. \A q \in paths : IsRoute(q, src, dst, net)'
    BY DEF FInv, IsRoute, Walks, Mirrors
  <2>2. /\ packet'.route = r /\ packet'.nexthop = 1 /\ packet'.bounced = FALSE
        /\ packet'.at = Out(r)[1]
    BY <1>2
  <2>. QED  BY <1>2, <1>3, <2>1, <2>2 DEF FInv, Placed
<1>. QED  BY <1>4, <1>5

\* A queue or a pipe hands it on.
LEMMA HandedOn ==
  ASSUME FInv, Forward
  PROVE  FInv' /\ Moved
<1>. DEFINE r == packet.route
            k == packet.nexthop
<1>1. /\ packet.at.kind \in {"feeder", "queue", "pipe"} /\ packet' = SendOn(packet)
      /\ UNCHANGED <<net, src, dst, paths>>
  BY DEF Forward
<1>2. CASE /\ r \in paths /\ packet.bounced = FALSE
           /\ k \in 1..Len(Out(r)) /\ packet.at = Out(r)[k]
  <2>1. Connected(Out(r), src) /\ Len(Out(r)) \in Nat \ {0}
    BY <1>2, OutConnects DEF FInv
  <2>2. k # Len(Out(r))
    BY <1>1, <1>2, <2>1 DEF Connected
  <2>3. k \in 1..Len(Out(r)) - 1 /\ k + 1 \in 1..Len(Out(r)) /\ k < Len(Out(r))
    BY <1>2, <2>1, <2>2
  <2>4. packet' = [route |-> r, nexthop |-> k + 1, bounced |-> FALSE, at |-> Out(r)[k + 1]]
    BY <1>1, <1>2, <2>3 DEF SendOn, FInv
  <2>5. Moved
    <3>1. /\ Out(r)[k + 1] # AssertFailed /\ Exists(Out(r)[k + 1])
          /\ Leaves(Out(r)[k]) = Out(r)[k + 1].from
      BY <2>1, <2>3, NotFailed DEF Connected
    <3>. QED  BY <1>1, <1>2, <2>4, <3>1 DEF Moved, Exists
  <2>6. FInv'
    <3>1. Out(r)' = Out(r)
      BY <1>1, <2>4 DEF Out
    <3>. QED  BY <1>1, <1>2, <2>3, <2>4, <3>1 DEF FInv, Placed, IsRoute, Walks, Mirrors
  <2>. QED  BY <2>5, <2>6
<1>3. CASE /\ r \in paths /\ r.reversible /\ net \in Bouncing /\ packet.bounced = TRUE
           /\ k \in 1..Len(Back(r)) /\ packet.at = Back(r)[k]
  <2>1. /\ Connected(Back(r), dst) /\ Len(Back(r)) = 2 * Len(r.back) + 1
        /\ Len(r.back) = Len(r.out) /\ Len(r.out) \in Nat
        /\ Len(Out(r)) = 2 * Len(r.out) + 1
    <3>1. IsRoute(r, src, dst, net)
      BY <1>3 DEF FInv
    <3>2. Len(Out(r)) = 0 + 2 * Len(r.out) + 1 /\ Len(r.out) \in Nat
      BY <1>3, <3>1, OutOf DEF IsRoute, Walks, Feeders
    <3>. QED  BY <1>3, <3>1, <3>2, BackConnects DEF IsRoute, Mirrors
  <2>2. k # Len(Back(r))
    BY <1>1, <1>3, <2>1 DEF Connected
  <2>3. /\ k \in 1..Len(Back(r)) - 1 /\ k + 1 \in 1..Len(Back(r)) /\ k < Len(Back(r))
        /\ k > 0 /\ k < Len(Out(r))
    BY <1>3, <2>1, <2>2
  <2>4. packet' = [route |-> r, nexthop |-> k + 1, bounced |-> TRUE, at |-> Back(r)[k + 1]]
    BY <1>1, <1>3, <2>3 DEF SendOn, FInv
  <2>5. Moved
    <3>1. /\ Back(r)[k + 1] # AssertFailed /\ Exists(Back(r)[k + 1])
          /\ Leaves(Back(r)[k]) = Back(r)[k + 1].from
      BY <2>1, <2>3, NotFailed DEF Connected
    <3>. QED  BY <1>1, <1>3, <2>4, <3>1 DEF Moved, Exists
  <2>6. FInv'
    <3>1. Back(r)' = Back(r)
      BY <1>1, <2>4 DEF Back
    <3>. QED  BY <1>1, <1>3, <2>3, <2>4, <3>1 DEF FInv, Placed, IsRoute, Walks, Mirrors
  <2>. QED  BY <2>5, <2>6
<1>4. packet.at # Element("source", src, src)
  BY <1>1 DEF Element
<1>. QED  BY <1>2, <1>3, <1>4 DEF FInv, Placed

\* The j-th queue of the route is at the near end of link j; the packet turns
\* around to the queue of the reverse of link j - 1, or to its source.
LEMMA Returned ==
  ASSUME FInv, Return
  PROVE  FInv' /\ Moved
<1>. DEFINE r == packet.route
            k == packet.nexthop
            n == Len(r.out)
<1>1. /\ packet.at.kind = "queue" /\ packet' = SendOn(Bounce(packet))
      /\ UNCHANGED <<net, src, dst, paths>>
      /\ net \in Bouncing /\ r.reversible
      /\ packet.bounced = FALSE
  BY DEF Return, FInv, Placed
<1>2. /\ r \in paths /\ k \in 1..Len(Out(r)) /\ packet.at = Out(r)[k]
  BY <1>1 DEF FInv, Placed, Element
<1>3. /\ IsRoute(r, src, dst, net) /\ ~r.feeder /\ Walks(r.out, src, dst, net)
      /\ Walks(r.back, dst, src, net) /\ Mirrors(r.back, r.out)
      /\ n \in Nat \ {0} /\ Len(r.back) = n
  BY <1>1, <1>2 DEF FInv, IsRoute, Walks, Mirrors
<1>4. /\ Len(Out(r)) = 2 * n + 1
      /\ \A i \in 1..2 * n : Out(r)[i] = Elements(r.out)[i]
      /\ Out(r)[2 * n + 1].kind = "end"
  <2>1. Feeders(r) = 0
    BY <1>3 DEF Feeders
  <2>2. /\ Len(Out(r)) = 0 + 2 * n + 1
        /\ \A i \in 1..2 * n : Out(r)[0 + i] = Elements(r.out)[i]
        /\ Out(r)[0 + 2 * n + 1] = End(dst)
    BY <1>3, <2>1, OutOf
  <2>. QED  BY <1>3, <2>2, EndOfRoute
<1>5. PICK j \in 1..n : k = 2 * j - 1 /\ packet.at = QueueOf(r.out[j])
  <2>1. k \in 1..2 * n
    BY <1>1, <1>2, <1>3, <1>4
  <2>2. PICK j \in 1..n : k = 2 * j - 1 \/ k = 2 * j
    BY <1>3, <2>1, ElementsOfLinks
  <2>3. Elements(r.out)[2 * j - 1] = QueueOf(r.out[j]) /\ Elements(r.out)[2 * j] = PipeOf(r.out[j])
    BY <1>3, ElementsOfLinks
  <2>4. k # 2 * j
    BY <1>1, <1>2, <1>4, <2>1, <2>3 DEF PipeOf, Element
  <2>. QED  BY <1>2, <1>4, <2>1, <2>2, <2>3, <2>4
<1>. DEFINE b == 2 * n + 1 - k
<1>6. b \in 1..2 * n /\ b + 1 \in 1..2 * n + 1 /\ b + 1 = 2 * (n + 2 - j) - 1
  <2>1. n \in Nat \ {0} /\ j \in 1..n /\ k = 2 * j - 1
    BY <1>3, <1>5
  <2>. HIDE DEF n, k
  <2>. QED  BY <2>1
<1>7. Connected(Back(r), dst) /\ Len(Back(r)) = 2 * n + 1
  BY <1>3, BackConnects
<1>8. packet' = [route |-> r, nexthop |-> b + 1, bounced |-> TRUE, at |-> Back(r)[b + 1]]
  <2>1. Bounce(packet) = At(r, b, TRUE, packet.at)
    <3>1. PICK s, i, c, element :
            /\ packet = At(s, i, c, element)
            /\ s = packet.route /\ i = packet.nexthop /\ element = packet.at
      BY PacketIs
    <3>2. \A d, m : [[packet EXCEPT !.bounced = d] EXCEPT !.nexthop = m] = At(s, m, d, element)
      <4>. TAKE d, m
      <4>. HIDE DEF r, k, n, b
      <4>1. [packet EXCEPT !.bounced = d] = At(s, i, d, element)
        BY <3>1
      <4>2. [At(s, i, d, element) EXCEPT !.nexthop = m] = At(s, m, d, element)
        OBVIOUS
      <4>. QED  BY <4>1, <4>2
    <3>3. Len(Out(r)) - k = b
      <4>1. Len(Out(r)) = 2 * n + 1 /\ n \in Nat /\ k \in Nat
        BY <1>2, <1>3, <1>4
      <4>. HIDE DEF r, k, n
      <4>. QED  BY <4>1
    <3>. HIDE DEF At, n, b
    <3>4. Bounce(packet) = [[packet EXCEPT !.bounced = TRUE] EXCEPT !.nexthop = b]
      <4>1. Bounce(packet) = [[packet EXCEPT !.bounced = TRUE] EXCEPT !.nexthop = Len(Out(r)) - k]
        BY DEF Bounce
      <4>. QED  BY <3>3, <4>1, Zenon
    <3>5. [[packet EXCEPT !.bounced = TRUE] EXCEPT !.nexthop = b] = At(s, b, TRUE, element)
      BY <3>2, Zenon
    <3>6. s = r /\ element = packet.at
      BY <3>1
    <3>. QED  BY <3>4, <3>5, <3>6, Zenon
  <2>. HIDE DEF b, n
  <2>2. b \in Nat /\ b > 0 /\ b < Len(Out(r)) /\ b < Len(Back(r))
    BY <1>3, <1>4, <1>6, <1>7
  <2>3. packet' = At(r, b + 1, TRUE, Back(r)[b + 1])
    BY <1>1, <2>1, <2>2, SendOnBack
  <2>. QED  BY <2>3 DEF At
<1>9. Back(r)[b + 1].from = r.out[j][1]
  <2>1. CASE j = 1
    <3>1. b + 1 = 2 * n + 1 /\ r.out[1][1] = src
      BY <1>3, <1>6, <2>1 DEF Walks
    <3>2. Back(r)[2 * n + 1] = End(src)
      BY <1>3, BackOf
    <3>. QED  BY <2>1, <3>1, <3>2, EndOfRoute
  <2>2. CASE j # 1
    <3>. DEFINE m == n + 2 - j
    <3>1. /\ m \in 1..n /\ n + 1 - m = j - 1 /\ j - 1 \in 1..n - 1 /\ (j - 1) + 1 = j
          /\ 2 * m - 1 \in 1..2 * n /\ b + 1 = 2 * m - 1
      <4>1. n \in Nat \ {0} /\ j \in 1..n /\ j # 1 /\ b + 1 = 2 * (n + 2 - j) - 1
        BY <1>3, <1>6, <2>2
      <4>. HIDE DEF n, b
      <4>. QED  BY <4>1
    <3>2. Back(r)[2 * m - 1] = QueueOf(r.back[m])
      <4>1. Len(r.back) \in Nat /\ Len(r.back) = n
        BY <1>3
      <4>2. /\ \A i \in 1..2 * n : Back(r)[i] = Elements(r.back)[i]
            /\ \A i \in 1..n : Elements(r.back)[2 * i - 1] = QueueOf(r.back[i])
        BY <4>1, BackOf, ElementsOfLinks
      <4>. HIDE DEF m, n
      <4>. QED  BY <3>1, <4>2
    <3>3. r.back[m][1] = r.out[j - 1][2]
      <4>. HIDE DEF m
      <4>. QED  BY <1>3, <3>1 DEF Mirrors
    <3>4. r.out[j - 1][2] = r.out[j][1]
      BY <1>3, <3>1 DEF Walks
    <3>. QED  BY <3>1, <3>2, <3>3, <3>4 DEF QueueOf, Element
  <2>. QED  BY <2>1, <2>2
<1>10. Moved
  <2>1. Back(r)[b + 1] # AssertFailed /\ Exists(Back(r)[b + 1])
    BY <1>6, <1>7, NotFailed DEF Connected
  <2>2. Leaves(packet.at) = r.out[j][1]
    BY <1>5 DEF Leaves, QueueOf, Element
  <2>. QED  BY <1>1, <1>8, <1>9, <2>1, <2>2 DEF Moved, Exists
<1>11. FInv'
  <2>1. Back(r)' = Back(r)
    BY <1>1, <1>8 DEF Back
  <2>2. \A q \in paths : IsRoute(q, src, dst, net)'
    BY <1>1 DEF FInv, IsRoute, Walks, Mirrors
  <2>. HIDE DEF b, n
  <2>3. b + 1 \in 1..Len(Back(r))
    BY <1>6, <1>7
  <2>. QED  BY <1>1, <1>2, <1>8, <2>1, <2>2, <2>3 DEF FInv, Placed
<1>. QED  BY <1>10, <1>11

\* Every action moves the packet and keeps the invariant.
LEMMA ForwardingStep ==
  ASSUME FInv, ForwardingNext
  PROVE  FInv' /\ Moved
<1>1. CASE Start
  <2>1. PICK r \in paths : packet' = SendOn([packet EXCEPT !.route = r])
    BY <1>1 DEF Start
  <2>2. packet.at = Element("source", src, src) /\ packet.nexthop = 0 /\ packet.bounced = FALSE
    <3>1. packet.at.kind = "source"
      BY <1>1 DEF Start
    <3>2. ASSUME NEW s \in paths, NEW i \in 1..Len(Out(s)) PROVE Out(s)[i].kind # "source"
      BY <3>2, OutConnects DEF FInv, Connected
    <3>3. ASSUME NEW s \in paths, NEW i \in 1..Len(Back(s)), s.reversible, net \in Bouncing
          PROVE  Back(s)[i].kind # "source"
      BY <3>3, BackConnects DEF FInv, Connected, IsRoute
    <3>. QED  BY <3>1, <3>2, <3>3 DEF FInv, Placed
  <2>3. [packet EXCEPT !.route = r] = At(r, 0, FALSE, packet.at)
    <3>1. PICK s, i, b, element :
            /\ packet = At(s, i, b, element)
            /\ i = packet.nexthop /\ b = packet.bounced /\ element = packet.at
      BY PacketIs
    <3>2. [packet EXCEPT !.route = r] = At(r, i, b, element)
      BY <3>1, NewRoute
    <3>. QED  BY <2>2, <3>1, <3>2
  <2>4. Leaves(packet.at) = src
    BY <2>2 DEF Leaves, Element
  <2>. QED  BY <1>1, <2>1, <2>3, <2>4, Sent DEF Start
<1>2. CASE Resend
  <2>1. PICK r \in paths : packet' = SendOn([Unbounce(packet) EXCEPT !.route = r])
    BY <1>2 DEF Resend
  <2>2. [Unbounce(packet) EXCEPT !.route = r] = At(r, 0, FALSE, packet.at)
    <3>1. PICK s, i, b, element : packet = At(s, i, b, element) /\ element = packet.at
      BY PacketIs
    <3>2. Unbounce(packet) = At(s, 0, FALSE, element)
      <4>. HIDE DEF At
      <4>1. Unbounce(At(s, i, b, element)) = At(s, 0, FALSE, element)
        BY Unbounced
      <4>. QED  BY <3>1, <4>1, Zenon
    <3>3. [At(s, 0, FALSE, element) EXCEPT !.route = r] = At(r, 0, FALSE, element)
      BY NewRoute
    <3>. QED  BY <3>1, <3>2, <3>3
  <2>3. Leaves(packet.at) = src
    BY <1>2, EndOfRoute DEF Resend
  <2>. QED  BY <1>2, <2>1, <2>2, <2>3, Sent DEF Resend
<1>. QED  BY <1>1, <1>2, HandedOn, Returned DEF ForwardingNext

\* In every topology whose routes lead over its links, a packet is always at a
\* queue or pipe that exists, which begins where the one before it ends, and no
\* assertion of sendOn fails, however often and wherever queues return it.
THEOREM PacketsMoveAlongLinks ==
  ASSUME RoutesLead
  PROVE  ForwardingSpec => MovesAlongLinks
<1>1. ForwardingInit => FInv
  BY DEF ForwardingInit, RoutesLead, FInv, Placed, OneWay
<1>2. FInv /\ [ForwardingNext]_forwardingVars => FInv' /\ [Moved]_packet
  <2>1. ASSUME FInv, UNCHANGED forwardingVars PROVE FInv' /\ UNCHANGED packet
    BY <2>1 DEF forwardingVars, FInv, Placed, IsRoute, Walks, Mirrors, Out, Back
  <2>. QED  BY <2>1, ForwardingStep
<1>3. ForwardingSpec => [][Moved]_packet
  BY <1>1, <1>2, PTL DEF ForwardingSpec
<1>. QED  BY <1>3 DEF MovesAlongLinks, Moved

-----------------------------------------------------------------------------
(* Shortest walks, over any links.                                         *)

-----------------------------------------------------------------------------

\* Within, as the recursion it is.
LEMMA WithinIs ==
  ASSUME NEW hops \in Nat
  PROVE  /\ Within(hops)[0] = {dst}
         /\ \A i \in 1..hops : Within(hops)[i] = Closer(Within(hops)[i - 1])
<1>. DEFINE N == {dst} \cup {l[1] : l \in Links[net]}
            D == SUBSET N
            step == [i \in 1..hops |-> [nodes \in D |-> Closer(nodes)]]
            Is(f) == f = [i \in 0..hops |-> IF i = 0 THEN {dst} ELSE Closer(f[i - 1])]
<1>1. \A nodes \in D : Closer(nodes) \in D
  BY DEF Closer
<1>2. \E f : Is(f)
  <2>1. step \in [1..hops -> [D -> D]] /\ {dst} \in D
    BY <1>1
  <2>2. RunsOf(D, {dst}, hops, step) # {}
    <3>. HIDE DEF step, D
    <3>. QED  BY <2>1, RecursionExists
  <2>3. PICK f \in [0..hops -> D] : f[0] = {dst} /\ \A i \in 1..hops : f[i] = step[i][f[i - 1]]
    <3>. HIDE DEF step, D
    <3>. QED  BY <2>2 DEF RunsOf
  <2>4. ASSUME NEW i \in 1..hops PROVE f[i] = Closer(f[i - 1])
    <3>1. i - 1 \in 0..hops
      OBVIOUS
    <3>2. f[i - 1] \in D
      BY <2>3, <3>1
    <3>. QED  BY <2>3, <3>2
  <2>5. f = [i \in 0..hops |-> f[i]]
    BY <2>3
  <2>6. \A i \in 0..hops : f[i] = IF i = 0 THEN {dst} ELSE Closer(f[i - 1])
    BY <2>3, <2>4
  <2>7. Is(f)
    <3>. HIDE DEF D
    <3>. QED  BY <2>5, <2>6
  <2>. QED  BY <2>7
<1>3. Within(hops) = CHOOSE f : Is(f)
  BY DEF Within
<1>. DEFINE F == Within(hops)
<1>4. Is(F)
  <2>. HIDE DEF Is
  <2>. QED  BY <1>2, <1>3
<1>5. \A i \in 0..hops : F[i] = IF i = 0 THEN {dst} ELSE Closer(F[i - 1])
  <2>. HIDE DEF F
  <2>. QED  BY <1>4
<1>6. F[0] = {dst} /\ \A i \in 1..hops : F[i] = Closer(F[i - 1])
  <2>. HIDE DEF F
  <2>. QED  BY <1>5
<1>. QED  BY <1>6

\* A sequence of sets that only grows by the nodes a link leads from bounds Within.
LEMMA WithinBounds ==
  ASSUME NEW hops \in Nat, NEW B,
         dst \in B[0], \A i \in 1..hops : Closer(B[i - 1]) \subseteq B[i]
  PROVE  \A i \in 0..hops : Within(hops)[i] \subseteq B[i]
<1>. DEFINE S == {i \in Nat : i <= hops => Within(hops)[i] \subseteq B[i]}
<1>1. 0 \in S
  BY WithinIs
<1>2. ASSUME NEW i \in Nat, i \in S PROVE i + 1 \in S
  <2>. SUFFICES ASSUME i + 1 <= hops PROVE Within(hops)[i + 1] \subseteq B[i + 1]
    OBVIOUS
  <2>1. i + 1 \in 1..hops /\ (i + 1) - 1 = i /\ Within(hops)[i] \subseteq B[i]
    BY <1>2
  <2>2. Within(hops)[i + 1] = Closer(Within(hops)[i]) /\ Closer(B[i]) \subseteq B[i + 1]
    BY <2>1, WithinIs
  <2>. QED  BY <2>1, <2>2 DEF Closer
<1>3. Nat \subseteq S
  <2>. HIDE DEF S
  <2>. QED  BY <1>1, <1>2, NatInductionOnSets
<1>. QED  BY <1>3

WalkNodes == {src} \cup {l[2] : l \in Links[net]}

\* A walk of i links from src that keeps within reach of dst.
IsApproach(w, i, hops) ==
  /\ w \in Seq(WalkNodes) /\ Len(w) = i + 1 /\ w[1] = src
  /\ \A k \in 1..i : /\ \E l \in Links[net] : l[1] = w[k] /\ l[2] = w[k + 1]
                     /\ w[k + 1] \in Within(hops)[hops - k]

\* Approaching, as the recursion it is.
LEMMA ApproachingIs ==
  ASSUME NEW hops \in Nat
  PROVE  /\ Approaching(hops)[0] = {<<src>>}
         /\ \A i \in 1..hops :
              Approaching(hops)[i] = Onward(Approaching(hops)[i - 1], Within(hops)[hops - i])
<1>. DEFINE D == SUBSET Seq(WalkNodes)
            W == Within(hops)
            step == [i \in 1..hops |-> [walks \in D |-> Onward(walks, W[hops - i])]]
            Is(f) == f = [i \in 0..hops |-> IF i = 0 THEN {<<src>>} ELSE Onward(f[i - 1], W[hops - i])]
<1>1. \A walks \in D : \A set : Onward(walks, set) \in D
  <2>. TAKE walks \in D
  <2>. TAKE set
  <2>. SUFFICES ASSUME NEW v \in Onward(walks, set) PROVE v \in Seq(WalkNodes)
    OBVIOUS
  <2>1. PICK w \in walks : v \in {Append(w, l[2]) : l \in {link \in Links[net] : link[1] = Last(w) /\ link[2] \in set}}
    BY DEF Onward
  <2>2. PICK l \in Links[net] : v = Append(w, l[2])
    BY <2>1
  <2>3. w \in Seq(WalkNodes) /\ l[2] \in WalkNodes
    BY DEF WalkNodes
  <2>. QED  BY <2>2, <2>3
<1>2. \E f : Is(f)
  <2>0. {<<src>>} \in D
    BY DEF WalkNodes
  <2>1. step \in [1..hops -> [D -> D]]
    <3>. HIDE DEF D, W
    <3>. QED  BY <1>1
  <2>2. RunsOf(D, {<<src>>}, hops, step) # {}
    <3>. HIDE DEF step, D
    <3>. QED  BY <2>0, <2>1, RecursionExists
  <2>3. PICK f \in [0..hops -> D] : f[0] = {<<src>>} /\ \A i \in 1..hops : f[i] = step[i][f[i - 1]]
    <3>. HIDE DEF step, D
    <3>. QED  BY <2>2 DEF RunsOf
  <2>4. ASSUME NEW i \in 1..hops PROVE f[i] = Onward(f[i - 1], W[hops - i])
    <3>1. i - 1 \in 0..hops
      OBVIOUS
    <3>2. f[i - 1] \in D
      BY <2>3, <3>1
    <3>. HIDE DEF W, D
    <3>. QED  BY <2>3, <3>2
  <2>5. f = [i \in 0..hops |-> f[i]]
    BY <2>3
  <2>6. \A i \in 0..hops : f[i] = IF i = 0 THEN {<<src>>} ELSE Onward(f[i - 1], W[hops - i])
    BY <2>3, <2>4
  <2>7. Is(f)
    <3>. HIDE DEF D, W
    <3>. QED  BY <2>5, <2>6
  <2>. QED  BY <2>7
<1>3. Approaching(hops) = CHOOSE f : Is(f)
  BY DEF Approaching
<1>. DEFINE F == Approaching(hops)
<1>4. Is(F)
  <2>. HIDE DEF Is
  <2>. QED  BY <1>2, <1>3
<1>5. \A i \in 0..hops : F[i] = IF i = 0 THEN {<<src>>} ELSE Onward(F[i - 1], W[hops - i])
  <2>. HIDE DEF F
  <2>. QED  BY <1>4
<1>6. F[0] = {<<src>>} /\ \A i \in 1..hops : F[i] = Onward(F[i - 1], W[hops - i])
  <2>. HIDE DEF F
  <2>. QED  BY <1>5
<1>. QED  BY <1>6

\* What Approaching holds after i links.
LEMMA ApproachingAre ==
  ASSUME NEW hops \in Nat
  PROVE  \A i \in 0..hops : \A w : w \in Approaching(hops)[i] <=> IsApproach(w, i, hops)
<1>. DEFINE Good(i) == \A w : w \in Approaching(hops)[i] <=> IsApproach(w, i, hops)
            S == {i \in Nat : i <= hops => Good(i)}
<1>1. 0 \in S
  <2>1. <<src>> \in Seq(WalkNodes) /\ Len(<<src>>) = 0 + 1 /\ <<src>>[1] = src
    BY DEF WalkNodes
  <2>2. \A w : w \in Seq(WalkNodes) /\ Len(w) = 0 + 1 /\ w[1] = src => w = <<src>>
    OBVIOUS
  <2>3. \A w : IsApproach(w, 0, hops) <=> w = <<src>>
    <3>1. \A w : IsApproach(w, 0, hops) <=> w \in Seq(WalkNodes) /\ Len(w) = 0 + 1 /\ w[1] = src
      BY DEF IsApproach
    <3>. QED  BY <2>1, <2>2, <3>1
  <2>4. Approaching(hops)[0] = {<<src>>}
    BY ApproachingIs
  <2>5. Good(0)
    BY <2>3, <2>4
  <2>. QED  BY <2>5
<1>2. ASSUME NEW i \in Nat, i \in S PROVE i + 1 \in S
  <2>. SUFFICES ASSUME i + 1 <= hops PROVE Good(i + 1)
    <3>. HIDE DEF Good
    <3>. QED  OBVIOUS
  <2>1. Good(i)
    BY <1>2
  <2>2. Approaching(hops)[i + 1] = Onward(Approaching(hops)[i], Within(hops)[hops - (i + 1)])
    <3>1. i + 1 \in 1..hops /\ (i + 1) - 1 = i
      OBVIOUS
    <3>. QED  BY <3>1, ApproachingIs
  <2>3. ASSUME NEW v, v \in Approaching(hops)[i + 1] PROVE IsApproach(v, i + 1, hops)
    <3>1. PICK w \in Approaching(hops)[i] :
            \E l \in Links[net] : /\ l[1] = Last(w) /\ l[2] \in Within(hops)[hops - (i + 1)]
                                 /\ v = Append(w, l[2])
      BY <2>2, <2>3 DEF Onward
    <3>2. PICK l \in Links[net] : /\ l[1] = Last(w) /\ l[2] \in Within(hops)[hops - (i + 1)]
                                  /\ v = Append(w, l[2])
      BY <3>1
    <3>3. /\ w \in Seq(WalkNodes) /\ Len(w) = i + 1 /\ w[1] = src
          /\ \A k \in 1..i : /\ \E e \in Links[net] : e[1] = w[k] /\ e[2] = w[k + 1]
                            /\ w[k + 1] \in Within(hops)[hops - k]
      BY <2>1 DEF IsApproach
    <3>4. l[2] \in WalkNodes
      BY DEF WalkNodes
    <3>5. /\ v \in Seq(WalkNodes) /\ Len(v) = i + 2 /\ v[i + 2] = l[2]
          /\ \A k \in 1..i + 1 : v[k] = w[k]
      BY <3>2, <3>3, <3>4, AppendProperties
    <3>6. Last(w) = w[i + 1]
      BY <3>3 DEF Last
    <3>7. ASSUME NEW k \in 1..i + 1
          PROVE  /\ \E e \in Links[net] : e[1] = v[k] /\ e[2] = v[k + 1]
                 /\ v[k + 1] \in Within(hops)[hops - k]
      <4>1. CASE k = i + 1
        BY <3>2, <3>5, <3>6, <4>1
      <4>2. CASE k \in 1..i
        <5>1. v[k] = w[k] /\ v[k + 1] = w[k + 1]
          BY <3>5, <4>2
        <5>. QED  BY <3>3, <4>2, <5>1
      <4>. QED  BY <4>1, <4>2
    <3>8. v[1] = src /\ i + 2 = (i + 1) + 1
      BY <3>3, <3>5
    <3>. QED  BY <3>5, <3>7, <3>8 DEF IsApproach
  <2>4. ASSUME NEW v, IsApproach(v, i + 1, hops) PROVE v \in Approaching(hops)[i + 1]
    <3>. DEFINE w == SubSeq(v, 1, i + 1)
    <3>1. /\ v \in Seq(WalkNodes) /\ Len(v) = i + 2 /\ v[1] = src
          /\ \A k \in 1..i + 1 : /\ \E e \in Links[net] : e[1] = v[k] /\ e[2] = v[k + 1]
                                /\ v[k + 1] \in Within(hops)[hops - k]
      BY <2>4 DEF IsApproach
    <3>2. w \in Seq(WalkNodes) /\ Len(w) = i + 1 /\ \A k \in 1..i + 1 : w[k] = v[k]
      <4>1. \A k \in 1..i + 1 : v[k] \in WalkNodes
        BY <3>1
      <4>. QED  BY <3>1, <4>1
    <3>3. IsApproach(w, i, hops)
      <4>1. \A k \in 1..i : w[k] = v[k] /\ w[k + 1] = v[k + 1] /\ k \in 1..i + 1
        BY <3>2
      <4>2. w[1] = src
        BY <3>1, <3>2
      <4>. HIDE DEF w
      <4>. QED  BY <3>1, <3>2, <4>1, <4>2 DEF IsApproach
    <3>4. v = Append(w, v[i + 2])
      <4>. HIDE DEF w
      <4>1. v[i + 2] \in WalkNodes
        BY <3>1
      <4>2. /\ Append(w, v[i + 2]) \in Seq(WalkNodes) /\ Len(Append(w, v[i + 2])) = i + 2
            /\ \A k \in 1..i + 1 : Append(w, v[i + 2])[k] = w[k]
            /\ Append(w, v[i + 2])[i + 2] = v[i + 2]
        BY <3>2, <4>1, AppendProperties
      <4>3. \A k \in 1..i + 2 : Append(w, v[i + 2])[k] = v[k]
        BY <3>2, <4>2
      <4>. QED  BY <3>1, <4>2, <4>3, SeqEqual
    <3>5. PICK e \in Links[net] : e[1] = v[i + 1] /\ e[2] = v[i + 2]
      <4>1. i + 1 \in 1..i + 1 /\ (i + 1) + 1 = i + 2
        OBVIOUS
      <4>. QED  BY <3>1, <4>1
    <3>6. v[i + 2] \in Within(hops)[hops - (i + 1)]
      <4>1. i + 1 \in 1..i + 1 /\ (i + 1) + 1 = i + 2
        OBVIOUS
      <4>. QED  BY <3>1, <4>1
    <3>7. Last(w) = v[i + 1]
      <4>1. w[i + 1] = v[i + 1] /\ Len(w) = i + 1
        BY <3>2
      <4>. HIDE DEF w
      <4>. QED  BY <4>1 DEF Last
    <3>8. w \in Approaching(hops)[i]
      BY <2>1, <3>3
    <3>. HIDE DEF w
    <3>. QED  BY <2>2, <3>4, <3>5, <3>6, <3>7, <3>8 DEF Onward
  <2>. QED  BY <2>3, <2>4
<1>3. Nat \subseteq S
  <2>. HIDE DEF S
  <2>. QED  BY <1>1, <1>2, NatInductionOnSets
<1>. QED  BY <1>3

-----------------------------------------------------------------------------
(* Trees of pods: the numbers of switches and hosts.                       *)

IsPodTree(t) == t.racks \in Nat \ {0} /\ t.uppers \in Nat \ {0} /\ t.hosts \in Nat \ {0}

\* Numbers as the code takes them apart, and puts them together.
LEMMA Quotient ==
  ASSUME NEW x \in Nat, NEW n \in Nat \ {0}
  PROVE  /\ x \div n \in Nat /\ x % n \in 0..n - 1
         /\ x = (x \div n) * n + (x % n)
OBVIOUS

\* A number in a group of n.
LEMMA QuotientOf ==
  ASSUME NEW a \in Nat, NEW n \in Nat \ {0}, NEW b \in 0..n - 1
  PROVE  (a * n + b) \div n = a /\ (a * n + b) % n = b
OBVIOUS

\* The group of a number.
LEMMA QuotientBelow ==
  ASSUME NEW n \in Nat \ {0}, NEW a \in Nat, NEW x \in 0..a * n - 1
  PROVE  x \div n \in 0..a - 1
OBVIOUS

\* A number in the last group is below the end.
LEMMA ProductBelow ==
  ASSUME NEW n \in Nat \ {0}, NEW a \in Nat, NEW x \in 0..a - 1, NEW b \in 0..n - 1
  PROVE  x * n + b \in 0..a * n - 1
OBVIOUS

\* The numbers of switches and hosts, and of the pods and groups they are in.
LEMMA TreeNumbers ==
  ASSUME NEW t, IsPodTree(t)
  PROVE  /\ TreeHosts(t) \subseteq Nat /\ TreeLowers(t) \subseteq Nat
         /\ TreeUppers(t) \subseteq Nat /\ TreeCores(t) \subseteq Nat
         /\ \A h \in TreeHosts(t) : RackOf(t, h) \in TreeLowers(t)
         /\ \A j \in TreeLowers(t) : PodOfRack(t, j) \in 0..2 * t.racks - 1
         /\ \A k \in TreeUppers(t) : /\ PodOfUpper(t, k) \in 0..2 * t.racks - 1
                                     /\ GroupOfUpper(t, k) \in 0..t.uppers - 1
                                     /\ k = UpperOf(t, PodOfUpper(t, k), GroupOfUpper(t, k))
         /\ \A c \in TreeCores(t) : GroupOfCore(t, c) \in 0..t.uppers - 1
         /\ \A pod \in 0..2 * t.racks - 1 : \A group \in 0..t.uppers - 1 :
              /\ UpperOf(t, pod, group) \in TreeUppers(t)
              /\ PodOfUpper(t, UpperOf(t, pod, group)) = pod
              /\ GroupOfUpper(t, UpperOf(t, pod, group)) = group
<1>. DEFINE m == t.racks
            p == t.uppers
            q == t.hosts
<1>1. m \in Nat \ {0} /\ p \in Nat \ {0} /\ q \in Nat \ {0}
  BY DEF IsPodTree
<1>2. /\ TreeHosts(t) = 0..(2 * m * m) * q - 1 /\ TreeLowers(t) = 0..(2 * m) * m - 1
      /\ TreeUppers(t) = 0..(2 * m) * p - 1 /\ TreeCores(t) = 0..p * m - 1
  BY DEF TreeHosts, TreeLowers, TreeUppers, TreeCores
<1>3. 2 * m * m \in Nat /\ 2 * m \in Nat /\ (2 * m * m) * q \in Nat /\ (2 * m) * p \in Nat /\ p * m \in Nat
  BY <1>1
<1>4. /\ TreeHosts(t) \subseteq Nat /\ TreeLowers(t) \subseteq Nat
      /\ TreeUppers(t) \subseteq Nat /\ TreeCores(t) \subseteq Nat
  BY <1>2
<1>5. ASSUME NEW h \in TreeHosts(t) PROVE RackOf(t, h) \in TreeLowers(t)
  <2>1. h \in 0..(2 * m * m) * q - 1
    BY <1>2
  <2>. HIDE DEF m, q
  <2>2. h \div q \in 0..(2 * m * m) - 1
    BY <1>1, <1>3, <2>1, QuotientBelow
  <2>. QED  BY <1>2, <2>2 DEF RackOf, q
<1>6. ASSUME NEW j \in TreeLowers(t) PROVE PodOfRack(t, j) \in 0..2 * t.racks - 1
  <2>1. j \in 0..(2 * m) * m - 1
    BY <1>2
  <2>2. j \div m \in 0..(2 * m) - 1
    <3>. HIDE DEF m
    <3>. QED  BY <1>1, <1>3, <2>1, QuotientBelow
  <2>. QED  BY <2>2 DEF PodOfRack
<1>7. ASSUME NEW k \in TreeUppers(t)
      PROVE  /\ PodOfUpper(t, k) \in 0..2 * t.racks - 1
             /\ GroupOfUpper(t, k) \in 0..t.uppers - 1
             /\ k = UpperOf(t, PodOfUpper(t, k), GroupOfUpper(t, k))
  <2>1. k \in 0..(2 * m) * p - 1 /\ k \in Nat
    BY <1>2
  <2>2. k \div p \in 0..(2 * m) - 1
    <3>. HIDE DEF m, p
    <3>. QED  BY <1>1, <1>3, <2>1, QuotientBelow
  <2>3. k % p \in 0..p - 1 /\ k = (k \div p) * p + (k % p)
    <3>. HIDE DEF p
    <3>. QED  BY <1>1, <2>1, Quotient
  <2>. QED  BY <2>2, <2>3 DEF PodOfUpper, GroupOfUpper, UpperOf
<1>8. ASSUME NEW c \in TreeCores(t) PROVE GroupOfCore(t, c) \in 0..t.uppers - 1
  <2>1. c \in 0..p * m - 1
    BY <1>2
  <2>2. c \div m \in 0..p - 1
    <3>. HIDE DEF m, p
    <3>. QED  BY <1>1, <2>1, QuotientBelow
  <2>. QED  BY <2>2 DEF GroupOfCore
<1>9. ASSUME NEW pod \in 0..2 * t.racks - 1, NEW group \in 0..t.uppers - 1
      PROVE  /\ UpperOf(t, pod, group) \in TreeUppers(t)
             /\ PodOfUpper(t, UpperOf(t, pod, group)) = pod
             /\ GroupOfUpper(t, UpperOf(t, pod, group)) = group
  <2>1. pod \in Nat /\ pod \in 0..(2 * m) - 1 /\ group \in 0..p - 1
    BY <1>1, <1>9
  <2>2. pod * p + group \in 0..(2 * m) * p - 1
    <3>. HIDE DEF m, p
    <3>. QED  BY <1>1, <1>3, <2>1, ProductBelow
  <2>3. (pod * p + group) \div p = pod /\ (pod * p + group) % p = group
    <3>. HIDE DEF m, p
    <3>. QED  BY <1>1, <2>1, QuotientOf
  <2>. QED  BY <1>2, <2>2, <2>3 DEF PodOfUpper, GroupOfUpper, UpperOf
<1>. QED  BY <1>4, <1>5, <1>6, <1>7, <1>8, <1>9

-----------------------------------------------------------------------------
(* Where the links of a tree lead.                                         *)

\* A link of a tree leads up or down.
LeadsUp(t, x, y) ==
  \/ \E h \in TreeHosts(t) : x = Host(h) /\ y = Lower(RackOf(t, h))
  \/ \E j \in TreeLowers(t) : \E k \in UppersOfPod(t, PodOfRack(t, j)) : x = Lower(j) /\ y = Upper(k)
  \/ \E k \in TreeUppers(t) : \E c \in CoresAbove(t, k) : x = Upper(k) /\ y = Core(c)

\* A link of a tree leads up, or back down where one leads up.
LEMMA TreeLink ==
  ASSUME NEW t
  PROVE  /\ \A x, y : <<x, y>> \in TreeLinks(t) <=> LeadsUp(t, x, y) \/ LeadsUp(t, y, x)
         /\ \A l \in TreeLinks(t) : l = <<l[1], l[2]>>
<1>1. \A l : l \in RackLinks(t) <=> \E h \in TreeHosts(t) :
             l = <<Host(h), Lower(RackOf(t, h))>> \/ l = <<Lower(RackOf(t, h)), Host(h)>>
  BY DEF RackLinks, Both
<1>2. \A l : l \in UpLinks(t) <=> \E j \in TreeLowers(t) : \E k \in UppersOfPod(t, PodOfRack(t, j)) :
             l = <<Lower(j), Upper(k)>> \/ l = <<Upper(k), Lower(j)>>
  BY DEF UpLinks, Both
<1>3. \A l : l \in TopLinks(t) <=> \E k \in TreeUppers(t) : \E c \in CoresAbove(t, k) :
             l = <<Upper(k), Core(c)>> \/ l = <<Core(c), Upper(k)>>
  BY DEF TopLinks, Both
<1>4. \A l \in TreeLinks(t) : l = <<l[1], l[2]>>
  <2>. SUFFICES ASSUME NEW l \in TreeLinks(t) PROVE l = <<l[1], l[2]>>
    OBVIOUS
  <2>1. \E x, y : l = <<x, y>>
    BY <1>1, <1>2, <1>3 DEF TreeLinks
  <2>. QED  BY <2>1
<1>5. ASSUME NEW x, NEW y, <<x, y>> \in TreeLinks(t) PROVE LeadsUp(t, x, y) \/ LeadsUp(t, y, x)
  <2>1. CASE <<x, y>> \in RackLinks(t)
    BY <1>1, <2>1 DEF LeadsUp
  <2>2. CASE <<x, y>> \in UpLinks(t)
    BY <1>2, <2>2 DEF LeadsUp
  <2>3. CASE <<x, y>> \in TopLinks(t)
    BY <1>3, <2>3 DEF LeadsUp
  <2>. QED  BY <1>5, <2>1, <2>2, <2>3 DEF TreeLinks
<1>6. ASSUME NEW x, NEW y, LeadsUp(t, x, y) PROVE <<x, y>> \in TreeLinks(t) /\ <<y, x>> \in TreeLinks(t)
  <2>1. CASE \E h \in TreeHosts(t) : x = Host(h) /\ y = Lower(RackOf(t, h))
    BY <1>1, <2>1 DEF TreeLinks
  <2>2. CASE \E j \in TreeLowers(t) : \E k \in UppersOfPod(t, PodOfRack(t, j)) : x = Lower(j) /\ y = Upper(k)
    BY <1>2, <2>2 DEF TreeLinks
  <2>3. CASE \E k \in TreeUppers(t) : \E c \in CoresAbove(t, k) : x = Upper(k) /\ y = Core(c)
    BY <1>3, <2>3 DEF TreeLinks
  <2>. QED  BY <1>6, <2>1, <2>2, <2>3 DEF LeadsUp
<1>. QED  BY <1>4, <1>5, <1>6

\* No two nodes have the same name.
LEMMA NodeNames ==
  /\ \A i, j : (Host(i) = Host(j) => i = j) /\ (Lower(i) = Lower(j) => i = j)
  /\ \A i, j : (Upper(i) = Upper(j) => i = j) /\ (Core(i) = Core(j) => i = j)
  /\ \A i, j : Host(i) # Lower(j) /\ Host(i) # Upper(j) /\ Host(i) # Core(j)
  /\ \A i, j : Lower(i) # Upper(j) /\ Lower(i) # Core(j) /\ Upper(i) # Core(j)
BY DEF Host, Lower, Upper, Core

\* Where the links from a node lead; links come in both directions.
LEMMA FromHost ==
  ASSUME NEW t, NEW h, NEW y, <<Host(h), y>> \in TreeLinks(t)
  PROVE  y = Lower(RackOf(t, h))
<1>1. CASE LeadsUp(t, Host(h), y)
  BY <1>1, NodeNames DEF LeadsUp
<1>2. CASE LeadsUp(t, y, Host(h))
  BY <1>2, NodeNames DEF LeadsUp
<1>. QED  BY <1>1, <1>2, TreeLink

\* From a rack: to its hosts, and to the upper switches of its pod.
LEMMA FromLower ==
  ASSUME NEW t, NEW j, NEW y, <<Lower(j), y>> \in TreeLinks(t)
  PROVE  \/ \E h \in TreeHosts(t) : y = Host(h) /\ RackOf(t, h) = j
         \/ \E k \in UppersOfPod(t, PodOfRack(t, j)) : y = Upper(k)
<1>1. CASE LeadsUp(t, Lower(j), y)
  BY <1>1, NodeNames DEF LeadsUp
<1>2. CASE LeadsUp(t, y, Lower(j))
  BY <1>2, NodeNames DEF LeadsUp
<1>. QED  BY <1>1, <1>2, TreeLink

\* From an upper switch: to the racks of its pod, and to the core switches of its group.
LEMMA FromUpper ==
  ASSUME NEW t, NEW k, NEW y, <<Upper(k), y>> \in TreeLinks(t)
  PROVE  \/ \E j \in TreeLowers(t) : y = Lower(j) /\ PodOfRack(t, j) = PodOfUpper(t, k)
         \/ \E c \in CoresAbove(t, k) : y = Core(c)
<1>1. CASE LeadsUp(t, Upper(k), y)
  BY <1>1, NodeNames DEF LeadsUp
<1>2. CASE LeadsUp(t, y, Upper(k))
  BY <1>2, NodeNames DEF LeadsUp, UppersOfPod
<1>. QED  BY <1>1, <1>2, TreeLink

\* From a core switch: to the upper switches of its group.
LEMMA FromCore ==
  ASSUME NEW t, NEW c, NEW y, <<Core(c), y>> \in TreeLinks(t)
  PROVE  \E k \in TreeUppers(t) : y = Upper(k) /\ GroupOfUpper(t, k) = GroupOfCore(t, c)
<1>1. CASE LeadsUp(t, Core(c), y)
  BY <1>1, NodeNames DEF LeadsUp
<1>2. CASE LeadsUp(t, y, Core(c))
  BY <1>2, NodeNames DEF LeadsUp, CoresAbove
<1>. QED  BY <1>1, <1>2, TreeLink

\* Links are created in pairs.
LEMMA LinksLeadBack ==
  ASSUME NEW t, NEW x, NEW y, <<x, y>> \in TreeLinks(t)
  PROVE  <<y, x>> \in TreeLinks(t)
BY TreeLink

\* How many links lie between a node and the host d, at least.
Hops(t, d, x) ==
  LET rack == RackOf(t, d)
      pod == PodOfRack(t, rack)
  IN  CASE x[1] = "host" -> IF x[2] = d THEN 0
                            ELSE IF RackOf(t, x[2]) = rack THEN 2
                            ELSE IF PodOfRack(t, RackOf(t, x[2])) = pod THEN 4 ELSE 6
        [] x[1] = "lower" -> IF x[2] = rack THEN 1 ELSE IF PodOfRack(t, x[2]) = pod THEN 3 ELSE 5
        [] x[1] = "upper" -> IF PodOfUpper(t, x[2]) = pod THEN 2 ELSE 4
        [] OTHER -> 3

\* Hops, for each kind of node.
LEMMA HopsOfNodes ==
  ASSUME NEW t, NEW d
  PROVE  /\ \A h : Hops(t, d, Host(h)) =
                     IF h = d THEN 0
                     ELSE IF RackOf(t, h) = RackOf(t, d) THEN 2
                     ELSE IF PodOfRack(t, RackOf(t, h)) = PodOfRack(t, RackOf(t, d)) THEN 4 ELSE 6
         /\ \A j : Hops(t, d, Lower(j)) =
                     IF j = RackOf(t, d) THEN 1
                     ELSE IF PodOfRack(t, j) = PodOfRack(t, RackOf(t, d)) THEN 3 ELSE 5
         /\ \A k : Hops(t, d, Upper(k)) =
                     IF PodOfUpper(t, k) = PodOfRack(t, RackOf(t, d)) THEN 2 ELSE 4
         /\ \A c : Hops(t, d, Core(c)) = 3
BY DEF Hops, Host, Lower, Upper, Core

\* A link brings a packet closer by at most one hop.
LEMMA HopsOfLink ==
  ASSUME NEW t, NEW d, NEW x, NEW y, <<x, y>> \in TreeLinks(t)
  PROVE  /\ Hops(t, d, x) \in Nat /\ Hops(t, d, y) \in Nat
         /\ Hops(t, d, x) <= Hops(t, d, y) + 1 /\ Hops(t, d, y) <= Hops(t, d, x) + 1
<1>. SUFFICES ASSUME NEW a, NEW b, LeadsUp(t, a, b)
              PROVE  /\ Hops(t, d, a) \in Nat /\ Hops(t, d, b) \in Nat
                     /\ Hops(t, d, a) <= Hops(t, d, b) + 1 /\ Hops(t, d, b) <= Hops(t, d, a) + 1
  BY TreeLink
<1>1. CASE \E h \in TreeHosts(t) : a = Host(h) /\ b = Lower(RackOf(t, h))
  BY <1>1, HopsOfNodes
<1>2. CASE \E j \in TreeLowers(t) : \E k \in UppersOfPod(t, PodOfRack(t, j)) : a = Lower(j) /\ b = Upper(k)
  <2>1. PICK j \in TreeLowers(t) : \E k \in UppersOfPod(t, PodOfRack(t, j)) : a = Lower(j) /\ b = Upper(k)
    BY <1>2
  <2>2. PICK k \in UppersOfPod(t, PodOfRack(t, j)) : a = Lower(j) /\ b = Upper(k)
    BY <2>1
  <2>3. PodOfUpper(t, k) = PodOfRack(t, j)
    BY DEF UppersOfPod
  <2>4. Hops(t, d, a) = IF j = RackOf(t, d) THEN 1
                        ELSE IF PodOfRack(t, j) = PodOfRack(t, RackOf(t, d)) THEN 3 ELSE 5
    BY <2>2, HopsOfNodes
  <2>5. Hops(t, d, b) = IF PodOfRack(t, j) = PodOfRack(t, RackOf(t, d)) THEN 2 ELSE 4
    BY <2>2, <2>3, HopsOfNodes
  <2>. QED  BY <2>4, <2>5
<1>3. CASE \E k \in TreeUppers(t) : \E c \in CoresAbove(t, k) : a = Upper(k) /\ b = Core(c)
  <2>1. PICK k \in TreeUppers(t), c \in TreeCores(t) : a = Upper(k) /\ b = Core(c)
    BY <1>3 DEF CoresAbove
  <2>2. Hops(t, d, a) = IF PodOfUpper(t, k) = PodOfRack(t, RackOf(t, d)) THEN 2 ELSE 4
    BY <2>1, HopsOfNodes
  <2>3. Hops(t, d, b) = 3
    <3>1. Hops(t, d, Core(c)) = 3
      BY DEF Hops, Core
    <3>. QED  BY <2>1, <3>1
  <2>. QED  BY <2>2, <2>3
<1>. QED  BY <1>1, <1>2, <1>3 DEF LeadsUp

-----------------------------------------------------------------------------
(* Walks and shortest walks.                                               *)

\* A walk of that many links from src to dst.
IsWalk(w, hops) ==
  /\ w \in Seq(WalkNodes) /\ Len(w) = hops + 1 /\ w[1] = src /\ w[hops + 1] = dst
  /\ \A k \in 1..hops : \E l \in Links[net] : l[1] = w[k] /\ l[2] = w[k + 1]

\* From every node of a walk to dst, dst is within the hops that are left.
LEMMA WalkIsWithin ==
  ASSUME NEW hops \in Nat, NEW w, IsWalk(w, hops)
  PROVE  \A i \in 0..hops : w[hops + 1 - i] \in Within(hops)[i]
<1>. DEFINE S == {i \in Nat : i <= hops => w[hops + 1 - i] \in Within(hops)[i]}
<1>1. 0 \in S
  <2>1. w[hops + 1 - 0] = dst /\ Within(hops)[0] = {dst}
    BY WithinIs DEF IsWalk
  <2>. QED  BY <2>1
<1>2. ASSUME NEW i \in Nat, i \in S PROVE i + 1 \in S
  <2>. SUFFICES ASSUME i + 1 <= hops PROVE w[hops + 1 - (i + 1)] \in Within(hops)[i + 1]
    OBVIOUS
  <2>. DEFINE k == hops - i
  <2>1. k \in 1..hops /\ hops + 1 - (i + 1) = k /\ hops + 1 - i = k + 1
    OBVIOUS
  <2>2. w[k + 1] \in Within(hops)[i]
    BY <1>2, <2>1
  <2>3. PICK l \in Links[net] : l[1] = w[k] /\ l[2] = w[k + 1]
    BY <2>1 DEF IsWalk
  <2>4. Within(hops)[i + 1] = Closer(Within(hops)[i])
    <3>1. i + 1 \in 1..hops /\ (i + 1) - 1 = i
      OBVIOUS
    <3>. QED  BY <3>1, WithinIs
  <2>. HIDE DEF k
  <2>5. w[k] \in Within(hops)[i + 1]
    BY <2>2, <2>3, <2>4 DEF Closer
  <2>. QED  BY <2>1, <2>5
<1>3. Nat \subseteq S
  <2>. HIDE DEF S
  <2>. QED  BY <1>1, <1>2, NatInductionOnSets
<1>. QED  BY <1>3

\* ShortestWalks is what its name says: where no walk is shorter, it holds all walks of
\* that many links.
LEMMA ShortestWalksAre ==
  ASSUME NEW hops \in Nat \ {0}, src \notin Within(hops)[hops - 1]
  PROVE  \A w : w \in ShortestWalks(hops) <=> IsWalk(w, hops)
<1>1. ShortestWalks(hops) = Approaching(hops)[hops]
  BY DEF ShortestWalks
<1>2. \A w : w \in ShortestWalks(hops) <=> IsApproach(w, hops, hops)
  <2>1. hops \in 0..hops /\ hops \in Nat
    OBVIOUS
  <2>. QED  BY <1>1, <2>1, ApproachingAre
<1>3. ASSUME NEW w, IsApproach(w, hops, hops) PROVE IsWalk(w, hops)
  <2>1. w[hops + 1] \in Within(hops)[hops - hops]
    BY <1>3 DEF IsApproach
  <2>2. hops - hops = 0 /\ Within(hops)[0] = {dst}
    BY WithinIs
  <2>3. w[hops + 1] = dst
    BY <2>1, <2>2
  <2>. QED  BY <1>3, <2>3 DEF IsApproach, IsWalk
<1>4. ASSUME NEW w, IsWalk(w, hops) PROVE IsApproach(w, hops, hops)
  <2>1. ASSUME NEW k \in 1..hops PROVE w[k + 1] \in Within(hops)[hops - k]
    <3>1. hops - k \in 0..hops /\ hops + 1 - (hops - k) = k + 1 /\ hops \in Nat
      OBVIOUS
    <3>2. w[hops + 1 - (hops - k)] \in Within(hops)[hops - k]
      BY <1>4, <3>1, WalkIsWithin
    <3>. QED  BY <3>1, <3>2
  <2>. QED  BY <1>4, <2>1 DEF IsApproach, IsWalk
<1>. QED  BY <1>2, <1>3, <1>4

\* What bounds Within from outside dst excludes shorter walks.
LEMMA NoShorterWalk ==
  ASSUME NEW t, NEW s, NEW d, Links[net] = TreeLinks(t), src = Host(s), dst = Host(d),
         NEW hops \in Nat \ {0}, Hops(t, d, Host(s)) = hops
  PROVE  src \notin Within(hops)[hops - 1]
<1>. DEFINE N == {dst} \cup {l[1] : l \in Links[net]}
            B == [i \in 0..hops |-> {x \in N : Hops(t, d, x) <= i}]
<1>1. dst \in B[0]
  <2>1. Hops(t, d, dst) = 0
    BY DEF Hops, Host
  <2>2. 0 \in 0..hops
    OBVIOUS
  <2>. QED  BY <2>1, <2>2
<1>2. ASSUME NEW i \in 1..hops, NEW x \in Closer(B[i - 1]) PROVE x \in B[i]
  <2>1. i - 1 \in 0..hops /\ i \in 0..hops
    OBVIOUS
  <2>2. B[i - 1] = {y \in N : Hops(t, d, y) <= i - 1} /\ B[i] = {y \in N : Hops(t, d, y) <= i}
    BY <2>1
  <2>3. CASE x \in B[i - 1]
    <3>1. x \in N /\ Hops(t, d, x) <= i - 1
      BY <2>2, <2>3
    <3>2. Hops(t, d, x) \in Nat
      <4>1. CASE x = dst
        BY <4>1 DEF Hops, Host
      <4>2. CASE x # dst
        <5>1. PICK l \in Links[net] : x = l[1]
          BY <3>1, <4>2
        <5>2. <<x, l[2]>> \in TreeLinks(t)
          BY <5>1, TreeLink
        <5>. QED  BY <5>2, HopsOfLink
      <4>. QED  BY <4>1, <4>2
    <3>3. Hops(t, d, x) <= i
      BY <3>1, <3>2
    <3>. HIDE DEF B, N
    <3>. QED  BY <2>2, <3>1, <3>3
  <2>4. CASE x \notin B[i - 1]
    <3>1. PICK l \in Links[net] : x = l[1] /\ l[2] \in B[i - 1]
      BY <1>2, <2>4 DEF Closer
    <3>2. <<x, l[2]>> \in TreeLinks(t)
      BY <3>1, TreeLink
    <3>3. Hops(t, d, x) \in Nat /\ Hops(t, d, l[2]) \in Nat /\ Hops(t, d, x) <= Hops(t, d, l[2]) + 1
      BY <3>2, HopsOfLink
    <3>4. Hops(t, d, l[2]) <= i - 1
      BY <2>2, <3>1
    <3>5. Hops(t, d, x) <= i
      BY <3>3, <3>4
    <3>. QED  BY <2>2, <3>1, <3>5
  <2>. QED  BY <2>3, <2>4
<1>3. Within(hops)[hops - 1] \subseteq B[hops - 1]
  <2>1. hops - 1 \in 0..hops /\ hops \in Nat
    OBVIOUS
  <2>2. \A i \in 1..hops : Closer(B[i - 1]) \subseteq B[i]
    <3>. HIDE DEF B
    <3>. QED  BY <1>2
  <2>. HIDE DEF B
  <2>. QED  BY <1>1, <2>1, <2>2, WithinBounds
<1>4. src \notin B[hops - 1]
  <2>1. hops - 1 \in 0..hops /\ ~(hops <= hops - 1)
    OBVIOUS
  <2>. QED  BY <2>1
<1>. QED  BY <1>3, <1>4

\* In a tree whose links are pairs, a step of a walk is a link.
LEMMA WalkLinks ==
  ASSUME NEW t, Links[net] = TreeLinks(t), NEW hops \in Nat, NEW w
  PROVE  IsWalk(w, hops) <=>
           /\ w \in Seq(WalkNodes) /\ Len(w) = hops + 1 /\ w[1] = src /\ w[hops + 1] = dst
           /\ \A k \in 1..hops : <<w[k], w[k + 1]>> \in TreeLinks(t)
<1>1. ASSUME NEW k \in 1..hops
      PROVE  (\E l \in Links[net] : l[1] = w[k] /\ l[2] = w[k + 1]) <=> <<w[k], w[k + 1]>> \in TreeLinks(t)
  <2>1. ASSUME NEW l \in Links[net], l[1] = w[k], l[2] = w[k + 1] PROVE <<w[k], w[k + 1]>> \in TreeLinks(t)
    <3>1. l = <<l[1], l[2]>>
      BY TreeLink
    <3>. QED  BY <2>1, <3>1
  <2>. QED  BY <2>1
<1>. QED  BY <1>1 DEF IsWalk

-----------------------------------------------------------------------------
(* Routes as walks.                                                        *)

\* A sequence of nodes is the walk of a route over its links.
LEMMA WalkOf ==
  ASSUME NEW S, NEW w \in Seq(S), Len(w) >= 2
  PROVE  /\ Len(Walk(w)) = Len(w) - 1
         /\ \A i \in 1..Len(w) - 1 : Walk(w)[i] = <<w[i], w[i + 1]>>
<1>1. Len(w) \in Nat /\ Len(w) - 1 \in Nat
  OBVIOUS
<1>. DEFINE m == Len(w) - 1
            at(i) == <<w[i], w[i + 1]>>
<1>2. Walk(w) = [i \in 1..m |-> at(i)]
  BY DEF Walk
<1>3. m \in Nat
  BY <1>1
<1>4. Len(Walk(w)) = m /\ \A i \in 1..m : Walk(w)[i] = at(i)
  <2>. HIDE DEF m, at
  <2>. QED  BY <1>2, <1>3
<1>. QED  BY <1>4

\* A walk over links leads from its first node to its last.
LEMMA WalkLeads ==
  ASSUME NEW n, NEW S, NEW w \in Seq(S), Len(w) >= 2,
         \A i \in 1..Len(w) - 1 : <<w[i], w[i + 1]>> \in Links[n]
  PROVE  Walks(Walk(w), w[1], w[Len(w)], n)
<1>. DEFINE m == Len(w)
<1>1. m \in Nat /\ m >= 2
  OBVIOUS
<1>2. Len(Walk(w)) = m - 1 /\ \A i \in 1..m - 1 : Walk(w)[i] = <<w[i], w[i + 1]>>
  BY WalkOf
<1>3. \A i \in 1..m - 1 : <<w[i], w[i + 1]>> \in Links[n]
  OBVIOUS
<1>. HIDE DEF m
<1>4. m - 1 \in Nat \ {0} /\ 1 \in 1..m - 1 /\ m - 1 \in 1..m - 1 /\ (m - 1) + 1 = m
  BY <1>1
<1>5. Walk(w)[1][1] = w[1] /\ Walk(w)[m - 1][2] = w[m]
  BY <1>2, <1>4
<1>6. \A i \in 1..m - 1 : <<Walk(w)[i][1], Walk(w)[i][2]>> \in Links[n]
  <2>. TAKE i \in 1..m - 1
  <2>1. Walk(w)[i] = <<w[i], w[i + 1]>>
    BY <1>2
  <2>2. <<w[i], w[i + 1]>> \in Links[n]
    BY <1>3
  <2>. QED  BY <2>1, <2>2
<1>7. \A i \in 1..(m - 1) - 1 : Walk(w)[i][2] = Walk(w)[i + 1][1]
  <2>. TAKE i \in 1..(m - 1) - 1
  <2>1. i \in 1..m - 1 /\ i + 1 \in 1..m - 1
    BY <1>1
  <2>2. Walk(w)[i] = <<w[i], w[i + 1]>> /\ Walk(w)[i + 1] = <<w[i + 1], w[(i + 1) + 1]>>
    BY <1>2, <2>1
  <2>. QED  BY <2>2
<1>8. Walks(Walk(w), w[1], w[m], n)
  BY <1>2, <1>4, <1>5, <1>6, <1>7 DEF Walks
<1>. QED  BY <1>8 DEF m

\* A route there and back over links that lead both ways.
LEMMA ReversibleRoute ==
  ASSUME NEW n, NEW S, NEW w \in Seq(S), NEW v \in Seq(S), Len(w) = Len(v), Len(w) >= 2,
         \A i \in 1..Len(w) : v[i] = w[Len(w) + 1 - i],
         \A i \in 1..Len(w) - 1 : <<w[i], w[i + 1]>> \in Links[n] /\ <<w[i + 1], w[i]>> \in Links[n]
  PROVE  IsRoute(Reversible(Walk(w), Walk(v)), w[1], w[Len(w)], n)
<1>. DEFINE m == Len(w)
            r == Reversible(Walk(w), Walk(v))
<1>1. /\ r.out = Walk(w) /\ r.back = Walk(v) /\ r.feeder = FALSE
  BY DEF Reversible
<1>2. m \in Nat /\ m >= 2
  OBVIOUS
<1>3. /\ Len(Walk(w)) = m - 1 /\ \A i \in 1..m - 1 : Walk(w)[i] = <<w[i], w[i + 1]>>
      /\ Len(Walk(v)) = m - 1 /\ \A i \in 1..m - 1 : Walk(v)[i] = <<v[i], v[i + 1]>>
  BY WalkOf
<1>4. \A i \in 1..m : v[i] = w[m + 1 - i]
  OBVIOUS
<1>5. \A i \in 1..m - 1 : <<w[i], w[i + 1]>> \in Links[n] /\ <<w[i + 1], w[i]>> \in Links[n]
  OBVIOUS
<1>. HIDE DEF m
<1>6. Walks(Walk(w), w[1], w[m], n)
  BY <1>2, <1>5, WalkLeads DEF m
<1>7. \A i \in 1..m - 1 : v[i] = w[m + 1 - i] /\ v[i + 1] = w[m - i] /\ m - i \in 1..m - 1 /\ (m - i) + 1 = m + 1 - i
  <2>. TAKE i \in 1..m - 1
  <2>1. i \in 1..m /\ i + 1 \in 1..m /\ m + 1 - (i + 1) = m - i /\ m - i \in 1..m - 1
        /\ (m - i) + 1 = m + 1 - i
    BY <1>2
  <2>. QED  BY <1>4, <2>1
<1>8. Walks(Walk(v), w[m], w[1], n)
  <2>1. m - 1 \in Nat \ {0} /\ 1 \in 1..m - 1 /\ m - 1 \in 1..m - 1 /\ (m - 1) + 1 = m
        /\ m + 1 - 1 = m /\ m - (m - 1) = 1
    BY <1>2
  <2>2. Walk(v)[1][1] = w[m]
    <3>1. v[1] = w[m + 1 - 1]
      BY <1>7, <2>1
    <3>2. Walk(v)[1] = <<v[1], v[1 + 1]>>
      BY <1>3, <2>1
    <3>. QED  BY <2>1, <3>1, <3>2
  <2>3. Walk(v)[m - 1][2] = w[1]
    <3>1. v[(m - 1) + 1] = w[m - (m - 1)]
      BY <1>7, <2>1
    <3>2. Walk(v)[m - 1] = <<v[m - 1], v[(m - 1) + 1]>>
      BY <1>3, <2>1
    <3>3. v[(m - 1) + 1] = w[1]
      BY <2>1, <3>1
    <3>. QED  BY <3>2, <3>3
  <2>4. \A i \in 1..m - 1 : <<Walk(v)[i][1], Walk(v)[i][2]>> \in Links[n]
    <3>. TAKE i \in 1..m - 1
    <3>1. Walk(v)[i] = <<v[i], v[i + 1]>> /\ v[i] = w[(m - i) + 1] /\ v[i + 1] = w[m - i]
      BY <1>3, <1>7
    <3>2. <<w[(m - i) + 1], w[m - i]>> \in Links[n]
      BY <1>5, <1>7
    <3>. QED  BY <3>1, <3>2
  <2>5. \A i \in 1..(m - 1) - 1 : Walk(v)[i][2] = Walk(v)[i + 1][1]
    <3>. TAKE i \in 1..(m - 1) - 1
    <3>1. i \in 1..m - 1 /\ i + 1 \in 1..m - 1
      BY <1>2
    <3>2. Walk(v)[i] = <<v[i], v[i + 1]>> /\ Walk(v)[i + 1] = <<v[i + 1], v[(i + 1) + 1]>>
      BY <1>3, <3>1
    <3>. QED  BY <3>2
  <2>. QED  BY <1>3, <2>1, <2>2, <2>3, <2>4, <2>5 DEF Walks
<1>9. Mirrors(Walk(v), Walk(w))
  <2>. SUFFICES ASSUME NEW i \in 1..m - 1
                PROVE  /\ Walk(v)[i][1] = Walk(w)[(m - 1) + 1 - i][2]
                       /\ Walk(v)[i][2] = Walk(w)[(m - 1) + 1 - i][1]
    BY <1>3 DEF Mirrors
  <2>1. (m - 1) + 1 - i = m - i
    BY <1>2
  <2>2. Walk(v)[i] = <<w[(m - i) + 1], w[m - i]>> /\ Walk(w)[m - i] = <<w[m - i], w[(m - i) + 1]>>
    <3>1. /\ v[i] = w[m + 1 - i] /\ v[i + 1] = w[m - i] /\ m - i \in 1..m - 1
          /\ (m - i) + 1 = m + 1 - i
      BY <1>7
    <3>2. Walk(v)[i] = <<v[i], v[i + 1]>>
      BY <1>3
    <3>3. Walk(w)[m - i] = <<w[m - i], w[(m - i) + 1]>>
      BY <1>3, <3>1
    <3>. QED  BY <3>1, <3>2, <3>3
  <2>. QED  BY <2>1, <2>2
<1>10. IsRoute(r, w[1], w[m], n)
  <2>. HIDE DEF r
  <2>. QED  BY <1>1, <1>6, <1>8, <1>9 DEF IsRoute
<1>. QED  BY <1>10 DEF m

\* The nodes of a route are those of the walk it is built from.
LEMMA NodesOf ==
  ASSUME NEW S, NEW w \in Seq(S), Len(w) >= 2, w[1] = src, NEW r, r.out = Walk(w)
  PROVE  Nodes(r) = w /\ Len(r.out) = Len(w) - 1
<1>. DEFINE m == Len(w) - 1
            x == <<src>>
            y == [i \in 1..m |-> w[i + 1]]
<1>1. m \in Nat /\ Len(w) = m + 1
  OBVIOUS
<1>2. Len(r.out) = m /\ \A i \in 1..m : r.out[i][2] = w[i + 1]
  BY WalkOf
<1>3. Nodes(r) = x \o y
  BY <1>2 DEF Nodes
<1>4. \A i \in 1..m : w[i + 1] \in S
  BY <1>1
<1>5. y \in Seq(S) /\ Len(y) = m /\ \A i \in 1..m : y[i] = w[i + 1]
  <2>. HIDE DEF m
  <2>. QED  BY <1>1, <1>4
<1>6. x \in Seq(S) /\ Len(x) = 1 /\ x[1] = src
  <2>1. src \in S
    BY <1>1
  <2>. QED  BY <2>1
<1>7. /\ x \o y \in Seq(S) /\ Len(x \o y) = 1 + m
      /\ \A i \in 1..1 + m : (x \o y)[i] = IF i <= 1 THEN x[i] ELSE y[i - 1]
  <2>. HIDE DEF x, y, m
  <2>1. /\ x \o y \in Seq(S) /\ Len(x \o y) = Len(x) + Len(y)
        /\ \A i \in 1..Len(x) + Len(y) : (x \o y)[i] = IF i <= Len(x) THEN x[i] ELSE y[i - Len(x)]
    <3>1. x \in Seq(S) /\ y \in Seq(S)
      BY <1>5, <1>6
    <3>. QED  BY <3>1, ConcatProperties
  <2>. QED  BY <1>5, <1>6, <2>1
<1>8. \A i \in 1..Len(w) : (x \o y)[i] = w[i]
  <2>. TAKE i \in 1..Len(w)
  <2>1. i \in 1..1 + m
    BY <1>1
  <2>. HIDE DEF x, y, m
  <2>2. CASE i = 1
    BY <1>6, <1>7, <2>1, <2>2
  <2>3. CASE i # 1
    <3>1. ~(i <= 1) /\ i - 1 \in 1..m /\ (i - 1) + 1 = i
      BY <1>1, <2>1, <2>3
    <3>. QED  BY <1>5, <1>7, <2>1, <3>1
  <2>. QED  BY <2>2, <2>3
<1>9. x \o y = w
  <2>1. Len(x \o y) = Len(w)
    BY <1>1, <1>7
  <2>. HIDE DEF x, y, m
  <2>. QED  BY <1>7, <1>8, <2>1, SeqEqual
<1>. QED  BY <1>2, <1>3, <1>9

-----------------------------------------------------------------------------
(* Every route of a tree leads over its links.                             *)

\* Each level of a route in a tree is a link, both ways.
LEMMA TreeSteps ==
  ASSUME NEW t, IsPodTree(t)
  PROVE  /\ \A h \in TreeHosts(t) : /\ <<Host(h), Lower(RackOf(t, h))>> \in TreeLinks(t)
                                    /\ <<Lower(RackOf(t, h)), Host(h)>> \in TreeLinks(t)
         /\ \A h \in TreeHosts(t) : \A k \in UppersOfPod(t, PodOfRack(t, RackOf(t, h))) :
              /\ <<Lower(RackOf(t, h)), Upper(k)>> \in TreeLinks(t)
              /\ <<Upper(k), Lower(RackOf(t, h))>> \in TreeLinks(t)
         /\ \A k \in TreeUppers(t) : \A c \in CoresAbove(t, k) :
              /\ <<Upper(k), Core(c)>> \in TreeLinks(t) /\ <<Core(c), Upper(k)>> \in TreeLinks(t)
<1>1. ASSUME NEW h \in TreeHosts(t), NEW k \in UppersOfPod(t, PodOfRack(t, RackOf(t, h)))
      PROVE  LeadsUp(t, Lower(RackOf(t, h)), Upper(k))
  <2>1. RackOf(t, h) \in TreeLowers(t)
    BY TreeNumbers
  <2>. QED  BY <2>1 DEF LeadsUp
<1>2. \A h \in TreeHosts(t) : LeadsUp(t, Host(h), Lower(RackOf(t, h)))
  BY DEF LeadsUp
<1>3. \A k \in TreeUppers(t) : \A c \in CoresAbove(t, k) : LeadsUp(t, Upper(k), Core(c))
  BY DEF LeadsUp
<1>. QED  BY <1>1, <1>2, <1>3, TreeLink

\* The way down from a core switch into a pod.
LEMMA WayDown ==
  ASSUME NEW t, IsPodTree(t), NEW d \in TreeHosts(t), NEW k \in TreeUppers(t), NEW c \in CoresAbove(t, k),
         NEW down, down = UpperOf(t, PodOfRack(t, RackOf(t, d)), GroupOfCore(t, c))
  PROVE  down \in UppersOfPod(t, PodOfRack(t, RackOf(t, d))) /\ down \in TreeUppers(t) /\ c \in CoresAbove(t, down)
<1>1. c \in TreeCores(t) /\ GroupOfCore(t, c) \in 0..t.uppers - 1
  BY TreeNumbers DEF CoresAbove
<1>2. PodOfRack(t, RackOf(t, d)) \in 0..2 * t.racks - 1
  BY TreeNumbers
<1>3. /\ down \in TreeUppers(t) /\ PodOfUpper(t, down) = PodOfRack(t, RackOf(t, d))
      /\ GroupOfUpper(t, down) = GroupOfCore(t, c)
  BY <1>1, <1>2, TreeNumbers
<1>. QED  BY <1>1, <1>3 DEF UppersOfPod, CoresAbove

\* The nodes of the routes, and of their reverses.
RackNodes(t, s, d) == <<Host(s), Lower(RackOf(t, s)), Host(d)>>
PodNodes(t, s, k, d) == <<Host(s), Lower(RackOf(t, s)), Upper(k), Lower(RackOf(t, d)), Host(d)>>
CoreNodes(t, s, k, c, down, d) ==
  <<Host(s), Lower(RackOf(t, s)), Upper(k), Core(c), Upper(down), Lower(RackOf(t, d)), Host(d)>>

\* The route through a rack.
LEMMA RackRoute ==
  ASSUME NEW t, IsPodTree(t), NEW n, Links[n] = TreeLinks(t), NEW s \in TreeHosts(t), NEW d \in TreeHosts(t),
         RackOf(t, s) = RackOf(t, d)
  PROVE  IsRoute(ViaRack(s, RackOf(t, s), RackOf(t, d), d), Host(s), Host(d), n)
<1>. DEFINE w == RackNodes(t, s, d)
            v == RackNodes(t, d, s)
            S == {Host(s), Host(d), Lower(RackOf(t, s))}
<1>1. w = <<Host(s), Lower(RackOf(t, s)), Host(d)>> /\ v = <<Host(d), Lower(RackOf(t, s)), Host(s)>>
  BY DEF RackNodes
<1>2. ViaRack(s, RackOf(t, s), RackOf(t, d), d) = Reversible(Walk(w), Walk(v))
  BY DEF ViaRack, RackNodes
<1>3. w \in Seq(S) /\ v \in Seq(S) /\ Len(w) = 3 /\ Len(v) = 3
  BY <1>1
<1>. HIDE DEF w, v
<1>4. /\ w[1] = Host(s) /\ w[2] = Lower(RackOf(t, s)) /\ w[3] = Host(d)
      /\ v[1] = Host(d) /\ v[2] = Lower(RackOf(t, s)) /\ v[3] = Host(s)
  BY <1>1
<1>5. \A i \in 1..Len(w) : v[i] = w[Len(w) + 1 - i]
  <2>1. \A i \in 1..3 : v[i] = w[4 - i]
    <3>. TAKE i \in 1..3
    <3>1. i = 1 \/ i = 2 \/ i = 3
      OBVIOUS
    <3>. QED  BY <1>4, <3>1
  <2>. QED  BY <1>3, <2>1
<1>6. \A i \in 1..Len(w) - 1 : <<w[i], w[i + 1]>> \in Links[n] /\ <<w[i + 1], w[i]>> \in Links[n]
  <2>1. <<Host(s), Lower(RackOf(t, s))>> \in Links[n] /\ <<Lower(RackOf(t, s)), Host(s)>> \in Links[n]
    BY TreeSteps
  <2>2. <<Lower(RackOf(t, s)), Host(d)>> \in Links[n] /\ <<Host(d), Lower(RackOf(t, s))>> \in Links[n]
    BY TreeSteps
  <2>3. \A i \in 1..2 : <<w[i], w[i + 1]>> \in Links[n] /\ <<w[i + 1], w[i]>> \in Links[n]
    <3>. TAKE i \in 1..2
    <3>1. i = 1 \/ i = 2
      OBVIOUS
    <3>2. CASE i = 1
      BY <1>4, <2>1, <3>2
    <3>3. CASE i = 2
      BY <1>4, <2>2, <3>3
    <3>. QED  BY <3>1, <3>2, <3>3
  <2>4. Len(w) - 1 = 2
    BY <1>3
  <2>. QED  BY <2>3, <2>4
<1>7. IsRoute(Reversible(Walk(w), Walk(v)), w[1], w[Len(w)], n)
  <2>1. Len(w) = Len(v) /\ Len(w) >= 2
    BY <1>3
  <2>. HIDE DEF S
  <2>. QED  BY <1>3, <1>5, <1>6, <2>1, ReversibleRoute
<1>. QED  BY <1>2, <1>3, <1>4, <1>7

\* A route through an upper switch.
LEMMA PodRoute ==
  ASSUME NEW t, IsPodTree(t), NEW n, Links[n] = TreeLinks(t), NEW s \in TreeHosts(t), NEW d \in TreeHosts(t),
         PodOfRack(t, RackOf(t, s)) = PodOfRack(t, RackOf(t, d)),
         NEW k \in UppersOfPod(t, PodOfRack(t, RackOf(t, s)))
  PROVE  IsRoute(ViaUpper(s, RackOf(t, s), k, RackOf(t, d), d), Host(s), Host(d), n)
<1>. DEFINE a == Lower(RackOf(t, s))
            b == Lower(RackOf(t, d))
            w == PodNodes(t, s, k, d)
            v == PodNodes(t, d, k, s)
            S == {Host(s), Host(d), a, b, Upper(k)}
<1>1. w = <<Host(s), a, Upper(k), b, Host(d)>> /\ v = <<Host(d), b, Upper(k), a, Host(s)>>
  BY DEF PodNodes
<1>2. ViaUpper(s, RackOf(t, s), k, RackOf(t, d), d) = Reversible(Walk(w), Walk(v))
  BY DEF ViaUpper, PodNodes
<1>3. w \in Seq(S) /\ v \in Seq(S) /\ Len(w) = 5 /\ Len(v) = 5
  BY <1>1
<1>. HIDE DEF w, v
<1>4. /\ w[1] = Host(s) /\ w[2] = a /\ w[3] = Upper(k) /\ w[4] = b /\ w[5] = Host(d)
      /\ v[1] = Host(d) /\ v[2] = b /\ v[3] = Upper(k) /\ v[4] = a /\ v[5] = Host(s)
  BY <1>1
<1>5. \A i \in 1..Len(w) : v[i] = w[Len(w) + 1 - i]
  <2>1. \A i \in 1..5 : v[i] = w[6 - i]
    <3>. TAKE i \in 1..5
    <3>1. i = 1 \/ i = 2 \/ i = 3 \/ i = 4 \/ i = 5
      OBVIOUS
    <3>. QED  BY <1>4, <3>1
  <2>. QED  BY <1>3, <2>1
<1>6. \A i \in 1..Len(w) - 1 : <<w[i], w[i + 1]>> \in Links[n] /\ <<w[i + 1], w[i]>> \in Links[n]
  <2>1. <<Host(s), a>> \in Links[n] /\ <<a, Host(s)>> \in Links[n]
    BY TreeSteps
  <2>2. <<a, Upper(k)>> \in Links[n] /\ <<Upper(k), a>> \in Links[n]
    BY TreeSteps
  <2>3. <<Upper(k), b>> \in Links[n] /\ <<b, Upper(k)>> \in Links[n]
    BY TreeSteps
  <2>4. <<b, Host(d)>> \in Links[n] /\ <<Host(d), b>> \in Links[n]
    BY TreeSteps
  <2>5. \A i \in 1..4 : <<w[i], w[i + 1]>> \in Links[n] /\ <<w[i + 1], w[i]>> \in Links[n]
    <3>. TAKE i \in 1..4
    <3>1. i = 1 \/ i = 2 \/ i = 3 \/ i = 4
      OBVIOUS
    <3>2. CASE i = 1
      BY <1>4, <2>1, <3>2
    <3>3. CASE i = 2
      BY <1>4, <2>2, <3>3
    <3>4. CASE i = 3
      BY <1>4, <2>3, <3>4
    <3>5. CASE i = 4
      BY <1>4, <2>4, <3>5
    <3>. QED  BY <3>1, <3>2, <3>3, <3>4, <3>5
  <2>6. Len(w) - 1 = 4
    BY <1>3
  <2>. QED  BY <2>5, <2>6
<1>7. IsRoute(Reversible(Walk(w), Walk(v)), w[1], w[Len(w)], n)
  <2>1. Len(w) = Len(v) /\ Len(w) >= 2
    BY <1>3
  <2>. HIDE DEF S
  <2>. QED  BY <1>3, <1>5, <1>6, <2>1, ReversibleRoute
<1>. QED  BY <1>2, <1>3, <1>4, <1>7

\* A route through a core switch.
LEMMA CoreRoute ==
  ASSUME NEW t, IsPodTree(t), NEW n, Links[n] = TreeLinks(t), NEW s \in TreeHosts(t), NEW d \in TreeHosts(t),
         NEW k \in UppersOfPod(t, PodOfRack(t, RackOf(t, s))), NEW c \in CoresAbove(t, k),
         NEW down, down = UpperOf(t, PodOfRack(t, RackOf(t, d)), GroupOfCore(t, c))
  PROVE  IsRoute(ViaCore(s, RackOf(t, s), k, c, down, RackOf(t, d), d), Host(s), Host(d), n)
<1>. DEFINE a == Lower(RackOf(t, s))
            b == Lower(RackOf(t, d))
            w == CoreNodes(t, s, k, c, down, d)
            v == CoreNodes(t, d, down, c, k, s)
            S == {Host(s), Host(d), a, b, Upper(k), Core(c), Upper(down)}
<1>0. /\ k \in TreeUppers(t) /\ down \in UppersOfPod(t, PodOfRack(t, RackOf(t, d)))
      /\ down \in TreeUppers(t) /\ c \in CoresAbove(t, down)
  <2>1. k \in TreeUppers(t)
    BY DEF UppersOfPod
  <2>. QED  BY <2>1, WayDown
<1>1. /\ w = <<Host(s), a, Upper(k), Core(c), Upper(down), b, Host(d)>>
      /\ v = <<Host(d), b, Upper(down), Core(c), Upper(k), a, Host(s)>>
  BY DEF CoreNodes
<1>2. ViaCore(s, RackOf(t, s), k, c, down, RackOf(t, d), d) = Reversible(Walk(w), Walk(v))
  BY DEF ViaCore, CoreNodes
<1>3. w \in Seq(S) /\ v \in Seq(S) /\ Len(w) = 7 /\ Len(v) = 7
  BY <1>1
<1>. HIDE DEF w, v
<1>4. /\ w[1] = Host(s) /\ w[2] = a /\ w[3] = Upper(k) /\ w[4] = Core(c) /\ w[5] = Upper(down)
      /\ w[6] = b /\ w[7] = Host(d)
      /\ v[1] = Host(d) /\ v[2] = b /\ v[3] = Upper(down) /\ v[4] = Core(c) /\ v[5] = Upper(k)
      /\ v[6] = a /\ v[7] = Host(s)
  BY <1>1
<1>5. \A i \in 1..Len(w) : v[i] = w[Len(w) + 1 - i]
  <2>1. \A i \in 1..7 : v[i] = w[8 - i]
    <3>. TAKE i \in 1..7
    <3>1. i = 1 \/ i = 2 \/ i = 3 \/ i = 4 \/ i = 5 \/ i = 6 \/ i = 7
      OBVIOUS
    <3>. QED  BY <1>4, <3>1
  <2>. QED  BY <1>3, <2>1
<1>6. \A i \in 1..Len(w) - 1 : <<w[i], w[i + 1]>> \in Links[n] /\ <<w[i + 1], w[i]>> \in Links[n]
  <2>1. <<Host(s), a>> \in Links[n] /\ <<a, Host(s)>> \in Links[n]
    BY <1>0, TreeSteps
  <2>2. <<a, Upper(k)>> \in Links[n] /\ <<Upper(k), a>> \in Links[n]
    BY <1>0, TreeSteps
  <2>3. <<Upper(k), Core(c)>> \in Links[n] /\ <<Core(c), Upper(k)>> \in Links[n]
    BY <1>0, TreeSteps
  <2>4. <<Core(c), Upper(down)>> \in Links[n] /\ <<Upper(down), Core(c)>> \in Links[n]
    BY <1>0, TreeSteps
  <2>5. <<Upper(down), b>> \in Links[n] /\ <<b, Upper(down)>> \in Links[n]
    BY <1>0, TreeSteps
  <2>6. <<b, Host(d)>> \in Links[n] /\ <<Host(d), b>> \in Links[n]
    BY <1>0, TreeSteps
  <2>7. \A i \in 1..6 : <<w[i], w[i + 1]>> \in Links[n] /\ <<w[i + 1], w[i]>> \in Links[n]
    <3>. TAKE i \in 1..6
    <3>1. i = 1 \/ i = 2 \/ i = 3 \/ i = 4 \/ i = 5 \/ i = 6
      OBVIOUS
    <3>2. CASE i = 1
      BY <1>4, <2>1, <3>2
    <3>3. CASE i = 2
      BY <1>4, <2>2, <3>3
    <3>4. CASE i = 3
      BY <1>4, <2>3, <3>4
    <3>5. CASE i = 4
      BY <1>4, <2>4, <3>5
    <3>6. CASE i = 5
      BY <1>4, <2>5, <3>6
    <3>7. CASE i = 6
      BY <1>4, <2>6, <3>7
    <3>. QED  BY <3>1, <3>2, <3>3, <3>4, <3>5, <3>6, <3>7
  <2>8. Len(w) - 1 = 6
    BY <1>3
  <2>. QED  BY <2>7, <2>8
<1>7. IsRoute(Reversible(Walk(w), Walk(v)), w[1], w[Len(w)], n)
  <2>1. Len(w) = Len(v) /\ Len(w) >= 2
    BY <1>3
  <2>. HIDE DEF S
  <2>. QED  BY <1>3, <1>5, <1>6, <2>1, ReversibleRoute
<1>. QED  BY <1>2, <1>3, <1>4, <1>7

\* Every route of a tree leads over its links, there and back.
LEMMA TreeRoutes ==
  ASSUME NEW t, IsPodTree(t), NEW n, Links[n] = TreeLinks(t), NEW s \in TreeHosts(t), NEW d \in TreeHosts(t),
         NEW r \in TreePaths(t, s, d)
  PROVE  IsRoute(r, Host(s), Host(d), n)
<1>1. CASE RackOf(t, s) = RackOf(t, d)
  <2>1. r = ViaRack(s, RackOf(t, s), RackOf(t, d), d)
    BY <1>1 DEF TreePaths
  <2>. QED  BY <1>1, <2>1, RackRoute
<1>2. CASE RackOf(t, s) # RackOf(t, d) /\ PodOfRack(t, RackOf(t, s)) = PodOfRack(t, RackOf(t, d))
  <2>1. PICK k \in UppersOfPod(t, PodOfRack(t, RackOf(t, s))) : r = ViaUpper(s, RackOf(t, s), k, RackOf(t, d), d)
    BY <1>2 DEF TreePaths, PathsInPod
  <2>. QED  BY <1>2, <2>1, PodRoute
<1>3. CASE RackOf(t, s) # RackOf(t, d) /\ PodOfRack(t, RackOf(t, s)) # PodOfRack(t, RackOf(t, d))
  <2>1. r \in PathsOverCore(t, s, d)
    BY <1>3 DEF TreePaths
  <2>2. PICK k \in UppersOfPod(t, PodOfRack(t, RackOf(t, s))) : \E c \in CoresAbove(t, k) :
          r = ViaCore(s, RackOf(t, s), k, c, UpperOf(t, PodOfRack(t, RackOf(t, d)), GroupOfCore(t, c)),
                      RackOf(t, d), d)
    BY <2>1 DEF PathsOverCore
  <2>. QED  BY <2>2, CoreRoute
<1>. QED  BY <1>1, <1>2, <1>3

-----------------------------------------------------------------------------
(* Every shortest walk of a tree is one of its routes.                     *)

\* A route is a walk over the nodes it names.
LEMMA RouteIsWalk ==
  ASSUME NEW S, NEW w \in Seq(S), NEW hops \in Nat \ {0}, Len(w) = hops + 1,
         NEW r, r.out = Walk(w), Walks(r.out, src, dst, net), w[1] = src, w[hops + 1] = dst
  PROVE  IsWalk(w, hops) /\ Nodes(r) = w /\ Len(r.out) = hops
<1>1. /\ Len(w) >= 2 /\ Len(Walk(w)) = hops
      /\ \A i \in 1..hops : Walk(w)[i] = <<w[i], w[i + 1]>>
  <2>1. Len(w) >= 2 /\ Len(w) - 1 = hops
    OBVIOUS
  <2>. QED  BY <2>1, WalkOf
<1>2. Nodes(r) = w /\ Len(r.out) = hops
  BY <1>1, NodesOf
<1>3. \A k \in 1..hops : <<w[k], w[k + 1]>> \in Links[net]
  <2>. TAKE k \in 1..hops
  <2>1. <<r.out[k][1], r.out[k][2]>> \in Links[net]
    BY <1>1 DEF Walks
  <2>2. r.out[k] = <<w[k], w[k + 1]>>
    BY <1>1
  <2>. QED  BY <2>1, <2>2
<1>4. \A k \in 1..hops : \E l \in Links[net] : l[1] = w[k] /\ l[2] = w[k + 1]
  <2>. TAKE k \in 1..hops
  <2>1. <<w[k], w[k + 1]>> \in Links[net]
    BY <1>3
  <2>. QED  BY <2>1
<1>5. w \in Seq(WalkNodes)
  <2>1. ASSUME NEW i \in 1..Len(w) PROVE w[i] \in WalkNodes
    <3>1. CASE i = 1
      BY <3>1 DEF WalkNodes
    <3>2. CASE i # 1
      <4>1. i - 1 \in 1..hops /\ (i - 1) + 1 = i
        BY <3>2
      <4>2. \E l \in Links[net] : l[1] = w[i - 1] /\ l[2] = w[(i - 1) + 1]
        BY <1>4, <4>1
      <4>. QED  BY <4>1, <4>2 DEF WalkNodes
    <3>. QED  BY <3>1, <3>2
  <2>2. w = [i \in 1..Len(w) |-> w[i]] /\ Len(w) \in Nat
    OBVIOUS
  <2>. QED  BY <2>1, <2>2
<1>. QED  BY <1>2, <1>4, <1>5 DEF IsWalk

\* What a walk between two hosts begins and ends with.
LEMMA WalkEnds ==
  ASSUME NEW t, Links[net] = TreeLinks(t), NEW s, NEW d, src = Host(s), dst = Host(d),
         NEW hops \in Nat \ {0}, NEW w, IsWalk(w, hops)
  PROVE  /\ w \in Seq(WalkNodes) /\ Len(w) = hops + 1 /\ w[1] = Host(s) /\ w[hops + 1] = Host(d)
         /\ w[2] = Lower(RackOf(t, s)) /\ w[hops] = Lower(RackOf(t, d))
         /\ \A k \in 1..hops : /\ <<w[k], w[k + 1]>> \in TreeLinks(t)
                               /\ <<w[k + 1], w[k]>> \in TreeLinks(t)
<1>1. /\ w \in Seq(WalkNodes) /\ Len(w) = hops + 1 /\ w[1] = Host(s) /\ w[hops + 1] = Host(d)
      /\ \A k \in 1..hops : <<w[k], w[k + 1]>> \in TreeLinks(t)
  BY WalkLinks
<1>2. \A k \in 1..hops : <<w[k + 1], w[k]>> \in TreeLinks(t)
  BY <1>1, LinksLeadBack
<1>3. <<w[1], w[1 + 1]>> \in TreeLinks(t) /\ <<w[hops + 1], w[hops]>> \in TreeLinks(t)
  <2>1. 1 \in 1..hops /\ hops \in 1..hops
    OBVIOUS
  <2>. QED  BY <1>1, <1>2, <2>1
<1>4. w[2] = Lower(RackOf(t, s)) /\ w[hops] = Lower(RackOf(t, d))
  <2>1. <<Host(s), w[2]>> \in TreeLinks(t) /\ <<Host(d), w[hops]>> \in TreeLinks(t)
    BY <1>1, <1>3
  <2>. QED  BY <2>1, FromHost
<1>. QED  BY <1>1, <1>2, <1>4

\* An entry of a walk is one of the nodes it lists.
LEMMA EntryOf ==
  ASSUME NEW S, NEW w \in Seq(S)
  PROVE  \A i \in 1..Len(w) : w[i] \in S
OBVIOUS

\* The only walk of two links between hosts of a rack is the one through it.
LEMMA RackWalks ==
  ASSUME NEW t, Links[net] = TreeLinks(t), NEW s, NEW d, src = Host(s), dst = Host(d),
         NEW w, IsWalk(w, 2)
  PROVE  w = RackNodes(t, s, d)
<1>. DEFINE v == <<Host(s), Lower(RackOf(t, s)), Host(d)>>
<1>1. w \in Seq(WalkNodes) /\ Len(w) = 3 /\ w[1] = Host(s) /\ w[2] = Lower(RackOf(t, s)) /\ w[3] = Host(d)
  <2>0. /\ w \in Seq(WalkNodes) /\ Len(w) = 2 + 1 /\ w[1] = Host(s) /\ w[2 + 1] = Host(d)
        /\ w[2] = Lower(RackOf(t, s)) /\ w[2] = Lower(RackOf(t, d))
        /\ \A k \in 1..2 : <<w[k], w[k + 1]>> \in TreeLinks(t) /\ <<w[k + 1], w[k]>> \in TreeLinks(t)
    <3>1. 2 \in Nat \ {0}
      OBVIOUS
    <3>. QED  BY <3>1, WalkEnds
  <2>1. 2 + 1 = 3
    OBVIOUS
  <2>. QED  BY <2>0, <2>1
<1>2. w[1] \in WalkNodes /\ w[2] \in WalkNodes /\ w[3] \in WalkNodes
  <2>1. w \in Seq(WalkNodes) /\ Len(w) = 3
    BY <1>1
  <2>2. \A i \in 1..Len(w) : w[i] \in WalkNodes
    <3>1. w \in Seq(WalkNodes)
      BY <2>1
    <3>. QED  BY <3>1, EntryOf
  <2>3. 1 \in 1..Len(w) /\ 2 \in 1..Len(w) /\ 3 \in 1..Len(w)
    BY <2>1
  <2>. QED  BY <2>2, <2>3
<1>3. v \in Seq(WalkNodes) /\ Len(v) = 3 /\ v[1] = w[1] /\ v[2] = w[2] /\ v[3] = w[3]
  BY <1>1, <1>2
<1>4. \A i \in 1..3 : w[i] = v[i]
  <2>. TAKE i \in 1..3
  <2>1. i = 1 \/ i = 2 \/ i = 3
    OBVIOUS
  <2>. HIDE DEF v
  <2>. QED  BY <1>3, <2>1
<1>5. w = v
  <2>. HIDE DEF v
  <2>. QED  BY <1>1, <1>3, <1>4, SeqEqual
<1>. QED  BY <1>5 DEF RackNodes

\* The walks of four links in a pod are those through its upper switches.
LEMMA PodWalks ==
  ASSUME NEW t, Links[net] = TreeLinks(t), NEW s, NEW d, src = Host(s), dst = Host(d),
         RackOf(t, s) # RackOf(t, d), NEW w, IsWalk(w, 4)
  PROVE  \E k \in UppersOfPod(t, PodOfRack(t, RackOf(t, s))) : w = PodNodes(t, s, k, d)
<1>. DEFINE a == RackOf(t, s)
            b == RackOf(t, d)
<1>0. a # b
  OBVIOUS
<1>1. /\ w \in Seq(WalkNodes) /\ Len(w) = 5 /\ w[1] = Host(s) /\ w[2] = Lower(a)
      /\ w[4] = Lower(b) /\ w[5] = Host(d)
      /\ <<w[2], w[3]>> \in TreeLinks(t) /\ <<w[4], w[3]>> \in TreeLinks(t)
  <2>0. /\ w \in Seq(WalkNodes) /\ Len(w) = 4 + 1 /\ w[1] = Host(s) /\ w[4 + 1] = Host(d)
        /\ w[2] = Lower(RackOf(t, s)) /\ w[4] = Lower(RackOf(t, d))
        /\ \A k \in 1..4 : <<w[k], w[k + 1]>> \in TreeLinks(t) /\ <<w[k + 1], w[k]>> \in TreeLinks(t)
    <3>1. 4 \in Nat \ {0}
      OBVIOUS
    <3>. QED  BY <3>1, WalkEnds
  <2>1. 4 + 1 = 5 /\ 2 \in 1..4 /\ 2 + 1 = 3 /\ 3 \in 1..4 /\ 3 + 1 = 4
    OBVIOUS
  <2>. QED  BY <2>0, <2>1
<1>2. /\ \/ \E h \in TreeHosts(t) : w[3] = Host(h) /\ RackOf(t, h) = a
         \/ \E k \in UppersOfPod(t, PodOfRack(t, a)) : w[3] = Upper(k)
      /\ \/ \E h \in TreeHosts(t) : w[3] = Host(h) /\ RackOf(t, h) = b
         \/ \E k \in UppersOfPod(t, PodOfRack(t, b)) : w[3] = Upper(k)
  <2>1. <<Lower(a), w[3]>> \in TreeLinks(t) /\ <<Lower(b), w[3]>> \in TreeLinks(t)
    BY <1>1
  <2>. HIDE DEF a, b
  <2>. QED  BY <2>1, FromLower
<1>3. PICK k \in UppersOfPod(t, PodOfRack(t, a)) : w[3] = Upper(k)
  <2>. HIDE DEF a, b
  <2>. QED  BY <1>0, <1>2, NodeNames
<1>. DEFINE v == <<Host(s), Lower(a), Upper(k), Lower(b), Host(d)>>
<1>4. v \in Seq(WalkNodes) /\ Len(v) = 5
  <2>1. w[1] \in WalkNodes /\ w[2] \in WalkNodes /\ w[3] \in WalkNodes /\ w[4] \in WalkNodes /\ w[5] \in WalkNodes
    <3>1. w \in Seq(WalkNodes) /\ Len(w) = 5
      BY <1>1
    <3>2. \A i \in 1..Len(w) : w[i] \in WalkNodes
      BY <3>1, EntryOf
    <3>. QED  BY <3>1, <3>2
  <2>. QED  BY <1>1, <1>3, <2>1
<1>5. \A i \in 1..5 : w[i] = v[i]
  <2>1. v[1] = Host(s) /\ v[2] = Lower(a) /\ v[3] = Upper(k) /\ v[4] = Lower(b) /\ v[5] = Host(d)
    OBVIOUS
  <2>. TAKE i \in 1..5
  <2>2. i = 1 \/ i = 2 \/ i = 3 \/ i = 4 \/ i = 5
    OBVIOUS
  <2>. HIDE DEF v, a, b
  <2>. QED  BY <1>1, <1>3, <2>1, <2>2
<1>6. w = v
  <2>. HIDE DEF v, a, b
  <2>. QED  BY <1>1, <1>4, <1>5, SeqEqual
<1>. QED  BY <1>6 DEF PodNodes

\* The walks of six links between pods are those through the core switches.
LEMMA CoreWalks ==
  ASSUME NEW t, IsPodTree(t), Links[net] = TreeLinks(t), NEW s, NEW d, src = Host(s), dst = Host(d),
         PodOfRack(t, RackOf(t, s)) # PodOfRack(t, RackOf(t, d)), NEW w, IsWalk(w, 6)
  PROVE  \E k \in UppersOfPod(t, PodOfRack(t, RackOf(t, s))) : \E c \in CoresAbove(t, k) :
           w = CoreNodes(t, s, k, c, UpperOf(t, PodOfRack(t, RackOf(t, d)), GroupOfCore(t, c)), d)
<1>. DEFINE a == RackOf(t, s)
            b == RackOf(t, d)
            pa == PodOfRack(t, a)
            pb == PodOfRack(t, b)
<1>0. pa # pb /\ a # b
  OBVIOUS
<1>1. /\ w \in Seq(WalkNodes) /\ Len(w) = 7 /\ w[1] = Host(s) /\ w[2] = Lower(a)
      /\ w[6] = Lower(b) /\ w[7] = Host(d)
      /\ <<w[2], w[3]>> \in TreeLinks(t) /\ <<w[3], w[4]>> \in TreeLinks(t)
      /\ <<w[4], w[5]>> \in TreeLinks(t) /\ <<w[6], w[5]>> \in TreeLinks(t)
  <2>0. /\ w \in Seq(WalkNodes) /\ Len(w) = 6 + 1 /\ w[1] = Host(s) /\ w[6 + 1] = Host(d)
        /\ w[2] = Lower(RackOf(t, s)) /\ w[6] = Lower(RackOf(t, d))
        /\ \A k \in 1..6 : <<w[k], w[k + 1]>> \in TreeLinks(t) /\ <<w[k + 1], w[k]>> \in TreeLinks(t)
    <3>1. 6 \in Nat \ {0}
      OBVIOUS
    <3>. QED  BY <3>1, WalkEnds
  <2>1. /\ 6 + 1 = 7 /\ 2 \in 1..6 /\ 2 + 1 = 3 /\ 3 \in 1..6 /\ 3 + 1 = 4
        /\ 4 \in 1..6 /\ 4 + 1 = 5 /\ 5 \in 1..6 /\ 5 + 1 = 6
    OBVIOUS
  <2>. QED  BY <2>0, <2>1
<1>2. \/ \E h \in TreeHosts(t) : w[3] = Host(h) /\ RackOf(t, h) = a
      \/ \E k \in UppersOfPod(t, pa) : w[3] = Upper(k)
  <2>1. <<Lower(a), w[3]>> \in TreeLinks(t)
    BY <1>1
  <2>. HIDE DEF a
  <2>. QED  BY <2>1, FromLower
<1>3. \/ \E h \in TreeHosts(t) : w[5] = Host(h) /\ RackOf(t, h) = b
      \/ \E k \in UppersOfPod(t, pb) : w[5] = Upper(k)
  <2>1. <<Lower(b), w[5]>> \in TreeLinks(t)
    BY <1>1
  <2>. HIDE DEF b
  <2>. QED  BY <2>1, FromLower
<1>. HIDE DEF a, b, pa, pb
\* From a rack of the source's pod, four links are too few.
<1>4. ASSUME NEW j, PodOfRack(t, j) = pa PROVE w[4] # Lower(j)
  <2>. SUFFICES ASSUME w[4] = Lower(j) PROVE FALSE
    OBVIOUS
  <2>1. <<Lower(j), w[5]>> \in TreeLinks(t)
    BY <1>1
  <2>2. \/ \E h \in TreeHosts(t) : w[5] = Host(h) /\ RackOf(t, h) = j
        \/ \E k \in UppersOfPod(t, PodOfRack(t, j)) : w[5] = Upper(k)
    BY <2>1, FromLower
  <2>3. CASE \E h \in TreeHosts(t) : w[5] = Host(h) /\ RackOf(t, h) = j
    <3>1. PICK h \in TreeHosts(t) : w[5] = Host(h) /\ RackOf(t, h) = j
      BY <2>3
    <3>2. RackOf(t, h) = b
      BY <1>3, <3>1, NodeNames
    <3>3. PodOfRack(t, b) = pa /\ PodOfRack(t, b) = pb
      BY <1>4, <3>1, <3>2 DEF pb
    <3>. QED  BY <1>0, <3>3
  <2>4. CASE \E k \in UppersOfPod(t, PodOfRack(t, j)) : w[5] = Upper(k)
    BY <1>0, <1>3, <1>4, <2>4, NodeNames DEF UppersOfPod
  <2>. QED  BY <2>2, <2>3, <2>4
<1>5. PICK k \in UppersOfPod(t, pa) : w[3] = Upper(k)
  <2>1. ASSUME NEW h \in TreeHosts(t), w[3] = Host(h), RackOf(t, h) = a PROVE FALSE
    <3>1. <<Host(h), w[4]>> \in TreeLinks(t)
      BY <1>1, <2>1
    <3>2. w[4] = Lower(a)
      BY <2>1, <3>1, FromHost
    <3>3. PodOfRack(t, a) = pa
      BY DEF pa
    <3>. QED  BY <1>4, <3>2, <3>3
  <2>. QED  BY <1>2, <2>1
<1>6. PICK c \in CoresAbove(t, k) : w[4] = Core(c)
  <2>1. PodOfUpper(t, k) = pa
    BY DEF UppersOfPod
  <2>2. \/ \E j \in TreeLowers(t) : w[4] = Lower(j) /\ PodOfRack(t, j) = PodOfUpper(t, k)
        \/ \E c \in CoresAbove(t, k) : w[4] = Core(c)
    <3>1. <<Upper(k), w[4]>> \in TreeLinks(t)
      BY <1>1, <1>5
    <3>. QED  BY <3>1, FromUpper
  <2>. QED  BY <1>4, <2>1, <2>2
<1>7. w[5] = Upper(UpperOf(t, pb, GroupOfCore(t, c)))
  <2>1. PICK u \in TreeUppers(t) : w[5] = Upper(u) /\ GroupOfUpper(t, u) = GroupOfCore(t, c)
    <3>1. <<Core(c), w[5]>> \in TreeLinks(t)
      BY <1>1, <1>6
    <3>. QED  BY <3>1, FromCore
  <2>2. PodOfUpper(t, u) = pb
    BY <1>3, <2>1, NodeNames DEF UppersOfPod
  <2>3. u = UpperOf(t, PodOfUpper(t, u), GroupOfUpper(t, u))
    BY TreeNumbers
  <2>. QED  BY <2>1, <2>2, <2>3
<1>. DEFINE down == UpperOf(t, pb, GroupOfCore(t, c))
            v == <<Host(s), Lower(a), Upper(k), Core(c), Upper(down), Lower(b), Host(d)>>
<1>8. v \in Seq(WalkNodes) /\ Len(v) = 7
  <2>1. /\ w[1] \in WalkNodes /\ w[2] \in WalkNodes /\ w[3] \in WalkNodes /\ w[4] \in WalkNodes /\ w[5] \in WalkNodes
        /\ w[6] \in WalkNodes /\ w[7] \in WalkNodes
    <3>1. w \in Seq(WalkNodes) /\ Len(w) = 7
      BY <1>1
    <3>2. \A i \in 1..Len(w) : w[i] \in WalkNodes
      BY <3>1, EntryOf
    <3>. QED  BY <3>1, <3>2
  <2>. QED  BY <1>1, <1>5, <1>6, <1>7, <2>1
<1>9. \A i \in 1..7 : w[i] = v[i]
  <2>1. /\ v[1] = Host(s) /\ v[2] = Lower(a) /\ v[3] = Upper(k) /\ v[4] = Core(c)
        /\ v[5] = Upper(down) /\ v[6] = Lower(b) /\ v[7] = Host(d)
    OBVIOUS
  <2>. TAKE i \in 1..7
  <2>2. i = 1 \/ i = 2 \/ i = 3 \/ i = 4 \/ i = 5 \/ i = 6 \/ i = 7
    OBVIOUS
  <2>. HIDE DEF v, a, b
  <2>. QED  BY <1>1, <1>5, <1>6, <1>7, <2>1, <2>2
<1>10. w = v
  <2>. HIDE DEF v
  <2>. QED  BY <1>1, <1>8, <1>9, SeqEqual
<1>. QED  BY <1>10 DEF CoreNodes, a, b, pa, pb

-----------------------------------------------------------------------------
(* The routes of a tree are its shortest walks.                            *)

\* The routes of a tree whose queues return no packets.
OneWayOf(r) == [out |-> r.out, back |-> <<>>, reversible |-> FALSE, feeder |-> FALSE]

\* What a lemma about one kind of route says: the nodes it takes, and that it is a walk.
NamesWalk(r, w, hops) == Nodes(r) = w /\ Len(r.out) = hops /\ IsWalk(w, hops)

\* The route through a rack is such a walk.
LEMMA RackNames ==
  ASSUME NEW t, IsPodTree(t), Links[net] = TreeLinks(t), NEW s \in TreeHosts(t), NEW d \in TreeHosts(t),
         src = Host(s), dst = Host(d), RackOf(t, s) = RackOf(t, d)
  PROVE  NamesWalk(ViaRack(s, RackOf(t, s), RackOf(t, d), d), RackNodes(t, s, d), 2)
<1>. DEFINE r == ViaRack(s, RackOf(t, s), RackOf(t, d), d)
            w == RackNodes(t, s, d)
            S == {Host(s), Lower(RackOf(t, s)), Host(d)}
<1>1. Walks(r.out, src, dst, net)
  BY RackRoute DEF IsRoute
<1>2. r.out = Walk(w)
  BY DEF ViaRack, Reversible, RackNodes
<1>3. w \in Seq(S) /\ Len(w) = 2 + 1 /\ w[1] = src /\ w[2 + 1] = dst
  BY DEF RackNodes
<1>4. 2 \in Nat \ {0}
  OBVIOUS
<1>. HIDE DEF r, w, S
<1>5. IsWalk(w, 2) /\ Nodes(r) = w /\ Len(r.out) = 2
  BY <1>1, <1>2, <1>3, <1>4, RouteIsWalk
<1>. QED  BY <1>5 DEF NamesWalk, r, w

\* A route through an upper switch is such a walk.
LEMMA PodNames ==
  ASSUME NEW t, IsPodTree(t), Links[net] = TreeLinks(t), NEW s \in TreeHosts(t), NEW d \in TreeHosts(t),
         src = Host(s), dst = Host(d), PodOfRack(t, RackOf(t, s)) = PodOfRack(t, RackOf(t, d)),
         NEW k \in UppersOfPod(t, PodOfRack(t, RackOf(t, s)))
  PROVE  NamesWalk(ViaUpper(s, RackOf(t, s), k, RackOf(t, d), d), PodNodes(t, s, k, d), 4)
<1>. DEFINE r == ViaUpper(s, RackOf(t, s), k, RackOf(t, d), d)
            w == PodNodes(t, s, k, d)
            S == {Host(s), Lower(RackOf(t, s)), Upper(k), Lower(RackOf(t, d)), Host(d)}
<1>1. Walks(r.out, src, dst, net)
  BY PodRoute DEF IsRoute
<1>2. r.out = Walk(w)
  BY DEF ViaUpper, Reversible, PodNodes
<1>3. w \in Seq(S) /\ Len(w) = 4 + 1 /\ w[1] = src /\ w[4 + 1] = dst
  BY DEF PodNodes
<1>4. 4 \in Nat \ {0}
  OBVIOUS
<1>. HIDE DEF r, w, S
<1>5. IsWalk(w, 4) /\ Nodes(r) = w /\ Len(r.out) = 4
  BY <1>1, <1>2, <1>3, <1>4, RouteIsWalk
<1>. QED  BY <1>5 DEF NamesWalk, r, w

\* A route through a core switch is such a walk.
LEMMA CoreNames ==
  ASSUME NEW t, IsPodTree(t), Links[net] = TreeLinks(t), NEW s \in TreeHosts(t), NEW d \in TreeHosts(t),
         src = Host(s), dst = Host(d),
         NEW k \in UppersOfPod(t, PodOfRack(t, RackOf(t, s))), NEW c \in CoresAbove(t, k),
         NEW down, down = UpperOf(t, PodOfRack(t, RackOf(t, d)), GroupOfCore(t, c))
  PROVE  NamesWalk(ViaCore(s, RackOf(t, s), k, c, down, RackOf(t, d), d), CoreNodes(t, s, k, c, down, d), 6)
<1>. DEFINE r == ViaCore(s, RackOf(t, s), k, c, down, RackOf(t, d), d)
            w == CoreNodes(t, s, k, c, down, d)
            S == {Host(s), Lower(RackOf(t, s)), Upper(k), Core(c), Upper(down), Lower(RackOf(t, d)), Host(d)}
<1>1. Walks(r.out, src, dst, net)
  <2>1. IsRoute(r, Host(s), Host(d), net)
    BY CoreRoute
  <2>. HIDE DEF r
  <2>. QED  BY <2>1 DEF IsRoute
<1>2. r.out = Walk(w)
  BY DEF ViaCore, Reversible, CoreNodes
<1>3. w \in Seq(S) /\ Len(w) = 6 + 1 /\ w[1] = src /\ w[6 + 1] = dst
  BY DEF CoreNodes
<1>4. 6 \in Nat \ {0}
  OBVIOUS
<1>. HIDE DEF r, w, S
<1>5. IsWalk(w, 6) /\ Nodes(r) = w /\ Len(r.out) = 6
  BY <1>1, <1>2, <1>3, <1>4, RouteIsWalk
<1>. QED  BY <1>5 DEF NamesWalk, r, w

\* A pod has an upper switch, and one above it.
LEMMA SomeSwitch ==
  ASSUME NEW t, IsPodTree(t), NEW h \in TreeHosts(t)
  PROVE  \E k \in UppersOfPod(t, PodOfRack(t, RackOf(t, h))) : CoresAbove(t, k) # {}
<1>. DEFINE k == UpperOf(t, PodOfRack(t, RackOf(t, h)), 0)
<1>1. t.racks \in Nat \ {0} /\ t.uppers \in Nat \ {0}
  BY DEF IsPodTree
<1>2. 0 \in 0..t.uppers - 1 /\ PodOfRack(t, RackOf(t, h)) \in 0..2 * t.racks - 1
  BY <1>1, TreeNumbers
<1>3. k \in UppersOfPod(t, PodOfRack(t, RackOf(t, h))) /\ GroupOfUpper(t, k) = 0
  BY <1>2, TreeNumbers DEF UppersOfPod
<1>4. 0 \in TreeCores(t) /\ GroupOfCore(t, 0) = 0
  <2>1. t.uppers * t.racks \in Nat \ {0} /\ 0 \div t.racks = 0
    BY <1>1
  <2>. QED  BY <2>1 DEF TreeCores, GroupOfCore
<1>5. 0 \in CoresAbove(t, k)
  BY <1>3, <1>4 DEF CoresAbove
<1>. QED  BY <1>3, <1>5

\* The routes of a tree are its shortest walks, and all of them.
LEMMA TreeShortest ==
  ASSUME NEW t, IsPodTree(t), Links[net] = TreeLinks(t), NEW s \in TreeHosts(t), NEW d \in TreeHosts(t),
         s # d, src = Host(s), dst = Host(d)
  PROVE  \E hops \in Nat : /\ TreePaths(t, s, d) # {}
                           /\ \A r \in TreePaths(t, s, d) : Len(r.out) = hops
                           /\ {Nodes(r) : r \in TreePaths(t, s, d)} = ShortestWalks(hops)
<1>. DEFINE a == RackOf(t, s)
            b == RackOf(t, d)
            P == TreePaths(t, s, d)
            X == {Nodes(r) : r \in P}
            Claim(hops) == /\ P # {} /\ \A r \in P : Len(r.out) = hops
                           /\ X = ShortestWalks(hops)
<1>1. ASSUME NEW hops \in Nat \ {0}, Hops(t, d, Host(s)) = hops
      PROVE  \A w : w \in ShortestWalks(hops) <=> IsWalk(w, hops)
  <2>1. src \notin Within(hops)[hops - 1]
    BY <1>1, NoShorterWalk
  <2>. QED  BY <2>1, ShortestWalksAre
<1>2. CASE a = b
  <2>1. P = {ViaRack(s, a, b, d)}
    BY <1>2 DEF TreePaths
  <2>2. NamesWalk(ViaRack(s, a, b, d), RackNodes(t, s, d), 2)
    BY <1>2, RackNames
  <2>3. Hops(t, d, Host(s)) = 2 /\ 2 \in Nat \ {0}
    BY <1>2, HopsOfNodes
  <2>4. \A w : w \in ShortestWalks(2) <=> IsWalk(w, 2)
    BY <1>1, <2>3
  <2>5. \A w : IsWalk(w, 2) => w = RackNodes(t, s, d)
    BY RackWalks
  <2>6. X = {RackNodes(t, s, d)}
    <3>. HIDE DEF P
    <3>. QED  BY <2>1, <2>2 DEF NamesWalk
  <2>7. ShortestWalks(2) = {RackNodes(t, s, d)}
    BY <2>2, <2>4, <2>5 DEF NamesWalk
  <2>8. Claim(2)
    <3>. HIDE DEF P, X
    <3>. QED  BY <2>1, <2>2, <2>6, <2>7 DEF NamesWalk
  <2>. QED  BY <2>8
<1>3. CASE a # b /\ PodOfRack(t, a) = PodOfRack(t, b)
  <2>. DEFINE U == UppersOfPod(t, PodOfRack(t, a))
  <2>1. P = {ViaUpper(s, a, k, b, d) : k \in U}
    BY <1>3 DEF TreePaths, PathsInPod
  <2>2. \A k \in U : NamesWalk(ViaUpper(s, a, k, b, d), PodNodes(t, s, k, d), 4)
    BY <1>3, PodNames
  <2>3. Hops(t, d, Host(s)) = 4 /\ 4 \in Nat \ {0}
    BY <1>3, HopsOfNodes
  <2>4. \A w : w \in ShortestWalks(4) <=> IsWalk(w, 4)
    BY <1>1, <2>3
  <2>5. \A w : IsWalk(w, 4) => \E k \in U : w = PodNodes(t, s, k, d)
    BY <1>3, PodWalks
  <2>6. U # {}
    BY SomeSwitch
  <2>. HIDE DEF P, U
  <2>7. X = {PodNodes(t, s, k, d) : k \in U}
    BY <2>1, <2>2 DEF NamesWalk
  <2>8. ShortestWalks(4) = {PodNodes(t, s, k, d) : k \in U}
    BY <2>2, <2>4, <2>5 DEF NamesWalk
  <2>9. Claim(4)
    <3>. HIDE DEF X
    <3>. QED  BY <2>1, <2>2, <2>6, <2>7, <2>8 DEF NamesWalk
  <2>. QED  BY <2>9 DEF P
<1>4. CASE a # b /\ PodOfRack(t, a) # PodOfRack(t, b)
  <2>. DEFINE U == UppersOfPod(t, PodOfRack(t, a))
              down(c) == UpperOf(t, PodOfRack(t, b), GroupOfCore(t, c))
              via(k, c) == ViaCore(s, a, k, c, down(c), b, d)
              nodes(k, c) == CoreNodes(t, s, k, c, down(c), d)
  <2>1. P = UNION {{via(k, c) : c \in CoresAbove(t, k)} : k \in U}
    BY <1>4 DEF TreePaths, PathsOverCore
  <2>2. \A k \in U : \A c \in CoresAbove(t, k) : NamesWalk(via(k, c), nodes(k, c), 6)
    BY <1>4, CoreNames
  <2>3. Hops(t, d, Host(s)) = 6 /\ 6 \in Nat \ {0}
    BY <1>4, HopsOfNodes
  <2>4. \A w : w \in ShortestWalks(6) <=> IsWalk(w, 6)
    BY <1>1, <2>3
  <2>5. \A w : IsWalk(w, 6) => \E k \in U : \E c \in CoresAbove(t, k) : w = nodes(k, c)
    BY <1>4, CoreWalks
  <2>6. \E k \in U : \E c \in CoresAbove(t, k) : TRUE
    BY SomeSwitch
  <2>. HIDE DEF P, U, via, nodes
  <2>7. X = UNION {{nodes(k, c) : c \in CoresAbove(t, k)} : k \in U}
    BY <2>1, <2>2 DEF NamesWalk
  <2>8. ShortestWalks(6) = UNION {{nodes(k, c) : c \in CoresAbove(t, k)} : k \in U}
    BY <2>2, <2>4, <2>5 DEF NamesWalk
  <2>9. Claim(6)
    <3>1. P # {}
      <4>1. PICK k \in U : CoresAbove(t, k) # {}
        BY <2>6
      <4>2. PICK c \in CoresAbove(t, k) : TRUE
        BY <4>1
      <4>3. via(k, c) \in P
        BY <2>1
      <4>. QED  BY <4>3
    <3>2. \A r \in P : Len(r.out) = 6
      BY <2>1, <2>2 DEF NamesWalk
    <3>. HIDE DEF X
    <3>. QED  BY <2>7, <2>8, <3>1, <3>2
  <2>. QED  BY <2>9 DEF P
<1>. QED  BY <1>2, <1>3, <1>4

\* EveryShortestPath, for a tree of any size.
LEMMA TreeEveryPath ==
  ASSUME NEW t, IsPodTree(t), Links[net] = TreeLinks(t), NEW s \in TreeHosts(t), NEW d \in TreeHosts(t),
         s # d, src = Host(s), dst = Host(d),
         \/ paths = TreePaths(t, s, d)
         \/ paths = {OneWayOf(r) : r \in TreePaths(t, s, d)}
  PROVE  EveryShortestPath
<1>. DEFINE P == TreePaths(t, s, d)
<1>1. PICK hops \in Nat : /\ P # {} /\ \A r \in P : Len(r.out) = hops
                          /\ {Nodes(r) : r \in P} = ShortestWalks(hops)
  BY TreeShortest
<1>2. paths # {} /\ (\A r \in paths : Len(r.out) = hops) /\ {Nodes(r) : r \in paths} = {Nodes(r) : r \in P}
  <2>1. CASE paths = P
    <3>. HIDE DEF P
    <3>. QED  BY <1>1, <2>1
  <2>2. CASE paths = {OneWayOf(r) : r \in P}
    <3>1. \A r : OneWayOf(r).out = r.out /\ Nodes(OneWayOf(r)) = Nodes(r)
      BY DEF OneWayOf, Nodes
    <3>. HIDE DEF P
    <3>. QED  BY <1>1, <2>2, <3>1
  <2>. QED  BY <2>1, <2>2
<1>3. Len((CHOOSE r \in paths : TRUE).out) = hops
  <2>1. (CHOOSE r \in paths : TRUE) \in paths
    BY <1>2
  <2>. QED  BY <1>2, <2>1
<1>. HIDE DEF P
<1>. QED  BY <1>1, <1>2, <1>3 DEF EveryShortestPath

-----------------------------------------------------------------------------
(* The five trees of clos/datacenter.                                      *)

Full(N) == INSTANCE FatTree WITH NoOfNodes <- N
Os(Size, PerRack) == INSTANCE OsFatTree WITH K <- Size, Nhpr <- PerRack
Agg(Size, PerPod) == INSTANCE AggOsFatTree WITH K <- Size, UpPort <- PerPod
Three == INSTANCE FatTree3to1
Over(Size) == INSTANCE OversubscribedFatTree WITH K <- Size

Shape(racks, uppers, hosts) == [racks |-> racks, uppers |-> uppers, hosts |-> hosts]

\* Pods that are numbered consecutively.
LEMMA Consecutive ==
  ASSUME NEW n \in Nat \ {0}, NEW a \in Nat, NEW x \in Int
  PROVE  x \in a * n..a * n + n - 1 <=> x \in Nat /\ x \div n = a
<1>1. ASSUME x \in a * n..a * n + n - 1 PROVE x \in Nat /\ x \div n = a
  <2>1. a * n \in Nat
    OBVIOUS
  <2>2. x - a * n \in 0..n - 1 /\ x = a * n + (x - a * n)
    BY <1>1, <2>1
  <2>3. (a * n + (x - a * n)) \div n = a
    BY <2>2, QuotientOf
  <2>. QED  BY <1>1, <2>1, <2>2, <2>3
<1>2. ASSUME x \in Nat, x \div n = a PROVE x \in a * n..a * n + n - 1
  <2>1. x % n \in 0..n - 1 /\ x = a * n + (x % n)
    BY <1>2, Quotient
  <2>2. a * n \in Nat
    OBVIOUS
  <2>. QED  BY <1>2, <2>1, <2>2
<1>. QED  BY <1>1, <1>2

\* A number in a row of a groups of n each.
LEMMA Grouped ==
  ASSUME NEW n \in Nat \ {0}, NEW a \in Nat, NEW x \in Nat
  PROVE  x \in 0..a * n - 1 <=> x \div n \in 0..a - 1
<1>1. a * n \in Nat
  OBVIOUS
<1>2. x \in 0..a * n - 1 => x \div n \in 0..a - 1
  BY <1>1, QuotientBelow
<1>3. ASSUME x \div n \in 0..a - 1 PROVE x \in 0..a * n - 1
  <2>1. x % n \in 0..n - 1 /\ x = (x \div n) * n + (x % n)
    BY Quotient
  <2>. QED  BY <1>3, <2>1, ProductBelow
<1>. QED  BY <1>2, <1>3

\* Dividing twice, as HOST_POD and HOST_POD_SWITCH of different trees do.
LEMMA QuotientTwice ==
  ASSUME NEW x \in Nat, NEW a \in Nat \ {0}, NEW b \in Nat \ {0}
  PROVE  (x \div a) \div b = x \div (a * b)
OBVIOUS

\* The divisions in the sizes of a tree of 2 * m ports.
LEMMA Halves ==
  ASSUME NEW m \in Nat \ {0}
  PROVE  /\ (2 * m) \div 2 = m
         /\ \A a \in Nat : (a * (2 * m)) \div 2 = a * m /\ ((a + 1) * (2 * m)) \div 2 = a * m + m
         /\ \A a \in Nat : (2 * a) \div (2 * m) = a \div m
         /\ ((2 * m) * (2 * m)) \div 2 = 2 * m * m /\ ((2 * m) * (2 * m)) \div 4 = m * m
         /\ ((2 * m) * (2 * m) * (2 * m)) \div 4 = 2 * m * m * m
<1>1. (2 * m) \div 2 = m
  OBVIOUS
<1>2. ASSUME NEW a \in Nat PROVE (a * (2 * m)) \div 2 = a * m /\ ((a + 1) * (2 * m)) \div 2 = a * m + m
  <2>1. a * (2 * m) = 2 * (a * m) /\ (a + 1) * (2 * m) = 2 * (a * m + m) /\ a * m \in Nat
    OBVIOUS
  <2>. QED  BY <2>1
<1>3. ASSUME NEW a \in Nat PROVE (2 * a) \div (2 * m) = a \div m
  <2>1. (2 * a) \div 2 = a
    OBVIOUS
  <2>2. ((2 * a) \div 2) \div m = (2 * a) \div (2 * m)
    <3>1. 2 * a \in Nat /\ 2 \in Nat \ {0}
      OBVIOUS
    <3>. QED  BY <3>1, QuotientTwice
  <2>. QED  BY <2>1, <2>2
<1>4. ((2 * m) * (2 * m)) \div 2 = 2 * m * m /\ ((2 * m) * (2 * m)) \div 4 = m * m
  <2>1. (2 * m) * (2 * m) = 4 * (m * m) /\ m * m \in Nat
    OBVIOUS
  <2>. QED  BY <2>1
<1>5. ((2 * m) * (2 * m) * (2 * m)) \div 4 = 2 * m * m * m
  <2>1. (2 * m) * (2 * m) * (2 * m) = 4 * (2 * m * m * m) /\ 2 * m * m * m \in Nat
    OBVIOUS
  <2>. QED  BY <2>1
<1>. QED  BY <1>1, <1>2, <1>3, <1>4, <1>5

-----------------------------------------------------------------------------
(* The links and switches of a tree, as the code numbers them.             *)

\* The numbers of a tree, as products of two factors.
LEMMA PodTreeSizes ==
  ASSUME NEW t, IsPodTree(t)
  PROVE  /\ t.racks \in Nat \ {0} /\ t.uppers \in Nat \ {0} /\ t.hosts \in Nat \ {0}
         /\ 2 * t.racks \in Nat /\ 2 * t.racks * t.racks \in Nat
         /\ TreeHosts(t) = 0..(2 * t.racks * t.racks) * t.hosts - 1
         /\ TreeLowers(t) = 0..(2 * t.racks) * t.racks - 1
         /\ TreeUppers(t) = 0..(2 * t.racks) * t.uppers - 1
         /\ TreeCores(t) = 0..t.uppers * t.racks - 1
BY DEF IsPodTree, TreeHosts, TreeLowers, TreeUppers, TreeCores

\* The same switches and links, as the loops of init_network and get_paths number them.
LEMMA UppersAre ==
  ASSUME NEW t, IsPodTree(t), NEW pod \in 0..2 * t.racks - 1
  PROVE  /\ UppersOfPod(t, pod) = pod * t.uppers..pod * t.uppers + t.uppers - 1
         /\ UppersOfPod(t, pod) = {pod * t.uppers + u : u \in 0..t.uppers - 1}
<1>. DEFINE p == t.uppers
            m == t.racks
<1>1. p \in Nat \ {0} /\ 2 * m \in Nat /\ TreeUppers(t) = 0..(2 * m) * p - 1 /\ pod \in Nat
      /\ pod \in 0..2 * m - 1
  BY PodTreeSizes
<1>2. pod * p \in Nat
  BY <1>1
<1>. HIDE DEF p, m
<1>3. ASSUME NEW k, k \in UppersOfPod(t, pod) PROVE k \in pod * p..pod * p + p - 1
  <2>1. k \in Nat /\ k \div p = pod
    BY <1>1, <1>3 DEF UppersOfPod, PodOfUpper, p
  <2>2. k \in Int /\ pod \in Nat /\ p \in Nat \ {0}
    BY <1>1, <2>1
  <2>3. k \in pod * p..pod * p + p - 1 <=> k \in Nat /\ k \div p = pod
    BY <2>2, Consecutive
  <2>. QED  BY <2>1, <2>3
<1>4. ASSUME NEW k \in pod * p..pod * p + p - 1
      PROVE  k \in UppersOfPod(t, pod) /\ \E u \in 0..p - 1 : k = pod * p + u
  <2>1. k \in Int
    BY <1>2
  <2>2. k \in Nat /\ k \div p = pod
    BY <1>1, <2>1, Consecutive
  <2>3. k \in 0..(2 * m) * p - 1
    BY <1>1, <2>2, Grouped
  <2>4. k - pod * p \in 0..p - 1 /\ k = pod * p + (k - pod * p)
    BY <1>1, <1>2, <2>1
  <2>. QED  BY <1>1, <2>2, <2>3, <2>4 DEF UppersOfPod, PodOfUpper, p
<1>5. ASSUME NEW u \in 0..p - 1 PROVE pod * p + u \in pod * p..pod * p + p - 1
  BY <1>1, <1>2
<1>. QED  BY <1>3, <1>4, <1>5 DEF p

\* The core switches above an upper switch are numbered consecutively.
LEMMA CoresAre ==
  ASSUME NEW t, IsPodTree(t), NEW k \in TreeUppers(t)
  PROVE  /\ CoresAbove(t, k) = (k % t.uppers) * t.racks..(k % t.uppers) * t.racks + t.racks - 1
         /\ CoresAbove(t, k) = {(k % t.uppers) * t.racks + l : l \in 0..t.racks - 1}
<1>. DEFINE p == t.uppers
            m == t.racks
            g == k % t.uppers
<1>1. /\ p \in Nat \ {0} /\ m \in Nat \ {0} /\ TreeCores(t) = 0..p * m - 1
      /\ g \in 0..p - 1 /\ g \in Nat
  <2>1. GroupOfUpper(t, k) \in 0..t.uppers - 1
    BY TreeNumbers
  <2>. QED  BY <2>1, PodTreeSizes DEF GroupOfUpper
<1>. HIDE DEF p, m, g
<1>2. g * m \in Nat
  BY <1>1
<1>3. ASSUME NEW c, c \in CoresAbove(t, k) PROVE c \in g * m..g * m + m - 1
  <2>1. c \in Nat /\ c \div m = g
    BY <1>1, <1>3 DEF CoresAbove, GroupOfCore, GroupOfUpper, m, g
  <2>. QED  BY <1>1, <2>1, Consecutive
<1>4. ASSUME NEW c \in g * m..g * m + m - 1
      PROVE  c \in CoresAbove(t, k) /\ \E l \in 0..m - 1 : c = g * m + l
  <2>1. c \in Int
    BY <1>2
  <2>2. c \in Nat /\ c \div m = g
    BY <1>1, <2>1, Consecutive
  <2>3. c \in 0..p * m - 1
    BY <1>1, <2>2, Grouped
  <2>4. c - g * m \in 0..m - 1 /\ c = g * m + (c - g * m)
    BY <1>1, <1>2, <2>1
  <2>. QED  BY <1>1, <2>2, <2>3, <2>4 DEF CoresAbove, GroupOfCore, GroupOfUpper, m, g
<1>5. ASSUME NEW l \in 0..m - 1 PROVE g * m + l \in g * m..g * m + m - 1
  BY <1>1, <1>2
<1>. QED  BY <1>3, <1>4, <1>5 DEF m, g

\* The links between racks and hosts, as the loop over racks creates them.
LEMMA RackLinksAre ==
  ASSUME NEW t, IsPodTree(t)
  PROVE  RackLinks(t) =
           UNION {Both(Lower(j), Host(j * t.hosts + l)) : j \in TreeLowers(t), l \in 0..t.hosts - 1}
<1>. DEFINE q == t.hosts
            n == 2 * t.racks * t.racks
            R == UNION {Both(Lower(j), Host(j * t.hosts + l)) : j \in TreeLowers(t), l \in 0..t.hosts - 1}
<1>1. /\ q \in Nat \ {0} /\ n \in Nat /\ TreeHosts(t) = 0..n * q - 1
      /\ TreeLowers(t) = 0..n - 1
  BY PodTreeSizes
<1>2. ASSUME NEW h \in TreeHosts(t)
      PROVE  \E j \in TreeLowers(t) : \E l \in 0..q - 1 : RackOf(t, h) = j /\ h = j * q + l
  <2>1. h \in 0..n * q - 1 /\ h \in Nat
    BY <1>1
  <2>. HIDE DEF q, n
  <2>2. h \div q \in TreeLowers(t) /\ h % q \in 0..q - 1 /\ h = (h \div q) * q + (h % q)
    BY <1>1, <2>1, Grouped, Quotient
  <2>. QED  BY <2>2 DEF RackOf, q
<1>3. ASSUME NEW j \in TreeLowers(t), NEW l \in 0..q - 1
      PROVE  j * q + l \in TreeHosts(t) /\ RackOf(t, j * q + l) = j
  <2>1. j \in Nat /\ j \in 0..n - 1
    BY <1>1
  <2>. HIDE DEF q, n
  <2>2. (j * q + l) \div q = j /\ j * q + l \in 0..n * q - 1
    BY <1>1, <2>1, QuotientOf, ProductBelow
  <2>. QED  BY <1>1, <2>2 DEF RackOf, q
<1>4. ASSUME NEW x, x \in RackLinks(t) PROVE x \in R
  <2>1. PICK h \in TreeHosts(t) : x \in Both(Lower(RackOf(t, h)), Host(h))
    BY <1>4 DEF RackLinks
  <2>2. PICK j \in TreeLowers(t), l \in 0..q - 1 : RackOf(t, h) = j /\ h = j * q + l
    BY <1>2
  <2>3. x \in Both(Lower(j), Host(j * q + l))
    BY <2>1, <2>2
  <2>. QED  BY <2>3
<1>5. ASSUME NEW x, x \in R PROVE x \in RackLinks(t)
  <2>1. PICK j \in TreeLowers(t), l \in 0..q - 1 : x \in Both(Lower(j), Host(j * q + l))
    BY <1>5
  <2>. HIDE DEF q
  <2>2. j * q + l \in TreeHosts(t) /\ RackOf(t, j * q + l) = j
    BY <1>3
  <2>. QED  BY <2>1, <2>2 DEF RackLinks
<1>. HIDE DEF R
<1>6. RackLinks(t) = R
  BY <1>4, <1>5
<1>. QED  BY <1>6 DEF R

\* The links to the core switches, as the loop over upper switches creates them.
LEMMA TopLinksAre ==
  ASSUME NEW t, IsPodTree(t)
  PROVE  TopLinks(t) =
           UNION {Both(Upper(k), Core((k % t.uppers) * t.racks + l)) :
                    k \in TreeUppers(t), l \in 0..t.racks - 1}
<1>. DEFINE R == UNION {Both(Upper(k), Core((k % t.uppers) * t.racks + l)) :
                          k \in TreeUppers(t), l \in 0..t.racks - 1}
<1>1. \A k \in TreeUppers(t) : CoresAbove(t, k) = {(k % t.uppers) * t.racks + l : l \in 0..t.racks - 1}
  BY CoresAre
<1>2. ASSUME NEW x, x \in TopLinks(t) PROVE x \in R
  <2>1. PICK k \in TreeUppers(t) : x \in UNION {Both(Upper(k), Core(c)) : c \in CoresAbove(t, k)}
    BY <1>2 DEF TopLinks
  <2>2. PICK c \in CoresAbove(t, k) : x \in Both(Upper(k), Core(c))
    BY <2>1
  <2>3. PICK l \in 0..t.racks - 1 : c = (k % t.uppers) * t.racks + l
    BY <1>1
  <2>. QED  BY <2>2, <2>3
<1>3. ASSUME NEW x, x \in R PROVE x \in TopLinks(t)
  <2>1. PICK k \in TreeUppers(t), l \in 0..t.racks - 1 :
          x \in Both(Upper(k), Core((k % t.uppers) * t.racks + l))
    BY <1>3
  <2>2. (k % t.uppers) * t.racks + l \in CoresAbove(t, k)
    BY <1>1
  <2>. QED  BY <2>1, <2>2 DEF TopLinks
<1>. HIDE DEF R
<1>4. TopLinks(t) = R
  BY <1>2, <1>3
<1>. QED  BY <1>4 DEF R

\* The pod's racks from above.
LEMMA UpLinksAre ==
  ASSUME NEW t, IsPodTree(t)
  PROVE  UpLinks(t) =
           UNION {Both(Upper(k), Lower((k \div t.uppers) * t.racks + l)) :
                    k \in TreeUppers(t), l \in 0..t.racks - 1}
<1>. DEFINE m == t.racks
            p == t.uppers
            R == UNION {Both(Upper(k), Lower((k \div t.uppers) * t.racks + l)) :
                          k \in TreeUppers(t), l \in 0..t.racks - 1}
<1>1. m \in Nat \ {0} /\ 2 * m \in Nat /\ TreeLowers(t) = 0..(2 * m) * m - 1
  BY PodTreeSizes
<1>2. ASSUME NEW k \in TreeUppers(t)
      PROVE  k \div p \in 0..2 * m - 1 /\ k \div p \in Nat
  <2>1. PodOfUpper(t, k) \in 0..2 * t.racks - 1
    BY TreeNumbers
  <2>. QED  BY <1>1, <2>1 DEF PodOfUpper
<1>3. ASSUME NEW j \in TreeLowers(t), NEW k \in UppersOfPod(t, PodOfRack(t, j))
      PROVE  k \in TreeUppers(t) /\ \E l \in 0..m - 1 : j = (k \div p) * m + l
  <2>1. k \in TreeUppers(t) /\ k \div p = j \div m
    BY DEF UppersOfPod, PodOfUpper, PodOfRack
  <2>2. j \in Nat
    BY <1>1
  <2>3. j % m \in 0..m - 1 /\ j = (j \div m) * m + (j % m)
    <3>. HIDE DEF m
    <3>. QED  BY <1>1, <2>2, Quotient
  <2>. HIDE DEF m, p
  <2>. QED  BY <2>1, <2>3
<1>4. ASSUME NEW k \in TreeUppers(t), NEW l \in 0..m - 1
      PROVE  /\ (k \div p) * m + l \in TreeLowers(t)
             /\ k \in UppersOfPod(t, PodOfRack(t, (k \div p) * m + l))
  <2>1. ((k \div p) * m + l) \div m = k \div p /\ (k \div p) * m + l \in 0..(2 * m) * m - 1
    <3>1. k \div p \in 0..2 * m - 1 /\ k \div p \in Nat
      BY <1>2
    <3>. HIDE DEF m, p
    <3>. QED  BY <1>1, <3>1, QuotientOf, ProductBelow
  <2>. QED  BY <1>1, <2>1 DEF UppersOfPod, PodOfUpper, PodOfRack
<1>5. ASSUME NEW x, x \in UpLinks(t) PROVE x \in R
  <2>1. PICK j \in TreeLowers(t) : x \in UNION {Both(Lower(j), Upper(k)) : k \in UppersOfPod(t, PodOfRack(t, j))}
    BY <1>5 DEF UpLinks
  <2>2. PICK k \in UppersOfPod(t, PodOfRack(t, j)) : x \in Both(Lower(j), Upper(k))
    BY <2>1
  <2>3. PICK l \in 0..m - 1 : j = (k \div p) * m + l
    BY <1>3
  <2>4. k \in TreeUppers(t)
    BY <1>3
  <2>5. x \in Both(Upper(k), Lower((k \div p) * m + l))
    BY <2>2, <2>3 DEF Both
  <2>. QED  BY <2>4, <2>5
<1>6. ASSUME NEW x, x \in R PROVE x \in UpLinks(t)
  <2>1. PICK k \in TreeUppers(t), l \in 0..m - 1 : x \in Both(Upper(k), Lower((k \div p) * m + l))
    BY <1>6
  <2>. DEFINE j == (k \div p) * m + l
  <2>2. j \in TreeLowers(t) /\ k \in UppersOfPod(t, PodOfRack(t, j))
    BY <1>4
  <2>3. x \in Both(Lower(j), Upper(k))
    BY <2>1 DEF Both
  <2>. HIDE DEF j
  <2>. QED  BY <2>2, <2>3 DEF UpLinks
<1>. HIDE DEF R
<1>7. UpLinks(t) = R
  BY <1>5, <1>6
<1>. QED  BY <1>7 DEF R

-----------------------------------------------------------------------------
(* FatTreeTopology is a tree of pods.                                      *)

\* The names of nodes and the shapes of routes are those of every tree.
LEMMA FullNames ==
  ASSUME NEW N
  PROVE  /\ \A i : /\ Full(N)!Host(i) = Host(i) /\ Full(N)!Lower(i) = Lower(i)
                  /\ Full(N)!Upper(i) = Upper(i) /\ Full(N)!Core(i) = Core(i)
         /\ \A a, b : Full(N)!Both(a, b) = Both(a, b)
         /\ \A s, a, b, d : Full(N)!ViaRack(s, a, b, d) = ViaRack(s, a, b, d)
         /\ \A s, a, u, b, d : Full(N)!ViaUpper(s, a, u, b, d) = ViaUpper(s, a, u, b, d)
         /\ \A s, a, u, c, v, b, d : Full(N)!ViaCore(s, a, u, c, v, b, d) = ViaCore(s, a, u, c, v, b, d)
BY DEF Full!Host, Host, Full!Lower, Lower, Full!Upper, Upper, Full!Core, Core, Full!Both, Both,
       Full!ViaRack, ViaRack, Full!ViaUpper, ViaUpper, Full!ViaCore, ViaCore,
       Full!Reversible, Reversible, Full!Walk, Walk

\* A fat tree of 2 * m ports is the tree of m racks and m upper switches in a pod and m hosts
\* in a rack.
LEMMA FullTree ==
  ASSUME NEW N, NEW m \in Nat \ {0}, Full(N)!K = 2 * m
  PROVE  LET t == Shape(m, m, m)
         IN  /\ IsPodTree(t)
             /\ TreeHosts(t) = 0..Full(N)!NSRV - 1
             /\ Full(N)!FatTreeLinks = TreeLinks(t)
             /\ \A s, d \in TreeHosts(t) : Full(N)!FatTreePaths(s, d) = TreePaths(t, s, d)
<1>. DEFINE t == Shape(m, m, m)
<1>1. t.racks = m /\ t.uppers = m /\ t.hosts = m
  BY DEF Shape
<1>2. IsPodTree(t)
  BY <1>1 DEF IsPodTree
<1>. HIDE DEF t
<1>3. /\ Full(N)!K \div 2 = m /\ Full(N)!NK = 2 * m * m /\ Full(N)!NC = m * m
      /\ Full(N)!NSRV = 2 * m * m * m
      /\ \A a \in Nat : (a * Full(N)!K) \div 2 = a * m /\ ((a + 1) * Full(N)!K) \div 2 = a * m + m
      /\ \A a \in Nat : (2 * a) \div Full(N)!K = a \div m
  <2>1. /\ Full(N)!NK = ((2 * m) * (2 * m)) \div 2 /\ Full(N)!NC = ((2 * m) * (2 * m)) \div 4
        /\ Full(N)!NSRV = ((2 * m) * (2 * m) * (2 * m)) \div 4
    BY DEF Full!NK, Full!NC, Full!NSRV, Full!Capacity
  <2>. QED  BY <2>1, Halves
<1>4. TreeHosts(t) = 0..2 * m * m * m - 1 /\ TreeLowers(t) = 0..2 * m * m - 1
      /\ TreeUppers(t) = 0..2 * m * m - 1 /\ TreeCores(t) = 0..m * m - 1
  BY <1>1 DEF TreeHosts, TreeLowers, TreeUppers, TreeCores
<1>5. \A pod \in 0..2 * m - 1 : Full(N)!PodIds(pod) = UppersOfPod(t, pod)
  <2>. TAKE pod \in 0..2 * m - 1
  <2>1. pod \in Nat /\ pod \in 0..2 * t.racks - 1
    BY <1>1
  <2>2. UppersOfPod(t, pod) = pod * m..pod * m + m - 1
    BY <1>1, <1>2, <2>1, UppersAre
  <2>. QED  BY <1>3, <2>1, <2>2 DEF Full!PodIds
<1>6. \A k \in TreeUppers(t) : Full(N)!CoresOf(k) = CoresAbove(t, k)
  <2>. TAKE k \in TreeUppers(t)
  <2>1. k % m \in Nat
    <3>1. k \in Nat
      BY <1>2, TreeNumbers
    <3>. QED  BY <3>1
  <2>2. CoresAbove(t, k) = (k % m) * m..(k % m) * m + m - 1
    BY <1>1, <1>2, CoresAre
  <2>3. ((k % m) * Full(N)!K) \div 2 = (k % m) * m /\ (((k % m) + 1) * Full(N)!K) \div 2 = (k % m) * m + m
    BY <1>3, <2>1
  <2>4. Full(N)!CoresOf(k) = ((k % m) * Full(N)!K) \div 2..(((k % m) + 1) * Full(N)!K) \div 2 - 1
    BY <1>3 DEF Full!CoresOf
  <2>. DEFINE first == (k % m) * m
  <2>5. first \in Nat
    BY <2>1
  <2>6. CoresAbove(t, k) = first..first + m - 1
    BY <2>2
  <2>7. Full(N)!CoresOf(k) = first..(first + m) - 1
    BY <2>3, <2>4
  <2>. HIDE DEF first
  <2>8. first + m - 1 = (first + m) - 1
    BY <2>5
  <2>. QED  BY <2>6, <2>7, <2>8
<1>7. \A h \in TreeHosts(t) : /\ Full(N)!HOST_POD_SWITCH(h) = RackOf(t, h)
                              /\ Full(N)!HOST_POD(h) = PodOfRack(t, RackOf(t, h))
                              /\ Full(N)!HOST_POD(h) \in 0..2 * m - 1
  <2>. TAKE h \in TreeHosts(t)
  <2>1. h \in Nat /\ RackOf(t, h) \in TreeLowers(t)
    BY <1>2, TreeNumbers
  <2>2. PodOfRack(t, RackOf(t, h)) \in 0..2 * m - 1
    BY <1>1, <1>2, <2>1, TreeNumbers
  <2>3. Full(N)!HOST_POD_SWITCH(h) = RackOf(t, h)
    BY <1>1, <1>3, <2>1 DEF Full!HOST_POD_SWITCH, RackOf
  <2>4. (h \div m) \div m = h \div (m * m)
    BY <2>1, QuotientTwice
  <2>5. Full(N)!HOST_POD(h) = PodOfRack(t, RackOf(t, h))
    BY <1>1, <1>3, <2>4 DEF Full!HOST_POD, RackOf, PodOfRack
  <2>. QED  BY <2>2, <2>3, <2>5
<1>8. Full(N)!HostLinks = RackLinks(t)
  <2>1. \A j \in TreeLowers(t) : (j * Full(N)!K) \div 2 = j * m
    BY <1>2, <1>3, TreeNumbers
  <2>2. RackLinks(t) = UNION {Both(Lower(j), Host(j * m + l)) : j \in TreeLowers(t), l \in 0..m - 1}
    BY <1>1, <1>2, RackLinksAre
  <2>3. \A x : x \in Full(N)!HostLinks <=>
          \E j \in 0..Full(N)!NK - 1 : \E l \in 0..(Full(N)!K \div 2) - 1 :
            x \in Full(N)!Both(Full(N)!Lower(j), Full(N)!Host((j * Full(N)!K) \div 2 + l))
    BY DEF Full!HostLinks
  <2>. DEFINE racks == 0..Full(N)!NK - 1
              places == 0..(Full(N)!K \div 2) - 1
              first(j) == (j * Full(N)!K) \div 2
  <2>4. racks = TreeLowers(t) /\ places = 0..m - 1
    BY <1>3, <1>4
  <2>5. \A x : x \in Full(N)!HostLinks <=> \E j \in racks : \E l \in places :
            x \in Full(N)!Both(Full(N)!Lower(j), Full(N)!Host(first(j) + l))
    BY <2>3
  <2>6. \A j \in TreeLowers(t) : first(j) = j * m
    BY <2>1
  <2>. HIDE DEF racks, places, first
  <2>7. \A x : x \in Full(N)!HostLinks <=> \E j \in TreeLowers(t) : \E l \in 0..m - 1 :
                 x \in Both(Lower(j), Host(first(j) + l))
    <3>1. \A j, h : Full(N)!Both(Full(N)!Lower(j), Full(N)!Host(h)) = Both(Lower(j), Host(h))
      BY FullNames
    <3>. QED  BY <2>4, <2>5, <3>1
  <2>8. \A x : x \in RackLinks(t) <=> \E j \in TreeLowers(t) : \E l \in 0..m - 1 :
                 x \in Both(Lower(j), Host(j * m + l))
    BY <2>2
  <2>9. \A x : x \in Full(N)!HostLinks <=> x \in RackLinks(t)
    BY <2>6, <2>7, <2>8
  <2>. QED  BY <2>9
<1>9. Full(N)!PodLinks = UpLinks(t)
  <2>1. \A j \in TreeLowers(t) : Full(N)!PodIds((2 * j) \div Full(N)!K) = UppersOfPod(t, PodOfRack(t, j))
    <3>. TAKE j \in TreeLowers(t)
    <3>1. j \in Nat /\ PodOfRack(t, j) \in 0..2 * m - 1
      BY <1>1, <1>2, TreeNumbers
    <3>2. (2 * j) \div Full(N)!K = PodOfRack(t, j)
      BY <1>1, <1>3, <3>1 DEF PodOfRack
    <3>. QED  BY <1>5, <3>1, <3>2
  <2>. DEFINE racks == 0..Full(N)!NK - 1
              above(j) == Full(N)!PodIds((2 * j) \div Full(N)!K)
  <2>2. \A x : x \in Full(N)!PodLinks <=>
          \E j \in racks : \E k \in above(j) : x \in Full(N)!Both(Full(N)!Lower(j), Full(N)!Upper(k))
    BY DEF Full!PodLinks
  <2>3. racks = TreeLowers(t)
    BY <1>3, <1>4
  <2>4. \A j \in TreeLowers(t) : above(j) = UppersOfPod(t, PodOfRack(t, j))
    BY <2>1
  <2>5. \A j, k : Full(N)!Both(Full(N)!Lower(j), Full(N)!Upper(k)) = Both(Lower(j), Upper(k))
    BY FullNames
  <2>6. \A x : x \in UpLinks(t) <=>
          \E j \in TreeLowers(t) : \E k \in UppersOfPod(t, PodOfRack(t, j)) : x \in Both(Lower(j), Upper(k))
    BY DEF UpLinks
  <2>. HIDE DEF racks, above
  <2>7. \A x : x \in Full(N)!PodLinks <=> x \in UpLinks(t)
    BY <2>2, <2>3, <2>4, <2>5, <2>6
  <2>. QED  BY <2>7
<1>10. Full(N)!CoreLinks = TopLinks(t)
  <2>1. \A k \in TreeUppers(t) : ((k % (Full(N)!K \div 2)) * Full(N)!K) \div 2 = (k % m) * m
    <3>. TAKE k \in TreeUppers(t)
    <3>1. k \in Nat
      BY <1>2, TreeNumbers
    <3>2. k % m \in Nat
      BY <3>1
    <3>. QED  BY <1>3, <3>2
  <2>2. TopLinks(t) = UNION {Both(Upper(k), Core((k % m) * m + l)) : k \in TreeUppers(t), l \in 0..m - 1}
    BY <1>1, <1>2, TopLinksAre
  <2>. DEFINE uppers == 0..Full(N)!NK - 1
              places == 0..(Full(N)!K \div 2) - 1
              first(k) == ((k % (Full(N)!K \div 2)) * Full(N)!K) \div 2
  <2>3. \A x : x \in Full(N)!CoreLinks <=> \E k \in uppers : \E l \in places :
                 x \in Full(N)!Both(Full(N)!Upper(k), Full(N)!Core(first(k) + l))
    BY DEF Full!CoreLinks
  <2>4. uppers = TreeUppers(t) /\ places = 0..m - 1
    BY <1>3, <1>4
  <2>5. \A k \in TreeUppers(t) : first(k) = (k % m) * m
    BY <2>1
  <2>. HIDE DEF uppers, places, first
  <2>6. \A x : x \in Full(N)!CoreLinks <=> \E k \in TreeUppers(t) : \E l \in 0..m - 1 :
                 x \in Both(Upper(k), Core(first(k) + l))
    <3>1. \A k, c : Full(N)!Both(Full(N)!Upper(k), Full(N)!Core(c)) = Both(Upper(k), Core(c))
      BY FullNames
    <3>. QED  BY <2>4, <2>3, <3>1
  <2>7. \A x : x \in TopLinks(t) <=> \E k \in TreeUppers(t) : \E l \in 0..m - 1 :
                 x \in Both(Upper(k), Core((k % m) * m + l))
    BY <2>2
  <2>8. \A x : x \in Full(N)!CoreLinks <=> x \in TopLinks(t)
    BY <2>5, <2>6, <2>7
  <2>. QED  BY <2>8
<1>11. Full(N)!FatTreeLinks = TreeLinks(t)
  BY <1>8, <1>9, <1>10 DEF Full!FatTreeLinks, TreeLinks
<1>12. ASSUME NEW s \in TreeHosts(t), NEW d \in TreeHosts(t)
       PROVE  Full(N)!FatTreePaths(s, d) = TreePaths(t, s, d)
  <2>1. /\ Full(N)!HOST_POD_SWITCH(s) = RackOf(t, s) /\ Full(N)!HOST_POD_SWITCH(d) = RackOf(t, d)
        /\ Full(N)!HOST_POD(s) = PodOfRack(t, RackOf(t, s))
        /\ Full(N)!HOST_POD(d) = PodOfRack(t, RackOf(t, d))
        /\ Full(N)!PodIds(Full(N)!HOST_POD(s)) = UppersOfPod(t, PodOfRack(t, RackOf(t, s)))
    BY <1>5, <1>7
  <2>2. Full(N)!SamePodPaths(s, d) = PathsInPod(t, s, d)
    <3>1. Full(N)!SamePodPaths(s, d) =
            {ViaUpper(s, Full(N)!HOST_POD_SWITCH(s), k, Full(N)!HOST_POD_SWITCH(d), d) :
               k \in Full(N)!PodIds(Full(N)!HOST_POD(s))}
      BY FullNames DEF Full!SamePodPaths
    <3>. QED  BY <2>1, <3>1 DEF PathsInPod
  <2>3. ASSUME NEW k \in UppersOfPod(t, PodOfRack(t, RackOf(t, s)))
        PROVE  Full(N)!CoresOf(k) = CoresAbove(t, k)
    BY <1>6 DEF UppersOfPod
  <2>4. ASSUME NEW c \in TreeCores(t)
        PROVE  Full(N)!UpperDown(c, d) = UpperOf(t, PodOfRack(t, RackOf(t, d)), GroupOfCore(t, c))
    <3>1. c \in Nat /\ PodOfRack(t, RackOf(t, d)) \in Nat
      BY <1>2, <1>7, <2>1, TreeNumbers
    <3>2. Full(N)!UpperDown(c, d) = PodOfRack(t, RackOf(t, d)) * m + c \div m
      BY <1>3, <2>1, <3>1 DEF Full!UpperDown
    <3>. QED  BY <1>1, <3>2 DEF UpperOf, GroupOfCore
  <2>5. Full(N)!OtherPodPaths(s, d) = PathsOverCore(t, s, d)
    <3>1. \A k \in UppersOfPod(t, PodOfRack(t, RackOf(t, s))) : CoresAbove(t, k) \subseteq TreeCores(t)
      BY DEF CoresAbove
    <3>. DEFINE U == UppersOfPod(t, PodOfRack(t, RackOf(t, s)))
                down(c) == UpperOf(t, PodOfRack(t, RackOf(t, d)), GroupOfCore(t, c))
    <3>2. Full(N)!OtherPodPaths(s, d) =
            UNION {{ViaCore(s, Full(N)!HOST_POD_SWITCH(s), k, c, Full(N)!UpperDown(c, d),
                            Full(N)!HOST_POD_SWITCH(d), d) : c \in Full(N)!CoresOf(k)} :
                     k \in Full(N)!PodIds(Full(N)!HOST_POD(s))}
      BY FullNames DEF Full!OtherPodPaths
    <3>3. Full(N)!OtherPodPaths(s, d) =
            UNION {{ViaCore(s, RackOf(t, s), k, c, Full(N)!UpperDown(c, d), RackOf(t, d), d) :
                      c \in Full(N)!CoresOf(k)} : k \in U}
      BY <2>1, <3>2
    <3>4. PathsOverCore(t, s, d) =
            UNION {{ViaCore(s, RackOf(t, s), k, c, down(c), RackOf(t, d), d) : c \in CoresAbove(t, k)} : k \in U}
      BY DEF PathsOverCore
    <3>5. \A k \in U : \A c \in CoresAbove(t, k) : Full(N)!UpperDown(c, d) = down(c)
      BY <2>4, <3>1
    <3>6. \A k \in U : Full(N)!CoresOf(k) = CoresAbove(t, k)
      BY <2>3
    <3>. HIDE DEF U, down
    <3>7. \A x : x \in Full(N)!OtherPodPaths(s, d) <=> \E k \in U : \E c \in Full(N)!CoresOf(k) :
            x = ViaCore(s, RackOf(t, s), k, c, Full(N)!UpperDown(c, d), RackOf(t, d), d)
      BY <3>3
    <3>8. \A x : x \in PathsOverCore(t, s, d) <=> \E k \in U : \E c \in CoresAbove(t, k) :
            x = ViaCore(s, RackOf(t, s), k, c, down(c), RackOf(t, d), d)
      BY <3>4
    <3>9. \A x : x \in Full(N)!OtherPodPaths(s, d) <=> x \in PathsOverCore(t, s, d)
      BY <3>5, <3>6, <3>7, <3>8
    <3>. QED  BY <3>9
  <2>6. Full(N)!FatTreePaths(s, d) =
          IF Full(N)!HOST_POD_SWITCH(s) = Full(N)!HOST_POD_SWITCH(d)
          THEN {ViaRack(s, Full(N)!HOST_POD_SWITCH(s), Full(N)!HOST_POD_SWITCH(d), d)}
          ELSE IF Full(N)!HOST_POD(s) = Full(N)!HOST_POD(d)
          THEN Full(N)!SamePodPaths(s, d) ELSE Full(N)!OtherPodPaths(s, d)
    BY FullNames DEF Full!FatTreePaths
  <2>. QED  BY <2>1, <2>2, <2>5, <2>6 DEF TreePaths
<1>13. TreeHosts(t) = 0..Full(N)!NSRV - 1
  BY <1>3, <1>4
<1>. QED  BY <1>2, <1>11, <1>12, <1>13 DEF t

-----------------------------------------------------------------------------
(* OverSubscribedFatTree is a tree of pods.                                *)

\* The routes of a tree, as a loop over the places of upper switches in a pod and of core
\* switches in a group counts them.
LEMMA PathsByPlace ==
  ASSUME NEW t, IsPodTree(t), NEW s \in TreeHosts(t), NEW d \in TreeHosts(t),
         NEW a, a = PodOfRack(t, RackOf(t, s)), NEW b, b = PodOfRack(t, RackOf(t, d))
  PROVE  /\ PathsInPod(t, s, d) =
              {ViaUpper(s, RackOf(t, s), a * t.uppers + u, RackOf(t, d), d) : u \in 0..t.uppers - 1}
         /\ PathsOverCore(t, s, d) =
              {ViaCore(s, RackOf(t, s), a * t.uppers + u, u * t.racks + c, b * t.uppers + u,
                       RackOf(t, d), d) : u \in 0..t.uppers - 1, c \in 0..t.racks - 1}
<1>. DEFINE m == t.racks
            p == t.uppers
            route(k, c) == ViaCore(s, RackOf(t, s), k, c, UpperOf(t, b, GroupOfCore(t, c)), RackOf(t, d), d)
            placed(u, c) == ViaCore(s, RackOf(t, s), a * p + u, u * m + c, b * p + u, RackOf(t, d), d)
<1>1. p \in Nat \ {0} /\ m \in Nat \ {0}
  BY DEF IsPodTree
<1>2. a \in 0..2 * t.racks - 1 /\ a \in Nat
  <2>1. RackOf(t, s) \in TreeLowers(t)
    BY TreeNumbers
  <2>2. a \in 0..2 * t.racks - 1
    BY <2>1, TreeNumbers
  <2>. QED  BY <1>1, <2>2
<1>3. UppersOfPod(t, a) = {a * p + u : u \in 0..p - 1}
  BY <1>2, UppersAre
<1>4. ASSUME NEW u \in 0..p - 1
      PROVE  /\ CoresAbove(t, a * p + u) = {u * m + c : c \in 0..m - 1}
             /\ \A c \in 0..m - 1 : UpperOf(t, b, GroupOfCore(t, u * m + c)) = b * p + u
  <2>1. a * p + u \in TreeUppers(t)
    BY <1>3 DEF UppersOfPod
  <2>2. (a * p + u) % p = u
    <3>. HIDE DEF p
    <3>. QED  BY <1>1, <1>2, QuotientOf
  <2>3. \A c \in 0..m - 1 : (u * m + c) \div m = u
    <3>1. u \in Nat
      BY <1>1
    <3>. HIDE DEF m
    <3>. QED  BY <1>1, <3>1, QuotientOf
  <2>. QED  BY <2>1, <2>2, <2>3, CoresAre DEF UpperOf, GroupOfCore
<1>5. PathsInPod(t, s, d) = {ViaUpper(s, RackOf(t, s), a * p + u, RackOf(t, d), d) : u \in 0..p - 1}
  <2>1. PathsInPod(t, s, d) = {ViaUpper(s, RackOf(t, s), k, RackOf(t, d), d) : k \in UppersOfPod(t, a)}
    BY DEF PathsInPod
  <2>. QED  BY <1>3, <2>1
<1>6. \A x : x \in PathsOverCore(t, s, d) <=>
         \E k \in UppersOfPod(t, a) : \E c \in CoresAbove(t, k) : x = route(k, c)
  BY DEF PathsOverCore
<1>7. \A x : x \in {placed(u, c) : u \in 0..p - 1, c \in 0..m - 1} <=>
         \E u \in 0..p - 1 : \E c \in 0..m - 1 : x = placed(u, c)
  OBVIOUS
<1>8. \A u \in 0..p - 1 : \A c \in 0..m - 1 : route(a * p + u, u * m + c) = placed(u, c)
  BY <1>4
<1>. HIDE DEF route, placed
<1>9. \A x : x \in PathsOverCore(t, s, d) <=> x \in {placed(u, c) : u \in 0..p - 1, c \in 0..m - 1}
  <2>1. ASSUME NEW x, x \in PathsOverCore(t, s, d) PROVE \E u \in 0..p - 1 : \E c \in 0..m - 1 : x = placed(u, c)
    <3>1. PICK k \in UppersOfPod(t, a) : \E c \in CoresAbove(t, k) : x = route(k, c)
      BY <1>6, <2>1
    <3>2. PICK u \in 0..p - 1 : k = a * p + u
      BY <1>3
    <3>3. PICK c \in CoresAbove(t, a * p + u) : x = route(a * p + u, c)
      BY <3>1, <3>2
    <3>4. PICK l \in 0..m - 1 : c = u * m + l
      BY <1>4
    <3>. QED  BY <1>8, <3>3, <3>4
  <2>2. ASSUME NEW u \in 0..p - 1, NEW c \in 0..m - 1 PROVE placed(u, c) \in PathsOverCore(t, s, d)
    <3>1. a * p + u \in UppersOfPod(t, a) /\ u * m + c \in CoresAbove(t, a * p + u)
      BY <1>3, <1>4
    <3>. QED  BY <1>6, <1>8, <3>1
  <2>. QED  BY <1>7, <2>1, <2>2
<1>10. PathsOverCore(t, s, d) = {placed(u, c) : u \in 0..p - 1, c \in 0..m - 1}
  BY <1>9
<1>. QED  BY <1>5, <1>10 DEF placed

\* The names of nodes and the shapes of routes are those of every tree.
LEMMA OsNames ==
  ASSUME NEW Size, NEW PerRack
  PROVE  /\ \A i : /\ Os(Size, PerRack)!Host(i) = Host(i) /\ Os(Size, PerRack)!Lower(i) = Lower(i)
                   /\ Os(Size, PerRack)!Upper(i) = Upper(i) /\ Os(Size, PerRack)!Core(i) = Core(i)
         /\ \A a, b : Os(Size, PerRack)!Both(a, b) = Both(a, b)
         /\ \A s, a, b, d : Os(Size, PerRack)!ViaRack(s, a, b, d) = ViaRack(s, a, b, d)
         /\ \A s, a, u, b, d : Os(Size, PerRack)!ViaUpper(s, a, u, b, d) = ViaUpper(s, a, u, b, d)
         /\ \A s, a, u, c, v, b, d :
              Os(Size, PerRack)!ViaCore(s, a, u, c, v, b, d) = ViaCore(s, a, u, c, v, b, d)
BY DEF Os!Host, Host, Os!Lower, Lower, Os!Upper, Upper, Os!Core, Core, Os!Both, Both,
       Os!ViaRack, ViaRack, Os!ViaUpper, ViaUpper, Os!ViaCore, ViaCore,
       Os!Reversible, Reversible, Os!Walk, Walk

\* A tree of 2 * m ports, of which q lead from a lower switch to hosts.
LEMMA OsTree ==
  ASSUME NEW m \in Nat \ {0}, NEW q \in 1..2 * m - 1
  PROVE  LET t == Shape(m, 2 * m - q, q)
         IN  /\ IsPodTree(t)
             /\ Os(2 * m, q)!OsLinks = TreeLinks(t)
             /\ \A s, d \in TreeHosts(t) : Os(2 * m, q)!OsPaths(s, d) = TreePaths(t, s, d)
<1>. DEFINE t == Shape(m, 2 * m - q, q)
            p == 2 * m - q
<1>1. t.racks = m /\ t.uppers = p /\ t.hosts = q
  BY DEF Shape
<1>2. IsPodTree(t)
  BY <1>1 DEF IsPodTree
<1>3. /\ Os(2 * m, q)!Nlp = 2 * m * m /\ Os(2 * m, q)!Nup = (2 * m) * p
      /\ (2 * m) \div 2 = m /\ \A a \in Nat : (a * (2 * m)) \div 2 = a * m
  BY Halves DEF Os!Nlp, Os!Nup
<1>4. TreeLowers(t) = 0..2 * m * m - 1 /\ TreeUppers(t) = 0..(2 * m) * p - 1
  <2>1. 2 * m * p = (2 * m) * p
    OBVIOUS
  <2>. QED  BY <1>1, <2>1 DEF TreeLowers, TreeUppers
<1>5. \A k \in TreeUppers(t) : k \in Nat /\ k \div p \in Nat /\ k % p \in Nat
  <2>1. p \in Nat \ {0}
    OBVIOUS
  <2>2. \A k \in TreeUppers(t) : k \in Nat
    BY <1>2, TreeNumbers
  <2>. HIDE DEF p, t
  <2>3. ASSUME NEW k \in TreeUppers(t) PROVE k \in Nat /\ k \div p \in Nat /\ k % p \in 0..p - 1
    BY <2>1, <2>2, Quotient
  <2>. QED  BY <2>1, <2>3
<1>6. \A h \in TreeHosts(t) : /\ Os(2 * m, q)!Rack(h) = RackOf(t, h)
                              /\ Os(2 * m, q)!Pod(h) = PodOfRack(t, RackOf(t, h))
  <2>. TAKE h \in TreeHosts(t)
  <2>1. h \in Nat
    BY <1>2, TreeNumbers
  <2>2. (q * (2 * m)) \div 2 = q * m /\ (h \div q) \div m = h \div (q * m)
    BY <1>3, <2>1, QuotientTwice
  <2>. QED  BY <1>1, <2>2 DEF Os!Rack, Os!Pod, RackOf, PodOfRack
<1>. HIDE DEF t, p
<1>7. Os(2 * m, q)!OsHostLinks = RackLinks(t)
  <2>1. RackLinks(t) = UNION {Both(Lower(j), Host(j * q + l)) : j \in TreeLowers(t), l \in 0..q - 1}
    BY <1>1, <1>2, RackLinksAre
  <2>. DEFINE racks == 0..Os(2 * m, q)!Nlp - 1
              places == 0..q - 1
  <2>2. \A x : x \in Os(2 * m, q)!OsHostLinks <=> \E j \in racks : \E l \in places :
          x \in Os(2 * m, q)!Both(Os(2 * m, q)!Lower(j), Os(2 * m, q)!Host(j * q + l))
    BY DEF Os!OsHostLinks
  <2>3. \A x : x \in RackLinks(t) <=> \E j \in TreeLowers(t) : \E l \in places : x \in Both(Lower(j), Host(j * q + l))
    BY <2>1
  <2>4. racks = TreeLowers(t)
    BY <1>3, <1>4
  <2>5. \A j, h : Os(2 * m, q)!Both(Os(2 * m, q)!Lower(j), Os(2 * m, q)!Host(h)) = Both(Lower(j), Host(h))
    BY OsNames
  <2>. HIDE DEF racks, places
  <2>6. \A x : x \in Os(2 * m, q)!OsHostLinks <=> x \in RackLinks(t)
    BY <2>2, <2>3, <2>4, <2>5
  <2>. QED  BY <2>6
<1>8. Os(2 * m, q)!OsPodLinks = UpLinks(t)
  <2>1. UpLinks(t) = UNION {Both(Upper(k), Lower((k \div p) * m + l)) : k \in TreeUppers(t), l \in 0..m - 1}
    BY <1>1, <1>2, UpLinksAre
  <2>. DEFINE uppers == 0..Os(2 * m, q)!Nup - 1
              places == 0..((2 * m) \div 2) - 1
              first(k) == ((k \div (2 * m - q)) * (2 * m)) \div 2
  <2>2. \A x : x \in Os(2 * m, q)!OsPodLinks <=> \E k \in uppers : \E l \in places :
          x \in Os(2 * m, q)!Both(Os(2 * m, q)!Upper(k), Os(2 * m, q)!Lower(first(k) + l))
    BY DEF Os!OsPodLinks
  <2>3. \A x : x \in UpLinks(t) <=> \E k \in TreeUppers(t) : \E l \in 0..m - 1 :
          x \in Both(Upper(k), Lower((k \div p) * m + l))
    BY <2>1
  <2>4. uppers = TreeUppers(t) /\ places = 0..m - 1
    BY <1>3, <1>4
  <2>5. \A k \in TreeUppers(t) : first(k) = (k \div p) * m
    BY <1>3, <1>5 DEF p
  <2>6. \A k, j : Os(2 * m, q)!Both(Os(2 * m, q)!Upper(k), Os(2 * m, q)!Lower(j)) = Both(Upper(k), Lower(j))
    BY OsNames
  <2>. HIDE DEF uppers, places, first
  <2>7. \A x : x \in Os(2 * m, q)!OsPodLinks <=> x \in UpLinks(t)
    BY <2>2, <2>3, <2>4, <2>5, <2>6
  <2>. QED  BY <2>7
<1>9. Os(2 * m, q)!OsCoreLinks = TopLinks(t)
  <2>1. TopLinks(t) = UNION {Both(Upper(k), Core((k % p) * m + l)) : k \in TreeUppers(t), l \in 0..m - 1}
    BY <1>1, <1>2, TopLinksAre
  <2>. DEFINE uppers == 0..Os(2 * m, q)!Nup - 1
              places == 0..((2 * m) \div 2) - 1
              first(k) == ((k % (2 * m - q)) * (2 * m)) \div 2
  <2>2. \A x : x \in Os(2 * m, q)!OsCoreLinks <=> \E k \in uppers : \E l \in places :
          x \in Os(2 * m, q)!Both(Os(2 * m, q)!Upper(k), Os(2 * m, q)!Core(first(k) + l))
    BY DEF Os!OsCoreLinks
  <2>3. \A x : x \in TopLinks(t) <=> \E k \in TreeUppers(t) : \E l \in 0..m - 1 :
          x \in Both(Upper(k), Core((k % p) * m + l))
    BY <2>1
  <2>4. uppers = TreeUppers(t) /\ places = 0..m - 1
    BY <1>3, <1>4
  <2>5. \A k \in TreeUppers(t) : first(k) = (k % p) * m
    BY <1>3, <1>5 DEF p
  <2>6. \A k, c : Os(2 * m, q)!Both(Os(2 * m, q)!Upper(k), Os(2 * m, q)!Core(c)) = Both(Upper(k), Core(c))
    BY OsNames
  <2>. HIDE DEF uppers, places, first
  <2>7. \A x : x \in Os(2 * m, q)!OsCoreLinks <=> x \in TopLinks(t)
    BY <2>2, <2>3, <2>4, <2>5, <2>6
  <2>. QED  BY <2>7
<1>10. Os(2 * m, q)!OsLinks = TreeLinks(t)
  <2>1. Os(2 * m, q)!OsLinks = Os(2 * m, q)!OsHostLinks \cup Os(2 * m, q)!OsPodLinks \cup Os(2 * m, q)!OsCoreLinks
    BY DEF Os!OsLinks
  <2>2. TreeLinks(t) = RackLinks(t) \cup UpLinks(t) \cup TopLinks(t)
    BY DEF TreeLinks
  <2>. QED  BY <1>7, <1>8, <1>9, <2>1, <2>2
<1>11. ASSUME NEW s \in TreeHosts(t), NEW d \in TreeHosts(t)
       PROVE  Os(2 * m, q)!OsPaths(s, d) = TreePaths(t, s, d)
  <2>. DEFINE a == PodOfRack(t, RackOf(t, s))
              b == PodOfRack(t, RackOf(t, d))
  <2>1. /\ Os(2 * m, q)!Rack(s) = RackOf(t, s) /\ Os(2 * m, q)!Rack(d) = RackOf(t, d)
        /\ Os(2 * m, q)!Pod(s) = a /\ Os(2 * m, q)!Pod(d) = b
    BY <1>6
  <2>2. /\ PathsInPod(t, s, d) = {ViaUpper(s, RackOf(t, s), a * p + u, RackOf(t, d), d) : u \in 0..p - 1}
        /\ PathsOverCore(t, s, d) =
             {ViaCore(s, RackOf(t, s), a * p + u, u * m + c, b * p + u, RackOf(t, d), d) :
                u \in 0..p - 1, c \in 0..m - 1}
    <3>. HIDE DEF a, b
    <3>1. a = PodOfRack(t, RackOf(t, s)) /\ b = PodOfRack(t, RackOf(t, d))
      BY DEF a, b
    <3>2. /\ PathsInPod(t, s, d) =
               {ViaUpper(s, RackOf(t, s), a * t.uppers + u, RackOf(t, d), d) : u \in 0..t.uppers - 1}
          /\ PathsOverCore(t, s, d) =
               {ViaCore(s, RackOf(t, s), a * t.uppers + u, u * t.racks + c, b * t.uppers + u,
                        RackOf(t, d), d) : u \in 0..t.uppers - 1, c \in 0..t.racks - 1}
      BY <1>2, <3>1, PathsByPlace
    <3>. QED  BY <1>1, <3>2
  <2>3. /\ Os(2 * m, q)!OsSamePodPaths(s, d) =
             {Os(2 * m, q)!ViaUpper(s, RackOf(t, s), k, RackOf(t, d), d) : k \in {a * p + u : u \in 0..p - 1}}
        /\ Os(2 * m, q)!OsOtherPodPaths(s, d) =
             {Os(2 * m, q)!ViaCore(s, RackOf(t, s), a * p + u, u * m + c, b * p + u, RackOf(t, d), d) :
                u \in 0..p - 1, c \in 0..m - 1}
    BY <1>3, <2>1 DEF Os!OsSamePodPaths, Os!OsOtherPodPaths, Os!UppersOf, p
  <2>4. Os(2 * m, q)!OsSamePodPaths(s, d) = PathsInPod(t, s, d)
    BY <2>2, <2>3, OsNames
  <2>5. Os(2 * m, q)!OsOtherPodPaths(s, d) = PathsOverCore(t, s, d)
    BY <2>2, <2>3, OsNames
  <2>6. Os(2 * m, q)!OsPaths(s, d) =
          CASE RackOf(t, s) = RackOf(t, d) -> {ViaRack(s, RackOf(t, s), RackOf(t, d), d)}
            [] RackOf(t, s) # RackOf(t, d) /\ a = b -> PathsInPod(t, s, d)
            [] OTHER -> PathsOverCore(t, s, d)
    BY <2>1, <2>4, <2>5, OsNames DEF Os!OsPaths
  <2>. QED  BY <2>6 DEF TreePaths
<1>. QED  BY <1>2, <1>10, <1>11 DEF t

-----------------------------------------------------------------------------
(* AggOverSubscribedFatTree is a tree of pods.                             *)

\* The names of nodes and the shapes of routes are those of every tree.
LEMMA AggNames ==
  ASSUME NEW Size, NEW PerPod
  PROVE  /\ \A i : /\ Agg(Size, PerPod)!Host(i) = Host(i) /\ Agg(Size, PerPod)!Lower(i) = Lower(i)
                   /\ Agg(Size, PerPod)!Upper(i) = Upper(i) /\ Agg(Size, PerPod)!Core(i) = Core(i)
         /\ \A a, b : Agg(Size, PerPod)!Both(a, b) = Both(a, b)
         /\ \A s, a, b, d : Agg(Size, PerPod)!ViaRack(s, a, b, d) = ViaRack(s, a, b, d)
         /\ \A s, a, u, b, d : Agg(Size, PerPod)!ViaUpper(s, a, u, b, d) = ViaUpper(s, a, u, b, d)
         /\ \A s, a, u, c, v, b, d :
              Agg(Size, PerPod)!ViaCore(s, a, u, c, v, b, d) = ViaCore(s, a, u, c, v, b, d)
BY DEF Agg!Host, Host, Agg!Lower, Lower, Agg!Upper, Upper, Agg!Core, Core, Agg!Both, Both,
       Agg!ViaRack, ViaRack, Agg!ViaUpper, ViaUpper, Agg!ViaCore, ViaCore,
       Agg!Reversible, Reversible, Agg!Walk, Walk

\* A tree of 2 * m ports with p upper switches in a pod.
LEMMA AggTree ==
  ASSUME NEW m \in Nat \ {0}, NEW p \in Nat \ {0}
  PROVE  LET t == Shape(m, p, m)
         IN  /\ IsPodTree(t)
             /\ Agg(2 * m, p)!AggLinks = TreeLinks(t)
             /\ \A s, d \in TreeHosts(t) : Agg(2 * m, p)!AggPaths(s, d) = TreePaths(t, s, d)
<1>. DEFINE t == Shape(m, p, m)
<1>1. t.racks = m /\ t.uppers = p /\ t.hosts = m
  BY DEF Shape
<1>2. IsPodTree(t)
  BY <1>1 DEF IsPodTree
<1>3. /\ Agg(2 * m, p)!Nlp = 2 * m * m /\ Agg(2 * m, p)!Nup = (2 * m) * p
      /\ (2 * m) \div 2 = m /\ (\A a \in Nat : (a * (2 * m)) \div 2 = a * m)
      /\ Agg(2 * m, p)!Nhpr = m /\ Agg(2 * m, p)!UppersPerPod = p
  <2>1. /\ Agg(2 * m, p)!Nlp = 2 * m * m /\ Agg(2 * m, p)!Nup = (2 * m) * p
        /\ (2 * m) \div 2 = m /\ (\A a \in Nat : (a * (2 * m)) \div 2 = a * m)
        /\ Agg(2 * m, p)!Nhpr = m /\ Agg(2 * m, p)!UppersPerPod = Agg(2 * m, p)!Nup \div (2 * m)
    BY Halves DEF Agg!Nlp, Agg!Nup, Agg!Nhpr, Agg!UppersPerPod
  <2>2. ((2 * m) * p) \div (2 * m) = p
    <3>1. p * (2 * m) + 0 = (2 * m) * p /\ 2 * m \in Nat \ {0} /\ 0 \in 0..2 * m - 1
      OBVIOUS
    <3>2. (p * (2 * m) + 0) \div (2 * m) = p
      BY <3>1, QuotientOf
    <3>. QED  BY <3>1, <3>2
  <2>. QED  BY <2>1, <2>2
<1>4. TreeLowers(t) = 0..2 * m * m - 1 /\ TreeUppers(t) = 0..(2 * m) * p - 1
  <2>1. 2 * m * p = (2 * m) * p
    OBVIOUS
  <2>. QED  BY <1>1, <2>1 DEF TreeLowers, TreeUppers
<1>5. \A k \in TreeUppers(t) : k \in Nat /\ k \div p \in Nat /\ k % p \in Nat
  <2>1. \A k \in TreeUppers(t) : k \in Nat
    BY <1>2, TreeNumbers
  <2>. HIDE DEF t
  <2>2. ASSUME NEW k \in TreeUppers(t) PROVE k \in Nat /\ k \div p \in Nat /\ k % p \in 0..p - 1
    BY <2>1, Quotient
  <2>. QED  BY <2>2
<1>6. \A h \in TreeHosts(t) : /\ Agg(2 * m, p)!Rack(h) = RackOf(t, h)
                              /\ Agg(2 * m, p)!Pod(h) = PodOfRack(t, RackOf(t, h))
  <2>. TAKE h \in TreeHosts(t)
  <2>1. h \in Nat
    BY <1>2, TreeNumbers
  <2>2. (m * (2 * m)) \div 2 = m * m /\ (h \div m) \div m = h \div (m * m)
    BY <1>3, <2>1, QuotientTwice
  <2>. QED  BY <1>1, <1>3, <2>2 DEF Agg!Rack, Agg!Pod, RackOf, PodOfRack
<1>. HIDE DEF t
<1>7. Agg(2 * m, p)!AggHostLinks = RackLinks(t)
  <2>1. RackLinks(t) = UNION {Both(Lower(j), Host(j * m + l)) : j \in TreeLowers(t), l \in 0..m - 1}
    BY <1>1, <1>2, RackLinksAre
  <2>. DEFINE racks == 0..Agg(2 * m, p)!Nlp - 1
              places == 0..Agg(2 * m, p)!Nhpr - 1
              first(j) == j * Agg(2 * m, p)!Nhpr
  <2>2. \A x : x \in Agg(2 * m, p)!AggHostLinks <=> \E j \in racks : \E l \in places :
          x \in Agg(2 * m, p)!Both(Agg(2 * m, p)!Lower(j), Agg(2 * m, p)!Host(first(j) + l))
    BY DEF Agg!AggHostLinks
  <2>3. \A x : x \in RackLinks(t) <=> \E j \in TreeLowers(t) : \E l \in 0..m - 1 : x \in Both(Lower(j), Host(j * m + l))
    BY <2>1
  <2>4. racks = TreeLowers(t) /\ places = 0..m - 1 /\ \A j : first(j) = j * m
    BY <1>3, <1>4
  <2>5. \A j, h : Agg(2 * m, p)!Both(Agg(2 * m, p)!Lower(j), Agg(2 * m, p)!Host(h)) = Both(Lower(j), Host(h))
    BY AggNames
  <2>. HIDE DEF racks, places, first
  <2>6. \A x : x \in Agg(2 * m, p)!AggHostLinks <=> x \in RackLinks(t)
    BY <2>2, <2>3, <2>4, <2>5
  <2>. QED  BY <2>6
<1>8. Agg(2 * m, p)!AggPodLinks = UpLinks(t)
  <2>1. UpLinks(t) = UNION {Both(Upper(k), Lower((k \div p) * m + l)) : k \in TreeUppers(t), l \in 0..m - 1}
    BY <1>1, <1>2, UpLinksAre
  <2>. DEFINE uppers == 0..Agg(2 * m, p)!Nup - 1
              places == 0..((2 * m) \div 2) - 1
              first(k) == ((k \div Agg(2 * m, p)!UppersPerPod) * (2 * m)) \div 2
  <2>2. \A x : x \in Agg(2 * m, p)!AggPodLinks <=> \E k \in uppers : \E l \in places :
          x \in Agg(2 * m, p)!Both(Agg(2 * m, p)!Upper(k), Agg(2 * m, p)!Lower(first(k) + l))
    BY DEF Agg!AggPodLinks
  <2>3. \A x : x \in UpLinks(t) <=> \E k \in TreeUppers(t) : \E l \in 0..m - 1 :
          x \in Both(Upper(k), Lower((k \div p) * m + l))
    BY <2>1
  <2>4. uppers = TreeUppers(t) /\ places = 0..m - 1
    BY <1>3, <1>4
  <2>5. \A k \in TreeUppers(t) : first(k) = (k \div p) * m
    BY <1>3, <1>5
  <2>6. \A k, j : Agg(2 * m, p)!Both(Agg(2 * m, p)!Upper(k), Agg(2 * m, p)!Lower(j)) = Both(Upper(k), Lower(j))
    BY AggNames
  <2>. HIDE DEF uppers, places, first
  <2>7. \A x : x \in Agg(2 * m, p)!AggPodLinks <=> x \in UpLinks(t)
    BY <2>2, <2>3, <2>4, <2>5, <2>6
  <2>. QED  BY <2>7
<1>9. Agg(2 * m, p)!AggCoreLinks = TopLinks(t)
  <2>1. TopLinks(t) = UNION {Both(Upper(k), Core((k % p) * m + l)) : k \in TreeUppers(t), l \in 0..m - 1}
    BY <1>1, <1>2, TopLinksAre
  <2>. DEFINE uppers == 0..Agg(2 * m, p)!Nup - 1
              places == 0..((2 * m) \div 2) - 1
              first(k) == ((k % Agg(2 * m, p)!UppersPerPod) * (2 * m)) \div 2
  <2>2. \A x : x \in Agg(2 * m, p)!AggCoreLinks <=> \E k \in uppers : \E l \in places :
          x \in Agg(2 * m, p)!Both(Agg(2 * m, p)!Upper(k), Agg(2 * m, p)!Core(first(k) + l))
    BY DEF Agg!AggCoreLinks
  <2>3. \A x : x \in TopLinks(t) <=> \E k \in TreeUppers(t) : \E l \in 0..m - 1 :
          x \in Both(Upper(k), Core((k % p) * m + l))
    BY <2>1
  <2>4. uppers = TreeUppers(t) /\ places = 0..m - 1
    BY <1>3, <1>4
  <2>5. \A k \in TreeUppers(t) : first(k) = (k % p) * m
    BY <1>3, <1>5
  <2>6. \A k, c : Agg(2 * m, p)!Both(Agg(2 * m, p)!Upper(k), Agg(2 * m, p)!Core(c)) = Both(Upper(k), Core(c))
    BY AggNames
  <2>. HIDE DEF uppers, places, first
  <2>7. \A x : x \in Agg(2 * m, p)!AggCoreLinks <=> x \in TopLinks(t)
    BY <2>2, <2>3, <2>4, <2>5, <2>6
  <2>. QED  BY <2>7
<1>10. Agg(2 * m, p)!AggLinks = TreeLinks(t)
  <2>1. Agg(2 * m, p)!AggLinks = Agg(2 * m, p)!AggHostLinks \cup Agg(2 * m, p)!AggPodLinks \cup Agg(2 * m, p)!AggCoreLinks
    BY DEF Agg!AggLinks
  <2>2. TreeLinks(t) = RackLinks(t) \cup UpLinks(t) \cup TopLinks(t)
    BY DEF TreeLinks
  <2>. QED  BY <1>7, <1>8, <1>9, <2>1, <2>2
<1>11. ASSUME NEW s \in TreeHosts(t), NEW d \in TreeHosts(t)
       PROVE  Agg(2 * m, p)!AggPaths(s, d) = TreePaths(t, s, d)
  <2>. DEFINE a == PodOfRack(t, RackOf(t, s))
              b == PodOfRack(t, RackOf(t, d))
  <2>1. /\ Agg(2 * m, p)!Rack(s) = RackOf(t, s) /\ Agg(2 * m, p)!Rack(d) = RackOf(t, d)
        /\ Agg(2 * m, p)!Pod(s) = a /\ Agg(2 * m, p)!Pod(d) = b
    BY <1>6
  <2>2. /\ PathsInPod(t, s, d) = {ViaUpper(s, RackOf(t, s), a * p + u, RackOf(t, d), d) : u \in 0..p - 1}
        /\ PathsOverCore(t, s, d) =
             {ViaCore(s, RackOf(t, s), a * p + u, u * m + c, b * p + u, RackOf(t, d), d) :
                u \in 0..p - 1, c \in 0..m - 1}
    <3>. HIDE DEF a, b
    <3>1. a = PodOfRack(t, RackOf(t, s)) /\ b = PodOfRack(t, RackOf(t, d))
      BY DEF a, b
    <3>2. /\ PathsInPod(t, s, d) =
               {ViaUpper(s, RackOf(t, s), a * t.uppers + u, RackOf(t, d), d) : u \in 0..t.uppers - 1}
          /\ PathsOverCore(t, s, d) =
               {ViaCore(s, RackOf(t, s), a * t.uppers + u, u * t.racks + c, b * t.uppers + u,
                        RackOf(t, d), d) : u \in 0..t.uppers - 1, c \in 0..t.racks - 1}
      BY <1>2, <3>1, PathsByPlace
    <3>. QED  BY <1>1, <3>2
  <2>3. /\ Agg(2 * m, p)!AggSamePodPaths(s, d) =
             {Agg(2 * m, p)!ViaUpper(s, RackOf(t, s), a * p + u, RackOf(t, d), d) : u \in 0..p - 1}
        /\ Agg(2 * m, p)!AggOtherPodPaths(s, d) =
             {Agg(2 * m, p)!ViaCore(s, RackOf(t, s), a * p + u, u * m + c, b * p + u, RackOf(t, d), d) :
                u \in 0..p - 1, c \in 0..m - 1}
    BY <1>3, <2>1 DEF Agg!AggSamePodPaths, Agg!AggOtherPodPaths
  <2>4. Agg(2 * m, p)!AggSamePodPaths(s, d) = PathsInPod(t, s, d)
    BY <2>2, <2>3, AggNames
  <2>5. Agg(2 * m, p)!AggOtherPodPaths(s, d) = PathsOverCore(t, s, d)
    BY <2>2, <2>3, AggNames
  <2>6. Agg(2 * m, p)!AggPaths(s, d) =
          CASE RackOf(t, s) = RackOf(t, d) -> {ViaRack(s, RackOf(t, s), RackOf(t, d), d)}
            [] RackOf(t, s) # RackOf(t, d) /\ a = b -> PathsInPod(t, s, d)
            [] OTHER -> PathsOverCore(t, s, d)
    BY <2>1, <2>4, <2>5, AggNames DEF Agg!AggPaths
  <2>. QED  BY <2>6 DEF TreePaths
<1>. QED  BY <1>2, <1>10, <1>11 DEF t

-----------------------------------------------------------------------------
(* The 3:1 tree is a tree of pods.                                         *)

\* The names of nodes and the shapes of routes are those of every tree.
LEMMA ThreeNames ==
  /\ \A i : /\ Three!Host(i) = Host(i) /\ Three!Lower(i) = Lower(i)
            /\ Three!Upper(i) = Upper(i) /\ Three!Core(i) = Core(i)
  /\ \A a, b : Three!Both(a, b) = Both(a, b)
  /\ \A s, a, b, d : Three!ViaRack(s, a, b, d) = ViaRack(s, a, b, d)
  /\ \A s, a, u, b, d : Three!ViaUpper(s, a, u, b, d) = ViaUpper(s, a, u, b, d)
  /\ \A s, a, u, c, v, b, d : Three!ViaCore(s, a, u, c, v, b, d) = ViaCore(s, a, u, c, v, b, d)
BY DEF Three!Host, Host, Three!Lower, Lower, Three!Upper, Upper, Three!Core, Core, Three!Both, Both,
       Three!ViaRack, ViaRack, Three!ViaUpper, ViaUpper, Three!ViaCore, ViaCore,
       Three!Reversible, Reversible, Three!Walk, Walk

\* The numbers written out in the 3:1 tree are those of the tree of 6 racks with 9 hosts each and
\* 3 upper switches in a pod.
LEMMA ThreeTree ==
  LET t == Shape(6, 3, 9)
  IN  /\ IsPodTree(t)
      /\ Three!Links3 = TreeLinks(t)
      /\ \A s, d \in TreeHosts(t) : Three!Paths3(s, d) = TreePaths(t, s, d)
<1>. DEFINE t == Shape(6, 3, 9)
<1>1. t.racks = 6 /\ t.uppers = 3 /\ t.hosts = 9
  BY DEF Shape
<1>2. IsPodTree(t)
  BY <1>1 DEF IsPodTree
<1>. HIDE DEF t
<1>3. Three!Nlp = 72 /\ Three!Nup = 36 /\ Three!Nhpr = 9
  BY DEF Three!Nlp, Three!Nup, Three!Nhpr
<1>4. TreeLowers(t) = 0..71 /\ TreeUppers(t) = 0..35
  BY <1>1 DEF TreeLowers, TreeUppers
<1>5. 0..t.racks - 1 = 0..5 /\ 0..t.uppers - 1 = 0..2 /\ 0..t.hosts - 1 = 0..8
  BY <1>1
<1>6. \A h \in TreeHosts(t) : Three!Rack3(h) = RackOf(t, h) /\ Three!Pod3(h) = PodOfRack(t, RackOf(t, h))
  <2>. TAKE h \in TreeHosts(t)
  <2>1. h \in Nat
    BY <1>2, TreeNumbers
  <2>2. (h \div 9) \div 6 = h \div 54
    BY <2>1
  <2>. QED  BY <1>1, <1>3, <2>2 DEF Three!Rack3, Three!Pod3, RackOf, PodOfRack
<1>7. Three!HostLinks3 = RackLinks(t)
  <2>. DEFINE racks == 0..Three!Nlp - 1
              places == 0..Three!Nhpr - 1
              first(j) == j * Three!Nhpr
              ours(j) == j * t.hosts
  <2>1. \A x : x \in Three!HostLinks3 <=> \E j \in racks : \E l \in places :
          x \in Three!Both(Three!Lower(j), Three!Host(first(j) + l))
    BY DEF Three!HostLinks3
  <2>2. RackLinks(t) = UNION {Both(Lower(j), Host(j * t.hosts + l)) : j \in TreeLowers(t), l \in 0..t.hosts - 1}
    BY <1>2, RackLinksAre
  <2>3. \A x : x \in RackLinks(t) <=> \E j \in TreeLowers(t) : \E l \in 0..8 :
          x \in Both(Lower(j), Host(ours(j) + l))
    BY <1>5, <2>2
  <2>4. racks = TreeLowers(t) /\ places = 0..8 /\ \A j : first(j) = ours(j)
    BY <1>1, <1>3, <1>4
  <2>5. \A j, h : Three!Both(Three!Lower(j), Three!Host(h)) = Both(Lower(j), Host(h))
    BY ThreeNames
  <2>. HIDE DEF racks, places, first, ours
  <2>6. \A x : x \in Three!HostLinks3 <=> x \in RackLinks(t)
    BY <2>1, <2>3, <2>4, <2>5
  <2>. QED  BY <2>6
<1>8. Three!PodLinks3 = UpLinks(t)
  <2>. DEFINE uppers == 0..Three!Nup - 1
              first(k) == (k \div 3) * 6
              ours(k) == (k \div t.uppers) * t.racks
  <2>1. \A x : x \in Three!PodLinks3 <=> \E k \in uppers : \E l \in 0..5 :
          x \in Three!Both(Three!Upper(k), Three!Lower(first(k) + l))
    BY DEF Three!PodLinks3
  <2>2. UpLinks(t) = UNION {Both(Upper(k), Lower((k \div t.uppers) * t.racks + l)) :
                              k \in TreeUppers(t), l \in 0..t.racks - 1}
    BY <1>2, UpLinksAre
  <2>3. \A x : x \in UpLinks(t) <=> \E k \in TreeUppers(t) : \E l \in 0..5 :
          x \in Both(Upper(k), Lower(ours(k) + l))
    BY <1>5, <2>2
  <2>4. uppers = TreeUppers(t) /\ \A k : first(k) = ours(k)
    BY <1>1, <1>3, <1>4
  <2>5. \A k, j : Three!Both(Three!Upper(k), Three!Lower(j)) = Both(Upper(k), Lower(j))
    BY ThreeNames
  <2>. HIDE DEF uppers, first, ours
  <2>6. \A x : x \in Three!PodLinks3 <=> x \in UpLinks(t)
    BY <2>1, <2>3, <2>4, <2>5
  <2>. QED  BY <2>6
<1>9. Three!CoreLinks3 = TopLinks(t)
  <2>. DEFINE uppers == 0..Three!Nup - 1
              first(k) == (k % 3) * 6
              ours(k) == (k % t.uppers) * t.racks
  <2>1. \A x : x \in Three!CoreLinks3 <=> \E k \in uppers : \E l \in 0..5 :
          x \in Three!Both(Three!Upper(k), Three!Core(first(k) + l))
    BY DEF Three!CoreLinks3
  <2>2. TopLinks(t) = UNION {Both(Upper(k), Core((k % t.uppers) * t.racks + l)) :
                               k \in TreeUppers(t), l \in 0..t.racks - 1}
    BY <1>2, TopLinksAre
  <2>3. \A x : x \in TopLinks(t) <=> \E k \in TreeUppers(t) : \E l \in 0..5 :
          x \in Both(Upper(k), Core(ours(k) + l))
    BY <1>5, <2>2
  <2>4. uppers = TreeUppers(t) /\ \A k : first(k) = ours(k)
    BY <1>1, <1>3, <1>4
  <2>5. \A k, c : Three!Both(Three!Upper(k), Three!Core(c)) = Both(Upper(k), Core(c))
    BY ThreeNames
  <2>. HIDE DEF uppers, first, ours
  <2>6. \A x : x \in Three!CoreLinks3 <=> x \in TopLinks(t)
    BY <2>1, <2>3, <2>4, <2>5
  <2>. QED  BY <2>6
<1>10. Three!Links3 = TreeLinks(t)
  <2>1. Three!Links3 = Three!HostLinks3 \cup Three!PodLinks3 \cup Three!CoreLinks3
    BY DEF Three!Links3
  <2>2. TreeLinks(t) = RackLinks(t) \cup UpLinks(t) \cup TopLinks(t)
    BY DEF TreeLinks
  <2>. QED  BY <1>7, <1>8, <1>9, <2>1, <2>2
<1>11. ASSUME NEW s \in TreeHosts(t), NEW d \in TreeHosts(t)
       PROVE  Three!Paths3(s, d) = TreePaths(t, s, d)
  <2>. DEFINE a == PodOfRack(t, RackOf(t, s))
              b == PodOfRack(t, RackOf(t, d))
  <2>1. /\ Three!Rack3(s) = RackOf(t, s) /\ Three!Rack3(d) = RackOf(t, d)
        /\ Three!Pod3(s) = a /\ Three!Pod3(d) = b
    BY <1>6
  <2>2. /\ PathsInPod(t, s, d) = {ViaUpper(s, RackOf(t, s), a * 3 + u, RackOf(t, d), d) : u \in 0..2}
        /\ PathsOverCore(t, s, d) =
             {ViaCore(s, RackOf(t, s), a * 3 + u, u * 6 + c, b * 3 + u, RackOf(t, d), d) :
                u \in 0..2, c \in 0..5}
    <3>. HIDE DEF a, b
    <3>1. a = PodOfRack(t, RackOf(t, s)) /\ b = PodOfRack(t, RackOf(t, d))
      BY DEF a, b
    <3>2. /\ PathsInPod(t, s, d) =
               {ViaUpper(s, RackOf(t, s), a * t.uppers + u, RackOf(t, d), d) : u \in 0..t.uppers - 1}
          /\ PathsOverCore(t, s, d) =
               {ViaCore(s, RackOf(t, s), a * t.uppers + u, u * t.racks + c, b * t.uppers + u,
                        RackOf(t, d), d) : u \in 0..t.uppers - 1, c \in 0..t.racks - 1}
      BY <1>2, <3>1, PathsByPlace
    <3>. QED  BY <1>1, <1>5, <3>2
  <2>3. /\ Three!SamePodPaths3(s, d) = {Three!ViaUpper(s, RackOf(t, s), a * 3 + u, RackOf(t, d), d) : u \in 0..2}
        /\ Three!OtherPodPaths3(s, d) =
             {Three!ViaCore(s, RackOf(t, s), a * 3 + u, u * 6 + c, b * 3 + u, RackOf(t, d), d) :
                u \in 0..2, c \in 0..5}
    BY <2>1 DEF Three!SamePodPaths3, Three!OtherPodPaths3
  <2>4. Three!SamePodPaths3(s, d) = PathsInPod(t, s, d)
    BY <2>2, <2>3, ThreeNames
  <2>5. Three!OtherPodPaths3(s, d) = PathsOverCore(t, s, d)
    BY <2>2, <2>3, ThreeNames
  <2>6. Three!Paths3(s, d) =
          CASE RackOf(t, s) = RackOf(t, d) -> {ViaRack(s, RackOf(t, s), RackOf(t, d), d)}
            [] RackOf(t, s) # RackOf(t, d) /\ a = b -> PathsInPod(t, s, d)
            [] OTHER -> PathsOverCore(t, s, d)
    BY <2>1, <2>4, <2>5, ThreeNames DEF Three!Paths3
  <2>. QED  BY <2>6 DEF TreePaths
<1>. QED  BY <1>2, <1>10, <1>11 DEF t

-----------------------------------------------------------------------------
(* OversubscribedFatTreeTopology is a tree of pods.                        *)

\* The names of nodes are those of every tree, and the routes its routes without their reverse.
LEMMA OverNames ==
  ASSUME NEW Size
  PROVE  /\ \A i : /\ Over(Size)!Host(i) = Host(i) /\ Over(Size)!Lower(i) = Lower(i)
                   /\ Over(Size)!Upper(i) = Upper(i) /\ Over(Size)!Core(i) = Core(i)
         /\ \A a, b : Over(Size)!Both(a, b) = Both(a, b)
         /\ \A s, a, b, d :
              Over(Size)!NoReverse(Over(Size)!ViaRack(s, a, b, d)) = OneWayOf(ViaRack(s, a, b, d))
         /\ \A s, a, u, b, d :
              Over(Size)!NoReverse(Over(Size)!ViaUpper(s, a, u, b, d)) = OneWayOf(ViaUpper(s, a, u, b, d))
         /\ \A s, a, u, c, v, b, d :
              Over(Size)!NoReverse(Over(Size)!ViaCore(s, a, u, c, v, b, d)) =
                OneWayOf(ViaCore(s, a, u, c, v, b, d))
<1>1. \A i : /\ Over(Size)!Host(i) = Host(i) /\ Over(Size)!Lower(i) = Lower(i)
             /\ Over(Size)!Upper(i) = Upper(i) /\ Over(Size)!Core(i) = Core(i)
  BY DEF Over!Host, Host, Over!Lower, Lower, Over!Upper, Upper, Over!Core, Core
<1>2. \A out, back : Over(Size)!NoReverse(Over(Size)!Reversible(out, back)) = OneWayOf(Reversible(out, back))
  <2>. TAKE out, back
  <2>. DEFINE r == Reversible(out, back)
  <2>1. Over(Size)!Reversible(out, back) = r
    BY DEF Over!Reversible, Reversible
  <2>2. Over(Size)!NoReverse(r) = [r EXCEPT !.back = <<>>, !.reversible = FALSE]
    BY DEF Over!NoReverse
  <2>3. [r EXCEPT !.back = <<>>, !.reversible = FALSE] = OneWayOf(r)
    <3>. DEFINE none == <<>>
                yes == TRUE
                no == FALSE
    <3>1. r = [out |-> out, back |-> back, reversible |-> yes, feeder |-> no]
      BY DEF Reversible
    <3>2. OneWayOf(r) = [out |-> out, back |-> none, reversible |-> no, feeder |-> no]
      BY <3>1 DEF OneWayOf
    <3>. HIDE DEF r, none, yes, no
    <3>. DEFINE q == [r EXCEPT !.back = none, !.reversible = no]
    <3>3. q = [field \in {"out", "back", "reversible", "feeder"} |-> q[field]]
      BY <3>1
    <3>4. q.out = out /\ q.back = none /\ q.reversible = no /\ q.feeder = no
      BY <3>1
    <3>. HIDE DEF q
    <3>5. q = [out |-> out, back |-> none, reversible |-> no, feeder |-> no]
      BY <3>3, <3>4
    <3>. QED  BY <3>2, <3>5 DEF q, none, no
  <2>. QED  BY <2>1, <2>2, <2>3
<1>3. \A nodes : Over(Size)!Walk(nodes) = Walk(nodes)
  BY DEF Over!Walk, Walk
<1>4. \A a, b : Over(Size)!Both(a, b) = Both(a, b)
  BY DEF Over!Both, Both
<1>5. \A s, a, b, d :
        Over(Size)!NoReverse(Over(Size)!ViaRack(s, a, b, d)) = OneWayOf(ViaRack(s, a, b, d))
  BY <1>1, <1>2, <1>3 DEF Over!ViaRack, ViaRack
<1>6. \A s, a, u, b, d :
        Over(Size)!NoReverse(Over(Size)!ViaUpper(s, a, u, b, d)) = OneWayOf(ViaUpper(s, a, u, b, d))
  BY <1>1, <1>2, <1>3 DEF Over!ViaUpper, ViaUpper
<1>7. \A s, a, u, c, v, b, d :
        Over(Size)!NoReverse(Over(Size)!ViaCore(s, a, u, c, v, b, d)) = OneWayOf(ViaCore(s, a, u, c, v, b, d))
  BY <1>1, <1>2, <1>3 DEF Over!ViaCore, ViaCore
<1>. QED  BY <1>1, <1>4, <1>5, <1>6, <1>7

\* The oversubscribed tree of 2 * m ports is the tree of m racks and m upper switches in a pod
\* and 4 * m hosts in a rack.
LEMMA OverTree ==
  ASSUME NEW m \in Nat \ {0}
  PROVE  LET t == Shape(m, m, 4 * m)
         IN  /\ IsPodTree(t)
             /\ Over(2 * m)!OvLinks = TreeLinks(t)
             /\ \A s, d \in TreeHosts(t) :
                  Over(2 * m)!OvPaths(s, d) = {OneWayOf(r) : r \in TreePaths(t, s, d)}
<1>. DEFINE t == Shape(m, m, 4 * m)
<1>1. t.racks = m /\ t.uppers = m /\ t.hosts = 4 * m
  BY DEF Shape
<1>2. IsPodTree(t)
  BY <1>1 DEF IsPodTree
<1>. HIDE DEF t
<1>3. /\ (2 * m) \div 2 = m /\ Over(2 * m)!NK = 2 * m * m
      /\ \A a \in Nat : (a * (2 * m)) \div 2 = a * m /\ ((a + 1) * (2 * m)) \div 2 = a * m + m
      /\ \A a \in Nat : (2 * a) \div (2 * m) = a \div m
  <2>1. Over(2 * m)!NK = ((2 * m) * (2 * m)) \div 2
    BY DEF Over!NK
  <2>. QED  BY <2>1, Halves
<1>4. TreeLowers(t) = 0..2 * m * m - 1 /\ TreeUppers(t) = 0..2 * m * m - 1
  BY <1>1 DEF TreeLowers, TreeUppers
<1>5. \A pod \in 0..2 * m - 1 : Over(2 * m)!PodIds(pod) = UppersOfPod(t, pod)
  <2>. TAKE pod \in 0..2 * m - 1
  <2>1. pod \in Nat /\ pod \in 0..2 * t.racks - 1
    BY <1>1
  <2>2. UppersOfPod(t, pod) = pod * m..pod * m + m - 1
    BY <1>1, <1>2, <2>1, UppersAre
  <2>. QED  BY <1>3, <2>1, <2>2 DEF Over!PodIds
<1>6. \A k \in TreeUppers(t) : Over(2 * m)!CoresOf(k) = CoresAbove(t, k)
  <2>. TAKE k \in TreeUppers(t)
  <2>1. k % m \in Nat
    <3>1. k \in Nat
      BY <1>2, TreeNumbers
    <3>. QED  BY <3>1
  <2>2. CoresAbove(t, k) = (k % m) * m..(k % m) * m + m - 1
    BY <1>1, <1>2, CoresAre
  <2>3. ((k % m) * (2 * m)) \div 2 = (k % m) * m /\ (((k % m) + 1) * (2 * m)) \div 2 = (k % m) * m + m
    BY <1>3, <2>1
  <2>4. Over(2 * m)!CoresOf(k) = ((k % m) * (2 * m)) \div 2..(((k % m) + 1) * (2 * m)) \div 2 - 1
    BY <1>3 DEF Over!CoresOf
  <2>. DEFINE first == (k % m) * m
  <2>5. first \in Nat
    BY <2>1
  <2>6. CoresAbove(t, k) = first..first + m - 1
    BY <2>2
  <2>7. Over(2 * m)!CoresOf(k) = first..(first + m) - 1
    BY <2>3, <2>4
  <2>. HIDE DEF first
  <2>8. first + m - 1 = (first + m) - 1
    BY <2>5
  <2>. QED  BY <2>6, <2>7, <2>8
<1>7. \A h \in TreeHosts(t) : /\ Over(2 * m)!PodSwitch(h) = RackOf(t, h)
                              /\ Over(2 * m)!HostPod(h) = PodOfRack(t, RackOf(t, h))
                              /\ Over(2 * m)!HostPod(h) \in 0..2 * m - 1
  <2>. TAKE h \in TreeHosts(t)
  <2>1. h \in Nat /\ RackOf(t, h) \in TreeLowers(t)
    BY <1>2, TreeNumbers
  <2>2. PodOfRack(t, RackOf(t, h)) \in 0..2 * m - 1
    BY <1>1, <1>2, <2>1, TreeNumbers
  <2>3. (h \div 2) \div (2 * m) = h \div (4 * m)
    <3>1. 2 \in Nat \ {0} /\ 2 * m \in Nat \ {0} /\ 2 * (2 * m) = 4 * m
      OBVIOUS
    <3>2. (h \div 2) \div (2 * m) = h \div (2 * (2 * m))
      BY <2>1, <3>1, QuotientTwice
    <3>. QED  BY <3>1, <3>2
  <2>4. (h \div (2 * m)) \div (2 * m) = (h \div (4 * m)) \div m
    <3>. DEFINE two == 2 * m
                four == 4 * m
    <3>1. two \in Nat \ {0} /\ four \in Nat \ {0} /\ two * two = four * m
      OBVIOUS
    <3>. HIDE DEF two, four
    <3>2. (h \div two) \div two = h \div (two * two) /\ (h \div four) \div m = h \div (four * m)
      BY <2>1, <3>1, QuotientTwice
    <3>3. (h \div two) \div two = (h \div four) \div m
      BY <3>1, <3>2
    <3>. QED  BY <3>3 DEF two, four
  <2>5. Over(2 * m)!PodSwitch(h) = RackOf(t, h)
    BY <1>1, <2>3 DEF Over!PodSwitch, RackOf
  <2>6. Over(2 * m)!HostPod(h) = PodOfRack(t, RackOf(t, h))
    BY <1>1, <2>4 DEF Over!HostPod, RackOf, PodOfRack
  <2>. QED  BY <2>2, <2>5, <2>6
<1>8. Over(2 * m)!OvHostLinks = RackLinks(t)
  <2>. DEFINE racks == 0..Over(2 * m)!NK - 1
              places == 0..2 * (2 * m) - 1
              first(j) == j * 2 * (2 * m)
              ours(j) == j * t.hosts
  <2>1. \A x : x \in Over(2 * m)!OvHostLinks <=> \E j \in racks : \E l \in places :
          x \in Over(2 * m)!Both(Over(2 * m)!Lower(j), Over(2 * m)!Host(first(j) + l))
    BY DEF Over!OvHostLinks
  <2>2. RackLinks(t) = UNION {Both(Lower(j), Host(j * t.hosts + l)) : j \in TreeLowers(t), l \in 0..t.hosts - 1}
    BY <1>2, RackLinksAre
  <2>3. \A x : x \in RackLinks(t) <=> \E j \in TreeLowers(t) : \E l \in 0..t.hosts - 1 :
          x \in Both(Lower(j), Host(ours(j) + l))
    BY <2>2
  <2>4. racks = TreeLowers(t) /\ places = 0..t.hosts - 1
    BY <1>1, <1>3, <1>4
  <2>5. \A j \in TreeLowers(t) : first(j) = ours(j)
    <3>1. \A j \in Nat : j * 2 * (2 * m) = j * (4 * m)
      OBVIOUS
    <3>. QED  BY <1>1, <1>2, <3>1, TreeNumbers
  <2>6. \A j, h : Over(2 * m)!Both(Over(2 * m)!Lower(j), Over(2 * m)!Host(h)) = Both(Lower(j), Host(h))
    BY OverNames
  <2>. HIDE DEF racks, places, first, ours
  <2>7. \A x : x \in Over(2 * m)!OvHostLinks <=> x \in RackLinks(t)
    BY <2>1, <2>3, <2>4, <2>5, <2>6
  <2>. QED  BY <2>7
<1>9. Over(2 * m)!OvPodLinks = UpLinks(t)
  <2>1. \A j \in TreeLowers(t) : Over(2 * m)!PodIds((2 * j) \div (2 * m)) = UppersOfPod(t, PodOfRack(t, j))
    <3>. TAKE j \in TreeLowers(t)
    <3>1. j \in Nat /\ PodOfRack(t, j) \in 0..2 * m - 1
      BY <1>1, <1>2, TreeNumbers
    <3>2. (2 * j) \div (2 * m) = PodOfRack(t, j)
      BY <1>1, <1>3, <3>1 DEF PodOfRack
    <3>. QED  BY <1>5, <3>1, <3>2
  <2>. DEFINE racks == 0..Over(2 * m)!NK - 1
              above(j) == Over(2 * m)!PodIds((2 * j) \div (2 * m))
  <2>2. \A x : x \in Over(2 * m)!OvPodLinks <=>
          \E j \in racks : \E k \in above(j) : x \in Over(2 * m)!Both(Over(2 * m)!Lower(j), Over(2 * m)!Upper(k))
    BY DEF Over!OvPodLinks
  <2>3. racks = TreeLowers(t)
    BY <1>3, <1>4
  <2>4. \A j \in TreeLowers(t) : above(j) = UppersOfPod(t, PodOfRack(t, j))
    BY <2>1
  <2>5. \A j, k : Over(2 * m)!Both(Over(2 * m)!Lower(j), Over(2 * m)!Upper(k)) = Both(Lower(j), Upper(k))
    BY OverNames
  <2>6. \A x : x \in UpLinks(t) <=>
          \E j \in TreeLowers(t) : \E k \in UppersOfPod(t, PodOfRack(t, j)) : x \in Both(Lower(j), Upper(k))
    BY DEF UpLinks
  <2>. HIDE DEF racks, above
  <2>7. \A x : x \in Over(2 * m)!OvPodLinks <=> x \in UpLinks(t)
    BY <2>2, <2>3, <2>4, <2>5, <2>6
  <2>. QED  BY <2>7
<1>10. Over(2 * m)!OvCoreLinks = TopLinks(t)
  <2>1. \A k \in TreeUppers(t) : ((k % ((2 * m) \div 2)) * (2 * m)) \div 2 = (k % m) * m
    <3>. TAKE k \in TreeUppers(t)
    <3>1. k \in Nat
      BY <1>2, TreeNumbers
    <3>2. k % m \in Nat
      BY <3>1
    <3>. QED  BY <1>3, <3>2
  <2>2. TopLinks(t) = UNION {Both(Upper(k), Core((k % m) * m + l)) : k \in TreeUppers(t), l \in 0..m - 1}
    BY <1>1, <1>2, TopLinksAre
  <2>. DEFINE uppers == 0..Over(2 * m)!NK - 1
              places == 0..((2 * m) \div 2) - 1
              first(k) == ((k % ((2 * m) \div 2)) * (2 * m)) \div 2
  <2>3. \A x : x \in Over(2 * m)!OvCoreLinks <=> \E k \in uppers : \E l \in places :
                 x \in Over(2 * m)!Both(Over(2 * m)!Upper(k), Over(2 * m)!Core(first(k) + l))
    BY DEF Over!OvCoreLinks
  <2>4. uppers = TreeUppers(t) /\ places = 0..m - 1
    BY <1>3, <1>4
  <2>5. \A k \in TreeUppers(t) : first(k) = (k % m) * m
    BY <2>1
  <2>. HIDE DEF uppers, places, first
  <2>6. \A x : x \in Over(2 * m)!OvCoreLinks <=> \E k \in TreeUppers(t) : \E l \in 0..m - 1 :
                 x \in Both(Upper(k), Core(first(k) + l))
    <3>1. \A k, c : Over(2 * m)!Both(Over(2 * m)!Upper(k), Over(2 * m)!Core(c)) = Both(Upper(k), Core(c))
      BY OverNames
    <3>. QED  BY <2>4, <2>3, <3>1
  <2>7. \A x : x \in TopLinks(t) <=> \E k \in TreeUppers(t) : \E l \in 0..m - 1 :
                 x \in Both(Upper(k), Core((k % m) * m + l))
    BY <2>2
  <2>8. \A x : x \in Over(2 * m)!OvCoreLinks <=> x \in TopLinks(t)
    BY <2>5, <2>6, <2>7
  <2>. QED  BY <2>8
<1>11. Over(2 * m)!OvLinks = TreeLinks(t)
  BY <1>8, <1>9, <1>10 DEF Over!OvLinks, TreeLinks
<1>12. ASSUME NEW s \in TreeHosts(t), NEW d \in TreeHosts(t)
       PROVE  Over(2 * m)!OvPaths(s, d) = {OneWayOf(r) : r \in TreePaths(t, s, d)}
  <2>. DEFINE a == PodOfRack(t, RackOf(t, s))
              b == PodOfRack(t, RackOf(t, d))
              up(k) == ViaUpper(s, RackOf(t, s), k, RackOf(t, d), d)
              over(k, c) == ViaCore(s, RackOf(t, s), k, c, UpperOf(t, b, GroupOfCore(t, c)), RackOf(t, d), d)
  <2>1. /\ Over(2 * m)!PodSwitch(s) = RackOf(t, s) /\ Over(2 * m)!PodSwitch(d) = RackOf(t, d)
        /\ Over(2 * m)!HostPod(s) = a /\ Over(2 * m)!HostPod(d) = b
        /\ Over(2 * m)!PodIds(Over(2 * m)!HostPod(s)) = UppersOfPod(t, a)
    BY <1>5, <1>7
  <2>2. Over(2 * m)!OvSamePodPaths(s, d) = {OneWayOf(r) : r \in PathsInPod(t, s, d)}
    <3>1. Over(2 * m)!OvSamePodPaths(s, d) = {OneWayOf(up(k)) : k \in UppersOfPod(t, a)}
      BY <2>1, OverNames DEF Over!OvSamePodPaths
    <3>2. PathsInPod(t, s, d) = {up(k) : k \in UppersOfPod(t, a)}
      BY DEF PathsInPod
    <3>. HIDE DEF up, a
    <3>. QED  BY <3>1, <3>2
  <2>3. \A k \in UppersOfPod(t, a) : Over(2 * m)!CoresOf(k) = CoresAbove(t, k)
    BY <1>6 DEF UppersOfPod
  <2>4. ASSUME NEW k, NEW c \in CoresAbove(t, k)
        PROVE  (Over(2 * m)!HostPod(d) * (2 * m)) \div 2 + (2 * c) \div (2 * m) = UpperOf(t, b, GroupOfCore(t, c))
    <3>1. c \in Nat /\ b \in Nat
      BY <1>2, <1>7, <2>1, TreeNumbers DEF CoresAbove
    <3>2. (b * (2 * m)) \div 2 + (2 * c) \div (2 * m) = b * m + c \div m
      BY <1>3, <3>1
    <3>. QED  BY <1>1, <2>1, <3>2 DEF UpperOf, GroupOfCore
  <2>5. Over(2 * m)!OvOtherPodPaths(s, d) = {OneWayOf(r) : r \in PathsOverCore(t, s, d)}
    <3>. DEFINE down(c) == (Over(2 * m)!HostPod(d) * (2 * m)) \div 2 + (2 * c) \div (2 * m)
                theirs(k, c) == OneWayOf(ViaCore(s, RackOf(t, s), k, c, down(c), RackOf(t, d), d))
    <3>1. \A x : x \in Over(2 * m)!OvOtherPodPaths(s, d) <=>
            \E k \in UppersOfPod(t, a) : \E c \in Over(2 * m)!CoresOf(k) : x = theirs(k, c)
      BY <2>1, OverNames DEF Over!OvOtherPodPaths
    <3>2. \A x : x \in PathsOverCore(t, s, d) <=>
            \E k \in UppersOfPod(t, a) : \E c \in CoresAbove(t, k) : x = over(k, c)
      BY DEF PathsOverCore
    <3>3. \A k \in UppersOfPod(t, a) : \A c \in CoresAbove(t, k) : theirs(k, c) = OneWayOf(over(k, c))
      BY <2>4
    <3>. HIDE DEF theirs, over, down, a
    <3>4. \A x : x \in Over(2 * m)!OvOtherPodPaths(s, d) <=> x \in {OneWayOf(r) : r \in PathsOverCore(t, s, d)}
      BY <2>3, <3>1, <3>2, <3>3
    <3>. QED  BY <3>4
  <2>6. /\ RackOf(t, s) = RackOf(t, d) =>
             Over(2 * m)!OvPaths(s, d) = {OneWayOf(ViaRack(s, RackOf(t, s), RackOf(t, d), d))}
        /\ RackOf(t, s) # RackOf(t, d) /\ a = b =>
             Over(2 * m)!OvPaths(s, d) = Over(2 * m)!OvSamePodPaths(s, d)
        /\ RackOf(t, s) # RackOf(t, d) /\ a # b =>
             Over(2 * m)!OvPaths(s, d) = Over(2 * m)!OvOtherPodPaths(s, d)
    BY <2>1, OverNames DEF Over!OvPaths
  <2>7. /\ RackOf(t, s) = RackOf(t, d) => TreePaths(t, s, d) = {ViaRack(s, RackOf(t, s), RackOf(t, d), d)}
        /\ RackOf(t, s) # RackOf(t, d) /\ a = b => TreePaths(t, s, d) = PathsInPod(t, s, d)
        /\ RackOf(t, s) # RackOf(t, d) /\ a # b => TreePaths(t, s, d) = PathsOverCore(t, s, d)
    BY DEF TreePaths
  <2>. HIDE DEF a, b
  <2>. QED  BY <2>2, <2>5, <2>6, <2>7
<1>. QED  BY <1>2, <1>11, <1>12 DEF t

-----------------------------------------------------------------------------
(* The size of a fat tree.                                                 *)

\* A larger tree has more hosts.
LEMMA CubesGrow ==
  ASSUME NEW a \in Nat, NEW b \in Nat, a < b
  PROVE  a * a * a < b * b * b
<1>. DEFINE c == b - a
<1>1. c \in Nat \ {0} /\ b = a + c
  OBVIOUS
<1>2. ASSUME NEW x \in Nat, NEW y \in Nat PROVE x * y \in Nat
  OBVIOUS
<1>3. ASSUME NEW x \in Nat, NEW y \in Nat, NEW z \in Nat \ {0}, x < y PROVE x * z < y * z
  <2>. DEFINE w == y - x
  <2>1. w \in Nat \ {0} /\ y = x + w
    BY <1>3
  <2>. HIDE DEF w
  <2>2. y * z = x * z + w * z /\ w * z \in Nat \ {0} /\ x * z \in Nat
    BY <2>1
  <2>. QED  BY <2>2
<1>4. ASSUME NEW x \in Nat, NEW y \in Nat, NEW z \in Nat, x <= y PROVE z * x <= z * y
  <2>. DEFINE w == y - x
  <2>1. w \in Nat /\ y = x + w
    BY <1>4
  <2>. HIDE DEF w
  <2>2. z * y = z * x + z * w /\ z * w \in Nat /\ z * x \in Nat
    BY <2>1
  <2>. QED  BY <2>2
<1>5. b \in Nat \ {0} /\ a <= b
  OBVIOUS
<1>6. a * b < b * b /\ a * a <= a * b /\ a * a \in Nat /\ a * b \in Nat /\ b * b \in Nat
  BY <1>2, <1>3, <1>4, <1>5
<1>7. a * a < b * b
  BY <1>6
<1>8. (a * a) * b < (b * b) * b /\ (a * a) * a <= (a * a) * b
  BY <1>3, <1>4, <1>5, <1>6, <1>7
<1>9. (a * a) * a \in Nat /\ (a * a) * b \in Nat /\ (b * b) * b \in Nat
  BY <1>2, <1>6
<1>. QED  BY <1>8, <1>9

\* set_params stops at 2 * m for the number of hosts a tree of 2 * m ports has, and accepts it.
LEMMA FullSize ==
  ASSUME NEW m \in Nat \ {0}
  PROVE  Full(2 * m * m * m)!K = 2 * m /\ Full(2 * m * m * m)!IsAccepted
<1>. DEFINE N == 2 * m * m * m
            Fits(k) == /\ k \in 1..4 * N
                       /\ Full(N)!Capacity(k) >= N
                       /\ \A smaller \in 1..k - 1 : Full(N)!Capacity(smaller) < N
<1>1. N \in Nat \ {0} /\ 2 * m <= 4 * N
  <2>1. \A x \in Nat \ {0}, y \in Nat \ {0} : x * y \in Nat \ {0} /\ x <= x * y
    OBVIOUS
  <2>2. m * m \in Nat \ {0} /\ (m * m) * m \in Nat \ {0} /\ m <= m * m /\ m * m <= (m * m) * m
    BY <2>1
  <2>3. N = 2 * ((m * m) * m)
    OBVIOUS
  <2>. HIDE DEF N
  <2>. QED  BY <2>2, <2>3
<1>2. \A k : Full(N)!Capacity(k) = (k * k * k) \div 4
  BY DEF Full!Capacity
<1>3. Full(N)!Capacity(2 * m) = N
  BY <1>2, Halves
<1>4. ASSUME NEW k \in 1..2 * m - 1 PROVE Full(N)!Capacity(k) < N
  <2>1. k * k * k < (2 * m) * (2 * m) * (2 * m)
    BY CubesGrow
  <2>2. (2 * m) * (2 * m) * (2 * m) = 4 * N
    OBVIOUS
  <2>3. k * k * k \in Nat
    <3>1. k \in Nat
      OBVIOUS
    <3>. QED  BY <3>1
  <2>. DEFINE cube == k * k * k
  <2>4. cube \in Nat /\ cube < 4 * N
    BY <2>1, <2>2, <2>3
  <2>. HIDE DEF cube, N
  <2>5. cube \div 4 < N
    BY <1>1, <2>4
  <2>. QED  BY <1>2, <2>5 DEF cube
<1>. HIDE DEF N
<1>5. Fits(2 * m)
  BY <1>1, <1>3, <1>4
<1>6. ASSUME NEW k, Fits(k) PROVE k = 2 * m
  <2>1. k \in Int /\ k >= 1
    BY <1>1, <1>6
  <2>2. ~ k < 2 * m
    <3>1. SUFFICES ASSUME k < 2 * m PROVE FALSE
      OBVIOUS
    <3>2. k \in 1..2 * m - 1
      BY <2>1, <3>1
    <3>3. Full(N)!Capacity(k) < N /\ Full(N)!Capacity(k) >= N
      BY <1>4, <1>6, <3>2
    <3>4. Full(N)!Capacity(k) \in Int
      BY <1>2, <2>1
    <3>. QED  BY <1>1, <3>3, <3>4
  <2>3. ~ k > 2 * m
    BY <1>1, <1>3, <1>6, <2>1
  <2>. QED  BY <2>1, <2>2, <2>3
<1>7. Full(N)!K = CHOOSE k \in 1..4 * N :
        /\ Full(N)!Capacity(k) >= N
        /\ \A smaller \in 1..k - 1 : Full(N)!Capacity(smaller) < N
  BY DEF Full!K
<1>8. Fits(Full(N)!K)
  BY <1>5, <1>7
<1>9. Full(N)!K = 2 * m
  BY <1>6, <1>8
<1>. QED  BY <1>3, <1>9 DEF N, Full!IsAccepted

-----------------------------------------------------------------------------
(* Trees, between any of their hosts.                                      *)

\* The five trees with an even number of ports, and any pairs of their hosts.
IsFullTree(n, m) ==
  LET N == 2 * m * m * m
  IN  /\ Links[n] = Full(N)!FatTreeLinks
      /\ \A pair \in Ends[n] : \E s, d \in 0..N - 1 :
           s # d /\ pair = <<Host(s), Host(d)>> /\ PathSets[n][pair] = {Full(N)!FatTreePaths(s, d)}

IsOsTree(n, m, q) ==
  /\ Links[n] = Os(2 * m, q)!OsLinks
  /\ \A pair \in Ends[n] : \E s, d \in 0..2 * m * m * q - 1 :
       s # d /\ pair = <<Host(s), Host(d)>> /\ PathSets[n][pair] = {Os(2 * m, q)!OsPaths(s, d)}

IsAggTree(n, m, p) ==
  /\ Links[n] = Agg(2 * m, p)!AggLinks
  /\ \A pair \in Ends[n] : \E s, d \in 0..2 * m * m * m - 1 :
       s # d /\ pair = <<Host(s), Host(d)>> /\ PathSets[n][pair] = {Agg(2 * m, p)!AggPaths(s, d)}

IsThreeTree(n) ==
  /\ Links[n] = Three!Links3
  /\ \A pair \in Ends[n] : \E s, d \in 0..647 :
       s # d /\ pair = <<Host(s), Host(d)>> /\ PathSets[n][pair] = {Three!Paths3(s, d)}

IsOverTree(n, m) ==
  /\ Links[n] = Over(2 * m)!OvLinks
  /\ \A pair \in Ends[n] : \E s, d \in 0..2 * m * m * (4 * m) - 1 :
       s # d /\ pair = <<Host(s), Host(d)>> /\ PathSets[n][pair] = {Over(2 * m)!OvPaths(s, d)}

\* A tree of clos/datacenter with an even number of ports, of any size, between any of its hosts.
\* get_paths of a tree returns one set of routes for a pair.
IsTree(n) ==
  /\ n \notin Parallel
  /\ \/ \E m \in Nat \ {0} : IsFullTree(n, m)
     \/ \E m \in Nat \ {0} : \E q \in 1..2 * m - 1 : IsOsTree(n, m, q)
     \/ \E m \in Nat \ {0} : \E p \in Nat \ {0} : IsAggTree(n, m, p)
     \/ IsThreeTree(n)
     \/ \E m \in Nat \ {0} : IsOverTree(n, m)

\* The same of an abstract tree.
IsPodTreeNet(n, t) ==
  /\ IsPodTree(t) /\ Links[n] = TreeLinks(t)
  /\ \A pair \in Ends[n] : \E s, d \in TreeHosts(t) :
       /\ s # d /\ pair = <<Host(s), Host(d)>>
       /\ \/ PathSets[n][pair] = {TreePaths(t, s, d)}
          \/ PathSets[n][pair] = {{OneWayOf(r) : r \in TreePaths(t, s, d)}}

\* Each of the trees builds a tree of pods.
LEMMA TreesArePodTrees ==
  ASSUME NEW n, IsTree(n)
  PROVE  \E t : IsPodTreeNet(n, t)
<1>1. ASSUME NEW m \in Nat \ {0}, IsFullTree(n, m) PROVE \E t : IsPodTreeNet(n, t)
  <2>. DEFINE N == 2 * m * m * m
              t == Shape(m, m, m)
  <2>1. Full(N)!K = 2 * m
    BY FullSize
  <2>. HIDE DEF N
  <2>2. /\ IsPodTree(t) /\ Full(N)!FatTreeLinks = TreeLinks(t)
        /\ \A s, d \in TreeHosts(t) : Full(N)!FatTreePaths(s, d) = TreePaths(t, s, d)
    BY <2>1, FullTree
  <2>3. TreeHosts(t) = 0..N - 1
    BY DEF TreeHosts, Shape, N
  <2>4. /\ Links[n] = Full(N)!FatTreeLinks
        /\ \A pair \in Ends[n] : \E s, d \in 0..N - 1 :
             s # d /\ pair = <<Host(s), Host(d)>> /\ PathSets[n][pair] = {Full(N)!FatTreePaths(s, d)}
    BY <1>1 DEF IsFullTree, N
  <2>. HIDE DEF t
  <2>5. Links[n] = TreeLinks(t)
    BY <2>2, <2>3, <2>4
  <2>6. ASSUME NEW pair \in Ends[n]
        PROVE  \E s, d \in TreeHosts(t) : s # d /\ pair = <<Host(s), Host(d)>> /\ PathSets[n][pair] = {TreePaths(t, s, d)}
    <3>1. PICK s \in 0..N - 1, d \in 0..N - 1 :
            s # d /\ pair = <<Host(s), Host(d)>> /\ PathSets[n][pair] = {Full(N)!FatTreePaths(s, d)}
      BY <2>4
    <3>2. s \in TreeHosts(t) /\ d \in TreeHosts(t)
      BY <2>2, <2>3, <3>1
    <3>3. Full(N)!FatTreePaths(s, d) = TreePaths(t, s, d)
      BY <2>2, <3>2
    <3>4. PathSets[n][pair] = {TreePaths(t, s, d)}
      BY <3>1, <3>3
    <3>. QED  BY <3>1, <3>2, <3>4
  <2>7. IsPodTreeNet(n, t)
    BY <2>5, <2>6, <2>2 DEF IsPodTreeNet
  <2>. QED  BY <2>7
<1>2. ASSUME NEW m \in Nat \ {0}, NEW q \in 1..2 * m - 1, IsOsTree(n, m, q) PROVE \E t : IsPodTreeNet(n, t)
  <2>. DEFINE t == Shape(m, 2 * m - q, q)
  <2>1. /\ IsPodTree(t) /\ Os(2 * m, q)!OsLinks = TreeLinks(t)
        /\ \A s, d \in TreeHosts(t) : Os(2 * m, q)!OsPaths(s, d) = TreePaths(t, s, d)
    BY OsTree
  <2>2. TreeHosts(t) = 0..2 * m * m * q - 1
    BY DEF TreeHosts, Shape
  <2>. HIDE DEF t
  <2>3. Links[n] = TreeLinks(t)
    BY <1>2, <2>1, <2>2 DEF IsOsTree
  <2>4. ASSUME NEW pair \in Ends[n]
        PROVE  \E s, d \in TreeHosts(t) : s # d /\ pair = <<Host(s), Host(d)>> /\ PathSets[n][pair] = {TreePaths(t, s, d)}
    <3>1. PICK s \in 0..2 * m * m * q - 1, d \in 0..2 * m * m * q - 1 :
            s # d /\ pair = <<Host(s), Host(d)>> /\ PathSets[n][pair] = {Os(2 * m, q)!OsPaths(s, d)}
      BY <1>2 DEF IsOsTree
    <3>2. s \in TreeHosts(t) /\ d \in TreeHosts(t)
      BY <2>1, <2>2, <3>1
    <3>3. Os(2 * m, q)!OsPaths(s, d) = TreePaths(t, s, d)
      BY <2>1, <3>2
    <3>4. PathSets[n][pair] = {TreePaths(t, s, d)}
      BY <3>1, <3>3
    <3>. QED  BY <3>1, <3>2, <3>4
  <2>5. IsPodTreeNet(n, t)
    BY <2>1, <2>3, <2>4 DEF IsPodTreeNet
  <2>. QED  BY <2>5
<1>3. ASSUME NEW m \in Nat \ {0}, NEW p \in Nat \ {0}, IsAggTree(n, m, p) PROVE \E t : IsPodTreeNet(n, t)
  <2>. DEFINE t == Shape(m, p, m)
  <2>1. /\ IsPodTree(t) /\ Agg(2 * m, p)!AggLinks = TreeLinks(t)
        /\ \A s, d \in TreeHosts(t) : Agg(2 * m, p)!AggPaths(s, d) = TreePaths(t, s, d)
    BY AggTree
  <2>2. TreeHosts(t) = 0..2 * m * m * m - 1
    BY DEF TreeHosts, Shape
  <2>. HIDE DEF t
  <2>3. Links[n] = TreeLinks(t)
    BY <1>3, <2>1, <2>2 DEF IsAggTree
  <2>4. ASSUME NEW pair \in Ends[n]
        PROVE  \E s, d \in TreeHosts(t) : s # d /\ pair = <<Host(s), Host(d)>> /\ PathSets[n][pair] = {TreePaths(t, s, d)}
    <3>1. PICK s \in 0..2 * m * m * m - 1, d \in 0..2 * m * m * m - 1 :
            s # d /\ pair = <<Host(s), Host(d)>> /\ PathSets[n][pair] = {Agg(2 * m, p)!AggPaths(s, d)}
      BY <1>3 DEF IsAggTree
    <3>2. s \in TreeHosts(t) /\ d \in TreeHosts(t)
      BY <2>1, <2>2, <3>1
    <3>3. Agg(2 * m, p)!AggPaths(s, d) = TreePaths(t, s, d)
      BY <2>1, <3>2
    <3>4. PathSets[n][pair] = {TreePaths(t, s, d)}
      BY <3>1, <3>3
    <3>. QED  BY <3>1, <3>2, <3>4
  <2>5. IsPodTreeNet(n, t)
    BY <2>1, <2>3, <2>4 DEF IsPodTreeNet
  <2>. QED  BY <2>5
<1>4. ASSUME IsThreeTree(n) PROVE \E t : IsPodTreeNet(n, t)
  <2>. DEFINE t == Shape(6, 3, 9)
  <2>1. /\ IsPodTree(t) /\ Three!Links3 = TreeLinks(t)
        /\ \A s, d \in TreeHosts(t) : Three!Paths3(s, d) = TreePaths(t, s, d)
    BY ThreeTree
  <2>2. TreeHosts(t) = 0..647
    BY DEF TreeHosts, Shape
  <2>. HIDE DEF t
  <2>3. Links[n] = TreeLinks(t)
    BY <1>4, <2>1, <2>2 DEF IsThreeTree
  <2>4. ASSUME NEW pair \in Ends[n]
        PROVE  \E s, d \in TreeHosts(t) : s # d /\ pair = <<Host(s), Host(d)>> /\ PathSets[n][pair] = {TreePaths(t, s, d)}
    <3>1. PICK s \in 0..647, d \in 0..647 :
            s # d /\ pair = <<Host(s), Host(d)>> /\ PathSets[n][pair] = {Three!Paths3(s, d)}
      BY <1>4 DEF IsThreeTree
    <3>2. s \in TreeHosts(t) /\ d \in TreeHosts(t)
      BY <2>1, <2>2, <3>1
    <3>3. Three!Paths3(s, d) = TreePaths(t, s, d)
      BY <2>1, <3>2
    <3>4. PathSets[n][pair] = {TreePaths(t, s, d)}
      BY <3>1, <3>3
    <3>. QED  BY <3>1, <3>2, <3>4
  <2>5. IsPodTreeNet(n, t)
    BY <2>1, <2>3, <2>4 DEF IsPodTreeNet
  <2>. QED  BY <2>5
<1>5. ASSUME NEW m \in Nat \ {0}, IsOverTree(n, m) PROVE \E t : IsPodTreeNet(n, t)
  <2>. DEFINE t == Shape(m, m, 4 * m)
  <2>1. /\ IsPodTree(t) /\ Over(2 * m)!OvLinks = TreeLinks(t)
        /\ \A s, d \in TreeHosts(t) : Over(2 * m)!OvPaths(s, d) = {OneWayOf(r) : r \in TreePaths(t, s, d)}
    BY OverTree
  <2>2. TreeHosts(t) = 0..2 * m * m * (4 * m) - 1
    BY DEF TreeHosts, Shape
  <2>. HIDE DEF t
  <2>3. Links[n] = TreeLinks(t)
    BY <1>5, <2>1, <2>2 DEF IsOverTree
  <2>4. ASSUME NEW pair \in Ends[n]
        PROVE  \E s, d \in TreeHosts(t) : s # d /\ pair = <<Host(s), Host(d)>> /\ PathSets[n][pair] = {{OneWayOf(r) : r \in TreePaths(t, s, d)}}
    <3>1. PICK s \in 0..2 * m * m * (4 * m) - 1, d \in 0..2 * m * m * (4 * m) - 1 :
            s # d /\ pair = <<Host(s), Host(d)>> /\ PathSets[n][pair] = {Over(2 * m)!OvPaths(s, d)}
      BY <1>5 DEF IsOverTree
    <3>2. s \in TreeHosts(t) /\ d \in TreeHosts(t)
      BY <2>1, <2>2, <3>1
    <3>3. Over(2 * m)!OvPaths(s, d) = {OneWayOf(r) : r \in TreePaths(t, s, d)}
      BY <2>1, <3>2
    <3>4. PathSets[n][pair] = {{OneWayOf(r) : r \in TreePaths(t, s, d)}}
      BY <3>1, <3>3
    <3>. QED  BY <3>1, <3>2, <3>4
  <2>5. IsPodTreeNet(n, t)
    BY <2>1, <2>3, <2>4 DEF IsPodTreeNet
  <2>. QED  BY <2>5
<1>. QED  BY <1>1, <1>2, <1>3, <1>4, <1>5 DEF IsTree

\* A packet on such a tree.
OnTree(t) ==
  /\ net \notin Parallel
  /\ IsPodTree(t) /\ Links[net] = TreeLinks(t)
  /\ \E s, d \in TreeHosts(t) :
       /\ s # d /\ src = Host(s) /\ dst = Host(d)
       /\ \/ paths = TreePaths(t, s, d)
          \/ paths = {OneWayOf(r) : r \in TreePaths(t, s, d)}

\* A packet that starts on one of the trees is on such a tree.
LEMMA StartsOnTree ==
  ASSUME ForwardingInit, IsTree(net)
  PROVE  \E t : OnTree(t)
<1>1. PICK t : IsPodTreeNet(net, t)
  BY TreesArePodTrees
<1>2. PICK pair \in Ends[net] : src = pair[1] /\ dst = pair[2] /\ paths \in PathSets[net][pair]
  BY DEF ForwardingInit
<1>3. PICK s \in TreeHosts(t), d \in TreeHosts(t) :
        /\ s # d /\ pair = <<Host(s), Host(d)>>
        /\ \/ PathSets[net][pair] = {TreePaths(t, s, d)}
           \/ PathSets[net][pair] = {{OneWayOf(r) : r \in TreePaths(t, s, d)}}
  BY <1>1 DEF IsPodTreeNet
<1>4. src = Host(s) /\ dst = Host(d)
  BY <1>2, <1>3
<1>5. net \notin Parallel /\ IsPodTree(t) /\ Links[net] = TreeLinks(t)
  BY <1>1 DEF IsTree, IsPodTreeNet
<1>6. paths = TreePaths(t, s, d) \/ paths = {OneWayOf(r) : r \in TreePaths(t, s, d)}
  BY <1>2, <1>3
<1>. QED  BY <1>3, <1>4, <1>5, <1>6 DEF OnTree

\* The routes lead from one end to the other, whether or not they have a reverse.
LEMMA OnTreeRoutes ==
  ASSUME NEW t, OnTree(t)
  PROVE  /\ \A r \in paths : IsRoute(r, src, dst, net)
         /\ EveryShortestPath
<1>1. PICK s \in TreeHosts(t), d \in TreeHosts(t) :
        /\ s # d /\ src = Host(s) /\ dst = Host(d)
        /\ \/ paths = TreePaths(t, s, d)
           \/ paths = {OneWayOf(r) : r \in TreePaths(t, s, d)}
  BY DEF OnTree
<1>2. IsPodTree(t) /\ Links[net] = TreeLinks(t)
  BY DEF OnTree
<1>3. \A r \in TreePaths(t, s, d) : IsRoute(r, src, dst, net)
  BY <1>1, <1>2, TreeRoutes
<1>4. ASSUME NEW r \in TreePaths(t, s, d) PROVE IsRoute(OneWayOf(r), src, dst, net)
  <2>1. OneWayOf(r).out = r.out /\ OneWayOf(r).reversible = FALSE
    BY DEF OneWayOf
  <2>2. Walks(r.out, src, dst, net)
    BY <1>3 DEF IsRoute
  <2>. HIDE DEF OneWayOf
  <2>. QED  BY <2>1, <2>2 DEF IsRoute
<1>5. \A r \in paths : IsRoute(r, src, dst, net)
  BY <1>1, <1>3, <1>4
<1>6. EveryShortestPath
  BY <1>1, <1>2, TreeEveryPath
<1>. QED  BY <1>5, <1>6

-----------------------------------------------------------------------------
(* VL2.                                                                    *)

\* The networks that are no trees.
Vl(Cores, Uppers, Racks, PerRack) ==
  INSTANCE VL2 WITH NI <- Cores, NA <- Uppers, NT <- Racks, NS <- PerRack
Flat(Size, Pairs, Table) ==
  INSTANCE FlatNetworks WITH NoOfFlat <- Size, Conn <- Pairs, FlatRoutes <- Table

\* A route without reverse is one if it leads over links.
LEMMA OneWayRoute ==
  ASSUME NEW n, NEW S, NEW w \in Seq(S), Len(w) >= 2,
         \A i \in 1..Len(w) - 1 : <<w[i], w[i + 1]>> \in Links[n]
  PROVE  IsRoute(OneWay(Walk(w)), w[1], w[Len(w)], n)
<1>1. Walks(Walk(w), w[1], w[Len(w)], n)
  BY WalkLeads
<1>2. OneWay(Walk(w)).out = Walk(w) /\ OneWay(Walk(w)).reversible = FALSE
  BY DEF OneWay
<1>. QED  BY <1>1, <1>2 DEF IsRoute

\* The names of nodes, links and routes do not depend on the size.
LEMMA VlNames ==
  ASSUME NEW ni, NEW na, NEW nt, NEW ns
  PROVE  /\ \A i : /\ Vl(ni, na, nt, ns)!Host(i) = Host(i) /\ Vl(ni, na, nt, ns)!Lower(i) = Lower(i)
                   /\ Vl(ni, na, nt, ns)!Upper(i) = Upper(i) /\ Vl(ni, na, nt, ns)!Core(i) = Core(i)
         /\ \A a, b : Vl(ni, na, nt, ns)!Both(a, b) = Both(a, b)
         /\ \A nodes : Vl(ni, na, nt, ns)!OneWay(Vl(ni, na, nt, ns)!Walk(nodes)) = OneWay(Walk(nodes))
BY DEF Vl!Host, Host, Vl!Lower, Lower, Vl!Upper, Upper, Vl!Core, Core, Vl!Both, Both,
       Vl!OneWay, OneWay, Vl!Walk, Walk

\* The links of VL2, level by level.
LEMMA VlSteps ==
  ASSUME NEW ni \in Nat \ {0}, NEW na \in Nat \ {0}, NEW nt \in Nat \ {0}, NEW ns \in Nat \ {0}, nt <= 10 * na,
         NEW L, L = Vl(ni, na, nt, ns)!VL2Links
  PROVE  /\ \A h \in 0..nt * ns - 1 :
              LET tor == Vl(ni, na, nt, ns)!HOST_TOR(h)
              IN  tor \in 0..nt - 1 /\ <<Host(h), Lower(tor)>> \in L /\ <<Lower(tor), Host(h)>> \in L
         /\ \A tor \in 0..nt - 1 : \A k \in {Vl(ni, na, nt, ns)!TOR_AGG1(tor), Vl(ni, na, nt, ns)!TOR_AGG2(tor)} :
              k \in 0..na - 1 /\ <<Lower(tor), Upper(k)>> \in L /\ <<Upper(k), Lower(tor)>> \in L
         /\ \A c \in 0..ni - 1 : \A k \in 0..na - 1 : <<Upper(k), Core(c)>> \in L /\ <<Core(c), Upper(k)>> \in L
<1>. DEFINE agg1(tor) == Vl(ni, na, nt, ns)!TOR_AGG1(tor)
            agg2(tor) == Vl(ni, na, nt, ns)!TOR_AGG2(tor)
            below(j, k) == Vl(ni, na, nt, ns)!Both(Vl(ni, na, nt, ns)!Lower(j), Vl(ni, na, nt, ns)!Host(j * ns + k))
            above(j, k) == Vl(ni, na, nt, ns)!Both(Vl(ni, na, nt, ns)!Lower(j), Vl(ni, na, nt, ns)!Upper(k))
            top(j, k) == Vl(ni, na, nt, ns)!Both(Vl(ni, na, nt, ns)!Core(j), Vl(ni, na, nt, ns)!Upper(k))
            Below == UNION {below(j, k) : j \in 0..nt - 1, k \in 0..ns - 1}
            Above == UNION {above(j, agg1(j)) \cup above(j, agg2(j)) : j \in 0..nt - 1}
            Top == UNION {top(j, k) : j \in 0..ni - 1, k \in 0..na - 1}
<1>1. L = Below \cup Above \cup Top
  BY DEF Vl!VL2Links
<1>2. /\ \A j \in 0..nt - 1 : \A k \in 0..ns - 1 : {<<Lower(j), Host(j * ns + k)>>, <<Host(j * ns + k), Lower(j)>>} \subseteq L
      /\ \A j \in 0..nt - 1 : \A k \in {agg1(j), agg2(j)} : {<<Lower(j), Upper(k)>>, <<Upper(k), Lower(j)>>} \subseteq L
      /\ \A j \in 0..ni - 1 : \A k \in 0..na - 1 : {<<Core(j), Upper(k)>>, <<Upper(k), Core(j)>>} \subseteq L
  <2>1. /\ \A j, k : below(j, k) = {<<Lower(j), Host(j * ns + k)>>, <<Host(j * ns + k), Lower(j)>>}
        /\ \A j, k : above(j, k) = {<<Lower(j), Upper(k)>>, <<Upper(k), Lower(j)>>}
        /\ \A j, k : top(j, k) = {<<Core(j), Upper(k)>>, <<Upper(k), Core(j)>>}
    <3>1. \A a, b : Vl(ni, na, nt, ns)!Both(a, b) = {<<a, b>>, <<b, a>>}
      BY DEF Vl!Both
    <3>. QED  BY <3>1, VlNames
  <2>. HIDE DEF below, above, top, agg1, agg2
  <2>2. \A j \in 0..nt - 1 : \A k \in 0..ns - 1 : below(j, k) \subseteq L
    <3>1. \A j \in 0..nt - 1 : \A k \in 0..ns - 1 : \A x \in below(j, k) : x \in Below
      OBVIOUS
    <3>. QED  BY <3>1, <1>1
  <2>3. \A j \in 0..nt - 1 : \A k \in {agg1(j), agg2(j)} : above(j, k) \subseteq L
    <3>1. \A j \in 0..nt - 1 : above(j, agg1(j)) \cup above(j, agg2(j)) \subseteq Above
      BY Zenon
    <3>. QED  BY <3>1, <1>1
  <2>4. \A j \in 0..ni - 1 : \A k \in 0..na - 1 : top(j, k) \subseteq L
    <3>1. \A j \in 0..ni - 1 : \A k \in 0..na - 1 : \A x \in top(j, k) : x \in Top
      OBVIOUS
    <3>. QED  BY <3>1, <1>1
  <2>. QED  BY <2>1, <2>2, <2>3, <2>4
<1>. HIDE DEF below, above, top, Below, Above, Top
<1>3. ASSUME NEW h \in 0..nt * ns - 1
      PROVE  h \div ns \in 0..nt - 1 /\ \E k \in 0..ns - 1 : h = (h \div ns) * ns + k
  <2>1. nt * ns \in Nat
    OBVIOUS
  <2>2. h \in Nat
    BY <2>1
  <2>3. h % ns \in 0..ns - 1 /\ h = (h \div ns) * ns + (h % ns)
    BY <2>2, Quotient
  <2>4. h \div ns \in 0..nt - 1
    BY QuotientBelow
  <2>. QED  BY <2>3, <2>4
<1>4. ASSUME NEW tor \in 0..nt - 1 PROVE agg1(tor) \in 0..na - 1 /\ agg2(tor) \in 0..na - 1
  <2>1. agg1(tor) = tor % na /\ agg2(tor) = (10 * na - tor - 1) % na
    BY DEF Vl!TOR_AGG1, Vl!TOR_AGG2
  <2>2. tor \in Nat /\ 10 * na - tor - 1 \in Nat
    OBVIOUS
  <2>. HIDE DEF agg1, agg2
  <2>. QED  BY <2>1, <2>2, Quotient
<1>5. ASSUME NEW h \in 0..nt * ns - 1
      PROVE  LET tor == Vl(ni, na, nt, ns)!HOST_TOR(h)
             IN  tor \in 0..nt - 1 /\ <<Host(h), Lower(tor)>> \in L /\ <<Lower(tor), Host(h)>> \in L
  <2>. DEFINE tor == h \div ns
  <2>1. Vl(ni, na, nt, ns)!HOST_TOR(h) = tor
    BY DEF Vl!HOST_TOR
  <2>2. PICK k \in 0..ns - 1 : h = tor * ns + k
    BY <1>3
  <2>3. tor \in 0..nt - 1
    BY <1>3
  <2>. HIDE DEF tor
  <2>4. {<<Lower(tor), Host(h)>>, <<Host(h), Lower(tor)>>} \subseteq L
    BY <1>2, <2>2, <2>3
  <2>. QED  BY <2>1, <2>2, <2>3, <2>4
<1>6. ASSUME NEW tor \in 0..nt - 1, NEW k \in {agg1(tor), agg2(tor)}
      PROVE  k \in 0..na - 1 /\ <<Lower(tor), Upper(k)>> \in L /\ <<Upper(k), Lower(tor)>> \in L
  <2>1. {<<Lower(tor), Upper(k)>>, <<Upper(k), Lower(tor)>>} \subseteq L
    BY <1>2
  <2>. HIDE DEF agg1, agg2
  <2>. QED  BY <1>4, <2>1
<1>7. ASSUME NEW c \in 0..ni - 1, NEW k \in 0..na - 1
      PROVE  <<Upper(k), Core(c)>> \in L /\ <<Core(c), Upper(k)>> \in L
  BY <1>2
<1>. QED  BY <1>5, <1>6, <1>7

\* The routes of VL2, from either of two aggregation switches by any of the intermediate ones.
LEMMA VlRoutes ==
  ASSUME NEW ni \in Nat \ {0}, NEW na \in Nat \ {0}, NEW nt \in Nat \ {0}, NEW ns \in Nat \ {0}, nt <= 10 * na,
         NEW n, Links[n] = Vl(ni, na, nt, ns)!VL2Links,
         NEW s \in 0..nt * ns - 1, NEW d \in 0..nt * ns - 1, NEW r \in Vl(ni, na, nt, ns)!VL2Paths(s, d)
  PROVE  IsRoute(r, Host(s), Host(d), n)
<1>. DEFINE L == Links[n]
            a == Vl(ni, na, nt, ns)!HOST_TOR(s)
            b == Vl(ni, na, nt, ns)!HOST_TOR(d)
            uppers(tor) == {Vl(ni, na, nt, ns)!TOR_AGG1(tor), Vl(ni, na, nt, ns)!TOR_AGG2(tor)}
<1>1. /\ a \in 0..nt - 1 /\ b \in 0..nt - 1
      /\ <<Host(s), Lower(a)>> \in L /\ <<Lower(b), Host(d)>> \in L
  BY VlSteps
<1>2. /\ \A tor \in 0..nt - 1 : \A k \in uppers(tor) :
            k \in 0..na - 1 /\ <<Lower(tor), Upper(k)>> \in L /\ <<Upper(k), Lower(tor)>> \in L
      /\ \A c \in 0..ni - 1 : \A k \in 0..na - 1 : <<Upper(k), Core(c)>> \in L /\ <<Core(c), Upper(k)>> \in L
  BY VlSteps
<1>3. CASE a = b
  <2>. DEFINE w == <<Host(s), Lower(a), Host(d)>>
              S == {Host(s), Lower(a), Host(d)}
  <2>1. r = OneWay(Walk(w))
    <3>1. r = Vl(ni, na, nt, ns)!OneWay(Vl(ni, na, nt, ns)!Walk(
                <<Vl(ni, na, nt, ns)!Host(s), Vl(ni, na, nt, ns)!Lower(a), Vl(ni, na, nt, ns)!Host(d)>>))
      BY <1>3 DEF Vl!VL2Paths
    <3>. HIDE DEF a
    <3>. QED  BY <3>1, VlNames
  <2>2. w \in Seq(S) /\ Len(w) = 3 /\ w[1] = Host(s) /\ w[2] = Lower(a) /\ w[3] = Host(d)
    <3>. HIDE DEF a
    <3>. QED  OBVIOUS
  <2>. HIDE DEF a, w, S
  <2>3. \A i \in 1..Len(w) - 1 : <<w[i], w[i + 1]>> \in L
    <3>. TAKE i \in 1..Len(w) - 1
    <3>1. (i = 1 /\ i + 1 = 2) \/ (i = 2 /\ i + 1 = 3)
      BY <2>2
    <3>. QED  BY <1>1, <1>3, <2>2, <3>1
  <2>4. IsRoute(OneWay(Walk(w)), w[1], w[Len(w)], n)
    <3>1. w \in Seq(S) /\ Len(w) >= 2
      BY <2>2
    <3>. QED  BY <2>3, <3>1, OneWayRoute
  <2>. QED  BY <2>1, <2>2, <2>4
<1>4. CASE a # b
  <2>1. PICK i \in 0..4 * ni - 1 : r = Vl(ni, na, nt, ns)!VL2Route(s, d, i)
    BY <1>4 DEF Vl!VL2Paths
  <2>. DEFINE up == IF i < 2 * ni THEN Vl(ni, na, nt, ns)!TOR_AGG1(a) ELSE Vl(ni, na, nt, ns)!TOR_AGG2(a)
              down == IF i % 2 = 0 THEN Vl(ni, na, nt, ns)!TOR_AGG1(b) ELSE Vl(ni, na, nt, ns)!TOR_AGG2(b)
              c == i \div 4
              w == <<Host(s), Lower(a), Upper(up), Core(c), Upper(down), Lower(b), Host(d)>>
              S == {Host(s), Lower(a), Upper(up), Core(c), Upper(down), Lower(b), Host(d)}
  <2>2. r = OneWay(Walk(w))
    <3>1. r = Vl(ni, na, nt, ns)!OneWay(Vl(ni, na, nt, ns)!Walk(
                <<Vl(ni, na, nt, ns)!Host(s), Vl(ni, na, nt, ns)!Lower(a), Vl(ni, na, nt, ns)!Upper(up),
                  Vl(ni, na, nt, ns)!Core(c), Vl(ni, na, nt, ns)!Upper(down), Vl(ni, na, nt, ns)!Lower(b),
                  Vl(ni, na, nt, ns)!Host(d)>>))
      BY <2>1 DEF Vl!VL2Route, Vl!NT2A
    <3>. HIDE DEF a, b, up, down, c
    <3>. QED  BY <3>1, VlNames
  <2>3. up \in uppers(a) /\ down \in uppers(b)
    OBVIOUS
  <2>4. c \in 0..ni - 1
    OBVIOUS
  <2>. HIDE DEF a, b, up, down, c, uppers
  <2>5. /\ <<Lower(a), Upper(up)>> \in L /\ <<Upper(up), Core(c)>> \in L
        /\ <<Core(c), Upper(down)>> \in L /\ <<Upper(down), Lower(b)>> \in L
    <3>1. up \in 0..na - 1 /\ down \in 0..na - 1
      BY <1>1, <1>2, <2>3
    <3>. QED  BY <1>1, <1>2, <2>3, <2>4, <3>1
  <2>6. /\ w \in Seq(S) /\ Len(w) = 7 /\ w[1] = Host(s) /\ w[2] = Lower(a) /\ w[3] = Upper(up)
        /\ w[4] = Core(c) /\ w[5] = Upper(down) /\ w[6] = Lower(b) /\ w[7] = Host(d)
    OBVIOUS
  <2>. HIDE DEF w, S
  <2>7. \A k \in 1..Len(w) - 1 : <<w[k], w[k + 1]>> \in L
    <3>. TAKE k \in 1..Len(w) - 1
    <3>1. \/ (k = 1 /\ k + 1 = 2) \/ (k = 2 /\ k + 1 = 3) \/ (k = 3 /\ k + 1 = 4)
          \/ (k = 4 /\ k + 1 = 5) \/ (k = 5 /\ k + 1 = 6) \/ (k = 6 /\ k + 1 = 7)
      BY <2>6
    <3>. QED  BY <1>1, <2>5, <2>6, <3>1
  <2>8. IsRoute(OneWay(Walk(w)), w[1], w[Len(w)], n)
    <3>1. w \in Seq(S) /\ Len(w) >= 2
      BY <2>6
    <3>. QED  BY <2>7, <3>1, OneWayRoute
  <2>. QED  BY <2>2, <2>6, <2>8
<1>. QED  BY <1>3, <1>4

-----------------------------------------------------------------------------
(* Networks in which hosts are one or two links apart.                     *)

Mesh(Size) == INSTANCE FlatNetworks WITH NoOfFlat <- Size, Conn <- {}, FlatRoutes <- <<>>

\* A single route is every shortest walk if it is the only walk of its length and no
\* shorter one leads to dst.
LEMMA OnlyWalk ==
  ASSUME NEW hops \in Nat \ {0}, src \notin Within(hops)[hops - 1],
         NEW S, NEW v \in Seq(S), Len(v) = hops + 1, v[1] = src, v[hops + 1] = dst,
         \A w : IsWalk(w, hops) => w = v,
         NEW r, r.out = Walk(v), IsRoute(r, src, dst, net), paths = {r}
  PROVE  EveryShortestPath
<1>1. IsWalk(v, hops) /\ Nodes(r) = v /\ Len(r.out) = hops
  <2>1. Walks(r.out, src, dst, net)
    BY DEF IsRoute
  <2>. QED  BY <2>1, RouteIsWalk
<1>2. \A w : w \in ShortestWalks(hops) <=> w = v
  BY <1>1, ShortestWalksAre
<1>3. {Nodes(x) : x \in paths} = {v}
  BY <1>1
<1>4. (CHOOSE x \in paths : TRUE) = r
  OBVIOUS
<1>. QED  BY <1>1, <1>2, <1>3, <1>4 DEF EveryShortestPath

\* Neighbours.
LEMMA OneHop ==
  ASSUME src # dst, NEW r, r.out = Walk(<<src, dst>>), IsRoute(r, src, dst, net), paths = {r}
  PROVE  EveryShortestPath
<1>. DEFINE v == <<src, dst>>
            S == {src, dst}
<1>1. v \in Seq(S) /\ Len(v) = 1 + 1 /\ v[1] = src /\ v[1 + 1] = dst
  OBVIOUS
<1>2. 1 \in Nat \ {0} /\ src \notin Within(1)[1 - 1]
  <2>1. 1 - 1 = 0 /\ 1 \in Nat
    OBVIOUS
  <2>2. Within(1)[0] = {dst}
    BY <2>1, WithinIs
  <2>. QED  BY <2>1, <2>2
<1>3. ASSUME NEW w, IsWalk(w, 1) PROVE w = v
  <2>1. w \in Seq(WalkNodes) /\ Len(w) = 2 /\ w[1] = src /\ w[2] = dst
    BY <1>3 DEF IsWalk
  <2>2. v \in Seq(S) /\ Len(v) = 2 /\ \A i \in 1..2 : v[i] = w[i]
    BY <2>1
  <2>3. S \subseteq WalkNodes
    <3>1. \A i \in 1..Len(w) : w[i] \in WalkNodes
      BY <2>1, EntryOf
    <3>. QED  BY <2>1, <3>1
  <2>4. v \in Seq(WalkNodes)
    BY <2>2, <2>3
  <2>. HIDE DEF v
  <2>. QED  BY <2>1, <2>2, <2>4, SeqEqual
<1>. HIDE DEF v, S
<1>4. r.out = Walk(v)
  BY DEF v
<1>. QED  BY <1>1, <1>2, <1>3, <1>4, OnlyWalk

\* All links of src lead to one switch.
LEMMA TwoHops ==
  ASSUME NEW hub, src # dst, hub # dst, \A l \in Links[net] : l[1] = src => l[2] = hub,
         NEW r, r.out = Walk(<<src, hub, dst>>), IsRoute(r, src, dst, net), paths = {r}
  PROVE  EveryShortestPath
<1>. DEFINE v == <<src, hub, dst>>
            S == {src, hub, dst}
<1>1. v \in Seq(S) /\ Len(v) = 2 + 1 /\ v[1] = src /\ v[2] = hub /\ v[2 + 1] = dst
  OBVIOUS
<1>2. 2 \in Nat \ {0} /\ src \notin Within(2)[2 - 1]
  <2>1. 2 - 1 = 1 /\ 1 - 1 = 0 /\ 2 \in Nat /\ 1 \in 1..2
    OBVIOUS
  <2>2. Within(2)[0] = {dst} /\ Within(2)[1] = Closer(Within(2)[0])
    BY <2>1, WithinIs
  <2>3. src \notin Closer({dst})
    BY DEF Closer
  <2>. QED  BY <2>1, <2>2, <2>3
<1>3. ASSUME NEW w, IsWalk(w, 2) PROVE w = v
  <2>1. w \in Seq(WalkNodes) /\ Len(w) = 3 /\ w[1] = src /\ w[3] = dst /\ w[2] = hub
    <3>1. /\ w \in Seq(WalkNodes) /\ Len(w) = 2 + 1 /\ w[1] = src /\ w[2 + 1] = dst
          /\ \A k \in 1..2 : \E l \in Links[net] : l[1] = w[k] /\ l[2] = w[k + 1]
      BY <1>3 DEF IsWalk
    <3>2. 1 \in 1..2 /\ 1 + 1 = 2 /\ 2 + 1 = 3
      OBVIOUS
    <3>. QED  BY <3>1, <3>2
  <2>2. v \in Seq(S) /\ Len(v) = 3 /\ \A i \in 1..3 : v[i] = w[i]
    BY <2>1
  <2>3. S \subseteq WalkNodes
    <3>1. \A i \in 1..Len(w) : w[i] \in WalkNodes
      BY <2>1, EntryOf
    <3>2. 1 \in 1..Len(w) /\ 2 \in 1..Len(w) /\ 3 \in 1..Len(w)
      BY <2>1
    <3>. QED  BY <2>1, <3>1, <3>2
  <2>4. v \in Seq(WalkNodes)
    BY <2>2, <2>3
  <2>. HIDE DEF v
  <2>. QED  BY <2>1, <2>2, <2>4, SeqEqual
<1>. HIDE DEF v, S
<1>4. r.out = Walk(v)
  BY DEF v
<1>. QED  BY <1>1, <1>2, <1>3, <1>4, OnlyWalk

Machine(i) == <<"node", i>>

\* The names of nodes, links and routes do not depend on the size.
LEMMA MeshNames ==
  ASSUME NEW k
  PROVE  /\ \A i : /\ Mesh(k)!Node(i) = Machine(i) /\ Mesh(k)!Host(i) = Host(i)
                   /\ Mesh(k)!Lower(i) = Lower(i) /\ Mesh(k)!Core(i) = Core(i)
         /\ \A a, b : Mesh(k)!Both(a, b) = Both(a, b)
         /\ \A w : Mesh(k)!Walk(w) = Walk(w)
         /\ \A out, back : Mesh(k)!Reversible(out, back) = Reversible(out, back)
         /\ \A out : Mesh(k)!OneWay(out) = OneWay(out)
BY DEF Mesh!Node, Machine, Mesh!Host, Host, Mesh!Lower, Lower, Mesh!Core, Core, Mesh!Both, Both,
       Mesh!Walk, Walk, Mesh!Reversible, Reversible, Mesh!OneWay, OneWay

\* The full mesh: neighbours of each other.
LEMMA MeshRoutes ==
  ASSUME NEW k \in Nat, Links[net] = Mesh(k)!FCLinks, NEW s \in 0..k - 1, NEW d \in 0..k - 1, s # d,
         src = Machine(s), dst = Machine(d), paths = Mesh(k)!FCPaths(s, d)
  PROVE  (\A r \in paths : IsRoute(r, src, dst, net)) /\ EveryShortestPath
<1>. DEFINE w == <<src, dst>>
            v == <<dst, src>>
            S == {src, dst}
            r == Reversible(Walk(w), Walk(v))
<1>1. paths = {r}
  BY MeshNames DEF Mesh!FCPaths
<1>2. src # dst
  BY DEF Machine
<1>3. <<src, dst>> \in Links[net] /\ <<dst, src>> \in Links[net]
  <2>. DEFINE ids == 0..k - 1
              all == {Mesh(k)!Both(Mesh(k)!Node(a), Mesh(k)!Node(b)) : a, b \in ids}
              loops == {<<Mesh(k)!Node(a), Mesh(k)!Node(a)>> : a \in ids}
  <2>1. Links[net] = (UNION all) \ loops
    BY DEF Mesh!FCLinks, Mesh!Ids
  <2>2. {<<src, dst>>, <<dst, src>>} \in all
    <3>1. Mesh(k)!Both(Mesh(k)!Node(s), Mesh(k)!Node(d)) \in all
      OBVIOUS
    <3>2. Mesh(k)!Both(Mesh(k)!Node(s), Mesh(k)!Node(d)) = {<<src, dst>>, <<dst, src>>}
      BY MeshNames DEF Both
    <3>. HIDE DEF all
    <3>. QED  BY <3>1, <3>2
  <2>3. <<src, dst>> \notin loops /\ <<dst, src>> \notin loops
    BY <1>2
  <2>. HIDE DEF all, loops
  <2>. QED  BY <2>1, <2>2, <2>3
<1>4. /\ w \in Seq(S) /\ Len(w) = 2 /\ w[1] = src /\ w[2] = dst
      /\ v \in Seq(S) /\ Len(v) = 2 /\ v[1] = dst /\ v[2] = src
  OBVIOUS
<1>5. r.out = Walk(<<src, dst>>)
  BY DEF Reversible
<1>6. IsRoute(r, src, dst, net)
  <2>. HIDE DEF w, v, S
  <2>1. \A i \in 1..Len(w) : v[i] = w[Len(w) + 1 - i]
    <3>. TAKE i \in 1..Len(w)
    <3>1. (i = 1 /\ Len(w) + 1 - i = 2) \/ (i = 2 /\ Len(w) + 1 - i = 1)
      BY <1>4
    <3>. QED  BY <1>4, <3>1
  <2>2. \A i \in 1..Len(w) - 1 : <<w[i], w[i + 1]>> \in Links[net] /\ <<w[i + 1], w[i]>> \in Links[net]
    <3>. TAKE i \in 1..Len(w) - 1
    <3>1. i = 1 /\ i + 1 = 2
      BY <1>4
    <3>. QED  BY <1>3, <1>4, <3>1
  <2>3. IsRoute(r, w[1], w[Len(w)], net)
    <3>1. w \in Seq(S) /\ v \in Seq(S) /\ Len(w) = Len(v) /\ Len(w) >= 2
      BY <1>4
    <3>. QED  BY <2>1, <2>2, <3>1, ReversibleRoute
  <2>. HIDE DEF r
  <2>. QED  BY <1>4, <2>3
<1>. HIDE DEF r
<1>7. EveryShortestPath
  BY <1>1, <1>2, <1>5, <1>6, OneHop
<1>. QED  BY <1>1, <1>6, <1>7

-----------------------------------------------------------------------------
(* Single switches, and networks read from files.                          *)

\* A single switch whose queues return packets.
LEMMA SwitchRoutes ==
  ASSUME NEW k \in Nat, Links[net] = Mesh(k)!TestLinks, NEW s \in 0..k - 1, NEW d \in 0..k - 1, s # d,
         src = Host(s), dst = Host(d), paths = Mesh(k)!TestPaths(s, d)
  PROVE  (\A r \in paths : IsRoute(r, src, dst, net)) /\ EveryShortestPath
<1>. DEFINE hub == Lower(0)
            w == <<src, hub, dst>>
            v == <<dst, hub, src>>
            S == {src, hub, dst}
            r == Reversible(Walk(w), Walk(v))
<1>1. paths = {r}
  <2>1. paths = {Mesh(k)!Reversible(
                   Mesh(k)!Walk(<<Mesh(k)!Host(s), Mesh(k)!Lower(0), Mesh(k)!Host(d)>>),
                   Mesh(k)!Walk(<<Mesh(k)!Host(d), Mesh(k)!Lower(0), Mesh(k)!Host(s)>>))}
    BY DEF Mesh!TestPaths, Mesh!ViaRack
  <2>. QED  BY <2>1, MeshNames
<1>2. src # dst /\ hub # dst /\ hub # src
  BY DEF Host, Lower
<1>3. \A h \in 0..k - 1 : <<hub, Host(h)>> \in Links[net] /\ <<Host(h), hub>> \in Links[net]
  <2>. TAKE h \in 0..k - 1
  <2>1. Mesh(k)!Both(Mesh(k)!Lower(0), Mesh(k)!Host(h)) \subseteq Links[net]
    BY DEF Mesh!TestLinks, Mesh!Ids
  <2>2. Mesh(k)!Both(Mesh(k)!Lower(0), Mesh(k)!Host(h)) = {<<hub, Host(h)>>, <<Host(h), hub>>}
    BY MeshNames DEF Both
  <2>. HIDE DEF hub
  <2>. QED  BY <2>1, <2>2
<1>4. ASSUME NEW l \in Links[net], l[1] = src PROVE l[2] = hub
  <2>1. PICK h \in 0..k - 1 : l \in Mesh(k)!Both(Mesh(k)!Lower(0), Mesh(k)!Host(h))
    BY DEF Mesh!TestLinks, Mesh!Ids
  <2>2. l = <<hub, Host(h)>> \/ l = <<Host(h), hub>>
    BY <2>1, MeshNames DEF Both
  <2>. HIDE DEF hub
  <2>. QED  BY <1>2, <1>4, <2>2
<1>5. /\ w \in Seq(S) /\ Len(w) = 3 /\ w[1] = src /\ w[2] = hub /\ w[3] = dst
      /\ v \in Seq(S) /\ Len(v) = 3 /\ v[1] = dst /\ v[2] = hub /\ v[3] = src
  <2>. HIDE DEF hub
  <2>. QED  OBVIOUS
<1>6. r.out = Walk(<<src, hub, dst>>)
  BY DEF Reversible
<1>7. IsRoute(r, src, dst, net)
  <2>. HIDE DEF w, v, S, hub
  <2>1. \A i \in 1..Len(w) : v[i] = w[Len(w) + 1 - i]
    <3>. TAKE i \in 1..Len(w)
    <3>1. (i = 1 /\ Len(w) + 1 - i = 3) \/ (i = 2 /\ Len(w) + 1 - i = 2) \/ (i = 3 /\ Len(w) + 1 - i = 1)
      BY <1>5
    <3>. QED  BY <1>5, <3>1
  <2>2. \A i \in 1..Len(w) - 1 : <<w[i], w[i + 1]>> \in Links[net] /\ <<w[i + 1], w[i]>> \in Links[net]
    <3>. TAKE i \in 1..Len(w) - 1
    <3>1. (i = 1 /\ i + 1 = 2) \/ (i = 2 /\ i + 1 = 3)
      BY <1>5
    <3>. QED  BY <1>3, <1>5, <3>1
  <2>3. IsRoute(r, w[1], w[Len(w)], net)
    <3>1. w \in Seq(S) /\ v \in Seq(S) /\ Len(w) = Len(v) /\ Len(w) >= 2
      BY <1>5
    <3>. QED  BY <2>1, <2>2, <3>1, ReversibleRoute
  <2>. HIDE DEF r
  <2>. QED  BY <1>5, <2>3
<1>. HIDE DEF r, w, v, S, hub
<1>8. EveryShortestPath
  BY <1>1, <1>2, <1>4, <1>6, <1>7, TwoHops
<1>. QED  BY <1>1, <1>7, <1>8

\* The star: routes without reverse.
LEMMA StarRoutes ==
  ASSUME NEW k \in Nat, Links[net] = Mesh(k)!StarLinks, NEW s \in 0..k - 1, NEW d \in 0..k - 1, s # d,
         src = Host(s), dst = Host(d), paths = Mesh(k)!StarPaths(s, d)
  PROVE  (\A r \in paths : IsRoute(r, src, dst, net)) /\ EveryShortestPath
<1>. DEFINE hub == Core(0)
            w == <<src, hub, dst>>
            S == {src, hub, dst}
            r == OneWay(Walk(w))
<1>1. paths = {r}
  <2>1. paths = {Mesh(k)!OneWay(Mesh(k)!Walk(<<Mesh(k)!Host(s), Mesh(k)!Core(0), Mesh(k)!Host(d)>>))}
    BY DEF Mesh!StarPaths
  <2>. QED  BY <2>1, MeshNames
<1>2. src # dst /\ hub # dst /\ hub # src
  BY DEF Host, Core
<1>. DEFINE up == {<<Mesh(k)!Host(j), Mesh(k)!Core(0)>> : j \in 0..k - 1}
            down == {<<Mesh(k)!Core(0), Mesh(k)!Host(j)>> : j \in 0..k - 1}
<1>3. Links[net] = up \cup down
  BY DEF Mesh!StarLinks, Mesh!Ids
<1>4. up = {<<Host(j), hub>> : j \in 0..k - 1} /\ down = {<<hub, Host(j)>> : j \in 0..k - 1}
  BY MeshNames
<1>. HIDE DEF up, down, hub
<1>5. <<src, hub>> \in Links[net] /\ <<hub, dst>> \in Links[net]
  BY <1>3, <1>4
<1>6. ASSUME NEW l \in Links[net], l[1] = src PROVE l[2] = hub
  BY <1>2, <1>3, <1>4, <1>6
<1>7. w \in Seq(S) /\ Len(w) = 3 /\ w[1] = src /\ w[2] = hub /\ w[3] = dst
  OBVIOUS
<1>8. r.out = Walk(<<src, hub, dst>>)
  BY DEF OneWay
<1>9. IsRoute(r, src, dst, net)
  <2>. HIDE DEF w, S
  <2>1. \A i \in 1..Len(w) - 1 : <<w[i], w[i + 1]>> \in Links[net]
    <3>. TAKE i \in 1..Len(w) - 1
    <3>1. (i = 1 /\ i + 1 = 2) \/ (i = 2 /\ i + 1 = 3)
      BY <1>7
    <3>. QED  BY <1>5, <1>7, <3>1
  <2>2. IsRoute(r, w[1], w[Len(w)], net)
    <3>1. w \in Seq(S) /\ Len(w) >= 2
      BY <1>7
    <3>. QED  BY <2>1, <3>1, OneWayRoute
  <2>. HIDE DEF r
  <2>. QED  BY <1>7, <2>2
<1>. HIDE DEF r, w, S
<1>10. EveryShortestPath
  BY <1>1, <1>2, <1>6, <1>8, <1>9, TwoHops
<1>. QED  BY <1>1, <1>9, <1>10

\* The names of nodes, links and routes do not depend on the file.
LEMMA FlatNames ==
  ASSUME NEW k, NEW pairs, NEW table
  PROVE  /\ \A i : Flat(k, pairs, table)!Node(i) = Machine(i)
         /\ \A a, b : Flat(k, pairs, table)!Both(a, b) = Both(a, b)
         /\ \A out, back : Flat(k, pairs, table)!Reversible(out, back) = Reversible(out, back)
BY DEF Flat!Node, Machine, Flat!Both, Both, Flat!Reversible, Reversible

\* A flat network whose file has routes over its connections.
LEMMA FlatRoute ==
  ASSUME NEW k, NEW pairs, NEW table, NEW n, Links[n] = Flat(k, pairs, table)!FlatLinks, n \notin Bouncing,
         NEW s, NEW d, NEW ids, NEW route \in Seq(ids), Len(route) >= 2, route[1] = s, route[Len(route)] = d,
         \A i \in 1..Len(route) - 1 :
           <<route[i], route[i + 1]>> \in pairs \/ <<route[i + 1], route[i]>> \in pairs,
         NEW back
  PROVE  IsRoute(Reversible([i \in 1..Len(route) - 1 |-> <<Machine(route[i]), Machine(route[i + 1])>>], back),
                 Machine(s), Machine(d), n)
<1>. DEFINE m == Len(route) - 1
            link(i) == <<Machine(route[i]), Machine(route[i + 1])>>
            out == [i \in 1..m |-> link(i)]
<1>1. m \in Nat \ {0} /\ m + 1 = Len(route)
  OBVIOUS
<1>2. Len(out) = m
  <2>. HIDE DEF m, link
  <2>. QED  BY <1>1
<1>3. \A i \in 1..m : link(i) \in Links[n]
  <2>. TAKE i \in 1..m
  <2>1. \A a, b : <<a, b>> \in pairs =>
          <<Machine(a), Machine(b)>> \in Links[n] /\ <<Machine(b), Machine(a)>> \in Links[n]
    <3>. SUFFICES ASSUME NEW a, NEW b, <<a, b>> \in pairs
                  PROVE  <<Machine(a), Machine(b)>> \in Links[n] /\ <<Machine(b), Machine(a)>> \in Links[n]
      OBVIOUS
    <3>1. Flat(k, pairs, table)!Both(Flat(k, pairs, table)!Node(<<a, b>>[1]), Flat(k, pairs, table)!Node(<<a, b>>[2]))
            \subseteq Links[n]
      BY DEF Flat!FlatLinks
    <3>2. Flat(k, pairs, table)!Both(Flat(k, pairs, table)!Node(<<a, b>>[1]), Flat(k, pairs, table)!Node(<<a, b>>[2]))
            = {<<Machine(a), Machine(b)>>, <<Machine(b), Machine(a)>>}
      BY FlatNames DEF Both
    <3>. QED  BY <3>1, <3>2
  <2>2. <<route[i], route[i + 1]>> \in pairs \/ <<route[i + 1], route[i]>> \in pairs
    OBVIOUS
  <2>. HIDE DEF m
  <2>. QED  BY <2>1, <2>2
<1>4. /\ out[1][1] = Machine(s) /\ out[m][2] = Machine(d)
      /\ \A i \in 1..m : out[i][1] = Machine(route[i]) /\ out[i][2] = Machine(route[i + 1])
      /\ \A i \in 1..m : <<out[i][1], out[i][2]>> \in Links[n]
  <2>1. \A i \in 1..m : out[i] = link(i) /\ link(i)[1] = Machine(route[i]) /\ link(i)[2] = Machine(route[i + 1])
    OBVIOUS
  <2>2. \A i \in 1..m : link(i) = <<link(i)[1], link(i)[2]>>
    OBVIOUS
  <2>3. route[1] = s /\ route[m + 1] = d /\ 1 \in 1..m /\ m \in 1..m
    BY <1>1
  <2>. HIDE DEF m, link, out
  <2>. QED  BY <1>3, <2>1, <2>2, <2>3
<1>5. \A i \in 1..m - 1 : out[i][2] = out[i + 1][1]
  <2>. HIDE DEF m, out
  <2>. TAKE i \in 1..m - 1
  <2>1. i \in 1..m /\ i + 1 \in 1..m
    BY <1>1
  <2>. QED  BY <1>4, <2>1
<1>. HIDE DEF m, link
<1>6. Walks(out, Machine(s), Machine(d), n)
  <2>. HIDE DEF out
  <2>. QED  BY <1>1, <1>2, <1>4, <1>5 DEF Walks
<1>. HIDE DEF out
<1>7. IsRoute(Reversible(out, back), Machine(s), Machine(d), n)
  <2>1. Reversible(out, back).out = out
    BY DEF Reversible
  <2>. QED  BY <1>6, <2>1 DEF IsRoute
<1>. QED  BY <1>7 DEF out, m, link

-----------------------------------------------------------------------------
(* Packets on any of these topologies.                                     *)

IsVl2(n, ni, na, nt, ns) ==
  /\ Links[n] = Vl(ni, na, nt, ns)!VL2Links
  /\ \A pair \in Ends[n] : \E s, d \in 0..nt * ns - 1 :
       pair = <<Host(s), Host(d)>> /\ PathSets[n][pair] = {Vl(ni, na, nt, ns)!VL2Paths(s, d)}

IsMesh(n, k) ==
  /\ Links[n] = Mesh(k)!FCLinks
  /\ \A pair \in Ends[n] : \E s, d \in 0..k - 1 :
       s # d /\ pair = <<Machine(s), Machine(d)>> /\ PathSets[n][pair] = {Mesh(k)!FCPaths(s, d)}

IsSwitch(n, k) ==
  /\ Links[n] = Mesh(k)!TestLinks
  /\ \A pair \in Ends[n] : \E s, d \in 0..k - 1 :
       s # d /\ pair = <<Host(s), Host(d)>> /\ PathSets[n][pair] = {Mesh(k)!TestPaths(s, d)}

IsStar(n, k) ==
  /\ Links[n] = Mesh(k)!StarLinks
  /\ \A pair \in Ends[n] : \E s, d \in 0..k - 1 :
       s # d /\ pair = <<Host(s), Host(d)>> /\ PathSets[n][pair] = {Mesh(k)!StarPaths(s, d)}

\* A route of a flat network's file leads over the connections of the file.
IsFileRoute(route, s, d, k, pairs) ==
  /\ route \in Seq(0..k - 1) /\ Len(route) >= 2 /\ route[1] = s /\ route[Len(route)] = d
  /\ \A i \in 1..Len(route) - 1 :
       <<route[i], route[i + 1]>> \in pairs \/ <<route[i + 1], route[i]>> \in pairs

IsFlat(n, k, pairs, table) ==
  /\ Links[n] = Flat(k, pairs, table)!FlatLinks
  /\ \A pair \in Ends[n] : \E s, d \in 0..k - 1 :
       /\ pair = <<Machine(s), Machine(d)>> /\ PathSets[n][pair] = {Flat(k, pairs, table)!FlatPaths(s, d)}
       /\ \A route \in table[<<s, d>>] : IsFileRoute(route, s, d, k, pairs)

\* The topologies of clos/datacenter, of any size, but BCube and CamCube.  VL2 and flat networks
\* do not return every shortest path, and no queue of a flat network returns packets: its
\* reverse routes are too short.  Where VL2 has more than ten times as many racks as
\* aggregation switches, C's % makes the number of one negative.
IsTopology(n) ==
  \/ IsTree(n)
  \/ /\ n \notin Parallel
     /\ \/ n \notin Ecmp /\ \E ni, na, nt, ns \in Nat \ {0} : nt <= 10 * na /\ IsVl2(n, ni, na, nt, ns)
        \/ n \notin Ecmp \cup Bouncing /\ \E k \in Nat : \E pairs, table : IsFlat(n, k, pairs, table)
        \/ \E k \in Nat : IsMesh(n, k) \/ IsSwitch(n, k) \/ IsStar(n, k)

\* What PathsAreAsPromised says at the start, which nothing a packet meets can change.
RoutesAreFine ==
  /\ \A r \in paths : IsRoute(r, src, dst, net)
  /\ net \in Ecmp => EveryShortestPath
  /\ net \in Parallel => DisjointPaths

\* The routes of a packet that starts are as promised.
LEMMA StartsFine ==
  ASSUME ForwardingInit, IsTopology(net)
  PROVE  RoutesAreFine
<1>1. PICK pair \in Ends[net] : src = pair[1] /\ dst = pair[2] /\ paths \in PathSets[net][pair]
  BY DEF ForwardingInit
<1>2. CASE IsTree(net)
  <2>1. PICK t : OnTree(t)
    BY <1>2, StartsOnTree
  <2>. QED  BY <2>1, OnTreeRoutes DEF OnTree, RoutesAreFine
<1>3. ASSUME net \notin Parallel, net \notin Ecmp,
             NEW ni \in Nat \ {0}, NEW na \in Nat \ {0}, NEW nt \in Nat \ {0}, NEW ns \in Nat \ {0},
             nt <= 10 * na, IsVl2(net, ni, na, nt, ns)
      PROVE  RoutesAreFine
  <2>1. PICK s \in 0..nt * ns - 1, d \in 0..nt * ns - 1 :
          pair = <<Host(s), Host(d)>> /\ PathSets[net][pair] = {Vl(ni, na, nt, ns)!VL2Paths(s, d)}
    BY <1>3 DEF IsVl2
  <2>2. src = Host(s) /\ dst = Host(d) /\ paths = Vl(ni, na, nt, ns)!VL2Paths(s, d)
    BY <1>1, <2>1
  <2>3. Links[net] = Vl(ni, na, nt, ns)!VL2Links
    BY <1>3 DEF IsVl2
  <2>4. \A r \in paths : IsRoute(r, src, dst, net)
    BY <1>3, <2>2, <2>3, VlRoutes
  <2>. QED  BY <1>3, <2>4 DEF RoutesAreFine
<1>4. ASSUME net \notin Parallel, net \notin Ecmp \cup Bouncing, NEW k \in Nat, NEW pairs, NEW table,
             IsFlat(net, k, pairs, table)
      PROVE  RoutesAreFine
  <2>1. PICK s \in 0..k - 1, d \in 0..k - 1 :
          /\ pair = <<Machine(s), Machine(d)>> /\ PathSets[net][pair] = {Flat(k, pairs, table)!FlatPaths(s, d)}
          /\ \A route \in table[<<s, d>>] : IsFileRoute(route, s, d, k, pairs)
    BY <1>4 DEF IsFlat
  <2>2. src = Machine(s) /\ dst = Machine(d) /\ paths = Flat(k, pairs, table)!FlatPaths(s, d)
    BY <1>1, <2>1
  <2>3. Links[net] = Flat(k, pairs, table)!FlatLinks
    BY <1>4 DEF IsFlat
  <2>4. ASSUME NEW r \in paths PROVE IsRoute(r, src, dst, net)
    <3>. DEFINE F(x) == Flat(k, pairs, table)!Node(x)
                forth(route) == [i \in 1..Len(route) - 1 |-> <<F(route[i]), F(route[i + 1])>>]
                back(route) == [i \in 1..Len(route) - 2 |-> <<F(route[Len(route) - i + 1]), F(route[Len(route) - i])>>]
    <3>0. PICK route \in table[<<s, d>>] : r = Flat(k, pairs, table)!Reversible(forth(route), back(route))
      BY <2>2 DEF Flat!FlatPaths
    <3>1. r = Reversible([i \in 1..Len(route) - 1 |-> <<Machine(route[i]), Machine(route[i + 1])>>], back(route))
      <4>1. forth(route) = [i \in 1..Len(route) - 1 |-> <<Machine(route[i]), Machine(route[i + 1])>>]
        <5>1. \A x : F(x) = Machine(x)
          BY FlatNames
        <5>. HIDE DEF F
        <5>. QED  BY <5>1
      <4>2. r = Reversible(forth(route), back(route))
        <5>. HIDE DEF forth, back
        <5>. QED  BY <3>0, FlatNames
      <4>. HIDE DEF forth, back
      <4>. QED  BY <4>1, <4>2
    <3>2. /\ route \in Seq(0..k - 1) /\ Len(route) >= 2 /\ route[1] = s /\ route[Len(route)] = d
          /\ \A i \in 1..Len(route) - 1 :
               <<route[i], route[i + 1]>> \in pairs \/ <<route[i + 1], route[i]>> \in pairs
      BY <2>1 DEF IsFileRoute
    <3>3. IsRoute(r, Machine(s), Machine(d), net)
      BY <1>4, <2>3, <3>1, <3>2, FlatRoute
    <3>. QED  BY <2>2, <3>3
  <2>. QED  BY <1>4, <2>4 DEF RoutesAreFine
<1>5. ASSUME net \notin Parallel, NEW k \in Nat, IsMesh(net, k) PROVE RoutesAreFine
  <2>1. PICK s \in 0..k - 1, d \in 0..k - 1 :
          s # d /\ pair = <<Machine(s), Machine(d)>> /\ PathSets[net][pair] = {Mesh(k)!FCPaths(s, d)}
    BY <1>5 DEF IsMesh
  <2>2. src = Machine(s) /\ dst = Machine(d) /\ paths = Mesh(k)!FCPaths(s, d)
    BY <1>1, <2>1
  <2>3. Links[net] = Mesh(k)!FCLinks
    BY <1>5 DEF IsMesh
  <2>4. (\A r \in paths : IsRoute(r, src, dst, net)) /\ EveryShortestPath
    BY <2>1, <2>2, <2>3, MeshRoutes
  <2>. QED  BY <1>5, <2>4 DEF RoutesAreFine
<1>6. ASSUME net \notin Parallel, NEW k \in Nat, IsSwitch(net, k) PROVE RoutesAreFine
  <2>1. PICK s \in 0..k - 1, d \in 0..k - 1 :
          s # d /\ pair = <<Host(s), Host(d)>> /\ PathSets[net][pair] = {Mesh(k)!TestPaths(s, d)}
    BY <1>6 DEF IsSwitch
  <2>2. src = Host(s) /\ dst = Host(d) /\ paths = Mesh(k)!TestPaths(s, d)
    BY <1>1, <2>1
  <2>3. Links[net] = Mesh(k)!TestLinks
    BY <1>6 DEF IsSwitch
  <2>4. (\A r \in paths : IsRoute(r, src, dst, net)) /\ EveryShortestPath
    BY <2>1, <2>2, <2>3, SwitchRoutes
  <2>. QED  BY <1>6, <2>4 DEF RoutesAreFine
<1>7. ASSUME net \notin Parallel, NEW k \in Nat, IsStar(net, k) PROVE RoutesAreFine
  <2>1. PICK s \in 0..k - 1, d \in 0..k - 1 :
          s # d /\ pair = <<Host(s), Host(d)>> /\ PathSets[net][pair] = {Mesh(k)!StarPaths(s, d)}
    BY <1>7 DEF IsStar
  <2>2. src = Host(s) /\ dst = Host(d) /\ paths = Mesh(k)!StarPaths(s, d)
    BY <1>1, <2>1
  <2>3. Links[net] = Mesh(k)!StarLinks
    BY <1>7 DEF IsStar
  <2>4. (\A r \in paths : IsRoute(r, src, dst, net)) /\ EveryShortestPath
    BY <2>1, <2>2, <2>3, StarRoutes
  <2>. QED  BY <1>7, <2>4 DEF RoutesAreFine
<1>. QED  BY <1>2, <1>3, <1>4, <1>5, <1>6, <1>7 DEF IsTopology

\* They stay so, because a packet keeps its topology and its ends.
LEMMA StaysFine ==
  ASSUME RoutesAreFine, [ForwardingNext]_forwardingVars
  PROVE  RoutesAreFine'
<1>1. UNCHANGED <<net, src, dst, paths>>
  BY DEF ForwardingNext, Start, Forward, Return, Resend, forwardingVars
<1>2. /\ (\A r \in paths : IsRoute(r, src, dst, net))' /\ (net \in Ecmp)' = (net \in Ecmp)
      /\ (net \in Parallel)' = (net \in Parallel)
  BY <1>1 DEF RoutesAreFine, IsRoute, Walks, Mirrors
<1>3. EveryShortestPath' <=> EveryShortestPath
  BY <1>1 DEF EveryShortestPath, Nodes, ShortestWalks, Approaching, Onward, Within, Closer
<1>4. DisjointPaths' <=> DisjointPaths
  BY <1>1 DEF DisjointPaths
<1>. QED  BY <1>2, <1>3, <1>4 DEF RoutesAreFine

\* In a topology of any size the routes lead from source to destination and back, and where
\* get_paths of a tree, a mesh or a switch chooses from them it has every shortest path and no
\* other.
THEOREM TopologyPathsAreAsPromised ==
  ForwardingSpec /\ IsTopology(net) => []PathsAreAsPromised
<1>1. ForwardingInit /\ IsTopology(net) => RoutesAreFine
  BY StartsFine
<1>2. RoutesAreFine /\ [ForwardingNext]_forwardingVars => RoutesAreFine'
  BY StaysFine
<1>3. RoutesAreFine => PathsAreAsPromised
  BY DEF RoutesAreFine, PathsAreAsPromised
<1>. QED  BY <1>1, <1>2, <1>3, PTL DEF ForwardingSpec

\* In a topology of any size a packet is handed on where it is, over links that exist, on its way
\* and when a queue returns it.
THEOREM TopologiesMovePackets ==
  ForwardingSpec /\ IsTopology(net) => MovesAlongLinks
<1>1. ForwardingInit /\ IsTopology(net) => FInv
  <2>1. SUFFICES ASSUME ForwardingInit, IsTopology(net) PROVE FInv
    OBVIOUS
  <2>2. \A r \in paths : IsRoute(r, src, dst, net)
    BY <2>1, StartsFine DEF RoutesAreFine
  <2>. QED  BY <2>1, <2>2 DEF ForwardingInit, FInv, Placed, OneWay
<1>2. FInv /\ [ForwardingNext]_forwardingVars => FInv' /\ [Moved]_packet
  <2>1. ASSUME FInv, UNCHANGED forwardingVars PROVE FInv' /\ UNCHANGED packet
    BY <2>1 DEF forwardingVars, FInv, Placed, IsRoute, Walks, Mirrors, Out, Back
  <2>. QED  BY <2>1, ForwardingStep
<1>3. ForwardingSpec /\ IsTopology(net) => [][Moved]_packet
  BY <1>1, <1>2, PTL DEF ForwardingSpec
<1>. QED  BY <1>3 DEF MovesAlongLinks, Moved
=============================================================================
