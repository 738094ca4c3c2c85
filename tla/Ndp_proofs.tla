----------------------------- MODULE Ndp_proofs -----------------------------
(***************************************************************************)
(* Proofs about Ndp: for any number of flows, sizes of packets, flows and  *)
(* windows, and either routing, the four invariants that the run ndp       *)
(* checks.  The inductive invariant is a set of ledgers: it counts, over   *)
(* the sequences of the state, where each packet of a flow is, what the    *)
(* window still allows, and which acknowledgements are underway.           *)
(***************************************************************************)
EXTENDS Ndp, SharedLemmas

-----------------------------------------------------------------------------
(* What the state is made of.                                              *)

Seqs == Nat \ {0}

\* The packets in the queue: none of them was returned before.
Data == [flow : Flows, seq : Seqs, size : 1..MaxSize, header : BOOLEAN, bounced : {FALSE}]
Queues == [low : Seq(Data), high : Seq(Data), serv : {"LOW", "HIGH", "INVALID"}, crt : Nat]

\* The fields of a packet in the queue.
LEMMA DataFields ==
  ASSUME NEW p \in Data
  PROVE  /\ p.flow \in Flows /\ p.seq \in Seqs /\ p.header \in BOOLEAN /\ p.bounced = FALSE
         /\ p.size \in Nat \ {0} /\ p.size <= MaxSize
<1>1. p.flow \in Flows /\ p.seq \in Seqs
  BY DEF Data
<1>2. p.size \in 1..MaxSize
  BY DEF Data
<1>3. p.header \in BOOLEAN /\ p.bounced = FALSE
  BY DEF Data
<1>. QED BY <1>1, <1>2, <1>3, CompositeQueueAssumption

-----------------------------------------------------------------------------
(* The bytes in a list.                                                    *)

\* Whatever satisfies the recursion of Bytes ends in its value.
LEMMA BytesByRecursion ==
  ASSUME NEW list \in Seq(Data), NEW g, g[0] = 0,
         \A i \in 1..Len(list) : g[i] = g[i - 1] + list[i].size
  PROVE  Bytes(list) = g[Len(list)]
<1>. DEFINE n == Len(list)
            Sums(h) == h = [i \in 0..n |-> IF i = 0 THEN 0 ELSE h[i - 1] + list[i].size]
            sum == CHOOSE h : Sums(h)
            k == [i \in 0..n |-> g[i]]
<1>1. n \in Nat
  OBVIOUS
<1>2. Sums(k)
  <2>1. \A i \in 0..n : k[i] = IF i = 0 THEN 0 ELSE k[i - 1] + list[i].size
    <3>. TAKE i \in 0..n
    <3>1. CASE i = 0
      BY <3>1
    <3>2. CASE i # 0
      <4>1. i \in 1..n /\ i - 1 \in 0..n
        BY <1>1, <3>2
      <4>. QED BY <3>2, <4>1
    <3>. QED BY <3>1, <3>2
  <2>. QED BY <2>1
<1>3. Sums(sum)
  <2>. HIDE DEF Sums, k
  <2>. QED BY <1>2
<1>4. Bytes(list) = sum[n]
  BY DEF Bytes
<1>. HIDE DEF sum
<1>. DEFINE S == {i \in Nat : i <= n => sum[i] = g[i]}
<1>5. 0 \in S
  BY <1>1, <1>3
<1>6. \A i \in Nat : i \in S => i + 1 \in S
  <2>. SUFFICES ASSUME NEW i \in Nat, i \in S, i + 1 <= n PROVE sum[i + 1] = g[i + 1]
    OBVIOUS
  <2>1. i + 1 \in 0..n /\ i + 1 # 0 /\ i + 1 - 1 = i /\ i + 1 \in 1..n /\ sum[i] = g[i]
    BY <1>1
  <2>2. sum[i + 1] = sum[i] + list[i + 1].size
    BY <1>3, <2>1
  <2>3. g[i + 1] = g[i] + list[i + 1].size
    BY <2>1
  <2>. QED BY <2>1, <2>2, <2>3
<1>7. n \in S
  <2>. HIDE DEF S
  <2>. QED BY <1>1, <1>5, <1>6, NatInductionOnSets
<1>. QED BY <1>4, <1>7

\* The recursion has a solution.
LEMMA BytesExist ==
  ASSUME NEW list \in Seq(Data)
  PROVE  \E g \in [0..Len(list) -> Nat] :
           /\ g[0] = 0 /\ \A i \in 1..Len(list) : g[i] = g[i - 1] + list[i].size
           /\ Bytes(list) = g[Len(list)]
<1>. DEFINE n == Len(list)
            step == [i \in 1..n |-> [b \in Nat |-> b + list[i].size]]
<1>1. n \in Nat /\ \A i \in 1..n : list[i].size \in Nat
  <2>1. n \in Nat /\ \A i \in 1..n : list[i] \in Data
    OBVIOUS
  <2>2. \A p \in Data : p.size \in Nat
    BY DataFields
  <2>. QED BY <2>1, <2>2
<1>2. step \in [1..n -> [Nat -> Nat]]
  BY <1>1
<1>3. \E g \in [0..n -> Nat] : g[0] = 0 /\ \A i \in 1..n : g[i] = step[i][g[i - 1]]
  <2>. DEFINE D == Nat
  <2>. HIDE DEF step, n, D
  <2>1. 0 \in D /\ step \in [1..n -> [D -> D]]
    BY <1>2 DEF D
  <2>2. RunsOf(D, 0, n, step) # {}
    BY <1>1, <2>1, RecursionExists
  <2>. QED BY <2>2 DEF D, RunsOf
<1>4. PICK g \in [0..n -> Nat] : g[0] = 0 /\ \A i \in 1..n : g[i] = step[i][g[i - 1]]
  BY <1>3
<1>5. \A i \in 1..n : g[i] = g[i - 1] + list[i].size
  <2>. TAKE i \in 1..n
  <2>1. i - 1 \in 0..n
    BY <1>1
  <2>2. g[i - 1] \in Nat
    BY <2>1
  <2>. QED BY <1>4, <2>2
<1>6. Bytes(list) = g[n]
  <2>. HIDE DEF step
  <2>. QED BY <1>4, <1>5, BytesByRecursion
<1>. QED BY <1>4, <1>5, <1>6

\* The bytes of an empty list, and of one with a packet more or less.
LEMMA BytesEmpty == Bytes(<<>>) = 0
<1>. DEFINE g == [i \in {0} |-> 0]
<1>1. <<>> \in Seq(Data) /\ Len(<<>>) = 0 /\ g[0] = 0
      /\ \A i \in 1..0 : g[i] = g[i - 1] + <<>>[i].size
  OBVIOUS
<1>. HIDE DEF g
<1>. QED BY <1>1, BytesByRecursion

LEMMA BytesType ==
  ASSUME NEW list \in Seq(Data)
  PROVE  Bytes(list) \in Nat
<1>. PICK g \in [0..Len(list) -> Nat] : Bytes(list) = g[Len(list)]
  BY BytesExist
<1>1. Len(list) \in 0..Len(list)
  OBVIOUS
<1>. QED BY <1>1

LEMMA BytesAppend ==
  ASSUME NEW list \in Seq(Data), NEW p \in Data
  PROVE  Bytes(Append(list, p)) = Bytes(list) + p.size
<1>. DEFINE n == Len(list)
            t == Append(list, p)
<1>. PICK g \in [0..n -> Nat] :
       /\ g[0] = 0 /\ \A i \in 1..n : g[i] = g[i - 1] + list[i].size
       /\ Bytes(list) = g[n]
  BY BytesExist
<1>. DEFINE h == [i \in 0..n + 1 |-> IF i <= n THEN g[i] ELSE g[n] + p.size]
<1>1. /\ n \in Nat /\ t \in Seq(Data) /\ Len(t) = n + 1 /\ t[n + 1] = p
      /\ \A i \in 1..n : t[i] = list[i]
  OBVIOUS
<1>2. h[0] = 0 /\ h[n + 1] = g[n] + p.size
  BY <1>1
<1>3. \A i \in 1..n + 1 : h[i] = h[i - 1] + t[i].size
  <2>. TAKE i \in 1..n + 1
  <2>1. CASE i <= n
    <3>1. i \in 1..n /\ i \in 0..n + 1 /\ i - 1 \in 0..n + 1 /\ i - 1 <= n
      BY <1>1, <2>1
    <3>2. h[i] = g[i] /\ h[i - 1] = g[i - 1]
      BY <2>1, <3>1
    <3>3. g[i] = g[i - 1] + list[i].size /\ t[i] = list[i]
      BY <1>1, <3>1
    <3>. QED BY <3>2, <3>3
  <2>2. CASE i = n + 1
    <3>1. i - 1 = n /\ n \in 0..n + 1 /\ n + 1 \in 0..n + 1 /\ ~(n + 1 <= n)
      BY <1>1, <2>2
    <3>. QED BY <1>1, <2>2, <3>1
  <2>3. i <= n \/ i = n + 1
    BY <1>1
  <2>. QED BY <2>1, <2>2, <2>3
<1>4. Bytes(t) = h[n + 1]
  <2>. HIDE DEF h
  <2>1. \A i \in 1..Len(t) : h[i] = h[i - 1] + t[i].size
    BY <1>1, <1>3
  <2>. HIDE DEF t, n
  <2>2. Bytes(t) = h[Len(t)]
    BY <1>1, <1>2, <2>1, BytesByRecursion
  <2>. QED BY <1>1, <2>2
<1>. QED BY <1>2, <1>4

LEMMA BytesTail ==
  ASSUME NEW list \in Seq(Data), list # <<>>
  PROVE  /\ Head(list) \in Data /\ Tail(list) \in Seq(Data)
         /\ Bytes(list) = Bytes(Tail(list)) + Head(list).size
<1>. DEFINE n == Len(list)
            t == Tail(list)
<1>. PICK g \in [0..n -> Nat] :
       /\ g[0] = 0 /\ \A i \in 1..n : g[i] = g[i - 1] + list[i].size
       /\ Bytes(list) = g[n]
  BY BytesExist
<1>. DEFINE h == [i \in 0..n - 1 |-> g[i + 1] - list[1].size]
<1>1. /\ n \in Nat \ {0} /\ t \in Seq(Data) /\ Len(t) = n - 1 /\ Head(list) = list[1]
      /\ list[1] \in Data /\ \A i \in 1..n - 1 : t[i] = list[i + 1]
  OBVIOUS
<1>2. list[1].size \in Nat /\ g[1] = list[1].size
  <2>1. 1 \in 1..n /\ 1 - 1 = 0
    BY <1>1
  <2>2. list[1].size \in Nat
    BY <1>1, DataFields
  <2>. QED BY <2>1, <2>2
<1>3. h[0] = 0
  <2>1. 0 \in 0..n - 1 /\ 0 + 1 = 1
    BY <1>1
  <2>. QED BY <1>2, <2>1
<1>4. \A i \in 1..n - 1 : h[i] = h[i - 1] + t[i].size
  <2>. TAKE i \in 1..n - 1
  <2>1. i + 1 \in 1..n /\ i + 1 - 1 = i /\ i - 1 + 1 = i /\ i \in 0..n - 1 /\ i - 1 \in 0..n - 1
        /\ i \in 0..n /\ i + 1 \in 0..n
    BY <1>1
  <2>2. g[i + 1] = g[i] + list[i + 1].size
    BY <2>1
  <2>3. h[i] = g[i + 1] - list[1].size /\ h[i - 1] = g[i] - list[1].size
    BY <2>1
  <2>4. t[i].size = list[i + 1].size /\ list[i + 1].size \in Nat
    <3>1. t[i] = list[i + 1] /\ list[i + 1] \in Data
      BY <1>1, <2>1
    <3>. QED BY <3>1, DataFields
  <2>5. g[i] \in Nat /\ g[i + 1] \in Nat
    BY <2>1
  <2>. HIDE DEF h
  <2>. QED BY <1>2, <2>2, <2>3, <2>4, <2>5
<1>5. h[n - 1] = g[n] - list[1].size /\ g[n] \in Nat
  <2>1. n - 1 \in 0..n - 1 /\ n - 1 + 1 = n /\ n \in 0..n
    BY <1>1
  <2>. QED BY <2>1
<1>6. Bytes(t) = h[n - 1]
  <2>. HIDE DEF h
  <2>1. \A i \in 1..Len(t) : h[i] = h[i - 1] + t[i].size
    BY <1>1, <1>4
  <2>. HIDE DEF t, n
  <2>2. Bytes(t) = h[Len(t)]
    BY <1>1, <1>3, <2>1, BytesByRecursion
  <2>. QED BY <1>1, <2>2
<1>. QED BY <1>1, <1>2, <1>5, <1>6

LEMMA BytesFront ==
  ASSUME NEW list \in Seq(Data), list # <<>>
  PROVE  /\ Last(list) \in Data /\ Front(list) \in Seq(Data)
         /\ Bytes(list) = Bytes(Front(list)) + Last(list).size
<1>1. Last(list) \in Data /\ Front(list) \in Seq(Data) /\ list = Append(Front(list), Last(list))
  BY CountFront
<1>2. Bytes(Append(Front(list), Last(list))) = Bytes(Front(list)) + Last(list).size
  BY <1>1, BytesAppend
<1>. QED BY <1>1, <1>2

-----------------------------------------------------------------------------
(* The queue.                                                              *)

\* The packets in the queue whose flow and number lie in P.
Marked(P) == {d \in Data : <<d.flow, d.seq>> \in P}
Holds(q, P) == Count(q.low, Marked(P)) + Count(q.high, Marked(P))
Hit(e, M) == IF e \in M THEN 1 ELSE 0

LEMMA QueueFields ==
  ASSUME NEW q \in Queues
  PROVE  /\ q.low \in Seq(Data) /\ q.high \in Seq(Data)
         /\ q.serv \in {"LOW", "HIGH", "INVALID"} /\ q.crt \in Nat
  BY DEF Queues

LEMMA HoldsType ==
  ASSUME NEW q \in Queues, NEW P
  PROVE  Holds(q, P) \in Nat
<1>1. q.low \in Seq(Data) /\ q.high \in Seq(Data)
  BY QueueFields
<1>2. Count(q.low, Marked(P)) \in Nat /\ Count(q.high, Marked(P)) \in Nat
  BY <1>1, CountType
<1>. QED BY <1>2 DEF Holds

\* BeginService chooses a list that is not empty, and changes neither.
LEMMA ServiceBegins ==
  ASSUME NEW q \in Queues, q.low # <<>> \/ q.high # <<>>
  PROVE  /\ BeginService(q) \in Queues
         /\ BeginService(q).low = q.low /\ BeginService(q).high = q.high
         /\ BeginService(q).serv # "INVALID"
         /\ BeginService(q).serv = "LOW" => q.low # <<>>
         /\ BeginService(q).serv = "HIGH" => q.high # <<>>
<1>. DEFINE r == BeginService(q)
<1>0. PICK crt : crt = IF q.crt >= RatioHigh + RatioLow THEN 0 ELSE q.crt
  OBVIOUS
<1>1. q.low \in Seq(Data) /\ q.high \in Seq(Data) /\ crt \in Nat
  BY <1>0, QueueFields
<1>2. HeaderSize \in Nat /\ RatioHigh \in Nat
  BY CompositeQueueAssumption
<1>3. q.low # <<>> => Head(q.low).size \in Nat
  BY <1>1, BytesTail, DataFields
<1>4. CASE q.high # <<>> /\ q.low # <<>> /\ crt < RatioHigh
  <2>0. ~(crt >= RatioHigh)
    BY <1>1, <1>2, <1>4
  <2>1. r = [q EXCEPT !.serv = "HIGH", !.crt = crt + HeaderSize]
    BY <1>0, <1>4, <2>0, Zenon DEF BeginService
  <2>2. crt + HeaderSize \in Nat
    BY <1>1, <1>2
  <2>. QED BY <1>4, <2>1, <2>2 DEF Queues
<1>5. CASE q.high # <<>> /\ q.low # <<>> /\ ~(crt < RatioHigh)
  <2>0. crt >= RatioHigh
    BY <1>1, <1>2, <1>5
  <2>1. r = [q EXCEPT !.serv = "LOW", !.crt = crt + Head(q.low).size]
    BY <1>0, <1>5, <2>0, Zenon DEF BeginService
  <2>2. crt + Head(q.low).size \in Nat
    BY <1>1, <1>3, <1>5
  <2>. QED BY <1>5, <2>1, <2>2 DEF Queues
<1>6. CASE q.high # <<>> /\ q.low = <<>>
  <2>1. r = [q EXCEPT !.serv = "HIGH"]
    BY <1>6, Zenon DEF BeginService
  <2>. QED BY <1>6, <2>1 DEF Queues
<1>7. CASE q.high = <<>> /\ q.low # <<>>
  <2>1. r = [q EXCEPT !.serv = "LOW"]
    BY <1>7, Zenon DEF BeginService
  <2>. QED BY <1>7, <2>1 DEF Queues
<1>. QED BY <1>4, <1>5, <1>6, <1>7

\* The packet served leaves its list, and service goes on while one is left.
LEMMA ServiceCompletes ==
  ASSUME NEW q \in Queues, QueueIsSound(q), q.serv # "INVALID"
  PROVE  /\ Departing(q) \in Data
         /\ CompleteService(q) \in Queues /\ QueueIsSound(CompleteService(q))
         /\ \A P : Holds(q, P) = Holds(CompleteService(q), P)
                                   + Hit(Departing(q), Marked(P))
<1>. DEFINE rest == IF q.serv = "LOW" THEN [q EXCEPT !.low = Tail(@), !.serv = "INVALID"]
                                      ELSE [q EXCEPT !.high = Tail(@), !.serv = "INVALID"]
            p == Departing(q)
            r == CompleteService(q)
<1>1. q.low \in Seq(Data) /\ q.high \in Seq(Data)
      /\ Bytes(q.low) \in Nat /\ Bytes(q.low) <= MaxSize
      /\ Bytes(q.high) \in Nat /\ Bytes(q.high) <= MaxSize /\ MaxSize \in Nat
  BY QueueFields, BytesType, CompositeQueueAssumption DEF QueueIsSound
<1>2. /\ p \in Data /\ rest \in Queues
      /\ Bytes(rest.low) <= MaxSize /\ Bytes(rest.high) <= MaxSize
      /\ rest.serv = "INVALID"
      /\ \A P : Holds(q, P) = Holds(rest, P) + Hit(p, Marked(P))
  <2>1. CASE q.serv = "LOW"
    <3>1. q.low # <<>>
      BY <2>1 DEF QueueIsSound
    <3>2. p = Head(q.low)
      BY <2>1 DEF Departing
    <3>3. p \in Data /\ Tail(q.low) \in Seq(Data) /\ Bytes(q.low) = Bytes(Tail(q.low)) + p.size
      BY <1>1, <3>1, <3>2, BytesTail
    <3>4. Bytes(Tail(q.low)) \in Nat /\ p.size \in Nat
      BY <3>3, BytesType, DataFields
    <3>5. rest \in Queues /\ rest.low = Tail(q.low) /\ rest.high = q.high /\ rest.serv = "INVALID"
      BY <2>1, <3>3 DEF Queues
    <3>6. \A P : Count(q.low, Marked(P)) = Count(Tail(q.low), Marked(P)) + Hit(p, Marked(P))
      BY <1>1, <3>1, <3>2, CountTail DEF Hit
    <3>7. \A P : /\ Count(q.high, Marked(P)) \in Nat /\ Count(Tail(q.low), Marked(P)) \in Nat
                 /\ Hit(p, Marked(P)) \in Nat
      BY <1>1, <3>3, CountType DEF Hit
    <3>. HIDE DEF rest, p
    <3>8. \A P : Holds(q, P) = Holds(rest, P) + Hit(p, Marked(P))
      BY <3>5, <3>6, <3>7 DEF Holds
    <3>. QED BY <1>1, <3>3, <3>4, <3>5, <3>8
  <2>2. CASE q.serv = "HIGH"
    <3>1. q.high # <<>>
      BY <2>2 DEF QueueIsSound
    <3>2. p = Head(q.high)
      BY <2>2 DEF Departing
    <3>3. p \in Data /\ Tail(q.high) \in Seq(Data) /\ Bytes(q.high) = Bytes(Tail(q.high)) + p.size
      BY <1>1, <3>1, <3>2, BytesTail
    <3>4. Bytes(Tail(q.high)) \in Nat /\ p.size \in Nat
      BY <3>3, BytesType, DataFields
    <3>5. rest \in Queues /\ rest.high = Tail(q.high) /\ rest.low = q.low /\ rest.serv = "INVALID"
      BY <2>2, <3>3 DEF Queues
    <3>6. \A P : Count(q.high, Marked(P)) = Count(Tail(q.high), Marked(P)) + Hit(p, Marked(P))
      BY <1>1, <3>1, <3>2, CountTail DEF Hit
    <3>7. \A P : /\ Count(q.low, Marked(P)) \in Nat /\ Count(Tail(q.high), Marked(P)) \in Nat
                 /\ Hit(p, Marked(P)) \in Nat
      BY <1>1, <3>3, CountType DEF Hit
    <3>. HIDE DEF rest, p
    <3>8. \A P : Holds(q, P) = Holds(rest, P) + Hit(p, Marked(P))
      BY <3>5, <3>6, <3>7 DEF Holds
    <3>. QED BY <1>1, <3>3, <3>4, <3>5, <3>8
  <2>. QED BY <2>1, <2>2, QueueFields
<1>3. r = IF rest.low = <<>> /\ rest.high = <<>> THEN rest ELSE BeginService(rest)
  BY DEF CompleteService
<1>. HIDE DEF rest, r, p
<1>4. CASE rest.low = <<>> /\ rest.high = <<>>
  <2>1. r = rest
    BY <1>3, <1>4
  <2>2. QueueIsSound(rest)
    BY <1>2, <1>4 DEF QueueIsSound
  <2>. QED BY <1>2, <2>1, <2>2 DEF r, p
<1>5. CASE ~(rest.low = <<>> /\ rest.high = <<>>)
  <2>1. /\ r \in Queues /\ r.low = rest.low /\ r.high = rest.high
        /\ r.serv # "INVALID"
        /\ r.serv = "LOW" => rest.low # <<>>
        /\ r.serv = "HIGH" => rest.high # <<>>
    BY <1>2, <1>3, <1>5, ServiceBegins
  <2>2. QueueIsSound(r)
    BY <1>2, <1>5, <2>1 DEF QueueIsSound
  <2>3. \A P : Holds(r, P) = Holds(rest, P)
    BY <2>1 DEF Holds
  <2>. QED BY <1>2, <2>1, <2>2, <2>3 DEF r, p
<1>. QED BY <1>4, <1>5

\* Taking a header: it joins its list or goes back, with the same flow and number.
LEMMA HeaderReceived ==
  ASSUME NEW q \in Queues, NEW p \in Data
  PROVE  \/ /\ Bytes(q.high) + p.size <= MaxSize
            /\ ReceiveHeader(q, p) = [queue |-> [q EXCEPT !.high = Append(@, p)], returned |-> {}]
         \/ ReceiveHeader(q, p) = [queue |-> q, returned |-> {[p EXCEPT !.bounced = TRUE]}]
<1>1. p.bounced = FALSE
  BY DataFields
<1>. QED BY <1>1, Zenon DEF ReceiveHeader

\* What a list becomes when it grows.
LEMMA ListGrows ==
  ASSUME NEW list \in Seq(Data), NEW p \in Data
  PROVE  /\ Append(list, p) \in Seq(Data) /\ Append(list, p) # <<>>
         /\ Bytes(Append(list, p)) = Bytes(list) + p.size
         /\ \A P : Count(Append(list, p), Marked(P)) = Count(list, Marked(P)) + Hit(p, Marked(P))
<1>1. /\ Append(list, p) \in Seq(Data) /\ Append(list, p) # <<>>
  BY AppendProperties
<1>2. \A P : Count(Append(list, p), Marked(P)) = Count(list, Marked(P)) + Hit(p, Marked(P))
  BY CountAppend DEF Hit
<1>. QED BY <1>1, <1>2, BytesAppend

LEMMA Stripped ==
  ASSUME NEW p \in Data
  PROVE  /\ StripPayload(p) \in Data
         /\ StripPayload(p).flow = p.flow /\ StripPayload(p).seq = p.seq
         /\ StripPayload(p).bounced = FALSE
         /\ \A P : StripPayload(p) \in Marked(P) <=> p \in Marked(P)
<1>1. HeaderSize \in 1..MaxSize
  BY CompositeQueueAssumption
<1>2. StripPayload(p) \in Data /\ StripPayload(p).flow = p.flow /\ StripPayload(p).seq = p.seq
  BY <1>1 DEF StripPayload, Data
<1>3. StripPayload(p).bounced = FALSE
  BY <1>2, DataFields
<1>. QED BY <1>2, <1>3 DEF Marked

\* p, or the packet that made room for it, is in the queue or goes back.
Conserved(q, p, r) ==
  \/ /\ r.returned = {}
     /\ \A P : Holds(r.queue, P) = Holds(q, P) + Hit(p, Marked(P))
  \/ \E x \in Data :
       /\ r.returned = {[x EXCEPT !.bounced = TRUE]}
       /\ \A P : Holds(r.queue, P) + Hit(x, Marked(P)) = Holds(q, P) + Hit(p, Marked(P))

\* What the queue did with a packet before it begins service.
Taken(q, p, r) ==
  /\ r.queue \in Queues
  /\ Bytes(r.queue.low) <= MaxSize /\ Bytes(r.queue.high) <= MaxSize
  /\ r.queue.serv = q.serv
  /\ r.queue.low # <<>>
  /\ q.high # <<>> => r.queue.high # <<>>
  /\ Conserved(q, p, r)

\* What receivePacket does before service begins.
Outcome(q, p, boot) ==
  CASE ~p.header /\ Bytes(q.low) + p.size <= MaxSize ->
         [queue |-> [q EXCEPT !.low = Append(@, p)], returned |-> {}]
    [] ~p.header /\ ~(Bytes(q.low) + p.size <= MaxSize) /\ boot /\ CanBoot(q, p) ->
         [ReceiveHeader([q EXCEPT !.low = Front(@)], StripPayload(Last(q.low)))
            EXCEPT !.queue.low = Append(@, p)]
    [] OTHER -> ReceiveHeader(q, IF p.header THEN p ELSE StripPayload(p))

LEMMA PacketTaken ==
  ASSUME NEW q \in Queues, QueueIsSound(q), NEW p \in Data, ~p.header, NEW boot \in BOOLEAN
  PROVE  Taken(q, p, Outcome(q, p, boot))
<1>. DEFINE r == Outcome(q, p, boot)
<1>. HIDE DEF r
<1>1. q.low \in Seq(Data) /\ q.high \in Seq(Data)
      /\ Bytes(q.low) \in Nat /\ Bytes(q.low) <= MaxSize
      /\ Bytes(q.high) \in Nat /\ Bytes(q.high) <= MaxSize /\ MaxSize \in Nat
      /\ p.size \in Nat /\ p.size <= MaxSize
  BY QueueFields, BytesType, DataFields, CompositeQueueAssumption DEF QueueIsSound
<1>2. /\ Append(q.low, p) \in Seq(Data) /\ Append(q.low, p) # <<>>
      /\ Bytes(Append(q.low, p)) = Bytes(q.low) + p.size
      /\ \A P : Count(Append(q.low, p), Marked(P)) = Count(q.low, Marked(P)) + Hit(p, Marked(P))
  BY <1>1, ListGrows
<1>3. \A P : Count(q.low, Marked(P)) \in Nat /\ Count(q.high, Marked(P)) \in Nat
             /\ Hit(p, Marked(P)) \in Nat
  BY <1>1, CountType DEF Hit
<1>4. ASSUME Bytes(q.low) + p.size <= MaxSize PROVE Taken(q, p, r)
  <2>1. r = [queue |-> [q EXCEPT !.low = Append(q.low, p)], returned |-> {}]
    BY <1>4, Zenon DEF Outcome, r
  <2>. DEFINE t == [q EXCEPT !.low = Append(q.low, p)]
  <2>2. t \in Queues /\ t.low = Append(q.low, p) /\ t.high = q.high /\ t.serv = q.serv
    BY <1>2 DEF Queues
  <2>3. r.queue = t /\ r.returned = {}
    BY <2>1
  <2>. HIDE DEF t
  <2>4. \A P : Holds(t, P) = Holds(q, P) + Hit(p, Marked(P))
    BY <1>2, <1>3, <2>2 DEF Holds
  <2>5. Bytes(t.low) <= MaxSize /\ Bytes(t.high) <= MaxSize /\ t.low # <<>>
    BY <1>1, <1>2, <1>4, <2>2
  <2>. QED BY <2>2, <2>3, <2>4, <2>5 DEF Taken, Conserved
<1>5. ASSUME ~(Bytes(q.low) + p.size <= MaxSize), boot, CanBoot(q, p)
      PROVE  Taken(q, p, r)
  <2>. DEFINE e == Last(q.low)
              h == StripPayload(e)
              c == [q EXCEPT !.low = Front(q.low)]
              b == ReceiveHeader(c, h)
  <2>1. r = [b EXCEPT !.queue.low = Append(@, p)]
    BY <1>5, Zenon DEF Outcome, r
  <2>2. q.low # <<>> /\ e.size >= p.size
    BY <1>5 DEF CanBoot
  <2>3. e \in Data /\ Front(q.low) \in Seq(Data) /\ Bytes(q.low) = Bytes(Front(q.low)) + e.size
        /\ \A P : Count(q.low, Marked(P)) = Count(Front(q.low), Marked(P)) + Hit(e, Marked(P))
    BY <1>1, <2>2, BytesFront, CountFront DEF Hit
  <2>4. c \in Queues /\ c.low = Front(q.low) /\ c.high = q.high /\ c.serv = q.serv
    BY <2>3 DEF Queues
  <2>5. h \in Data /\ (\A P : h \in Marked(P) <=> e \in Marked(P)) /\ h.size \in Nat
    BY <2>3, Stripped, DataFields
  <2>. HIDE DEF h, c, b, e
  <2>6. /\ Append(c.low, p) \in Seq(Data) /\ Append(c.low, p) # <<>>
        /\ Bytes(Append(c.low, p)) = Bytes(c.low) + p.size
        /\ \A P : Count(Append(c.low, p), Marked(P)) = Count(c.low, Marked(P)) + Hit(p, Marked(P))
    BY <2>3, <2>4, ListGrows
  <2>7. Bytes(Append(c.low, p)) <= MaxSize
    <3>1. Bytes(c.low) \in Nat /\ e.size \in Nat
      BY <2>3, <2>4, BytesType, DataFields
    <3>. QED BY <1>1, <2>2, <2>3, <2>4, <2>6, <3>1
  <2>8. \A P : /\ Count(c.low, Marked(P)) \in Nat /\ Count(q.high, Marked(P)) \in Nat
               /\ Hit(e, Marked(P)) \in Nat /\ Hit(p, Marked(P)) \in Nat
    BY <1>1, <2>3, <2>4, CountType DEF Hit
  <2>9. CASE /\ Bytes(c.high) + h.size <= MaxSize
             /\ b = [queue |-> [c EXCEPT !.high = Append(@, h)], returned |-> {}]
    <3>. DEFINE t == [[c EXCEPT !.high = Append(@, h)] EXCEPT !.low = Append(@, p)]
    <3>1. /\ Append(c.high, h) \in Seq(Data) /\ Append(c.high, h) # <<>>
          /\ Bytes(Append(c.high, h)) = Bytes(c.high) + h.size
          /\ \A P : Count(Append(c.high, h), Marked(P)) = Count(q.high, Marked(P)) + Hit(e, Marked(P))
      <4>1. \A P : Hit(h, Marked(P)) = Hit(e, Marked(P))
        BY <2>5 DEF Hit
      <4>2. \A P : Count(Append(c.high, h), Marked(P)) = Count(c.high, Marked(P)) + Hit(h, Marked(P))
        BY <1>1, <2>4, <2>5, ListGrows
      <4>3. /\ Append(c.high, h) \in Seq(Data) /\ Append(c.high, h) # <<>>
            /\ Bytes(Append(c.high, h)) = Bytes(c.high) + h.size
        BY <1>1, <2>4, <2>5, ListGrows
      <4>. QED BY <2>4, <4>1, <4>2, <4>3
    <3>2. t \in Queues /\ t.low = Append(c.low, p) /\ t.high = Append(c.high, h) /\ t.serv = q.serv
      BY <2>4, <2>6, <3>1 DEF Queues
    <3>3. r.queue = t /\ r.returned = {}
      BY <2>1, <2>9
    <3>. HIDE DEF t
    <3>4. \A P : Holds(t, P) = Holds(q, P) + Hit(p, Marked(P))
      BY <2>3, <2>4, <2>6, <2>8, <3>1, <3>2 DEF Holds
    <3>. QED BY <2>2, <2>6, <2>7, <2>9, <3>1, <3>2, <3>3, <3>4 DEF Taken, Conserved
  <2>10. CASE b = [queue |-> c, returned |-> {[h EXCEPT !.bounced = TRUE]}]
    <3>. DEFINE t == [c EXCEPT !.low = Append(@, p)]
    <3>1. t \in Queues /\ t.low = Append(c.low, p) /\ t.high = q.high /\ t.serv = q.serv
      BY <2>4, <2>6 DEF Queues
    <3>2. r.queue = t /\ r.returned = {[h EXCEPT !.bounced = TRUE]}
      BY <2>1, <2>10
    <3>. HIDE DEF t
    <3>3. \A P : Holds(t, P) + Hit(h, Marked(P)) = Holds(q, P) + Hit(p, Marked(P))
      <4>1. \A P : Hit(h, Marked(P)) = Hit(e, Marked(P))
        BY <2>5 DEF Hit
      <4>. QED BY <2>3, <2>4, <2>6, <2>8, <3>1, <4>1 DEF Holds
    <3>. QED BY <1>1, <2>2, <2>5, <2>6, <2>7, <3>1, <3>2, <3>3 DEF Taken, Conserved
  <2>. QED BY <2>4, <2>5, <2>9, <2>10, HeaderReceived DEF b
<1>6. ASSUME ~(Bytes(q.low) + p.size <= MaxSize), ~(boot /\ CanBoot(q, p))
      PROVE  Taken(q, p, r)
  <2>. DEFINE h == StripPayload(p)
  <2>1. r = ReceiveHeader(q, h)
    BY <1>6, Zenon DEF Outcome, r
  <2>2. h \in Data /\ (\A P : h \in Marked(P) <=> p \in Marked(P)) /\ h.size \in Nat
    BY Stripped, DataFields
  <2>3. q.low # <<>>
    BY <1>1, <1>6, BytesEmpty
  <2>. HIDE DEF h
  <2>4. \A P : Hit(h, Marked(P)) = Hit(p, Marked(P))
    BY <2>2 DEF Hit
  <2>5. CASE /\ Bytes(q.high) + h.size <= MaxSize
             /\ r = [queue |-> [q EXCEPT !.high = Append(@, h)], returned |-> {}]
    <3>. DEFINE t == [q EXCEPT !.high = Append(@, h)]
    <3>1. /\ Append(q.high, h) \in Seq(Data) /\ Append(q.high, h) # <<>>
          /\ Bytes(Append(q.high, h)) = Bytes(q.high) + h.size
          /\ \A P : Count(Append(q.high, h), Marked(P)) = Count(q.high, Marked(P)) + Hit(h, Marked(P))
      BY <1>1, <2>2, ListGrows
    <3>2. t \in Queues /\ t.high = Append(q.high, h) /\ t.low = q.low /\ t.serv = q.serv
      BY <3>1 DEF Queues
    <3>3. r.queue = t /\ r.returned = {}
      BY <2>5
    <3>. HIDE DEF t
    <3>4. \A P : Holds(t, P) = Holds(q, P) + Hit(p, Marked(P))
      BY <1>3, <2>4, <3>1, <3>2 DEF Holds
    <3>. QED BY <1>1, <2>3, <2>5, <3>1, <3>2, <3>3, <3>4 DEF Taken, Conserved
  <2>6. CASE r = [queue |-> q, returned |-> {[h EXCEPT !.bounced = TRUE]}]
    <3>1. \A P : Holds(q, P) + Hit(h, Marked(P)) = Holds(q, P) + Hit(p, Marked(P))
      BY <2>4
    <3>2. r.queue = q /\ r.returned = {[h EXCEPT !.bounced = TRUE]}
      BY <2>6
    <3>. QED BY <1>1, <2>2, <2>3, <3>1, <3>2 DEF Taken, Conserved
  <2>. QED BY <2>1, <2>2, <2>5, <2>6, HeaderReceived
<1>. QED BY <1>4, <1>5, <1>6 DEF r

\* The whole handler: the queue is sound afterwards, and nothing is lost in it.
LEMMA PacketReceived ==
  ASSUME NEW q \in Queues, QueueIsSound(q), NEW p \in Data, ~p.header, NEW boot \in BOOLEAN,
         NEW r, r = ReceivePacket(q, p, boot)
  PROVE  r.queue \in Queues /\ QueueIsSound(r.queue) /\ Conserved(q, p, r)
<1>. DEFINE t == Outcome(q, p, boot)
<1>2. r = IF t.queue.serv = "INVALID" THEN [t EXCEPT !.queue = BeginService(@)] ELSE t
  BY Zenon DEF ReceivePacket, Outcome
<1>. HIDE DEF t
<1>3. Taken(q, p, t)
  BY PacketTaken DEF t
<1>4. CASE t.queue.serv = "INVALID"
  <2>1. q.low = <<>> /\ q.high = <<>> /\ t.queue.low # <<>> /\ t.queue \in Queues
    <3>1. t.queue.serv = q.serv /\ t.queue.low # <<>> /\ t.queue \in Queues
      BY <1>3 DEF Taken, Conserved
    <3>2. q.serv = "INVALID"
      BY <1>4, <3>1
    <3>. QED BY <3>1, <3>2 DEF QueueIsSound
  <2>. DEFINE s == BeginService(t.queue)
  <2>2. /\ s \in Queues /\ s.low = t.queue.low /\ s.high = t.queue.high
        /\ s.serv # "INVALID"
        /\ s.serv = "LOW" => s.low # <<>>
        /\ s.serv = "HIGH" => s.high # <<>>
    BY <2>1, ServiceBegins
  <2>3. r.queue = s /\ r.returned = t.returned
    BY <1>2, <1>3, <1>4
  <2>4. \A P : Holds(s, P) = Holds(t.queue, P)
    BY <2>2 DEF Holds
  <2>. HIDE DEF s
  <2>5. QueueIsSound(s)
    BY <1>3, <2>1, <2>2 DEF Taken, Conserved, QueueIsSound
  <2>. QED BY <1>3, <2>2, <2>3, <2>4, <2>5 DEF Taken, Conserved
<1>5. CASE t.queue.serv # "INVALID"
  <2>1. r = t
    BY <1>2, <1>5
  <2>2. QueueIsSound(t.queue)
    BY <1>3, <1>5 DEF Taken, Conserved, QueueIsSound
  <2>. QED BY <1>3, <2>1, <2>2 DEF Taken, Conserved
<1>. QED BY <1>4, <1>5

-----------------------------------------------------------------------------
(* The source.                                                             *)

Sources ==
  [started : BOOLEAN, highest_sent : Nat, last_acked : Nat, flight : Int, last_pull : Nat,
   pull_window : Int, first_window : Int, rtx_queue : Seq(Seqs), acks : Nat, nacks : Nat,
   bounces : Nat, callbacks : Nat, out : Seq(Seqs)]

LEMMA SourceFields ==
  ASSUME NEW s \in Sources
  PROVE  /\ s.started \in BOOLEAN /\ s.highest_sent \in Nat /\ s.last_acked \in Nat
         /\ s.flight \in Int /\ s.last_pull \in Nat /\ s.pull_window \in Int
         /\ s.first_window \in Int /\ s.rtx_queue \in Seq(Seqs) /\ s.acks \in Nat
         /\ s.nacks \in Nat /\ s.bounces \in Nat /\ s.callbacks \in Nat /\ s.out \in Seq(Seqs)
  BY DEF Sources

\* Where packet k is in the source: about to leave, or waiting for a pull.
Kept(s, k) == Count(s.out, {k}) + Count(s.rtx_queue, {k})

\* Packet k was sent for the first time between s and t.
NewlySent(s, t, k) == IF s.highest_sent < k /\ k <= t.highest_sent THEN 1 ELSE 0

\* t is s after sending at most n packets, each of them waiting or new.
Sent(f, s, t, n) ==
  /\ t \in Sources
  /\ t.started = s.started /\ t.last_acked = s.last_acked /\ t.last_pull = s.last_pull
  /\ t.pull_window = s.pull_window /\ t.first_window = s.first_window
  /\ t.acks = s.acks /\ t.nacks = s.nacks /\ t.bounces = s.bounces /\ t.callbacks = s.callbacks
  /\ s.highest_sent <= t.highest_sent /\ t.highest_sent <= Packets[f]
  /\ t.flight - t.highest_sent = s.flight - s.highest_sent
  /\ Len(t.out) <= Len(s.out) + n
  /\ \A k \in Seqs : Kept(t, k) = Kept(s, k) + NewlySent(s, t, k)

LEMMA KeptType ==
  ASSUME NEW s \in Sources, NEW k
  PROVE  Kept(s, k) \in Nat
<1>1. s.out \in Seq(Seqs) /\ s.rtx_queue \in Seq(Seqs)
  BY SourceFields
<1>2. Count(s.out, {k}) \in Nat /\ Count(s.rtx_queue, {k}) \in Nat
  BY <1>1, CountType
<1>. QED BY <1>2 DEF Kept

LEMMA NoneSent ==
  ASSUME NEW f \in Flows, NEW s \in Sources, s.highest_sent <= Packets[f], NEW n \in Nat
  PROVE  Sent(f, s, s, n)
<1>1. s.highest_sent \in Nat /\ Len(s.out) \in Nat
  BY SourceFields
<1>2. \A k \in Seqs : Kept(s, k) \in Nat /\ ~(s.highest_sent < k /\ k <= s.highest_sent)
  BY <1>1, KeptType DEF Seqs
<1>3. \A k \in Seqs : Kept(s, k) = Kept(s, k) + NewlySent(s, s, k)
  BY <1>2 DEF NewlySent
<1>. QED BY <1>1, <1>3 DEF Sent

LEMMA OneSent ==
  ASSUME NEW f \in Flows, Packets[f] \in Nat, NEW s \in Sources, s.highest_sent <= Packets[f]
  PROVE  Sent(f, s, SendPacket(f, s), 1)
<1>. DEFINE t == SendPacket(f, s)
<1>0. s.highest_sent \in Nat /\ s.flight \in Int /\ s.out \in Seq(Seqs) /\ s.rtx_queue \in Seq(Seqs)
      /\ Len(s.out) \in Nat
  BY SourceFields
<1>1. CASE s.rtx_queue # <<>>
  <2>. DEFINE e == Head(s.rtx_queue)
  <2>1. e \in Seqs /\ Tail(s.rtx_queue) \in Seq(Seqs)
        /\ \A k : Count(s.rtx_queue, {k}) = Count(Tail(s.rtx_queue), {k}) + Hit(e, {k})
    BY <1>0, <1>1, CountTail DEF Hit
  <2>2. Append(s.out, e) \in Seq(Seqs) /\ Len(Append(s.out, e)) = Len(s.out) + 1
        /\ \A k : Count(Append(s.out, e), {k}) = Count(s.out, {k}) + Hit(e, {k})
    BY <1>0, <2>1, CountAppend DEF Hit
  <2>3. t = [s EXCEPT !.rtx_queue = Tail(@), !.out = Append(@, e)]
    BY <1>1 DEF SendPacket
  <2>. HIDE DEF t, e
  <2>4. /\ t \in Sources /\ t.rtx_queue = Tail(s.rtx_queue) /\ t.out = Append(s.out, e)
        /\ t.started = s.started /\ t.last_acked = s.last_acked /\ t.last_pull = s.last_pull
        /\ t.pull_window = s.pull_window /\ t.first_window = s.first_window
        /\ t.acks = s.acks /\ t.nacks = s.nacks /\ t.bounces = s.bounces /\ t.callbacks = s.callbacks
        /\ t.highest_sent = s.highest_sent /\ t.flight = s.flight
    BY <2>1, <2>2, <2>3 DEF Sources
  <2>5. \A k \in Seqs : Kept(t, k) = Kept(s, k) + NewlySent(s, t, k)
    <3>. TAKE k \in Seqs
    <3>1. NewlySent(s, t, k) = 0
      BY <1>0, <2>4 DEF NewlySent, Hit, Seqs
    <3>2. /\ Count(Tail(s.rtx_queue), {k}) \in Nat /\ Count(s.out, {k}) \in Nat
          /\ Hit(e, {k}) \in Nat
      BY <1>0, <2>1, CountType DEF Hit
    <3>3. /\ Count(s.rtx_queue, {k}) = Count(t.rtx_queue, {k}) + Hit(e, {k})
          /\ Count(t.out, {k}) = Count(s.out, {k}) + Hit(e, {k})
      BY <2>1, <2>2, <2>4
    <3>4. Count(t.rtx_queue, {k}) \in Nat
      BY <2>4, <3>2
    <3>. QED BY <3>1, <3>2, <3>3, <3>4 DEF Kept
  <2>. QED BY <1>0, <2>2, <2>4, <2>5 DEF Sent, t
<1>2. CASE s.rtx_queue = <<>> /\ s.highest_sent >= Packets[f]
  <2>1. t = s
    BY <1>2 DEF SendPacket
  <2>. QED BY <2>1, NoneSent
<1>3. CASE s.rtx_queue = <<>> /\ ~(s.highest_sent >= Packets[f])
  <2>. DEFINE e == s.highest_sent + 1
  <2>1. e \in Seqs /\ e <= Packets[f]
    BY <1>0, <1>3 DEF Seqs
  <2>2. Append(s.out, e) \in Seq(Seqs) /\ Len(Append(s.out, e)) = Len(s.out) + 1
        /\ \A k : Count(Append(s.out, e), {k}) = Count(s.out, {k}) + Hit(e, {k})
    BY <1>0, <2>1, CountAppend DEF Hit
  <2>. DEFINE g == s.flight + 1
  <2>3. t = [s EXCEPT !.highest_sent = e, !.flight = g, !.out = Append(s.out, e)]
    BY <1>3 DEF SendPacket
  <2>a. e \in Nat /\ g \in Int
    BY <1>0
  <2>. HIDE DEF t, e, g
  <2>4. /\ t \in Sources /\ t.rtx_queue = s.rtx_queue /\ t.out = Append(s.out, e)
        /\ t.started = s.started /\ t.last_acked = s.last_acked /\ t.last_pull = s.last_pull
        /\ t.pull_window = s.pull_window /\ t.first_window = s.first_window
        /\ t.acks = s.acks /\ t.nacks = s.nacks /\ t.bounces = s.bounces /\ t.callbacks = s.callbacks
        /\ t.highest_sent = e /\ t.flight = g
    BY <1>0, <2>2, <2>3, <2>a DEF Sources
  <2>. USE DEF e, g
  <2>5. \A k \in Seqs : Kept(t, k) = Kept(s, k) + NewlySent(s, t, k)
    <3>. TAKE k \in Seqs
    <3>1. NewlySent(s, t, k) = Hit(e, {k})
      BY <1>0, <2>4 DEF NewlySent, Hit, Seqs
    <3>2. /\ Count(s.rtx_queue, {k}) \in Nat /\ Count(s.out, {k}) \in Nat
          /\ Hit(e, {k}) \in Nat
      BY <1>0, CountType DEF Hit
    <3>3. /\ Count(s.rtx_queue, {k}) = Count(t.rtx_queue, {k})
          /\ Count(t.out, {k}) = Count(s.out, {k}) + Hit(e, {k})
      BY <2>2, <2>4
    <3>. HIDE DEF e
    <3>. QED BY <3>1, <3>2, <3>3 DEF Kept
  <2>6. s.highest_sent <= t.highest_sent /\ t.highest_sent <= Packets[f]
    BY <1>0, <2>1, <2>4
  <2>7. t.flight - t.highest_sent = s.flight - s.highest_sent
    <3>1. t.flight = s.flight + 1 /\ t.highest_sent = s.highest_sent + 1
      BY <2>4
    <3>. QED BY <1>0, <3>1
  <2>8. Len(t.out) <= Len(s.out) + 1
    BY <1>0, <2>2, <2>4
  <2>. QED BY <2>4, <2>5, <2>6, <2>7, <2>8 DEF Sent, t
<1>. QED BY <1>1, <1>2, <1>3

LEMMA SentTwice ==
  ASSUME NEW f \in Flows, Packets[f] \in Nat, NEW s \in Sources, NEW t \in Sources, NEW u \in Sources,
         NEW m \in Nat, NEW n \in Nat, Sent(f, s, t, m), Sent(f, t, u, n)
  PROVE  Sent(f, s, u, m + n)
<1>1. /\ s.highest_sent \in Nat /\ t.highest_sent \in Nat /\ u.highest_sent \in Nat
      /\ s.flight \in Int /\ t.flight \in Int /\ u.flight \in Int
      /\ Len(s.out) \in Nat /\ Len(t.out) \in Nat /\ Len(u.out) \in Nat
  BY SourceFields
<1>2. \A k \in Seqs : Kept(u, k) = Kept(s, k) + NewlySent(s, u, k)
  <2>. TAKE k \in Seqs
  <2>1. /\ Kept(t, k) = Kept(s, k) + NewlySent(s, t, k)
        /\ Kept(u, k) = Kept(t, k) + NewlySent(t, u, k)
        /\ s.highest_sent <= t.highest_sent /\ t.highest_sent <= u.highest_sent
    BY DEF Sent
  <2>2. Kept(s, k) \in Nat /\ Kept(t, k) \in Nat /\ Kept(u, k) \in Nat /\ k \in Nat
    BY KeptType DEF Seqs
  <2>. QED BY <1>1, <2>1, <2>2 DEF NewlySent
<1>3. /\ s.highest_sent <= u.highest_sent /\ u.highest_sent <= Packets[f]
      /\ u.flight - u.highest_sent = s.flight - s.highest_sent
      /\ Len(u.out) <= Len(s.out) + (m + n)
  <2>1. /\ s.highest_sent <= t.highest_sent
        /\ t.flight - t.highest_sent = s.flight - s.highest_sent
        /\ Len(t.out) <= Len(s.out) + m
    BY DEF Sent
  <2>2. /\ t.highest_sent <= u.highest_sent /\ u.highest_sent <= Packets[f]
        /\ u.flight - u.highest_sent = t.flight - t.highest_sent
        /\ Len(u.out) <= Len(t.out) + n
    BY DEF Sent
  <2>3. s.highest_sent <= u.highest_sent
    BY <1>1, <2>1, <2>2, SMTT(30)
  <2>4. u.flight - u.highest_sent = s.flight - s.highest_sent
    BY <2>1, <2>2
  <2>5. Len(u.out) <= Len(s.out) + (m + n)
    <3>. DEFINE a == Len(s.out)
                b == Len(t.out)
                c == Len(u.out)
    <3>1. a \in Nat /\ b \in Nat /\ c \in Nat /\ b <= a + m /\ c <= b + n
      BY <1>1, <2>1, <2>2
    <3>. HIDE DEF a, b, c
    <3>2. c <= a + (m + n)
      BY <3>1
    <3>. QED BY <3>2 DEF a, c
  <2>. QED BY <2>2, <2>3, <2>4, <2>5
<1>. QED BY <1>2, <1>3 DEF Sent

\* SendPackets sends one packet after the other, at most n.
LEMMA SendPacketsSent ==
  ASSUME NEW f \in Flows, Packets[f] \in Nat, NEW s \in Sources, s.highest_sent <= Packets[f],
         NEW n \in Nat
  PROVE  Sent(f, s, SendPackets(f, s, n), n)
<1>. DEFINE Steps(h) == h = [i \in 0..n |-> IF i = 0 THEN s ELSE SendPacket(f, h[i - 1])]
            sent == CHOOSE h : Steps(h)
            D == {t \in Sources : t.highest_sent <= Packets[f]}
            step == [i \in 1..n |-> [t \in D |-> SendPacket(f, t)]]
<1>1. s \in D
  OBVIOUS
<1>2. \A t \in D : SendPacket(f, t) \in D
  <2>. TAKE t \in D
  <2>1. Sent(f, t, SendPacket(f, t), 1)
    BY OneSent
  <2>. QED BY <2>1 DEF Sent
<1>3. \E h : Steps(h)
  <2>. HIDE DEF D
  <2>1. step \in [1..n -> [D -> D]]
    BY <1>2
  <2>2. RunsOf(D, s, n, step) # {}
    <3>. HIDE DEF step, sent, Steps
    <3>. QED BY <1>1, <2>1, RecursionExists
  <2>3. PICK g \in [0..n -> D] : g[0] = s /\ \A i \in 1..n : g[i] = step[i][g[i - 1]]
    <3>. HIDE DEF step, sent, Steps
    <3>. QED BY <2>2 DEF RunsOf
  <2>4. \A i \in 0..n : g[i] = IF i = 0 THEN s ELSE SendPacket(f, g[i - 1])
    <3>. TAKE i \in 0..n
    <3>1. CASE i = 0
      BY <2>3, <3>1
    <3>2. CASE i # 0
      <4>1. i \in 1..n /\ i - 1 \in 0..n
        BY <3>2
      <4>2. g[i - 1] \in D
        BY <4>1
      <4>. QED BY <2>3, <3>2, <4>1, <4>2
    <3>. QED BY <3>1, <3>2
  <2>5. Steps(g)
    <3>. HIDE DEF step
    <3>. QED BY <2>4
  <2>. QED BY <2>5
<1>4. Steps(sent)
  <2>. HIDE DEF Steps
  <2>. QED BY <1>3
<1>5. SendPackets(f, s, n) = sent[n]
  BY DEF SendPackets
<1>. HIDE DEF sent, D, step
<1>. DEFINE S == {i \in Nat : i <= n => Sent(f, s, sent[i], i)}
<1>6. 0 \in S
  <2>1. sent[0] = s
    BY <1>4
  <2>. QED BY <2>1, NoneSent
<1>7. \A i \in Nat : i \in S => i + 1 \in S
  <2>. SUFFICES ASSUME NEW i \in Nat, i \in S, i + 1 <= n PROVE Sent(f, s, sent[i + 1], i + 1)
    OBVIOUS
  <2>1. i + 1 \in 0..n /\ i + 1 # 0 /\ i + 1 - 1 = i /\ i <= n
    OBVIOUS
  <2>2. sent[i + 1] = SendPacket(f, sent[i]) /\ Sent(f, s, sent[i], i)
    BY <1>4, <2>1
  <2>3. sent[i] \in Sources /\ sent[i].highest_sent <= Packets[f]
    BY <2>2 DEF Sent
  <2>4. Sent(f, sent[i], sent[i + 1], 1)
    BY <2>2, <2>3, OneSent
  <2>5. sent[i + 1] \in Sources
    BY <2>4 DEF Sent
  <2>. QED BY <2>2, <2>3, <2>4, <2>5, SentTwice
<1>8. n \in S
  <2>. HIDE DEF S
  <2>. QED BY <1>6, <1>7, NatInductionOnSets
<1>. QED BY <1>5, <1>8

\* t is s after a handler sent at most b packets more than the pulls it took.
Pulled(f, s, t, b) ==
  /\ t \in Sources
  /\ t.started = s.started /\ t.last_acked = s.last_acked
  /\ t.acks = s.acks /\ t.callbacks = s.callbacks
  /\ s.highest_sent <= t.highest_sent /\ t.highest_sent <= Packets[f]
  /\ t.flight - t.highest_sent = s.flight - s.highest_sent
  /\ Len(t.out) - t.last_pull <= Len(s.out) - s.last_pull + b
  /\ \A k \in Seqs : Kept(t, k) = Kept(s, k) + NewlySent(s, t, k)

LEMMA SentIsPulled ==
  ASSUME NEW f \in Flows, NEW s \in Sources, NEW t, NEW n \in Nat, Sent(f, s, t, n)
  PROVE  Pulled(f, s, t, n)
<1>1. t \in Sources
  BY DEF Sent
<1>2. Len(s.out) \in Nat /\ Len(t.out) \in Nat /\ s.last_pull \in Nat
  BY <1>1, SourceFields
<1>3. Len(t.out) <= Len(s.out) + n /\ t.last_pull = s.last_pull
  BY DEF Sent
<1>4. Len(t.out) - t.last_pull <= Len(s.out) - s.last_pull + n
  BY <1>2, <1>3
<1>. QED BY <1>4 DEF Sent, Pulled

\* A pull sends no more than the pulls it stands for.
LEMMA PullPacketsPulled ==
  ASSUME NEW f \in Flows, Packets[f] \in Nat, NEW s \in Sources, s.highest_sent <= Packets[f],
         NEW no \in Nat
  PROVE  Pulled(f, s, PullPackets(f, s, no), 0)
<1>0. s.last_pull \in Nat /\ Len(s.out) \in Nat
  BY SourceFields
<1>1. CASE s.last_pull < no
  <2>. DEFINE n == no - s.last_pull
              t == SendPackets(f, s, n)
              u == [t EXCEPT !.last_pull = no]
  <2>1. n \in Nat
    BY <1>0, <1>1
  <2>2. Sent(f, s, t, n)
    <3>. HIDE DEF n
    <3>. QED BY <2>1, SendPacketsSent
  <2>3. PullPackets(f, s, no) = u
    BY <1>1 DEF PullPackets
  <2>. HIDE DEF t
  <2>4. t \in Sources /\ Len(t.out) <= Len(s.out) + n
    BY <2>2 DEF Sent
  <2>5. /\ u \in Sources /\ u.last_pull = no
        /\ u.started = t.started /\ u.last_acked = t.last_acked
        /\ u.acks = t.acks /\ u.callbacks = t.callbacks
        /\ u.highest_sent = t.highest_sent /\ u.flight = t.flight
        /\ u.out = t.out /\ u.rtx_queue = t.rtx_queue
    BY <2>4 DEF Sources
  <2>. HIDE DEF u
  <2>6. Len(u.out) - u.last_pull <= Len(s.out) - s.last_pull + 0
    <3>1. Len(t.out) \in Nat
      BY <2>4, SourceFields
    <3>. QED BY <1>0, <2>4, <2>5, <3>1
  <2>7. \A k \in Seqs : Kept(u, k) = Kept(t, k) /\ NewlySent(s, u, k) = NewlySent(s, t, k)
    BY <2>5 DEF Kept, NewlySent
  <2>. HIDE DEF n
  <2>8. Pulled(f, s, u, 0)
    BY <2>2, <2>5, <2>6, <2>7 DEF Sent, Pulled
  <2>. QED BY <2>3, <2>8
<1>2. CASE ~(s.last_pull < no)
  <2>1. PullPackets(f, s, no) = s
    BY <1>2 DEF PullPackets
  <2>2. Sent(f, s, s, 0)
    BY NoneSent
  <2>. QED BY <2>1, <2>2, SentIsPulled
<1>. QED BY <1>1, <1>2

-----------------------------------------------------------------------------
(* Messages to a source.                                                   *)

Messages ==
  [type : {"ACK", "NACK", "RTS", "PULL"}, flow : Flows, seq : Seqs, cum : Nat, no : Nat,
   pull : BOOLEAN]
MessagesTo(f, n) == {m \in Messages : m.flow = f /\ m.cum <= n}
Typed(t) == {m \in Messages : m.type = t}
About(t, k) == {m \in Messages : m.type = t /\ m.seq = k}
FinalAcks(n) == {m \in Messages : m.type = "ACK" /\ m.cum >= n}

\* t is s after it has handled m.
Reacted(f, s, t, m) ==
  /\ t \in Sources
  /\ t.started = s.started /\ t.last_acked <= Packets[f]
  /\ t.acks = s.acks + Hit(m, Typed("ACK"))
  /\ t.callbacks = s.callbacks + Hit(m, FinalAcks(Packets[f]))
  /\ s.highest_sent <= t.highest_sent /\ t.highest_sent <= Packets[f]
  /\ t.flight - t.highest_sent = s.flight - s.highest_sent - Hit(m, Typed("ACK"))
  /\ Len(t.out) - t.last_pull <= Len(s.out) - s.last_pull + Hit(m, Typed("RTS"))
  /\ \A k \in Seqs :
       Kept(t, k) = Kept(s, k) + Hit(m, About("RTS", k)) + Hit(m, About("NACK", k))
                      + NewlySent(s, t, k)

LEMMA MessageFields ==
  ASSUME NEW f, NEW n, NEW m \in MessagesTo(f, n)
  PROVE  /\ m \in Messages /\ m.type \in {"ACK", "NACK", "RTS", "PULL"} /\ m.flow = f
         /\ m.seq \in Seqs /\ m.cum \in Nat /\ m.cum <= n /\ m.no \in Nat /\ m.pull \in BOOLEAN
  BY DEF MessagesTo, Messages

\* What each type of message counts for.
LEMMA HitsOfTypes ==
  ASSUME NEW m \in Messages
  PROVE  /\ Hit(m, Typed("ACK")) = IF m.type = "ACK" THEN 1 ELSE 0
         /\ Hit(m, Typed("RTS")) = IF m.type = "RTS" THEN 1 ELSE 0
         /\ \A n : Hit(m, FinalAcks(n)) = IF m.type = "ACK" /\ m.cum >= n THEN 1 ELSE 0
         /\ \A k : Hit(m, About("RTS", k)) = IF m.type = "RTS" /\ m.seq = k THEN 1 ELSE 0
         /\ \A k : Hit(m, About("NACK", k)) = IF m.type = "NACK" /\ m.seq = k THEN 1 ELSE 0
  BY DEF Hit, Typed, FinalAcks, About

\* A packet that came back waits in front of or behind the others.
LEMMA KeptGrows ==
  ASSUME NEW s \in Sources, NEW t \in Sources, NEW e \in Seqs, t.out = s.out,
         t.rtx_queue = <<e>> \o s.rtx_queue \/ t.rtx_queue = Append(s.rtx_queue, e)
  PROVE  \A k \in Seqs : Kept(t, k) = Kept(s, k) + (IF e = k THEN 1 ELSE 0)
<1>. SUFFICES ASSUME NEW k \in Seqs
              PROVE  Kept(t, k) = Kept(s, k) + (IF e = k THEN 1 ELSE 0)
  OBVIOUS
<1>0. s.rtx_queue \in Seq(Seqs) /\ s.out \in Seq(Seqs)
  BY SourceFields
<1>1. Count(t.rtx_queue, {k}) = Count(s.rtx_queue, {k}) + (IF e \in {k} THEN 1 ELSE 0)
  <2>1. CASE t.rtx_queue = <<e>> \o s.rtx_queue
    BY <1>0, <2>1, CountCons
  <2>2. CASE t.rtx_queue = Append(s.rtx_queue, e)
    BY <1>0, <2>2, CountAppend
  <2>. QED BY <2>1, <2>2
<1>2. Count(s.rtx_queue, {k}) \in Nat /\ Count(s.out, {k}) \in Nat
  BY <1>0, CountType
<1>3. (IF e \in {k} THEN 1 ELSE 0) = IF e = k THEN 1 ELSE 0
  OBVIOUS
<1>. QED BY <1>1, <1>2, <1>3 DEF Kept

\* A handler that first records m in u and then sends.
LEMMA RecordedThenSent ==
  ASSUME NEW f \in Flows, NEW m \in Messages, NEW s \in Sources, NEW u \in Sources, NEW t,
         u.started = s.started, u.last_acked <= Packets[f],
         u.acks = s.acks + Hit(m, Typed("ACK")),
         u.callbacks = s.callbacks + Hit(m, FinalAcks(Packets[f])),
         u.highest_sent = s.highest_sent, u.last_pull = s.last_pull, u.out = s.out,
         u.flight = s.flight - Hit(m, Typed("ACK")),
         \A k \in Seqs : Kept(u, k) = Kept(s, k) + Hit(m, About("RTS", k)) + Hit(m, About("NACK", k)),
         NEW b \in Nat, b <= Hit(m, Typed("RTS")), Pulled(f, u, t, b)
  PROVE  Reacted(f, s, t, m)
<1>1. t \in Sources
  BY DEF Pulled
<1>2. /\ s.highest_sent \in Nat /\ t.highest_sent \in Nat /\ s.flight \in Int /\ t.flight \in Int
      /\ s.last_pull \in Nat /\ t.last_pull \in Nat /\ Len(s.out) \in Nat /\ Len(t.out) \in Nat
      /\ Hit(m, Typed("ACK")) \in Nat /\ Hit(m, Typed("RTS")) \in Nat
  BY <1>1, SourceFields DEF Hit
<1>3. t.flight - t.highest_sent = s.flight - s.highest_sent - Hit(m, Typed("ACK"))
  <2>1. t.flight - t.highest_sent = u.flight - u.highest_sent
    BY DEF Pulled
  <2>. QED BY <1>2, <2>1
<1>4. Len(t.out) - t.last_pull <= Len(s.out) - s.last_pull + Hit(m, Typed("RTS"))
  <2>1. Len(t.out) - t.last_pull <= Len(s.out) - s.last_pull + b
    BY DEF Pulled
  <2>. DEFINE x == Len(t.out)
              y == Len(s.out)
              h == Hit(m, Typed("RTS"))
  <2>2. x \in Nat /\ y \in Nat /\ h \in Nat /\ x - t.last_pull <= y - s.last_pull + b /\ b <= h
    BY <1>2, <2>1
  <2>. HIDE DEF x, y, h
  <2>3. x - t.last_pull <= y - s.last_pull + h
    BY <1>2, <2>2
  <2>. QED BY <2>3 DEF x, y, h
<1>5. \A k \in Seqs :
        Kept(t, k) = Kept(s, k) + Hit(m, About("RTS", k)) + Hit(m, About("NACK", k))
                       + NewlySent(s, t, k)
  <2>. TAKE k \in Seqs
  <2>1. Kept(t, k) = Kept(u, k) + NewlySent(u, t, k)
    BY DEF Pulled
  <2>2. NewlySent(u, t, k) = NewlySent(s, t, k)
    BY DEF NewlySent
  <2>. QED BY <2>1, <2>2
<1>6. s.highest_sent <= t.highest_sent /\ t.highest_sent <= Packets[f]
      /\ t.started = s.started /\ t.last_acked <= Packets[f]
      /\ t.acks = s.acks + Hit(m, Typed("ACK"))
      /\ t.callbacks = s.callbacks + Hit(m, FinalAcks(Packets[f]))
  BY DEF Pulled
<1>. QED BY <1>1, <1>3, <1>4, <1>5, <1>6 DEF Reacted

LEMMA RtsHandled ==
  ASSUME NEW f \in Flows, Packets[f] \in Nat, NEW s \in Sources, s.highest_sent <= Packets[f],
         s.last_acked <= Packets[f], NEW m \in Messages, m.type = "RTS"
  PROVE  Reacted(f, s, ProcessRTS(f, s, m), m)
<1>. DEFINE win == s.first_window - 1
            bounces == s.bounces + 1
            rtx == <<m.seq>> \o s.rtx_queue
            u == [s EXCEPT !.first_window = win, !.bounces = bounces, !.rtx_queue = rtx]
            t == ProcessRTS(f, s, m)
<1>0. /\ s.first_window \in Int /\ s.bounces \in Nat /\ s.rtx_queue \in Seq(Seqs) /\ m.seq \in Seqs
      /\ s.acks \in Nat /\ s.callbacks \in Nat /\ s.flight \in Int
  BY SourceFields DEF Messages
<1>1. rtx \in Seq(Seqs) /\ win \in Int /\ bounces \in Nat
  BY <1>0
<1>3. t = u \/ t = SendPacket(f, u)
  BY DEF ProcessRTS
<1>. HIDE DEF win, bounces, rtx
<1>2. /\ u \in Sources /\ u.rtx_queue = rtx /\ u.out = s.out
      /\ u.started = s.started /\ u.last_acked = s.last_acked /\ u.acks = s.acks
      /\ u.callbacks = s.callbacks /\ u.highest_sent = s.highest_sent
      /\ u.last_pull = s.last_pull /\ u.flight = s.flight
  BY <1>0, <1>1 DEF Sources
<1>. HIDE DEF u, t
<1>4. Pulled(f, u, t, 1)
  <2>1. Sent(f, u, u, 1) /\ Sent(f, u, SendPacket(f, u), 1)
    BY <1>2, NoneSent, OneSent
  <2>. QED BY <1>2, <1>3, <2>1, SentIsPulled
<1>5. /\ Hit(m, Typed("ACK")) = 0 /\ Hit(m, Typed("RTS")) = 1 /\ Hit(m, FinalAcks(Packets[f])) = 0
      /\ \A k : /\ Hit(m, About("RTS", k)) = IF m.seq = k THEN 1 ELSE 0
                /\ Hit(m, About("NACK", k)) = 0
  BY HitsOfTypes
<1>6. \A k \in Seqs : Kept(u, k) = Kept(s, k) + Hit(m, About("RTS", k)) + Hit(m, About("NACK", k))
  <2>1. \A k \in Seqs : Kept(u, k) = Kept(s, k) + (IF m.seq = k THEN 1 ELSE 0)
    BY <1>0, <1>2, KeptGrows DEF rtx
  <2>2. \A k \in Seqs : Kept(s, k) \in Nat
    BY KeptType
  <2>. QED BY <1>5, <2>1, <2>2
<1>7. /\ u.acks = s.acks + Hit(m, Typed("ACK")) /\ u.flight = s.flight - Hit(m, Typed("ACK"))
      /\ u.callbacks = s.callbacks + Hit(m, FinalAcks(Packets[f])) /\ 1 <= Hit(m, Typed("RTS"))
  BY <1>0, <1>2, <1>5
<1>8. Reacted(f, s, t, m)
  BY <1>2, <1>4, <1>6, <1>7, RecordedThenSent
<1>. QED BY <1>8 DEF t

LEMMA NackHandled ==
  ASSUME NEW f \in Flows, Packets[f] \in Nat, NEW s \in Sources, s.highest_sent <= Packets[f],
         s.last_acked <= Packets[f], NEW m \in Messages, m.type = "NACK"
  PROVE  Reacted(f, s, ProcessNack(f, s, m), m)
<1>. DEFINE pulls == s.pull_window + 1
            win == s.first_window - 1
            nacks == s.nacks + 1
            rtx == Append(s.rtx_queue, m.seq)
            u == [s EXCEPT !.pull_window = pulls, !.first_window = win, !.nacks = nacks,
                           !.rtx_queue = rtx]
            no == IF m.pull THEN m.no ELSE 0
            t == ProcessNack(f, s, m)
<1>0. /\ s.pull_window \in Int /\ s.first_window \in Int /\ s.nacks \in Nat
      /\ s.rtx_queue \in Seq(Seqs) /\ m.seq \in Seqs /\ m.no \in Nat
      /\ s.acks \in Nat /\ s.callbacks \in Nat /\ s.flight \in Int
  BY SourceFields DEF Messages
<1>1. rtx \in Seq(Seqs) /\ no \in Nat /\ pulls \in Int /\ win \in Int /\ nacks \in Nat
  BY <1>0
<1>3. t = PullPackets(f, u, no)
  BY DEF ProcessNack
<1>. HIDE DEF rtx, no, pulls, win, nacks
<1>2. /\ u \in Sources /\ u.rtx_queue = rtx /\ u.out = s.out
      /\ u.started = s.started /\ u.last_acked = s.last_acked /\ u.acks = s.acks
      /\ u.callbacks = s.callbacks /\ u.highest_sent = s.highest_sent
      /\ u.last_pull = s.last_pull /\ u.flight = s.flight
  BY <1>0, <1>1 DEF Sources
<1>. HIDE DEF u, t
<1>4. Pulled(f, u, t, 0)
  BY <1>1, <1>2, <1>3, PullPacketsPulled
<1>5. /\ Hit(m, Typed("ACK")) = 0 /\ Hit(m, Typed("RTS")) = 0 /\ Hit(m, FinalAcks(Packets[f])) = 0
      /\ \A k : /\ Hit(m, About("NACK", k)) = IF m.seq = k THEN 1 ELSE 0
                /\ Hit(m, About("RTS", k)) = 0
  BY HitsOfTypes
<1>6. \A k \in Seqs : Kept(u, k) = Kept(s, k) + Hit(m, About("RTS", k)) + Hit(m, About("NACK", k))
  <2>1. \A k \in Seqs : Kept(u, k) = Kept(s, k) + (IF m.seq = k THEN 1 ELSE 0)
    BY <1>0, <1>2, KeptGrows DEF rtx
  <2>2. \A k \in Seqs : Kept(s, k) \in Nat
    BY KeptType
  <2>. QED BY <1>5, <2>1, <2>2
<1>7. /\ u.acks = s.acks + Hit(m, Typed("ACK")) /\ u.flight = s.flight - Hit(m, Typed("ACK"))
      /\ u.callbacks = s.callbacks + Hit(m, FinalAcks(Packets[f])) /\ 0 <= Hit(m, Typed("RTS"))
  BY <1>0, <1>2, <1>5
<1>8. Reacted(f, s, t, m)
  BY <1>2, <1>4, <1>6, <1>7, RecordedThenSent
<1>. QED BY <1>8 DEF t

LEMMA PullHandled ==
  ASSUME NEW f \in Flows, Packets[f] \in Nat, NEW s \in Sources, s.highest_sent <= Packets[f],
         s.last_acked <= Packets[f], NEW m \in Messages, m.type = "PULL", m.cum <= Packets[f]
  PROVE  Reacted(f, s, ProcessPull(f, s, m), m)
<1>. DEFINE cum == IF s.last_acked < m.cum THEN m.cum ELSE s.last_acked
            pulls == s.pull_window - 1
            u == [s EXCEPT !.pull_window = pulls, !.last_acked = cum]
            t == ProcessPull(f, s, m)
<1>0. /\ s.pull_window \in Int /\ s.last_acked \in Nat /\ m.cum \in Nat /\ m.no \in Nat
      /\ s.acks \in Nat /\ s.callbacks \in Nat /\ s.flight \in Int
  BY SourceFields DEF Messages
<1>1. cum \in Nat /\ cum <= Packets[f] /\ pulls \in Int
  BY <1>0
<1>2. t = PullPackets(f, u, m.no)
  BY DEF ProcessPull
<1>. HIDE DEF cum, pulls
<1>3. /\ u \in Sources /\ u.rtx_queue = s.rtx_queue /\ u.out = s.out
      /\ u.started = s.started /\ u.last_acked = cum /\ u.acks = s.acks
      /\ u.callbacks = s.callbacks /\ u.highest_sent = s.highest_sent
      /\ u.last_pull = s.last_pull /\ u.flight = s.flight
  BY <1>0, <1>1 DEF Sources
<1>. HIDE DEF u, t
<1>4. Pulled(f, u, t, 0)
  BY <1>0, <1>2, <1>3, PullPacketsPulled
<1>5. /\ Hit(m, Typed("ACK")) = 0 /\ Hit(m, Typed("RTS")) = 0 /\ Hit(m, FinalAcks(Packets[f])) = 0
      /\ \A k : Hit(m, About("NACK", k)) = 0 /\ Hit(m, About("RTS", k)) = 0
  BY HitsOfTypes
<1>6. \A k \in Seqs : Kept(u, k) = Kept(s, k) + Hit(m, About("RTS", k)) + Hit(m, About("NACK", k))
  <2>1. \A k \in Seqs : Kept(u, k) = Kept(s, k) /\ Kept(s, k) \in Nat
    BY <1>3, KeptType DEF Kept
  <2>. QED BY <1>5, <2>1
<1>7. /\ u.acks = s.acks + Hit(m, Typed("ACK")) /\ u.flight = s.flight - Hit(m, Typed("ACK"))
      /\ u.callbacks = s.callbacks + Hit(m, FinalAcks(Packets[f])) /\ 0 <= Hit(m, Typed("RTS"))
  BY <1>0, <1>3, <1>5
<1>8. Reacted(f, s, t, m)
  BY <1>1, <1>3, <1>4, <1>6, <1>7, RecordedThenSent
<1>. QED BY <1>8 DEF t

LEMMA AckHandled ==
  ASSUME NEW f \in Flows, Packets[f] \in Nat, NEW s \in Sources, s.highest_sent <= Packets[f],
         s.last_acked <= Packets[f], NEW m \in Messages, m.type = "ACK", m.cum <= Packets[f]
  PROVE  Reacted(f, s, ProcessAck(f, s, m), m)
<1>. DEFINE cum == IF s.last_acked < m.cum THEN m.cum ELSE s.last_acked
            win == IF m.pull THEN s.pull_window ELSE s.pull_window + 1
            calls == IF m.cum >= Packets[f] THEN s.callbacks + 1 ELSE s.callbacks
            no == IF m.pull THEN m.no ELSE 0
            first == s.first_window - 1
            acks == s.acks + 1
            flight == s.flight - 1
            u == [s EXCEPT !.pull_window = win, !.first_window = first, !.acks = acks,
                           !.last_acked = cum, !.flight = flight, !.callbacks = calls]
            t == ProcessAck(f, s, m)
<1>0. /\ s.pull_window \in Int /\ s.first_window \in Int /\ s.last_acked \in Nat
      /\ m.cum \in Nat /\ m.no \in Nat /\ s.acks \in Nat /\ s.callbacks \in Nat /\ s.flight \in Int
  BY SourceFields DEF Messages
<1>1. cum \in Nat /\ cum <= Packets[f] /\ win \in Int /\ calls \in Nat /\ no \in Nat
      /\ first \in Int /\ acks \in Nat /\ flight \in Int
  BY <1>0
<1>2. t = PullPackets(f, u, no)
  BY DEF ProcessAck
<1>. HIDE DEF cum, win, calls, no, first, acks, flight
<1>3. /\ u \in Sources /\ u.rtx_queue = s.rtx_queue /\ u.out = s.out
      /\ u.started = s.started /\ u.last_acked = cum /\ u.acks = acks
      /\ u.callbacks = calls /\ u.highest_sent = s.highest_sent
      /\ u.last_pull = s.last_pull /\ u.flight = flight
  BY <1>0, <1>1 DEF Sources
<1>. HIDE DEF u, t
<1>4. Pulled(f, u, t, 0)
  BY <1>1, <1>2, <1>3, PullPacketsPulled
<1>5. /\ Hit(m, Typed("ACK")) = 1 /\ Hit(m, Typed("RTS")) = 0
      /\ Hit(m, FinalAcks(Packets[f])) = IF m.cum >= Packets[f] THEN 1 ELSE 0
      /\ \A k : Hit(m, About("NACK", k)) = 0 /\ Hit(m, About("RTS", k)) = 0
  BY HitsOfTypes
<1>6. \A k \in Seqs : Kept(u, k) = Kept(s, k) + Hit(m, About("RTS", k)) + Hit(m, About("NACK", k))
  <2>1. \A k \in Seqs : Kept(u, k) = Kept(s, k) /\ Kept(s, k) \in Nat
    BY <1>3, KeptType DEF Kept
  <2>. QED BY <1>5, <2>1
<1>7. /\ u.acks = s.acks + Hit(m, Typed("ACK")) /\ u.flight = s.flight - Hit(m, Typed("ACK"))
      /\ u.callbacks = s.callbacks + Hit(m, FinalAcks(Packets[f])) /\ 0 <= Hit(m, Typed("RTS"))
  BY <1>0, <1>3, <1>5 DEF calls, acks, flight
<1>8. Reacted(f, s, t, m)
  BY <1>1, <1>3, <1>4, <1>6, <1>7, RecordedThenSent
<1>. QED BY <1>8 DEF t

LEMMA FeedbackHandled ==
  ASSUME NEW f \in Flows, Packets[f] \in Nat, NEW s \in Sources, s.highest_sent <= Packets[f],
         s.last_acked <= Packets[f], NEW m \in MessagesTo(f, Packets[f])
  PROVE  Reacted(f, s, ReceiveFeedback(f, s, m), m)
<1>1. m \in Messages /\ m.cum <= Packets[f] /\ m.type \in {"ACK", "NACK", "RTS", "PULL"}
  BY MessageFields
<1>2. CASE m.type = "RTS"
  BY <1>1, <1>2, RtsHandled DEF ReceiveFeedback
<1>3. CASE m.type = "NACK"
  BY <1>1, <1>3, NackHandled DEF ReceiveFeedback
<1>4. CASE m.type = "PULL"
  BY <1>1, <1>4, PullHandled DEF ReceiveFeedback
<1>5. CASE m.type = "ACK"
  BY <1>1, <1>5, AckHandled DEF ReceiveFeedback
<1>. QED BY <1>1, <1>2, <1>3, <1>4, <1>5

-----------------------------------------------------------------------------
(* The sink.                                                               *)

Sinks == [cumulative_ack : Nat, received : SUBSET Seqs, pull_no : Nat, last_seen : BOOLEAN]
Got(s) == 1..s.cumulative_ack \cup s.received

LEMMA SinkFields ==
  ASSUME NEW s \in Sinks
  PROVE  /\ s.cumulative_ack \in Nat /\ s.received \in SUBSET Seqs /\ s.pull_no \in Nat
         /\ s.last_seen \in BOOLEAN
  BY DEF Sinks

\* Whatever the order of arrival, the sink has what it had and packet k.
LEMMA Absorbed ==
  ASSUME NEW f \in Flows, Packets[f] \in Nat, sink[f] \in Sinks,
         sink[f].cumulative_ack <= Packets[f], NEW k \in Seqs
  PROVE  /\ Absorb(f, k) \in Sinks /\ Absorb(f, k).pull_no = sink[f].pull_no + 1
         /\ Absorb(f, k).cumulative_ack <= Packets[f]
         /\ Got(Absorb(f, k)) = Got(sink[f]) \cup {k}
<1>. DEFINE s == sink[f]
            got == s.received \cup {k}
            C == {c \in s.cumulative_ack..Packets[f] : s.cumulative_ack + 1..c \subseteq got}
            cum == Max(C)
            rest == {j \in got : j > cum}
            seen == s.last_seen \/ k = Packets[f]
            no == s.pull_no + 1
            t == Absorb(f, k)
<1>1. s.cumulative_ack \in Nat /\ s.received \in SUBSET Seqs /\ s.pull_no \in Nat
  BY SinkFields
<1>2. cum \in C
  <2>1. C \in SUBSET Nat /\ \A y \in C : y <= Packets[f]
    BY <1>1
  <2>2. s.cumulative_ack \in C
    BY <1>1
  <2>. HIDE DEF C
  <2>3. C # {}
    BY <2>2
  <2>. QED BY <2>1, <2>3, MaxOfNaturals
<1>3. t = [s EXCEPT !.cumulative_ack = cum, !.received = rest, !.last_seen = seen, !.pull_no = no]
  BY DEF Absorb
<1>4. /\ cum \in Nat /\ s.cumulative_ack <= cum /\ cum <= Packets[f]
      /\ s.cumulative_ack + 1..cum \subseteq got
  <2>. HIDE DEF cum, got
  <2>. QED BY <1>1, <1>2
<1>5. got \in SUBSET Seqs /\ no \in Nat /\ seen \in BOOLEAN /\ s \in Sinks
  BY <1>1
<1>. HIDE DEF cum, C, got, seen, no, s
<1>6. rest \in SUBSET Seqs
  BY <1>5
<1>7. 1..cum \cup rest = 1..s.cumulative_ack \cup got
  <2>1. ASSUME NEW j \in 1..cum PROVE j \in 1..s.cumulative_ack \cup got
    <3>1. CASE j <= s.cumulative_ack
      BY <1>4, <3>1
    <3>2. CASE ~(j <= s.cumulative_ack)
      <4>1. j \in s.cumulative_ack + 1..cum
        BY <1>1, <1>4, <3>2 DEF s
      <4>. QED BY <1>4, <4>1
    <3>. QED BY <3>1, <3>2
  <2>2. ASSUME NEW j \in got PROVE j \in 1..cum \cup rest
    <3>1. j \in Nat \ {0}
      BY <1>5 DEF Seqs
    <3>. QED BY <1>4, <3>1
  <2>3. 1..s.cumulative_ack \subseteq 1..cum
    BY <1>1, <1>4 DEF s
  <2>. QED BY <2>1, <2>2, <2>3
<1>. HIDE DEF rest, t
<1>8. /\ t \in Sinks /\ t.cumulative_ack = cum /\ t.received = rest /\ t.pull_no = no
  BY <1>3, <1>4, <1>5, <1>6 DEF Sinks
<1>9. Got(t) = Got(s) \cup {k}
  BY <1>7, <1>8 DEF Got, got
<1>. QED BY <1>4, <1>8, <1>9 DEF t, s, no

-----------------------------------------------------------------------------
(* The pacer.                                                              *)

PullsTo(f, n) == {m \in MessagesTo(f, n) : m.type = "PULL"}
PullMaps == UNION {[D -> Seq(Messages)] : D \in SUBSET Flows}
Pacers(n) ==
  {p \in [pulls : PullMaps, current : Nat, elapsed : BOOLEAN, timers : Nat, due : Nat] :
     /\ \A f \in DOMAIN p.pulls : p.pulls[f] \in Seq(PullsTo(f, n[f]))
     /\ p.current \in DOMAIN p.pulls \cup {NFlows + 1}}

LEMMA PacerFields ==
  ASSUME NEW n, NEW p \in Pacers(n)
  PROVE  /\ p.current \in Nat /\ p.elapsed \in BOOLEAN /\ p.timers \in Nat /\ p.due \in Nat
         /\ p.pulls \in [DOMAIN p.pulls -> Seq(Messages)] /\ DOMAIN p.pulls \subseteq Flows
         /\ \A f \in DOMAIN p.pulls : p.pulls[f] \in Seq(PullsTo(f, n[f]))
         /\ p.current \in DOMAIN p.pulls \cup {NFlows + 1}
<1>1. p \in [pulls : PullMaps, current : Nat, elapsed : BOOLEAN, timers : Nat, due : Nat]
      /\ (\A f \in DOMAIN p.pulls : p.pulls[f] \in Seq(PullsTo(f, n[f])))
      /\ p.current \in DOMAIN p.pulls \cup {NFlows + 1}
  BY DEF Pacers
<1>2. p.pulls \in PullMaps /\ p.current \in Nat /\ p.elapsed \in BOOLEAN /\ p.timers \in Nat
      /\ p.due \in Nat
  BY <1>1
<1>3. PICK D \in SUBSET Flows : p.pulls \in [D -> Seq(Messages)]
  BY <1>2 DEF PullMaps
<1>. QED BY <1>1, <1>2, <1>3

LEMMA PacerMade ==
  ASSUME NEW n, NEW D \in SUBSET Flows, NEW pulls \in [D -> Seq(Messages)],
         \A f \in D : pulls[f] \in Seq(PullsTo(f, n[f])),
         NEW p \in Pacers(n), NEW current \in D \cup {NFlows + 1},
         NEW q, q = [p EXCEPT !.pulls = pulls, !.current = current]
  PROVE  q \in Pacers(n) /\ q.pulls = pulls
<1>1. p \in [pulls : PullMaps, current : Nat, elapsed : BOOLEAN, timers : Nat, due : Nat]
  BY DEF Pacers
<1>2. pulls \in PullMaps
  BY DEF PullMaps
<1>3. current \in Nat
  BY NdpAssumption DEF Flows
<1>4. /\ q \in [pulls : PullMaps, current : Nat, elapsed : BOOLEAN, timers : Nat, due : Nat]
      /\ q.pulls = pulls /\ q.current = current
  BY <1>1, <1>2, <1>3
<1>5. q \in Pacers(n)
  BY <1>4 DEF Pacers
<1>. QED BY <1>4, <1>5

\* The clocks of the pacer have no part in that.
LEMMA PacerTicks ==
  ASSUME NEW n, NEW p \in Pacers(n), NEW elapsed \in BOOLEAN, NEW timers \in Nat, NEW due \in Nat
  PROVE  /\ [p EXCEPT !.elapsed = elapsed, !.timers = timers, !.due = due] \in Pacers(n)
         /\ [p EXCEPT !.elapsed = elapsed, !.timers = timers, !.due = due].pulls = p.pulls
<1>. DEFINE q == [p EXCEPT !.elapsed = elapsed, !.timers = timers, !.due = due]
<1>1. p \in [pulls : PullMaps, current : Nat, elapsed : BOOLEAN, timers : Nat, due : Nat]
  BY DEF Pacers
<1>2. /\ q \in [pulls : PullMaps, current : Nat, elapsed : BOOLEAN, timers : Nat, due : Nat]
      /\ q.pulls = p.pulls /\ q.current = p.current
  BY <1>1
<1>. HIDE DEF q
<1>3. q \in Pacers(n)
  BY <1>2 DEF Pacers
<1>. QED BY <1>2, <1>3 DEF q

\* The entry after f is another one, or the end of the map.
LEMMA AfterType ==
  ASSUME NEW n, NEW p \in Pacers(n), NEW f \in Flows
  PROVE  After(p, f) \in (DOMAIN p.pulls \ {f}) \cup {NFlows + 1}
<1>. DEFINE T == {g \in Entries(p) : g > f} \cup {NFlows + 1}
<1>1. T \in SUBSET Nat /\ T # {}
  BY PacerFields, NdpAssumption DEF Entries, Flows
<1>2. Min(T) \in T
  <2>. HIDE DEF T
  <2>. QED BY <1>1, MinOfNaturals
<1>3. \A g \in T : g \in (DOMAIN p.pulls \ {f}) \cup {NFlows + 1}
  BY DEF Entries, Flows
<1>4. After(p, f) = Min(T)
  BY DEF After
<1>. HIDE DEF T
<1>. QED BY <1>2, <1>3, <1>4

LEMMA Flushed ==
  ASSUME NEW n, NEW p \in Pacers(n), NEW f \in Flows
  PROVE  FlushFlow(p, f) \in Pacers(n)
<1>1. CASE f \notin Entries(p)
  BY <1>1 DEF FlushFlow
<1>2. CASE f \in Entries(p)
  <2>. DEFINE D == Entries(p) \ {f}
              pulls == [g \in D |-> p.pulls[g]]
              current == IF p.current = f THEN After(p, f) ELSE p.current
  <2>1. D \in SUBSET Flows /\ pulls \in [D -> Seq(Messages)]
        /\ \A g \in D : pulls[g] \in Seq(PullsTo(g, n[g]))
    BY PacerFields DEF Entries
  <2>2. current \in D \cup {NFlows + 1}
    BY PacerFields, AfterType DEF Entries
  <2>3. FlushFlow(p, f) = [p EXCEPT !.pulls = pulls, !.current = current]
    BY <1>2 DEF FlushFlow
  <2>. DEFINE q == FlushFlow(p, f)
  <2>. HIDE DEF D, pulls, current, q
  <2>4. q = [p EXCEPT !.pulls = pulls, !.current = current]
    BY <2>3 DEF q
  <2>5. \A g \in D : pulls[g] \in Seq(PullsTo(g, n[g]))
    BY <2>1
  <2>6. q \in Pacers(n)
    BY <2>1, <2>2, <2>4, <2>5, PacerMade, ZenonT(60)
  <2>. QED BY <2>6 DEF q
<1>. QED BY <1>1, <1>2

LEMMA Enqueued ==
  ASSUME NEW n, NEW p \in Pacers(n), NEW f \in Flows, NEW m \in PullsTo(f, n[f])
  PROVE  Enqueue(p, m) \in Pacers(n)
<1>0. m.flow = f /\ m \in Messages
  BY DEF PullsTo, MessagesTo
<1>. DEFINE D == Entries(p) \cup {m.flow}
            old(g) == IF g \in Entries(p) THEN p.pulls[g] ELSE <<>>
            pulls == [g \in D |-> IF g = m.flow THEN Append(old(m.flow), m) ELSE p.pulls[g]]
<1>1. D \in SUBSET Flows
  BY <1>0, PacerFields DEF Entries
<1>2. old(f) \in Seq(PullsTo(f, n[f])) /\ old(f) \in Seq(Messages)
  <2>1. CASE f \in Entries(p)
    BY <2>1, PacerFields DEF Entries
  <2>2. CASE f \notin Entries(p)
    BY <2>2
  <2>. QED BY <2>1, <2>2
<1>3. Append(old(f), m) \in Seq(PullsTo(f, n[f])) /\ Append(old(f), m) \in Seq(Messages)
  <2>. HIDE DEF old
  <2>. QED BY <1>0, <1>2
<1>4. \A g \in D : pulls[g] = IF g = f THEN Append(old(f), m) ELSE p.pulls[g]
  BY <1>0
<1>5. \A g \in D : g # f => p.pulls[g] \in Seq(PullsTo(g, n[g])) /\ p.pulls[g] \in Seq(Messages)
  BY <1>0, PacerFields DEF Entries
<1>6. Enqueue(p, m) = [p EXCEPT !.pulls = pulls]
  BY DEF Enqueue
<1>7. p.current \in D \cup {NFlows + 1}
  BY PacerFields DEF Entries
<1>8. pulls \in [D -> Seq(Messages)] /\ \A g \in D : pulls[g] \in Seq(PullsTo(g, n[g]))
  <2>1. \A g \in D : pulls[g] \in Seq(Messages) /\ pulls[g] \in Seq(PullsTo(g, n[g]))
    <3>. HIDE DEF old, D, pulls
    <3>. QED BY <1>3, <1>4, <1>5
  <2>2. pulls = [g \in D |-> pulls[g]]
    OBVIOUS
  <2>. HIDE DEF pulls, D
  <2>. QED BY <2>1, <2>2
<1>. HIDE DEF pulls, D, old
<1>9. [p EXCEPT !.pulls = pulls] = [p EXCEPT !.pulls = pulls, !.current = p.current]
  <2>1. p \in [pulls : PullMaps, current : Nat, elapsed : BOOLEAN, timers : Nat, due : Nat]
    BY DEF Pacers
  <2>. QED BY <2>1
<1>. DEFINE q == Enqueue(p, m)
<1>. HIDE DEF q
<1>b. q = [p EXCEPT !.pulls = pulls, !.current = p.current]
  BY <1>6, <1>9 DEF q
<1>c. \A g \in D : pulls[g] \in Seq(PullsTo(g, n[g]))
  BY <1>8
<1>d. q \in Pacers(n)
  <2>. DEFINE current == p.current
  <2>1. pulls \in [D -> Seq(Messages)]
    BY <1>8
  <2>2. current \in D \cup {NFlows + 1}
    BY <1>7
  <2>3. q = [p EXCEPT !.pulls = pulls, !.current = current]
    BY <1>b
  <2>. HIDE DEF current
  <2>. QED BY <1>1, <1>c, <2>1, <2>2, <2>3, PacerMade, ZenonT(60)
<1>. QED BY <1>d DEF q

LEMMA PacerSent ==
  ASSUME NEW n, NEW p \in Pacers(n), NEW f \in Flows, NEW m \in MessagesTo(f, n[f])
  PROVE  /\ PacerSend(p, m).pacer \in Pacers(n)
         /\ PacerSend(p, m).sent \in {m, [m EXCEPT !.pull = FALSE]}
<1>1. p.elapsed \in BOOLEAN /\ p.timers \in Nat /\ p.due \in Nat
  BY PacerFields
<1>2. CASE NoPulls(p) /\ p.elapsed
  <2>. DEFINE q == [p EXCEPT !.elapsed = FALSE]
  <2>1. PacerSend(p, m) = [pacer |-> q, sent |-> m]
    BY <1>2 DEF PacerSend
  <2>2. q = [p EXCEPT !.elapsed = FALSE, !.timers = p.timers, !.due = p.due]
    <3>1. p \in [pulls : PullMaps, current : Nat, elapsed : BOOLEAN, timers : Nat, due : Nat]
      BY DEF Pacers
    <3>. QED BY <3>1
  <2>3. q \in Pacers(n)
    <3>1. FALSE \in BOOLEAN
      OBVIOUS
    <3>. HIDE DEF q
    <3>. QED BY <1>1, <2>2, <3>1, PacerTicks, ZenonT(60)
  <2>. HIDE DEF q
  <2>. QED BY <2>1, <2>3
<1>3. CASE ~(NoPulls(p) /\ p.elapsed)
  <2>. DEFINE pull == [m EXCEPT !.type = "PULL"]
              e == Enqueue(p, pull)
              q == [e EXCEPT !.timers = IF NoPulls(p) THEN @ + 1 ELSE @]
              timers == IF NoPulls(p) THEN e.timers + 1 ELSE e.timers
  <2>1. PacerSend(p, m) = [pacer |-> q, sent |-> [m EXCEPT !.pull = FALSE]]
    BY <1>3 DEF PacerSend
  <2>2. pull \in PullsTo(f, n[f])
    BY DEF PullsTo, MessagesTo, Messages
  <2>. HIDE DEF pull
  <2>3. e \in Pacers(n)
    BY <2>2, Enqueued
  <2>. HIDE DEF e
  <2>4. e.elapsed \in BOOLEAN /\ e.timers \in Nat /\ e.due \in Nat
    BY <2>3, PacerFields
  <2>5. timers \in Nat
    BY <2>4
  <2>6. q = [e EXCEPT !.elapsed = e.elapsed, !.timers = timers, !.due = e.due]
    <3>1. e \in [pulls : PullMaps, current : Nat, elapsed : BOOLEAN, timers : Nat, due : Nat]
      BY <2>3 DEF Pacers
    <3>2. q = [e EXCEPT !.timers = timers]
      OBVIOUS
    <3>. HIDE DEF q, timers
    <3>. QED BY <3>1, <3>2
  <2>7. q \in Pacers(n)
    <3>. HIDE DEF q, timers
    <3>. QED BY <2>3, <2>4, <2>5, <2>6, PacerTicks, ZenonT(60)
  <2>. HIDE DEF q
  <2>. QED BY <2>1, <2>7
<1>. QED BY <1>2, <1>3

\* dequeue takes the oldest pull of a flow that has one.
LEMMA Dequeued ==
  ASSUME NEW n, NEW p \in Pacers(n), ~NoPulls(p)
  PROVE  /\ NextFlow(p) \in Flows
         /\ Head(p.pulls[NextFlow(p)]) \in PullsTo(NextFlow(p), n[NextFlow(p)])
         /\ Dequeue(p) \in Pacers(n)
<1>. DEFINE f == NextFlow(p)
            waiting == {g \in Entries(p) : p.pulls[g] # <<>>}
            ahead == {g \in waiting : g >= p.current}
<1>1. waiting \in SUBSET Nat /\ waiting # {} /\ ahead \in SUBSET Nat
  <2>1. waiting \in SUBSET Nat /\ ahead \in SUBSET Nat
    BY PacerFields, NdpAssumption DEF Entries, Flows
  <2>2. waiting # {}
    BY DEF NoPulls
  <2>. QED BY <2>1, <2>2
<1>2. f \in waiting
  <2>1. f = IF ahead # {} THEN Min(ahead) ELSE Min(waiting)
    BY DEF NextFlow
  <2>2. ahead \subseteq waiting
    OBVIOUS
  <2>. HIDE DEF ahead, waiting, f
  <2>3. ahead # {} => Min(ahead) \in ahead
    BY <1>1, MinOfNaturals
  <2>4. Min(waiting) \in waiting
    BY <1>1, MinOfNaturals
  <2>. QED BY <2>1, <2>2, <2>3, <2>4
<1>3. f \in DOMAIN p.pulls /\ f \in Flows /\ p.pulls[f] # <<>>
  <2>. HIDE DEF f
  <2>. QED BY <1>2, PacerFields DEF Entries
<1>. HIDE DEF f, waiting, ahead
<1>4. p.pulls[f] \in Seq(PullsTo(f, n[f])) /\ p.pulls[f] \in Seq(Messages)
  BY <1>3, PacerFields
<1>5. Head(p.pulls[f]) \in PullsTo(f, n[f]) /\ Tail(p.pulls[f]) \in Seq(PullsTo(f, n[f]))
      /\ Tail(p.pulls[f]) \in Seq(Messages)
  <2>. DEFINE l == p.pulls[f]
              T == PullsTo(f, n[f])
  <2>1. l \in Seq(T) /\ l \in Seq(Messages) /\ l # <<>>
    BY <1>3, <1>4
  <2>. HIDE DEF l, T
  <2>2. Head(l) \in T /\ Tail(l) \in Seq(T)
    BY <2>1, HeadTailProperties
  <2>3. Tail(l) \in Seq(Messages)
    BY <2>1, HeadTailProperties
  <2>. QED BY <2>2, <2>3 DEF l, T
<1>. DEFINE pulls == [p.pulls EXCEPT ![f] = Tail(@)]
<1>6. pulls \in [DOMAIN p.pulls -> Seq(Messages)]
      /\ \A g \in DOMAIN p.pulls : pulls[g] \in Seq(PullsTo(g, n[g]))
  BY <1>3, <1>5, PacerFields
<1>7. Dequeue(p) = [p EXCEPT !.pulls = pulls, !.current = After(p, f)]
  BY DEF Dequeue, f
<1>8. After(p, f) \in DOMAIN p.pulls \cup {NFlows + 1} /\ DOMAIN p.pulls \in SUBSET Flows
  BY <1>3, AfterType, PacerFields
<1>9. Dequeue(p) \in Pacers(n)
  <2>. DEFINE q == Dequeue(p)
              D == DOMAIN p.pulls
              current == After(p, f)
  <2>1. q = [p EXCEPT !.pulls = pulls, !.current = current]
    BY <1>7
  <2>2. D \in SUBSET Flows /\ current \in D \cup {NFlows + 1} /\ pulls \in [D -> Seq(Messages)]
        /\ \A g \in D : pulls[g] \in Seq(PullsTo(g, n[g]))
    BY <1>6, <1>8
  <2>. HIDE DEF q, D, current, pulls
  <2>3. \A g \in D : pulls[g] \in Seq(PullsTo(g, n[g]))
    BY <2>2
  <2>4. q \in Pacers(n)
    BY <2>1, <2>2, <2>3, PacerMade, ZenonT(60)
  <2>. QED BY <2>4 DEF q
<1>. QED BY <1>3, <1>5, <1>9 DEF f

-----------------------------------------------------------------------------
(* The inductive invariant.                                                *)

Types ==
  /\ setting \in Settings
  /\ src \in [Flows -> Sources] /\ sink \in [Flows -> Sinks] /\ pacer \in Pacers(Packets)
  /\ forward \in [Flows -> Seq(Seqs)] /\ back \in [Flows -> Seq(Messages)]
  /\ queue \in Queues /\ QueueIsSound(queue)
  /\ trims \in 0..MaxTrims
  /\ \A f \in Flows :
       /\ src[f].out = <<>> /\ src[f].highest_sent <= Packets[f] /\ src[f].last_acked <= Packets[f]
       /\ sink[f].cumulative_ack <= Packets[f]
       /\ back[f] \in Seq(MessagesTo(f, Packets[f]))

Arrived(f) == Got(sink[f])

\* Every packet sent is somewhere once, and the others are nowhere.
Copies(f, k) ==
  Count(forward[f], {k}) + Holds(queue, {<<f, k>>}) + Count(back[f], About("RTS", k))
    + Count(back[f], About("NACK", k)) + Count(src[f].rtx_queue, {k}) + Hit(k, Arrived(f))
Ledger == \A f \in Flows : \A k \in Seqs : Copies(f, k) = IF k <= src[f].highest_sent THEN 1 ELSE 0

\* What is in the network, and what the pulls underway may still put into it.
Load(f) ==
  Len(forward[f]) + Holds(queue, {f} \X Seqs) + Count(back[f], Typed("RTS"))
    + (sink[f].pull_no - src[f].last_pull)
Budget == \A f \in Flows : Load(f) <= IF src[f].started THEN Cwnd ELSE 0

\* Each packet received is acknowledged once.
Acknowledged ==
  \A f \in Flows : /\ src[f].acks + Count(back[f], Typed("ACK")) = Cardinality(Arrived(f))
                   /\ src[f].flight = src[f].highest_sent - src[f].acks

\* One acknowledgement, and only one, tells the source that everything has arrived.
Finishing ==
  \A f \in Flows : src[f].callbacks + Count(back[f], FinalAcks(Packets[f]))
                     = IF sink[f].cumulative_ack = Packets[f] THEN 1 ELSE 0

NdpInv == Types /\ Ledger /\ Budget /\ Acknowledged /\ Finishing

LEMMA TypesOfFlow ==
  ASSUME Types, NEW f \in Flows
  PROVE  /\ Packets[f] \in Nat \ {0}
         /\ src[f] \in Sources /\ sink[f] \in Sinks
         /\ forward[f] \in Seq(Seqs) /\ back[f] \in Seq(Messages)
         /\ back[f] \in Seq(MessagesTo(f, Packets[f]))
         /\ src[f].out = <<>> /\ src[f].highest_sent <= Packets[f]
         /\ src[f].last_acked <= Packets[f] /\ sink[f].cumulative_ack <= Packets[f]
<1>1. Packets[f] \in Nat \ {0}
  BY NdpAssumption DEF Types, Packets
<1>. QED BY <1>1 DEF Types

\* The counts are natural numbers.
LEMMA CountsOfFlow ==
  ASSUME Types, NEW f \in Flows
  PROVE  /\ Len(forward[f]) \in Nat
         /\ \A M : Count(forward[f], M) \in Nat /\ Count(back[f], M) \in Nat
                   /\ Count(src[f].rtx_queue, M) \in Nat
         /\ \A P : Holds(queue, P) \in Nat
         /\ sink[f].pull_no \in Nat /\ sink[f].cumulative_ack \in Nat
<1>1. forward[f] \in Seq(Seqs) /\ back[f] \in Seq(Messages) /\ src[f].rtx_queue \in Seq(Seqs)
      /\ queue \in Queues
  BY TypesOfFlow, SourceFields DEF Types
<1>2. \A M : Count(forward[f], M) \in Nat
  BY <1>1, CountType
<1>3. \A M : Count(back[f], M) \in Nat
  BY <1>1, CountType
<1>4. \A M : Count(src[f].rtx_queue, M) \in Nat
  BY <1>1, CountType
<1>5. \A P : Holds(queue, P) \in Nat
  BY <1>1, HoldsType
<1>6. sink[f].pull_no \in Nat /\ sink[f].cumulative_ack \in Nat
  BY TypesOfFlow, SinkFields
<1>. QED BY <1>1, <1>2, <1>3, <1>4, <1>5, <1>6

LEMMA SourceEmptied ==
  ASSUME NEW s \in Sources, NEW t, t = [s EXCEPT !.out = <<>>]
  PROVE  /\ t \in Sources /\ t.started = s.started /\ t.out = <<>>
         /\ t.highest_sent = s.highest_sent /\ t.last_acked = s.last_acked /\ t.flight = s.flight
         /\ t.last_pull = s.last_pull /\ t.rtx_queue = s.rtx_queue /\ t.acks = s.acks
         /\ t.callbacks = s.callbacks
<1>1. <<>> \in Seq(Seqs)
  OBVIOUS
<1>. QED BY <1>1 DEF Sources

LEMMA NdpInitially == ASSUME NdpInit PROVE NdpInv
<1>1. setting \in Settings /\ queue = EmptyQueue /\ trims = 0
      /\ \A f \in Flows : /\ src[f] = NewSrc /\ forward[f] = <<>> /\ back[f] = <<>>
                          /\ sink[f] = [cumulative_ack |-> 0, received |-> {}, pull_no |-> 0,
                                        last_seen |-> FALSE]
  BY DEF NdpInit
<1>2. NewSrc \in Sources /\ \A D : <<>> \in Seq(D)
  BY DEF NewSrc, Sources
<1>3. \A f \in Flows : Packets[f] \in Nat \ {0}
  BY <1>1, NdpAssumption DEF Packets
<1>4. queue \in Queues /\ QueueIsSound(queue) /\ \A P : Holds(queue, P) = 0
  BY <1>1, BytesEmpty, CountEmpty, CompositeQueueAssumption
     DEF EmptyQueue, Queues, QueueIsSound, Holds
<1>5. pacer \in Pacers(Packets)
  <2>1. pacer = [pulls |-> <<>>, current |-> NFlows + 1, elapsed |-> FALSE, timers |-> 0, due |-> 0]
    BY DEF NdpInit
  <2>2. <<>> \in [{} -> Seq(Messages)] /\ DOMAIN <<>> = {}
    OBVIOUS
  <2>3. <<>> \in PullMaps
    BY <2>2 DEF PullMaps
  <2>4. NFlows + 1 \in Nat
    BY NdpAssumption
  <2>5. pacer \in [pulls : PullMaps, current : Nat, elapsed : BOOLEAN, timers : Nat, due : Nat]
    BY <2>1, <2>3, <2>4
  <2>6. DOMAIN pacer.pulls = {} /\ pacer.current = NFlows + 1
    BY <2>1, <2>2
  <2>. QED BY <2>5, <2>6 DEF Pacers
<1>6. Types
  <2>1. src \in [Flows -> Sources] /\ sink \in [Flows -> Sinks] /\ forward \in [Flows -> Seq(Seqs)]
        /\ back \in [Flows -> Seq(Messages)]
    BY <1>2 DEF NdpInit, Sinks
  <2>2. trims \in 0..MaxTrims
    BY <1>1, NdpAssumption
  <2>3. \A f \in Flows :
          /\ src[f].out = <<>> /\ src[f].highest_sent <= Packets[f] /\ src[f].last_acked <= Packets[f]
          /\ sink[f].cumulative_ack <= Packets[f]
          /\ back[f] \in Seq(MessagesTo(f, Packets[f]))
    <3>. SUFFICES ASSUME NEW f \in Flows
                  PROVE  /\ src[f].out = <<>> /\ src[f].highest_sent <= Packets[f]
                         /\ src[f].last_acked <= Packets[f] /\ sink[f].cumulative_ack <= Packets[f]
                         /\ back[f] \in Seq(MessagesTo(f, Packets[f]))
      OBVIOUS
    <3>1. src[f].out = <<>> /\ src[f].highest_sent = 0 /\ src[f].last_acked = 0
          /\ sink[f].cumulative_ack = 0
      BY <1>1 DEF NewSrc
    <3>2. back[f] \in Seq(MessagesTo(f, Packets[f]))
      BY <1>1, <1>2
    <3>. QED BY <1>3, <3>1, <3>2
  <2>. QED BY <1>1, <1>4, <1>5, <2>1, <2>2, <2>3 DEF Types
<1>7. \A f \in Flows : /\ Arrived(f) = {} /\ src[f].rtx_queue = <<>> /\ src[f].highest_sent = 0
                       /\ src[f].acks = 0 /\ src[f].flight = 0 /\ src[f].callbacks = 0
                       /\ src[f].last_pull = 0 /\ sink[f].pull_no = 0 /\ sink[f].cumulative_ack = 0
  BY <1>1 DEF NewSrc, Arrived, Got
<1>8. Ledger
  <2>. SUFFICES ASSUME NEW f \in Flows, NEW k \in Seqs
                PROVE  Copies(f, k) = IF k <= src[f].highest_sent THEN 1 ELSE 0
    BY DEF Ledger
  <2>1. Copies(f, k) = 0
    BY <1>1, <1>4, <1>7, CountEmpty DEF Copies, Hit
  <2>. QED BY <1>7, <2>1 DEF Seqs
<1>9. Budget
  BY <1>1, <1>4, <1>7, CountEmpty, NdpAssumption DEF Budget, Load
<1>10. Acknowledged
  <2>1. \A f \in Flows : Count(back[f], Typed("ACK")) = 0
    BY <1>1, CountEmpty
  <2>2. Cardinality({}) = 0
    BY FS_EmptySet
  <2>3. \A f \in Flows : Cardinality(Arrived(f)) = 0
    BY <1>7, <2>2
  <2>. QED BY <1>7, <2>1, <2>3 DEF Acknowledged
<1>11. Finishing
  <2>1. \A f \in Flows : Count(back[f], FinalAcks(Packets[f])) = 0
    BY <1>1, CountEmpty
  <2>. QED BY <1>3, <1>7, <2>1 DEF Finishing
<1>. QED BY <1>6, <1>8, <1>9, <1>10, <1>11 DEF NdpInv

\* startflow: the packets of the first window, or fewer, are on their way.
LEMMA StartFlowKeeps ==
  ASSUME NdpInv, NEW f \in Flows, StartFlow(f)
  PROVE  NdpInv'
<1>. USE DEF NdpInv
<1>. DEFINE s == src[f]
            n == Min({Cwnd, Packets[f]})
            t == SendPackets(f, s, n)
            u == [t EXCEPT !.started = TRUE, !.first_window = n]
            v == [u EXCEPT !.out = <<>>]
<1>0. /\ Packets[f] \in Nat \ {0} /\ s \in Sources /\ s.highest_sent <= Packets[f]
      /\ s.out = <<>> /\ s.last_acked <= Packets[f] /\ forward[f] \in Seq(Seqs)
  BY TypesOfFlow
<1>1. n \in Nat /\ n <= Cwnd
  <2>1. {Cwnd, Packets[f]} \in SUBSET Nat /\ {Cwnd, Packets[f]} # {}
    BY <1>0, NdpAssumption
  <2>2. n \in {Cwnd, Packets[f]} /\ \A y \in {Cwnd, Packets[f]} : n <= y
    BY <2>1, MinOfNaturals
  <2>. QED BY <2>1, <2>2
<1>2. Sent(f, s, t, n)
  <2>. HIDE DEF n, s
  <2>. QED BY <1>0, <1>1, SendPacketsSent
<1>3. /\ src' = [src EXCEPT ![f] = v] /\ forward' = [forward EXCEPT ![f] = @ \o u.out]
      /\ setting' = setting /\ sink' = sink /\ pacer' = pacer /\ queue' = queue /\ back' = back
      /\ trims' = trims /\ ~s.started
  BY DEF StartFlow, Transmit
<1>. HIDE DEF n
<1>. HIDE DEF t
<1>4. /\ v \in Sources /\ v.started = TRUE /\ v.out = <<>> /\ u.out = t.out
      /\ v.highest_sent = t.highest_sent /\ v.last_acked = t.last_acked /\ v.flight = t.flight
      /\ v.last_pull = t.last_pull /\ v.rtx_queue = t.rtx_queue /\ v.acks = t.acks
      /\ v.callbacks = t.callbacks
  <2>. DEFINE started == TRUE
  <2>1. t \in Sources /\ started \in BOOLEAN /\ n \in Int
    BY <1>1, <1>2 DEF Sent
  <2>2. v = [u EXCEPT !.out = <<>>]
    OBVIOUS
  <2>. HIDE DEF v
  <2>a. u = [t EXCEPT !.started = started, !.first_window = n]
    OBVIOUS
  <2>. HIDE DEF u, started
  <2>3. /\ u \in Sources /\ u.started = started /\ u.out = t.out
        /\ u.highest_sent = t.highest_sent /\ u.last_acked = t.last_acked /\ u.flight = t.flight
        /\ u.last_pull = t.last_pull /\ u.rtx_queue = t.rtx_queue /\ u.acks = t.acks
        /\ u.callbacks = t.callbacks
    BY <2>1, <2>a DEF Sources
  <2>4. /\ v \in Sources /\ v.started = u.started /\ v.out = <<>>
        /\ v.highest_sent = u.highest_sent /\ v.last_acked = u.last_acked /\ v.flight = u.flight
        /\ v.last_pull = u.last_pull /\ v.rtx_queue = u.rtx_queue /\ v.acks = u.acks
        /\ v.callbacks = u.callbacks
    BY <2>2, <2>3, SourceEmptied
  <2>5. v.started = TRUE
    BY <2>3, <2>4 DEF started
  <2>. QED BY <2>3, <2>4, <2>5
<1>. HIDE DEF v, u
<1>. HIDE DEF s
<1>5. t \in Sources /\ s.highest_sent <= t.highest_sent /\ t.highest_sent <= Packets[f]
      /\ t.last_acked = s.last_acked /\ t.flight - t.highest_sent = s.flight - s.highest_sent
      /\ t.last_pull = s.last_pull /\ t.acks = s.acks /\ t.callbacks = s.callbacks
      /\ Len(t.out) <= n
  <2>1. Len(s.out) = 0
    BY <1>0
  <2>2. Len(t.out) <= Len(s.out) + n
    BY <1>2 DEF Sent
  <2>3. Len(t.out) <= n
    BY <1>1, <2>1, <2>2
  <2>. QED BY <1>2, <2>3 DEF Sent
<1>6. Packets' = Packets
  BY <1>3 DEF Packets
<1>7. /\ src'[f] = v /\ forward'[f] = forward[f] \o t.out
      /\ \A g \in Flows \ {f} : src'[g] = src[g] /\ forward'[g] = forward[g]
  BY <1>3, <1>4 DEF Types
<1>8. /\ t.out \in Seq(Seqs) /\ t.rtx_queue \in Seq(Seqs) /\ Len(t.out) \in Nat
      /\ t.highest_sent \in Nat /\ t.flight \in Int /\ s.highest_sent \in Nat /\ s.flight \in Int
      /\ s.rtx_queue \in Seq(Seqs)
  BY <1>0, <1>5, SourceFields DEF s
<1>9. Types'
  <2>1. src' \in [Flows -> Sources]
    BY <1>3, <1>4 DEF Types
  <2>2. forward' \in [Flows -> Seq(Seqs)]
    <3>1. forward[f] \o t.out \in Seq(Seqs)
      BY <1>0, <1>8
    <3>. QED BY <1>3, <1>4, <3>1 DEF Types
  <2>3. \A g \in Flows :
          /\ src'[g].out = <<>> /\ src'[g].highest_sent <= Packets'[g]
          /\ src'[g].last_acked <= Packets'[g]
    BY <1>0, <1>4, <1>5, <1>6, <1>7 DEF Types
  <2>. QED BY <1>3, <1>6, <2>1, <2>2, <2>3 DEF Types
<1>10. \A M : Count(forward'[f], M) = Count(forward[f], M) + Count(t.out, M)
  BY <1>0, <1>7, <1>8, CountConcat
<1>11. Ledger'
  <2>. SUFFICES ASSUME NEW g \in Flows, NEW k \in Seqs
                PROVE  Copies(g, k)' = IF k <= src'[g].highest_sent THEN 1 ELSE 0
    BY DEF Ledger
  <2>1. Copies(g, k) = IF k <= src[g].highest_sent THEN 1 ELSE 0
    BY DEF Ledger
  <2>2. CASE g # f
    <3>1. Copies(g, k)' = Copies(g, k)
      BY <1>3, <1>7, <2>2 DEF Copies, Arrived
    <3>. QED BY <1>7, <2>1, <2>2, <3>1
  <2>3. CASE g = f
    <3>1. Kept(t, k) = Kept(s, k) + NewlySent(s, t, k)
      BY <1>2 DEF Sent
    <3>2. Count(s.out, {k}) = 0
      BY <1>0, CountEmpty
    <3>3. Count(t.out, {k}) \in Nat /\ Count(t.rtx_queue, {k}) \in Nat
          /\ Count(s.rtx_queue, {k}) \in Nat
      BY <1>8, CountType
    <3>4. Count(t.out, {k}) + Count(t.rtx_queue, {k})
            = Count(s.rtx_queue, {k}) + NewlySent(s, t, k)
      BY <3>1, <3>2, <3>3 DEF Kept
    <3>5. Count(forward'[f], {k}) = Count(forward[f], {k}) + Count(t.out, {k})
      BY <1>10
    <3>6. Copies(f, k) = Count(forward[f], {k}) + Holds(queue, {<<f, k>>})
             + Count(back[f], About("RTS", k)) + Count(back[f], About("NACK", k))
             + Count(s.rtx_queue, {k}) + Hit(k, Arrived(f))
      BY DEF Copies, s
    <3>7. Copies(f, k)' = Count(forward'[f], {k}) + Holds(queue, {<<f, k>>})
             + Count(back[f], About("RTS", k)) + Count(back[f], About("NACK", k))
             + Count(t.rtx_queue, {k}) + Hit(k, Arrived(f))
      BY <1>3, <1>4, <1>7 DEF Copies, Arrived
    <3>8. Copies(f, k)' = Copies(f, k) + NewlySent(s, t, k)
      <4>. DEFINE a == Count(forward[f], {k})
                  b == Holds(queue, {<<f, k>>})
                  c == Count(back[f], About("RTS", k))
                  d == Count(back[f], About("NACK", k))
                  e == Hit(k, Arrived(f))
      <4>1. a \in Nat /\ b \in Nat /\ c \in Nat /\ d \in Nat
        BY CountsOfFlow
      <4>2. e \in Nat /\ NewlySent(s, t, k) \in Nat
        BY DEF Hit, NewlySent
      <4>. HIDE DEF a, b, c, d, e
      <4>3. Copies(f, k) = a + b + c + d + Count(s.rtx_queue, {k}) + e
        BY <3>6 DEF a, b, c, d, e
      <4>4. Copies(f, k)' = a + Count(t.out, {k}) + b + c + d + Count(t.rtx_queue, {k}) + e
        BY <3>5, <3>7 DEF a, b, c, d, e
      <4>. QED BY <3>3, <3>4, <4>1, <4>2, <4>3, <4>4
    <3>9. src'[f].highest_sent = t.highest_sent /\ src[f].highest_sent = s.highest_sent /\ k \in Nat
      BY <1>4, <1>7 DEF s, Seqs
    <3>. QED BY <1>5, <1>8, <2>1, <2>3, <3>8, <3>9 DEF NewlySent
  <2>. QED BY <2>2, <2>3
<1>12. Budget'
  <2>. SUFFICES ASSUME NEW g \in Flows
                PROVE  Load(g)' <= IF src'[g].started THEN Cwnd ELSE 0
    BY DEF Budget
  <2>1. Load(g) <= IF src[g].started THEN Cwnd ELSE 0
    BY DEF Budget
  <2>2. CASE g # f
    <3>1. Load(g)' = Load(g)
      BY <1>3, <1>7, <2>2 DEF Load
    <3>. QED BY <1>7, <2>1, <2>2, <3>1
  <2>3. CASE g = f
    <3>. DEFINE l == Len(forward[f])
                b == Holds(queue, {f} \X Seqs)
                c == Count(back[f], Typed("RTS"))
                p == sink[f].pull_no
    <3>1. l \in Nat /\ b \in Nat /\ c \in Nat /\ p \in Nat /\ s.last_pull \in Nat
      BY <1>0, CountsOfFlow, SourceFields
    <3>2. Len(forward'[f]) = l + Len(t.out)
      BY <1>0, <1>7, <1>8
    <3>3. Load(f) = l + b + c + (p - s.last_pull)
      BY DEF Load, s
    <3>4. Load(f)' = Len(forward'[f]) + b + c + (p - s.last_pull)
      BY <1>3, <1>4, <1>5, <1>7 DEF Load
    <3>5. Load(f) <= 0
      BY <1>3, <2>1, <2>3 DEF s
    <3>. HIDE DEF l, b, c, p
    <3>6. Load(f)' <= Cwnd
      BY <1>1, <1>5, <1>8, <3>1, <3>2, <3>3, <3>4, <3>5, NdpAssumption
    <3>. QED BY <1>4, <1>7, <2>3, <3>6
  <2>. QED BY <2>2, <2>3
<1>13. Acknowledged'
  <2>. SUFFICES ASSUME NEW g \in Flows
                PROVE  /\ src'[g].acks + Count(back'[g], Typed("ACK")) = Cardinality(Arrived(g)')
                       /\ src'[g].flight = src'[g].highest_sent - src'[g].acks
    BY DEF Acknowledged
  <2>1. /\ src[g].acks + Count(back[g], Typed("ACK")) = Cardinality(Arrived(g))
        /\ src[g].flight = src[g].highest_sent - src[g].acks
    BY DEF Acknowledged
  <2>2. Arrived(g)' = Arrived(g) /\ back' = back
    BY <1>3 DEF Arrived
  <2>3. CASE g # f
    BY <1>7, <2>1, <2>2, <2>3
  <2>4. CASE g = f
    <3>1. src'[f].acks = s.acks /\ s.acks \in Nat
      BY <1>0, <1>4, <1>5, <1>7, SourceFields DEF s
    <3>2. src'[f].flight = t.flight /\ src'[f].highest_sent = t.highest_sent
      BY <1>4, <1>7
    <3>3. t.flight = t.highest_sent - s.acks
      <4>1. s.flight = s.highest_sent - s.acks
        BY <2>1, <2>4 DEF s
      <4>. QED BY <1>5, <1>8, <3>1, <4>1
    <3>. QED BY <2>1, <2>2, <2>4, <3>1, <3>2, <3>3 DEF s
  <2>. QED BY <2>3, <2>4
<1>14. Finishing'
  <2>1. \A g \in Flows : src'[g].callbacks = src[g].callbacks
    BY <1>4, <1>5, <1>7 DEF s
  <2>. QED BY <1>3, <1>6, <2>1 DEF Finishing
<1>. QED BY <1>9, <1>11, <1>12, <1>13, <1>14

\* receivePacket of a source: a message less, and the packets it lets go.
LEMMA SourceReceiveKeeps ==
  ASSUME NdpInv, NEW f \in Flows, SourceReceive(f)
  PROVE  NdpInv'
<1>. USE DEF NdpInv
<1>1. PICK i \in 1..Len(back[f]) :
        /\ back' = [back EXCEPT ![f] = RemoveAt(@, i)]
        /\ Transmit(f, ReceiveFeedback(f, src[f], back[f][i]))
        /\ UNCHANGED <<setting, sink, pacer, queue, trims>>
  BY DEF SourceReceive
<1>. DEFINE s == src[f]
            m == back[f][i]
            t == ReceiveFeedback(f, s, m)
            v == [t EXCEPT !.out = <<>>]
            rest == RemoveAt(back[f], i)
<1>2. /\ Packets[f] \in Nat \ {0} /\ s \in Sources /\ s.highest_sent <= Packets[f]
      /\ s.out = <<>> /\ s.last_acked <= Packets[f] /\ forward[f] \in Seq(Seqs)
      /\ back[f] \in Seq(Messages) /\ back[f] \in Seq(MessagesTo(f, Packets[f]))
  BY TypesOfFlow
<1>3. m \in MessagesTo(f, Packets[f]) /\ m \in Messages
  <2>1. m \in MessagesTo(f, Packets[f])
    BY <1>2
  <2>. QED BY <2>1 DEF MessagesTo
<1>4. Reacted(f, s, t, m)
  <2>. HIDE DEF m, s
  <2>. QED BY <1>2, <1>3, FeedbackHandled
<1>5. /\ src' = [src EXCEPT ![f] = v] /\ forward' = [forward EXCEPT ![f] = @ \o t.out]
      /\ setting' = setting /\ sink' = sink /\ pacer' = pacer /\ queue' = queue
      /\ back' = [back EXCEPT ![f] = rest] /\ trims' = trims
  BY <1>1 DEF Transmit
<1>. HIDE DEF t
<1>6. t \in Sources
  BY <1>4 DEF Reacted
<1>. HIDE DEF v
<1>7. /\ v \in Sources /\ v.started = t.started /\ v.out = <<>>
      /\ v.highest_sent = t.highest_sent /\ v.last_acked = t.last_acked /\ v.flight = t.flight
      /\ v.last_pull = t.last_pull /\ v.rtx_queue = t.rtx_queue /\ v.acks = t.acks
      /\ v.callbacks = t.callbacks
  <2>1. v = [t EXCEPT !.out = <<>>]
    BY DEF v
  <2>. QED BY <1>6, <2>1, SourceEmptied
<1>8. /\ rest \in Seq(Messages) /\ rest \in Seq(MessagesTo(f, Packets[f]))
      /\ \A M : Count(back[f], M) = Count(rest, M) + Hit(m, M)
      /\ \A M : Count(rest, M) \in Nat
  <2>1. rest \in Seq(Messages) /\ \A M : Count(back[f], M) = Count(rest, M) + Hit(m, M)
    BY <1>2, CountRemoveAt DEF Hit
  <2>2. rest \in Seq(MessagesTo(f, Packets[f]))
    <3>. DEFINE S == MessagesTo(f, Packets[f])
    <3>1. back[f] \in Seq(S)
      BY <1>2
    <3>. HIDE DEF S
    <3>2. rest \in Seq(S)
      BY <3>1, CountRemoveAt
    <3>. QED BY <3>2 DEF S
  <2>. QED BY <2>1, <2>2, CountType
<1>. HIDE DEF m, rest, s
<1>9. Packets' = Packets
  BY <1>5 DEF Packets
<1>10. /\ src'[f] = v /\ forward'[f] = forward[f] \o t.out /\ back'[f] = rest
       /\ \A g \in Flows \ {f} : src'[g] = src[g] /\ forward'[g] = forward[g] /\ back'[g] = back[g]
  BY <1>5 DEF Types
<1>11. /\ t.out \in Seq(Seqs) /\ t.rtx_queue \in Seq(Seqs) /\ Len(t.out) \in Nat
       /\ t.highest_sent \in Nat /\ t.flight \in Int /\ s.highest_sent \in Nat /\ s.flight \in Int
       /\ s.rtx_queue \in Seq(Seqs) /\ s.last_pull \in Nat /\ t.last_pull \in Nat
       /\ s.acks \in Nat /\ s.callbacks \in Nat
  BY <1>2, <1>6, SourceFields
<1>12. \A M : Hit(m, M) \in {0, 1}
  BY DEF Hit
<1>13. Types'
  <2>1. src' \in [Flows -> Sources]
    BY <1>5, <1>7 DEF Types
  <2>2. forward' \in [Flows -> Seq(Seqs)]
    <3>1. forward[f] \o t.out \in Seq(Seqs)
      BY <1>2, <1>11
    <3>. QED BY <1>5, <3>1 DEF Types
  <2>3. back' \in [Flows -> Seq(Messages)]
    BY <1>5, <1>8 DEF Types
  <2>4. t.highest_sent <= Packets[f] /\ t.last_acked <= Packets[f]
    BY <1>4 DEF Reacted
  <2>5. \A g \in Flows :
          /\ src'[g].out = <<>> /\ src'[g].highest_sent <= Packets'[g]
          /\ src'[g].last_acked <= Packets'[g]
    BY <1>7, <1>9, <1>10, <2>4 DEF Types
  <2>6. \A g \in Flows : back'[g] \in Seq(MessagesTo(g, Packets'[g]))
    BY <1>8, <1>9, <1>10 DEF Types
  <2>. QED BY <1>5, <1>9, <2>1, <2>2, <2>3, <2>5, <2>6 DEF Types
<1>14. \A M : Count(forward'[f], M) = Count(forward[f], M) + Count(t.out, M)
  BY <1>2, <1>10, <1>11, CountConcat
<1>15. Ledger'
  <2>. SUFFICES ASSUME NEW g \in Flows, NEW k \in Seqs
                PROVE  Copies(g, k)' = IF k <= src'[g].highest_sent THEN 1 ELSE 0
    BY DEF Ledger
  <2>1. Copies(g, k) = IF k <= src[g].highest_sent THEN 1 ELSE 0
    BY DEF Ledger
  <2>2. CASE g # f
    <3>1. Copies(g, k)' = Copies(g, k)
      BY <1>5, <1>10, <2>2 DEF Copies, Arrived
    <3>. QED BY <1>10, <2>1, <2>2, <3>1
  <2>3. CASE g = f
    <3>. DEFINE r == Count(rest, About("RTS", k))
                n == Count(rest, About("NACK", k))
                hr == Hit(m, About("RTS", k))
                hn == Hit(m, About("NACK", k))
    <3>1. Kept(t, k) = Kept(s, k) + hr + hn + NewlySent(s, t, k)
      BY <1>4 DEF Reacted
    <3>2. Count(s.out, {k}) = 0
      BY <1>2, CountEmpty
    <3>3. Count(t.out, {k}) \in Nat /\ Count(t.rtx_queue, {k}) \in Nat
          /\ Count(s.rtx_queue, {k}) \in Nat
      BY <1>11, CountType
    <3>4. r \in Nat /\ n \in Nat /\ hr \in Nat /\ hn \in Nat
          /\ Count(back[f], About("RTS", k)) = r + hr
          /\ Count(back[f], About("NACK", k)) = n + hn
      BY <1>8, <1>12
    <3>. HIDE DEF r, n, hr, hn
    <3>5. Count(t.out, {k}) + Count(t.rtx_queue, {k})
            = Count(s.rtx_queue, {k}) + hr + hn + NewlySent(s, t, k)
      BY <3>1, <3>2, <3>3 DEF Kept
    <3>6. Count(forward'[f], {k}) = Count(forward[f], {k}) + Count(t.out, {k})
      BY <1>14
    <3>7. Copies(f, k) = Count(forward[f], {k}) + Holds(queue, {<<f, k>>})
             + Count(back[f], About("RTS", k)) + Count(back[f], About("NACK", k))
             + Count(s.rtx_queue, {k}) + Hit(k, Arrived(f))
      BY DEF Copies, s
    <3>8. Copies(f, k)' = Count(forward'[f], {k}) + Holds(queue, {<<f, k>>})
             + r + n + Count(t.rtx_queue, {k}) + Hit(k, Arrived(f))
      BY <1>5, <1>7, <1>10 DEF Copies, Arrived, r, n
    <3>9. Copies(f, k)' = Copies(f, k) + NewlySent(s, t, k)
      <4>. DEFINE a == Count(forward[f], {k})
                  b == Holds(queue, {<<f, k>>})
                  e == Hit(k, Arrived(f))
                  x == Count(t.out, {k})
                  y == Count(t.rtx_queue, {k})
                  z == Count(s.rtx_queue, {k})
                  new == NewlySent(s, t, k)
      <4>1. a \in Nat /\ b \in Nat
        BY CountsOfFlow
      <4>2. e \in Nat /\ new \in Nat
        BY DEF Hit, NewlySent
      <4>3. x \in Nat /\ y \in Nat /\ z \in Nat /\ x + y = z + hr + hn + new
        BY <3>3, <3>5
      <4>. HIDE DEF a, b, e, x, y, z, new
      <4>4. Copies(f, k) = a + b + (r + hr) + (n + hn) + z + e
        BY <3>4, <3>7 DEF a, b, e, z
      <4>5. Copies(f, k)' = (a + x) + b + r + n + y + e
        BY <3>6, <3>8 DEF a, b, e, x, y
      <4>6. (a + x) + b + r + n + y + e = a + b + (r + hr) + (n + hn) + z + e + new
        BY <3>4, <4>1, <4>2, <4>3
      <4>7. Copies(f, k)' = Copies(f, k) + new
        BY <4>4, <4>5, <4>6
      <4>. QED BY <4>7 DEF new
    <3>10. src'[f].highest_sent = t.highest_sent /\ src[f].highest_sent = s.highest_sent /\ k \in Nat
      BY <1>7, <1>10 DEF s, Seqs
    <3>11. s.highest_sent <= t.highest_sent
      BY <1>4 DEF Reacted
    <3>. QED BY <1>11, <2>1, <2>3, <3>9, <3>10, <3>11 DEF NewlySent
  <2>. QED BY <2>2, <2>3
<1>16. Budget'
  <2>. SUFFICES ASSUME NEW g \in Flows
                PROVE  Load(g)' <= IF src'[g].started THEN Cwnd ELSE 0
    BY DEF Budget
  <2>1. Load(g) <= IF src[g].started THEN Cwnd ELSE 0
    BY DEF Budget
  <2>2. CASE g # f
    <3>1. Load(g)' = Load(g)
      BY <1>5, <1>10, <2>2 DEF Load
    <3>. QED BY <1>10, <2>1, <2>2, <3>1
  <2>3. CASE g = f
    <3>. DEFINE l == Len(forward[f])
                b == Holds(queue, {f} \X Seqs)
                c == Count(rest, Typed("RTS"))
                h == Hit(m, Typed("RTS"))
                p == sink[f].pull_no
                o == Len(t.out)
    <3>1. l \in Nat /\ b \in Nat /\ c \in Nat /\ h \in Nat /\ p \in Nat /\ o \in Nat
      <4>1. l \in Nat /\ b \in Nat /\ p \in Nat
        BY CountsOfFlow
      <4>2. c \in Nat /\ h \in Nat
        BY <1>8, <1>12
      <4>. QED BY <1>11, <4>1, <4>2
    <3>2. Len(forward'[f]) = l + o
      BY <1>2, <1>10, <1>11
    <3>3. Count(back[f], Typed("RTS")) = c + h
      BY <1>8
    <3>4. Load(f) = l + b + (c + h) + (p - s.last_pull)
      BY <3>3 DEF Load, s
    <3>5. Load(f)' = (l + o) + b + c + (p - t.last_pull)
      BY <1>5, <1>7, <1>10, <3>2 DEF Load
    <3>6. o - t.last_pull <= h - s.last_pull
      <4>1. Len(t.out) - t.last_pull <= Len(s.out) - s.last_pull + Hit(m, Typed("RTS"))
        BY <1>4 DEF Reacted
      <4>2. Len(s.out) = 0
        BY <1>2
      <4>. HIDE DEF h
      <4>3. o - t.last_pull <= 0 - s.last_pull + h
        BY <4>1, <4>2 DEF h
      <4>. HIDE DEF o
      <4>. QED BY <1>11, <3>1, <4>3
    <3>. HIDE DEF l, b, c, h, p, o
    <3>7. Load(f)' <= Load(f)
      BY <1>11, <3>1, <3>4, <3>5, <3>6
    <3>8. src'[f].started = src[f].started
      BY <1>4, <1>7, <1>10 DEF Reacted, s
    <3>9. Load(f) \in Int
      BY <1>11, <3>1, <3>4
    <3>10. Load(f)' \in Int
      BY <1>11, <3>1, <3>5
    <3>. QED BY <2>1, <2>3, <3>7, <3>8, <3>9, <3>10, NdpAssumption
  <2>. QED BY <2>2, <2>3
<1>17. Acknowledged'
  <2>. SUFFICES ASSUME NEW g \in Flows
                PROVE  /\ src'[g].acks + Count(back'[g], Typed("ACK")) = Cardinality(Arrived(g)')
                       /\ src'[g].flight = src'[g].highest_sent - src'[g].acks
    BY DEF Acknowledged
  <2>1. /\ src[g].acks + Count(back[g], Typed("ACK")) = Cardinality(Arrived(g))
        /\ src[g].flight = src[g].highest_sent - src[g].acks
    BY DEF Acknowledged
  <2>2. Arrived(g)' = Arrived(g)
    BY <1>5 DEF Arrived
  <2>3. CASE g # f
    BY <1>10, <2>1, <2>2, <2>3
  <2>4. CASE g = f
    <3>. DEFINE h == Hit(m, Typed("ACK"))
    <3>1. t.acks = s.acks + h /\ t.flight - t.highest_sent = s.flight - s.highest_sent - h
      BY <1>4 DEF Reacted
    <3>2. h \in Nat /\ Count(back[f], Typed("ACK")) = Count(rest, Typed("ACK")) + h
          /\ Count(rest, Typed("ACK")) \in Nat
      BY <1>8, <1>12
    <3>. HIDE DEF h
    <3>3. s.acks + Count(back[f], Typed("ACK")) = Cardinality(Arrived(f))
          /\ s.flight = s.highest_sent - s.acks
      BY <2>1, <2>4 DEF s
    <3>4. t.acks + Count(rest, Typed("ACK")) = Cardinality(Arrived(f))
      BY <1>11, <3>1, <3>2, <3>3
    <3>5. t.flight = t.highest_sent - t.acks
      <4>1. h \in Nat /\ s.flight = s.highest_sent - s.acks
        BY <3>2, <3>3
      <4>2. t.flight \in Int /\ t.highest_sent \in Int /\ s.flight \in Int
            /\ s.highest_sent \in Int /\ s.acks \in Int
        BY <1>11
      <4>3. t.flight - t.highest_sent = s.flight - s.highest_sent - h
        BY <3>1
      <4>4. t.flight - t.highest_sent = 0 - (s.acks + h)
        BY <4>1, <4>2, <4>3
      <4>5. t.acks = s.acks + h /\ t.acks \in Int
        BY <1>6, <3>1, SourceFields
      <4>. DEFINE flight == t.flight
                  high == t.highest_sent
                  acks == t.acks
      <4>6. flight - high = 0 - acks /\ flight \in Int /\ high \in Int /\ acks \in Int
        BY <4>2, <4>4, <4>5
      <4>. HIDE DEF flight, high, acks
      <4>7. flight = high - acks
        BY <4>6
      <4>. QED BY <4>7 DEF flight, high, acks
    <3>. QED BY <1>7, <1>10, <2>2, <2>4, <3>4, <3>5
  <2>. QED BY <2>3, <2>4
<1>18. Finishing'
  <2>. SUFFICES ASSUME NEW g \in Flows
                PROVE  src'[g].callbacks + Count(back'[g], FinalAcks(Packets[g]))
                         = IF sink[g].cumulative_ack = Packets[g] THEN 1 ELSE 0
    BY <1>5, <1>9 DEF Finishing
  <2>1. src[g].callbacks + Count(back[g], FinalAcks(Packets[g]))
          = IF sink[g].cumulative_ack = Packets[g] THEN 1 ELSE 0
    BY DEF Finishing
  <2>2. CASE g # f
    BY <1>10, <2>1, <2>2
  <2>3. CASE g = f
    <3>. DEFINE F == FinalAcks(Packets[f])
                h == Hit(m, F)
    <3>1. t.callbacks = s.callbacks + h
      BY <1>4 DEF Reacted
    <3>2. h \in Nat /\ Count(back[f], F) = Count(rest, F) + h /\ Count(rest, F) \in Nat
      BY <1>8, <1>12
    <3>. HIDE DEF h
    <3>3. t.callbacks + Count(rest, F) = s.callbacks + Count(back[f], F)
      <4>. HIDE DEF F
      <4>. QED BY <1>11, <3>1, <3>2
    <3>. QED BY <1>7, <1>10, <2>1, <2>3, <3>3 DEF s
  <2>. QED BY <2>2, <2>3
<1>. QED BY <1>13, <1>15, <1>16, <1>17, <1>18

\* The messages that take what the queue returns to the source of g.
Notices(g, returned) ==
  {Feedback("RTS", g, b.seq, 0, 0) : b \in {c \in returned : c.flow = g}}

\* When the queue took p and went from q to q2, the messages to g, l before and l2
\* now, tell of the packet that left the queue, if any.
Announced(g, p, q, q2, l, l2) ==
  /\ \A k \in Seqs :
       Count(l2, About("RTS", k)) + Holds(q2, {<<g, k>>})
         = Count(l, About("RTS", k)) + Holds(q, {<<g, k>>}) + Hit(p, Marked({<<g, k>>}))
  /\ Count(l2, Typed("RTS")) + Holds(q2, {g} \X Seqs)
       = Count(l, Typed("RTS")) + Holds(q, {g} \X Seqs) + Hit(p, Marked({g} \X Seqs))
  /\ \A M : M \cap Typed("RTS") = {} => Count(l2, M) = Count(l, M)

LEMMA ReturnedTo ==
  ASSUME NEW q \in Queues, QueueIsSound(q), NEW p \in Data, ~p.header, NEW boot \in BOOLEAN,
         NEW g \in Flows, NEW n \in Nat, NEW l \in Seq(Messages), l \in Seq(MessagesTo(g, n)),
         NEW r, r = ReceivePacket(q, p, boot),
         NEW l2, l2 = l \o SetToSeq(Notices(g, r.returned))
  PROVE  /\ l2 \in Seq(Messages) /\ l2 \in Seq(MessagesTo(g, n))
         /\ Announced(g, p, q, r.queue, l, l2)
<1>1. /\ r.queue \in Queues /\ QueueIsSound(r.queue)
      /\ Conserved(q, p, r)
  BY PacketReceived
<1>2. /\ \A M : Count(l, M) \in Nat
      /\ \A P : Holds(q, P) \in Nat /\ Holds(r.queue, P) \in Nat
      /\ \A e, M : Hit(e, M) \in {0, 1}
  BY <1>1, CountType, HoldsType DEF Hit
<1>3. l2 = l \o SetToSeq(Notices(g, r.returned))
  OBVIOUS
<1>4. ASSUME Notices(g, r.returned) = {} PROVE l2 = l
  <2>1. SetToSeq(Notices(g, r.returned)) = <<>>
    BY <1>4, SetToSeqOfOne
  <2>. QED BY <1>3, <2>1
<1>5. CASE r.returned = {} /\ \A P : Holds(r.queue, P) = Holds(q, P) + Hit(p, Marked(P))
  <2>1. Notices(g, r.returned) = {}
    BY <1>5 DEF Notices
  <2>2. l2 = l
    BY <1>4, <2>1
  <2>3. \A k : Holds(r.queue, {<<g, k>>}) = Holds(q, {<<g, k>>}) + Hit(p, Marked({<<g, k>>}))
    BY <1>5
  <2>4. Holds(r.queue, {g} \X Seqs) = Holds(q, {g} \X Seqs) + Hit(p, Marked({g} \X Seqs))
    BY <1>5
  <2>5. \A k \in Seqs :
          Count(l2, About("RTS", k)) + Holds(r.queue, {<<g, k>>})
            = Count(l, About("RTS", k)) + Holds(q, {<<g, k>>}) + Hit(p, Marked({<<g, k>>}))
    <3>. SUFFICES ASSUME NEW k \in Seqs
                  PROVE  Count(l, About("RTS", k)) + Holds(r.queue, {<<g, k>>})
            = Count(l, About("RTS", k)) + Holds(q, {<<g, k>>}) + Hit(p, Marked({<<g, k>>}))
      BY <2>2
    <3>. DEFINE a == Count(l, About("RTS", k))
                b == Holds(q, {<<g, k>>})
                c == Hit(p, Marked({<<g, k>>}))
    <3>1. a \in Nat /\ b \in Nat /\ c \in Nat
      BY <1>2
    <3>2. Holds(r.queue, {<<g, k>>}) = b + c
      BY <2>3
    <3>. HIDE DEF a, b, c
    <3>3. a + (b + c) = a + b + c
      BY <3>1
    <3>. QED BY <3>2, <3>3 DEF a, b, c
  <2>6. Count(l2, Typed("RTS")) + Holds(r.queue, {g} \X Seqs)
          = Count(l, Typed("RTS")) + Holds(q, {g} \X Seqs) + Hit(p, Marked({g} \X Seqs))
    <3>. DEFINE a == Count(l, Typed("RTS"))
                b == Holds(q, {g} \X Seqs)
                c == Hit(p, Marked({g} \X Seqs))
    <3>1. a \in Nat /\ b \in Nat /\ c \in Nat
      BY <1>2
    <3>. HIDE DEF a, b, c
    <3>2. a + (b + c) = a + b + c
      BY <3>1
    <3>. QED BY <2>2, <2>4, <3>2 DEF a, b, c
  <2>. QED BY <2>2, <2>5, <2>6 DEF Announced
<1>6. ASSUME NEW x \in Data, r.returned = {[x EXCEPT !.bounced = TRUE]},
             \A P : Holds(r.queue, P) + Hit(x, Marked(P)) = Holds(q, P) + Hit(p, Marked(P))
      PROVE  l2 \in Seq(Messages) /\ l2 \in Seq(MessagesTo(g, n)) /\ Announced(g, p, q, r.queue, l, l2)
  <2>. DEFINE e == Feedback("RTS", g, x.seq, 0, 0)
              y == [x EXCEPT !.bounced = TRUE]
  <2>1. y.flow = x.flow /\ y.seq = x.seq /\ x.seq \in Seqs /\ x.flow \in Flows
    BY DEF Data
  <2>2. r.returned = {y}
    BY <1>6
  <2>3. \A k : Hit(x, Marked({<<g, k>>})) = IF x.flow = g /\ x.seq = k THEN 1 ELSE 0
    BY DEF Hit, Marked
  <2>4. Hit(x, Marked({g} \X Seqs)) = IF x.flow = g THEN 1 ELSE 0
    BY <2>1 DEF Hit, Marked
  <2>. HIDE DEF y
  <2>5. (l2 = l \/ l2 = Append(l, e)) /\ \A M : (x.flow = g => Count(l2, M) = Count(l, M) + Hit(e, M))
                                            /\ (x.flow # g => Count(l2, M) = Count(l, M))
    <3>1. CASE x.flow = g
      <4>1. Notices(g, r.returned) = {e}
        BY <2>1, <2>2, <3>1 DEF Notices
      <4>2. e \in Messages
        BY <2>1 DEF Feedback, Messages
      <4>. HIDE DEF e
      <4>3. l2 = l \o <<e>>
        BY <1>3, <4>1, SetToSeqOfOne
      <4>4. l2 = Append(l, e)
        BY <4>2, <4>3, AppendIsConcat
      <4>5. ASSUME NEW M PROVE Count(l2, M) = Count(l, M) + Hit(e, M)
        <5>1. Count(Append(l, e), M) = Count(l, M) + (IF e \in M THEN 1 ELSE 0)
          BY <4>2, CountAppend
        <5>. QED BY <4>4, <5>1 DEF Hit
      <4>. QED BY <3>1, <4>4, <4>5
    <3>2. CASE x.flow # g
      <4>1. Notices(g, r.returned) = {}
        BY <2>1, <2>2, <3>2 DEF Notices
      <4>2. l2 = l
        BY <1>4, <4>1
      <4>. QED BY <3>2, <4>2
    <3>. QED BY <3>1, <3>2
  <2>6. /\ e \in MessagesTo(g, n) /\ e \in Typed("RTS")
        /\ \A k : e \in About("RTS", k) <=> x.seq = k
    BY <2>1 DEF Feedback, Messages, MessagesTo, Typed, About
  <2>. HIDE DEF e
  <2>7. l2 \in Seq(MessagesTo(g, n)) /\ l2 \in Seq(Messages)
    <3>1. e \in Messages
      BY <2>6 DEF Typed
    <3>2. Append(l, e) \in Seq(Messages) /\ Append(l, e) \in Seq(MessagesTo(g, n))
      BY <2>6, <3>1
    <3>. QED BY <2>5, <3>2
  <2>8. ASSUME NEW k \in Seqs
        PROVE  Count(l2, About("RTS", k)) + Holds(r.queue, {<<g, k>>})
                 = Count(l, About("RTS", k)) + Holds(q, {<<g, k>>}) + Hit(p, Marked({<<g, k>>}))
    <3>. DEFINE a == Count(l, About("RTS", k))
                b == Holds(q, {<<g, k>>})
                c == Hit(p, Marked({<<g, k>>}))
                d == Holds(r.queue, {<<g, k>>})
                h == Hit(x, Marked({<<g, k>>}))
    <3>1. a \in Nat /\ b \in Nat /\ c \in Nat /\ d \in Nat /\ h \in Nat
      BY <1>2
    <3>2. d + h = b + c
      BY <1>6
    <3>3. Count(l2, About("RTS", k)) = a + h
      <4>1. Hit(e, About("RTS", k)) = IF x.seq = k THEN 1 ELSE 0
        BY <2>6 DEF Hit
      <4>2. h = IF x.flow = g /\ x.seq = k THEN 1 ELSE 0
        BY <2>3
      <4>3. /\ x.flow = g => Count(l2, About("RTS", k)) = a + Hit(e, About("RTS", k))
            /\ x.flow # g => Count(l2, About("RTS", k)) = a
        BY <2>5
      <4>. HIDE DEF a, h
      <4>. QED BY <3>1, <4>1, <4>2, <4>3
    <3>. HIDE DEF a, b, c, d, h
    <3>4. (a + h) + d = a + b + c
      BY <3>1, <3>2
    <3>. QED BY <3>3, <3>4 DEF a, b, c, d
  <2>9. Count(l2, Typed("RTS")) + Holds(r.queue, {g} \X Seqs)
          = Count(l, Typed("RTS")) + Holds(q, {g} \X Seqs) + Hit(p, Marked({g} \X Seqs))
    <3>. DEFINE a == Count(l, Typed("RTS"))
                b == Holds(q, {g} \X Seqs)
                c == Hit(p, Marked({g} \X Seqs))
                d == Holds(r.queue, {g} \X Seqs)
                h == Hit(x, Marked({g} \X Seqs))
    <3>1. a \in Nat /\ b \in Nat /\ c \in Nat /\ d \in Nat /\ h \in Nat
      <4>1. a \in Nat
        BY <1>2
      <4>2. b \in Nat /\ d \in Nat
        BY <1>2
      <4>3. c \in Nat /\ h \in Nat
        BY DEF Hit
      <4>. QED BY <4>1, <4>2, <4>3
    <3>2. d + h = b + c
      BY <1>6
    <3>3. Count(l2, Typed("RTS")) = a + h
      BY <2>4, <2>5, <2>6, <3>1 DEF Hit
    <3>. HIDE DEF a, b, c, d, h
    <3>4. (a + h) + d = a + b + c
      BY <3>1, <3>2
    <3>. QED BY <3>3, <3>4 DEF a, b, c, d
  <2>10. ASSUME NEW M, M \cap Typed("RTS") = {} PROVE Count(l2, M) = Count(l, M)
    BY <1>2, <2>5, <2>6, <2>10 DEF Hit
  <2>. QED BY <2>7, <2>8, <2>9, <2>10 DEF Announced
<1>. QED BY <1>1, <1>5, <1>6 DEF Conserved

\* receivePacket of the queue: a packet leaves the network for it, and perhaps one
\* of the queue's goes back.
LEMMA ArriveKeeps ==
  ASSUME NdpInv, NEW f \in Flows, Arrive(f)
  PROVE  NdpInv'
<1>. USE DEF NdpInv
<1>1. PICK i \in 1..Len(forward[f]), boot \in BOOLEAN :
        LET p == Packet(f, forward[f][i])
            r == ReceivePacket(queue, p, boot)
        IN  /\ Bytes(queue.low) + p.size <= MaxSize \/ trims < MaxTrims
            /\ trims' = IF Bytes(queue.low) + p.size <= MaxSize THEN trims ELSE trims + 1
            /\ queue' = r.queue
            /\ back' = [g \in Flows |-> back[g] \o SetToSeq(Notices(g, r.returned))]
            /\ forward' = [forward EXCEPT ![f] = RemoveAt(@, i)]
            /\ UNCHANGED <<setting, src, sink, pacer>>
  BY Zenon DEF Arrive, Notices
<1>. DEFINE e == forward[f][i]
            p == Packet(f, e)
            r == ReceivePacket(queue, p, boot)
            rest == RemoveAt(forward[f], i)
<1>2. /\ queue' = r.queue
      /\ back' = [g \in Flows |-> back[g] \o SetToSeq(Notices(g, r.returned))]
      /\ forward' = [forward EXCEPT ![f] = rest]
      /\ setting' = setting /\ src' = src /\ sink' = sink /\ pacer' = pacer
      /\ trims' \in 0..MaxTrims
  <2>1. trims \in 0..MaxTrims
    BY DEF Types
  <2>2. trims' \in 0..MaxTrims
    <3>. DEFINE fits == {x \in {trims} : Bytes(queue.low) + p.size <= MaxSize}
    <3>1. (trims \in fits \/ trims < MaxTrims) /\ trims' = IF trims \in fits THEN trims ELSE trims + 1
      BY <1>1
    <3>. HIDE DEF fits
    <3>. QED BY <2>1, <3>1, NdpAssumption
  <2>. QED BY <1>1, <2>2
<1>3. Packets' = Packets
  BY <1>2 DEF Packets
<1>4. forward[f] \in Seq(Seqs) /\ e \in Seqs /\ rest \in Seq(Seqs) /\ Len(rest) = Len(forward[f]) - 1
      /\ \A M : Count(forward[f], M) = Count(rest, M) + Hit(e, M)
  <2>1. forward[f] \in Seq(Seqs)
    BY TypesOfFlow
  <2>2. rest \in Seq(Seqs) /\ Len(rest) = Len(forward[f]) - 1
    BY <2>1, CountRemoveAt
  <2>3. ASSUME NEW M PROVE Count(forward[f], M) = Count(rest, M) + Hit(e, M)
    BY <2>1, CountRemoveAt DEF Hit
  <2>. QED BY <2>1, <2>2, <2>3
<1>5. p \in Data /\ ~p.header
      /\ (\A P : Hit(p, Marked(P)) = IF <<f, e>> \in P THEN 1 ELSE 0)
  <2>1. Size[f] \in 1..MaxSize
    BY NdpAssumption, CompositeQueueAssumption
  <2>2. p \in Data /\ p.flow = f /\ p.seq = e /\ ~p.header
    BY <1>4, <2>1 DEF Packet, Data
  <2>. HIDE DEF p
  <2>. QED BY <2>2 DEF Hit, Marked
<1>. HIDE DEF p, rest
<1>6. queue \in Queues /\ QueueIsSound(queue)
  BY DEF Types
<1>7. queue' \in Queues /\ QueueIsSound(queue')
  BY <1>2, <1>5, <1>6, PacketReceived
<1>. HIDE DEF r, e
<1>8. ASSUME NEW g \in Flows
      PROVE  /\ back'[g] \in Seq(Messages) /\ back'[g] \in Seq(MessagesTo(g, Packets[g]))
             /\ Announced(g, p, queue, queue', back[g], back'[g])
  <2>. DEFINE l == back[g]
              n == Packets[g]
              l2 == back'[g]
              q == queue
  <2>1. l2 = l \o SetToSeq(Notices(g, r.returned))
    BY <1>2
  <2>2. l \in Seq(Messages) /\ l \in Seq(MessagesTo(g, n)) /\ n \in Nat
    BY TypesOfFlow
  <2>3. r = ReceivePacket(q, p, boot) /\ q \in Queues /\ QueueIsSound(q)
    BY <1>6 DEF r
  <2>. HIDE DEF l, n, l2, q
  <2>4. /\ l2 \in Seq(Messages) /\ l2 \in Seq(MessagesTo(g, n))
        /\ Announced(g, p, q, r.queue, l, l2)
    <3>1. p \in Data /\ ~p.header
      BY <1>5
    <3>2. l \in Seq(Messages)
      BY <2>2
    <3>3. l \in Seq(MessagesTo(g, n))
      BY <2>2
    <3>4. n \in Nat
      BY <2>2
    <3>5. q \in Queues
      BY <2>3
    <3>6. QueueIsSound(q)
      BY <2>3
    <3>7. r = ReceivePacket(q, p, boot)
      BY <2>3
    <3>. QED BY <2>1, <3>1, <3>2, <3>3, <3>4, <3>5, <3>6, <3>7, ReturnedTo, ZenonT(60)
  <2>. QED BY <1>2, <2>4 DEF l, n, l2, q
<1>9. /\ forward'[f] = rest
      /\ \A g \in Flows \ {f} : forward'[g] = forward[g]
  BY <1>2 DEF Types
<1>10. Types'
  <2>1. forward' \in [Flows -> Seq(Seqs)]
    BY <1>2, <1>4 DEF Types
  <2>2. back' = [g \in Flows |-> back'[g]]
    BY <1>2
  <2>3. \A g \in Flows : back'[g] \in Seq(Messages) /\ back'[g] \in Seq(MessagesTo(g, Packets[g]))
    BY <1>8
  <2>4. back' \in [Flows -> Seq(Messages)]
    BY <2>2, <2>3
  <2>. QED BY <1>2, <1>3, <1>7, <2>1, <2>3, <2>4 DEF Types
<1>11. \A g \in Flows : \A M : Count(forward[g], M) = Count(forward'[g], M) + (IF g = f THEN Hit(e, M) ELSE 0)
  <2>. SUFFICES ASSUME NEW g \in Flows, NEW M
                PROVE  Count(forward[g], M) = Count(forward'[g], M) + (IF g = f THEN Hit(e, M) ELSE 0)
    OBVIOUS
  <2>1. Count(forward[g], M) \in Nat
    BY CountsOfFlow
  <2>. QED BY <1>4, <1>9, <2>1
<1>12. \A g \in Flows : \A M : Count(forward'[g], M) \in Nat /\ Count(back'[g], M) \in Nat
  BY <1>10, CountType DEF Types
<1>13. \A P : Holds(queue', P) \in Nat /\ Hit(p, Marked(P)) \in Nat
  BY <1>7, HoldsType DEF Hit
<1>14. Ledger'
  <2>. SUFFICES ASSUME NEW g \in Flows, NEW k \in Seqs
                PROVE  Copies(g, k)' = IF k <= src'[g].highest_sent THEN 1 ELSE 0
    BY DEF Ledger
  <2>. DEFINE a == Count(forward[g], {k})
              b == Holds(queue, {<<g, k>>})
              c == Count(back[g], About("RTS", k))
              d == Count(back[g], About("NACK", k))
              w == Count(src[g].rtx_queue, {k})
              h == Hit(k, Arrived(g))
              a2 == Count(forward'[g], {k})
              b2 == Holds(queue', {<<g, k>>})
              c2 == Count(back'[g], About("RTS", k))
              d2 == Count(back'[g], About("NACK", k))
              hit == Hit(p, Marked({<<g, k>>}))
  <2>1. a \in Nat /\ b \in Nat /\ c \in Nat /\ d \in Nat /\ w \in Nat
    BY CountsOfFlow
  <2>2. h \in Nat
    BY DEF Hit
  <2>3. a2 \in Nat /\ b2 \in Nat /\ c2 \in Nat /\ hit \in Nat
    BY <1>12, <1>13
  <2>4. a = a2 + hit
    <3>1. hit = IF g = f THEN Hit(e, {k}) ELSE 0
      BY <1>5 DEF Hit
    <3>2. a = a2 + (IF g = f THEN Hit(e, {k}) ELSE 0)
      BY <1>11
    <3>. QED BY <3>1, <3>2
  <2>5. c2 + b2 = c + b + hit
    BY <1>8 DEF Announced
  <2>6. d2 = d
    <3>1. About("NACK", k) \cap Typed("RTS") = {}
      BY DEF About, Typed
    <3>. QED BY <1>8, <3>1 DEF Announced
  <2>7. Copies(g, k) = a + b + c + d + w + h
    BY DEF Copies
  <2>8. Copies(g, k)' = a2 + b2 + c2 + d2 + w + h
    BY <1>2 DEF Copies, Arrived
  <2>. HIDE DEF a, b, c, d, w, h, a2, b2, c2, d2, hit
  <2>9. a2 + b2 + c2 + d2 + w + h = a + b + c + d + w + h
    BY <2>1, <2>2, <2>3, <2>4, <2>5, <2>6
  <2>10. Copies(g, k) = IF k <= src[g].highest_sent THEN 1 ELSE 0
    BY DEF Ledger
  <2>. QED BY <1>2, <2>7, <2>8, <2>9, <2>10
<1>15. Budget'
  <2>. SUFFICES ASSUME NEW g \in Flows
                PROVE  Load(g)' <= IF src'[g].started THEN Cwnd ELSE 0
    BY DEF Budget
  <2>. DEFINE a == Len(forward[g])
              b == Holds(queue, {g} \X Seqs)
              c == Count(back[g], Typed("RTS"))
              w == sink[g].pull_no - src[g].last_pull
              a2 == Len(forward'[g])
              b2 == Holds(queue', {g} \X Seqs)
              c2 == Count(back'[g], Typed("RTS"))
              hit == Hit(p, Marked({g} \X Seqs))
  <2>1. a \in Nat /\ b \in Nat /\ c \in Nat
    BY CountsOfFlow
  <2>2. w \in Int
    BY CountsOfFlow, TypesOfFlow, SourceFields
  <2>3. a2 \in Nat /\ b2 \in Nat /\ c2 \in Nat /\ hit \in Nat
    <3>1. forward'[g] \in Seq(Seqs)
      BY <1>10 DEF Types
    <3>. QED BY <1>12, <1>13, <3>1
  <2>4. a = a2 + hit
    <3>1. hit = IF g = f THEN 1 ELSE 0
      BY <1>4, <1>5
    <3>2. g = f => a2 = a - 1
      BY <1>4, <1>9
    <3>3. g # f => a2 = a
      BY <1>9
    <3>. HIDE DEF a, a2, hit
    <3>. QED BY <2>1, <3>1, <3>2, <3>3
  <2>5. c2 + b2 = c + b + hit
    BY <1>8 DEF Announced
  <2>6. Load(g) = a + b + c + w
    BY DEF Load
  <2>7. Load(g)' = a2 + b2 + c2 + w
    BY <1>2 DEF Load
  <2>. HIDE DEF a, b, c, w, a2, b2, c2, hit
  <2>8. a2 + b2 + c2 + w = a + b + c + w
    BY <2>1, <2>2, <2>3, <2>4, <2>5
  <2>9. Load(g) <= IF src[g].started THEN Cwnd ELSE 0
    BY DEF Budget
  <2>. QED BY <1>2, <2>6, <2>7, <2>8, <2>9
<1>16. Acknowledged'
  <2>1. Typed("ACK") \cap Typed("RTS") = {}
    BY DEF Typed
  <2>2. \A g \in Flows : Count(back'[g], Typed("ACK")) = Count(back[g], Typed("ACK"))
    BY <1>8, <2>1 DEF Announced
  <2>. QED BY <1>2, <2>2 DEF Acknowledged, Arrived
<1>17. Finishing'
  <2>1. \A n : FinalAcks(n) \cap Typed("RTS") = {}
    BY DEF Typed, FinalAcks
  <2>2. \A g \in Flows : Count(back'[g], FinalAcks(Packets[g])) = Count(back[g], FinalAcks(Packets[g]))
    BY <1>8, <2>1 DEF Announced
  <2>. QED BY <1>2, <1>3, <2>2 DEF Finishing
<1>. QED BY <1>10, <1>14, <1>15, <1>16, <1>17

\* Only packets that were sent have arrived.
LEMMA ArrivedWereSent ==
  ASSUME Types, Ledger, NEW f \in Flows
  PROVE  /\ Arrived(f) \subseteq 1..src[f].highest_sent
         /\ IsFiniteSet(Arrived(f)) /\ Cardinality(Arrived(f)) <= src[f].highest_sent
<1>1. sink[f] \in Sinks /\ src[f].highest_sent \in Nat
  BY TypesOfFlow, SourceFields
<1>2. Arrived(f) \subseteq Seqs
  BY <1>1, SinkFields DEF Arrived, Got, Seqs
<1>3. Arrived(f) \subseteq 1..src[f].highest_sent
  <2>. SUFFICES ASSUME NEW k \in Arrived(f) PROVE k \in 1..src[f].highest_sent
    OBVIOUS
  <2>1. k \in Seqs
    BY <1>2
  <2>. DEFINE a == Count(forward[f], {k})
              b == Holds(queue, {<<f, k>>})
              c == Count(back[f], About("RTS", k))
              d == Count(back[f], About("NACK", k))
              e == Count(src[f].rtx_queue, {k})
  <2>2. a \in Nat /\ b \in Nat /\ c \in Nat /\ d \in Nat /\ e \in Nat
    BY CountsOfFlow
  <2>3. Copies(f, k) = a + b + c + d + e + 1
    BY DEF Copies, Hit
  <2>. HIDE DEF a, b, c, d, e
  <2>4. Copies(f, k) = IF k <= src[f].highest_sent THEN 1 ELSE 0
    BY <2>1 DEF Ledger
  <2>. QED BY <1>1, <2>1, <2>2, <2>3, <2>4 DEF Seqs
<1>. DEFINE I == 1..src[f].highest_sent
<1>4. IsFiniteSet(I) /\ Cardinality(I) = src[f].highest_sent
  BY <1>1, IntervalSize
<1>5. Arrived(f) \subseteq I
  BY <1>3
<1>. HIDE DEF I
<1>6. IsFiniteSet(Arrived(f)) /\ Cardinality(Arrived(f)) <= Cardinality(I)
  BY <1>4, <1>5, FS_Subset
<1>. QED BY <1>3, <1>4, <1>6

\* The sink after a header asks for the packet again, and after a packet has it.
LEMMA SinkReceived ==
  ASSUME Types, NEW d \in Data, NEW s,
         s = IF d.header THEN [sink[d.flow] EXCEPT !.pull_no = @ + 1] ELSE Absorb(d.flow, d.seq)
  PROVE  /\ s \in Sinks /\ s.pull_no = sink[d.flow].pull_no + 1
         /\ s.cumulative_ack <= Packets[d.flow]
         /\ d.header => Got(s) = Arrived(d.flow) /\ s.cumulative_ack = sink[d.flow].cumulative_ack
         /\ ~d.header => Got(s) = Arrived(d.flow) \cup {d.seq}
<1>1. d.flow \in Flows /\ d.seq \in Seqs /\ d.header \in BOOLEAN
  BY DataFields
<1>2. /\ sink[d.flow] \in Sinks /\ sink[d.flow].cumulative_ack <= Packets[d.flow]
      /\ Packets[d.flow] \in Nat
  BY <1>1, TypesOfFlow
<1>3. CASE d.header
  <2>. DEFINE o == sink[d.flow]
  <2>1. s = [o EXCEPT !.pull_no = o.pull_no + 1]
    BY <1>3
  <2>2. o \in Sinks /\ o.pull_no + 1 \in Nat
    BY <1>2, SinkFields
  <2>. HIDE DEF o
  <2>3. s \in Sinks /\ s.pull_no = o.pull_no + 1 /\ s.cumulative_ack = o.cumulative_ack
        /\ s.received = o.received
    BY <2>1, <2>2 DEF Sinks
  <2>. QED BY <1>2, <1>3, <2>3 DEF o, Got, Arrived
<1>4. CASE ~d.header
  <2>1. s = Absorb(d.flow, d.seq)
    BY <1>4
  <2>. QED BY <1>1, <1>2, <1>4, <2>1, Absorbed DEF Arrived
<1>. QED BY <1>3, <1>4

\* The last queue has served a packet, and its sink answers.
LEMMA ServeKeeps ==
  ASSUME NdpInv, Serve
  PROVE  NdpInv'
<1>. USE DEF NdpInv
<1>. DEFINE d == Departing(queue)
            f == d.flow
            k == d.seq
            s == IF d.header THEN [sink[f] EXCEPT !.pull_no = @ + 1] ELSE Absorb(f, k)
            m == Feedback(IF d.header THEN "NACK" ELSE "ACK", f, k, s.cumulative_ack, s.pull_no)
            paced == PacerSend(pacer, m)
            x == paced.sent
<1>1. /\ queue' = CompleteService(queue) /\ queue.serv # "INVALID"
      /\ sink' = [sink EXCEPT ![f] = s]
      /\ pacer' = IF d.header THEN paced.pacer ELSE ReleasePulls(f, s, paced.pacer)
      /\ back' = [back EXCEPT ![f] = Append(@, x)]
      /\ setting' = setting /\ src' = src /\ forward' = forward /\ trims' = trims
  BY DEF Serve, SinkReceive
<1>2. /\ d \in Data /\ queue' \in Queues /\ QueueIsSound(queue')
      /\ \A P : Holds(queue, P) = Holds(queue', P) + Hit(d, Marked(P))
  BY <1>1, ServiceCompletes DEF Types
<1>. HIDE DEF d
<1>3. f \in Flows /\ k \in Seqs /\ d.header \in BOOLEAN
  BY <1>2, DataFields
<1>4. /\ s \in Sinks /\ s.pull_no = sink[f].pull_no + 1
      /\ s.cumulative_ack <= Packets[f]
      /\ d.header => Got(s) = Arrived(f) /\ s.cumulative_ack = sink[f].cumulative_ack
      /\ ~d.header => Got(s) = Arrived(f) \cup {k}
  BY <1>2, SinkReceived
<1>. HIDE DEF s
<1>5. s.cumulative_ack \in Nat /\ s.pull_no \in Nat
  BY <1>4, SinkFields
<1>6. /\ m \in MessagesTo(f, Packets[f]) /\ m.type = (IF d.header THEN "NACK" ELSE "ACK")
      /\ m.seq = k /\ m.cum = s.cumulative_ack
  <2>1. m.type \in {"ACK", "NACK", "RTS", "PULL"} /\ m.flow = f /\ m.seq = k
        /\ m.cum = s.cumulative_ack /\ m.no = s.pull_no /\ m.type = (IF d.header THEN "NACK" ELSE "ACK")
    BY DEF Feedback
  <2>2. m \in Messages
    BY <1>3, <1>5 DEF Feedback, Messages
  <2>. HIDE DEF m
  <2>. QED BY <1>4, <2>1, <2>2 DEF MessagesTo
<1>7. pacer \in Pacers(Packets)
  BY DEF Types
<1>. HIDE DEF m
<1>8. paced.pacer \in Pacers(Packets) /\ x \in {m, [m EXCEPT !.pull = FALSE]}
  <2>. DEFINE n == Packets
              p == pacer
  <2>1. p \in Pacers(n) /\ m \in MessagesTo(f, n[f])
    BY <1>6, <1>7
  <2>. HIDE DEF n, p, f
  <2>2. PacerSend(p, m).pacer \in Pacers(n) /\ PacerSend(p, m).sent \in {m, [m EXCEPT !.pull = FALSE]}
    BY <1>3, <2>1, PacerSent
  <2>. QED BY <2>2 DEF n, p
<1>. HIDE DEF x, paced
<1>9. /\ x \in MessagesTo(f, Packets[f]) /\ x.type = (IF d.header THEN "NACK" ELSE "ACK")
      /\ x.seq = k /\ x.cum = s.cumulative_ack /\ x \in Messages
  <2>1. m \in Messages /\ m.flow = f /\ m.cum <= Packets[f]
    BY <1>6 DEF MessagesTo
  <2>2. x \in Messages /\ x.type = m.type /\ x.seq = m.seq /\ x.cum = m.cum /\ x.flow = m.flow
    BY <1>8, <2>1 DEF Messages
  <2>. QED BY <1>6, <2>1, <2>2 DEF MessagesTo
<1>10. pacer' \in Pacers(Packets)
  <2>1. pacer' = paced.pacer \/ pacer' = FlushFlow(paced.pacer, f)
    BY <1>1 DEF ReleasePulls
  <2>. DEFINE n == Packets
              p == paced.pacer
  <2>2. p \in Pacers(n)
    BY <1>8
  <2>. HIDE DEF n, p, f
  <2>3. FlushFlow(p, f) \in Pacers(n)
    BY <1>3, <2>2, Flushed
  <2>. QED BY <2>1, <2>2, <2>3 DEF n, p
<1>11. Packets' = Packets
  BY <1>1 DEF Packets
<1>. HIDE DEF f, k
<1>12. /\ sink'[f] = s /\ back'[f] = Append(back[f], x)
       /\ \A g \in Flows \ {f} : sink'[g] = sink[g] /\ back'[g] = back[g]
       /\ \A g \in Flows : src'[g] = src[g] /\ forward'[g] = forward[g]
  BY <1>1, <1>3 DEF Types
<1>13. \A M : Count(back'[f], M) = Count(back[f], M) + Hit(x, M)
  <2>1. back[f] \in Seq(Messages)
    BY <1>3, TypesOfFlow
  <2>2. ASSUME NEW M PROVE Count(Append(back[f], x), M) = Count(back[f], M) + Hit(x, M)
    BY <1>9, <2>1, CountAppend DEF Hit
  <2>. QED BY <1>12, <2>2
<1>14. \A P : Holds(queue', P) \in Nat /\ Hit(d, Marked(P)) \in {0, 1}
  BY <1>2, HoldsType DEF Hit
<1>15. Types'
  <2>1. sink' \in [Flows -> Sinks]
    BY <1>1, <1>4 DEF Types
  <2>2. back[f] \in Seq(Messages) /\ back[f] \in Seq(MessagesTo(f, Packets[f]))
    BY <1>3, TypesOfFlow
  <2>3. Append(back[f], x) \in Seq(Messages)
    BY <1>9, <2>2
  <2>4. Append(back[f], x) \in Seq(MessagesTo(f, Packets[f]))
    BY <1>9, <2>2
  <2>5. back' \in [Flows -> Seq(Messages)]
    BY <1>1, <2>3 DEF Types
  <2>6. \A g \in Flows : /\ sink'[g].cumulative_ack <= Packets'[g]
                         /\ back'[g] \in Seq(MessagesTo(g, Packets'[g]))
    BY <1>4, <1>11, <1>12, <2>4 DEF Types
  <2>. QED BY <1>1, <1>2, <1>10, <1>11, <2>1, <2>5, <2>6 DEF Types
\* What the ledger says of the packet served: it is nowhere else.
<1>16. /\ k <= src[f].highest_sent
       /\ k \notin Arrived(f)
  <2>. DEFINE a == Count(forward[f], {k})
              b == Holds(queue, {<<f, k>>})
              c == Count(back[f], About("RTS", k))
              n == Count(back[f], About("NACK", k))
              w == Count(src[f].rtx_queue, {k})
              h == Hit(k, Arrived(f))
  <2>1. a \in Nat /\ b \in Nat /\ c \in Nat /\ n \in Nat /\ w \in Nat
    BY <1>3, CountsOfFlow
  <2>2. h = IF k \in Arrived(f) THEN 1 ELSE 0
    BY DEF Hit
  <2>3. b >= 1
    <3>1. Hit(d, Marked({<<f, k>>})) = 1
      BY <1>2 DEF Hit, Marked, f, k
    <3>2. Holds(queue, {<<f, k>>}) = Holds(queue', {<<f, k>>}) + Hit(d, Marked({<<f, k>>}))
      BY <1>2
    <3>3. Holds(queue', {<<f, k>>}) \in Nat
      BY <1>14
    <3>. QED BY <3>1, <3>2, <3>3
  <2>4. Copies(f, k) = a + b + c + n + w + h
    BY DEF Copies
  <2>5. Copies(f, k) = IF k <= src[f].highest_sent THEN 1 ELSE 0
    BY <1>3 DEF Ledger
  <2>. HIDE DEF a, b, c, n, w, h
  <2>. QED BY <2>1, <2>2, <2>3, <2>4, <2>5
<1>17. \A g \in Flows : Arrived(g)' = IF g = f /\ ~d.header THEN Arrived(f) \cup {k} ELSE Arrived(g)
  BY <1>4, <1>12 DEF Arrived
<1>18. Ledger'
  <2>. SUFFICES ASSUME NEW g \in Flows, NEW j \in Seqs
                PROVE  Copies(g, j)' = IF j <= src'[g].highest_sent THEN 1 ELSE 0
    BY DEF Ledger
  <2>. DEFINE a == Count(forward[g], {j})
              b == Holds(queue, {<<g, j>>})
              c == Count(back[g], About("RTS", j))
              n == Count(back[g], About("NACK", j))
              w == Count(src[g].rtx_queue, {j})
              h == Hit(j, Arrived(g))
              b2 == Holds(queue', {<<g, j>>})
              c2 == Count(back'[g], About("RTS", j))
              n2 == Count(back'[g], About("NACK", j))
              h2 == Hit(j, Arrived(g)')
              hit == IF g = f /\ j = k THEN 1 ELSE 0
              nack == IF g = f /\ j = k /\ d.header THEN 1 ELSE 0
  <2>1. a \in Nat /\ b \in Nat /\ c \in Nat /\ n \in Nat /\ w \in Nat
    BY CountsOfFlow
  <2>2. b = b2 + hit /\ b2 \in Nat
    <3>1. Hit(d, Marked({<<g, j>>})) = hit
      BY <1>2 DEF Hit, Marked, f, k
    <3>2. Holds(queue, {<<g, j>>}) = Holds(queue', {<<g, j>>}) + Hit(d, Marked({<<g, j>>}))
      BY <1>2
    <3>. QED BY <1>14, <3>1, <3>2
  <2>3. c2 = c /\ n2 = n + nack
    <3>1. CASE g = f
      <4>1. c2 = c + Hit(x, About("RTS", j)) /\ n2 = n + Hit(x, About("NACK", j))
        BY <1>13, <3>1
      <4>2. Hit(x, About("RTS", j)) = 0
        BY <1>9 DEF Hit, About
      <4>3. Hit(x, About("NACK", j)) = nack
        BY <1>9, <3>1 DEF Hit, About
      <4>. HIDE DEF c, n, c2, n2, nack
      <4>. QED BY <2>1, <4>1, <4>2, <4>3
    <3>2. CASE g # f
      <4>1. c2 = c /\ n2 = n /\ nack = 0
        BY <1>12, <3>2
      <4>. HIDE DEF c, n, c2, n2, nack
      <4>. QED BY <2>1, <4>1
    <3>. QED BY <3>1, <3>2
  <2>4. h2 = h + hit - nack /\ h \in Nat
    <3>1. CASE g = f /\ j = k /\ ~d.header
      <4>1. h = 0 /\ h2 = 1 /\ hit = 1 /\ nack = 0
        BY <1>16, <1>17, <3>1 DEF Hit
      <4>. HIDE DEF h, h2, hit, nack
      <4>. QED BY <4>1
    <3>2. CASE ~(g = f /\ j = k /\ ~d.header)
      <4>1. h2 = h
        BY <1>17, <3>2 DEF Hit
      <4>2. hit = nack /\ hit \in Nat /\ h \in Nat
        BY <3>2 DEF Hit
      <4>. HIDE DEF h, h2, hit, nack
      <4>. QED BY <4>1, <4>2
    <3>. QED BY <3>1, <3>2
  <2>5. Copies(g, j) = a + b + c + n + w + h
    BY DEF Copies
  <2>6. Copies(g, j)' = a + b2 + c2 + n2 + w + h2
    BY <1>1 DEF Copies
  <2>7. hit \in Nat /\ nack \in Nat
    OBVIOUS
  <2>. HIDE DEF a, b, c, n, w, h, b2, c2, n2, h2, hit, nack
  <2>8. a + b2 + c2 + n2 + w + h2 = a + b + c + n + w + h
    BY <2>1, <2>2, <2>3, <2>4, <2>7
  <2>9. Copies(g, j) = IF j <= src[g].highest_sent THEN 1 ELSE 0
    BY DEF Ledger
  <2>. QED BY <1>1, <2>5, <2>6, <2>8, <2>9
<1>19. Budget'
  <2>. SUFFICES ASSUME NEW g \in Flows
                PROVE  Load(g)' <= IF src'[g].started THEN Cwnd ELSE 0
    BY DEF Budget
  <2>. DEFINE a == Len(forward[g])
              b == Holds(queue, {g} \X Seqs)
              c == Count(back[g], Typed("RTS"))
              p == sink[g].pull_no
              l == src[g].last_pull
              b2 == Holds(queue', {g} \X Seqs)
              c2 == Count(back'[g], Typed("RTS"))
              p2 == sink'[g].pull_no
              hit == IF g = f THEN 1 ELSE 0
  <2>1. a \in Nat /\ b \in Nat /\ c \in Nat /\ p \in Nat
    BY CountsOfFlow
  <2>2. l \in Nat
    BY TypesOfFlow, SourceFields
  <2>3. b = b2 + hit /\ b2 \in Nat
    <3>1. Hit(d, Marked({g} \X Seqs)) = hit
      <4>1. d \in Marked({g} \X Seqs) <=> g = f
        BY <1>2, <1>3 DEF Marked, f, k
      <4>. QED BY <4>1 DEF Hit
    <3>2. Holds(queue, {g} \X Seqs) = Holds(queue', {g} \X Seqs) + Hit(d, Marked({g} \X Seqs))
      BY <1>2
    <3>3. Holds(queue', {g} \X Seqs) \in Nat
      BY <1>14
    <3>. QED BY <3>1, <3>2, <3>3
  <2>4. c2 = c
    <3>1. CASE g = f
      <4>1. c2 = c + Hit(x, Typed("RTS"))
        BY <1>13, <3>1
      <4>2. Hit(x, Typed("RTS")) = 0
        BY <1>9 DEF Hit, Typed
      <4>. HIDE DEF c, c2
      <4>. QED BY <2>1, <4>1, <4>2
    <3>2. CASE g # f
      BY <1>12, <3>2
    <3>. QED BY <3>1, <3>2
  <2>5. p2 = p + hit
    <3>1. CASE g = f
      BY <1>4, <1>12, <3>1
    <3>2. CASE g # f
      <4>1. p2 = p /\ hit = 0
        BY <1>12, <3>2
      <4>. HIDE DEF p, p2, hit
      <4>. QED BY <2>1, <4>1
    <3>. QED BY <3>1, <3>2
  <2>6. Load(g) = a + b + c + (p - l)
    BY DEF Load
  <2>7. Load(g)' = a + b2 + c2 + (p2 - l)
    BY <1>1 DEF Load
  <2>8. hit \in Nat
    OBVIOUS
  <2>. HIDE DEF a, b, c, p, l, b2, c2, p2, hit
  <2>9. a + b2 + c2 + (p2 - l) = a + b + c + (p - l)
    BY <2>1, <2>2, <2>3, <2>4, <2>5, <2>8
  <2>10. Load(g) <= IF src[g].started THEN Cwnd ELSE 0
    BY DEF Budget
  <2>. QED BY <1>1, <2>6, <2>7, <2>9, <2>10
<1>20. Acknowledged'
  <2>. SUFFICES ASSUME NEW g \in Flows
                PROVE  /\ src'[g].acks + Count(back'[g], Typed("ACK")) = Cardinality(Arrived(g)')
                       /\ src'[g].flight = src'[g].highest_sent - src'[g].acks
    BY DEF Acknowledged
  <2>1. /\ src[g].acks + Count(back[g], Typed("ACK")) = Cardinality(Arrived(g))
        /\ src[g].flight = src[g].highest_sent - src[g].acks
    BY DEF Acknowledged
  <2>2. CASE g # f
    BY <1>12, <1>17, <2>1, <2>2
  <2>3. CASE g = f /\ d.header
    <3>1. Hit(x, Typed("ACK")) = 0
      BY <1>9, <2>3 DEF Hit, Typed
    <3>2. Count(back'[f], Typed("ACK")) = Count(back[f], Typed("ACK")) + Hit(x, Typed("ACK"))
      BY <1>13
    <3>3. Count(back[f], Typed("ACK")) \in Nat
      BY <1>3, CountsOfFlow
    <3>4. Count(back'[f], Typed("ACK")) = Count(back[f], Typed("ACK"))
      BY <3>1, <3>2, <3>3
    <3>. QED BY <1>12, <1>17, <2>1, <2>3, <3>4
  <2>4. CASE g = f /\ ~d.header
    <3>1. Hit(x, Typed("ACK")) = 1
      BY <1>9, <2>4 DEF Hit, Typed
    <3>2. Count(back'[f], Typed("ACK")) = Count(back[f], Typed("ACK")) + Hit(x, Typed("ACK"))
      BY <1>13
    <3>3. Count(back[f], Typed("ACK")) \in Nat /\ src[f].acks \in Nat
      BY <1>3, CountsOfFlow, TypesOfFlow, SourceFields
    <3>4. Cardinality(Arrived(f) \cup {k}) = Cardinality(Arrived(f)) + 1
      BY <1>3, <1>16, ArrivedWereSent, FS_AddElement
    <3>5. src[f].acks + Count(back'[f], Typed("ACK")) = Cardinality(Arrived(f)) + 1
      <4>. DEFINE a == src[f].acks
                  c == Count(back[f], Typed("ACK"))
      <4>1. a \in Nat /\ c \in Nat /\ a + c = Cardinality(Arrived(f))
            /\ Count(back'[f], Typed("ACK")) = c + 1
        BY <2>1, <2>4, <3>1, <3>2, <3>3
      <4>. HIDE DEF a, c
      <4>2. a + (c + 1) = (a + c) + 1
        BY <4>1
      <4>3. a + Count(back'[f], Typed("ACK")) = Cardinality(Arrived(f)) + 1
        BY <4>1, <4>2
      <4>. QED BY <4>3 DEF a
    <3>. QED BY <1>12, <1>17, <2>1, <2>4, <3>4, <3>5
  <2>. QED BY <1>3, <2>2, <2>3, <2>4
<1>21. Finishing'
  <2>. SUFFICES ASSUME NEW g \in Flows
                PROVE  src[g].callbacks + Count(back'[g], FinalAcks(Packets[g]))
                         = IF sink'[g].cumulative_ack = Packets[g] THEN 1 ELSE 0
    BY <1>1, <1>11 DEF Finishing
  <2>1. src[g].callbacks + Count(back[g], FinalAcks(Packets[g]))
          = IF sink[g].cumulative_ack = Packets[g] THEN 1 ELSE 0
    BY DEF Finishing
  <2>2. CASE g # f
    BY <1>12, <2>1, <2>2
  <2>3. CASE g = f
    <3>. DEFINE F == FinalAcks(Packets[f])
                a == src[f].callbacks
                c == Count(back[f], F)
                h == Hit(x, F)
    <3>1. Count(back'[f], F) = c + h
      BY <1>13
    <3>2. a \in Nat /\ c \in Nat
      BY <1>3, CountsOfFlow, TypesOfFlow, SourceFields
    <3>3. a + c = IF sink[f].cumulative_ack = Packets[f] THEN 1 ELSE 0
      BY <2>1, <2>3
    <3>4. CASE d.header
      <4>1. h = 0
        BY <1>9, <3>4 DEF Hit, FinalAcks
      <4>2. sink'[f].cumulative_ack = sink[f].cumulative_ack
        BY <1>4, <1>12, <3>4
      <4>. HIDE DEF F, a, c, h
      <4>3. a + (c + h) = a + c
        BY <3>2, <4>1
      <4>4. a + Count(back'[f], F) = IF sink'[f].cumulative_ack = Packets[f] THEN 1 ELSE 0
        BY <3>1, <3>3, <4>2, <4>3
      <4>. QED BY <2>3, <4>4 DEF F, a
    <3>5. CASE ~d.header
      <4>1. sink[f].cumulative_ack # Packets[f]
        <5>. SUFFICES ASSUME sink[f].cumulative_ack = Packets[f] PROVE FALSE
          OBVIOUS
        <5>1. k \in 1..sink[f].cumulative_ack
          <6>1. src[f].highest_sent <= Packets[f] /\ Packets[f] \in Nat /\ src[f].highest_sent \in Nat
            BY <1>3, TypesOfFlow, SourceFields
          <6>. QED BY <1>3, <1>16, <6>1 DEF Seqs
        <5>. QED BY <1>16, <5>1 DEF Arrived, Got
      <4>2. h = IF s.cumulative_ack = Packets[f] THEN 1 ELSE 0
        <5>1. x \in F <=> s.cumulative_ack >= Packets[f]
          BY <1>9, <3>5 DEF FinalAcks
        <5>2. s.cumulative_ack >= Packets[f] <=> s.cumulative_ack = Packets[f]
          BY <1>3, <1>4, <1>5, TypesOfFlow
        <5>. HIDE DEF F
        <5>. QED BY <5>1, <5>2 DEF Hit
      <4>3. sink'[f].cumulative_ack = s.cumulative_ack
        BY <1>12
      <4>. HIDE DEF F, a, c, h
      <4>4. a + c = 0
        BY <3>3, <4>1
      <4>5. a + (c + h) = h
        BY <3>2, <4>2, <4>4
      <4>6. a + Count(back'[f], F) = IF sink'[f].cumulative_ack = Packets[f] THEN 1 ELSE 0
        BY <3>1, <4>2, <4>3, <4>5
      <4>. QED BY <2>3, <4>6 DEF F, a
    <3>. QED BY <3>4, <3>5
  <2>. QED BY <2>2, <2>3
<1>. QED BY <1>15, <1>18, <1>19, <1>20, <1>21

\* doNextEvent of the pacer: a pull is on its way, which the ledgers do not count.
LEMMA PacerFiresKeeps ==
  ASSUME NdpInv, PacerFires
  PROVE  NdpInv'
<1>. USE DEF NdpInv
<1>1. pacer \in Pacers(Packets) /\ pacer.due > 0 /\ setting' = setting /\ src' = src
      /\ sink' = sink /\ forward' = forward /\ queue' = queue /\ trims' = trims
  BY DEF PacerFires, Types
<1>2. Packets' = Packets
  BY <1>1 DEF Packets
<1>. DEFINE n == Packets
<1>3. pacer.due - 1 \in Nat
  BY <1>1, PacerFields
<1>4. CASE NoPulls(pacer)
  <2>1. back' = back
    BY <1>4 DEF PacerFires
  <2>2. pacer' \in Pacers(Packets)
    <3>. DEFINE p == pacer
                q == pacer'
                due == p.due - 1
    <3>1. q = [p EXCEPT !.due = due]
      BY <1>4 DEF PacerFires
    <3>2. p \in Pacers(n) /\ due \in Nat
      BY <1>1, <1>3
    <3>. HIDE DEF p, q, n, due
    <3>3. q = [p EXCEPT !.elapsed = p.elapsed, !.timers = p.timers, !.due = due]
      <4>1. p \in [pulls : PullMaps, current : Nat, elapsed : BOOLEAN, timers : Nat, due : Nat]
        BY <3>2 DEF Pacers
      <4>. QED BY <3>1, <4>1
    <3>4. p.elapsed \in BOOLEAN /\ p.timers \in Nat
      BY <3>2, PacerFields
    <3>5. q \in Pacers(n)
      BY <3>2, <3>3, <3>4, PacerTicks
    <3>. QED BY <3>5 DEF q, n
  <2>3. Types'
    BY <1>1, <1>2, <2>1, <2>2 DEF Types
  <2>. QED BY <1>1, <1>2, <2>1, <2>3
           DEF Ledger, Copies, Budget, Load, Acknowledged, Finishing, Arrived
<1>5. CASE ~NoPulls(pacer)
  <2>. DEFINE f == NextFlow(pacer)
              m == Head(pacer.pulls[f])
              p == Dequeue(pacer)
  <2>1. f \in Flows /\ m \in PullsTo(f, Packets[f]) /\ p \in Pacers(Packets)
    BY <1>1, <1>5, Dequeued
  <2>2. /\ back' = [back EXCEPT ![f] = Append(@, m)]
        /\ pacer' = [p EXCEPT !.due = @ - 1, !.elapsed = FALSE,
                              !.timers = IF NoPulls(p) THEN @ ELSE @ + 1]
    BY <1>5 DEF PacerFires
  <2>3. p.due = pacer.due
    <3>1. pacer \in [pulls : PullMaps, current : Nat, elapsed : BOOLEAN, timers : Nat, due : Nat]
      BY <1>1 DEF Pacers
    <3>. QED BY <3>1 DEF Dequeue
  <2>. HIDE DEF f, m, p
  <2>4. pacer' \in Pacers(Packets)
    <3>. DEFINE q == pacer'
                due == p.due - 1
                timers == IF NoPulls(p) THEN p.timers ELSE p.timers + 1
                elapsed == FALSE
    <3>1. q = [p EXCEPT !.elapsed = elapsed, !.timers = timers, !.due = due]
      <4>1. p \in [pulls : PullMaps, current : Nat, elapsed : BOOLEAN, timers : Nat, due : Nat]
        BY <2>1 DEF Pacers
      <4>. QED BY <2>2, <4>1
    <3>2. p \in Pacers(n) /\ due \in Nat /\ timers \in Nat /\ elapsed \in BOOLEAN
      BY <1>3, <2>1, <2>3, PacerFields
    <3>. HIDE DEF q, n, due, timers, elapsed
    <3>3. q \in Pacers(n)
      BY <3>1, <3>2, PacerTicks
    <3>. QED BY <3>3 DEF q, n
  <2>5. /\ m \in Messages /\ m \in MessagesTo(f, Packets[f]) /\ m.type = "PULL"
    BY <2>1 DEF PullsTo, MessagesTo
  <2>6. back[f] \in Seq(Messages) /\ back[f] \in Seq(MessagesTo(f, Packets[f]))
    BY <2>1, TypesOfFlow
  <2>7. back'[f] = Append(back[f], m) /\ \A g \in Flows \ {f} : back'[g] = back[g]
    BY <2>1, <2>2 DEF Types
  <2>8. \A g \in Flows : \A M : M \cap Typed("PULL") = {} => Count(back'[g], M) = Count(back[g], M)
    <3>. SUFFICES ASSUME NEW g \in Flows, NEW M, M \cap Typed("PULL") = {}
                  PROVE  Count(back'[g], M) = Count(back[g], M)
      OBVIOUS
    <3>1. CASE g = f
      <4>1. m \notin M
        BY <2>5 DEF Typed
      <4>2. Count(Append(back[f], m), M) = Count(back[f], M) + (IF m \in M THEN 1 ELSE 0)
        BY <2>5, <2>6, CountAppend
      <4>3. Count(back[f], M) \in Nat
        BY <2>1, CountsOfFlow
      <4>4. Count(Append(back[f], m), M) = Count(back[f], M)
        BY <4>1, <4>2, <4>3
      <4>. QED BY <2>7, <3>1, <4>4
    <3>2. CASE g # f
      BY <2>7, <3>2
    <3>. QED BY <3>1, <3>2
  <2>9. Types'
    <3>1. Append(back[f], m) \in Seq(Messages)
      BY <2>5, <2>6
    <3>2. Append(back[f], m) \in Seq(MessagesTo(f, Packets[f]))
      BY <2>5, <2>6
    <3>3. back' \in [Flows -> Seq(Messages)]
      BY <2>2, <3>1 DEF Types
    <3>4. \A g \in Flows : back'[g] \in Seq(MessagesTo(g, Packets[g]))
      BY <2>7, <3>2 DEF Types
    <3>. QED BY <1>1, <1>2, <2>4, <3>3, <3>4 DEF Types
  <2>10. \A g \in Flows :
           /\ \A k : /\ Count(back'[g], About("RTS", k)) = Count(back[g], About("RTS", k))
                     /\ Count(back'[g], About("NACK", k)) = Count(back[g], About("NACK", k))
           /\ Count(back'[g], Typed("RTS")) = Count(back[g], Typed("RTS"))
           /\ Count(back'[g], Typed("ACK")) = Count(back[g], Typed("ACK"))
           /\ Count(back'[g], FinalAcks(Packets[g])) = Count(back[g], FinalAcks(Packets[g]))
    <3>1. /\ \A k : /\ About("RTS", k) \cap Typed("PULL") = {}
                    /\ About("NACK", k) \cap Typed("PULL") = {}
          /\ Typed("RTS") \cap Typed("PULL") = {}
          /\ Typed("ACK") \cap Typed("PULL") = {}
          /\ \A n2 : FinalAcks(n2) \cap Typed("PULL") = {}
      BY DEF About, Typed, FinalAcks
    <3>. QED BY <2>8, <3>1
  <2>11. Ledger'
    BY <1>1, <2>10 DEF Ledger, Copies, Arrived
  <2>12. Budget'
    BY <1>1, <2>10 DEF Budget, Load
  <2>13. Acknowledged' /\ Finishing'
    BY <1>1, <1>2, <2>10 DEF Acknowledged, Finishing, Arrived
  <2>. QED BY <2>9, <2>11, <2>12, <2>13
<1>. QED BY <1>4, <1>5

LEMMA DrainTimePassesKeeps ==
  ASSUME NdpInv, DrainTimePasses
  PROVE  NdpInv'
<1>. USE DEF NdpInv
<1>1. setting' = setting /\ src' = src /\ sink' = sink /\ forward' = forward /\ queue' = queue
      /\ back' = back /\ trims' = trims
  BY DEF DrainTimePasses
<1>2. Packets' = Packets
  BY <1>1 DEF Packets
<1>3. pacer' \in Pacers(Packets)
  <2>. DEFINE n == Packets
              p == pacer
              q == pacer'
              elapsed == TRUE
              timers == 0
              due == p.timers
  <2>1. q = [p EXCEPT !.elapsed = elapsed, !.timers = timers, !.due = due]
    <3>1. p \in [pulls : PullMaps, current : Nat, elapsed : BOOLEAN, timers : Nat, due : Nat]
      BY DEF Types, Pacers
    <3>. QED BY <3>1 DEF DrainTimePasses
  <2>2. p \in Pacers(n) /\ elapsed \in BOOLEAN /\ timers \in Nat
    BY DEF Types
  <2>. HIDE DEF n, p, q, elapsed, timers
  <2>3. due \in Nat
    BY <2>2, PacerFields
  <2>. HIDE DEF due
  <2>4. q \in Pacers(n)
    BY <2>1, <2>2, <2>3, PacerTicks
  <2>. QED BY <2>4 DEF q, n
<1>4. Types'
  BY <1>1, <1>2, <1>3 DEF Types
<1>. QED BY <1>1, <1>2, <1>4
         DEF Ledger, Copies, Budget, Load, Acknowledged, Finishing, Arrived

LEMMA NdpStutters ==
  ASSUME NdpInv, UNCHANGED ndpVars
  PROVE  NdpInv'
<1>1. setting' = setting /\ src' = src /\ sink' = sink /\ forward' = forward /\ queue' = queue
      /\ back' = back /\ trims' = trims /\ pacer' = pacer
  BY DEF ndpVars
<1>2. Packets' = Packets
  BY <1>1 DEF Packets
<1>. QED BY <1>1, <1>2
         DEF NdpInv, Types, Ledger, Copies, Budget, Load, Acknowledged, Finishing, Arrived

\* The ledgers hold in every reachable state.
THEOREM LedgersAreKept == NdpSpec => []NdpInv
<1>1. NdpInit => NdpInv
  BY NdpInitially
<1>2. NdpInv /\ [NdpNext]_ndpVars => NdpInv'
  <2>. SUFFICES ASSUME NdpInv, [NdpNext]_ndpVars PROVE NdpInv'
    OBVIOUS
  <2>1. CASE \E f \in Flows : StartFlow(f)
    BY <2>1, StartFlowKeeps
  <2>2. CASE Arrives
    BY <2>2, ArriveKeeps DEF Arrives
  <2>3. CASE Serve
    BY <2>3, ServeKeeps
  <2>4. CASE SourceReceives
    BY <2>4, SourceReceiveKeeps DEF SourceReceives
  <2>5. CASE PacerFires
    BY <2>5, PacerFiresKeeps
  <2>6. CASE DrainTimePasses
    BY <2>6, DrainTimePassesKeeps
  <2>7. CASE UNCHANGED ndpVars
    BY <2>7, NdpStutters
  <2>. QED BY <2>1, <2>2, <2>3, <2>4, <2>5, <2>6, <2>7 DEF NdpNext
<1>. QED BY <1>1, <1>2, PTL DEF NdpSpec

-----------------------------------------------------------------------------
(* What the ledgers mean.                                                  *)

\* An entry of a sequence is in the set of its entries.
LEMMA InSetOfEntries ==
  ASSUME NEW S, NEW s \in Seq(S), NEW M
  PROVE  (\E e \in ToSet(s) : e \in M) <=> Count(s, M) >= 1
<1>1. (\E e \in ToSet(s) : e \in M) <=> \E i \in 1..Len(s) : s[i] \in M
  BY DEF ToSet
<1>. QED BY <1>1, CountMember

\* Each place of a packet, and the count that tells whether it is there.
LEMMA PlacesAreCounts ==
  ASSUME Types, NEW f \in Flows, NEW k \in Seqs
  PROVE  /\ "forward" \in Places(f, k) <=> Count(forward[f], {k}) >= 1
         /\ "queue" \in Places(f, k) <=> Holds(queue, {<<f, k>>}) >= 1
         /\ "returned" \in Places(f, k) <=> Count(back[f], About("RTS", k)) >= 1
         /\ "trimmed" \in Places(f, k) <=> Count(back[f], About("NACK", k)) >= 1
         /\ "waiting" \in Places(f, k) <=> Count(src[f].rtx_queue, {k}) >= 1
         /\ "received" \in Places(f, k) <=> Hit(k, Arrived(f)) >= 1
<1>1. /\ forward[f] \in Seq(Seqs) /\ back[f] \in Seq(Messages) /\ src[f].rtx_queue \in Seq(Seqs)
      /\ queue.low \in Seq(Data) /\ queue.high \in Seq(Data)
  BY TypesOfFlow, SourceFields, QueueFields DEF Types
<1>2. /\ "forward" \in Places(f, k) <=> k \in ToSet(forward[f])
      /\ "queue" \in Places(f, k) <=> \E p \in DataQueued : p.flow = f /\ p.seq = k
      /\ "returned" \in Places(f, k) <=> \E m \in ToSet(back[f]) : m.type = "RTS" /\ m.seq = k
      /\ "trimmed" \in Places(f, k) <=> \E m \in ToSet(back[f]) : m.type = "NACK" /\ m.seq = k
      /\ "waiting" \in Places(f, k) <=> k \in ToSet(src[f].rtx_queue)
      /\ "received" \in Places(f, k) <=> k \in Arrived(f)
  BY DEF Places, Arrived, Got
<1>3. k \in ToSet(forward[f]) <=> Count(forward[f], {k}) >= 1
  <2>1. (\E e \in ToSet(forward[f]) : e \in {k}) <=> Count(forward[f], {k}) >= 1
    BY <1>1, InSetOfEntries
  <2>. QED BY <2>1
<1>4. k \in ToSet(src[f].rtx_queue) <=> Count(src[f].rtx_queue, {k}) >= 1
  <2>1. (\E e \in ToSet(src[f].rtx_queue) : e \in {k}) <=> Count(src[f].rtx_queue, {k}) >= 1
    BY <1>1, InSetOfEntries
  <2>. QED BY <2>1
<1>5. ToSet(back[f]) \subseteq Messages /\ ToSet(queue.low) \subseteq Data
      /\ ToSet(queue.high) \subseteq Data
  BY <1>1 DEF ToSet
<1>6. ASSUME NEW t \in {"RTS", "NACK"}
      PROVE  (\E m \in ToSet(back[f]) : m.type = t /\ m.seq = k) <=> Count(back[f], About(t, k)) >= 1
  <2>1. (\E m \in ToSet(back[f]) : m \in About(t, k)) <=> Count(back[f], About(t, k)) >= 1
    BY <1>1, InSetOfEntries
  <2>. QED BY <1>5, <2>1 DEF About
<1>7. (\E p \in DataQueued : p.flow = f /\ p.seq = k) <=> Holds(queue, {<<f, k>>}) >= 1
  <2>. DEFINE P == Marked({<<f, k>>})
              a == Count(queue.low, P)
              b == Count(queue.high, P)
  <2>1. (\E p \in ToSet(queue.low) : p \in P) <=> a >= 1
    BY <1>1, InSetOfEntries
  <2>2. (\E p \in ToSet(queue.high) : p \in P) <=> b >= 1
    BY <1>1, InSetOfEntries
  <2>3. \A p \in DataQueued : p \in P <=> p.flow = f /\ p.seq = k
    BY <1>5 DEF Marked, DataQueued
  <2>4. a \in Nat /\ b \in Nat
    BY <1>1, CountType
  <2>5. Holds(queue, {<<f, k>>}) = a + b
    BY DEF Holds
  <2>. HIDE DEF a, b, P
  <2>6. a + b >= 1 <=> a >= 1 \/ b >= 1
    BY <2>4
  <2>7. (\E p \in DataQueued : p.flow = f /\ p.seq = k) <=> \E p \in DataQueued : p \in P
    BY <2>3
  <2>8. (\E p \in DataQueued : p \in P) <=> a >= 1 \/ b >= 1
    BY <2>1, <2>2 DEF DataQueued
  <2>. QED BY <2>5, <2>6, <2>7, <2>8
<1>8. k \in Arrived(f) <=> Hit(k, Arrived(f)) >= 1
  BY DEF Hit
<1>. QED BY <1>2, <1>3, <1>4, <1>6, <1>7, <1>8

LEMMA OnePlace == ASSUME NdpInv PROVE EveryPacketIsInOnePlace
<1>. SUFFICES ASSUME NEW f \in Flows, NEW k \in 1..src[f].highest_sent
              PROVE  Cardinality(Places(f, k)) = 1
  BY DEF EveryPacketIsInOnePlace
<1>. USE DEF NdpInv
<1>1. k \in Seqs /\ k <= src[f].highest_sent
  BY TypesOfFlow, SourceFields DEF Seqs
<1>. DEFINE a == Count(forward[f], {k})
            b == Holds(queue, {<<f, k>>})
            c == Count(back[f], About("RTS", k))
            d == Count(back[f], About("NACK", k))
            e == Count(src[f].rtx_queue, {k})
            h == Hit(k, Arrived(f))
<1>2. a \in Nat /\ b \in Nat /\ c \in Nat /\ d \in Nat /\ e \in Nat
  BY CountsOfFlow
<1>3. h \in Nat
  BY DEF Hit
<1>4. a + b + c + d + e + h = 1
  BY <1>1 DEF Ledger, Copies
<1>5. /\ "forward" \in Places(f, k) <=> a >= 1
      /\ "queue" \in Places(f, k) <=> b >= 1
      /\ "returned" \in Places(f, k) <=> c >= 1
      /\ "trimmed" \in Places(f, k) <=> d >= 1
      /\ "waiting" \in Places(f, k) <=> e >= 1
      /\ "received" \in Places(f, k) <=> h >= 1
  BY <1>1, PlacesAreCounts
<1>6. Places(f, k) \subseteq {"forward", "queue", "returned", "trimmed", "waiting", "received"}
  BY DEF Places
<1>. HIDE DEF a, b, c, d, e, h
<1>7. \/ a = 1 /\ b = 0 /\ c = 0 /\ d = 0 /\ e = 0 /\ h = 0
      \/ a = 0 /\ b = 1 /\ c = 0 /\ d = 0 /\ e = 0 /\ h = 0
      \/ a = 0 /\ b = 0 /\ c = 1 /\ d = 0 /\ e = 0 /\ h = 0
      \/ a = 0 /\ b = 0 /\ c = 0 /\ d = 1 /\ e = 0 /\ h = 0
      \/ a = 0 /\ b = 0 /\ c = 0 /\ d = 0 /\ e = 1 /\ h = 0
      \/ a = 0 /\ b = 0 /\ c = 0 /\ d = 0 /\ e = 0 /\ h = 1
  BY <1>2, <1>3, <1>4
<1>8. \E w : Places(f, k) = {w}
  BY <1>5, <1>6, <1>7
<1>. QED BY <1>8, FS_Singleton

LEMMA WindowHolds == ASSUME NdpInv PROVE WindowIsKept
<1>. SUFFICES ASSUME NEW f \in Flows, src[f].started
              PROVE  InFlight(f) + (sink[f].pull_no - src[f].last_pull) <= Cwnd
  BY DEF WindowIsKept
<1>. USE DEF NdpInv
<1>1. back[f] \in Seq(Messages) /\ queue.low \in Seq(Data) /\ queue.high \in Seq(Data)
  BY TypesOfFlow, QueueFields DEF Types
<1>. DEFINE P == Marked({f} \X Seqs)
            L == {e \in ToSet(queue.low) : e \in P}
            H == {e \in ToSet(queue.high) : e \in P}
            R == {e \in ToSet(back[f]) : e \in Typed("RTS")}
<1>2. IsFiniteSet(L) /\ Cardinality(L) <= Count(queue.low, P)
  BY <1>1, CountBoundsSet
<1>3. IsFiniteSet(H) /\ Cardinality(H) <= Count(queue.high, P)
  BY <1>1, CountBoundsSet
<1>4. IsFiniteSet(R) /\ Cardinality(R) <= Count(back[f], Typed("RTS"))
  BY <1>1, CountBoundsSet
<1>5. {p \in DataQueued : p.flow = f} = L \cup H
  <2>1. ToSet(queue.low) \subseteq Data /\ ToSet(queue.high) \subseteq Data
    BY <1>1 DEF ToSet
  <2>2. \A p \in DataQueued : p \in P <=> p.flow = f
    BY <2>1, DataFields DEF Marked, DataQueued
  <2>. QED BY <2>2 DEF DataQueued
<1>6. {m \in ToSet(back[f]) : m.type = "RTS"} = R
  <2>1. ToSet(back[f]) \subseteq Messages
    BY <1>1 DEF ToSet
  <2>. QED BY <2>1 DEF Typed
<1>7. InFlight(f) = Len(forward[f]) + Cardinality(L \cup H) + Cardinality(R)
  BY <1>5, <1>6 DEF InFlight
<1>. HIDE DEF L, H, R
<1>8. Cardinality(L \cup H) <= Cardinality(L) + Cardinality(H)
  <2>1. Cardinality(L \cup H) = Cardinality(L) + Cardinality(H) - Cardinality(L \cap H)
    BY <1>2, <1>3, FS_Union
  <2>2. Cardinality(L \cap H) \in Nat /\ Cardinality(L) \in Nat /\ Cardinality(H) \in Nat
    BY <1>2, <1>3, FS_Intersection, FS_CardinalityType
  <2>. QED BY <2>1, <2>2
<1>9. IsFiniteSet(L \cup H)
  BY <1>2, <1>3, FS_Union
<1>10. Cardinality(L \cup H) \in Nat /\ Cardinality(L) \in Nat /\ Cardinality(H) \in Nat
       /\ Cardinality(R) \in Nat
  BY <1>2, <1>3, <1>4, <1>9, FS_CardinalityType
<1>11. /\ Len(forward[f]) \in Nat /\ Count(back[f], Typed("RTS")) \in Nat
       /\ sink[f].pull_no \in Nat /\ src[f].last_pull \in Nat
  BY CountsOfFlow, TypesOfFlow, SourceFields
<1>12. Count(queue.low, P) \in Nat /\ Count(queue.high, P) \in Nat
  BY <1>1, CountType
<1>13. Len(forward[f]) + (Count(queue.low, P) + Count(queue.high, P)) + Count(back[f], Typed("RTS"))
         + (sink[f].pull_no - src[f].last_pull) <= Cwnd
  BY DEF Budget, Load, Holds
<1>. DEFINE l == Len(forward[f])
            p == sink[f].pull_no - src[f].last_pull
            low == Count(queue.low, P)
            high == Count(queue.high, P)
            rts == Count(back[f], Typed("RTS"))
<1>14. /\ l \in Nat /\ p \in Int /\ low \in Nat /\ high \in Nat /\ rts \in Nat
       /\ l + (low + high) + rts + p <= Cwnd
       /\ Cardinality(L) <= low /\ Cardinality(H) <= high /\ Cardinality(R) <= rts
       /\ InFlight(f) = l + Cardinality(L \cup H) + Cardinality(R)
  BY <1>2, <1>3, <1>4, <1>7, <1>11, <1>12, <1>13
<1>. HIDE DEF l, p, low, high, rts
<1>15. InFlight(f) + p <= l + (low + high) + rts + p
  BY <1>8, <1>10, <1>14
<1>16. InFlight(f) + p \in Int
  BY <1>10, <1>14
<1>17. InFlight(f) + p <= Cwnd
  BY <1>14, <1>15, <1>16, NdpAssumption
<1>. QED BY <1>17 DEF p

LEMMA CallbackHolds == ASSUME NdpInv PROVE CallbackIsOnce
<1>. SUFFICES ASSUME NEW f \in Flows
              PROVE  /\ src[f].callbacks <= 1
                     /\ src[f].callbacks = 1 => sink[f].cumulative_ack = Packets[f]
  BY DEF CallbackIsOnce
<1>. USE DEF NdpInv
<1>1. src[f].callbacks \in Nat /\ Count(back[f], FinalAcks(Packets[f])) \in Nat
  BY CountsOfFlow, TypesOfFlow, SourceFields
<1>2. src[f].callbacks + Count(back[f], FinalAcks(Packets[f]))
        = IF sink[f].cumulative_ack = Packets[f] THEN 1 ELSE 0
  BY DEF Finishing
<1>. QED BY <1>1, <1>2

LEMMA TypesHold == ASSUME NdpInv PROVE NdpTypeOK
<1>. USE DEF NdpInv
<1>1. ASSUME NEW f \in Flows
      PROVE  /\ src[f].highest_sent \in 0..Packets[f] /\ src[f].last_acked \in 0..Packets[f]
             /\ src[f].flight \in 0..Packets[f] /\ src[f].pull_window \in Int
             /\ src[f].last_pull \in Nat /\ src[f].out = <<>>
             /\ sink[f].cumulative_ack \in 0..Packets[f] /\ sink[f].pull_no \in Nat
  <2>1. /\ Packets[f] \in Nat /\ src[f] \in Sources /\ sink[f] \in Sinks /\ src[f].out = <<>>
        /\ src[f].highest_sent <= Packets[f] /\ src[f].last_acked <= Packets[f]
        /\ sink[f].cumulative_ack <= Packets[f]
    BY TypesOfFlow
  <2>2. /\ src[f].highest_sent \in Nat /\ src[f].last_acked \in Nat /\ src[f].acks \in Nat
        /\ src[f].pull_window \in Int /\ src[f].last_pull \in Nat
        /\ sink[f].cumulative_ack \in Nat /\ sink[f].pull_no \in Nat
    BY <2>1, SourceFields, SinkFields
  <2>3. src[f].acks <= src[f].highest_sent
    <3>1. src[f].acks + Count(back[f], Typed("ACK")) = Cardinality(Arrived(f))
      BY DEF Acknowledged
    <3>2. Cardinality(Arrived(f)) <= src[f].highest_sent /\ Cardinality(Arrived(f)) \in Nat
      BY ArrivedWereSent, FS_CardinalityType
    <3>3. Count(back[f], Typed("ACK")) \in Nat
      BY CountsOfFlow
    <3>. QED BY <2>2, <3>1, <3>2, <3>3
  <2>4. src[f].flight = src[f].highest_sent - src[f].acks
    BY DEF Acknowledged
  <2>5. src[f].flight \in 0..Packets[f]
    BY <2>1, <2>2, <2>3, <2>4
  <2>. QED BY <2>1, <2>2, <2>5
<1>2. /\ pacer.timers \in Nat /\ pacer.due \in Nat /\ pacer.elapsed \in BOOLEAN
      /\ pacer.current \in Entries(pacer) \cup {NFlows + 1}
  BY PacerFields DEF Types, Entries
<1>3. trims \in 0..MaxTrims /\ QueueIsSound(queue)
  BY DEF Types
<1>. QED BY <1>1, <1>2, <1>3 DEF NdpTypeOK

\* The fields keep their types; in particular no more is in flight than the flow
\* has, and the lists of the queue stay within their size.
THEOREM NdpTypesHold == NdpSpec => []NdpTypeOK
BY LedgersAreKept, TypesHold, PTL

\* No packet is lost or duplicated, however often it is trimmed or returned.
THEOREM PacketsAreInOnePlace == NdpSpec => []EveryPacketIsInOnePlace
BY LedgersAreKept, OnePlace, PTL

\* Never more than the first window is in the network or may be put there by
\* the pulls underway.
THEOREM WindowsAreKept == NdpSpec => []WindowIsKept
BY LedgersAreKept, WindowHolds, PTL

\* A flow's callback is called at most once, and only after everything arrived.
THEOREM CallbacksAreOnce == NdpSpec => []CallbackIsOnce
BY LedgersAreKept, CallbackHolds, PTL

=============================================================================
