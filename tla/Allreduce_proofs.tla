-------------------------- MODULE Allreduce_proofs --------------------------
(***************************************************************************)
(* The rounds of a collective are barriers, its task finishes with the     *)
(* last flow of the last ring, and every iteration starts afresh: for all  *)
(* group sizes, data sizes and numbers of rings.                           *)
(***************************************************************************)
EXTENDS Allreduce, FiniteSetTheorems, TLAPS

\* The round a ring ends with.
Final == IF EarlyEnd THEN 1 ELSE Rounds

Mine(r) == {f \in flows : f.ring = r}
Flow(r, id) == [ring |-> r, id |-> id, round |-> curr_round[r]]
DoneRings == {r \in Rings : curr_round[r] = Final}

\* A ring that is not done has flows in the network, of its current round, and
\* has counted all others of that round.
RingIsExact(r) ==
  /\ curr_round[r] \in 0..Final
  /\ \A f \in Mine(r) : f.round = curr_round[r]
  /\ curr_round[r] = Final => Mine(r) = {} /\ finished_curr_round[r] = 0
  /\ curr_round[r] # Final =>
       /\ Mine(r) # {}
       /\ Cardinality(Mine(r)) + finished_curr_round[r] = FlowsPerRound
       /\ strategy # "dps" => \A id \in FlowIds : finished_rounds[r][id] =
            IF Flow(r, id) \in flows THEN curr_round[r] ELSE curr_round[r] + 1

\* All flows of the iteration, and those that have been delivered.
AllFlows == [ring : Rings, id : FlowIds, round : 0..Final - 1]
DeliveredFlows == {f \in AllFlows : f.round <= curr_round[f.ring]} \ flows

Params ==
  /\ strategy \in {"ring", "newring", "ps", "dps"} /\ n \in Nat \ {0}

IInv ==
  /\ Params
  /\ TypeOK
  /\ StartsFresh
  /\ phase = "waiting" => delivered = 0
  /\ phase = "running" =>
       /\ n > 1
       /\ \A r \in Rings : RingIsExact(r)
       /\ DoneRings # Rings
       /\ finished_rings = IF strategy = "newring" THEN Cardinality(DoneRings) ELSE 0
       /\ delivered = Cardinality(DeliveredFlows)
  /\ phase = "finished" =>
       /\ flows = {}
       /\ n > 1 => /\ \A r \in Rings : curr_round[r] = Final
                   /\ delivered = Cardinality(AllFlows)

-----------------------------------------------------------------------------
(* How many flows and rings there are.                                     *)

LEMMA RingsFacts ==
  ASSUME Params
  PROVE  /\ IsFiniteSet(Rings) /\ Rings # {} /\ Cardinality(Rings) \in Nat
         /\ strategy = "newring" => Cardinality(Rings) = NRings
         /\ strategy # "newring" => Rings = {1}
<1>1. CASE strategy = "newring"
  <2>1. Rings = 1..NRings /\ NRings \in Nat \ {0}
    BY <1>1, AllreduceAssumption DEF Rings
  <2>2. IsFiniteSet(1..NRings) /\ Cardinality(1..NRings) = NRings /\ 1 \in 1..NRings
    BY <2>1, FS_Interval
  <2>. QED  BY <1>1, <2>1, <2>2
<1>2. CASE strategy # "newring"
  BY <1>2, FS_Singleton DEF Rings
<1>. QED  BY <1>1, <1>2

\* A pair of different nodes for every node and every other one.
LEMMA PairsOfNodes ==
  ASSUME NEW m \in Nat \ {0}
  PROVE  LET pairs == {p \in (1..m) \X (1..m) : p[1] # p[2]}
         IN  IsFiniteSet(pairs) /\ Cardinality(pairs) = m * (m - 1)
<1>. DEFINE S == 1..m
            same == {p \in S \X S : p[1] = p[2]}
            pairs == {p \in S \X S : p[1] # p[2]}
            twice == [i \in S |-> <<i, i>>]
<1>1. IsFiniteSet(S) /\ Cardinality(S) = m
  BY FS_Interval
<1>2. IsFiniteSet(S \X S) /\ Cardinality(S \X S) = m * m
  BY <1>1, FS_Product
<1>3. twice \in Bijection(S, same)
  BY DEF Bijection, Injection, Surjection, IsInjective
<1>4. Cardinality(same) = m
  BY <1>1, <1>3, FS_Bijection DEF ExistsBijection
<1>5. pairs = (S \X S) \ same /\ (S \X S) \cap same = same
  OBVIOUS
<1>6. IsFiniteSet(pairs) /\ Cardinality(pairs) = m * m - m
  <2>1. Cardinality((S \X S) \ same) = Cardinality(S \X S) - Cardinality((S \X S) \cap same)
    BY <1>2, FS_Difference
  <2>2. IsFiniteSet((S \X S) \ same)
    BY <1>2, FS_Difference
  <2>. QED  BY <1>2, <1>4, <1>5, <2>1, <2>2
<1>7. m * m - m = m * (m - 1)
  OBVIOUS
<1>. QED  BY <1>6, <1>7

\* FlowsPerRound, with which the callbacks end a round, is the number of flows
\* that start_flow creates for it.
LEMMA GroupFacts ==
  ASSUME Params, n > 1
  PROVE  /\ IsFiniteSet(FlowIds) /\ Cardinality(FlowIds) = FlowsPerRound
         /\ FlowsPerRound \in Nat \ {0}
         /\ Rounds \in Nat \ {0, 1} /\ Final \in 1..Rounds
<1>1. n \in Nat /\ n - 1 \in Nat \ {0}
  BY DEF Params
<1>2. Rounds \in Nat \ {0, 1} /\ Final \in 1..Rounds
  BY <1>1 DEF Rounds, Final
<1>3. CASE strategy \in {"ring", "newring"}
  <2>1. FlowIds = 1..n /\ FlowsPerRound = n
    BY <1>3 DEF FlowIds, FlowsPerRound
  <2>2. IsFiniteSet(1..n) /\ Cardinality(1..n) = n
    BY <1>1, FS_Interval
  <2>. QED  BY <1>1, <1>2, <2>1, <2>2
<1>4. CASE strategy = "ps"
  <2>1. FlowIds = 2..n /\ FlowsPerRound = n - 1
    BY <1>4 DEF FlowIds, FlowsPerRound
  <2>2. IsFiniteSet(2..n) /\ Cardinality(2..n) = n - 1
    BY <1>1, FS_Interval
  <2>. QED  BY <1>1, <1>2, <2>1, <2>2
<1>5. CASE strategy = "dps"
  <2>1. n * (n - 1) \in Nat \ {0}
    BY <1>1
  <2>2. FlowIds = {p \in (1..n) \X (1..n) : p[1] # p[2]} /\ FlowsPerRound = n * (n - 1)
    BY <1>5 DEF FlowIds, FlowsPerRound
  <2>. QED  BY <1>1, <1>2, <2>1, <2>2, PairsOfNodes
<1>. QED  BY <1>2, <1>3, <1>4, <1>5 DEF Params

LEMMA RoundFacts ==
  ASSUME Params, n > 1, NEW r \in Rings, NEW k \in Nat
  PROVE  IsFiniteSet(RoundOf(r, k)) /\ Cardinality(RoundOf(r, k)) = FlowsPerRound
<1>. DEFINE flow == [id \in FlowIds |-> [ring |-> r, id |-> id, round |-> k]]
<1>1. flow \in Bijection(FlowIds, RoundOf(r, k))
  BY DEF Bijection, Injection, Surjection, IsInjective, RoundOf
<1>. QED  BY <1>1, GroupFacts, FS_Bijection DEF ExistsBijection

LEMMA AllFlowsFacts ==
  ASSUME Params, n > 1
  PROVE  /\ IsFiniteSet(AllFlows)
         /\ Cardinality(AllFlows) = Cardinality(Rings) * Final * Cardinality(FlowIds)
<1>. DEFINE rounds == 0..Final - 1
            triples == (Rings \X rounds) \X FlowIds
            flow == [x \in triples |-> [ring |-> x[1][1], id |-> x[2], round |-> x[1][2]]]
<1>1. Final \in Nat \ {0} /\ IsFiniteSet(rounds) /\ Cardinality(rounds) = Final
  <2>1. Final \in Nat \ {0}
    BY GroupFacts
  <2>2. IsFiniteSet(0..Final - 1) /\ Cardinality(0..Final - 1) = Final
    BY <2>1, FS_Interval
  <2>. QED  BY <2>1, <2>2
<1>2. IsFiniteSet(Rings \X rounds) /\ Cardinality(Rings \X rounds) = Cardinality(Rings) * Final
  BY <1>1, RingsFacts, FS_Product
<1>3. IsFiniteSet(triples) /\ Cardinality(triples) = Cardinality(Rings) * Final * Cardinality(FlowIds)
  BY <1>2, GroupFacts, FS_Product
<1>4. flow \in Bijection(triples, AllFlows)
  <2>1. flow \in [triples -> AllFlows]
    BY DEF AllFlows
  <2>2. \A x, y \in triples : flow[x] = flow[y] => x = y
    OBVIOUS
  <2>3. \A f \in AllFlows : \E x \in triples : flow[x] = f
    <3>. SUFFICES ASSUME NEW f \in AllFlows PROVE \E x \in triples : flow[x] = f
      OBVIOUS
    <3>1. <<<<f.ring, f.round>>, f.id>> \in triples
      BY DEF AllFlows
    <3>2. flow[<<<<f.ring, f.round>>, f.id>>] = f
      BY <3>1 DEF AllFlows
    <3>. QED  BY <3>1, <3>2
  <2>. QED  BY <2>1, <2>2, <2>3 DEF Bijection, Injection, Surjection, IsInjective
<1>. QED  BY <1>3, <1>4, FS_Bijection DEF ExistsBijection

-----------------------------------------------------------------------------
(* The callbacks.                                                          *)

LEMMA SameParams ==
  ASSUME UNCHANGED <<params, operator_size>>
  PROVE  /\ Params' = Params /\ Rings' = Rings /\ FlowIds' = FlowIds /\ AllFlows' = AllFlows
         /\ FlowsPerRound' = FlowsPerRound /\ Final' = Final
         /\ ZeroRounds' = ZeroRounds /\ ZeroFlows' = ZeroFlows
         /\ strategy' = strategy /\ n' = n /\ operator_size' = operator_size
BY DEF params, Params, Rings, FlowIds, AllFlows, FlowsPerRound, Final, Rounds, EarlyEnd,
       ZeroRounds, ZeroFlows

\* A flow in the network is one of the current round of a ring that is not done.
LEMMA FlowFacts ==
  ASSUME IInv, NEW f \in flows
  PROVE  /\ phase = "running" /\ n > 1
         /\ f.ring \in Rings /\ f.id \in FlowIds /\ f \in Mine(f.ring)
         /\ f = [ring |-> f.ring, id |-> f.id, round |-> f.round]
         /\ f.round = curr_round[f.ring] /\ f = Flow(f.ring, f.id)
         /\ RingIsExact(f.ring) /\ curr_round[f.ring] \in 0..Final - 1
         /\ f \in AllFlows
<1>1. phase = "running" /\ n > 1
  BY DEF IInv, TypeOK, StartsFresh
<1>2. /\ f.ring \in Rings /\ f.id \in FlowIds
      /\ f = [ring |-> f.ring, id |-> f.id, round |-> f.round]
  BY DEF IInv, TypeOK
<1>3. f \in Mine(f.ring) /\ RingIsExact(f.ring)
  BY <1>1, <1>2 DEF IInv, Mine
<1>4. Final \in Nat
  BY <1>1, GroupFacts DEF IInv
<1>5. f.round = curr_round[f.ring] /\ curr_round[f.ring] \in 0..Final - 1
  BY <1>3, <1>4 DEF RingIsExact
<1>6. f = Flow(f.ring, f.id)
  BY <1>2, <1>5 DEF Flow
<1>7. f \in AllFlows
  BY <1>2, <1>5 DEF AllFlows
<1>. QED  BY <1>1, <1>2, <1>3, <1>5, <1>6, <1>7

LEMMA MineFacts ==
  ASSUME IInv, phase = "running", NEW r \in Rings
  PROVE  IsFiniteSet(Mine(r)) /\ Cardinality(Mine(r)) \in Nat
<1>1. n > 1 /\ RingIsExact(r) /\ curr_round[r] \in Nat /\ Params
  BY DEF IInv, TypeOK
<1>2. Mine(r) \subseteq RoundOf(r, curr_round[r])
  <2>. SUFFICES ASSUME NEW f \in Mine(r) PROVE f \in RoundOf(r, curr_round[r])
    OBVIOUS
  <2>1. f \in flows /\ f.ring = r
    BY DEF Mine
  <2>. QED  BY <2>1, FlowFacts DEF RoundOf
<1>. QED  BY <1>1, <1>2, RoundFacts, FS_Subset, FS_CardinalityType

LEMMA DoneRingsFacts ==
  ASSUME IInv, phase = "running"
  PROVE  /\ IsFiniteSet(DoneRings) /\ Cardinality(DoneRings) \in Nat
         /\ Cardinality(DoneRings) < Cardinality(Rings)
<1>1. DoneRings \subseteq Rings /\ DoneRings # Rings
  BY DEF IInv, DoneRings
<1>. QED  BY <1>1, RingsFacts, FS_Subset, FS_CardinalityType DEF IInv

LEMMA DeliveredFacts ==
  ASSUME IInv, n > 1
  PROVE  IsFiniteSet(DeliveredFlows) /\ Cardinality(DeliveredFlows) \in Nat
<1>1. DeliveredFlows \subseteq AllFlows
  BY DEF DeliveredFlows
<1>. QED  BY <1>1, AllFlowsFacts, FS_Subset, FS_CardinalityType DEF IInv

\* What is common to all callbacks.
LEMMA CountFlowFacts ==
  ASSUME IInv, NEW f \in flows, CountFlow(f),
         DeliveredFlows' = DeliveredFlows \cup {f}
  PROVE  delivered' = Cardinality(DeliveredFlows')
<1>1. f \notin DeliveredFlows
  BY DEF DeliveredFlows
<1>2. n > 1 /\ phase = "running" /\ delivered = Cardinality(DeliveredFlows)
  BY FlowFacts DEF IInv
<1>. QED  BY <1>1, <1>2, DeliveredFacts, FS_AddElement DEF CountFlow

\* A ring whose flows and counters are left alone.
LEMMA OtherRing ==
  ASSUME IInv, UNCHANGED <<params, operator_size>>, NEW r \in Rings, RingIsExact(r),
         curr_round'[r] = curr_round[r], finished_curr_round'[r] = finished_curr_round[r],
         finished_rounds'[r] = finished_rounds[r], Mine(r)' = Mine(r)
  PROVE  RingIsExact(r)'
<1>1. \A id \in FlowIds : Flow(r, id)' = Flow(r, id)
  BY DEF Flow
<1>2. \A id \in FlowIds : Flow(r, id) \in flows <=> Flow(r, id) \in Mine(r)
  BY DEF Flow, Mine
<1>3. \A id \in FlowIds : Flow(r, id)' \in flows' <=> Flow(r, id)' \in Mine(r)'
  BY DEF Flow, Mine
<1>4. Final' = Final /\ FlowIds' = FlowIds /\ FlowsPerRound' = FlowsPerRound /\ strategy' = strategy
  BY SameParams
<1>. QED  BY <1>1, <1>2, <1>3, <1>4 DEF RingIsExact

\* What a callback adds to the rounds of its flow.
LEMMA RoundsOfFlows ==
  ASSUME IInv, NEW f \in flows, CountFlow(f)
  PROVE  /\ finished_rounds' \in [Rings -> [FlowIds -> Nat]]
         /\ \A r \in Rings : r # f.ring => finished_rounds'[r] = finished_rounds[r]
         /\ strategy # "dps" =>
              /\ \A id \in FlowIds : id # f.id =>
                   finished_rounds'[f.ring][id] = finished_rounds[f.ring][id]
              /\ finished_rounds'[f.ring][f.id] = curr_round[f.ring] + 1
<1>1. finished_rounds \in [Rings -> [FlowIds -> Nat]] /\ f.ring \in Rings /\ f.id \in FlowIds
  BY FlowFacts DEF IInv, TypeOK
<1>2. strategy # "dps" => finished_rounds[f.ring][f.id] = curr_round[f.ring]
  BY FlowFacts DEF RingIsExact
<1>. QED  BY <1>1, <1>2 DEF CountFlow

\* Whether a callback ends its round is whether its flow is the last of it.
LEMMA LastOfRound ==
  ASSUME IInv, NEW f \in flows
  PROVE  RoundEnds(f.ring) <=> Mine(f.ring) = {f}
<1>. DEFINE mine == Mine(f.ring)
<1>1. f \in mine /\ f.ring \in Rings /\ phase = "running" /\ n > 1
  BY FlowFacts
<1>2. Cardinality(mine) + finished_curr_round[f.ring] = FlowsPerRound
  BY FlowFacts DEF RingIsExact
<1>3. IsFiniteSet(mine) /\ Cardinality(mine) \in Nat
  BY <1>1, MineFacts
<1>4. Cardinality(mine) = 1 <=> mine = {f}
  BY <1>1, <1>3, FS_Singleton
<1>5. FlowsPerRound \in Nat /\ finished_curr_round[f.ring] \in Nat
  BY <1>1, GroupFacts DEF IInv, TypeOK
<1>. QED  BY <1>2, <1>3, <1>4, <1>5 DEF RoundEnds

\* A ring ends with its final round: after the first one when little is sent.
LEMMA RingEndsWithFinal ==
  ASSUME IInv, NEW f \in flows
  PROVE  RingEnds(f.ring) <=> curr_round[f.ring] + 1 = Final
<1>1. curr_round[f.ring] \in 0..Final - 1 /\ n > 1 /\ Params
  BY FlowFacts DEF IInv
<1>2. Rounds \in Nat \ {0, 1} /\ Final \in 1..Rounds
  BY <1>1, GroupFacts
<1>. QED  BY <1>1, <1>2 DEF RingEnds, Final

\* The flows of each ring after a callback.
LEMMA MineAfter ==
  ASSUME IInv, NEW f \in flows, NEW more, flows' = (flows \ {f}) \cup more,
         \A g \in more : g.ring = f.ring
  PROVE  /\ Mine(f.ring)' = (Mine(f.ring) \ {f}) \cup more
         /\ \A r \in Rings : r # f.ring => Mine(r)' = Mine(r)
BY DEF Mine

\* The callback of a flow that is not the last of its round.
LEMMA FlowDoneInv ==
  ASSUME IInv, NEW f \in flows, FlowDone(f)
  PROVE  IInv'
<1>. DEFINE r == f.ring
<1>1. /\ phase = "running" /\ n > 1 /\ r \in Rings /\ f \in Mine(r)
      /\ f = Flow(r, f.id) /\ RingIsExact(r) /\ curr_round[r] \in 0..Final - 1
      /\ f \in AllFlows /\ f.round = curr_round[r] /\ f.id \in FlowIds
  BY FlowFacts
<1>2. /\ UNCHANGED <<params, operator_size, curr_round, finished_rings, phase>>
      /\ CountFlow(f) /\ ~ RoundEnds(r) /\ flows' = flows \ {f}
      /\ finished_curr_round' = [finished_curr_round EXCEPT ![r] = @ + 1]
  BY DEF FlowDone, CountFlow
<1>3. /\ Params' = Params /\ Rings' = Rings /\ FlowIds' = FlowIds /\ AllFlows' = AllFlows
      /\ FlowsPerRound' = FlowsPerRound /\ Final' = Final /\ strategy' = strategy /\ n' = n
      /\ operator_size' = operator_size /\ phase' = phase
  BY <1>2, SameParams
<1>4. TypeOK'
  BY <1>1, <1>2, <1>3, RoundsOfFlows DEF IInv, TypeOK, CountFlow
<1>5. /\ Mine(r)' = Mine(r) \ {f}
      /\ \A q \in Rings : q # r => Mine(q)' = Mine(q)
  BY <1>2 DEF Mine
<1>6. RingIsExact(r)'
  <2>1. Mine(r)' # {}
    BY <1>1, <1>2, <1>5, LastOfRound
  <2>2. Cardinality(Mine(r)') + finished_curr_round'[r] = FlowsPerRound
    <3>1. IsFiniteSet(Mine(r)) /\ Cardinality(Mine(r)) \in Nat
      BY <1>1, MineFacts
    <3>2. Cardinality(Mine(r)') = Cardinality(Mine(r)) - 1
      BY <1>1, <1>5, <3>1, FS_RemoveElement
    <3>3. finished_curr_round[r] \in Nat /\ finished_curr_round'[r] = finished_curr_round[r] + 1
      BY <1>1, <1>2 DEF IInv, TypeOK
    <3>4. Cardinality(Mine(r)) + finished_curr_round[r] = FlowsPerRound
      BY <1>1 DEF RingIsExact
    <3>. QED  BY <3>1, <3>2, <3>3, <3>4
  <2>3. strategy # "dps" => \A id \in FlowIds : finished_rounds'[r][id] =
          IF Flow(r, id)' \in flows' THEN curr_round[r] ELSE curr_round[r] + 1
    <3>. SUFFICES ASSUME strategy # "dps", NEW id \in FlowIds
                  PROVE  finished_rounds'[r][id] =
                           IF Flow(r, id)' \in flows' THEN curr_round[r] ELSE curr_round[r] + 1
      OBVIOUS
    <3>1. Flow(r, id)' = Flow(r, id) /\ (id # f.id => Flow(r, id) # f)
      BY <1>1, <1>2 DEF Flow
    <3>2. Flow(r, id)' \in flows' <=> id # f.id /\ Flow(r, id) \in flows
      BY <1>1, <1>2, <3>1
    <3>3. id # f.id => finished_rounds'[r][id] = finished_rounds[r][id]
      BY <1>2, RoundsOfFlows
    <3>4. id = f.id => finished_rounds'[r][id] = curr_round[r] + 1
      BY <1>2, RoundsOfFlows
    <3>5. finished_rounds[r][id] = IF Flow(r, id) \in flows THEN curr_round[r] ELSE curr_round[r] + 1
      BY <1>1 DEF RingIsExact
    <3>. QED  BY <3>2, <3>3, <3>4, <3>5
  <2>4. \A g \in Mine(r)' : g.round = curr_round[r]
    BY <1>1, <1>5 DEF RingIsExact
  <2>5. curr_round'[r] = curr_round[r] /\ curr_round[r] # Final /\ curr_round[r] \in 0..Final
    BY <1>1, <1>2 DEF RingIsExact
  <2>. QED  BY <1>3, <2>1, <2>2, <2>3, <2>4, <2>5 DEF RingIsExact
<1>7. \A q \in Rings : RingIsExact(q)'
  <2>. SUFFICES ASSUME NEW q \in Rings, q # r PROVE RingIsExact(q)'
    BY <1>6
  <2>1. RingIsExact(q) /\ curr_round'[q] = curr_round[q] /\ Mine(q)' = Mine(q)
    BY <1>1, <1>2, <1>5 DEF IInv
  <2>2. finished_curr_round'[q] = finished_curr_round[q]
    BY <1>2 DEF IInv, TypeOK
  <2>3. finished_rounds'[q] = finished_rounds[q]
    BY <1>2, RoundsOfFlows
  <2>. QED  BY <1>2, <2>1, <2>2, <2>3, OtherRing
<1>8. DoneRings' = DoneRings
  BY <1>2, <1>3 DEF DoneRings
<1>9. delivered' = Cardinality(DeliveredFlows')
  <2>1. DeliveredFlows' = DeliveredFlows \cup {f}
    BY <1>1, <1>2, <1>3 DEF DeliveredFlows
  <2>. QED  BY <1>2, <2>1, CountFlowFacts
<1>. QED  BY <1>1, <1>2, <1>3, <1>4, <1>7, <1>8, <1>9 DEF IInv, StartsFresh

\* The callback that starts the next round of its ring.
LEMMA RoundDoneInv ==
  ASSUME IInv, NEW f \in flows, RoundDone(f)
  PROVE  IInv'
<1>. DEFINE r == f.ring
            k == curr_round[r]
            next == RoundOf(r, k + 1)
<1>1. /\ phase = "running" /\ n > 1 /\ r \in Rings /\ f \in Mine(r)
      /\ f = Flow(r, f.id) /\ RingIsExact(r) /\ k \in 0..Final - 1
      /\ f \in AllFlows /\ f.round = k /\ f.id \in FlowIds
  BY FlowFacts
<1>2. /\ UNCHANGED <<params, operator_size, finished_rings, phase>>
      /\ CountFlow(f) /\ RoundEnds(r) /\ ~ RingEnds(r) /\ flows' = (flows \ {f}) \cup next
      /\ curr_round' = [curr_round EXCEPT ![r] = @ + 1]
      /\ finished_curr_round' = [finished_curr_round EXCEPT ![r] = 0]
  BY DEF RoundDone, CountFlow
<1>3. /\ Params' = Params /\ Rings' = Rings /\ FlowIds' = FlowIds /\ AllFlows' = AllFlows
      /\ FlowsPerRound' = FlowsPerRound /\ Final' = Final /\ strategy' = strategy /\ n' = n
      /\ operator_size' = operator_size /\ phase' = phase
  BY <1>2, SameParams
<1>4. /\ Final \in Nat /\ k \in Nat /\ k + 1 \in 0..Final - 1
      /\ curr_round \in [Rings -> Nat] /\ curr_round'[r] = k + 1
      /\ \A q \in Rings : q # r => curr_round'[q] = curr_round[q]
  <2>1. Final \in Nat
    BY <1>1, GroupFacts DEF IInv
  <2>2. k + 1 # Final
    BY <1>2, RingEndsWithFinal
  <2>3. k \in Nat /\ k + 1 \in 0..Final - 1
    BY <1>1, <2>1, <2>2
  <2>4. curr_round \in [Rings -> Nat]
    BY DEF IInv, TypeOK
  <2>. QED  BY <1>1, <1>2, <2>1, <2>3, <2>4
<1>5. /\ next \subseteq [ring : Rings, id : FlowIds, round : Nat]
      /\ \A g \in next : g.ring = r /\ g.round = k + 1
      /\ IsFiniteSet(next) /\ Cardinality(next) = FlowsPerRound /\ FlowsPerRound \in Nat \ {0}
  <2>1. IsFiniteSet(next) /\ Cardinality(next) = FlowsPerRound
    BY <1>1, <1>4, RoundFacts DEF IInv
  <2>. QED  BY <1>1, <1>4, <2>1, GroupFacts DEF RoundOf, IInv
<1>6. TypeOK'
  BY <1>1, <1>2, <1>3, <1>4, <1>5, RoundsOfFlows DEF IInv, TypeOK, CountFlow
<1>7. /\ Mine(r) = {f} /\ Mine(r)' = next
      /\ \A q \in Rings : q # r => Mine(q)' = Mine(q)
  <2>1. Mine(r) = {f}
    BY <1>2, LastOfRound
  <2>2. /\ Mine(r)' = (Mine(r) \ {f}) \cup next
        /\ \A q \in Rings : q # r => Mine(q)' = Mine(q)
    BY <1>2, <1>5, MineAfter
  <2>. QED  BY <2>1, <2>2
<1>8. RingIsExact(r)'
  <2>1. next # {}
    BY <1>5, FS_EmptySet
  <2>2. finished_curr_round'[r] = 0
    BY <1>1, <1>2 DEF IInv, TypeOK
  <2>3. strategy # "dps" => \A id \in FlowIds :
          Flow(r, id)' \in flows' /\ finished_rounds'[r][id] = k + 1
    <3>. SUFFICES ASSUME strategy # "dps", NEW id \in FlowIds
                  PROVE  Flow(r, id)' \in flows' /\ finished_rounds'[r][id] = k + 1
      OBVIOUS
    <3>1. Flow(r, id)' \in flows'
      BY <1>2, <1>4 DEF Flow, RoundOf
    <3>2. id # f.id => Flow(r, id) \notin Mine(r)
      BY <1>7 DEF Flow
    <3>3. id # f.id => finished_rounds[r][id] = k + 1
      BY <1>1, <1>4, <3>2 DEF RingIsExact, Mine, Flow
    <3>. QED  BY <1>2, <3>1, <3>3, RoundsOfFlows
  <2>4. curr_round'[r] = k + 1 /\ k + 1 # Final /\ k + 1 \in 0..Final
    BY <1>4
  <2>5. Cardinality(next) + 0 = FlowsPerRound
    BY <1>5
  <2>. QED  BY <1>3, <1>5, <1>7, <2>1, <2>2, <2>3, <2>4, <2>5 DEF RingIsExact
<1>9. \A q \in Rings : RingIsExact(q)'
  <2>. SUFFICES ASSUME NEW q \in Rings, q # r PROVE RingIsExact(q)'
    BY <1>8
  <2>1. RingIsExact(q) /\ curr_round'[q] = curr_round[q] /\ Mine(q)' = Mine(q)
    BY <1>1, <1>4, <1>7 DEF IInv
  <2>2. finished_curr_round'[q] = finished_curr_round[q]
    BY <1>2 DEF IInv, TypeOK
  <2>3. finished_rounds'[q] = finished_rounds[q]
    BY <1>2, RoundsOfFlows
  <2>. QED  BY <1>2, <2>1, <2>2, <2>3, OtherRing
<1>10. DoneRings' = DoneRings
  BY <1>3, <1>4 DEF DoneRings
<1>11. delivered' = Cardinality(DeliveredFlows')
  <2>1. \A g \in AllFlows : g.ring = r /\ g.round = k + 1 => g \in next
    BY DEF AllFlows, RoundOf
  <2>2. \A g \in AllFlows : g.ring = r /\ g.round = k /\ g # f => g \in DeliveredFlows
    BY <1>7, <1>4 DEF DeliveredFlows, AllFlows, Mine
  <2>3. DeliveredFlows' = {g \in AllFlows : g.round <= curr_round'[g.ring]} \ flows'
    BY <1>3 DEF DeliveredFlows
  <2>4. \A g \in AllFlows : g.ring \in Rings /\ g.round \in Nat
    BY <1>4 DEF AllFlows
  <2>5. \A g \in AllFlows : g.ring # r =>
          (g \in DeliveredFlows' <=> g \in DeliveredFlows)
    BY <1>2, <1>4, <1>5, <2>3, <2>4 DEF DeliveredFlows
  <2>6. \A g \in AllFlows : g.ring = r =>
          (g \in DeliveredFlows' <=> g \in DeliveredFlows \cup {f})
    <3>. SUFFICES ASSUME NEW g \in AllFlows, g.ring = r
                  PROVE  g \in DeliveredFlows' <=> g \in DeliveredFlows \cup {f}
      OBVIOUS
    <3>1. CASE g = f
      BY <1>1, <1>2, <1>4, <1>5, <2>3, <3>1
    <3>2. CASE g # f /\ g.round <= k
      BY <1>2, <1>4, <1>5, <2>3, <2>4, <3>2 DEF DeliveredFlows
    <3>3. CASE g # f /\ g.round > k
      BY <1>2, <1>4, <1>5, <2>1, <2>3, <2>4, <3>3 DEF DeliveredFlows
    <3>. QED  BY <1>4, <2>4, <3>1, <3>2, <3>3
  <2>7. DeliveredFlows' = DeliveredFlows \cup {f}
    <3>1. DeliveredFlows' \subseteq AllFlows /\ DeliveredFlows \cup {f} \subseteq AllFlows
      BY <1>1, <2>3 DEF DeliveredFlows
    <3>2. \A g \in AllFlows : g \in DeliveredFlows' <=> g \in DeliveredFlows \cup {f}
      BY <1>1, <2>5, <2>6
    <3>. QED  BY <3>1, <3>2
  <2>. QED  BY <1>2, <2>7, CountFlowFacts
<1>. QED  BY <1>1, <1>2, <1>3, <1>6, <1>9, <1>10, <1>11 DEF IInv, StartsFresh

\* The callback that ends a ring, and the task when it is the last one.
LEMMA RingDoneInv ==
  ASSUME IInv, NEW f \in flows, RingDone(f)
  PROVE  IInv'
<1>. DEFINE r == f.ring
            k == curr_round[r]
<1>1. /\ phase = "running" /\ n > 1 /\ r \in Rings /\ f \in Mine(r)
      /\ f = Flow(r, f.id) /\ RingIsExact(r) /\ k \in 0..Final - 1
      /\ f \in AllFlows /\ f.round = k /\ f.id \in FlowIds
  BY FlowFacts
<1>2. /\ UNCHANGED <<params, operator_size>>
      /\ CountFlow(f) /\ RoundEnds(r) /\ RingEnds(r) /\ flows' = flows \ {f}
      /\ curr_round' = [curr_round EXCEPT ![r] = @ + 1]
      /\ finished_curr_round' = [finished_curr_round EXCEPT ![r] = 0]
      /\ finished_rings' = IF strategy = "newring" THEN finished_rings + 1 ELSE finished_rings
      /\ phase' = IF LastRing THEN "finished" ELSE phase
  BY DEF RingDone, CountFlow
<1>3. /\ Params' = Params /\ Rings' = Rings /\ FlowIds' = FlowIds /\ AllFlows' = AllFlows
      /\ FlowsPerRound' = FlowsPerRound /\ Final' = Final /\ strategy' = strategy /\ n' = n
      /\ operator_size' = operator_size
  BY <1>2, SameParams
<1>4. /\ Final \in Nat /\ k \in Nat /\ k + 1 = Final
      /\ curr_round \in [Rings -> Nat] /\ curr_round'[r] = Final
      /\ \A q \in Rings : q # r => curr_round'[q] = curr_round[q]
      /\ \A q \in Rings : curr_round[q] \in Nat /\ curr_round[q] <= Final
  <2>1. Final \in Nat
    BY <1>1, GroupFacts DEF IInv
  <2>2. k + 1 = Final
    BY <1>2, RingEndsWithFinal
  <2>3. curr_round \in [Rings -> Nat]
    BY DEF IInv, TypeOK
  <2>4. \A q \in Rings : curr_round[q] \in 0..Final
    BY <1>1 DEF IInv, RingIsExact
  <2>. QED  BY <1>1, <1>2, <2>1, <2>2, <2>3, <2>4
<1>5. /\ Mine(r) = {f} /\ Mine(r)' = {}
      /\ \A q \in Rings : q # r => Mine(q)' = Mine(q)
  <2>1. Mine(r) = {f}
    BY <1>2, LastOfRound
  <2>2. Mine(r)' = Mine(r) \ {f} /\ \A q \in Rings : q # r => Mine(q)' = Mine(q)
    BY <1>2 DEF Mine
  <2>. QED  BY <2>1, <2>2
<1>6. \A q \in Rings : RingIsExact(q)'
  <2>1. RingIsExact(r)'
    <3>1. finished_curr_round'[r] = 0
      BY <1>1, <1>2 DEF IInv, TypeOK
    <3>. QED  BY <1>3, <1>4, <1>5, <3>1 DEF RingIsExact
  <2>. SUFFICES ASSUME NEW q \in Rings, q # r PROVE RingIsExact(q)'
    BY <2>1
  <2>2. RingIsExact(q) /\ curr_round'[q] = curr_round[q] /\ Mine(q)' = Mine(q)
    BY <1>1, <1>4, <1>5 DEF IInv
  <2>3. finished_curr_round'[q] = finished_curr_round[q]
    BY <1>2 DEF IInv, TypeOK
  <2>4. finished_rounds'[q] = finished_rounds[q]
    BY <1>2, RoundsOfFlows
  <2>. QED  BY <1>2, <2>2, <2>3, <2>4, OtherRing
<1>7. DoneRings' = DoneRings \cup {r} /\ r \notin DoneRings
  BY <1>1, <1>3, <1>4 DEF DoneRings
<1>8. Cardinality(DoneRings') = Cardinality(DoneRings) + 1
  BY <1>1, <1>7, DoneRingsFacts, FS_AddElement
<1>9. LastRing <=> DoneRings' = Rings
  <2>1. DoneRings' \subseteq Rings
    BY <1>1, <1>7 DEF DoneRings
  <2>2. Cardinality(DoneRings') = Cardinality(Rings) <=> DoneRings' = Rings
    BY <2>1, RingsFacts, FS_Subset DEF IInv
  <2>3. CASE strategy = "newring"
    BY <1>1, <1>8, <2>2, <2>3, RingsFacts DEF IInv, LastRing
  <2>4. CASE strategy # "newring"
    <3>1. Rings = {1}
      BY <2>4, RingsFacts DEF IInv
    <3>. QED  BY <1>1, <1>7, <2>1, <2>4, <3>1 DEF LastRing
  <2>. QED  BY <2>3, <2>4
<1>10. finished_rings' = IF strategy = "newring" THEN Cardinality(DoneRings') ELSE 0
  BY <1>1, <1>2, <1>8 DEF IInv
<1>11. TypeOK'
  <2>1. finished_rings' \in 0..NRings
    <3>1. CASE strategy = "newring"
      <4>1. Cardinality(DoneRings) < Cardinality(Rings) /\ Cardinality(DoneRings) \in Nat
        BY <1>1, DoneRingsFacts
      <4>2. Cardinality(Rings) = NRings /\ NRings \in Nat
        BY <3>1, RingsFacts, AllreduceAssumption DEF IInv
      <4>. QED  BY <1>8, <1>10, <3>1, <4>1, <4>2
    <3>2. CASE strategy # "newring"
      BY <1>2, <3>2 DEF IInv, TypeOK
    <3>. QED  BY <3>1, <3>2
  <2>2. phase' \in {"waiting", "running", "finished"}
    BY <1>1, <1>2
  <2>3. curr_round' \in [Rings -> Nat] /\ finished_curr_round' \in [Rings -> Nat]
    BY <1>2, <1>4 DEF IInv, TypeOK
  <2>4. delivered' \in Nat
    BY <1>2 DEF IInv, TypeOK, CountFlow
  <2>5. flows' \subseteq [ring : Rings, id : FlowIds, round : Nat] /\ operator_size' \in Nat
    BY <1>2, <1>3 DEF IInv, TypeOK
  <2>6. finished_rounds' \in [Rings -> [FlowIds -> Nat]]
    BY <1>2, RoundsOfFlows
  <2>. QED  BY <1>3, <2>1, <2>2, <2>3, <2>4, <2>5, <2>6 DEF TypeOK
<1>12. DeliveredFlows' = DeliveredFlows \cup {f}
  <2>1. DeliveredFlows' = {g \in AllFlows : g.round <= curr_round'[g.ring]} \ flows'
    BY <1>3 DEF DeliveredFlows
  <2>2. \A g \in AllFlows : g.ring \in Rings /\ g.round \in Nat /\ g.round < Final
    BY <1>4 DEF AllFlows
  <2>3. \A g \in AllFlows : g.round <= curr_round'[g.ring] <=> g.round <= curr_round[g.ring]
    <3>. SUFFICES ASSUME NEW g \in AllFlows
                  PROVE  g.round <= curr_round'[g.ring] <=> g.round <= curr_round[g.ring]
      OBVIOUS
    <3>1. CASE g.ring = r
      BY <1>4, <2>2, <3>1
    <3>2. CASE g.ring # r
      BY <1>4, <2>2, <3>2
    <3>. QED  BY <3>1, <3>2
  <2>4. f.round <= curr_round[f.ring]
    BY <1>1, <1>4
  <2>. QED  BY <1>1, <1>2, <2>1, <2>3, <2>4 DEF DeliveredFlows
<1>13. delivered' = Cardinality(DeliveredFlows')
  BY <1>2, <1>12, CountFlowFacts
<1>14. CASE LastRing
  <2>1. \A q \in Rings : curr_round'[q] = Final
    BY <1>3, <1>9, <1>14 DEF DoneRings
  <2>2. flows' = {}
    <3>1. \A q \in Rings : Mine(q)' = {}
      BY <1>3, <1>6, <2>1 DEF RingIsExact
    <3>2. \A g \in flows' : g.ring \in Rings /\ g \in Mine(g.ring)'
      BY <1>3, <1>11 DEF TypeOK, Mine
    <3>. QED  BY <3>1, <3>2
  <2>3. DeliveredFlows' = AllFlows
    <3>1. \A g \in AllFlows : g.ring \in Rings /\ g.round \in Nat /\ g.round < Final
      BY <1>4 DEF AllFlows
    <3>2. \A g \in AllFlows : g.round <= curr_round'[g.ring]
      BY <1>4, <2>1, <3>1
    <3>. QED  BY <1>3, <2>2, <3>2 DEF DeliveredFlows
  <2>4. phase' = "finished"
    BY <1>2, <1>14
  <2>. QED  BY <1>1, <1>3, <1>11, <1>13, <2>1, <2>2, <2>3, <2>4 DEF IInv, StartsFresh
<1>15. CASE ~ LastRing
  <2>1. phase' = "running" /\ DoneRings' # Rings
    BY <1>1, <1>2, <1>9, <1>15
  <2>. QED  BY <1>1, <1>3, <1>6, <1>10, <1>11, <1>13, <2>1 DEF IInv, StartsFresh
<1>. QED  BY <1>14, <1>15

-----------------------------------------------------------------------------
(* The other actions.                                                      *)

LEMMA ParamsOfInit ==
  ASSUME strategy \in Strategies, n \in GroupSizes
  PROVE  Params
BY AllreduceAssumption DEF Params

\* operator_size stays a natural number.
LEMMA HeldIsNat ==
  ASSUME NEW s, NEW size \in Nat
  PROVE  Held(s, size) \in Nat
BY AllreduceAssumption DEF Held

LEMMA ScaledIsNat ==
  ASSUME Params, operator_size \in Nat
  PROVE  Scaled \in Nat
<1>1. n \in Nat \ {0} /\ n - 1 \in Nat
  BY DEF Params
<1>2. operator_size * 2 * (n - 1) \in Nat
  BY <1>1
<1>3. (operator_size * 2 * (n - 1)) \div n \in Nat
  BY <1>1, <1>2
<1>. QED  BY <1>3, HeldIsNat DEF Scaled

LEMMA InitInv ==
  ASSUME Init
  PROVE  IInv
<1>1. Params
  BY ParamsOfInit DEF Init
<1>2. AtLeastAByte(strategy, loaded, n) \in Nat
  BY <1>1, AllreduceAssumption DEF Init, AtLeastAByte, Params
<1>3. operator_size \in Nat
  BY <1>2, HeldIsNat DEF Init
<1>4. NRings \in Nat
  BY AllreduceAssumption
<1>5. TypeOK
  BY <1>3, <1>4 DEF Init, TypeOK, ZeroRounds, ZeroFlows
<1>. QED  BY <1>1, <1>5 DEF Init, IInv, StartsFresh, ZeroRounds, ZeroFlows

LEMMA StartAloneInv ==
  ASSUME IInv, StartAlone
  PROVE  IInv'
<1>1. /\ Params' = Params /\ Rings' = Rings /\ FlowIds' = FlowIds /\ AllFlows' = AllFlows
      /\ n' = n /\ operator_size' = operator_size
  BY SameParams DEF StartAlone
<1>2. TypeOK'
  BY <1>1 DEF IInv, TypeOK, StartAlone
<1>. QED  BY <1>1, <1>2 DEF IInv, StartsFresh, StartAlone

LEMMA StartInv ==
  ASSUME IInv, Start
  PROVE  IInv'
<1>1. /\ Params' = Params /\ Rings' = Rings /\ FlowIds' = FlowIds /\ Rounds' = Rounds
      /\ FlowsPerRound' = FlowsPerRound /\ strategy' = strategy /\ n' = n /\ n > 1
  BY DEF Start, params, Params, Rings, FlowIds, FlowsPerRound, Rounds
<1>2. /\ phase' = "running" /\ flows = {} /\ delivered = 0 /\ delivered' = 0 /\ finished_rings' = 0
      /\ \A r \in Rings : curr_round'[r] = 0 /\ finished_curr_round'[r] = 0
      /\ \A r \in Rings : \A id \in FlowIds : finished_rounds'[r][id] = 0
  BY DEF Start, IInv, StartsFresh
<1>3. \A r \in Rings : Mine(r)' = RoundOf(r, 0)
  <2>1. \A g : g \in flows' <=> \E q \in Rings : g \in RoundOf(q, 0)
    BY DEF Start
  <2>2. \A q \in Rings : \A g \in RoundOf(q, 0) : g.ring = q
    BY DEF RoundOf
  <2>. QED  BY <2>1, <2>2 DEF Mine
<1>4. Final' \in Nat \ {0}
  BY <1>1, GroupFacts DEF Final, IInv
<1>5. operator_size' \in Nat
  BY ScaledIsNat DEF Start, IInv, TypeOK
<1>6. flows' \subseteq [ring : Rings, id : FlowIds, round : Nat]
  BY DEF Start, RoundOf
<1>7. TypeOK'
  BY <1>1, <1>2, <1>5, <1>6 DEF IInv, TypeOK, Start
<1>8. \A r \in Rings : RingIsExact(r)'
  <2>. SUFFICES ASSUME NEW r \in Rings PROVE RingIsExact(r)'
    OBVIOUS
  <2>1. /\ IsFiniteSet(RoundOf(r, 0)) /\ Cardinality(RoundOf(r, 0)) = FlowsPerRound
        /\ FlowsPerRound \in Nat \ {0}
    BY <1>1, RoundFacts, GroupFacts DEF IInv
  <2>2. RoundOf(r, 0) # {}
    BY <2>1, FS_EmptySet
  <2>3. \A id \in FlowIds : Flow(r, id)' \in flows'
    BY <1>2 DEF Start, Flow, RoundOf
  <2>4. \A g \in RoundOf(r, 0) : g.round = 0
    BY DEF RoundOf
  <2>5. Mine(r)' = RoundOf(r, 0) /\ curr_round'[r] = 0 /\ finished_curr_round'[r] = 0
    BY <1>2, <1>3
  <2>6. 0 \in 0..Final' /\ 0 # Final'
    BY <1>4
  <2>7. Cardinality(RoundOf(r, 0)) + 0 = FlowsPerRound
    BY <2>1
  <2>. QED  BY <1>1, <1>2, <2>2, <2>3, <2>4, <2>5, <2>6, <2>7 DEF RingIsExact
<1>9. DoneRings' = {}
  BY <1>1, <1>2, <1>4 DEF DoneRings
<1>10. DoneRings' # Rings /\ Cardinality(DoneRings') = 0
  BY <1>9, RingsFacts, FS_EmptySet DEF IInv
<1>11. Cardinality(DeliveredFlows') = 0
  <2>1. \A g \in AllFlows' : g.ring \in Rings /\ g.id \in FlowIds /\ g.round \in Nat
                             /\ g = [ring |-> g.ring, id |-> g.id, round |-> g.round]
    BY <1>1, <1>4 DEF AllFlows
  <2>2. \A g \in AllFlows' : g.round <= curr_round'[g.ring] => g \in flows'
    BY <1>2, <2>1 DEF Start, RoundOf
  <2>3. DeliveredFlows' = {}
    BY <2>2 DEF DeliveredFlows
  <2>. QED  BY <2>3, FS_EmptySet
<1>. QED  BY <1>1, <1>2, <1>7, <1>8, <1>10, <1>11 DEF IInv, StartsFresh

LEMMA ResetInv ==
  ASSUME IInv, Reset
  PROVE  IInv'
<1>1. /\ Params' = Params /\ Rings' = Rings /\ FlowIds' = FlowIds
      /\ operator_size' = operator_size
  BY SameParams DEF Reset
<1>2. NRings \in Nat
  BY AllreduceAssumption
<1>3. TypeOK'
  BY <1>1, <1>2 DEF IInv, TypeOK, Reset, ZeroRounds, ResetFlows, ResetRings, ZeroFlows
<1>. QED  BY <1>1, <1>3
          DEF IInv, StartsFresh, Reset, ZeroRounds, ResetFlows, ResetRings, ZeroFlows

LEMMA StutterInv ==
  ASSUME IInv, UNCHANGED vars
  PROVE  IInv'
<1>1. /\ Params' = Params /\ Rings' = Rings /\ FlowIds' = FlowIds /\ AllFlows' = AllFlows
      /\ FlowsPerRound' = FlowsPerRound /\ Final' = Final /\ strategy' = strategy /\ n' = n
  BY SameParams DEF vars
<1>2. TypeOK'
  BY <1>1 DEF IInv, TypeOK, vars
<1>3. \A r \in Rings : RingIsExact(r) => RingIsExact(r)'
  <2>1. \A r \in Rings : Mine(r)' = Mine(r)
    BY DEF Mine, vars
  <2>. QED  BY <1>1, <2>1, OtherRing DEF vars
<1>4. DoneRings' = DoneRings /\ DeliveredFlows' = DeliveredFlows
  BY <1>1 DEF DoneRings, DeliveredFlows, vars
<1>. QED  BY <1>1, <1>2, <1>3, <1>4 DEF IInv, StartsFresh, vars

-----------------------------------------------------------------------------
(* The theorems.                                                           *)

\* The inductive invariant: a running ring that is not done has flows in the
\* network, all of its current round, and its counters are those of the flows
\* of that round that are not there any more.
THEOREM Inductive == Spec => []IInv
<1>1. Init => IInv
  BY InitInv
<1>2. IInv /\ [Next]_vars => IInv'
  <2>. SUFFICES ASSUME IInv, [Next]_vars PROVE IInv'
    OBVIOUS
  <2>1. CASE StartAlone
    BY <2>1, StartAloneInv
  <2>2. CASE Start
    BY <2>2, StartInv
  <2>3. ASSUME NEW f \in flows, Callback(f) PROVE IInv'
    <3>1. FlowDone(f) \/ RoundDone(f) \/ RingDone(f)
      BY <2>3 DEF Callback
    <3>. QED  BY <3>1, FlowDoneInv, RoundDoneInv, RingDoneInv
  <2>4. CASE Reset
    BY <2>4, ResetInv
  <2>5. CASE UNCHANGED vars
    BY <2>5, StutterInv
  <2>. QED  BY <2>1, <2>2, <2>3, <2>4, <2>5 DEF Next
<1>. QED  BY <1>1, <1>2, PTL DEF Spec

\* A callback finds its flow in the round it was started for, and the flows in
\* the network are exactly those of the round that are not counted: the
\* assertions of the callbacks (ffapp.cpp:973, 1104 and 1234) hold.
THEOREM BarriersHold == Spec => []RoundsAreBarriers
<1>1. IInv => RoundsAreBarriers
  <2>. SUFFICES ASSUME IInv, NEW r \in Rings
                PROVE  /\ \A f \in Mine(r) : f.round = curr_round[r]
                       /\ \A f, g \in Mine(r) : f.id = g.id => f = g
                       /\ Mine(r) # {} => Cardinality(Mine(r)) + finished_curr_round[r]
                                            = Cardinality(FlowIds)
                       /\ strategy # "dps" =>
                            \A f \in Mine(r) : finished_rounds[r][f.id] = curr_round[r]
    BY DEF RoundsAreBarriers, Mine
  <2>1. \A f \in Mine(r) : f \in flows /\ f.ring = r
    BY DEF Mine
  <2>2. \A f \in Mine(r) : f = Flow(r, f.id) /\ f.round = curr_round[r] /\ f.id \in FlowIds
    BY <2>1, FlowFacts
  <2>3. ASSUME NEW f \in Mine(r)
        PROVE  /\ Cardinality(Mine(r)) + finished_curr_round[r] = Cardinality(FlowIds)
               /\ strategy # "dps" => finished_rounds[r][f.id] = curr_round[r]
    <3>1. n > 1 /\ RingIsExact(r) /\ curr_round[r] # Final
      BY <2>1, FlowFacts DEF RingIsExact
    <3>2. Cardinality(FlowIds) = FlowsPerRound
      BY <3>1, GroupFacts DEF IInv
    <3>. QED  BY <2>1, <2>2, <3>1, <3>2 DEF RingIsExact
  <2>. QED  BY <2>2, <2>3
<1>. QED  BY <1>1, Inductive, PTL

\* No counter and no flow of an iteration is left for the next one: the
\* assertions of doNextEvent (ffapp.cpp:837, 1154 and 1274) hold.
THEOREM EveryStartIsFresh == Spec => []StartsFresh
<1>1. IInv => StartsFresh
  BY DEF IInv
<1>. QED  BY <1>1, Inductive, PTL

\* The task is finished when every flow of every round of every ring has been
\* delivered, and not before.
THEOREM FinishedMeansDelivered == Spec => []FinishesWithTheLastFlow
<1>1. IInv => FinishesWithTheLastFlow
  <2>. SUFFICES ASSUME IInv, phase = "finished", n > 1
                PROVE  \E k \in {1, Rounds} :
                         /\ \A r \in Rings : curr_round[r] = k
                         /\ delivered = Cardinality(Rings) * k * Cardinality(FlowIds)
                         /\ k = 1 /\ Rounds # 1 => EarlyEnd
    BY DEF FinishesWithTheLastFlow, IInv
  <2>1. /\ \A r \in Rings : curr_round[r] = Final
        /\ delivered = Cardinality(AllFlows)
    BY DEF IInv
  <2>2. delivered = Cardinality(Rings) * Final * Cardinality(FlowIds)
    BY <2>1, AllFlowsFacts DEF IInv
  <2>3. Final \in {1, Rounds} /\ (Final = 1 /\ Rounds # 1 => EarlyEnd)
    BY DEF Final
  <2>. QED  BY <2>1, <2>2, <2>3
<1>. QED  BY <1>1, Inductive, PTL
=============================================================================
