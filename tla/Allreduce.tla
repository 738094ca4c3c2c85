----------------------------- MODULE Allreduce -----------------------------
(***************************************************************************)
(* The all-reduce tasks of ffapp.cpp: FFRingAllreduce, FFNewRingAllreduce, *)
(* FFPSAllreduce and FFDPSAllreduce.  A collective sends its data in       *)
(* rounds of flows.  The callback of a flow counts it, and the callback    *)
(* that completes a round starts the next one, or finishes the task.       *)
(*                                                                         *)
(* One task is modelled, with the application around it: the event that    *)
(* starts it when its predecessors are done, the network that completes    *)
(* its flows in any order, and the reset at the end of each iteration.     *)
(* The four classes share their state; which of them the task is an object *)
(* of, the size of its node group and its data size are chosen at Init.    *)
(***************************************************************************)
EXTENDS Integers, FiniteSets

CONSTANTS
  Strategies,  \* of "ring", "newring", "ps", "dps"
  GroupSizes,  \* the sizes a node group may have
  NRings,      \* jumps.size(), the rings of a "newring" collective
  Sizes,       \* the data sizes xfersize may have
  Mtu,         \* 9000 in the code
  SizeLimit    \* 2^32: operator_size is a uint32_t, except in "newring"

ASSUME AllreduceAssumption ==
  /\ Strategies \subseteq {"ring", "newring", "ps", "dps"}
  /\ GroupSizes \subseteq Nat \ {0}
  /\ NRings \in Nat \ {0}
  /\ Sizes \subseteq Nat
  /\ Mtu \in Nat \ {0}
  /\ SizeLimit \in Nat \ {0}

VARIABLES
  strategy, n, loaded,   \* the class, node_group.size() and xfersize
  operator_size,
  curr_round,            \* by ring; the other classes have one
  finished_curr_round,
  finished_rounds,       \* by ring and flow; unused by "dps"
  finished_rings,
  flows,                 \* the flows in the network
  phase,                 \* where the task is in its iteration
  delivered              \* history: flows completed in this iteration

params == <<strategy, n, loaded>>
vars == <<params, operator_size, curr_round, finished_curr_round, finished_rounds,
          finished_rings, flows, phase, delivered>>

Rings == IF strategy = "newring" THEN 1..NRings ELSE {1}

\* The flows of one round of a ring: node i to its successor, node i to or from
\* the parameter server (the first node), or node i to node j.
FlowIds ==
  CASE strategy \in {"ring", "newring"} -> 1..n
    [] strategy = "ps" -> 2..n
    [] strategy = "dps" -> {p \in (1..n) \X (1..n) : p[1] # p[2]}

\* The number of flows the callback waits for, as the code computes it.
FlowsPerRound ==
  CASE strategy \in {"ring", "newring"} -> n
    [] strategy = "ps" -> n - 1
    [] strategy = "dps" -> n * (n - 1)

Rounds == IF strategy \in {"ring", "newring"} THEN 2 * (n - 1) ELSE 2

\* The flows that start_flow creates for round k of ring r.
RoundOf(r, k) == [ring : {r}, id : FlowIds, round : {k}]

-----------------------------------------------------------------------------
\* The constructors: at least one byte for each node in "ring" and "dps".
AtLeastAByte(s, size, group) ==
  IF s \in {"ring", "dps"} /\ size \div group = 0 THEN group ELSE size

Held(s, size) == IF s = "newring" THEN size ELSE size % SizeLimit

ZeroRounds == [r \in Rings |-> 0]
ZeroFlows == [r \in Rings |-> [id \in FlowIds |-> 0]]

Init ==
  /\ strategy \in Strategies /\ n \in GroupSizes /\ loaded \in Sizes
  /\ operator_size = Held(strategy, AtLeastAByte(strategy, loaded, n))
  /\ curr_round = ZeroRounds
  /\ finished_curr_round = ZeroRounds
  /\ finished_rounds = ZeroFlows
  /\ finished_rings = 0
  /\ flows = {}
  /\ phase = "waiting"
  /\ delivered = 0

\* A small ring operator is charged for all its rounds at once.
Scaled == Held(strategy, (operator_size * 2 * (n - 1)) \div n)

\* doNextEvent over a single node: cleanup, and nothing is sent.
StartAlone ==
  /\ phase = "waiting" /\ n = 1
  /\ phase' = "finished"
  /\ UNCHANGED <<params, operator_size, curr_round, finished_curr_round,
                 finished_rounds, finished_rings, flows, delivered>>

\* doNextEvent: the flows of round 0 of every ring start.
Start ==
  /\ phase = "waiting" /\ n > 1
  /\ operator_size' = IF strategy \in {"ring", "newring"} /\ operator_size < Mtu * n
                      THEN Scaled ELSE operator_size
  /\ phase' = "running"
  /\ flows' = UNION {RoundOf(r, 0) : r \in Rings}
  /\ UNCHANGED <<params, curr_round, finished_curr_round, finished_rounds,
                 finished_rings, delivered>>

\* After round 1 of a small ring operator nothing more is sent:
\* operator_size / (2.0 * (n - 1) / n) <= 9000 * n, in exact arithmetic.
EarlyEnd ==
  strategy \in {"ring", "newring"} /\ operator_size <= Mtu * 2 * (n - 1)

\* Faulty: the round is over one flow early.
RoundEndsEarly(r) == finished_curr_round[r] + 2 >= FlowsPerRound

\* Faulty: one flow more is waited for.
RoundEndsLate(r) == finished_curr_round[r] = FlowsPerRound

RoundEnds(r) == finished_curr_round[r] + 1 = FlowsPerRound

\* Faulty: counts a ring as done one round early.
RingEndsEarly(r) == EarlyEnd \/ curr_round[r] + 2 >= Rounds

RingEnds(r) == (curr_round[r] = 0 /\ EarlyEnd) \/ curr_round[r] + 1 = Rounds

\* The task of one ring finishes with it; rings are counted in "newring" only.
LastRing == strategy = "newring" => finished_rings + 1 = NRings

\* What every callback does first.
CountFlow(f) ==
  /\ f \in flows
  /\ delivered' = delivered + 1
  /\ finished_rounds' = IF strategy = "dps" THEN finished_rounds
                        ELSE [finished_rounds EXCEPT ![f.ring][f.id] = @ + 1]
  /\ UNCHANGED <<params, operator_size>>

\* The callback of a flow, while others of its round are in the network.
FlowDone(f) ==
  /\ CountFlow(f) /\ ~ RoundEnds(f.ring)
  /\ finished_curr_round' = [finished_curr_round EXCEPT ![f.ring] = @ + 1]
  /\ flows' = flows \ {f}
  /\ UNCHANGED <<curr_round, finished_rings, phase>>

\* The callback that ends a round but not the ring: the next round starts.
RoundDone(f) ==
  /\ CountFlow(f) /\ RoundEnds(f.ring) /\ ~ RingEnds(f.ring)
  /\ curr_round' = [curr_round EXCEPT ![f.ring] = @ + 1]
  /\ finished_curr_round' = [finished_curr_round EXCEPT ![f.ring] = 0]
  /\ flows' = (flows \ {f}) \cup RoundOf(f.ring, curr_round[f.ring] + 1)
  /\ UNCHANGED <<finished_rings, phase>>

\* The callback that ends the last round of a ring, and the task with the last ring.
RingDone(f) ==
  /\ CountFlow(f) /\ RoundEnds(f.ring) /\ RingEnds(f.ring)
  /\ curr_round' = [curr_round EXCEPT ![f.ring] = @ + 1]
  /\ finished_curr_round' = [finished_curr_round EXCEPT ![f.ring] = 0]
  /\ finished_rings' = IF strategy = "newring" THEN finished_rings + 1 ELSE finished_rings
  /\ phase' = IF LastRing THEN "finished" ELSE phase
  /\ flows' = flows \ {f}

\* Faulty: the rounds of the flows are kept.
ResetRounds == finished_rounds

ResetFlows == ZeroFlows

ResetRings == 0

\* reset(), when the whole application has finished its iteration.
Reset ==
  /\ phase = "finished"
  /\ phase' = "waiting"
  /\ curr_round' = ZeroRounds
  /\ finished_curr_round' = ZeroRounds
  /\ finished_rounds' = ResetFlows
  /\ finished_rings' = ResetRings
  /\ delivered' = 0
  /\ UNCHANGED <<params, operator_size, flows>>

Callback(f) == FlowDone(f) \/ RoundDone(f) \/ RingDone(f)

Next ==
  \/ StartAlone
  \/ Start
  \/ \E f \in flows : Callback(f)
  \/ Reset

\* The network completes every flow: TCP retransmits until it does.
Fairness == WF_vars(\E f \in flows : Callback(f))

Spec == Init /\ [][Next]_vars /\ Fairness

-----------------------------------------------------------------------------
(* Properties.                                                             *)

TypeOK ==
  /\ operator_size \in Nat
  /\ curr_round \in [Rings -> Nat]
  /\ finished_curr_round \in [Rings -> Nat]
  /\ finished_rounds \in [Rings -> [FlowIds -> Nat]]
  /\ finished_rings \in 0..NRings
  /\ flows \subseteq [ring : Rings, id : FlowIds, round : Nat]
  /\ phase \in {"waiting", "running", "finished"}
  /\ delivered \in Nat

\* The rounds of a ring are separated by a barrier: every flow in the network
\* is of the current round of its ring, once, and those that are not there any
\* more are exactly the ones counted; so each callback finds its flow in the
\* round it was started for (the assertions ffapp.cpp:973, 1104 and 1234).
RoundsAreBarriers ==
  \A r \in Rings :
    LET mine == {f \in flows : f.ring = r} IN
    /\ \A f \in mine : f.round = curr_round[r]
    /\ \A f, g \in mine : f.id = g.id => f = g
    /\ mine # {} => Cardinality(mine) + finished_curr_round[r] = Cardinality(FlowIds)
    /\ strategy # "dps" => \A f \in mine : finished_rounds[r][f.id] = curr_round[r]

\* The task starts with every counter at 0, in every iteration (the assertions
\* ffapp.cpp:837, 1154 and 1274), and no flow of an earlier iteration is left
\* to call it back.
StartsFresh ==
  phase = "waiting" =>
    /\ flows = {} /\ finished_rings = 0
    /\ \A r \in Rings : curr_round[r] = 0 /\ finished_curr_round[r] = 0
    /\ \A r \in Rings : \A id \in FlowIds : finished_rounds[r][id] = 0

\* The task finishes, once, when every flow of every round of every ring has
\* been delivered, and the rings agree on how many rounds that is.
FinishesWithTheLastFlow ==
  phase = "finished" =>
    /\ flows = {}
    /\ n > 1 => \E k \in {1, Rounds} :
         /\ \A r \in Rings : curr_round[r] = k
         /\ delivered = Cardinality(Rings) * k * Cardinality(FlowIds)
         /\ k = 1 /\ Rounds # 1 => EarlyEnd

\* A collective that has started finishes.
EveryCollectiveFinishes == phase = "running" ~> phase = "finished"

\* operator_size is the "total data size of the operator" (ffapp.h:172): the
\* correction of a small operator is made in the one call of doNextEvent that
\* "should only be called once" (ffapp.cpp:836), so that every iteration sends
\* the same data.
EveryIterationSendsTheSame ==
  phase = "running" =>
    LET first == AtLeastAByte(strategy, loaded, n) IN
    operator_size = IF strategy \in {"ring", "newring"} /\ first < Mtu * n
                    THEN (first * 2 * (n - 1)) \div n ELSE first
=============================================================================
