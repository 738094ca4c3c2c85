----------------------- MODULE Reconfiguration_proofs -----------------------
(***************************************************************************)
(* The flows and their scheduler, for any flows, links, capacity, windows  *)
(* and topologies.  First what needs no knowledge of the contents of the   *)
(* queues, and holds whatever packets the network drops, repeats and       *)
(* reorders: what a source believes to be received is, the scheduler has   *)
(* an event exactly when nobody else will call it, and the network is      *)
(* rewired only when it has drained.  Then what rests on which packets may *)
(* be in it: no data overtakes the SYN, a source has one event, routes are *)
(* of the topology that is installed, and nothing is sent while flows are  *)
(* paused.                                                                 *)
(***************************************************************************)
EXTENDS Reconfiguration, SharedLemmas

-----------------------------------------------------------------------------
(* The sink.                                                               *)

\* In a finite set of segments a run that starts at seq has an end.
LEMMA RunEnds ==
  ASSUME NEW all, IsFiniteSet(all), NEW seq \in Nat, seq \in all
  PROVE  \E n \in seq..(seq + Cardinality(all)) : (seq..n) \subseteq all /\ n + 1 \notin all
<1>. DEFINE S == {n \in seq..(seq + Cardinality(all)) : (seq..n) \subseteq all}
            c == Cardinality(S)
<1>1. Cardinality(all) \in Nat
  BY FS_CardinalityType
<1>2. S \subseteq all /\ seq \in S
  BY <1>1
<1>3. IsFiniteSet(S) /\ c \in Nat /\ c <= Cardinality(all) /\ c # 0
  BY <1>2, FS_Subset, FS_CardinalityType, FS_EmptySet
<1>4. seq + c - 1 \in S
  <2>. SUFFICES ASSUME seq + c - 1 \notin S PROVE FALSE
    OBVIOUS
  <2>1. \A n \in S : n < seq + c - 1
    <3>. SUFFICES ASSUME NEW n \in S, n >= seq + c - 1 PROVE FALSE
      BY <1>1, <1>3
    <3>1. (seq..(seq + c - 1)) \subseteq (seq..n)
      BY <1>1, <1>3
    <3>. QED  BY <1>1, <1>3, <3>1
  <2>2. S \subseteq seq..(seq + c - 2)
    BY <1>1, <1>3, <2>1
  <2>3. IsFiniteSet(seq..(seq + c - 2)) /\ Cardinality(seq..(seq + c - 2)) = c - 1
    <3>. DEFINE top == seq + c - 2
    <3>1. top \in Int /\ seq \in Int /\ c >= 1
      BY <1>3
    <3>2. IsFiniteSet(seq..top)
          /\ Cardinality(seq..top) = IF seq > top THEN 0 ELSE top - seq + 1
      <4>. HIDE DEF top
      <4>. QED  BY <3>1, FS_Interval
    <3>. QED  BY <1>3, <3>1, <3>2
  <2>4. c <= c - 1
    <3>. DEFINE U == seq..(seq + c - 2)
    <3>1. IsFiniteSet(U) /\ S \in SUBSET U /\ Cardinality(U) = c - 1
      BY <2>2, <2>3
    <3>2. Cardinality(S) <= Cardinality(U)
      <4>. HIDE DEF U, S
      <4>. QED  BY <3>1, FS_Subset
    <3>. QED  BY <3>1, <3>2
  <2>. QED  BY <1>3, <2>4
<1>5. seq + c \notin S
  <2>. SUFFICES ASSUME seq + c \in S PROVE FALSE
    OBVIOUS
  <2>1. (seq..(seq + c)) \subseteq S
    <3>. SUFFICES ASSUME NEW n \in seq..(seq + c) PROVE n \in S
      OBVIOUS
    <3>1. (seq..n) \subseteq (seq..(seq + c)) /\ n \in seq..(seq + Cardinality(all))
      BY <1>1, <1>3
    <3>. QED  BY <3>1
  <2>2. Cardinality(seq..(seq + c)) = c + 1
    <3>. DEFINE top == seq + c
    <3>1. top \in Int /\ seq \in Int
      BY <1>3
    <3>2. Cardinality(seq..top) = IF seq > top THEN 0 ELSE top - seq + 1
      <4>. HIDE DEF top
      <4>. QED  BY <3>1, FS_Interval
    <3>. QED  BY <1>3, <3>1, <3>2
  <2>3. c + 1 <= c
    <3>. DEFINE U == seq..(seq + c)
    <3>1. U \in SUBSET S /\ Cardinality(U) = c + 1
      BY <2>1, <2>2
    <3>2. Cardinality(U) <= Cardinality(S)
      <4>. HIDE DEF U, S
      <4>. QED  BY <1>3, <3>1, FS_Subset
    <3>. QED  BY <3>1, <3>2
  <2>. QED  BY <1>3, <2>3
<1>6. (seq + c - 1) + 1 \notin all
  <2>1. seq + c \in seq..(seq + Cardinality(all)) /\ (seq + c - 1) + 1 = seq + c
    BY <1>1, <1>3
  <2>2. (seq..(seq + c)) = (seq..(seq + c - 1)) \cup {seq + c}
    BY <1>3
  <2>. QED  BY <1>4, <1>5, <2>1, <2>2
<1>. QED  BY <1>4, <1>6

SinkOK(k) == k.cumulative_ack \in Nat /\ IsFiniteSet(k.received)

\* The cumulative acknowledgement of a sink never goes back.
LEMMA ReceivedFacts ==
  ASSUME NEW k, NEW seq, SinkOK(k)
  PROVE  SinkOK(Received(k, seq)) /\ Received(k, seq).cumulative_ack >= k.cumulative_ack
<1>. DEFINE all == k.received \cup {seq}
            run(n) == (seq..n) \subseteq all /\ n + 1 \notin all
            ack == IF seq = k.cumulative_ack + 1
                   THEN CHOOSE n \in seq..(seq + Cardinality(all)) : run(n)
                   ELSE k.cumulative_ack
<1>1. IsFiniteSet(all) /\ Cardinality(all) \in Nat
  BY FS_AddElement, FS_CardinalityType DEF SinkOK
<1>2. ack \in Nat /\ ack >= k.cumulative_ack
  <2>1. CASE seq = k.cumulative_ack + 1
    <3>1. seq \in Nat
      BY <2>1 DEF SinkOK
    <3>2. \E n \in seq..(seq + Cardinality(all)) : run(n)
      BY <1>1, <3>1, RunEnds
    <3>3. ack \in seq..(seq + Cardinality(all))
      <4>. HIDE DEF run
      <4>. QED  BY <2>1, <3>2
    <3>. QED  BY <1>1, <2>1, <3>1, <3>3 DEF SinkOK
  <2>2. CASE seq # k.cumulative_ack + 1
    BY <2>2 DEF SinkOK
  <2>. QED  BY <2>1, <2>2
<1>3. IsFiniteSet({n \in all : n > ack})
  BY <1>1, FS_Subset
<1>4. Received(k, seq) = [cumulative_ack |-> ack, received |-> {n \in all : n > ack}]
  BY DEF Received
<1>. HIDE DEF ack, all
<1>. QED  BY <1>2, <1>3, <1>4 DEF SinkOK

-----------------------------------------------------------------------------
(* The source.                                                             *)

\* The variables of a source that the proofs are about.
Fields == {"established", "finished", "highest_sent", "last_acked", "cwnd", "dupacks",
           "in_fast_recovery", "recoverq", "timer", "rtx_timeout_pending",
           "has_pending_send", "has_pending_retrans", "out"}

IsSource(s) == s = [x \in Fields |-> s[x]]

\* s and t have acknowledged and completed the same.
SameProgress(s, t) ==
  /\ IsSource(t)
  /\ t.last_acked = s.last_acked /\ t.finished = s.finished

LEMMA SendProgress ==
  ASSUME NEW f, NEW s, IsSource(s)
  PROVE  /\ SameProgress(s, SendPackets(f, s))
         /\ SameProgress(s, Retransmit(s))
BY DEF SameProgress, IsSource, Fields, SendPackets, SendsSyn, Retransmit

LEMMA TryProgress ==
  ASSUME NEW f, NEW s, IsSource(s)
  PROVE  /\ SameProgress(s, TrySend(f, s))
         /\ SameProgress(s, TryRetransmit(s))
         /\ paused => TrySend(f, s).out = s.out /\ TryRetransmit(s).out = s.out
<1>1. CASE paused
  BY <1>1 DEF TrySend, TryRetransmit, SameProgress, IsSource, Fields
<1>2. CASE ~ paused
  BY <1>2, SendProgress DEF TrySend, TryRetransmit
<1>. QED  BY <1>1, <1>2

LEMMA StartFlowProgress ==
  ASSUME NEW f, NEW s, IsSource(s)
  PROVE  /\ SameProgress(s, StartFlow(f, s))
         /\ paused => StartFlow(f, s).out = s.out
<1>. DEFINE t == [s EXCEPT !.cwnd = MaxWindow, !.established = FALSE]
<1>1. IsSource(t) /\ t.last_acked = s.last_acked /\ t.finished = s.finished /\ t.out = s.out
  BY DEF IsSource, Fields
<1>2. StartFlow(f, s) = TrySend(f, t)
  BY DEF StartFlow
<1>. HIDE DEF t
<1>. QED  BY <1>1, <1>2, TryProgress DEF SameProgress

LEMMA TimeoutProgress ==
  ASSUME NEW s, IsSource(s)
  PROVE  /\ SameProgress(s, Timeout(s))
         /\ paused => Timeout(s).out = s.out
<1>. DEFINE t == [s EXCEPT
       !.rtx_timeout_pending = FALSE, !.cwnd = 1, !.in_fast_recovery = FALSE, !.dupacks = 0,
       !.recoverq = s.highest_sent,
       !.highest_sent = IF s.established THEN s.last_acked + 1 ELSE s.highest_sent]
<1>1. IsSource(t) /\ t.last_acked = s.last_acked /\ t.finished = s.finished /\ t.out = s.out
  BY DEF IsSource, Fields
<1>2. Timeout(s) = TryRetransmit(t)
  BY DEF Timeout
<1>. HIDE DEF t
<1>. QED  BY <1>1, <1>2, TryProgress DEF SameProgress

LEMMA ResumeProgress ==
  ASSUME NEW f, NEW s, IsSource(s)
  PROVE  SameProgress(s, Resume(f, s))
<1>. DEFINE s1 == IF s.has_pending_send THEN SendPackets(f, s) ELSE s
            s2 == IF s.has_pending_retrans THEN Retransmit(s1) ELSE s1
<1>1. SameProgress(s, s1)
  BY SendProgress DEF SameProgress
<1>2. SameProgress(s, s2)
  <2>. HIDE DEF s1
  <2>. QED  BY <1>1, SendProgress DEF SameProgress
<1>3. Resume(f, s) = [s2 EXCEPT !.has_pending_send = FALSE, !.has_pending_retrans = FALSE]
  BY DEF Resume
<1>. HIDE DEF s2
<1>. QED  BY <1>2, <1>3 DEF SameProgress, IsSource, Fields

\* An acknowledgement that is not old becomes the one of the source, which has
\* then finished only if it had before or the acknowledgement is of its last segment.
LEMMA AckProgress ==
  ASSUME NEW f, NEW s, NEW ack \in Nat, NEW w, IsSource(s), s.last_acked \in Nat, ack >= s.last_acked
  PROVE  /\ IsSource(ReceiveAck(f, s, ack, w))
         /\ ReceiveAck(f, s, ack, w).last_acked = ack
         /\ ReceiveAck(f, s, ack, w).finished => s.finished \/ Complete(f, s, ack)
<1>. DEFINE s1 == [s EXCEPT !.established = @ \/ ack = 1, !.cwnd = w,
                            !.finished = @ \/ Complete(f, s, ack)]
            t == ReceiveAck(f, s, ack, w)
<1>1. /\ IsSource(s1) /\ s1.last_acked = s.last_acked
      /\ s1.finished => s.finished \/ Complete(f, s, ack)
      /\ s1.in_fast_recovery = s.in_fast_recovery /\ s1.dupacks = s.dupacks
  BY DEF IsSource, Fields
<1>2. CASE ack > s.last_acked
  <2>. DEFINE r == Restarted(s1, ack)
              n == [r EXCEPT !.last_acked = ack, !.dupacks = 0, !.in_fast_recovery = FALSE]
              p == [r EXCEPT !.last_acked = ack]
  <2>1. t = PartialAck(f, s1, ack) \/ t = NewAck(f, s1, ack)
    <3>. HIDE DEF s1
    <3>1. t = CASE ack < s1.last_acked -> s
              [] ack > s1.last_acked ->
                   IF s1.in_fast_recovery /\ ack < s1.recoverq
                   THEN PartialAck(f, s1, ack) ELSE NewAck(f, s1, ack)
              [] OTHER ->
                   IF ~ s1.in_fast_recovery /\ s1.dupacks = 2
                   THEN ThirdDupAck(s1) ELSE DupAck(f, s1, s.cwnd)
      BY DEF ReceiveAck, s1
    <3>. HIDE DEF t
    <3>. QED  BY <1>1, <1>2, <3>1
  <2>2. SameProgress(s1, r)
    <3>. HIDE DEF s1
    <3>. QED  BY <1>1 DEF SameProgress, IsSource, Fields, Restarted
  <2>. HIDE DEF t
  <2>3. IsSource(n) /\ n.last_acked = ack /\ n.finished = s1.finished
    <3>. HIDE DEF r, s1
    <3>. QED  BY <2>2 DEF SameProgress, IsSource, Fields
  <2>4. IsSource(p) /\ p.last_acked = ack /\ p.finished = s1.finished
    <3>. HIDE DEF r, s1
    <3>. QED  BY <2>2 DEF SameProgress, IsSource, Fields
  <2>5. NewAck(f, s1, ack) = TrySend(f, n)
        /\ PartialAck(f, s1, ack) = TrySend(f, TryRetransmit(p))
    BY DEF NewAck, PartialAck
  <2>. HIDE DEF n, p, s1
  <2>6. SameProgress(n, TrySend(f, n)) /\ SameProgress(p, TryRetransmit(p))
    BY <2>3, <2>4, TryProgress
  <2>7. SameProgress(TryRetransmit(p), TrySend(f, TryRetransmit(p)))
    BY <2>6, TryProgress DEF SameProgress
  <2>. QED  BY <1>1, <2>1, <2>3, <2>4, <2>5, <2>6, <2>7 DEF SameProgress, t
<1>3. CASE ack = s.last_acked
  <2>1. t = ThirdDupAck(s1) \/ t = DupAck(f, s1, s.cwnd)
    <3>. HIDE DEF s1
    <3>1. t = CASE ack < s1.last_acked -> s
              [] ack > s1.last_acked ->
                   IF s1.in_fast_recovery /\ ack < s1.recoverq
                   THEN PartialAck(f, s1, ack) ELSE NewAck(f, s1, ack)
              [] OTHER ->
                   IF ~ s1.in_fast_recovery /\ s1.dupacks = 2
                   THEN ThirdDupAck(s1) ELSE DupAck(f, s1, s.cwnd)
      BY DEF ReceiveAck, s1
    <3>. HIDE DEF t
    <3>. QED  BY <1>1, <1>3, <3>1
  <2>. HIDE DEF t, s1
  <2>2. SameProgress(s1, ThirdDupAck(s1))
    <3>. DEFINE third == [s1 EXCEPT !.dupacks = 3]
    <3>1. SameProgress(s1, third)
      BY <1>1 DEF SameProgress, IsSource, Fields
    <3>2. ThirdDupAck(s1) =
            IF s1.last_acked < s1.recoverq THEN third
            ELSE [TryRetransmit(third) EXCEPT !.in_fast_recovery = TRUE, !.recoverq = s1.highest_sent]
      BY DEF ThirdDupAck
    <3>. HIDE DEF third
    <3>3. SameProgress(third, TryRetransmit(third))
      BY <3>1, TryProgress DEF SameProgress
    <3>. QED  BY <3>1, <3>2, <3>3 DEF SameProgress, IsSource, Fields
  <2>3. SameProgress(s1, DupAck(f, s1, s.cwnd))
    <3>. DEFINE d == IF s1.in_fast_recovery THEN s1
                     ELSE [s1 EXCEPT !.dupacks = Least(@ + 1, 4), !.cwnd = Least(@, s.cwnd)]
    <3>1. SameProgress(s1, d)
      BY <1>1 DEF SameProgress, IsSource, Fields
    <3>2. DupAck(f, s1, s.cwnd) = TrySend(f, d)
      BY DEF DupAck
    <3>. HIDE DEF d
    <3>. QED  BY <3>1, <3>2, TryProgress DEF SameProgress
  <2>. QED  BY <1>1, <1>3, <2>1, <2>2, <2>3 DEF SameProgress, t
<1>. QED  BY <1>2, <1>3

-----------------------------------------------------------------------------
(* What sources and sinks agree on.                                        *)

FlowIsExact(f, s, k) ==
  /\ IsSource(s) /\ s.out = <<>> /\ SinkOK(k)
  /\ s.last_acked = k.cumulative_ack
  /\ s.finished => k.cumulative_ack >= LastOf(f)

FlowsAreExact ==
  /\ src = [f \in Flows |-> src[f]] /\ sink = [f \in Flows |-> sink[f]]
  /\ \A f \in Flows : FlowIsExact(f, src[f], sink[f])

LEMMA LastIsNat ==
  ASSUME NEW f \in Flows
  PROVE  LastOf(f) \in Nat
BY TcpAssumption DEF LastOf

\* A handler of a source that acknowledges nothing leaves it as exact as it was.
LEMMA HandlerIsExact ==
  ASSUME NEW f, NEW s, NEW t, NEW k, FlowIsExact(f, s, k), SameProgress(s, t)
  PROVE  FlowIsExact(f, [t EXCEPT !.out = <<>>], k)
BY DEF FlowIsExact, SameProgress, IsSource, Fields

LEMMA SrcEventExact ==
  ASSUME FlowsAreExact, NEW f \in Flows, SrcEvent(f)
  PROVE  /\ FlowsAreExact'
         /\ paused => queue' = queue
<1>. DEFINE s == src[f]
            t == IF s.rtx_timeout_pending THEN Timeout(s) ELSE StartFlow(f, s)
<1>1. FlowIsExact(f, s, sink[f]) /\ IsSource(s) /\ s.out = <<>>
  BY DEF FlowsAreExact, FlowIsExact
<1>2. SameProgress(s, t) /\ (paused => t.out = <<>>)
  BY <1>1, StartFlowProgress, TimeoutProgress
<1>3. /\ src' = [src EXCEPT ![f] = [t EXCEPT !.out = <<>>]] /\ sink' = sink
      /\ queue' = SentOn(queue, f, t)
  BY DEF SrcEvent, Ends
<1>. HIDE DEF t, s
<1>4. FlowIsExact(f, [t EXCEPT !.out = <<>>], sink[f])
  BY <1>1, <1>2, HandlerIsExact
<1>5. FlowsAreExact'
  <2>1. src' = [g \in Flows |-> src'[g]]
    BY <1>3 DEF FlowsAreExact
  <2>2. \A g \in Flows : src'[g] = IF g = f THEN [t EXCEPT !.out = <<>>] ELSE src[g]
    BY <1>3 DEF FlowsAreExact
  <2>. QED  BY <1>3, <1>4, <2>1, <2>2 DEF FlowsAreExact
<1>6. paused => queue' = queue
  BY <1>2, <1>3 DEF SentOn
<1>. QED  BY <1>5, <1>6

LEMMA DeliverExact ==
  ASSUME FlowsAreExact, NEW l, PipeDeliver(l)
  PROVE  FlowsAreExact'
<1>. DEFINE p == Head(pipe[l])
            f == p.flow
            k == Received(sink[f], p.seq)
<1>1. PICK w \in 1..MaxWindow :
        /\ sink' = [sink EXCEPT ![f] = k]
        /\ Ends(f, ReceiveAck(f, src[f], sink'[f].cumulative_ack, w), queue)
  BY DEF PipeDeliver
<1>. DEFINE t == ReceiveAck(f, src[f], sink'[f].cumulative_ack, w)
<1>2. src' = [src EXCEPT ![f] = [t EXCEPT !.out = <<>>]]
  BY <1>1 DEF Ends
<1>. HIDE DEF p, f, k, t
<1>3. CASE f \in Flows
  <2>1. FlowIsExact(f, src[f], sink[f]) /\ sink'[f] = k
    BY <1>1, <1>3 DEF FlowsAreExact
  <2>2. SinkOK(k) /\ k.cumulative_ack >= sink[f].cumulative_ack /\ k.cumulative_ack \in Nat
    BY <2>1, ReceivedFacts DEF FlowIsExact, k, SinkOK
  <2>3. /\ IsSource(t) /\ t.last_acked = k.cumulative_ack
        /\ t.finished => src[f].finished \/ Complete(f, src[f], k.cumulative_ack)
    <3>1. IsSource(src[f]) /\ src[f].last_acked = sink[f].cumulative_ack
          /\ sink[f].cumulative_ack \in Nat
      BY <2>1 DEF FlowIsExact, SinkOK
    <3>. DEFINE ack == k.cumulative_ack
                s == src[f]
    <3>2. /\ ack \in Nat /\ ack >= s.last_acked /\ t = ReceiveAck(f, s, ack, w)
          /\ IsSource(s) /\ s.last_acked \in Nat
      BY <2>1, <2>2, <3>1 DEF t
    <3>. HIDE DEF ack, s
    <3>3. /\ IsSource(ReceiveAck(f, s, ack, w)) /\ ReceiveAck(f, s, ack, w).last_acked = ack
          /\ ReceiveAck(f, s, ack, w).finished => s.finished \/ Complete(f, s, ack)
      BY <3>2, AckProgress
    <3>. QED  BY <3>2, <3>3 DEF ack, s
  <2>4. t.finished => k.cumulative_ack >= LastOf(f)
    <3>1. sink[f].cumulative_ack \in Nat /\ LastOf(f) \in Nat
      BY <1>3, <2>1, LastIsNat DEF FlowIsExact, SinkOK
    <3>. QED  BY <2>1, <2>2, <2>3, <3>1 DEF FlowIsExact, Complete
  <2>5. FlowIsExact(f, [t EXCEPT !.out = <<>>], k)
    BY <2>2, <2>3, <2>4 DEF FlowIsExact, IsSource, Fields
  <2>6. src' = [g \in Flows |-> src'[g]] /\ sink' = [g \in Flows |-> sink'[g]]
    BY <1>1, <1>2 DEF FlowsAreExact
  <2>7. \A g \in Flows : /\ src'[g] = IF g = f THEN [t EXCEPT !.out = <<>>] ELSE src[g]
                         /\ sink'[g] = IF g = f THEN k ELSE sink[g]
    BY <1>1, <1>2 DEF FlowsAreExact
  <2>. QED  BY <2>5, <2>6, <2>7 DEF FlowsAreExact
<1>4. CASE f \notin Flows
  <2>1. src' = src /\ sink' = sink
    BY <1>1, <1>2, <1>4 DEF FlowsAreExact
  <2>. QED  BY <2>1 DEF FlowsAreExact
<1>. QED  BY <1>3, <1>4

LEMMA ScanExact ==
  ASSUME FlowsAreExact, NEW expired, Scan(expired)
  PROVE  FlowsAreExact'
<1>1. src' = [f \in Flows |-> IF f \in Timed(expired)
                              THEN [src[f] EXCEPT !.rtx_timeout_pending = TRUE] ELSE src[f]]
      /\ sink' = sink
  BY DEF Scan
<1>. SUFFICES ASSUME NEW f \in Flows PROVE FlowIsExact(f, src'[f], sink[f])
  BY <1>1 DEF FlowsAreExact
<1>2. FlowIsExact(f, src[f], sink[f])
  BY DEF FlowsAreExact
<1>3. src'[f] = src[f] \/ src'[f] = [src[f] EXCEPT !.rtx_timeout_pending = TRUE]
  BY <1>1
<1>. QED  BY <1>2, <1>3 DEF FlowIsExact, IsSource, Fields

LEMMA FinishExact ==
  ASSUME FlowsAreExact, FinishReconf
  PROVE  FlowsAreExact'
<1>1. src' = [f \in Flows |-> IF f \in ToSet(tcps)
                              THEN [Resume(f, src[f]) EXCEPT !.out = <<>>] ELSE src[f]]
      /\ sink' = sink
  BY DEF FinishReconf
<1>. SUFFICES ASSUME NEW f \in Flows PROVE FlowIsExact(f, src'[f], sink[f])
  BY <1>1 DEF FlowsAreExact
<1>2. FlowIsExact(f, src[f], sink[f]) /\ SameProgress(src[f], Resume(f, src[f]))
  BY ResumeProgress DEF FlowsAreExact, FlowIsExact
<1>3. src'[f] = src[f] \/ src'[f] = [Resume(f, src[f]) EXCEPT !.out = <<>>]
  BY <1>1
<1>. QED  BY <1>2, <1>3, HandlerIsExact

LEMMA SameFlows ==
  ASSUME FlowsAreExact, UNCHANGED <<src, sink>>
  PROVE  FlowsAreExact'
BY DEF FlowsAreExact

-----------------------------------------------------------------------------
(* The scheduler.                                                          *)

\* The flows are paused exactly while a reconfiguration is under way.
PausedInReconf == status \in {"LIVE", "RECONF"} /\ (paused <=> status = "RECONF")

IInv == FlowsAreExact /\ PausedInReconf /\ SchedulerIsExclusive

LEMMA InitInv == Init => IInv
<1>. SUFFICES ASSUME Init PROVE IInv
  OBVIOUS
<1>1. FlowsAreExact
  <2>1. src = [f \in Flows |-> NewSrc]
        /\ sink = [f \in Flows |-> [cumulative_ack |-> 0, received |-> {}]]
    BY DEF Init, TcpInit
  <2>2. \A f \in Flows : FlowIsExact(f, NewSrc, [cumulative_ack |-> 0, received |-> {}])
    BY FS_EmptySet DEF FlowIsExact, NewSrc, IsSource, Fields, SinkOK
  <2>. QED  BY <2>1, <2>2 DEF FlowsAreExact
<1>2. PausedInReconf /\ SchedulerIsExclusive
  BY DEF Init, TcpInit, PausedInReconf, SchedulerIsExclusive
<1>. QED  BY <1>1, <1>2 DEF IInv

\* A flow that connects leaves the network and the scheduler as they are.
LEMMA ConnectStep ==
  ASSUME IInv, NEW f \in Flows, ConnectFlow(f)
  PROVE  IInv'
<1>1. UNCHANGED <<src, sink, queue, pipe, paused, status, scheduled>>
  BY DEF ConnectFlow, Connect, schedVars, netVars
<1>. QED  BY <1>1, SameFlows
          DEF IInv, PausedInReconf, SchedulerIsExclusive, NetworkIsEmpty

LEMMA RunSourceStep ==
  ASSUME IInv, NEW f \in Flows, RunSource(f)
  PROVE  IInv'
<1>1. UNCHANGED <<pipe, paused, status, scheduled>> /\ FlowsAreExact' /\ (paused => queue' = queue)
  BY SrcEventExact DEF RunSource, SrcEvent, schedVars, IInv
<1>2. status = "RECONF" => queue' = queue
  BY <1>1 DEF IInv, PausedInReconf
<1>. QED  BY <1>1, <1>2
          DEF IInv, PausedInReconf, SchedulerIsExclusive, NetworkIsEmpty

LEMMA ScanStep ==
  ASSUME IInv, NEW expired, ScanTimers(expired)
  PROVE  IInv'
<1>1. UNCHANGED <<queue, pipe, paused, status, scheduled>> /\ FlowsAreExact'
  BY ScanExact DEF ScanTimers, Scan, schedVars, netVars, IInv
<1>. QED  BY <1>1
          DEF IInv, PausedInReconf, SchedulerIsExclusive, NetworkIsEmpty

\* A packet that leaves an element tells the scheduler, which had no event
\* as the network was not empty.
LEMMA PacketStep ==
  ASSUME IInv, NEW l \in Links, Packet(l)
  PROVE  IInv'
<1>1. UNCHANGED <<paused, status>> /\ ~ NetworkIsEmpty
  BY DEF Packet, PacketEvent, CompleteService, PipeForward, PipeDeliver, NetworkIsEmpty
<1>2. FlowsAreExact'
  <2>1. UNCHANGED <<src, sink>> \/ PipeDeliver(l)
    BY DEF Packet, PacketEvent, CompleteService, PipeForward
  <2>. QED  BY <2>1, SameFlows, DeliverExact DEF IInv
<1>3. SchedulerIsExclusive'
  <2>1. CASE status = "RECONF"
    <3>1. scheduled = 0 /\ DoReconf(scheduled, Drained')
      BY <1>1, <2>1 DEF IInv, SchedulerIsExclusive, Packet
    <3>2. scheduled' = IF NetworkIsEmpty' THEN 1 ELSE 0
      <4>1. Drained' <=> NetworkIsEmpty'
        BY DEF Drained
      <4>2. IF Drained' THEN scheduled' = scheduled + 1 ELSE scheduled' = scheduled
        BY <3>1 DEF DoReconf
      <4>. QED  BY <3>1, <4>1, <4>2
    <3>3. status' = "RECONF"
      BY <1>1, <2>1
    <3>. QED  BY <3>2, <3>3 DEF SchedulerIsExclusive
  <2>2. CASE status # "RECONF"
    BY <1>1, <2>2 DEF IInv, SchedulerIsExclusive, Packet
  <2>. QED  BY <2>1, <2>2
<1>. QED  BY <1>1, <1>2, <1>3 DEF IInv, PausedInReconf

LEMMA StartReconfStep ==
  ASSUME IInv, StartReconf
  PROVE  IInv'
<1>1. /\ UNCHANGED <<src, sink, queue, pipe>> /\ status' = "RECONF" /\ paused' = TRUE
      /\ scheduled = 1 /\ DoReconf(0, NetworkIsEmpty)
  BY DEF StartReconf, netVars, NothingToWaitFor, Drained, IInv, SchedulerIsExclusive
<1>2. scheduled' = IF NetworkIsEmpty THEN 1 ELSE 0
  BY <1>1 DEF DoReconf
<1>3. NetworkIsEmpty' = NetworkIsEmpty
  BY <1>1 DEF NetworkIsEmpty
<1>4. SchedulerIsExclusive'
  BY <1>1, <1>2, <1>3 DEF SchedulerIsExclusive
<1>. QED  BY <1>1, <1>4, SameFlows DEF IInv, PausedInReconf

LEMMA FinishReconfStep ==
  ASSUME IInv, FinishReconf
  PROVE  IInv'
<1>1. /\ status = "RECONF" /\ scheduled > 0
      /\ status' = "LIVE" /\ paused' = FALSE /\ scheduled' = scheduled
  BY DEF FinishReconf
<1>2. scheduled = 1
  BY <1>1 DEF IInv, SchedulerIsExclusive
<1>. QED  BY <1>1, <1>2, FinishExact DEF IInv, PausedInReconf, SchedulerIsExclusive

LEMMA StutterStep ==
  ASSUME IInv, UNCHANGED vars
  PROVE  IInv'
<1>1. UNCHANGED <<src, sink, queue, pipe, paused, status, scheduled>>
  BY DEF vars, tcpVars, flowVars, netVars, schedVars
<1>. QED  BY <1>1, SameFlows
          DEF IInv, PausedInReconf, SchedulerIsExclusive, NetworkIsEmpty

-----------------------------------------------------------------------------
(* The theorems.                                                           *)

\* The inductive invariant: source and sink agree on what has arrived, no handler
\* leaves anything to send behind, flows are paused while a reconfiguration is
\* under way, and the scheduler is exclusive.
THEOREM Inductive == Spec => []IInv
<1>1. IInv /\ [Next]_vars => IInv'
  <2>. SUFFICES ASSUME IInv, [Next]_vars PROVE IInv'
    OBVIOUS
  <2>1. ASSUME NEW f \in Flows, ConnectFlow(f) \/ RunSource(f) PROVE IInv'
    BY <2>1, ConnectStep, RunSourceStep
  <2>2. ASSUME NEW expired \in SUBSET Expirable, ScanTimers(expired) PROVE IInv'
    BY <2>2, ScanStep
  <2>3. ASSUME NEW l \in Links, Packet(l) PROVE IInv'
    BY <2>3, PacketStep
  <2>4. CASE StartReconf \/ FinishReconf
    BY <2>4, StartReconfStep, FinishReconfStep
  <2>5. CASE UNCHANGED vars
    BY <2>5, StutterStep
  <2>. QED  BY <2>1, <2>2, <2>3, <2>4, <2>5 DEF Next
<1>. QED  BY <1>1, InitInv, PTL DEF Spec

\* What a source takes as acknowledged its sink has, and a flow is reported
\* finished only when its sink has all of it, whatever is dropped, repeated,
\* timed out or held back by a reconfiguration.
THEOREM AcknowledgedHasArrived == Spec => []AckedIsReceived
<1>1. IInv => AckedIsReceived
  BY DEF IInv, FlowsAreExact, FlowIsExact, AckedIsReceived
<1>. QED  BY <1>1, Inductive, PTL

\* The scheduler is called by its own event or by the last packet that leaves
\* the network, never by both and never by neither.
THEOREM SchedulerCorrect == Spec => []SchedulerIsExclusive
<1>1. IInv => SchedulerIsExclusive
  BY DEF IInv
<1>. QED  BY <1>1, Inductive, PTL

\* Routes and topology change only while no packet is in the network.
THEOREM RewiringIsSafe == Spec => RewiredWhenDrained
<1>. DEFINE Rewired == (\E f \in Flows : route[f] # <<>> /\ route'[f] # route[f]) \/ topo' # topo
<1>1. [Next]_vars => [Rewired => NetworkIsEmpty']_vars
  <2>. SUFFICES ASSUME [Next]_vars, Rewired PROVE NetworkIsEmpty' \/ UNCHANGED vars
    OBVIOUS
  <2>1. \A f \in Flows : ~ (ConnectFlow(f) \/ RunSource(f))
    <3>. SUFFICES ASSUME NEW f \in Flows, ConnectFlow(f) \/ RunSource(f) PROVE FALSE
      OBVIOUS
    <3>1. CASE ConnectFlow(f)
      <4>1. PICK r : Connect(f, r) /\ topo' = topo
        BY <3>1 DEF ConnectFlow, schedVars
      <4>2. route[f] = <<>> /\ route' = [route EXCEPT ![f] = r]
        BY <4>1 DEF Connect
      <4>3. \A g \in Flows : route[g] # <<>> => route'[g] = route[g]
        BY <4>2
      <4>. QED  BY <4>1, <4>3
    <3>2. CASE RunSource(f)
      BY <3>2 DEF RunSource, SrcEvent, schedVars
    <3>. QED  BY <3>1, <3>2
  <2>2. \A expired : ~ ScanTimers(expired)
    BY DEF ScanTimers, Scan, schedVars
  <2>3. ~ FinishReconf
    BY DEF FinishReconf
  <2>4. CASE StartReconf
    <3>1. DoReconf(scheduled - 1, NetworkIsEmpty) /\ UNCHANGED <<queue, pipe>>
      BY <2>4 DEF StartReconf, netVars, NothingToWaitFor, Drained
    <3>2. NetworkIsEmpty
      BY <3>1 DEF DoReconf
    <3>. QED  BY <3>1, <3>2 DEF NetworkIsEmpty
  <2>5. ASSUME NEW l \in Links, Packet(l) PROVE NetworkIsEmpty'
    BY <2>5 DEF Packet, DoReconf, Drained
  <2>. QED  BY <2>1, <2>2, <2>3, <2>4, <2>5 DEF Next
<1>. QED  BY <1>1, PTL DEF Spec, RewiredWhenDrained

-----------------------------------------------------------------------------
(* Establishing, and what a source has in the network.                     *)

\* What source s has sent, may be sent again, and is on its way.
MayBeSent(s, n) == s.highest_sent # 0 /\ (~ s.established => n = 1)

Numbers(s) == {n \in Nat : MayBeSent(s, n)}

\* A source before it is established knows of nothing but its SYN.
Sane(s) ==
  /\ IsSource(s)
  /\ s.highest_sent \in Nat /\ s.last_acked \in Nat /\ s.cwnd \in Nat
  /\ s.established => s.highest_sent # 0
  /\ ~ s.established =>
       /\ s.highest_sent \in {0, 1} /\ s.last_acked = 0
       /\ s.rtx_timeout_pending \/ s.has_pending_retrans => s.highest_sent = 1
  /\ s.out \in Seq(Numbers(s))

\* t is s after it has sent, or has noted that it wants to.
Goes(s, t) ==
  /\ Sane(t)
  /\ t.established = s.established /\ t.rtx_timeout_pending = s.rtx_timeout_pending
  /\ t.finished = s.finished
  /\ t.highest_sent >= s.highest_sent

LEMMA GoesTwice ==
  ASSUME NEW s, NEW t, NEW u, Sane(s), Goes(s, t), Goes(t, u)
  PROVE  Goes(s, u)
BY DEF Goes, Sane

\* A longer sequence of numbers to send, and a source that has sent no less.
LEMMA MoreNumbers ==
  ASSUME NEW s, NEW t, s.out \in Seq(Numbers(s)), NEW more \in Seq(Numbers(t)),
         Numbers(s) \subseteq Numbers(t)
  PROVE  s.out \o more \in Seq(Numbers(t))
BY ConcatProperties

LEMMA WindowBounds ==
  ASSUME NEW f \in Flows, NEW s, Sane(s),
         NEW top, top = Most(s.highest_sent, Least(s.last_acked + s.cwnd, LastOf(f)))
  PROVE  top \in Nat /\ top >= s.highest_sent
BY LastIsNat DEF Most, Least, Sane

LEMMA SendGoes ==
  ASSUME NEW f \in Flows, NEW s, Sane(s)
  PROVE  Goes(s, SendPackets(f, s))
<1>. DEFINE t == SendPackets(f, s)
<1>. SUFFICES Goes(s, t)
  OBVIOUS
<1>1. CASE ~ s.established
  <2>. DEFINE started == TRUE
              out == Append(s.out, 1)
  <2>1. t = [s EXCEPT !.out = out, !.highest_sent = 1, !.timer = started]
    BY <1>1 DEF SendPackets, SendsSyn, Sane, IsSource, Fields
  <2>2. Numbers(s) \subseteq {1}
    BY <1>1 DEF Numbers, MayBeSent
  <2>3. out \in Seq({1})
    BY <2>2, AppendProperties DEF Sane
  <2>. HIDE DEF started, out, t
  <2>4. /\ IsSource(t) /\ t.out = out /\ t.highest_sent = 1
        /\ t.established = s.established /\ t.rtx_timeout_pending = s.rtx_timeout_pending
        /\ t.has_pending_retrans = s.has_pending_retrans
        /\ t.finished = s.finished /\ t.last_acked = s.last_acked /\ t.cwnd = s.cwnd
    BY <2>1 DEF Sane, IsSource, Fields
  <2>5. Numbers(t) = {1}
    BY <1>1, <2>4 DEF Numbers, MayBeSent
  <2>. QED BY <1>1, <2>3, <2>4, <2>5 DEF Goes, Sane
<1>2. CASE s.established
  <2>. DEFINE top == Most(s.highest_sent, Least(s.last_acked + s.cwnd, LastOf(f)))
              more == [i \in 1..(top - s.highest_sent) |-> s.highest_sent + i]
              out == s.out \o more
              timer == s.timer \/ top > s.highest_sent
  <2>1. top \in Nat /\ top >= s.highest_sent
    <3>. HIDE DEF top
    <3>. QED BY WindowBounds DEF top
  <2>2. t = [s EXCEPT !.highest_sent = top, !.out = out, !.timer = timer]
    BY <1>2 DEF SendPackets
  <2>3. more \in Seq(Nat)
    BY <2>1 DEF Sane
  <2>. HIDE DEF top, more, out, timer, t
  <2>4. /\ IsSource(t) /\ t.out = out /\ t.highest_sent = top
        /\ t.established = s.established /\ t.rtx_timeout_pending = s.rtx_timeout_pending
        /\ t.has_pending_retrans = s.has_pending_retrans
        /\ t.finished = s.finished /\ t.last_acked = s.last_acked /\ t.cwnd = s.cwnd
    BY <2>2 DEF Sane, IsSource, Fields
  <2>5. Numbers(t) = Nat /\ Numbers(s) \subseteq Nat
    BY <1>2, <2>1, <2>4 DEF Numbers, MayBeSent, Sane
  <2>6. out \in Seq(Nat)
    BY <2>3, <2>5, ConcatProperties DEF out, Sane
  <2>. QED BY <1>2, <2>1, <2>4, <2>5, <2>6 DEF Goes, Sane
<1>. QED BY <1>1, <1>2

LEMMA RetransmitGoes ==
  ASSUME NEW s, Sane(s), s.highest_sent # 0
  PROVE  Goes(s, Retransmit(s))
<1>. DEFINE t == Retransmit(s)
            n == IF s.established THEN s.last_acked + 1 ELSE 1
            out == Append(s.out, n)
            timer == IF s.established THEN TRUE ELSE s.timer
<1>. SUFFICES Goes(s, t)
  OBVIOUS
<1>1. t = [s EXCEPT !.out = out, !.timer = timer]
  BY DEF Retransmit, SendsSyn, Sane, IsSource, Fields
<1>2. n \in Numbers(s)
  BY DEF Numbers, MayBeSent, Sane
<1>3. out \in Seq(Numbers(s))
  <2>. HIDE DEF n
  <2>. QED BY <1>2, AppendProperties DEF Sane
<1>. HIDE DEF n, out, timer, t
<1>4. /\ IsSource(t) /\ t.out = out /\ t.highest_sent = s.highest_sent
      /\ t.established = s.established /\ t.rtx_timeout_pending = s.rtx_timeout_pending
      /\ t.has_pending_retrans = s.has_pending_retrans
      /\ t.finished = s.finished /\ t.last_acked = s.last_acked /\ t.cwnd = s.cwnd
  BY <1>1 DEF Sane, IsSource, Fields
<1>5. Numbers(t) = Numbers(s)
  BY <1>4 DEF Numbers, MayBeSent
<1>. QED BY <1>3, <1>4, <1>5 DEF Goes, Sane

LEMMA TryGoes ==
  ASSUME NEW f \in Flows, NEW s, Sane(s)
  PROVE  /\ Goes(s, TrySend(f, s))
         /\ s.highest_sent # 0 => Goes(s, TryRetransmit(s))
<1>1. CASE ~ paused
  BY <1>1, SendGoes, RetransmitGoes DEF TrySend, TryRetransmit
<1>2. CASE paused
  <2>. DEFINE yes == TRUE
              t == [s EXCEPT !.has_pending_send = yes]
              u == [s EXCEPT !.has_pending_retrans = yes]
  <2>1. TrySend(f, s) = t /\ TryRetransmit(s) = u
    BY <1>2 DEF TrySend, TryRetransmit
  <2>. HIDE DEF yes
  <2>2. Goes(s, t)
    <3>1. /\ IsSource(t) /\ t.out = s.out /\ t.highest_sent = s.highest_sent
          /\ t.established = s.established /\ t.rtx_timeout_pending = s.rtx_timeout_pending
          /\ t.has_pending_retrans = s.has_pending_retrans
          /\ t.finished = s.finished /\ t.last_acked = s.last_acked /\ t.cwnd = s.cwnd
      BY DEF Sane, IsSource, Fields
    <3>. HIDE DEF t
    <3>2. Numbers(t) = Numbers(s)
      BY <3>1 DEF Numbers, MayBeSent
    <3>. QED BY <3>1, <3>2 DEF Goes, Sane
  <2>3. ASSUME s.highest_sent # 0 PROVE Goes(s, u)
    <3>1. /\ IsSource(u) /\ u.out = s.out /\ u.highest_sent = s.highest_sent
          /\ u.established = s.established /\ u.rtx_timeout_pending = s.rtx_timeout_pending
          /\ u.finished = s.finished /\ u.last_acked = s.last_acked /\ u.cwnd = s.cwnd
      BY DEF Sane, IsSource, Fields
    <3>. HIDE DEF u
    <3>2. Numbers(u) = Numbers(s)
      BY <3>1 DEF Numbers, MayBeSent
    <3>. QED BY <2>3, <3>1, <3>2 DEF Goes, Sane
  <2>. QED BY <2>1, <2>2, <2>3
<1>. QED BY <1>1, <1>2

LEMMA StartFlowGoes ==
  ASSUME NEW f \in Flows, NEW s, Sane(s), s.highest_sent = 0
  PROVE  LET t == StartFlow(f, s) IN
         /\ Sane(t) /\ ~ t.established
         /\ t.rtx_timeout_pending = s.rtx_timeout_pending /\ t.finished = s.finished
<1>. DEFINE no == FALSE
            u == [s EXCEPT !.cwnd = MaxWindow, !.established = no]
            t == StartFlow(f, s)
<1>1. t = TrySend(f, u)
  BY DEF StartFlow
<1>2. MaxWindow \in Nat
  BY TcpAssumption
<1>. HIDE DEF no, t
<1>3. /\ IsSource(u) /\ u.out = s.out /\ u.highest_sent = 0
      /\ u.established = no /\ u.rtx_timeout_pending = s.rtx_timeout_pending
      /\ u.has_pending_retrans = s.has_pending_retrans
      /\ u.finished = s.finished /\ u.last_acked = s.last_acked /\ u.cwnd = MaxWindow
  BY DEF Sane, IsSource, Fields
<1>. HIDE DEF u
<1>4. ~ u.established /\ ~ s.established
  BY <1>3 DEF no, Sane
<1>5. Numbers(u) = Numbers(s)
  BY <1>3, <1>4 DEF Numbers, MayBeSent
<1>6. Sane(u)
  BY <1>2, <1>3, <1>4, <1>5 DEF Sane
<1>7. Goes(u, t)
  BY <1>1, <1>6, TryGoes
<1>8. Sane(t) /\ ~ t.established
      /\ t.rtx_timeout_pending = s.rtx_timeout_pending /\ t.finished = s.finished
  BY <1>3, <1>4, <1>7 DEF Goes
<1>. QED BY <1>8 DEF t

LEMMA TimeoutGoes ==
  ASSUME NEW f \in Flows, NEW s, Sane(s), s.rtx_timeout_pending
  PROVE  LET t == Timeout(s) IN
         /\ Sane(t) /\ t.highest_sent # 0 /\ s.highest_sent # 0
         /\ t.established = s.established
         /\ ~ t.rtx_timeout_pending /\ t.finished = s.finished
<1>. DEFINE no == FALSE
            top == IF s.established THEN s.last_acked + 1 ELSE s.highest_sent
            u == [s EXCEPT !.rtx_timeout_pending = no, !.cwnd = 1, !.in_fast_recovery = no,
                           !.dupacks = 0, !.recoverq = s.highest_sent, !.highest_sent = top]
            t == Timeout(s)
<1>1. t = TryRetransmit(u)
  BY DEF Timeout
<1>2. top \in Nat /\ top # 0 /\ s.highest_sent # 0 /\ (~ s.established => top = s.highest_sent)
  BY DEF Sane
<1>. HIDE DEF no, t, top
<1>3. /\ IsSource(u) /\ u.out = s.out /\ u.highest_sent = top
      /\ u.established = s.established /\ u.rtx_timeout_pending = no
      /\ u.has_pending_retrans = s.has_pending_retrans
      /\ u.finished = s.finished /\ u.last_acked = s.last_acked /\ u.cwnd = 1
  BY DEF Sane, IsSource, Fields
<1>. HIDE DEF u
<1>4. Numbers(u) = Numbers(s)
  BY <1>2, <1>3 DEF Numbers, MayBeSent
<1>5. Sane(u)
  BY <1>2, <1>3, <1>4 DEF Sane, no
<1>6. Goes(u, t)
  BY <1>1, <1>2, <1>3, <1>5, TryGoes
<1>7. t.highest_sent >= top /\ t.highest_sent \in Nat
  BY <1>3, <1>6 DEF Goes, Sane
<1>8. Sane(t) /\ t.highest_sent # 0 /\ t.established = s.established
      /\ ~ t.rtx_timeout_pending /\ t.finished = s.finished
  BY <1>2, <1>3, <1>6, <1>7 DEF Goes, no
<1>. QED BY <1>2, <1>8 DEF t

LEMMA ResumeGoes ==
  ASSUME NEW f \in Flows, NEW s, Sane(s)
  PROVE  /\ Goes(s, Resume(f, s))
         /\ s.highest_sent = 0 /\ ~ s.has_pending_send =>
              Resume(f, s).highest_sent = 0 /\ ~ Resume(f, s).has_pending_send
<1>. DEFINE s1 == IF s.has_pending_send THEN SendPackets(f, s) ELSE s
            s2 == IF s.has_pending_retrans THEN Retransmit(s1) ELSE s1
            no == FALSE
            r == Resume(f, s)
<1>1. r = [s2 EXCEPT !.has_pending_send = no, !.has_pending_retrans = no]
  BY DEF Resume
<1>2. Goes(s, s1)
  BY SendGoes DEF Goes, Sane
<1>. HIDE DEF s1
<1>3. Goes(s, s2)
  <2>1. CASE s.has_pending_retrans
    <3>1. s.highest_sent # 0 /\ s.highest_sent \in Nat
      BY <2>1 DEF Sane
    <3>2. Sane(s1) /\ s1.highest_sent # 0
      BY <1>2, <3>1 DEF Goes, Sane
    <3>3. Goes(s1, s2)
      BY <2>1, <3>2, RetransmitGoes
    <3>. HIDE DEF s2
    <3>. QED BY <1>2, <3>3, GoesTwice
  <2>2. CASE ~ s.has_pending_retrans
    BY <1>2, <2>2
  <2>. QED BY <2>1, <2>2
<1>4. ASSUME s.highest_sent = 0, ~ s.has_pending_send PROVE s2 = s
  BY <1>4 DEF Sane, s1
<1>. HIDE DEF no, s2, r
<1>5. /\ IsSource(r) /\ r.out = s2.out /\ r.highest_sent = s2.highest_sent
      /\ r.established = s2.established /\ r.rtx_timeout_pending = s2.rtx_timeout_pending
      /\ r.has_pending_retrans = no /\ r.has_pending_send = no
      /\ r.finished = s2.finished /\ r.last_acked = s2.last_acked /\ r.cwnd = s2.cwnd
  BY <1>1, <1>3 DEF Goes, Sane, IsSource, Fields
<1>6. Numbers(r) = Numbers(s2)
  BY <1>5 DEF Numbers, MayBeSent
<1>7. Sane(r)
  BY <1>3, <1>5, <1>6 DEF Goes, Sane, no
<1>8. Goes(s, r)
  BY <1>3, <1>5, <1>7 DEF Goes
<1>9. s.highest_sent = 0 /\ ~ s.has_pending_send => r.highest_sent = 0 /\ ~ r.has_pending_send
  BY <1>4, <1>5 DEF no
<1>. QED BY <1>8, <1>9 DEF r

\* An established source.
Live(t) ==
  /\ IsSource(t) /\ t.established
  /\ t.highest_sent \in Nat \ {0} /\ t.last_acked \in Nat /\ t.cwnd \in Nat
  /\ t.out \in Seq(Nat)

LEMMA LiveIsSane ==
  ASSUME NEW t
  PROVE  Live(t) <=> Sane(t) /\ t.established
<1>1. t.established /\ t.highest_sent # 0 => Numbers(t) = Nat
  BY DEF Numbers, MayBeSent
<1>. QED BY <1>1 DEF Live, Sane

\* t is s after an acknowledgement, or a part of what that brings about.
Answers(s, t) ==
  /\ Live(t)
  /\ t.rtx_timeout_pending = s.rtx_timeout_pending
  /\ s.finished => t.finished

LEMMA AnswersTwice ==
  ASSUME NEW s, NEW t, NEW u, Answers(s, t), Answers(t, u)
  PROVE  Answers(s, u)
BY DEF Answers

LEMMA TryAnswers ==
  ASSUME NEW f \in Flows, NEW s, Live(s)
  PROVE  Answers(s, TrySend(f, s)) /\ Answers(s, TryRetransmit(s))
<1>1. Sane(s) /\ s.established /\ s.highest_sent # 0
  BY LiveIsSane DEF Live
<1>2. Goes(s, TrySend(f, s)) /\ Goes(s, TryRetransmit(s))
  BY <1>1, TryGoes
<1>3. \A t : Goes(s, t) => Answers(s, t)
  <2>. TAKE t
  <2>. HAVE Goes(s, t)
  <2>. QED BY <1>1, LiveIsSane DEF Goes, Answers
<1>. QED BY <1>2, <1>3

\* An acknowledgement that is not old reaches a source that has sent something; a source
\* that is not established takes it as the one of its SYN.
LEMMA AckAnswers ==
  ASSUME NEW f \in Flows, NEW s, Sane(s), s.highest_sent # 0,
         NEW ack \in Nat, ack >= s.last_acked, NEW w \in Nat, s.established \/ ack = 1
  PROVE  LET t == ReceiveAck(f, s, ack, w) IN
         Live(t) /\ t.rtx_timeout_pending = s.rtx_timeout_pending /\ (s.finished => t.finished)
<1>. DEFINE est == s.established \/ ack = 1
            fin == s.finished \/ Complete(f, s, ack)
            s1 == [s EXCEPT !.established = est, !.cwnd = w, !.finished = fin]
            t == ReceiveAck(f, s, ack, w)
<1>0. t = CASE ack < s1.last_acked -> s
            [] ack > s1.last_acked ->
                 IF s1.in_fast_recovery /\ ack < s1.recoverq
                 THEN PartialAck(f, s1, ack) ELSE NewAck(f, s1, ack)
            [] OTHER ->
                 IF ~ s1.in_fast_recovery /\ s1.dupacks = 2
                 THEN ThirdDupAck(s1) ELSE DupAck(f, s1, s.cwnd)
  BY DEF ReceiveAck, s1
<1>1. est /\ (s.finished => fin) /\ s.cwnd \in Nat
  BY DEF Sane
<1>. HIDE DEF est, fin, t
<1>2. /\ IsSource(s1) /\ s1.out = s.out /\ s1.highest_sent = s.highest_sent
      /\ s1.established = est /\ s1.rtx_timeout_pending = s.rtx_timeout_pending
      /\ s1.finished = fin /\ s1.last_acked = s.last_acked /\ s1.cwnd = w
  BY DEF Sane, IsSource, Fields
<1>. HIDE DEF s1
<1>3. s.out \in Seq(Nat)
  <2>1. Numbers(s) \subseteq Nat
    BY DEF Numbers
  <2>. QED BY <2>1 DEF Sane
<1>4. Live(s1) /\ s1.rtx_timeout_pending = s.rtx_timeout_pending
      /\ (s.finished => s1.finished)
  BY <1>1, <1>2, <1>3 DEF Live, Sane
<1>5. Answers(s1, t)
  <2>1. CASE ack > s.last_acked
    <3>. DEFINE r == Restarted(s1, ack)
                no == FALSE
                n == [r EXCEPT !.last_acked = ack, !.dupacks = 0, !.in_fast_recovery = no]
                p == [r EXCEPT !.last_acked = ack]
    <3>1. t = PartialAck(f, s1, ack) \/ t = NewAck(f, s1, ack)
      BY <1>0, <1>2, <2>1
    <3>2. NewAck(f, s1, ack) = TrySend(f, n)
          /\ PartialAck(f, s1, ack) = TrySend(f, TryRetransmit(p))
      BY DEF NewAck, PartialAck
    <3>3. Answers(s1, r)
      <4>. DEFINE yes == TRUE
                  a == [s1 EXCEPT !.timer = no, !.highest_sent = ack]
                  b == [s1 EXCEPT !.timer = yes]
      <4>1. ack \in Nat \ {0}
        BY <2>1 DEF Sane
      <4>2. r = IF ack >= s1.highest_sent THEN a ELSE b
        BY DEF Restarted
      <4>. HIDE DEF no, yes, r
      <4>3. Answers(s1, a)
        <5>1. /\ IsSource(a) /\ a.established = s1.established /\ a.highest_sent = ack
              /\ a.last_acked = s1.last_acked /\ a.cwnd = s1.cwnd /\ a.out = s1.out
              /\ a.rtx_timeout_pending = s1.rtx_timeout_pending /\ a.finished = s1.finished
          BY <1>4 DEF Live, IsSource, Fields
        <5>. HIDE DEF a
        <5>. QED BY <1>4, <4>1, <5>1 DEF Answers, Live
      <4>4. Answers(s1, b)
        <5>1. /\ IsSource(b) /\ b.established = s1.established /\ b.highest_sent = s1.highest_sent
              /\ b.last_acked = s1.last_acked /\ b.cwnd = s1.cwnd /\ b.out = s1.out
              /\ b.rtx_timeout_pending = s1.rtx_timeout_pending /\ b.finished = s1.finished
          BY <1>4 DEF Live, IsSource, Fields
        <5>. HIDE DEF b
        <5>. QED BY <1>4, <5>1 DEF Answers, Live
      <4>. HIDE DEF a, b
      <4>. QED BY <4>2, <4>3, <4>4
    <3>. HIDE DEF r, no
    <3>4. Answers(r, n)
      <4>1. /\ IsSource(n) /\ n.established = r.established /\ n.highest_sent = r.highest_sent
            /\ n.last_acked = ack /\ n.cwnd = r.cwnd /\ n.out = r.out
            /\ n.rtx_timeout_pending = r.rtx_timeout_pending /\ n.finished = r.finished
        BY <3>3 DEF Answers, Live, IsSource, Fields
      <4>. HIDE DEF n
      <4>. QED BY <3>3, <4>1 DEF Answers, Live
    <3>5. Answers(r, p)
      <4>1. /\ IsSource(p) /\ p.established = r.established /\ p.highest_sent = r.highest_sent
            /\ p.last_acked = ack /\ p.cwnd = r.cwnd /\ p.out = r.out
            /\ p.rtx_timeout_pending = r.rtx_timeout_pending /\ p.finished = r.finished
        BY <3>3 DEF Answers, Live, IsSource, Fields
      <4>. HIDE DEF p
      <4>. QED BY <3>3, <4>1 DEF Answers, Live
    <3>. HIDE DEF n, p
    <3>6. Answers(n, TrySend(f, n))
      BY <3>4, TryAnswers DEF Answers
    <3>7. Answers(p, TryRetransmit(p))
      BY <3>5, TryAnswers DEF Answers
    <3>8. Answers(TryRetransmit(p), TrySend(f, TryRetransmit(p)))
      BY <3>7, TryAnswers DEF Answers
    <3>9. Answers(s1, TrySend(f, n))
      BY <3>3, <3>4, <3>6, AnswersTwice
    <3>10. Answers(s1, TryRetransmit(p))
      BY <3>3, <3>5, <3>7, AnswersTwice
    <3>11. Answers(s1, TrySend(f, TryRetransmit(p)))
      BY <3>8, <3>10, AnswersTwice
    <3>. QED BY <3>1, <3>2, <3>9, <3>11
  <2>2. CASE ack = s.last_acked
    <3>1. t = ThirdDupAck(s1) \/ t = DupAck(f, s1, s.cwnd)
      BY <1>0, <1>2, <2>2
    <3>2. Answers(s1, ThirdDupAck(s1))
      <4>. DEFINE third == [s1 EXCEPT !.dupacks = 3]
                  yes == TRUE
                  x == TryRetransmit(third)
                  u == [x EXCEPT !.in_fast_recovery = yes, !.recoverq = s1.highest_sent]
      <4>1. ThirdDupAck(s1) = IF s1.last_acked < s1.recoverq THEN third ELSE u
        BY DEF ThirdDupAck
      <4>. HIDE DEF yes, x
      <4>2. Answers(s1, third)
        <5>1. /\ IsSource(third) /\ third.established = s1.established
              /\ third.highest_sent = s1.highest_sent
              /\ third.last_acked = s1.last_acked /\ third.cwnd = s1.cwnd /\ third.out = s1.out
              /\ third.rtx_timeout_pending = s1.rtx_timeout_pending
              /\ third.finished = s1.finished
          BY <1>4 DEF Live, IsSource, Fields
        <5>. HIDE DEF third
        <5>. QED BY <1>4, <5>1 DEF Answers, Live
      <4>. HIDE DEF third
      <4>3. Answers(third, x)
        BY <4>2, TryAnswers DEF Answers, x
      <4>4. Answers(x, u)
        <5>1. /\ IsSource(u) /\ u.established = x.established
              /\ u.highest_sent = x.highest_sent
              /\ u.last_acked = x.last_acked /\ u.cwnd = x.cwnd /\ u.out = x.out
              /\ u.rtx_timeout_pending = x.rtx_timeout_pending
              /\ u.finished = x.finished
          BY <4>3 DEF Answers, Live, IsSource, Fields
        <5>. HIDE DEF u
        <5>. QED BY <4>3, <5>1 DEF Answers, Live
      <4>. HIDE DEF u
      <4>5. Answers(s1, u)
        BY <4>2, <4>3, <4>4, AnswersTwice
      <4>. QED BY <4>1, <4>2, <4>5
    <3>3. Answers(s1, DupAck(f, s1, s.cwnd))
      <4>. DEFINE few == Least(s1.dupacks + 1, 4)
                  wnd == Least(s1.cwnd, s.cwnd)
                  e == [s1 EXCEPT !.dupacks = few, !.cwnd = wnd]
                  d == IF s1.in_fast_recovery THEN s1 ELSE e
      <4>1. DupAck(f, s1, s.cwnd) = TrySend(f, d)
        BY DEF DupAck
      <4>2. wnd \in Nat
        BY <1>1, <1>4 DEF Live, Least
      <4>. HIDE DEF few, wnd
      <4>3. Answers(s1, e)
        <5>1. /\ IsSource(e) /\ e.established = s1.established
              /\ e.highest_sent = s1.highest_sent
              /\ e.last_acked = s1.last_acked /\ e.cwnd = wnd /\ e.out = s1.out
              /\ e.rtx_timeout_pending = s1.rtx_timeout_pending
              /\ e.finished = s1.finished
          BY <1>4 DEF Live, IsSource, Fields
        <5>. HIDE DEF e
        <5>. QED BY <1>4, <4>2, <5>1 DEF Answers, Live
      <4>. HIDE DEF e
      <4>4. Answers(s1, d)
        BY <1>4, <4>3 DEF Answers
      <4>. HIDE DEF d
      <4>5. Answers(d, TrySend(f, d))
        BY <4>4, TryAnswers DEF Answers
      <4>. QED BY <4>1, <4>4, <4>5, AnswersTwice
    <3>. QED BY <3>1, <3>2, <3>3
  <2>3. ack > s.last_acked \/ ack = s.last_acked
    BY DEF Sane
  <2>. QED BY <2>1, <2>2, <2>3
<1>6. Live(t) /\ t.rtx_timeout_pending = s.rtx_timeout_pending /\ (s.finished => t.finished)
  BY <1>4, <1>5 DEF Answers
<1>. QED BY <1>6 DEF t

\* The first segment at a sink that has none is acknowledged.
LEMMA FirstSegment ==
  ASSUME NEW k, k.cumulative_ack = 0, k.received = {}
  PROVE  Received(k, 1).cumulative_ack = 1
<1>. DEFINE all == k.received \cup {1}
            run(n) == (1..n) \subseteq all /\ n + 1 \notin all
<1>1. all = {1} /\ Cardinality(all) = 1
  BY FS_Singleton
<1>2. 1 = k.cumulative_ack + 1
  OBVIOUS
<1>3. Received(k, 1).cumulative_ack = CHOOSE n \in 1..(1 + Cardinality(all)) : run(n)
  BY <1>2 DEF Received
<1>4. \A n \in 1..2 : run(n) <=> n = 1
  <2>1. run(1)
    BY <1>1
  <2>2. ~ run(2)
    <3>1. 2 \in 1..2 /\ 2 \notin all
      BY <1>1
    <3>. QED BY <3>1
  <2>. HIDE DEF run
  <2>. QED BY <2>1, <2>2
<1>5. 1 + Cardinality(all) = 2
  BY <1>1
<1>. HIDE DEF run, all
<1>6. (CHOOSE n \in 1..2 : run(n)) = 1
  BY <1>4
<1>. QED BY <1>3, <1>5, <1>6

-----------------------------------------------------------------------------
(* The entries of a sequence.                                              *)

LEMMA AppendSet ==
  ASSUME NEW S, NEW q \in Seq(S), NEW x \in S
  PROVE  ToSet(Append(q, x)) = ToSet(q) \cup {x}
<1>1. /\ Len(q) \in Nat /\ DOMAIN q = 1..Len(q)
      /\ Len(Append(q, x)) = Len(q) + 1 /\ DOMAIN Append(q, x) = 1..Len(q) + 1
      /\ \A i \in 1..Len(q) : Append(q, x)[i] = q[i]
      /\ Append(q, x)[Len(q) + 1] = x
  OBVIOUS
<1>2. \A i \in 1..Len(q) + 1 : i \in 1..Len(q) \/ i = Len(q) + 1
  BY <1>1
<1>3. 1..Len(q) \subseteq 1..Len(q) + 1 /\ Len(q) + 1 \in 1..Len(q) + 1
  BY <1>1
<1>. QED BY <1>1, <1>2, <1>3 DEF ToSet

-----------------------------------------------------------------------------
(* Packets in queues.                                                      *)

Paths == Seq(Links) \ {<<>>}

\* The packets that the sources ss may have in the network.
Packets(ss) ==
  {p \in [flow : Flows, seq : Nat, path : Paths] : MayBeSent(ss[p.flow], p.seq)}

LEMMA RouteIsPath ==
  ASSUME NEW r \in Routes
  PROVE  r \in Paths /\ r[1] \in Links /\ r # <<>>
<1>1. PICK n \in 1..Cardinality(Links) : r \in [1..n -> Links]
  BY DEF Routes
<1>2. n \in Nat /\ n # 0
  <2>1. Cardinality(Links) \in Nat
    BY TcpAssumption, FS_CardinalityType
  <2>. QED BY <2>1
<1>3. r \in Seq(Links) /\ Len(r) = n
  BY <1>1, <1>2
<1>. QED BY <1>1, <1>2, <1>3 DEF Paths

LEMMA EnqueuedType ==
  ASSUME NEW S, NEW q \in Seq(S), NEW packets \in Seq(S)
  PROVE  Enqueued(q, packets) \in Seq(S)
<1>. DEFINE all == q \o packets
            m == Least(Len(all), Most(Len(q), Capacity))
<1>1. all \in Seq(S) /\ Len(all) \in Nat /\ Len(q) \in Nat
  BY ConcatProperties
<1>2. m \in Nat /\ m <= Len(all)
  <2>. HIDE DEF all
  <2>. QED BY <1>1, TcpAssumption DEF Least, Most
<1>3. \A i \in 1..m : all[i] \in S
  <2>. HIDE DEF m, all
  <2>. QED BY <1>1, <1>2
<1>4. SubSeq(all, 1, m) \in Seq(S)
  <2>. HIDE DEF m, all
  <2>. QED BY <1>1, <1>2, <1>3, SubSeqProperties
<1>. QED BY <1>4 DEF Enqueued

\* The queues hold packets of S before and after a source sends packets of S.
LEMMA SentOnType ==
  ASSUME NEW S, NEW qs \in [Links -> Seq(S)], NEW f \in Flows, NEW s, NEW N,
         s.out \in Seq(N), s.out = <<>> \/ route[f] \in Routes,
         \A n \in N : [flow |-> f, seq |-> n, path |-> route[f]] \in S
  PROVE  SentOn(qs, f, s) \in [Links -> Seq(S)]
<1>1. CASE s.out = <<>>
  BY <1>1 DEF SentOn
<1>2. CASE s.out # <<>>
  <2>. DEFINE l == route[f][1]
              ps == PacketsOf(f, s)
  <2>1. l \in Links
    BY <1>2, RouteIsPath
  <2>2. ps \in Seq(S)
    <3>1. DOMAIN s.out = 1..Len(s.out) /\ Len(s.out) \in Nat /\ \A i \in 1..Len(s.out) : s.out[i] \in N
      OBVIOUS
    <3>2. ps = [i \in 1..Len(s.out) |-> [flow |-> f, seq |-> s.out[i], path |-> route[f]]]
      BY <3>1 DEF PacketsOf
    <3>3. \A i \in 1..Len(s.out) : [flow |-> f, seq |-> s.out[i], path |-> route[f]] \in S
      BY <3>1
    <3>. QED BY <3>1, <3>2, <3>3
  <2>3. SentOn(qs, f, s) = [qs EXCEPT ![l] = Enqueued(qs[l], ps)]
    BY <1>2 DEF SentOn
  <2>. HIDE DEF l, ps
  <2>4. Enqueued(qs[l], ps) \in Seq(S)
    BY <2>1, <2>2, EnqueuedType
  <2>. QED BY <2>1, <2>3, <2>4
<1>. QED BY <1>1, <1>2

\* So do all sources that resume, one after the other.
LEMMA SentByAllType ==
  ASSUME NEW S, queue \in [Links -> Seq(S)], tcps \in Seq(Flows),
         \A f \in ToSet(tcps) :
           \A qs \in [Links -> Seq(S)] : SentOn(qs, f, Resume(f, src[f])) \in [Links -> Seq(S)]
  PROVE  SentByAll \in [Links -> Seq(S)]
<1>. DEFINE n == Len(tcps)
            D == [Links -> Seq(S)]
            after(i, qs) == SentOn(qs, tcps[i], Resume(tcps[i], src[tcps[i]]))
            step == [i \in 1..n |-> [qs \in D |-> after(i, qs)]]
            Goal(h) == h = [i \in 0..n |-> IF i = 0 THEN queue ELSE after(i, h[i - 1])]
            sent == CHOOSE h : Goal(h)
<1>1. n \in Nat /\ \A i \in 1..n : tcps[i] \in ToSet(tcps)
  BY DEF ToSet
<1>2. \A i \in 1..n : \A qs \in D : after(i, qs) \in D
  BY <1>1
<1>3. SentByAll = sent[n]
  BY DEF SentByAll
<1>. HIDE DEF after, D, n
<1>4. step \in [1..n -> [D -> D]]
  BY <1>2
<1>5. PICK g \in [0..n -> D] : g[0] = queue /\ \A i \in 1..n : g[i] = step[i][g[i - 1]]
  <2>1. queue \in D
    BY DEF D
  <2>2. RunsOf(D, queue, n, step) # {}
    <3>. HIDE DEF step
    <3>. QED BY <1>1, <1>4, <2>1, RecursionExists
  <2>. QED BY <2>2 DEF RunsOf
<1>6. \A i \in 1..n : g[i] = after(i, g[i - 1])
  <2>. TAKE i \in 1..n
  <2>1. i - 1 \in 0..n
    BY <1>1
  <2>. QED BY <1>5, <2>1
<1>7. Goal(g)
  BY <1>1, <1>5, <1>6
<1>8. Goal(sent)
  <2>. HIDE DEF Goal
  <2>. QED BY <1>7
<1>. HIDE DEF sent
<1>13. sent[0] = queue /\ \A i \in 1..n : sent[i] = after(i, sent[i - 1])
  BY <1>1, <1>8
<1>. HIDE DEF Goal
<1>. DEFINE T == {i \in Nat : i <= n => sent[i] \in D}
<1>9. 0 \in T
  BY <1>13 DEF D
<1>10. \A i \in Nat : i \in T => i + 1 \in T
  <2>. SUFFICES ASSUME NEW i \in Nat, i \in T, i + 1 <= n PROVE sent[i + 1] \in D
    OBVIOUS
  <2>1. i + 1 \in 0..n /\ i + 1 # 0 /\ i + 1 - 1 = i /\ i + 1 \in 1..n /\ sent[i] \in D
    BY <1>1
  <2>2. sent[i + 1] = after(i + 1, sent[i])
    <3>1. sent[i + 1] = after(i + 1, sent[i + 1 - 1])
      BY <1>13, <2>1
    <3>. QED BY <2>1, <3>1
  <2>. QED BY <1>2, <2>1, <2>2
<1>11. n \in T
  <2>. HIDE DEF T
  <2>. QED BY <1>1, <1>9, <1>10, NatInductionOnSets
<1>12. sent[n] \in D
  BY <1>1, <1>11
<1>. QED BY <1>3, <1>12 DEF D

\* Going through the scanner's flows keeps the unfinished ones, and no other.
LEMMA UnfinishedFlows ==
  ASSUME tcps \in Seq(Flows), NEW ss
  PROVE  /\ Unfinished(ss) \in Seq(Flows)
         /\ ToSet(Unfinished(ss)) = {f \in ToSet(tcps) : ~ ss[f].finished}
<1>. DEFINE n == Len(tcps)
            D == Seq(Flows)
            after(i, q) == IF ss[tcps[i]].finished THEN q ELSE Append(q, tcps[i])
            step == [i \in 1..n |-> [q \in D |-> after(i, q)]]
            Goal(h) == h = [i \in 0..n |-> IF i = 0 THEN <<>> ELSE
                                           IF ss[tcps[i]].finished THEN h[i - 1]
                                           ELSE Append(h[i - 1], tcps[i])]
            kept == CHOOSE h : Goal(h)
<1>1. n \in Nat /\ \A i \in 1..n : tcps[i] \in Flows
  OBVIOUS
<1>2. \A i \in 1..n : \A q \in D : after(i, q) \in D
  BY <1>1
<1>3. Unfinished(ss) = kept[n]
  BY DEF Unfinished
<1>4. ToSet(tcps) = {tcps[i] : i \in 1..n}
  BY DEF ToSet
<1>5. PICK g \in [0..n -> D] : g[0] = <<>> /\ \A i \in 1..n : g[i] = step[i][g[i - 1]]
  <2>. HIDE DEF after, n
  <2>1. <<>> \in D
    OBVIOUS
  <2>. HIDE DEF D
  <2>2. step \in [1..n -> [D -> D]]
    BY <1>2
  <2>3. RunsOf(D, <<>>, n, step) # {}
    <3>. HIDE DEF step
    <3>. QED BY <1>1, <2>1, <2>2, RecursionExists
  <2>. QED BY <2>3 DEF RunsOf
<1>. HIDE DEF n, D
<1>6. \A i \in 1..n : g[i] = after(i, g[i - 1])
  <2>. TAKE i \in 1..n
  <2>1. i - 1 \in 0..n
    BY <1>1
  <2>. HIDE DEF after
  <2>. QED BY <1>5, <2>1
<1>7. Goal(g)
  <2>. DEFINE v(h, i) == IF i = 0 THEN <<>> ELSE
                         IF ss[tcps[i]].finished THEN h[i - 1] ELSE Append(h[i - 1], tcps[i])
  <2>1. \A i \in 0..n : g[i] = v(g, i)
    <3>. TAKE i \in 0..n
    <3>1. CASE i = 0
      BY <1>5, <3>1
    <3>2. CASE i # 0
      <4>1. i \in 1..n
        BY <1>1, <3>2
      <4>2. g[i] = after(i, g[i - 1])
        BY <1>6, <4>1
      <4>. QED BY <3>2, <4>2
    <3>. QED BY <3>1, <3>2
  <2>. DEFINE k == [i \in 0..n |-> v(g, i)]
  <2>2. g = k
    <3>. HIDE DEF v
    <3>. QED BY <1>5, <2>1
  <2>. QED BY <2>2
<1>8. Goal(kept)
  <2>. HIDE DEF Goal
  <2>. QED BY <1>7
<1>. HIDE DEF kept
<1>14. kept[0] = <<>> /\ \A i \in 1..n : kept[i] = after(i, kept[i - 1])
  <2>1. kept[0] = <<>>
    BY <1>1, <1>8
  <2>2. ASSUME NEW i \in 1..n PROVE kept[i] = after(i, kept[i - 1])
    <3>1. i \in 0..n /\ i # 0
      BY <1>1
    <3>. QED BY <1>8, <3>1
  <2>. QED BY <2>1, <2>2
<1>. HIDE DEF Goal
<1>. DEFINE T == {i \in Nat : i <= n =>
                    /\ kept[i] \in D
                    /\ ToSet(kept[i]) = {f \in Flows : \E j \in 1..i : f = tcps[j] /\ ~ ss[f].finished}}
<1>9. 0 \in T
  <2>1. ToSet(<<>>) = {}
    BY DEF ToSet
  <2>2. {f \in Flows : \E j \in 1..0 : f = tcps[j] /\ ~ ss[f].finished} = {}
    OBVIOUS
  <2>3. kept[0] \in D
    BY <1>14 DEF D
  <2>. QED BY <1>14, <2>1, <2>2, <2>3
<1>10. \A i \in Nat : i \in T => i + 1 \in T
  <2>. SUFFICES ASSUME NEW i \in Nat, i \in T, i + 1 <= n
                PROVE  /\ kept[i + 1] \in D
                       /\ ToSet(kept[i + 1]) =
                            {f \in Flows : \E j \in 1..i + 1 : f = tcps[j] /\ ~ ss[f].finished}
    OBVIOUS
  <2>1. i + 1 \in 0..n /\ i + 1 # 0 /\ i + 1 - 1 = i /\ i + 1 \in 1..n
        /\ kept[i] \in Seq(Flows)
        /\ ToSet(kept[i]) = {f \in Flows : \E j \in 1..i : f = tcps[j] /\ ~ ss[f].finished}
    BY <1>1 DEF D
  <2>2. kept[i + 1] = IF ss[tcps[i + 1]].finished THEN kept[i] ELSE Append(kept[i], tcps[i + 1])
    <3>1. kept[i + 1] = after(i + 1, kept[i + 1 - 1])
      <4>. HIDE DEF after
      <4>. QED BY <1>14, <2>1
    <3>. QED BY <2>1, <3>1
  <2>3. \A j \in 1..i + 1 : j \in 1..i \/ j = i + 1
    OBVIOUS
  <2>4. 1..i \subseteq 1..i + 1 /\ i + 1 \in 1..i + 1 /\ tcps[i + 1] \in Flows
    BY <1>1, <2>1
  <2>5. CASE ss[tcps[i + 1]].finished
    BY <2>1, <2>2, <2>3, <2>4, <2>5 DEF D
  <2>6. CASE ~ ss[tcps[i + 1]].finished
    <3>1. kept[i + 1] \in Seq(Flows)
      BY <2>1, <2>2, <2>4, <2>6
    <3>2. ToSet(kept[i + 1]) = ToSet(kept[i]) \cup {tcps[i + 1]}
      <4>. DEFINE q == kept[i]
                  x == tcps[i + 1]
      <4>. HIDE DEF q, x
      <4>1. q \in Seq(Flows) /\ x \in Flows /\ kept[i + 1] = Append(q, x)
        BY <2>1, <2>2, <2>4, <2>6 DEF q, x
      <4>2. ToSet(Append(q, x)) = ToSet(q) \cup {x}
        BY <4>1, AppendSet
      <4>. QED BY <4>1, <4>2 DEF q, x
    <3>. QED BY <2>1, <2>3, <2>4, <2>6, <3>1, <3>2 DEF D
  <2>. QED BY <2>5, <2>6
<1>11. n \in T
  <2>. HIDE DEF T
  <2>. QED BY <1>1, <1>9, <1>10, NatInductionOnSets
<1>12. kept[n] \in D
       /\ ToSet(kept[n]) = {f \in Flows : \E j \in 1..n : f = tcps[j] /\ ~ ss[f].finished}
  BY <1>1, <1>11
<1>13. {f \in Flows : \E j \in 1..n : f = tcps[j] /\ ~ ss[f].finished}
       = {f \in ToSet(tcps) : ~ ss[f].finished}
  BY <1>1, <1>4
<1>. QED BY <1>3, <1>12, <1>13 DEF D

-----------------------------------------------------------------------------
(* The invariant.                                                          *)

\* A source whose event starts it has not sent; the sink of one that is not
\* established has nothing.
FlowInv(s, n, k) ==
  /\ Sane(s)
  /\ n \in {0, 1}
  /\ n = 1 /\ ~ s.rtx_timeout_pending => s.highest_sent = 0 /\ ~ s.has_pending_send
  /\ ~ s.established => k.received = {}

FlowsInv == \A f \in Flows : FlowInv(src[f], events[f], sink[f])

NetInv == queue \in [Links -> Seq(Packets(src))] /\ pipe \in [Links -> Seq(Packets(src))]

\* A flow has a route from the time it connects; the scanner forgets only flows
\* that have no event.
Unconnected(f) ==
  f \notin ToSet(tcps) /\ src[f].highest_sent = 0 /\ ~ src[f].has_pending_send

RouteInv ==
  /\ topo \in Topologies
  /\ tcps \in Seq(Flows)
  /\ route \in [Flows -> Routes \cup {<<>>}]
  /\ events \in [Flows -> {0, 1}]
  /\ \A f \in Flows : (f \notin ToSet(tcps) => events[f] = 0) /\ (route[f] = <<>> => Unconnected(f))

FInv == FlowsInv /\ NetInv /\ RouteInv /\ RoutesFollowTopology

\* The handler has ended.
Clean(t) == [t EXCEPT !.out = <<>>]

LEMMA CleanFacts ==
  ASSUME NEW t, Sane(t)
  PROVE  /\ Sane(Clean(t)) /\ Numbers(Clean(t)) = Numbers(t)
         /\ Clean(t).established = t.established /\ Clean(t).highest_sent = t.highest_sent
         /\ Clean(t).rtx_timeout_pending = t.rtx_timeout_pending
         /\ Clean(t).has_pending_send = t.has_pending_send
         /\ Clean(t).finished = t.finished
<1>. DEFINE u == Clean(t)
<1>1. /\ IsSource(u) /\ u.out = <<>> /\ u.highest_sent = t.highest_sent
      /\ u.established = t.established /\ u.rtx_timeout_pending = t.rtx_timeout_pending
      /\ u.has_pending_retrans = t.has_pending_retrans /\ u.has_pending_send = t.has_pending_send
      /\ u.finished = t.finished /\ u.last_acked = t.last_acked /\ u.cwnd = t.cwnd
  BY DEF Clean, Sane, IsSource, Fields
<1>. HIDE DEF u
<1>2. Numbers(u) = Numbers(t)
  BY <1>1 DEF Numbers, MayBeSent
<1>3. Sane(u)
  BY <1>1, <1>2 DEF Sane
<1>. QED BY <1>1, <1>2, <1>3 DEF u

LEMMA SeqGrows ==
  ASSUME NEW S, NEW T, S \subseteq T
  PROVE  [Links -> Seq(S)] \subseteq [Links -> Seq(T)]
<1>1. Seq(S) \subseteq Seq(T)
  OBVIOUS
<1>. QED BY <1>1

\* What may be in the network may still be when sources have sent more.
LEMMA NetGrows ==
  ASSUME NEW ss, NEW tt, \A f \in Flows : Numbers(ss[f]) \subseteq Numbers(tt[f])
  PROVE  /\ Packets(ss) \subseteq Packets(tt)
         /\ [Links -> Seq(Packets(ss))] \subseteq [Links -> Seq(Packets(tt))]
<1>1. ASSUME NEW p \in Packets(ss) PROVE p \in Packets(tt)
  <2>1. p \in [flow : Flows, seq : Nat, path : Paths] /\ MayBeSent(ss[p.flow], p.seq)
        /\ p.flow \in Flows /\ p.seq \in Nat
    BY DEF Packets
  <2>2. p.seq \in Numbers(ss[p.flow])
    BY <2>1 DEF Numbers
  <2>3. p.seq \in Numbers(tt[p.flow])
    BY <2>1, <2>2
  <2>4. MayBeSent(tt[p.flow], p.seq)
    BY <2>3 DEF Numbers
  <2>. QED BY <2>1, <2>4 DEF Packets
<1>2. Packets(ss) \subseteq Packets(tt)
  BY <1>1
<1>. QED BY <1>2, SeqGrows

LEMMA SentIsAllowed ==
  ASSUME NEW f \in Flows, NEW t, NEW tt, route[f] \in Routes, Numbers(t) \subseteq Numbers(tt[f])
  PROVE  \A n \in Numbers(t) : [flow |-> f, seq |-> n, path |-> route[f]] \in Packets(tt)
<1>. TAKE n \in Numbers(t)
<1>. DEFINE p == [flow |-> f, seq |-> n, path |-> route[f]]
<1>1. route[f] \in Paths
  BY RouteIsPath
<1>2. n \in Nat /\ MayBeSent(tt[f], n)
  BY DEF Numbers
<1>3. p \in [flow : Flows, seq : Nat, path : Paths] /\ p.flow = f /\ p.seq = n
  BY <1>1, <1>2
<1>. HIDE DEF p
<1>4. p \in Packets(tt)
  BY <1>2, <1>3 DEF Packets
<1>. QED BY <1>4 DEF p

\* The end of a handler of source f in state t.
LEMMA EndsType ==
  ASSUME FlowsAreExact, NetInv, NEW f \in Flows, NEW t, Sane(t), Ends(f, t, queue),
         route[f] \in Routes, Numbers(src[f]) \subseteq Numbers(t)
  PROVE  /\ queue' \in [Links -> Seq(Packets(src'))]
         /\ pipe \in [Links -> Seq(Packets(src'))]
         /\ src'[f] = Clean(t)
         /\ \A g \in Flows : g # f => src'[g] = src[g]
<1>1. src' = [src EXCEPT ![f] = Clean(t)] /\ queue' = SentOn(queue, f, t)
  BY DEF Ends, Clean
<1>2. \A g \in Flows : src'[g] = IF g = f THEN Clean(t) ELSE src[g]
  BY <1>1 DEF FlowsAreExact
<1>3. \A g \in Flows : Numbers(src[g]) \subseteq Numbers(src'[g])
  <2>. TAKE g \in Flows
  <2>1. CASE g = f
    BY <1>2, <2>1, CleanFacts
  <2>2. CASE g # f
    BY <1>2, <2>2
  <2>. QED BY <2>1, <2>2
<1>. DEFINE S == Packets(src')
<1>4. queue \in [Links -> Seq(S)] /\ pipe \in [Links -> Seq(S)]
  BY <1>3, NetGrows DEF NetInv
<1>5. \A n \in Numbers(t) : [flow |-> f, seq |-> n, path |-> route[f]] \in S
  BY <1>2, CleanFacts, SentIsAllowed
<1>. HIDE DEF S
<1>6. SentOn(queue, f, t) \in [Links -> Seq(S)]
  <2>1. t.out \in Seq(Numbers(t))
    BY DEF Sane
  <2>. QED BY <1>4, <1>5, <2>1, SentOnType
<1>7. queue' \in [Links -> Seq(S)]
  BY <1>1, <1>6
<1>. QED BY <1>2, <1>4, <1>7 DEF S

LEMMA InitFlows == Init => FInv
<1>. SUFFICES ASSUME Init PROVE FInv
  OBVIOUS
<1>1. /\ src = [f \in Flows |-> NewSrc]
      /\ sink = [f \in Flows |-> [cumulative_ack |-> 0, received |-> {}]]
      /\ events = [f \in Flows |-> 0] /\ tcps = <<>> /\ route = [f \in Flows |-> <<>>]
      /\ queue = [l \in Links |-> <<>>] /\ pipe = [l \in Links |-> <<>>] /\ topo \in Topologies
  BY DEF Init, TcpInit
<1>2. /\ IsSource(NewSrc) /\ NewSrc.highest_sent = 0 /\ NewSrc.last_acked = 0
      /\ NewSrc.cwnd \in Nat /\ ~ NewSrc.established /\ ~ NewSrc.rtx_timeout_pending
      /\ ~ NewSrc.has_pending_retrans /\ ~ NewSrc.has_pending_send /\ NewSrc.out = <<>>
  BY TcpAssumption DEF NewSrc, IsSource, Fields
<1>3. Sane(NewSrc)
  BY <1>2 DEF Sane
<1>4. FlowsInv
  BY <1>1, <1>2, <1>3 DEF FlowsInv, FlowInv
<1>5. NetInv
  BY <1>1 DEF NetInv
<1>6. ToSet(tcps) = {}
  BY <1>1 DEF ToSet
<1>7. RouteInv
  BY <1>1, <1>2, <1>6 DEF RouteInv, Unconnected
<1>. QED BY <1>4, <1>5, <1>6, <1>7 DEF FInv, RoutesFollowTopology

\* The scheduler forgets finished flows with their events, and gives every other a
\* route of the topology it installs; if it does nothing, finished flows stay finished.
LEMMA RewiringInv ==
  ASSUME RouteInv, RoutesFollowTopology, NEW n, NEW d,
         DoReconf(n, d) \/ UNCHANGED <<tcps, events, topo, route>>,
         \A f \in Flows : src[f].finished => src'[f].finished,
         \A f \in Flows : route[f] = <<>> =>
            src'[f].highest_sent = 0 /\ ~ src'[f].has_pending_send
  PROVE  /\ RouteInv' /\ RoutesFollowTopology'
         /\ \A f \in Flows : events'[f] = 1 => events[f] = 1
<1>1. CASE UNCHANGED <<tcps, events, topo, route>>
  <2>1. ToSet(tcps) \subseteq Flows
    BY DEF RouteInv, ToSet
  <2>. QED BY <1>1, <2>1 DEF RouteInv, RoutesFollowTopology, Unconnected
<1>2. CASE DoReconf(n, TRUE)
  <2>1. /\ tcps' = Unfinished(src') /\ events' = EventsCancelled(src') /\ topo' \in Topologies
        /\ \E r \in [Flows -> RoutesIn(topo')] :
            /\ \A f \in RoutedFlows' : r[f] \in topo'[f]
            /\ route' = [f \in Flows |-> IF f \in RoutedFlows' THEN r[f] ELSE route[f]]
    BY <1>2 DEF DoReconf
  <2>2. PICK r \in [Flows -> RoutesIn(topo')] :
            /\ \A f \in ToSet(tcps') : r[f] \in topo'[f]
            /\ route' = [f \in Flows |-> IF f \in ToSet(tcps') THEN r[f] ELSE route[f]]
    BY <2>1 DEF RoutedFlows
  <2>3. /\ tcps' \in Seq(Flows)
        /\ ToSet(tcps') = {f \in ToSet(tcps) : ~ src'[f].finished}
    BY <2>1, UnfinishedFlows DEF RouteInv
  <2>4. ToSet(tcps) \subseteq Flows
    BY DEF RouteInv, ToSet
  <2>5. \A f \in Flows : topo'[f] \subseteq Routes
    BY <2>1, TopologyAssumption
  <2>6. \A f \in ToSet(tcps') : f \in Flows /\ route'[f] \in topo'[f] /\ route'[f] \in Routes
    BY <2>2, <2>3, <2>4, <2>5
  <2>7. \A f \in Flows : f \notin ToSet(tcps') => route'[f] = route[f]
    BY <2>2
  <2>8. \A f \in Flows : route'[f] \in Routes \cup {<<>>}
    BY <2>6, <2>7 DEF RouteInv
  <2>9. events' = [f \in Flows |-> IF f \in ToSet(tcps) /\ src'[f].finished
                                   THEN Most(events[f] - 1, 0) ELSE events[f]]
    BY <2>1 DEF EventsCancelled
  <2>10. \A f \in Flows : Most(events[f] - 1, 0) = 0
    BY DEF RouteInv, Most
  <2>11. \A f \in Flows : events'[f] = IF f \in ToSet(tcps) /\ src'[f].finished THEN 0 ELSE events[f]
    BY <2>9, <2>10
  <2>12. events' \in [Flows -> {0, 1}]
    BY <2>9, <2>11 DEF RouteInv
  <2>13. \A f \in Flows : f \notin ToSet(tcps') => events'[f] = 0
    BY <2>3, <2>11 DEF RouteInv
  <2>14. \A f \in Flows : route'[f] = <<>> => Unconnected(f)'
    <3>. SUFFICES ASSUME NEW f \in Flows, route'[f] = <<>> PROVE Unconnected(f)'
      OBVIOUS
    <3>1. f \notin ToSet(tcps')
      BY <2>6, RouteIsPath
    <3>2. route[f] = <<>>
      BY <2>7, <3>1
    <3>. QED BY <3>1, <3>2 DEF Unconnected
  <2>15. route' \in [Flows -> Routes \cup {<<>>}]
    <3>. DEFINE U == ToSet(tcps')
                h(f) == IF f \in U THEN r[f] ELSE route[f]
    <3>. HIDE DEF h
    <3>1. route' = [f \in Flows |-> h(f)]
      BY <2>2 DEF h
    <3>. QED BY <2>8, <3>1
  <2>16. RouteInv'
    BY <2>1, <2>3, <2>12, <2>13, <2>14, <2>15 DEF RouteInv
  <2>17. RoutesFollowTopology'
    BY <2>6 DEF RoutesFollowTopology
  <2>. QED BY <2>11, <2>16, <2>17
<1>3. CASE DoReconf(n, FALSE)
  BY <1>1, <1>3 DEF DoReconf
<1>4. DoReconf(n, d) => DoReconf(n, TRUE) \/ DoReconf(n, FALSE)
  BY DEF DoReconf
<1>. QED BY <1>1, <1>2, <1>3, <1>4

LEMMA ConnectKeeps ==
  ASSUME IInv, FInv, NEW f \in Flows, ConnectFlow(f)
  PROVE  FInv'
<1>1. PICK r \in topo[f] : Connect(f, r)
  BY DEF ConnectFlow
<1>2. /\ route[f] = <<>> /\ route' = [route EXCEPT ![f] = r] /\ tcps' = Append(tcps, f)
      /\ events' = [events EXCEPT ![f] = @ + 1]
      /\ UNCHANGED <<src, sink, queue, pipe, topo>>
  BY <1>1 DEF Connect, ConnectFlow, netVars, schedVars
<1>3. r \in Routes /\ r # <<>>
  <2>1. topo[f] \subseteq Routes
    BY TopologyAssumption DEF FInv, RouteInv
  <2>. QED BY <2>1, RouteIsPath
<1>4. Unconnected(f) /\ events[f] = 0
  BY <1>2 DEF FInv, RouteInv, Unconnected
<1>5. tcps' \in Seq(Flows) /\ ToSet(tcps') = ToSet(tcps) \cup {f}
  BY <1>2, AppendSet DEF FInv, RouteInv
<1>6. events' \in [Flows -> {0, 1}]
      /\ \A g \in Flows : events'[g] = IF g = f THEN 1 ELSE events[g]
  BY <1>2, <1>4 DEF FInv, RouteInv
<1>7. route' \in [Flows -> Routes \cup {<<>>}]
      /\ \A g \in Flows : route'[g] = IF g = f THEN r ELSE route[g]
  BY <1>2, <1>3 DEF FInv, RouteInv
<1>8. FlowsInv'
  BY <1>2, <1>4, <1>6 DEF FInv, FlowsInv, FlowInv, Unconnected
<1>9. NetInv'
  BY <1>2 DEF FInv, NetInv
<1>10. RouteInv'
  BY <1>2, <1>3, <1>5, <1>6, <1>7 DEF FInv, RouteInv, Unconnected
<1>11. RoutesFollowTopology'
  <2>1. ToSet(tcps) \subseteq Flows
    BY DEF FInv, RouteInv, ToSet
  <2>. QED BY <1>2, <1>5, <1>7, <2>1 DEF FInv, RoutesFollowTopology
<1>. QED BY <1>8, <1>9, <1>10, <1>11 DEF FInv

\* A flow that has an event is connected, and has a route.
LEMMA RouteOf ==
  ASSUME FInv, NEW f \in Flows, events[f] # 0 \/ src[f].highest_sent # 0 \/ f \in ToSet(tcps)
  PROVE  route[f] \in Routes
BY DEF FInv, RouteInv, Unconnected

LEMMA RunSourceKeeps ==
  ASSUME IInv, FInv, NEW f \in Flows, RunSource(f)
  PROVE  FInv'
<1>. DEFINE s == src[f]
            t == IF s.rtx_timeout_pending THEN Timeout(s) ELSE StartFlow(f, s)
<1>1. /\ events[f] = 1 /\ events' = [events EXCEPT ![f] = @ - 1]
      /\ Ends(f, t, queue)
      /\ UNCHANGED <<sink, tcps, pipe, route, topo>>
  BY DEF RunSource, SrcEvent, schedVars, FInv, RouteInv
<1>2. FlowInv(s, 1, sink[f])
  BY <1>1 DEF FInv, FlowsInv
<1>3. /\ Sane(t) /\ ~ t.rtx_timeout_pending /\ t.finished = s.finished
      /\ (t.established => s.established) /\ (s.highest_sent # 0 => t.established = s.established)
  <2>1. CASE s.rtx_timeout_pending
    <3>. HIDE DEF s
    <3>1. Sane(s)
      BY <1>2 DEF FlowInv
    <3>. QED BY <2>1, <3>1, TimeoutGoes
  <2>2. CASE ~ s.rtx_timeout_pending
    <3>. HIDE DEF s
    <3>1. Sane(s) /\ s.highest_sent = 0
      BY <1>2, <2>2 DEF FlowInv
    <3>. QED BY <2>2, <3>1, StartFlowGoes
  <2>. QED BY <2>1, <2>2
<1>4. Numbers(s) \subseteq Numbers(t)
  <2>1. CASE s.rtx_timeout_pending
    <3>. HIDE DEF s
    <3>1. Sane(s)
      BY <1>2 DEF FlowInv
    <3>2. t.highest_sent # 0 /\ t.established = s.established /\ s.highest_sent # 0
      BY <2>1, <3>1, TimeoutGoes
    <3>. HIDE DEF t
    <3>. QED BY <3>2 DEF Numbers, MayBeSent
  <2>2. CASE ~ s.rtx_timeout_pending
    <3>. HIDE DEF t
    <3>1. s.highest_sent = 0
      BY <1>2, <2>2 DEF FlowInv
    <3>. QED BY <3>1 DEF Numbers, MayBeSent
  <2>. QED BY <2>1, <2>2
<1>. HIDE DEF t
<1>5. route[f] \in Routes
  BY <1>1, RouteOf
<1>6. /\ queue' \in [Links -> Seq(Packets(src'))]
      /\ pipe \in [Links -> Seq(Packets(src'))]
      /\ src'[f] = Clean(t)
      /\ \A g \in Flows : g # f => src'[g] = src[g]
  BY <1>1, <1>3, <1>4, <1>5, EndsType DEF IInv, FInv
<1>7. events' \in [Flows -> {0, 1}]
      /\ \A g \in Flows : events'[g] = IF g = f THEN 0 ELSE events[g]
  BY <1>1 DEF FInv, RouteInv
<1>8. /\ Sane(Clean(t)) /\ (Clean(t).established = t.established)
      /\ Clean(t).finished = t.finished
  BY <1>3, CleanFacts
<1>9. FlowInv(Clean(t), 0, sink[f])
  <2>1. ~ t.established => sink[f].received = {}
    <3>1. CASE s.highest_sent # 0
      BY <1>2, <1>3, <3>1 DEF FlowInv
    <3>2. CASE s.highest_sent = 0
      BY <1>2, <3>2 DEF FlowInv, Sane
    <3>. QED BY <3>1, <3>2
  <2>. QED BY <1>8, <2>1 DEF FlowInv
<1>10. FlowsInv'
  <2>. SUFFICES ASSUME NEW g \in Flows PROVE FlowInv(src'[g], events'[g], sink'[g])
    BY DEF FlowsInv
  <2>1. CASE g = f
    BY <1>1, <1>6, <1>7, <1>9, <2>1
  <2>2. CASE g # f
    BY <1>1, <1>6, <1>7, <2>2 DEF FInv, FlowsInv
  <2>. QED BY <2>1, <2>2
<1>11. NetInv'
  BY <1>1, <1>6 DEF NetInv
<1>12. RouteInv'
  <2>1. route[f] # <<>>
    BY <1>5, RouteIsPath
  <2>. QED BY <1>1, <1>6, <1>7, <2>1 DEF FInv, RouteInv, Unconnected
<1>13. RoutesFollowTopology'
  <2>1. ToSet(tcps) \subseteq Flows
    BY DEF FInv, RouteInv, ToSet
  <2>2. \A g \in Flows : src'[g].finished = src[g].finished
    BY <1>3, <1>6, <1>8
  <2>. QED BY <1>1, <2>1, <2>2 DEF FInv, RoutesFollowTopology
<1>. QED BY <1>10, <1>11, <1>12, <1>13 DEF FInv

LEMMA ScanKeeps ==
  ASSUME IInv, FInv, NEW expired \in SUBSET Expirable, ScanTimers(expired)
  PROVE  FInv'
<1>1. /\ tcps' = Unfinished(src)
      /\ src' = [f \in Flows |-> IF f \in Timed(expired)
                                 THEN [src[f] EXCEPT !.rtx_timeout_pending = TRUE] ELSE src[f]]
      /\ events' = [f \in Flows |-> IF f \in Timed(expired) THEN events[f] + 1
                                    ELSE EventsCancelled(src)[f]]
      /\ UNCHANGED <<sink, queue, pipe, route, topo>>
  BY DEF ScanTimers, Scan, netVars, schedVars
<1>2. ToSet(tcps) \subseteq Flows
  BY DEF FInv, RouteInv, ToSet
<1>3. /\ tcps' \in Seq(Flows)
      /\ ToSet(tcps') = {f \in ToSet(tcps) : ~ src[f].finished}
  BY <1>1, UnfinishedFlows DEF FInv, RouteInv
<1>4. \A f \in Timed(expired) : /\ f \in ToSet(tcps) /\ f \in Flows
                                /\ src[f].highest_sent # 0 /\ ~ src[f].finished
                                /\ ~ src[f].rtx_timeout_pending
  BY <1>2 DEF Timed, Expirable
<1>5. \A f \in Timed(expired) : events[f] = 0
  BY <1>4 DEF FInv, FlowsInv, FlowInv
<1>6. \A f \in Flows : EventsCancelled(src)[f] =
         IF f \in ToSet(tcps) /\ src[f].finished THEN 0 ELSE events[f]
  <2>1. \A f \in Flows : Most(events[f] - 1, 0) = 0
    BY DEF FInv, RouteInv, Most
  <2>. QED BY <2>1 DEF EventsCancelled
<1>7. \A f \in Flows : events'[f] = IF f \in Timed(expired) THEN 1
                                    ELSE IF f \in ToSet(tcps) /\ src[f].finished THEN 0 ELSE events[f]
  BY <1>1, <1>5, <1>6
<1>8. events' \in [Flows -> {0, 1}]
  BY <1>1, <1>7 DEF FInv, RouteInv
<1>9. \A f \in Flows : f \notin Timed(expired) => src'[f] = src[f]
  BY <1>1
<1>10. \A f \in Timed(expired) :
         /\ Sane(src'[f]) /\ src'[f].rtx_timeout_pending /\ Numbers(src'[f]) = Numbers(src[f])
         /\ src'[f].established = src[f].established /\ src'[f].finished = src[f].finished
         /\ src'[f].highest_sent = src[f].highest_sent
  <2>. TAKE f \in Timed(expired)
  <2>. DEFINE s == src[f]
              yes == TRUE
              u == [s EXCEPT !.rtx_timeout_pending = yes]
  <2>1. src'[f] = u
    BY <1>1, <1>4
  <2>2. Sane(s) /\ s.highest_sent # 0
    BY <1>4 DEF FInv, FlowsInv, FlowInv
  <2>. HIDE DEF yes, s
  <2>3. /\ IsSource(u) /\ u.out = s.out /\ u.highest_sent = s.highest_sent
        /\ u.established = s.established /\ u.rtx_timeout_pending = yes
        /\ u.has_pending_retrans = s.has_pending_retrans
        /\ u.finished = s.finished /\ u.last_acked = s.last_acked /\ u.cwnd = s.cwnd
    BY <2>2 DEF Sane, IsSource, Fields
  <2>. HIDE DEF u
  <2>4. Numbers(u) = Numbers(s)
    BY <2>3 DEF Numbers, MayBeSent
  <2>5. Sane(u)
    BY <2>2, <2>3, <2>4 DEF Sane
  <2>. QED BY <2>1, <2>3, <2>4, <2>5 DEF s, yes
<1>11. FlowsInv'
  <2>. SUFFICES ASSUME NEW f \in Flows PROVE FlowInv(src'[f], events'[f], sink[f])
    BY <1>1 DEF FlowsInv
  <2>0. FlowInv(src[f], events[f], sink[f])
    BY DEF FInv, FlowsInv
  <2>1. CASE f \in Timed(expired)
    BY <1>7, <1>10, <2>0, <2>1 DEF FlowInv
  <2>2. CASE f \notin Timed(expired)
    BY <1>7, <1>9, <2>0, <2>2 DEF FlowInv
  <2>. QED BY <2>1, <2>2
<1>12. NetInv'
  <2>1. \A f \in Flows : Numbers(src[f]) \subseteq Numbers(src'[f])
    BY <1>9, <1>10
  <2>. QED BY <1>1, <2>1, NetGrows DEF FInv, NetInv
<1>13. RouteInv'
  <2>1. \A f \in Flows : f \notin ToSet(tcps') => events'[f] = 0
    BY <1>3, <1>4, <1>7 DEF FInv, RouteInv
  <2>2. \A f \in Flows : route[f] = <<>> => Unconnected(f)'
    <3>. SUFFICES ASSUME NEW f \in Flows, route[f] = <<>> PROVE Unconnected(f)'
      OBVIOUS
    <3>1. Unconnected(f)
      BY DEF FInv, RouteInv
    <3>2. f \notin Timed(expired) /\ f \notin ToSet(tcps')
      BY <1>3, <1>4, <3>1 DEF Unconnected
    <3>. QED BY <1>9, <3>1, <3>2 DEF Unconnected
  <2>. QED BY <1>1, <1>3, <1>8, <2>1, <2>2 DEF FInv, RouteInv
<1>14. RoutesFollowTopology'
  BY <1>1, <1>2, <1>3, <1>9, <1>10 DEF FInv, RoutesFollowTopology
<1>. QED BY <1>11, <1>12, <1>13, <1>14 DEF FInv

LEMMA StartReconfKeeps ==
  ASSUME IInv, FInv, StartReconf
  PROVE  FInv'
<1>1. UNCHANGED <<src, sink, queue, pipe>> /\ DoReconf(scheduled - 1, NothingToWaitFor)
  BY DEF StartReconf, netVars
<1>2. \A f \in Flows : route[f] = <<>> => src'[f].highest_sent = 0 /\ ~ src'[f].has_pending_send
  BY <1>1 DEF FInv, RouteInv, Unconnected
<1>3. /\ RouteInv' /\ RoutesFollowTopology'
      /\ \A f \in Flows : events'[f] = 1 => events[f] = 1
  BY <1>1, <1>2, RewiringInv DEF FInv
<1>4. FlowsInv'
  <2>1. \A f \in Flows : events'[f] \in {0, 1}
    BY <1>3 DEF RouteInv
  <2>. QED BY <1>1, <1>3, <2>1 DEF FInv, FlowsInv, FlowInv
<1>5. NetInv'
  BY <1>1 DEF FInv, NetInv
<1>. QED BY <1>3, <1>4, <1>5 DEF FInv

LEMMA FinishReconfKeeps ==
  ASSUME IInv, FInv, FinishReconf
  PROVE  FInv'
<1>1. /\ src' = [f \in Flows |-> IF f \in ToSet(tcps)
                                 THEN [Resume(f, src[f]) EXCEPT !.out = <<>>] ELSE src[f]]
      /\ queue' = SentByAll
      /\ UNCHANGED <<sink, events, tcps, pipe, route, topo>>
  BY DEF FinishReconf
<1>2. ToSet(tcps) \subseteq Flows
  BY DEF FInv, RouteInv, ToSet
<1>3. \A f \in ToSet(tcps) : src'[f] = Clean(Resume(f, src[f]))
  BY <1>1, <1>2 DEF Clean
<1>4. \A f \in Flows : f \notin ToSet(tcps) => src'[f] = src[f]
  BY <1>1
<1>5. \A f \in ToSet(tcps) :
        /\ Goes(src[f], Resume(f, src[f]))
        /\ src[f].highest_sent = 0 /\ ~ src[f].has_pending_send =>
             Resume(f, src[f]).highest_sent = 0 /\ ~ Resume(f, src[f]).has_pending_send
  <2>. TAKE f \in ToSet(tcps)
  <2>1. f \in Flows /\ Sane(src[f])
    BY <1>2 DEF FInv, FlowsInv, FlowInv
  <2>. QED BY <2>1, ResumeGoes
<1>6. \A f \in ToSet(tcps) :
        /\ Sane(src'[f])
        /\ Numbers(Resume(f, src[f])) = Numbers(src'[f]) /\ Numbers(src[f]) \subseteq Numbers(src'[f])
        /\ src'[f].established = src[f].established
        /\ src'[f].rtx_timeout_pending = src[f].rtx_timeout_pending
        /\ src'[f].finished = src[f].finished
        /\ src[f].highest_sent = 0 /\ ~ src[f].has_pending_send =>
             src'[f].highest_sent = 0 /\ ~ src'[f].has_pending_send
  <2>. TAKE f \in ToSet(tcps)
  <2>. DEFINE s == src[f]
              r == Resume(f, s)
              u == src'[f]
  <2>1. Sane(s)
    BY <1>2 DEF FInv, FlowsInv, FlowInv
  <2>2. /\ Goes(s, r) /\ u = Clean(r)
        /\ s.highest_sent = 0 /\ ~ s.has_pending_send => r.highest_sent = 0 /\ ~ r.has_pending_send
    BY <1>3, <1>5
  <2>. HIDE DEF s, r, u
  <2>3. Sane(u) /\ Numbers(u) = Numbers(r)
        /\ u.established = r.established /\ u.highest_sent = r.highest_sent
        /\ u.rtx_timeout_pending = r.rtx_timeout_pending
        /\ u.has_pending_send = r.has_pending_send /\ u.finished = r.finished
    BY <2>2, CleanFacts DEF Goes
  <2>4. Numbers(s) \subseteq Numbers(r)
    <3>1. s.highest_sent # 0 => r.highest_sent # 0
      BY <2>1, <2>2 DEF Goes, Sane
    <3>2. r.established = s.established
      BY <2>2 DEF Goes
    <3>. QED BY <3>1, <3>2 DEF Numbers, MayBeSent
  <2>5. /\ Sane(u)
        /\ Numbers(r) = Numbers(u) /\ Numbers(s) \subseteq Numbers(u)
        /\ u.established = s.established
        /\ u.rtx_timeout_pending = s.rtx_timeout_pending
        /\ u.finished = s.finished
        /\ s.highest_sent = 0 /\ ~ s.has_pending_send => u.highest_sent = 0 /\ ~ u.has_pending_send
    BY <2>2, <2>3, <2>4 DEF Goes
  <2>. QED BY <2>5 DEF s, r, u
<1>7. FlowsInv'
  <2>. SUFFICES ASSUME NEW f \in Flows PROVE FlowInv(src'[f], events[f], sink[f])
    BY <1>1 DEF FlowsInv
  <2>0. FlowInv(src[f], events[f], sink[f])
    BY DEF FInv, FlowsInv
  <2>1. CASE f \in ToSet(tcps)
    BY <1>6, <2>0, <2>1 DEF FlowInv
  <2>2. CASE f \notin ToSet(tcps)
    BY <1>4, <2>0, <2>2
  <2>. QED BY <2>1, <2>2
<1>8. NetInv'
  <2>. DEFINE S == Packets(src')
  <2>1. \A f \in Flows : Numbers(src[f]) \subseteq Numbers(src'[f])
    BY <1>4, <1>6
  <2>2. queue \in [Links -> Seq(S)] /\ pipe \in [Links -> Seq(S)]
    BY <2>1, NetGrows DEF FInv, NetInv
  <2>3. ASSUME NEW f \in ToSet(tcps), NEW qs \in [Links -> Seq(S)]
        PROVE  SentOn(qs, f, Resume(f, src[f])) \in [Links -> Seq(S)]
    <3>. DEFINE r == Resume(f, src[f])
    <3>1. f \in Flows /\ route[f] \in Routes
      BY <1>2, RouteOf
    <3>2. Sane(r) /\ Numbers(r) \subseteq Numbers(src'[f])
      BY <1>5, <1>6 DEF Goes
    <3>. HIDE DEF r
    <3>3. \A n \in Numbers(r) : [flow |-> f, seq |-> n, path |-> route[f]] \in S
      BY <3>1, <3>2, SentIsAllowed
    <3>4. r.out \in Seq(Numbers(r))
      BY <3>2 DEF Sane
    <3>. HIDE DEF S
    <3>5. SentOn(qs, f, r) \in [Links -> Seq(S)]
      BY <3>1, <3>3, <3>4, SentOnType
    <3>. QED BY <3>5 DEF r
  <2>. HIDE DEF S
  <2>4. tcps \in Seq(Flows)
    BY DEF FInv, RouteInv
  <2>5. SentByAll \in [Links -> Seq(S)]
    BY <2>2, <2>3, <2>4, SentByAllType
  <2>6. queue' \in [Links -> Seq(S)] /\ pipe' \in [Links -> Seq(S)]
    BY <1>1, <2>2, <2>5
  <2>. QED BY <2>6 DEF NetInv, S
<1>9. RouteInv'
  BY <1>1, <1>4, <1>6 DEF FInv, RouteInv, Unconnected
<1>10. RoutesFollowTopology'
  BY <1>1, <1>2, <1>6 DEF FInv, RoutesFollowTopology
<1>. QED BY <1>7, <1>8, <1>9, <1>10 DEF FInv

\* A packet that leaves its place in a pipe or a queue.
LEMMA HeadOfType ==
  ASSUME NEW S, NEW q \in Seq(S), q # <<>>
  PROVE  Head(q) \in S /\ Tail(q) \in Seq(S) /\ Len(q) \in Nat \ {0} /\ Len(Tail(q)) = Len(q) - 1
OBVIOUS

LEMMA ServeKeeps ==
  ASSUME FInv, NEW l \in Links, CompleteService(l)
  PROVE  NetInv'
<1>. DEFINE S == Packets(src)
<1>1. /\ queue[l] # <<>> /\ queue' = [queue EXCEPT ![l] = Tail(@)]
      /\ pipe' = [pipe EXCEPT ![l] = Append(@, Head(queue[l]))] /\ src' = src
  BY DEF CompleteService
<1>2. queue \in [Links -> Seq(S)] /\ pipe \in [Links -> Seq(S)]
  BY DEF FInv, NetInv
<1>. HIDE DEF S
<1>3. Head(queue[l]) \in S /\ Tail(queue[l]) \in Seq(S)
  BY <1>1, <1>2, HeadOfType
<1>4. queue' \in [Links -> Seq(S)] /\ pipe' \in [Links -> Seq(S)]
  BY <1>1, <1>2, <1>3
<1>. QED BY <1>1, <1>4 DEF NetInv, S

LEMMA ForwardedPacket ==
  ASSUME NEW ss, NEW p \in Packets(ss), Len(p.path) > 1
  PROVE  [p EXCEPT !.path = Tail(@)] \in Packets(ss) /\ p.path[2] \in Links
<1>. DEFINE path == p.path
            on == [p EXCEPT !.path = Tail(path)]
<1>1. p \in [flow : Flows, seq : Nat, path : Paths] /\ MayBeSent(ss[p.flow], p.seq)
  BY DEF Packets
<1>2. path \in Seq(Links)
  BY <1>1 DEF Paths
<1>3. Tail(path) \in Paths /\ path[2] \in Links
  <2>. HIDE DEF path
  <2>1. Len(path) \in Nat /\ Len(path) > 1
    BY <1>2 DEF path
  <2>2. Tail(path) \in Seq(Links) /\ Len(Tail(path)) = Len(path) - 1 /\ path[2] \in Links
    BY <1>2, <2>1
  <2>3. Tail(path) # <<>>
    <3>. DEFINE rest == Tail(path)
    <3>. HIDE DEF rest
    <3>1. Len(rest) # 0
      BY <2>1, <2>2 DEF rest
    <3>2. rest # <<>>
      BY <3>1
    <3>. QED BY <3>2 DEF rest
  <2>. QED BY <2>2, <2>3 DEF Paths
<1>. HIDE DEF path
<1>4. on \in [flow : Flows, seq : Nat, path : Paths] /\ on.flow = p.flow /\ on.seq = p.seq
  BY <1>1, <1>3
<1>5. on = [p EXCEPT !.path = Tail(@)]
  BY DEF path
<1>. HIDE DEF on
<1>6. on \in Packets(ss)
  BY <1>1, <1>4 DEF Packets
<1>. QED BY <1>3, <1>5, <1>6 DEF path

LEMMA ForwardKeeps ==
  ASSUME FInv, NEW l \in Links, PipeForward(l)
  PROVE  NetInv'
<1>. DEFINE S == Packets(src)
            p == Head(pipe[l])
            m == p.path[2]
            on == [p EXCEPT !.path = Tail(@)]
<1>1. /\ pipe[l] # <<>> /\ Len(p.path) > 1
      /\ queue' = [queue EXCEPT ![m] = Enqueued(@, <<on>>)]
      /\ pipe' = [pipe EXCEPT ![l] = Tail(@)] /\ src' = src
  BY DEF PipeForward
<1>2. queue \in [Links -> Seq(S)] /\ pipe \in [Links -> Seq(S)]
  BY DEF FInv, NetInv
<1>3. p \in S /\ Tail(pipe[l]) \in Seq(S)
  <2>. HIDE DEF S
  <2>. QED BY <1>1, <1>2, HeadOfType
<1>4. on \in S /\ m \in Links
  <2>. HIDE DEF p
  <2>. QED BY <1>1, <1>3, ForwardedPacket
<1>. HIDE DEF S, p, m, on
<1>5. Enqueued(queue[m], <<on>>) \in Seq(S)
  <2>1. queue[m] \in Seq(S) /\ <<on>> \in Seq(S)
    BY <1>2, <1>4
  <2>. QED BY <2>1, EnqueuedType
<1>6. queue' \in [Links -> Seq(S)] /\ pipe' \in [Links -> Seq(S)]
  BY <1>1, <1>2, <1>3, <1>4, <1>5
<1>. QED BY <1>1, <1>6 DEF NetInv, S

\* What a delivery does to the source, the sink and the network.
LEMMA DeliverKeeps ==
  ASSUME IInv, FInv, NEW l \in Links, PipeDeliver(l)
  PROVE  /\ NetInv'
         /\ \E f \in Flows :
              /\ Sane(src'[f]) /\ src'[f].established /\ src[f].highest_sent # 0
              /\ src'[f].rtx_timeout_pending = src[f].rtx_timeout_pending
              /\ src[f].finished => src'[f].finished
              /\ \A g \in Flows : g # f => src'[g] = src[g] /\ sink'[g] = sink[g]
<1>. DEFINE p == Head(pipe[l])
            f == p.flow
            s == src[f]
            k == sink[f]
            ack == Received(k, p.seq).cumulative_ack
<1>1. /\ pipe[l] # <<>> /\ pipe' = [pipe EXCEPT ![l] = Tail(@)]
      /\ sink' = [sink EXCEPT ![f] = Received(@, p.seq)]
  BY DEF PipeDeliver
<1>2. PICK w \in 1..MaxWindow : Ends(f, ReceiveAck(f, s, sink'[f].cumulative_ack, w), queue)
  BY DEF PipeDeliver
<1>3. p \in Packets(src) /\ Tail(pipe[l]) \in Seq(Packets(src))
  <2>1. pipe[l] \in Seq(Packets(src))
    BY DEF FInv, NetInv
  <2>. QED BY <1>1, <2>1, HeadOfType
<1>4. f \in Flows /\ p.seq \in Nat /\ s.highest_sent # 0 /\ (~ s.established => p.seq = 1)
  BY <1>3 DEF Packets, MayBeSent
<1>5. FlowInv(s, events[f], k) /\ FlowIsExact(f, s, k)
  BY <1>4 DEF IInv, FlowsAreExact, FInv, FlowsInv
<1>6. sink'[f] = Received(k, p.seq) /\ \A g \in Flows : g # f => sink'[g] = sink[g]
  BY <1>1, <1>4 DEF IInv, FlowsAreExact
<1>. HIDE DEF s, k, f, p
<1>7. ack \in Nat /\ ack >= s.last_acked
  BY <1>4, <1>5, ReceivedFacts DEF FlowIsExact, SinkOK
<1>8. s.established \/ ack = 1
  <2>. SUFFICES ASSUME ~ s.established PROVE ack = 1
    OBVIOUS
  <2>1. k.cumulative_ack = 0 /\ k.received = {} /\ p.seq = 1
    BY <1>4, <1>5 DEF FlowInv, FlowIsExact, Sane
  <2>. QED BY <2>1, FirstSegment
<1>. DEFINE t == ReceiveAck(f, s, ack, w)
<1>9. Ends(f, t, queue)
  BY <1>2, <1>6
<1>10. w \in Nat /\ Sane(s)
  BY <1>5, TcpAssumption DEF FlowInv
<1>. HIDE DEF ack
<1>11. Live(t) /\ t.rtx_timeout_pending = s.rtx_timeout_pending /\ (s.finished => t.finished)
  BY <1>4, <1>7, <1>8, <1>10, AckAnswers
<1>. HIDE DEF t
<1>12. Sane(t) /\ t.established /\ t.highest_sent # 0
  BY <1>11, LiveIsSane DEF Live
<1>13. Numbers(src[f]) \subseteq Numbers(t)
  BY <1>12 DEF Numbers, MayBeSent
<1>14. route[f] \in Routes
  BY <1>4, RouteOf DEF s
<1>15. /\ queue' \in [Links -> Seq(Packets(src'))]
       /\ pipe \in [Links -> Seq(Packets(src'))]
       /\ src'[f] = Clean(t)
       /\ \A g \in Flows : g # f => src'[g] = src[g]
  BY <1>4, <1>9, <1>12, <1>13, <1>14, EndsType DEF IInv, FInv
<1>16. pipe' \in [Links -> Seq(Packets(src'))]
  <2>. DEFINE S == Packets(src')
  <2>. HIDE DEF S
  <2>1. pipe \in [Links -> Seq(S)]
    BY <1>15 DEF S
  <2>2. Tail(pipe[l]) \in Seq(S)
    BY <1>1, <2>1, HeadOfType
  <2>3. pipe' \in [Links -> Seq(S)]
    BY <1>1, <2>1, <2>2
  <2>. QED BY <2>3 DEF S
<1>17. /\ Sane(src'[f]) /\ src'[f].established
       /\ src'[f].rtx_timeout_pending = s.rtx_timeout_pending
       /\ s.finished => src'[f].finished
  BY <1>11, <1>12, <1>15, CleanFacts
<1>18. NetInv'
  BY <1>15, <1>16 DEF NetInv
<1>19. /\ Sane(src'[f]) /\ src'[f].established /\ src[f].highest_sent # 0
       /\ src'[f].rtx_timeout_pending = src[f].rtx_timeout_pending
       /\ src[f].finished => src'[f].finished
       /\ \A g \in Flows : g # f => src'[g] = src[g] /\ sink'[g] = sink[g]
  BY <1>4, <1>6, <1>15, <1>17 DEF s
<1>. QED BY <1>4, <1>18, <1>19

LEMMA PacketKeeps ==
  ASSUME IInv, FInv, NEW l \in Links, Packet(l)
  PROVE  FInv'
<1>1. DoReconf(scheduled, Drained') \/ UNCHANGED <<tcps, events, topo, route>>
  BY DEF Packet
<1>2. CASE UNCHANGED <<src, sink>> /\ NetInv'
  <2>1. \A f \in Flows : route[f] = <<>> => src'[f].highest_sent = 0 /\ ~ src'[f].has_pending_send
    BY <1>2 DEF FInv, RouteInv, Unconnected
  <2>2. /\ RouteInv' /\ RoutesFollowTopology'
        /\ \A f \in Flows : events'[f] = 1 => events[f] = 1
    BY <1>1, <1>2, <2>1, RewiringInv DEF FInv
  <2>3. \A f \in Flows : events'[f] \in {0, 1}
    BY <2>2 DEF RouteInv
  <2>4. FlowsInv'
    BY <1>2, <2>2, <2>3 DEF FInv, FlowsInv, FlowInv
  <2>. QED BY <1>2, <2>2, <2>4 DEF FInv
<1>3. CASE PipeDeliver(l)
  <2>1. NetInv'
    BY <1>3, DeliverKeeps
  <2>2. PICK f \in Flows :
          /\ Sane(src'[f]) /\ src'[f].established /\ src[f].highest_sent # 0
          /\ src'[f].rtx_timeout_pending = src[f].rtx_timeout_pending
          /\ src[f].finished => src'[f].finished
          /\ \A g \in Flows : g # f => src'[g] = src[g] /\ sink'[g] = sink[g]
    BY <1>3, DeliverKeeps
  <2>3. \A g \in Flows : route[g] = <<>> => src'[g].highest_sent = 0 /\ ~ src'[g].has_pending_send
    BY <2>2 DEF FInv, RouteInv, Unconnected
  <2>4. \A g \in Flows : src[g].finished => src'[g].finished
    BY <2>2
  <2>5. /\ RouteInv' /\ RoutesFollowTopology'
        /\ \A g \in Flows : events'[g] = 1 => events[g] = 1
    BY <1>1, <2>3, <2>4, RewiringInv DEF FInv
  <2>6. \A g \in Flows : events'[g] \in {0, 1}
    BY <2>5 DEF RouteInv
  <2>7. FlowsInv'
    <3>. SUFFICES ASSUME NEW g \in Flows PROVE FlowInv(src'[g], events'[g], sink'[g])
      BY DEF FlowsInv
    <3>0. FlowInv(src[g], events[g], sink[g])
      BY DEF FInv, FlowsInv
    <3>1. CASE g = f
      BY <2>2, <2>5, <2>6, <3>0, <3>1 DEF FlowInv
    <3>2. CASE g # f
      BY <2>2, <2>5, <2>6, <3>0, <3>2 DEF FlowInv
    <3>. QED BY <3>1, <3>2
  <2>. QED BY <2>1, <2>5, <2>7 DEF FInv
<1>4. CompleteService(l) \/ PipeForward(l) \/ PipeDeliver(l)
  BY DEF Packet, PacketEvent
<1>5. CompleteService(l) => UNCHANGED <<src, sink>> /\ NetInv'
  BY ServeKeeps DEF CompleteService
<1>6. PipeForward(l) => UNCHANGED <<src, sink>> /\ NetInv'
  BY ForwardKeeps DEF PipeForward
<1>. QED BY <1>2, <1>3, <1>4, <1>5, <1>6

\* Every step preserves the invariant.
LEMMA NextKeeps ==
  ASSUME IInv, FInv, [Next]_vars
  PROVE  FInv'
<1>1. ASSUME NEW f \in Flows, ConnectFlow(f) PROVE FInv'
  BY <1>1, ConnectKeeps
<1>2. ASSUME NEW f \in Flows, RunSource(f) PROVE FInv'
  BY <1>2, RunSourceKeeps
<1>3. ASSUME NEW expired \in SUBSET Expirable, ScanTimers(expired) PROVE FInv'
  BY <1>3, ScanKeeps
<1>4. ASSUME NEW l \in Links, Packet(l) PROVE FInv'
  BY <1>4, PacketKeeps
<1>5. ASSUME StartReconf PROVE FInv'
  BY <1>5, StartReconfKeeps
<1>6. ASSUME FinishReconf PROVE FInv'
  BY <1>6, FinishReconfKeeps
<1>7. ASSUME UNCHANGED vars PROVE FInv'
  BY <1>7 DEF vars, tcpVars, flowVars, netVars, schedVars, FInv, FlowsInv, NetInv, RouteInv,
              Unconnected, RoutesFollowTopology
<1>. QED BY <1>1, <1>2, <1>3, <1>4, <1>5, <1>6, <1>7 DEF Next

\* The flows and their packets satisfy the invariant at all times.
THEOREM FlowsInductive == Spec => []FInv
<1>1. IInv /\ FInv /\ [Next]_vars => FInv'
  BY NextKeeps
<1>. QED BY <1>1, InitFlows, Inductive, PTL DEF Spec

\* A source has at most one event: one that starts it before it has sent anything, or
\* one that retransmits; the scanner forgets no flow that has one.
THEOREM EventsAreSingle == Spec => []OneEventPerSource
<1>1. FInv => OneEventPerSource
  BY DEF FInv, FlowsInv, FlowInv, RouteInv, OneEventPerSource
<1>. QED BY <1>1, FlowsInductive, PTL

\* Data never overtakes the SYN, and a source that is not established retransmits
\* nothing else.
THEOREM SynIsFirst == Spec => []SynFirst
<1>1. ASSUME FInv PROVE SynFirst
  <2>1. \A p \in Network : p \in Packets(src)
    <3>. DEFINE S == Packets(src)
    <3>. HIDE DEF S
    <3>1. queue \in [Links -> Seq(S)] /\ pipe \in [Links -> Seq(S)]
      BY <1>1 DEF FInv, NetInv, S
    <3>2. \A l \in Links : ToSet(queue[l]) \subseteq S /\ ToSet(pipe[l]) \subseteq S
      BY <3>1 DEF ToSet
    <3>. QED BY <3>2 DEF Network, S
  <2>2. \A p \in Network : MayBeSent(src[p.flow], p.seq)
    BY <2>1 DEF Packets
  <2>. QED BY <1>1, <2>2 DEF FInv, FlowsInv, FlowInv, Sane, MayBeSent, SynFirst
<1>. QED BY <1>1, FlowsInductive, PTL

\* A flow that is not finished has a route of the topology that is installed.
THEOREM RoutesAreOfTopology == Spec => []RoutesFollowTopology
<1>1. FInv => RoutesFollowTopology
  BY DEF FInv
<1>. QED BY <1>1, FlowsInductive, PTL

-----------------------------------------------------------------------------
(* Nothing is sent while the flows are paused.                             *)

LEMMA PlacesAreFinite ==
  ASSUME NEW S, queue \in [Links -> Seq(S)], pipe \in [Links -> Seq(S)]
  PROVE  IsFiniteSet(Places)
<1>1. ASSUME NEW q \in [Links -> Seq(S)]
      PROVE  IsFiniteSet(UNION {{l} \X DOMAIN q[l] : l \in Links})
  <2>. DEFINE f == [l \in Links |-> {l} \X DOMAIN q[l]]
  <2>1. IsFiniteSet({f[l] : l \in Links})
    <3>. DEFINE T == {f[l] : l \in Links}
    <3>1. f \in Surjection(Links, T)
      BY Fun_IsSurj
    <3>. HIDE DEF f, T
    <3>2. IsFiniteSet(T)
      BY <3>1, TcpAssumption, FS_Surjection
    <3>. QED BY <3>2 DEF T
  <2>2. \A l \in Links : IsFiniteSet(f[l])
    <3>. TAKE l \in Links
    <3>1. DOMAIN q[l] = 1..Len(q[l]) /\ Len(q[l]) \in Nat
      OBVIOUS
    <3>2. IsFiniteSet(1..Len(q[l]))
      BY <3>1, FS_Interval
    <3>3. IsFiniteSet({l} \X DOMAIN q[l])
      BY <3>1, <3>2, FS_Singleton, FS_Product
    <3>. QED BY <3>3
  <2>3. IsFiniteSet(UNION {f[l] : l \in Links})
    <3>. HIDE DEF f
    <3>. QED BY <2>1, <2>2, FS_UNION
  <2>4. {f[l] : l \in Links} = {{l} \X DOMAIN q[l] : l \in Links}
    OBVIOUS
  <2>. QED BY <2>3, <2>4
<1>2. IsFiniteSet({"queue"}) /\ IsFiniteSet({"pipe"})
  BY FS_Singleton
<1>. DEFINE Q == UNION {{l} \X DOMAIN queue[l] : l \in Links}
            P == UNION {{l} \X DOMAIN pipe[l] : l \in Links}
<1>3. IsFiniteSet(Q) /\ IsFiniteSet(P)
  BY <1>1
<1>. HIDE DEF Q, P
<1>4. IsFiniteSet({"queue"} \X Q) /\ IsFiniteSet({"pipe"} \X P)
  BY <1>2, <1>3, FS_Product
<1>5. IsFiniteSet(({"queue"} \X Q) \cup ({"pipe"} \X P))
  BY <1>4, FS_Union
<1>. QED BY <1>5 DEF Places, Q, P

\* One place less and at most one place more.
LEMMA OneForOne ==
  ASSUME NEW P, IsFiniteSet(P), NEW a \in P, NEW b, NEW Q, Q \subseteq (P \ {a}) \cup {b}
  PROVE  Cardinality(Q) <= Cardinality(P)
<1>. DEFINE R == P \ {a}
<1>1. IsFiniteSet(R) /\ Cardinality(R) = Cardinality(P) - 1 /\ Cardinality(P) \in Nat
  BY FS_RemoveElement, FS_CardinalityType
<1>. HIDE DEF R
<1>. DEFINE U == R \cup {b}
<1>2. IsFiniteSet(U) /\ Cardinality(U) <= Cardinality(R) + 1 /\ Cardinality(U) \in Nat
  <2>1. Cardinality(R) \in Nat
    BY <1>1, FS_CardinalityType
  <2>2. IsFiniteSet(U) /\ Cardinality(U) = IF b \in R THEN Cardinality(R) ELSE Cardinality(R) + 1
    BY <1>1, FS_AddElement
  <2>. HIDE DEF U
  <2>. QED BY <2>1, <2>2
<1>3. Q \in SUBSET U
  BY DEF R
<1>. HIDE DEF U
<1>4. Cardinality(Q) <= Cardinality(U) /\ Cardinality(Q) \in Nat
  BY <1>2, <1>3, FS_Subset, FS_CardinalityType
<1>. QED BY <1>1, <1>2, <1>4

\* How a packet moves: from the last place of the queue or pipe that gets shorter to the
\* one after the last of the other, or to none.
LEMMA OneMoves ==
  ASSUME NEW S, queue \in [Links -> Seq(S)], pipe \in [Links -> Seq(S)],
         NEW T, queue' \in [Links -> Seq(T)], pipe' \in [Links -> Seq(T)],
         NEW l \in Links, NEW m \in Links,
         \A k \in Links : k # l /\ k # m => queue'[k] = queue[k] /\ pipe'[k] = pipe[k],
         \/ /\ queue[l] # <<>> /\ l = m
            /\ Len(queue'[l]) <= Len(queue[l]) - 1 /\ Len(pipe'[l]) <= Len(pipe[l]) + 1
         \/ /\ pipe[l] # <<>>
            /\ Len(pipe'[l]) <= Len(pipe[l]) - 1
            /\ Len(queue'[m]) <= Len(queue[m]) + 1
            /\ \A k \in Links : (k # l => pipe'[k] = pipe[k]) /\ (k # m => queue'[k] = queue[k])
  PROVE  InNetwork' <= InNetwork
<1>1. \A k \in Links : /\ Len(queue[k]) \in Nat /\ DOMAIN queue[k] = 1..Len(queue[k])
                       /\ Len(pipe[k]) \in Nat /\ DOMAIN pipe[k] = 1..Len(pipe[k])
                       /\ Len(queue'[k]) \in Nat /\ DOMAIN queue'[k] = 1..Len(queue'[k])
                       /\ Len(pipe'[k]) \in Nat /\ DOMAIN pipe'[k] = 1..Len(pipe'[k])
  OBVIOUS
<1>. DEFINE place(w, k, i) == <<w, <<k, i>>>>
<1>2. \A x \in Places' : \E k \in Links :
        \/ \E i \in 1..Len(queue'[k]) : x = place("queue", k, i)
        \/ \E i \in 1..Len(pipe'[k]) : x = place("pipe", k, i)
  BY <1>1 DEF Places
<1>3. \A k \in Links : /\ \A i \in 1..Len(queue[k]) : place("queue", k, i) \in Places
                       /\ \A i \in 1..Len(pipe[k]) : place("pipe", k, i) \in Places
  BY <1>1 DEF Places
<1>4. \A w, k, i, v, j, h : place(w, k, i) = place(v, j, h) => w = v /\ k = j /\ i = h
  OBVIOUS
<1>5. IsFiniteSet(Places)
  BY PlacesAreFinite
<1>6. CASE /\ queue[l] # <<>> /\ l = m
           /\ Len(queue'[l]) <= Len(queue[l]) - 1 /\ Len(pipe'[l]) <= Len(pipe[l]) + 1
  <2>. DEFINE a == place("queue", l, Len(queue[l]))
              b == place("pipe", l, Len(pipe[l]) + 1)
  <2>1. a \in Places
    <3>1. Len(queue[l]) \in 1..Len(queue[l])
      BY <1>1, <1>6
    <3>. HIDE DEF place
    <3>. QED BY <1>3, <3>1
  <2>2. ASSUME NEW x \in Places' PROVE x \in (Places \ {a}) \cup {b}
    <3>1. PICK k \in Links :
        \/ \E i \in 1..Len(queue'[k]) : x = place("queue", k, i)
        \/ \E i \in 1..Len(pipe'[k]) : x = place("pipe", k, i)
      BY <1>2, <2>2
    <3>2. CASE \E i \in 1..Len(queue'[k]) : x = place("queue", k, i)
      <4>1. PICK i \in 1..Len(queue'[k]) : x = place("queue", k, i)
        BY <3>2
      <4>2. i \in 1..Len(queue[k]) /\ (k = l => i # Len(queue[l]))
        BY <1>1, <1>6
      <4>. HIDE DEF place
      <4>. QED BY <1>3, <1>4, <4>1, <4>2
    <3>3. CASE \E i \in 1..Len(pipe'[k]) : x = place("pipe", k, i)
      <4>1. PICK i \in 1..Len(pipe'[k]) : x = place("pipe", k, i)
        BY <3>3
      <4>2. i \in 1..Len(pipe[k]) \/ (k = l /\ i = Len(pipe[l]) + 1)
        BY <1>1, <1>6
      <4>3. "pipe" # "queue"
        OBVIOUS
      <4>. HIDE DEF place
      <4>. QED BY <1>3, <1>4, <4>1, <4>2, <4>3
    <3>. QED BY <3>1, <3>2, <3>3
  <2>3. Places' \subseteq (Places \ {a}) \cup {b}
    BY <2>2
  <2>4. Cardinality(Places') <= Cardinality(Places)
    <3>. HIDE DEF place, a, b
    <3>. QED BY <1>5, <2>1, <2>3, OneForOne
  <2>. QED BY <2>4 DEF InNetwork
<1>7. CASE /\ pipe[l] # <<>>
           /\ Len(pipe'[l]) <= Len(pipe[l]) - 1
           /\ Len(queue'[m]) <= Len(queue[m]) + 1
           /\ \A k \in Links : (k # l => pipe'[k] = pipe[k]) /\ (k # m => queue'[k] = queue[k])
  <2>. DEFINE a == place("pipe", l, Len(pipe[l]))
              b == place("queue", m, Len(queue[m]) + 1)
  <2>1. a \in Places
    <3>1. Len(pipe[l]) \in 1..Len(pipe[l])
      BY <1>1, <1>7
    <3>. HIDE DEF place
    <3>. QED BY <1>3, <3>1
  <2>2. ASSUME NEW x \in Places' PROVE x \in (Places \ {a}) \cup {b}
    <3>1. PICK k \in Links :
        \/ \E i \in 1..Len(queue'[k]) : x = place("queue", k, i)
        \/ \E i \in 1..Len(pipe'[k]) : x = place("pipe", k, i)
      BY <1>2, <2>2
    <3>2. CASE \E i \in 1..Len(queue'[k]) : x = place("queue", k, i)
      <4>1. PICK i \in 1..Len(queue'[k]) : x = place("queue", k, i)
        BY <3>2
      <4>2. i \in 1..Len(queue[k]) \/ (k = m /\ i = Len(queue[m]) + 1)
        BY <1>1, <1>7
      <4>3. "pipe" # "queue"
        OBVIOUS
      <4>. HIDE DEF place
      <4>. QED BY <1>3, <1>4, <4>1, <4>2, <4>3
    <3>3. CASE \E i \in 1..Len(pipe'[k]) : x = place("pipe", k, i)
      <4>1. PICK i \in 1..Len(pipe'[k]) : x = place("pipe", k, i)
        BY <3>3
      <4>2. i \in 1..Len(pipe[k]) /\ (k = l => i # Len(pipe[l]))
        BY <1>1, <1>7
      <4>. HIDE DEF place
      <4>. QED BY <1>3, <1>4, <4>1, <4>2
    <3>. QED BY <3>1, <3>2, <3>3
  <2>3. Places' \subseteq (Places \ {a}) \cup {b}
    BY <2>2
  <2>4. Cardinality(Places') <= Cardinality(Places)
    <3>. HIDE DEF place, a, b
    <3>. QED BY <1>5, <2>1, <2>3, OneForOne
  <2>. QED BY <2>4 DEF InNetwork
<1>. QED BY <1>6, <1>7

LEMMA EnqueuedLength ==
  ASSUME NEW S, NEW q \in Seq(S), NEW x \in S
  PROVE  Len(Enqueued(q, <<x>>)) <= Len(q) + 1
<1>. DEFINE all == q \o <<x>>
            m == Least(Len(all), Most(Len(q), Capacity))
<1>1. all \in Seq(S) /\ Len(all) = Len(q) + 1 /\ Len(q) \in Nat
  OBVIOUS
<1>. HIDE DEF all
<1>2. m \in Nat /\ m <= Len(all)
  BY <1>1, TcpAssumption DEF Least, Most
<1>. HIDE DEF m
<1>3. \A i \in 1..m : all[i] \in S
  BY <1>1, <1>2
<1>4. Len(SubSeq(all, 1, m)) = m
  BY <1>1, <1>2, <1>3, SubSeqProperties
<1>. QED BY <1>1, <1>2, <1>4 DEF Enqueued, all, m

LEMMA PausedServe ==
  ASSUME FInv, FInv', NEW l \in Links, CompleteService(l)
  PROVE  InNetwork' <= InNetwork
<1>. DEFINE S == Packets(src)
            T == Packets(src')
<1>1. /\ queue[l] # <<>> /\ queue' = [queue EXCEPT ![l] = Tail(@)]
      /\ pipe' = [pipe EXCEPT ![l] = Append(@, Head(queue[l]))]
  BY DEF CompleteService
<1>2. /\ queue \in [Links -> Seq(S)] /\ pipe \in [Links -> Seq(S)]
      /\ queue' \in [Links -> Seq(T)] /\ pipe' \in [Links -> Seq(T)]
  BY DEF FInv, NetInv
<1>. HIDE DEF S, T
<1>3. /\ Len(queue'[l]) <= Len(queue[l]) - 1 /\ Len(pipe'[l]) <= Len(pipe[l]) + 1
      /\ \A k \in Links : k # l => queue'[k] = queue[k] /\ pipe'[k] = pipe[k]
  BY <1>1, <1>2, HeadOfType
<1>. QED BY <1>1, <1>2, <1>3, OneMoves

LEMMA PausedForward ==
  ASSUME FInv, FInv', NEW l \in Links, PipeForward(l)
  PROVE  InNetwork' <= InNetwork
<1>. DEFINE S == Packets(src)
            T == Packets(src')
            p == Head(pipe[l])
            m == p.path[2]
            on == [p EXCEPT !.path = Tail(@)]
<1>1. /\ pipe[l] # <<>> /\ Len(p.path) > 1
      /\ queue' = [queue EXCEPT ![m] = Enqueued(@, <<on>>)]
      /\ pipe' = [pipe EXCEPT ![l] = Tail(@)]
  BY DEF PipeForward
<1>2. /\ queue \in [Links -> Seq(S)] /\ pipe \in [Links -> Seq(S)]
      /\ queue' \in [Links -> Seq(T)] /\ pipe' \in [Links -> Seq(T)]
  BY DEF FInv, NetInv
<1>3. p \in S /\ Len(Tail(pipe[l])) = Len(pipe[l]) - 1
  <2>. HIDE DEF S
  <2>. QED BY <1>1, <1>2, HeadOfType
<1>4. on \in S /\ m \in Links
  <2>. HIDE DEF p
  <2>. QED BY <1>1, <1>3, ForwardedPacket
<1>. HIDE DEF S, T, p, m, on
<1>5. Len(Enqueued(queue[m], <<on>>)) <= Len(queue[m]) + 1
  BY <1>2, <1>4, EnqueuedLength
<1>6. /\ Len(pipe'[l]) <= Len(pipe[l]) - 1
      /\ Len(queue'[m]) <= Len(queue[m]) + 1
      /\ \A k \in Links : (k # l => pipe'[k] = pipe[k]) /\ (k # m => queue'[k] = queue[k])
  <2>1. Len(pipe[l]) \in Nat
    BY <1>2
  <2>2. pipe'[l] = Tail(pipe[l]) /\ queue'[m] = Enqueued(queue[m], <<on>>)
    BY <1>1, <1>2, <1>4
  <2>3. Len(pipe'[l]) <= Len(pipe[l]) - 1
    BY <1>3, <2>1, <2>2
  <2>4. Len(queue'[m]) <= Len(queue[m]) + 1
    BY <1>5, <2>2
  <2>5. \A k \in Links : (k # l => pipe'[k] = pipe[k]) /\ (k # m => queue'[k] = queue[k])
    BY <1>1, <1>2
  <2>. QED BY <2>3, <2>4, <2>5
<1>. QED BY <1>1, <1>2, <1>4, <1>6, OneMoves

\* A paused source answers an acknowledgement without sending.
LEMMA PausedAck ==
  ASSUME paused, NEW f, NEW s, NEW ack \in Nat, NEW w, IsSource(s), s.last_acked \in Nat,
         ack >= s.last_acked
  PROVE  ReceiveAck(f, s, ack, w).out = s.out
<1>. DEFINE est == s.established \/ ack = 1
            fin == s.finished \/ Complete(f, s, ack)
            s1 == [s EXCEPT !.established = est, !.cwnd = w, !.finished = fin]
            t == ReceiveAck(f, s, ack, w)
            Quiet(u) == IsSource(u) /\ u.out = s.out
<1>0. t = CASE ack < s1.last_acked -> s
            [] ack > s1.last_acked ->
                 IF s1.in_fast_recovery /\ ack < s1.recoverq
                 THEN PartialAck(f, s1, ack) ELSE NewAck(f, s1, ack)
            [] OTHER ->
                 IF ~ s1.in_fast_recovery /\ s1.dupacks = 2
                 THEN ThirdDupAck(s1) ELSE DupAck(f, s1, s.cwnd)
  BY DEF ReceiveAck, s1
<1>. HIDE DEF est, fin, t
<1>1. Quiet(s1) /\ s1.last_acked = s.last_acked
  BY DEF IsSource, Fields
<1>. HIDE DEF s1
<1>2. \A u : Quiet(u) => Quiet(TrySend(f, u)) /\ Quiet(TryRetransmit(u))
  <2>. TAKE u
  <2>. HAVE Quiet(u)
  <2>. QED BY TryProgress DEF SameProgress
<1>3. Quiet(NewAck(f, s1, ack)) /\ Quiet(PartialAck(f, s1, ack))
  <2>. DEFINE r == Restarted(s1, ack)
              n == [r EXCEPT !.last_acked = ack, !.dupacks = 0, !.in_fast_recovery = FALSE]
              p == [r EXCEPT !.last_acked = ack]
  <2>1. Quiet(r)
    BY <1>1 DEF IsSource, Fields, Restarted
  <2>2. NewAck(f, s1, ack) = TrySend(f, n)
        /\ PartialAck(f, s1, ack) = TrySend(f, TryRetransmit(p))
    BY DEF NewAck, PartialAck
  <2>. HIDE DEF r
  <2>3. Quiet(n) /\ Quiet(p)
    BY <2>1 DEF IsSource, Fields
  <2>. HIDE DEF n, p, Quiet
  <2>4. Quiet(TrySend(f, n)) /\ Quiet(TryRetransmit(p))
    BY <1>2, <2>3
  <2>5. Quiet(TrySend(f, TryRetransmit(p)))
    BY <1>2, <2>4
  <2>. QED BY <2>2, <2>4, <2>5
<1>4. Quiet(ThirdDupAck(s1))
  <2>. DEFINE third == [s1 EXCEPT !.dupacks = 3]
              x == TryRetransmit(third)
  <2>1. Quiet(third)
    BY <1>1 DEF IsSource, Fields
  <2>. HIDE DEF third
  <2>2. Quiet(x)
    <3>. HIDE DEF Quiet
    <3>. QED BY <1>2, <2>1
  <2>3. ThirdDupAck(s1) =
          IF s1.last_acked < s1.recoverq THEN third
          ELSE [x EXCEPT !.in_fast_recovery = TRUE, !.recoverq = s1.highest_sent]
    BY DEF ThirdDupAck, third
  <2>. HIDE DEF x
  <2>. QED BY <2>1, <2>2, <2>3 DEF IsSource, Fields
<1>5. Quiet(DupAck(f, s1, s.cwnd))
  <2>. DEFINE d == IF s1.in_fast_recovery THEN s1
                   ELSE [s1 EXCEPT !.dupacks = Least(@ + 1, 4), !.cwnd = Least(@, s.cwnd)]
  <2>1. DupAck(f, s1, s.cwnd) = TrySend(f, d)
    BY DEF DupAck
  <2>2. Quiet(d)
    BY <1>1 DEF IsSource, Fields
  <2>. HIDE DEF d, Quiet
  <2>. QED BY <1>2, <2>1, <2>2
<1>6. t \in {NewAck(f, s1, ack), PartialAck(f, s1, ack), ThirdDupAck(s1), DupAck(f, s1, s.cwnd)}
  <2>1. ack > s1.last_acked \/ ack = s1.last_acked
    BY <1>1
  <2>. HIDE DEF Quiet
  <2>. QED BY <1>0, <1>1, <2>1
<1>7. Quiet(t)
  <2>. HIDE DEF Quiet
  <2>. QED BY <1>3, <1>4, <1>5, <1>6
<1>. QED BY <1>7 DEF t

LEMMA PausedDeliver ==
  ASSUME IInv, FInv, FInv', paused, NEW l \in Links, PipeDeliver(l)
  PROVE  InNetwork' <= InNetwork
<1>. DEFINE p == Head(pipe[l])
            f == p.flow
            s == src[f]
            k == sink[f]
            ack == Received(k, p.seq).cumulative_ack
<1>1. /\ pipe[l] # <<>> /\ pipe' = [pipe EXCEPT ![l] = Tail(@)]
      /\ sink' = [sink EXCEPT ![f] = Received(@, p.seq)]
  BY DEF PipeDeliver
<1>2. PICK w \in 1..MaxWindow : Ends(f, ReceiveAck(f, s, sink'[f].cumulative_ack, w), queue)
  BY DEF PipeDeliver
<1>3. p \in Packets(src) /\ Len(Tail(pipe[l])) = Len(pipe[l]) - 1 /\ Len(pipe[l]) \in Nat
  <2>1. pipe[l] \in Seq(Packets(src))
    BY DEF FInv, NetInv
  <2>. QED BY <1>1, <2>1, HeadOfType
<1>4. f \in Flows
  BY <1>3 DEF Packets
<1>5. FlowIsExact(f, s, k)
  BY <1>4 DEF IInv, FlowsAreExact
<1>6. sink'[f] = Received(k, p.seq)
  BY <1>1, <1>4 DEF IInv, FlowsAreExact
<1>. HIDE DEF s, k, f, p
<1>7. ack \in Nat /\ ack >= s.last_acked /\ s.last_acked \in Nat /\ IsSource(s) /\ s.out = <<>>
  BY <1>5, ReceivedFacts DEF FlowIsExact, SinkOK
<1>8. Ends(f, ReceiveAck(f, s, ack, w), queue)
  BY <1>2, <1>6
<1>. HIDE DEF ack
<1>9. ReceiveAck(f, s, ack, w).out = <<>>
  BY <1>7, PausedAck
<1>10. queue' = queue
  BY <1>8, <1>9 DEF Ends, SentOn
<1>. DEFINE S == Packets(src)
            T == Packets(src')
<1>11. /\ queue \in [Links -> Seq(S)] /\ pipe \in [Links -> Seq(S)]
       /\ queue' \in [Links -> Seq(T)] /\ pipe' \in [Links -> Seq(T)]
  BY DEF FInv, NetInv
<1>. HIDE DEF S, T
<1>12. /\ Len(pipe'[l]) <= Len(pipe[l]) - 1
       /\ Len(queue'[l]) <= Len(queue[l]) + 1
       /\ \A j \in Links : (j # l => pipe'[j] = pipe[j]) /\ (j # l => queue'[j] = queue[j])
  BY <1>1, <1>3, <1>10, <1>11
<1>. QED BY <1>1, <1>11, <1>12, OneMoves

\* While the flows are paused the number of packets in the network does not grow: the
\* sources note what they want to send, whatever they are called for.
THEOREM PausedMeansQuiet == Spec => QuietWhilePaused
<1>1. ASSUME IInv, FInv, FInv', [Next]_vars, paused, paused'
      PROVE  InNetwork' <= InNetwork \/ UNCHANGED vars
  <2>0. ASSUME UNCHANGED <<queue, pipe>> PROVE InNetwork' <= InNetwork
    <3>1. InNetwork' = InNetwork
      BY <2>0 DEF InNetwork, Places
    <3>2. InNetwork \in Nat
      <4>. DEFINE S == Packets(src)
      <4>1. queue \in [Links -> Seq(S)] /\ pipe \in [Links -> Seq(S)]
        BY <1>1 DEF FInv, NetInv
      <4>. HIDE DEF S
      <4>. QED BY <4>1, PlacesAreFinite, FS_CardinalityType DEF InNetwork
    <3>. QED BY <3>1, <3>2
  <2>1. ASSUME NEW f \in Flows, ConnectFlow(f) PROVE UNCHANGED <<queue, pipe>>
    BY <2>1 DEF ConnectFlow, Connect, netVars
  <2>2. ASSUME NEW f \in Flows, RunSource(f) PROVE UNCHANGED <<queue, pipe>>
    <3>1. SrcEvent(f) /\ pipe' = pipe
      BY <2>2 DEF RunSource, SrcEvent
    <3>2. queue' = queue
      BY <1>1, <3>1, SrcEventExact DEF IInv
    <3>. QED BY <3>1, <3>2
  <2>3. ASSUME NEW expired, ScanTimers(expired) PROVE UNCHANGED <<queue, pipe>>
    BY <2>3 DEF ScanTimers, Scan, netVars
  <2>4. ASSUME NEW l \in Links, Packet(l) PROVE InNetwork' <= InNetwork
    BY <1>1, <2>4, PausedServe, PausedForward, PausedDeliver DEF Packet, PacketEvent
  <2>5. ASSUME StartReconf PROVE UNCHANGED <<queue, pipe>>
    BY <2>5 DEF StartReconf, netVars
  <2>6. ~ FinishReconf
    BY <1>1 DEF FinishReconf
  <2>. QED BY <1>1, <2>0, <2>1, <2>2, <2>3, <2>4, <2>5, <2>6 DEF Next
<1>2. IInv /\ FInv /\ FInv' /\ [Next]_vars => [paused /\ paused' => InNetwork' <= InNetwork]_vars
  BY <1>1
<1>. QED BY <1>2, Inductive, FlowsInductive, PTL DEF Spec, QuietWhilePaused
=============================================================================
