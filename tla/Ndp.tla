-------------------------------- MODULE Ndp --------------------------------
(***************************************************************************)
(* NDP flows to one receiver: NdpSrc, NdpSink and NdpPullPacer (ndp.cpp),  *)
(* the pull queue (fairpullqueue.cpp) and the trimming queue of the        *)
(* receiver's link (CompositeQueue).                                       *)
(*                                                                         *)
(* Numbers count packets: _pkt_size is 1 here, except in the queue.  With  *)
(* SINGLE_PATH what a flow sends stays in order; with the other strategies *)
(* it is scattered, and overtakes on the way to the last queue and on the  *)
(* way back, except that a PULL takes the route of its ACK or NACK.  Only  *)
(* the last queue trims, and nothing sent back to a source is lost.  Of    *)
(* the clock only the pacer's interval is kept.  RESEND_ON_TIMEOUT is not  *)
(* defined, so that the retransmission timer does nothing.                 *)
(***************************************************************************)
EXTENDS CompositeQueue, FiniteSets, FiniteSetsExt

CONSTANTS
  NFlows,    \* the flows of the pacer are 1..NFlows
  Settings,  \* the simulations: route strategy and flow sizes, in packets
  Size,      \* Size[f]: the size of a packet of f, with its header
  Cwnd,      \* _cwnd, in packets
  MaxTrims   \* bound: packets that find the queue full; the next ones wait for room

Flows == 1..NFlows

ASSUME NdpAssumption ==
  /\ NFlows \in Nat \ {0}
  /\ Settings \subseteq [single : BOOLEAN, flow_size : [Flows -> Nat \ {0}]]
  /\ Size \in [Flows -> HeaderSize + 1..MaxSize]
  /\ Cwnd \in Nat \ {0}
  /\ MaxTrims \in Nat

VARIABLES
  setting,  \* what is set before the flows start: _route_strategy and each _flow_size
  src,      \* the NdpSrc of each flow
  sink,     \* the NdpSink of each flow
  pacer,    \* the NdpPullPacer the sinks share
  forward,  \* of each flow, the packets on their way to the queue, oldest first
  queue,    \* the CompositeQueue
  back,     \* of each flow, ACKs, NACKs, PULLs and returned packets underway
  trims     \* counts up to MaxTrims

ndpVars == <<setting, src, sink, pacer, forward, queue, back, trims>>

single == setting.single  \* SINGLE_PATH, and not a scattering strategy
Packets == setting.flow_size

Packet(f, k) == [flow |-> f, seq |-> k, size |-> Size[f], header |-> FALSE, bounced |-> FALSE]
\* no is the pull number it was made with; pull is the bit, which dont_pull clears.
Feedback(type, f, k, cum, no) ==
  [type |-> type, flow |-> f, seq |-> k, cum |-> cum, no |-> no, pull |-> type # "RTS"]

\* The constructor; started only after startflow.
NewSrc ==
  [started |-> FALSE, highest_sent |-> 0, last_acked |-> 0, flight |-> 0, last_pull |-> 0,
   pull_window |-> 0, first_window |-> 0, rtx_queue |-> <<>>,
   acks |-> 0, nacks |-> 0, bounces |-> 0,  \* _acks_received, ...: the feedback history
   callbacks |-> 0,                         \* calls of application_callback
   out |-> <<>>]                            \* what the running handler sends

NdpInit ==
  /\ setting \in Settings
  /\ src = [f \in Flows |-> NewSrc]
  /\ sink = [f \in Flows |-> [cumulative_ack |-> 0, received |-> {}, pull_no |-> 0,
                              last_seen |-> FALSE]]
  /\ pacer = [pulls |-> <<>>, current |-> NFlows + 1, elapsed |-> FALSE, timers |-> 0, due |-> 0]
  /\ forward = [f \in Flows |-> <<>>]
  /\ queue = EmptyQueue
  /\ back = [f \in Flows |-> <<>>]
  /\ trims = 0

-----------------------------------------------------------------------------
(* The source.                                                             *)

\* send_packet: a packet waiting for retransmission before a new one.
SendPacket(f, s) ==
  IF s.rtx_queue # <<>>
  THEN [s EXCEPT !.rtx_queue = Tail(@), !.out = Append(@, Head(s.rtx_queue))]
  ELSE IF s.highest_sent >= Packets[f] THEN s
  ELSE [s EXCEPT !.highest_sent = @ + 1, !.flight = @ + 1, 
                   !.out = Append(@, s.highest_sent + 1)]

SendPackets(f, s, n) ==
  LET sent[i \in 0..n] == IF i = 0 THEN s ELSE SendPacket(f, sent[i - 1]) IN sent[n]

\* Faulty: every pull sends a packet, also one that another has superseded.
PullAlways(f, s, pull_no) ==
  IF s.last_pull < pull_no
  THEN [SendPackets(f, s, pull_no - s.last_pull) EXCEPT !.last_pull = pull_no]
  ELSE SendPackets(f, s, 1)

PullPackets(f, s, pull_no) ==
  IF s.last_pull < pull_no
  THEN [SendPackets(f, s, pull_no - s.last_pull) EXCEPT !.last_pull = pull_no]
  ELSE s

\* is_bad_path, while the history holds every feedback received; with SINGLE_PATH
\* nothing is recorded.
IsBadPath(s) == ~single /\ s.acks > 0 /\ (s.acks + s.nacks + s.bounces) \div s.acks <= 3

\* A returned packet waits for a pull, unless no pull is expected or its path is bad.
ProcessRTS(f, s, m) ==
  LET t == [s EXCEPT !.first_window = @ - 1, !.bounces = @ + 1, !.rtx_queue = <<m.seq>> \o @]
  IN  IF (t.pull_window = 0 /\ t.first_window <= 1) \/ IsBadPath(t) THEN SendPacket(f, t) ELSE t

\* pull_window grows by one, also when the NACK carries its pull.
ProcessNack(f, s, m) ==
  PullPackets(f, [s EXCEPT !.pull_window = @ + 1, !.first_window = @ - 1, !.nacks = @ + 1,
                           !.rtx_queue = Append(@, m.seq)], IF m.pull THEN m.no ELSE 0)

\* Faulty: the flow ends with the acknowledgement of its last packet.
EndWithTheLastPacket(f, s, m) ==
  PullPackets(f, [s EXCEPT !.pull_window = IF m.pull THEN @ ELSE @ + 1,
                           !.first_window = @ - 1, !.acks = @ + 1,
                           !.last_acked = IF @ < m.cum THEN m.cum ELSE @, !.flight = @ - 1,
                           !.callbacks = IF m.cum >= Packets[f] \/ m.seq = Packets[f]
                                         THEN @ + 1 ELSE @], IF m.pull THEN m.no ELSE 0)

ProcessAck(f, s, m) ==
  PullPackets(f, [s EXCEPT !.pull_window = IF m.pull THEN @ ELSE @ + 1,
                           !.first_window = @ - 1, !.acks = @ + 1,
                           !.last_acked = IF @ < m.cum THEN m.cum ELSE @, !.flight = @ - 1,
                           !.callbacks = IF m.cum >= Packets[f] THEN @ + 1 ELSE @], IF m.pull THEN m.no ELSE 0)

ProcessPull(f, s, m) ==
  PullPackets(f, [s EXCEPT !.pull_window = @ - 1,
                           !.last_acked = IF @ < m.cum THEN m.cum ELSE @], m.no)

ReceiveFeedback(f, s, m) ==
  CASE m.type = "RTS" -> ProcessRTS(f, s, m)
    [] m.type = "NACK" -> ProcessNack(f, s, m)
    [] m.type = "PULL" -> ProcessPull(f, s, m)
    [] m.type = "ACK" -> ProcessAck(f, s, m)

\* The source of f becomes s and its handler's packets leave.
Transmit(f, s) ==
  /\ src' = [src EXCEPT ![f] = [s EXCEPT !.out = <<>>]]
  /\ forward' = [forward EXCEPT ![f] = @ \o s.out]

-----------------------------------------------------------------------------
(* The pull queue and the pacer.                                           *)

Entries(p) == DOMAIN p.pulls
NoPulls(p) == \A f \in Entries(p) : p.pulls[f] = <<>>

\* The entry after key f in the map; NFlows + 1 is its end.
After(p, f) == Min({g \in Entries(p) : g > f} \cup {NFlows + 1})

Enqueue(p, m) ==
  [p EXCEPT !.pulls = [f \in Entries(p) \cup {m.flow} |->
     LET old == IF f \in Entries(p) THEN p.pulls[f] ELSE <<>>
     IN  IF f = m.flow THEN Append(old, m) ELSE old]]

\* The flow dequeue serves: the next one, from _current_queue on and around, with a pull.
NextFlow(p) ==
  LET waiting == {f \in Entries(p) : p.pulls[f] # <<>>}
      ahead == {f \in waiting : f >= p.current}
  IN  IF ahead # {} THEN Min(ahead) ELSE Min(waiting)

Dequeue(p) ==
  LET f == NextFlow(p)
  IN  [p EXCEPT !.pulls[f] = Tail(@), !.current = After(p, f)]

\* Faulty: the iterator keeps pointing to the entry erased.
EraseOnly(p, f) == [p EXCEPT !.pulls = [g \in Entries(p) \ {f} |-> p.pulls[g]]]

FlushFlow(p, f) ==
  IF f \notin Entries(p) THEN p
  ELSE [p EXCEPT !.pulls = [g \in Entries(p) \ {f} |-> p.pulls[g]],
                 !.current = IF @ = f THEN After(p, f) ELSE @]

\* NdpPullPacer::sendPacket: the pull rides on m when the interval is over and
\* none waits, and otherwise waits in the queue; the result is what leaves.
PacerSend(p, m) ==
  IF NoPulls(p) /\ p.elapsed
  THEN [pacer |-> [p EXCEPT !.elapsed = FALSE], sent |-> m]
  ELSE [pacer |-> [Enqueue(p, [m EXCEPT !.type = "PULL"])
                     EXCEPT !.timers = IF NoPulls(p) THEN @ + 1 ELSE @],
        sent |-> [m EXCEPT !.pull = FALSE]]

-----------------------------------------------------------------------------
(* The sink.                                                               *)

\* The sink of f after whole packet k: the packets in a row are acknowledged.
Absorb(f, k) ==
  LET s == sink[f]
      got == s.received \cup {k}
      cum == Max({c \in s.cumulative_ack..Packets[f] : s.cumulative_ack + 1..c \subseteq got})
  IN  [s EXCEPT !.cumulative_ack = cum,
                !.received = {j \in got : j > cum},
                !.last_seen = @ \/ k = Packets[f],
                !.pull_no = @ + 1]

\* Faulty: the pulls are released by the last packet, whatever is missing.
ReleaseWithTheLast(f, s, p) == IF s.last_seen THEN FlushFlow(p, f) ELSE p

\* The pulls of a flow that has everything are released.
ReleasePulls(f, s, p) ==
  IF s.last_seen /\ s.cumulative_ack = Packets[f] THEN FlushFlow(p, f) ELSE p

SinkReceive(p) ==
  LET f == p.flow
      s == IF p.header THEN [sink[f] EXCEPT !.pull_no = @ + 1] ELSE Absorb(f, p.seq)
      m == Feedback(IF p.header THEN "NACK" ELSE "ACK", f, p.seq, s.cumulative_ack, s.pull_no)
      paced == PacerSend(pacer, m)
  IN  /\ sink' = [sink EXCEPT ![f] = s]
      /\ pacer' = IF p.header THEN paced.pacer ELSE ReleasePulls(f, s, paced.pacer)
      /\ back' = [back EXCEPT ![f] = Append(@, paced.sent)]

-----------------------------------------------------------------------------
(* The events.                                                             *)

\* startflow: a first window of packets.
StartFlow(f) ==
  /\ ~src[f].started
  /\ LET n == Min({Cwnd, Packets[f]})
     IN  Transmit(f, [SendPackets(f, src[f], n) EXCEPT !.started = TRUE, !.first_window = n])
  /\ UNCHANGED <<setting, sink, pacer, queue, back, trims>>

\* A packet reaches the queue, which may trim it or another and return a header.
Arrive(f) ==
  \E i \in 1..Len(forward[f]), boot \in BOOLEAN :
    LET p == Packet(f, forward[f][i])
        fits == Bytes(queue.low) + p.size <= MaxSize
        r == ReceivePacket(queue, p, boot)
    IN  /\ single => i = 1
        /\ fits => ~boot
        /\ fits \/ trims < MaxTrims
        /\ trims' = IF fits THEN trims ELSE trims + 1
        /\ queue' = r.queue
        /\ back' = [g \in Flows |->
             back[g] \o SetToSeq({Feedback("RTS", g, b.seq, 0, 0) : b \in {c \in r.returned : c.flow = g}})]
        /\ forward' = [forward EXCEPT ![f] = RemoveAt(@, i)]
        /\ UNCHANGED <<setting, src, sink, pacer>>

\* The queue has served a packet, which reaches its sink.
Serve ==
  /\ queue.serv # "INVALID"
  /\ queue' = CompleteService(queue)
  /\ SinkReceive(Departing(queue))
  /\ UNCHANGED <<setting, src, forward, trims>>

\* A message reaches its source.
SourceReceive(f) ==
  \E i \in 1..Len(back[f]) :
    /\ IF single THEN i = 1
       ELSE \A j \in 1..i - 1 : back[f][i].type = "PULL" => back[f][j].no # back[f][i].no
    /\ back' = [back EXCEPT ![f] = RemoveAt(@, i)]
    /\ Transmit(f, ReceiveFeedback(f, src[f], back[f][i]))
    /\ UNCHANGED <<setting, sink, pacer, queue, trims>>

\* doNextEvent of the pacer: the next pull leaves, and another event is
\* scheduled while pulls wait; after a flush there may be none.
PacerFires ==
  /\ pacer.due > 0
  /\ IF NoPulls(pacer)
     THEN /\ pacer' = [pacer EXCEPT !.due = @ - 1]
          /\ UNCHANGED back
     ELSE LET p == Dequeue(pacer)
          IN  /\ pacer' = [p EXCEPT !.due = @ - 1, !.elapsed = FALSE,
                                    !.timers = IF NoPulls(p) THEN @ ELSE @ + 1]
              /\ back' = [back EXCEPT ![NextFlow(pacer)] =
                           Append(@, Head(pacer.pulls[NextFlow(pacer)]))]
  /\ UNCHANGED <<setting, src, sink, forward, queue, trims>>

\* _packet_drain_time has passed since the last pull: the pacer's events, all
\* scheduled for that time, are due.
DrainTimePasses ==
  /\ ~pacer.elapsed /\ pacer.due = 0
  /\ pacer' = [pacer EXCEPT !.elapsed = TRUE, !.due = pacer.timers, !.timers = 0]
  /\ UNCHANGED <<setting, src, sink, forward, queue, back, trims>>

Arrives == \E f \in Flows : Arrive(f)
SourceReceives == \E f \in Flows : SourceReceive(f)

NdpNext ==
  \/ \E f \in Flows : StartFlow(f)
  \/ Arrives
  \/ Serve
  \/ SourceReceives
  \/ PacerFires
  \/ DrainTimePasses

\* The event list runs every event; a packet that waits for room in the queue
\* gets there because only finitely many are sent once MaxTrims are used up.
NdpFairness ==
  /\ \A f \in Flows : WF_ndpVars(StartFlow(f))
  /\ WF_ndpVars(Arrives)
  /\ WF_ndpVars(Serve)
  /\ WF_ndpVars(SourceReceives)
  /\ WF_ndpVars(PacerFires)
  /\ WF_ndpVars(DrainTimePasses)

NdpSpec == NdpInit /\ [][NdpNext]_ndpVars /\ NdpFairness

-----------------------------------------------------------------------------
(* Properties.                                                             *)

DataQueued == ToSet(queue.low) \cup ToSet(queue.high)

\* Where packet k of f is, in whatever form; a place counts once.
Places(f, k) ==
  {w \in {"forward", "queue", "returned", "trimmed", "waiting", "received"} :
     CASE w = "forward" -> k \in ToSet(forward[f])
       [] w = "queue" -> \E p \in DataQueued : p.flow = f /\ p.seq = k
       [] w = "returned" -> \E m \in ToSet(back[f]) : m.type = "RTS" /\ m.seq = k
       [] w = "trimmed" -> \E m \in ToSet(back[f]) : m.type = "NACK" /\ m.seq = k
       [] w = "waiting" -> k \in ToSet(src[f].rtx_queue)
       [] w = "received" -> k \in 1..sink[f].cumulative_ack \cup sink[f].received}

\* The state has the types of its fields, and the asserts of the queue hold.
NdpTypeOK ==
  /\ \A f \in Flows :
       /\ src[f].highest_sent \in 0..Packets[f] /\ src[f].last_acked \in 0..Packets[f]
       /\ src[f].flight \in 0..Packets[f] /\ src[f].pull_window \in Int
       /\ src[f].last_pull \in Nat /\ src[f].out = <<>>
       /\ sink[f].cumulative_ack \in 0..Packets[f] /\ sink[f].pull_no \in Nat
  /\ pacer.timers \in Nat /\ pacer.due \in Nat /\ pacer.elapsed \in BOOLEAN
  /\ pacer.current \in Entries(pacer) \cup {NFlows + 1}
  /\ trims \in 0..MaxTrims
  /\ QueueIsSound(queue)

\* However often a packet is trimmed or returned, it is in exactly one place:
\* on its way, in the queue whole or as a header, announced to the source by a
\* return or a NACK, waiting to be sent again, or received.  Nothing would find
\* it again, as there is no timeout, and nothing duplicates it.
EveryPacketIsInOnePlace ==
  \A f \in Flows : \A k \in 1..src[f].highest_sent : Cardinality(Places(f, k)) = 1

\* Acknowledgements, pulls and immediate retransmissions of returned packets
\* together never put more than the first window in the network.
InFlight(f) ==
  Len(forward[f]) + Cardinality({p \in DataQueued : p.flow = f})
    + Cardinality({m \in ToSet(back[f]) : m.type = "RTS"})

WindowIsKept ==
  \A f \in Flows : src[f].started =>
    InFlight(f) + (sink[f].pull_no - src[f].last_pull) <= Cwnd

\* The callback of a flow is called at most once, when everything has arrived,
\* although the source has no mark that it has finished.
CallbackIsOnce ==
  \A f \in Flows : /\ src[f].callbacks <= 1
                   /\ src[f].callbacks = 1 => sink[f].cumulative_ack = Packets[f]

PullsOutstanding(f) ==
  Cardinality({m \in ToSet(back[f]) : m.type = "PULL"})
    + (IF f \in Entries(pacer) THEN Len(pacer.pulls[f]) ELSE 0)

\* The source keeps a packet for a pull, and no pull is left: after a packet was
\* returned, or when packets are scattered and a later pull came before a NACK.
Stranded(f) ==
  /\ single => src[f].bounces > 0
  /\ src[f].rtx_queue # <<>>
  /\ InFlight(f) = 0 /\ PullsOutstanding(f) = 0 /\ back[f] = <<>>

\* Without a timeout every flow completes, unless one of its packets is stranded.
FlowsEnd == \A f \in Flows : <>(src[f].callbacks > 0 \/ Stranded(f))
=============================================================================
