-------------------------------- MODULE Tcp --------------------------------
(***************************************************************************)
(* TCP flows over the packet network: TcpSrc, TcpSink and                  *)
(* TcpRtxTimerScanner (tcp.cpp), the queues (ecnqueue.cpp) and the pipes   *)
(* (pipe.cpp) on their routes.                                             *)
(*                                                                         *)
(* A source sends segments of one size; sequence numbers count segments,   *)
(* the SYN being number 1.  The sink hands its acknowledgement to the      *)
(* source in the same call, so that only data crosses the network.  Time   *)
(* is left out: an armed timer may expire, a queue may finish serving and  *)
(* a pipe may deliver at any moment.  So is congestion control: the window *)
(* may change to any number of segments at every acknowledgement, as it    *)
(* does under the coupled and the ECN variants, but is never below one.    *)
(***************************************************************************)
EXTENDS Integers, Sequences, FiniteSets, SequencesExt

CONSTANTS
  Flows,      \* the TCP flows of a simulation
  Segments,   \* Segments[f]: what _flow_size of f takes, in segments of _mss
  Links,      \* a link is a queue followed by a pipe
  Capacity,   \* _maxsize of a queue, in segments
  MaxWindow,  \* bound: the largest congestion window
  MaxLate     \* bound: a timer expires with at most so many packets of its flow
              \* in the network; 0 when the timeout is longer than the way to the sink

ASSUME TcpAssumption ==
  /\ IsFiniteSet(Flows) /\ IsFiniteSet(Links)
  /\ Segments \in [Flows -> Nat \ {0}]
  /\ Capacity \in Nat \ {0}
  /\ MaxWindow \in Nat \ {0}
  /\ MaxLate \in Nat

VARIABLES
  src,     \* the TcpSrc of each flow
  sink,    \* the TcpSink of each flow
  events,  \* the number of events of each TcpSrc in the event list
  tcps,    \* the flows the retransmission timer scans, in order of connection
  route,   \* _route of each flow: the links to the sink; <<>> before it connects
  queue, pipe,
  paused   \* tcp_flow_paused

flowVars == <<src, sink, events, tcps>>
netVars == <<queue, pipe>>
tcpVars == <<flowVars, netVars, route, paused>>

Routes == UNION {[1..n -> Links] : n \in 1..Cardinality(Links)}
Network == UNION {ToSet(queue[l]) \cup ToSet(pipe[l]) : l \in Links}
NetworkIsEmpty == \A l \in Links : queue[l] = <<>> /\ pipe[l] = <<>>

\* The last number of the flow, as an acknowledgement of it completes it.
LastOf(f) == Segments[f] + 1

\* The constructor; highest_sent is 0 until startflow.
NewSrc ==
  [established |-> FALSE, finished |-> FALSE, highest_sent |-> 0, last_acked |-> 0,
   cwnd |-> MaxWindow, dupacks |-> 0, in_fast_recovery |-> FALSE, recoverq |-> 0,
   timer |-> FALSE,  \* _RFC2988_RTO_timeout # timeInf
   rtx_timeout_pending |-> FALSE, has_pending_send |-> FALSE, has_pending_retrans |-> FALSE,
   out |-> <<>>]     \* what the running handler has sent; empty between handlers

TcpInit ==
  /\ src = [f \in Flows |-> NewSrc]
  /\ sink = [f \in Flows |-> [cumulative_ack |-> 0, received |-> {}]]
  /\ events = [f \in Flows |-> 0]
  /\ tcps = <<>>
  /\ route = [f \in Flows |-> <<>>]
  /\ queue = [l \in Links |-> <<>>]
  /\ pipe = [l \in Links |-> <<>>]
  /\ paused = FALSE

-----------------------------------------------------------------------------
(* What the methods of a source do to its state s.                         *)

Least(x, y) == IF x < y THEN x ELSE y
Most(x, y) == IF x < y THEN y ELSE x

SendsSyn(s) == [s EXCEPT !.out = Append(@, 1)]

\* Faulty: data is sent without waiting for the SYN.
SendAtOnce(f, s) ==
  LET top == Most(s.highest_sent, Least(s.last_acked + s.cwnd, LastOf(f)))
  IN  [s EXCEPT !.highest_sent = top, !.timer = TRUE,
                !.out = @ \o [i \in 1..(top - s.highest_sent) |-> s.highest_sent + i]]

\* send_packets: the SYN, or all that the window and the flow allow.
SendPackets(f, s) ==
  IF ~ s.established THEN [SendsSyn(s) EXCEPT !.highest_sent = 1, !.timer = TRUE]
  ELSE LET top == Most(s.highest_sent, Least(s.last_acked + s.cwnd, LastOf(f)))
       IN  [s EXCEPT !.highest_sent = top,
                     !.out = @ \o [i \in 1..(top - s.highest_sent) |-> s.highest_sent + i],
                     !.timer = @ \/ top > s.highest_sent]

\* retransmit_packet; a repeated SYN leaves the timer as the scan has set it.
Retransmit(s) ==
  IF ~ s.established THEN SendsSyn(s)
  ELSE [s EXCEPT !.out = Append(@, s.last_acked + 1), !.timer = TRUE]

\* Faulty: a paused source sends all the same.
SendRegardless(f, s) == SendPackets(f, s)

\* While flows are paused what would be sent is remembered.
TrySend(f, s) ==
  IF paused THEN [s EXCEPT !.has_pending_send = TRUE] ELSE SendPackets(f, s)

TryRetransmit(s) ==
  IF paused THEN [s EXCEPT !.has_pending_retrans = TRUE] ELSE Retransmit(s)

\* startflow
StartFlow(f, s) ==
  TrySend(f, [s EXCEPT !.cwnd = MaxWindow, !.established = FALSE])

\* The branch of doNextEvent for a retransmission timeout.
Timeout(s) ==
  TryRetransmit([s EXCEPT
    !.rtx_timeout_pending = FALSE, !.cwnd = 1, !.in_fast_recovery = FALSE, !.dupacks = 0,
    !.recoverq = s.highest_sent,
    !.highest_sent = IF s.established THEN s.last_acked + 1 ELSE s.highest_sent])

\* Faulty: the retransmission timer is stopped by every new acknowledgement.
TimerStops(s, ack) == [s EXCEPT !.timer = FALSE, !.highest_sent = Most(@, ack)]

\* A new acknowledgement restarts the timer, and stops it when nothing is out.
Restarted(s, ack) ==
  IF ack >= s.highest_sent THEN [s EXCEPT !.timer = FALSE, !.highest_sent = ack]
  ELSE [s EXCEPT !.timer = TRUE]

\* A new acknowledgement outside fast recovery, or one that ends it.
NewAck(f, s, ack) ==
  TrySend(f, [Restarted(s, ack) EXCEPT !.last_acked = ack, !.dupacks = 0,
                                       !.in_fast_recovery = FALSE])

\* One that leaves fast recovery incomplete: another packet was lost.
PartialAck(f, s, ack) ==
  TrySend(f, TryRetransmit([Restarted(s, ack) EXCEPT !.last_acked = ack]))

\* A duplicate that is not the third, which opens no window, or one that finds
\* fast recovery under way.  The count is only compared with 3.
DupAck(f, s, cwnd) ==
  TrySend(f, IF s.in_fast_recovery THEN s
             ELSE [s EXCEPT !.dupacks = Least(@ + 1, 4), !.cwnd = Least(@, cwnd)])

\* The third: fast recovery begins, unless a timeout is being recovered from.
ThirdDupAck(s) ==
  LET third == [s EXCEPT !.dupacks = 3] IN
  IF s.last_acked < s.recoverq THEN third
  ELSE [TryRetransmit(third) EXCEPT !.in_fast_recovery = TRUE, !.recoverq = s.highest_sent]

\* Faulty: the flow is complete when its last segment has been sent.
CompleteWhenSent(f, s, ack) == s.highest_sent >= LastOf(f)

Complete(f, s, ack) == ack >= LastOf(f)

\* receivePacket, with w the window congestion control arrives at.
ReceiveAck(f, s0, ack, w) ==
  LET s == [s0 EXCEPT !.established = @ \/ ack = 1, !.cwnd = w,
                      !.finished = @ \/ Complete(f, s0, ack)]
  IN  CASE ack < s.last_acked -> s0
        [] ack > s.last_acked ->
             IF s.in_fast_recovery /\ ack < s.recoverq
             THEN PartialAck(f, s, ack) ELSE NewAck(f, s, ack)
        [] OTHER ->
             IF ~ s.in_fast_recovery /\ s.dupacks = 2
             THEN ThirdDupAck(s) ELSE DupAck(f, s, s0.cwnd)

\* TcpSink::receivePacket: an in-order segment fills up to the next hole.
Received(k, seq) ==
  LET all == k.received \cup {seq}
      ack == IF seq = k.cumulative_ack + 1
             THEN CHOOSE n \in seq..(seq + Cardinality(all)) : (seq..n) \subseteq all /\ n + 1 \notin all
             ELSE k.cumulative_ack
  IN  [cumulative_ack |-> ack, received |-> {n \in all : n > ack}]

-----------------------------------------------------------------------------
(* The network.                                                            *)

\* ECNQueue::receivePacket for packets one after the other: what does not fit is
\* dropped, which is the last of them as all have one size.
Enqueued(q, packets) ==
  LET all == q \o packets
  IN  SubSeq(all, 1, Least(Len(all), Most(Len(q), Capacity)))

PacketsOf(f, s) ==
  [i \in DOMAIN s.out |-> [flow |-> f, seq |-> s.out[i], path |-> route[f]]]

\* The queues qs after source f has sent what s says.
SentOn(qs, f, s) ==
  IF s.out = <<>> THEN qs
  ELSE [qs EXCEPT ![route[f][1]] = Enqueued(@, PacketsOf(f, s))]

\* The handler of source f ends in state s; the queues were qs before it sent.
Ends(f, s, qs) ==
  /\ src' = [src EXCEPT ![f] = [s EXCEPT !.out = <<>>]]
  /\ queue' = SentOn(qs, f, s)

\* start_flow of a task, and TcpSrc::connect: the source starts at some later time.
Connect(f, r) ==
  /\ route[f] = <<>>
  /\ route' = [route EXCEPT ![f] = r]
  /\ tcps' = Append(tcps, f)
  /\ events' = [events EXCEPT ![f] = @ + 1]
  /\ UNCHANGED <<src, sink, netVars, paused>>

\* TcpSrc::doNextEvent
SrcEvent(f) ==
  /\ events[f] > 0
  /\ events' = [events EXCEPT ![f] = @ - 1]
  /\ Ends(f, IF src[f].rtx_timeout_pending THEN Timeout(src[f]) ELSE StartFlow(f, src[f]), queue)
  /\ UNCHANGED <<sink, tcps, pipe, route, paused>>

\* The packets of f in the network.
OnTheWay(f) ==
  LET count(q) == Len(SelectSeq(q, LAMBDA p : p.flow = f))
  IN  SumFunction([l \in Links |-> count(queue[l]) + count(pipe[l])])

\* The flows whose timer may have expired (rtx_timer_hook).
Expirable ==
  {f \in ToSet(tcps) :
     /\ src[f].timer /\ src[f].highest_sent # 0 /\ ~ src[f].finished
     /\ OnTheWay(f) <= MaxLate}

\* Faulty: finished flows are forgotten, but their events stay.
EventsKept(ss) == events

\* cancelPendingSource on each finished flow that is scanned; ss are the sources.
EventsCancelled(ss) ==
  [f \in Flows |-> IF f \in ToSet(tcps) /\ ss[f].finished THEN Most(events[f] - 1, 0)
                   ELSE events[f]]

\* Going through _tcps forgets the flows that have finished.
Unfinished(ss) ==
  LET kept[i \in 0..Len(tcps)] ==
        IF i = 0 THEN <<>>
        ELSE IF ss[tcps[i]].finished THEN kept[i - 1] ELSE Append(kept[i - 1], tcps[i])
  IN  kept[Len(tcps)]

\* Faulty: an expired timer schedules the source again.
Unscheduled(expired) == expired

\* A source that waits for its timeout event gets no second one.
Timed(expired) == {f \in expired : ~ src[f].rtx_timeout_pending}

\* TcpRtxTimerScanner::doNextEvent, when the timers of expired have.
Scan(expired) ==
  /\ tcps' = Unfinished(src)
  /\ src' = [f \in Flows |-> IF f \in Timed(expired)
                             THEN [src[f] EXCEPT !.rtx_timeout_pending = TRUE] ELSE src[f]]
  /\ events' = [f \in Flows |-> IF f \in Timed(expired) THEN events[f] + 1
                                ELSE EventsCancelled(src)[f]]
  /\ UNCHANGED <<sink, netVars, route, paused>>

\* ECNQueue::completeService: the head goes to the pipe.
CompleteService(l) ==
  /\ queue[l] # <<>>
  /\ queue' = [queue EXCEPT ![l] = Tail(@)]
  /\ pipe' = [pipe EXCEPT ![l] = Append(@, Head(queue[l]))]
  /\ UNCHANGED <<src, sink, paused>>

\* Pipe::doNextEvent for a packet that has another link to cross.
PipeForward(l) ==
  /\ pipe[l] # <<>>
  /\ LET p == Head(pipe[l]) IN
       /\ Len(p.path) > 1
       /\ queue' = [queue EXCEPT ![p.path[2]] = Enqueued(@, <<[p EXCEPT !.path = Tail(@)]>>)]
  /\ pipe' = [pipe EXCEPT ![l] = Tail(@)]
  /\ UNCHANGED <<src, sink, paused>>

\* Pipe::doNextEvent for one that reaches its sink, which acknowledges at once.
PipeDeliver(l) ==
  /\ pipe[l] # <<>>
  /\ LET p == Head(pipe[l])
         f == p.flow
     IN  /\ Len(p.path) = 1
         /\ sink' = [sink EXCEPT ![f] = Received(@, p.seq)]
         /\ \E w \in 1..MaxWindow :
              Ends(f, ReceiveAck(f, src[f], sink'[f].cumulative_ack, w), queue)
  /\ pipe' = [pipe EXCEPT ![l] = Tail(@)]
  /\ UNCHANGED paused

\* What queues and pipes do; a module that extends this one says what becomes of
\* tcps, events and route in the same step.
PacketEvent(l) == CompleteService(l) \/ PipeForward(l) \/ PipeDeliver(l)
-----------------------------------------------------------------------------
(* Properties of the flows.                                                *)

\* A flow is reported finished, and its task called back, only when the sink
\* has all its data; and the source never believes less or more to be received
\* than is, however packets are lost, repeated and timed out.
AckedIsReceived ==
  \A f \in Flows :
    /\ src[f].last_acked = sink[f].cumulative_ack
    /\ src[f].finished => sink[f].cumulative_ack >= LastOf(f)

\* A source has at most one event, which starts the flow or retransmits; so the
\* one that cancelPendingSource removes from a finished flow is the only one,
\* and no flow is started again.
OneEventPerSource ==
  \A f \in Flows :
    /\ events[f] <= 1
    /\ events[f] = 1 /\ ~ src[f].rtx_timeout_pending => src[f].highest_sent = 0
    /\ f \notin ToSet(tcps) => events[f] = 0

\* Before it is established a source that retransmits has sent its SYN and
\* nothing else (the assertion tcp.cpp:656), and no data overtakes the SYN.
SynFirst ==
  \A f \in Flows : ~ src[f].established =>
    /\ src[f].rtx_timeout_pending \/ src[f].has_pending_retrans => src[f].highest_sent = 1
    /\ \A p \in Network : p.flow = f => p.seq = 1
=============================================================================
