--------------------------- MODULE LosslessNetwork ---------------------------
(***************************************************************************)
(* Packets over switches that pause their neighbours instead of dropping:  *)
(* LosslessQueue with Switch (queue_lossless.cpp, switch.cpp), or          *)
(* LosslessInputQueue with LosslessOutputQueue (queue_lossless_input.cpp,  *)
(* queue_lossless_output.cpp), and the PriorityQueue of the hosts          *)
(* (queue.cpp), which obeys the same pause frames.                         *)
(*                                                                         *)
(* All packets have one size, and sizes count packets; a host sends data   *)
(* only, which has one priority, so that its queue is in order.  A link    *)
(* is the pair of its ends; out[l] is the queue that feeds it.             *)
(***************************************************************************)
EXTENDS Integers, Sequences, FiniteSets, SequencesExt

CONSTANTS
  Discipline,  \* "LOSSLESS" or "LOSSLESS_INPUT"
  Hosts,       \* the other nodes are switches
  Routes,      \* Routes[r]: the nodes of a route
  Packets,     \* Packets[r]: the packets sent over it
  MaxSize,     \* _maxsize of what pauses: the queue, or the input queue
  High, Low,   \* _high_threshold, _low_threshold
  PipeSize,    \* bound: the delay of a pipe, in packets
  Backlog      \* bound: a host waits while its queue holds so many packets

Flows == DOMAIN Routes
Links == UNION {{<<Routes[r][i], Routes[r][i + 1]>> : i \in 1..Len(Routes[r]) - 1} : r \in Flows}
HostLinks == {l \in Links : l[1] \in Hosts}

\* Of initThresholds: two packets of headroom per port, here per incoming link;
\* of the constructor of the input queue: room for what is underway.
ASSUME LosslessAssumption ==
  /\ Discipline \in {"LOSSLESS", "LOSSLESS_INPUT"}
  /\ Routes \in Seq(Seq(UNION {ToSet(Routes[r]) : r \in Flows}))
  /\ \A r \in Flows : Len(Routes[r]) > 2 /\ Cardinality(ToSet(Routes[r])) = Len(Routes[r])
  /\ \A r \in Flows : {i \in DOMAIN Routes[r] : Routes[r][i] \in Hosts} = {1, Len(Routes[r])}
  /\ Packets \in [Flows -> Nat]
  /\ Low \in Nat /\ High \in Nat /\ Low < High
  /\ PipeSize \in Nat \ {0} /\ Backlog \in Nat \ {0}
  /\ MaxSize \in Nat /\ MaxSize >= High + 1 + PipeSize

VARIABLES
  toSend,     \* packets the hosts have not sent yet
  out,        \* of each link, the queue that feeds it
  pipe,       \* of each link, the packets on it, oldest first
  recv,       \* _state_recv of what pauses
  delivered   \* packets that have arrived

vars == <<toSend, out, pipe, recv, delivered>>

\* A packet is named by its route.
NextLink(r, l) ==
  LET i == CHOOSE j \in 1..Len(Routes[r]) - 1 : Routes[r][j] = l[1]
  IN  <<Routes[r][i + 1], Routes[r][i + 2]>>
LinkBefore(r, l) ==
  LET i == CHOOSE j \in 1..Len(Routes[r]) - 1 : Routes[r][j] = l[1]
  IN  <<Routes[r][i - 1], Routes[r][i]>>

\* What pauses: the queue of a link, named by it, or the input queue at the end of a link.
Buffers == IF Discipline = "LOSSLESS" THEN Links \ HostLinks
                                      ELSE {l \in Links : l[2] \notin Hosts}
\* The buffer that holds a packet of route r in the queue of l.
BufferOf(r, l) == IF Discipline = "LOSSLESS" THEN l ELSE LinkBefore(r, l)
\* The queues that sendPause reaches: the remote ends of the other ports, or of the link.
Senders(b) == IF Discipline = "LOSSLESS" THEN {l \in Links : l[2] = b[1] /\ l[1] # b[2]} ELSE {b}

\* _queuesize of a buffer when the queues are o; an input queue counts its
\* packets until the output queues have sent them.
Load(o, b) ==
  IF Discipline = "LOSSLESS" THEN Len(o[b].queue)
  ELSE Cardinality(UNION {{l} \X {i \in 1..Len(o[l].queue) : LinkBefore(o[l].queue[i], l) = b}
                            : l \in {m \in Links : m[1] = b[2]}})

-----------------------------------------------------------------------------
(* A queue: its packets, _state_send, and its pending service events; of a *)
(* host's queue also who has sent since its service began.                 *)

BeginService(q) == [q EXCEPT !.services = @ + 1, !.meanwhile = {}]

Enqueue(q, r) ==
  LET added == [q EXCEPT !.queue = Append(@, r)]
  IN  IF q.queue = <<>> /\ q.state_send = "READY" THEN BeginService(added) ELSE added

\* A PAUSE frame.  Switches look at _sending; hosts at whether anything is queued.
Pause(l, q) ==
  LET inFlight == IF l \in HostLinks THEN q.queue # <<>> ELSE q.services > 0
  IN  [q EXCEPT !.state_send = IF inFlight THEN "PAUSE_RECEIVED" ELSE "PAUSED"]

\* Faulty: what waited during the pause waits for the next packet.
GoIdly(l, q) == [q EXCEPT !.state_send = "READY"]

\* A GO frame.  A host's queue does not look whether it is serving already.
Go(l, q) ==
  LET ready == [q EXCEPT !.state_send = "READY"]
  IN  IF q.queue # <<>> /\ (l \in HostLinks \/ q.services = 0) THEN BeginService(ready) ELSE ready

CompleteService(q) ==
  LET sent == [q EXCEPT !.queue = Tail(@), !.services = @ - 1, !.meanwhile = {},
                        !.state_send = IF @ = "PAUSE_RECEIVED" THEN "PAUSED" ELSE @]
  IN  IF sent.queue # <<>> /\ sent.state_send = "READY" THEN BeginService(sent) ELSE sent

-----------------------------------------------------------------------------
Init ==
  /\ toSend = Packets
  /\ out = [l \in Links |-> [queue |-> <<>>, state_send |-> "READY", services |-> 0,
                             meanwhile |-> {}]]
  /\ pipe = [l \in Links |-> <<>>]
  /\ recv = [b \in Buffers |-> "READY"]
  /\ delivered = [r \in Flows |-> 0]

\* A host gives a packet to its queue.
Send(r) ==
  LET first == <<Routes[r][1], Routes[r][2]>>
  IN  /\ toSend[r] > 0 /\ Len(out[first].queue) < Backlog
      /\ toSend' = [toSend EXCEPT ![r] = @ - 1]
      /\ out' = [out EXCEPT ![first] = Enqueue(@, r)]
      /\ UNCHANGED <<pipe, recv, delivered>>

\* Faulty: the buffer has to be full.
FullFromTheNext(load) == load > High + 1

TooFull(load) == load > High

\* A packet reaches a switch: it joins the queue of its next link, and its
\* buffer may tell the senders to stop.
PacketArrives(l) ==
  LET r == Head(pipe[l])
      next == NextLink(r, l)
      b == BufferOf(r, next)
      queued == [out EXCEPT ![next] = Enqueue(@, r)]
      pauses == TooFull(Load(queued, b)) /\ recv[b] # "PAUSED"
  IN  /\ pipe[l] # <<>> /\ l[2] \notin Hosts
      /\ pipe' = [pipe EXCEPT ![l] = Tail(@)]
      /\ recv' = IF pauses THEN [recv EXCEPT ![b] = "PAUSED"] ELSE recv
      /\ out' = [m \in Links |-> IF pauses /\ m \in Senders(b) THEN Pause(m, queued[m]) ELSE queued[m]]
      /\ UNCHANGED <<toSend, delivered>>

\* A packet reaches its destination.
Deliver(l) ==
  /\ pipe[l] # <<>> /\ l[2] \in Hosts
  /\ pipe' = [pipe EXCEPT ![l] = Tail(@)]
  /\ delivered' = [delivered EXCEPT ![Head(pipe[l])] = @ + 1]
  /\ UNCHANGED <<toSend, out, recv>>

\* Faulty: the senders are told to go on when less than nothing is left.
EmptyFromTheLast(load) == load < Low - 1

EmptyEnough(load) == load < Low

\* All links have one speed: no queue sends twice while another sends one packet.
MayComplete(l) ==
  /\ Len(pipe[l]) < PipeSize
  /\ \A h \in HostLinks : l \notin out[h].meanwhile

\* doNextEvent of a queue: a packet leaves for the pipe, and its buffer may
\* tell the senders to go on.
SendOn(l) ==
  LET r == Head(out[l].queue)
      sent == [m \in Links |-> IF m = l THEN CompleteService(out[l])
                               ELSE IF m \in HostLinks /\ out[m].services > 0
                                    THEN [out[m] EXCEPT !.meanwhile = @ \cup {l}]
                               ELSE out[m]]
      b == BufferOf(r, l)
      resumes == l \notin HostLinks /\ EmptyEnough(Load(sent, b)) /\ recv[b] = "PAUSED"
  IN  /\ out[l].services > 0 /\ out[l].queue # <<>>
      /\ MayComplete(l)
      /\ pipe' = [pipe EXCEPT ![l] = Append(@, r)]
      /\ recv' = IF resumes THEN [recv EXCEPT ![b] = "READY"] ELSE recv
      /\ out' = [m \in Links |-> IF resumes /\ m \in Senders(b) THEN Go(m, sent[m]) ELSE sent[m]]
      /\ UNCHANGED <<toSend, delivered>>

NextEvent == \E l \in Links : SendOn(l) \/ PacketArrives(l) \/ Deliver(l)

Next ==
  \/ \E r \in Flows : Send(r)
  \/ NextEvent

\* The event list runs events as long as there are any.
Fairness == WF_vars(NextEvent)

Spec == Init /\ [][Next]_vars /\ Fairness

-----------------------------------------------------------------------------
(* Properties.                                                             *)

\* Lossless operation: what arrives after the pause, from the pipes and the
\* packets being sent, still fits ("LOSSLESS not working! I should have dropped
\* this packet", queue_lossless.cpp:87 and queue_lossless_input.cpp:56).
NothingOverflows == \A b \in Buffers : Load(out, b) <= MaxSize

\* The queues that pass on what comes over the link l.
Onward(l) == {m \in Links : m[1] = l[2] /\ m[2] # l[1]}

\* They cannot empty the input queue of l from the one threshold to the other while
\* the host at its end sends one packet: with the code's 15 and 12 packets
\* (queue_lossless_input.cpp:13), if they are at most four.
FewPorts(l) == l \in HostLinks => Cardinality(Onward(l)) <= High + 1 - Low

\* Pause and go are matched although they cross packets being sent: a queue is
\* paused exactly while a buffer it feeds is, and that one only while it is not
\* nearly empty; a queue that has packets and may send them is sending, also when
\* the go found it finishing a packet; and a service event is the only one and finds
\* a packet (queue_lossless_output.cpp:95 and 102, queue.cpp:244), at a switch
\* always, and at a host if no go can find it serving.
PausesAreMatched ==
  /\ \A l \in Links :
       /\ (out[l].state_send # "READY") <=> (\E b \in Buffers : l \in Senders(b) /\ recv[b] = "PAUSED")
       /\ out[l].state_send = "READY" /\ out[l].queue # <<>> => out[l].services > 0
       /\ FewPorts(l) => out[l].services <= (IF out[l].queue = <<>> THEN 0 ELSE 1)
  /\ \A b \in Buffers : recv[b] = "PAUSED" => Load(out, b) >= Low

\* A service event finds a packet to send ("assert(!_queue[_servicing].empty())",
\* queue.cpp:244), also that of a host whose go came while it was serving.
EventsFindPackets == \A l \in Links : out[l].services > 0 => out[l].queue # <<>>

\* Whatever is sent arrives, unless the assertion has failed: no go is lost, and
\* buffers at the two ends of a link, both full and each pausing the queue that
\* feeds it, do not wait for each other ("until the other end unblocks us",
\* queue.cpp:273).
EverythingArrives ==
  []<>(EventsFindPackets => \A r \in Flows : delivered[r] = Packets[r] - toSend[r])
=============================================================================
