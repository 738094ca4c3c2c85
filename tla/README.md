# A TLA+ development for ffsim-opera

ffsim-opera is a packet-level, discrete-event simulator (htsim) with an
application layer that executes FlexFlow task graphs of distributed training
over a simulated data-centre network, and a scheduler that rewires a flat
optical network while flows run. This directory holds TLA+ specifications of
the parts that carry that logic, TLC configurations that check them on small
instances, and proofs, checked by TLAPS, of theorems about them for all values
of their constants. Paths below are relative to `src/src/clos/`.

## 1. The system

Everything runs in one thread. An *event source* asks the *event list* to be
run at a time; `main` calls `eventlist.doNextEvent()` until the list is empty.
Handlers run to completion, so the hard part is not threads but the order of
events: of several tasks, flows, queues, a timer scanner and a scheduler, at
equal times too, and the calls one component makes into another from inside a
handler.

| component | code | state | operations | correct when |
|---|---|---|---|---|
| event list | `eventlist.cpp` | pending sources ordered by time and insertion, clock, end time | `sourceIsPending`, `cancelPendingSource`, `doNextEvent`, `setEndtime` | the clock never goes back; nothing is scheduled in the past |
| task graph execution | `ffapp.cpp`: `FFApplication`, `FFTask`, `FFDevice` | per task: state, dependency counter, ready and finish time; per device: idle/busy, `busy_up_to`; per application: counts and results | `start_init_tasks`, `execute_compute`, `start_flow`, `cleanup`, `reset_and_restart`, `taskfinish` | dependencies are respected across iterations; a device runs one task; no wake-up is lost; the reported time is that of the first iteration; the simulation ends |
| all-reduce collectives | `ffapp.cpp`: four classes | rounds and counters per ring, size | `doNextEvent`, `start_flow`, `ar_finish_*`, `reset` | rounds are barriers; the task finishes once, with the last flow; iterations are alike |
| TCP and DCTCP | `tcp.cpp`, `dctcp.cpp` | sequence numbers, window, fast recovery, timer, pause flags; the sink's cumulative ack; the scanner's list | `connect`, `receivePacket`, `send_packets`, `retransmit_packet`, timeout, `pause_flow`, `resume_flow`, scan | acknowledged means received; no flow is forgotten; a source is scheduled once |
| queues and pipes | `ecnqueue.cpp`, `pipe.cpp` | packets queued, packets in flight | `receivePacket`, `completeService`, `doNextEvent` | FIFO; drop at the limit; every packet that leaves reports to the scheduler |
| dynamic network scheduler | `dyn_net_sch.cpp`: `DynFlatScheduler` | LIVE or RECONF, its event | `start_reconf`, `do_reconf`, `finish_reconf` | rewires only a drained network; routes follow the topology; reconfigurations end |
| topology optimisers | `dyn_net_sch.cpp`: `DemandHeuristicNetworkOptimizer`, the generator of the first topology | links between nodes, interfaces used, demands left, components, the searches for routes | `optimize`, `connect_unused_node`, `connect_topology`, `connect_cc`, `get_routes_from_src`, `generate_topology` | degrees are kept; the network is connected; routes are shortest; the loops end |
| NDP | `ndp.cpp`, `fairpullqueue.cpp`, `compositequeue.cpp` | per source: packets sent, window, packets to send again, feedback per path; per sink: what has arrived, pull numbers; the pacer's queue of pulls; the two lists of the queue | `startflow`, `receivePacket`, `processAck`, `processNack`, `processRTS`, `pull_packets`, `sendPacket` and `doNextEvent` of the pacer, the queue's | no packet is lost for good or doubled; the window is kept; flows end |
| lossless queues and switch | `queue_lossless*.cpp`, `switch.cpp`, `PriorityQueue` of `queue.cpp` | packets queued, paused or not, as a sender and as a receiver | `receivePacket`, `completeService`, `sendPause` | nothing overflows; pauses and goes match; an event finds a packet; queues do not wait for each other |
| packets and routes | `network.cpp`, `route.cpp` | route, next hop, bounced | `sendOn`, `bounce`, `unbounce`, `add_endpoints` | a packet is handed on where it is; it gets to its destination |
| static topologies | `datacenter/*_topology.cpp`, `*_fattree.cpp` | tables of queues | `init_network`, `get_paths` | routes take existing links, and are all the routes there should be |
| other transports | `mtcp`, `rcp`, `cbr`, `qcn` | | | |
| other queues | priorities, random drop, ... | | | |
| tools | loggers, clock, configuration, generated and vendored code | | | |

They interact by calls. A task that becomes runnable schedules itself; a
communication task or a collective creates TCP sources and sinks and connects
them; a sink calls its source with the acknowledgement in the call that delivers the packet
(only data crosses queues and pipes: `send_ack` ends in
`_src->receivePacket`); the acknowledgement that completes a flow calls the
task back, whose `cleanup` wakes successors, restarts the application or ends
the simulation, all in the same event. While a reconfiguration is under way a
queue or pipe that finishes with a packet calls the scheduler, which may rewire
everything before that call returns. A packet carries its route and hands
itself on: a full composite queue turns it around on the reverse route, so that
what a source learns depends on how a topology built that route. A lossless
switch calls all queues that feed it when one of its own fills up.

`PROJECT.json` lists every component with its status, and, under `hazards`,
what in this code is hard to test, at its line, with the properties that watch
it.

## 2. The modules

| module | models | built on |
|---|---|---|
| `EventList` | the event list | |
| `TaskDag` | what executing task graphs promises: an abstract specification without time, devices, counters or events | |
| `TaskGraph` | tasks, devices, applications | `EventList`; implements `TaskDag` |
| `MCTaskGraph`, `MCRootTransfers` | instances of `TaskGraph` | |
| `TaskGraph_proofs` | types, counters, single events; devices, restarts, time; `TaskGraph` implements `TaskDag`; no wake-up is lost | `TaskGraph`, TLAPS |
| `Allreduce` | the four collectives; it is its own instance | |
| `Allreduce_proofs` | rounds, restarts, completion | `Allreduce`, TLAPS |
| `Tcp` | sources, sinks, scanner, ECN queues, pipes (operators and partial actions) | |
| `Reconfiguration` | `DynFlatScheduler` composed with `Tcp`: the complete specification | `Tcp` |
| `MCReconfiguration`, `MCTcp` | instances of `Reconfiguration` | |
| `SharedLemmas` | induction on sets of numbers, recursive functions, counting the entries of sequences | TLAPS |
| `Reconfiguration_proofs` | flows, packets, routes, scheduler, rewiring | `Reconfiguration`, `SharedLemmas` |
| `TopologyOptimizer`, `MCTopologyOptimizer` | the heuristic optimiser and the generator, loop by loop; the instance | |
| `TopologyOptimizer_proofs` | interfaces, components, routes | `TopologyOptimizer`, `SharedLemmas` |
| `CompositeQueue` | the trimming queue (operators) | |
| `Ndp`, `MCNdp` | sources, sinks, pull queue and pacer at one such queue; the instance | `CompositeQueue` |
| `Ndp_proofs` | the ledgers of packets, windows and callbacks | `Ndp`, `SharedLemmas` |
| `LosslessNetwork`, `MCLosslessNetwork` | lossless queues, switches and the queues of hosts; the instances | |
| `LosslessNetwork_proofs` | pauses and goes match; no input queue overflows | `LosslessNetwork`, `SharedLemmas` |
| `Routes` | names, links and routes of the topologies | |
| `FatTree`, `OsFatTree`, `AggOsFatTree`, `FatTree3to1`, `OversubscribedFatTree`, `BCube`, `VL2`, `CamCube`, `FlatNetworks` | links and routes of each topology (operators) | `Routes` |
| `Forwarding`, `MCForwarding` | a packet on any of them; fifteen small networks | `Routes`; the instance takes all topologies |
| `PodTree` | what the five trees of pods build, as one tree (operators for the proofs) | `Routes` |
| `Forwarding_proofs` | packets move along links; routes of the trees, VL2, meshes, switches and flat networks of any size | `Forwarding`, `PodTree`, `SharedLemmas` |

### TaskGraph

The variables are the fields of the classes, as functions of tasks, devices or
applications. An event is a record with the task it belongs to and what runs it: `task` is `FFTask::doNextEvent`, `connect`
the start of a transfer's source, `deliver` the acknowledgement that completes
it. Events at equal times run in the order of insertion, as in the multimap:
handlers number what they schedule (`ord`). Actions correspond to the branches
of `taskstart`/`execute_compute`: `ExecuteStart`, `ExecuteWait`,
`ExecuteFinish`, `StartFlow`, `StartAllreduce`, `LocalAllreduce`, and
`TaskFinish` for the callback. Each that finishes a task contains the whole of
`cleanup` (`Cleanup`), in three disjuncts: others are unfinished; this was the
last task and the simulation ends; this was the last task and the application
restarts, `reset_and_restart` and `start_init_tasks` included. `Init` is the
state `main` has reached before its loop; the order in which the hash map lists
root tasks is chosen once (`initPos`), because the map does not change.

Left out: what a transfer does in the network (it takes any of `XferTimes`, or
is cut off when the simulation has an end); the periodic sources (clock,
scanner), which never touch tasks and stop when the end time is set; and which
nodes the devices stand for (`choose_gpus`, `gpus`). Assumed of a task graph
(`GraphAssumption`): dependencies are listed once and stay inside an
application; a collective has predecessors and no successors, since the loader
uses the successor list for its node group and leaves its counter uninitialised
otherwise. Acyclicity is *not* assumed by the safety theorems.

### Allreduce

One collective, chosen at `Init` among the classes, group sizes and data sizes,
and the network that completes its flows in any order. Callbacks are split by
what they find: more flows of the round to come (`FlowDone`), the last of a
round (`RoundDone`), of a ring (`RingDone`). `Reset` is what
`reset_and_restart` calls. `operator_size` is a `uint32_t` in all classes but
the new ring (`Held`); `EarlyEnd` and `Scaled` do in exact integer arithmetic
what the code does in `double`. A new ring has at least one ring (`NRings`).

### Tcp and Reconfiguration

Sequence numbers count segments, the SYN being 1. `src[f]` is a record of a
source's fields; methods are operators from source to source, with `out`
collecting what is sent during a handler, so that an action such as
`PipeDeliver` is the whole chain pipe, sink, acknowledgement, source, first
queue. The duplicate count saturates at 4 since the code compares it with 3.

Abstractions, each of which only adds behaviours: there is no time, so any
armed timer may expire at a scan, a queue may serve and a pipe deliver at any
moment; the window may become anything from one segment to `MaxWindow` at an
acknowledgement, which covers the coupled and DCTCP variants (both bound it below by
one segment); queue sizes count segments; any topology may follow any other,
with any route of it per flow, in place of the optimisers and `rand()`.
`MaxLate` bounds how many packets of a flow are in the network when its timer
expires: 0 for a timeout longer than the round trip, 1 for spurious ones.

`StartReconf`, `FinishReconf` and `DoReconf` are the handlers of the scheduler;
`Packet` is an event of a queue or a pipe with the call of `do_reconf` it ends
in. `DoReconf` does in one step what `_do_reconf` does in one call: forgetting
finished flows and cancelling their events, the new topology, the routes of
all registered flows, and the event that will resume them.

### TopologyOptimizer

The code is sequential, but its loops draw at random and take turns at the same
counts of interfaces. `phase` is the loop that runs, and one iteration of it one
action: `ServeDemand` gives the largest demand a link and halves it; `Chain` is
an iteration of `connect_unused_node` and `Fill` gives away the interfaces
that are left, with the list of nodes and indices the code draws from; `Join`
is an iteration of `connect_cc` with its cases (one node or several, on either
side, with and without a demand for the link to remove); `StartSearch`,
`Expand` and `SearchEnds` are the breadth first search from one source.
`DemandServed`, `Chained` and `FillEnds` are the code between two loops. Every
value of a random draw is a choice of the action; a draw that is repeated
because it does not fit is no step. The generator of the first topology
(`generating`) starts at the chain of all nodes and ends after `Fill`. With one
interface per node the chain would take more than there are, so that `IfCnt` is
at least 2 (the default of the mains is 4).

### Ndp and CompositeQueue

The last queue before the receiver is where an incast is trimmed, so that this
queue, `NFlows` sources, their sinks and the pacer they share are the model. A
queue is two lists and what it serves; `BeginService`, `CompleteService` and
`ReceivePacket` are the methods, with the marks of `_crt` and the choice of
victim. `forward[f]` and `back[f]` are what is underway from and to a source.
With `SINGLE_PATH` a path keeps the order; otherwise packets are scattered over
paths and overtake, but a PULL takes the route of its ACK or NACK. The actions
are `StartFlow`, `Arrive`, `Serve` (which contains the sink and
the pacer's `sendPacket`), `SourceReceive`, `PacerFires`; `DrainTimePasses` is
all that is kept of time. The pull queue is the map of flows with its iterator,
since `flush_flow` may erase the entry the iterator is at. `RESEND_ON_TIMEOUT` is
not defined in this repository and `rtx_timer_hook` sends nothing: a packet
nobody asks for is never sent again. That is why
the liveness property has an exception (`Stranded`), and why each packet must be
in exactly one place. `pull_window` is not decremented for a NACK that carries
its own pull, against the comment at ndp.h:112; the model does as the code.

### LosslessNetwork

Nodes are hosts or switches, a link is a pair of them, `out[l]` its queue and
`recv[b]` the state of a buffer that pauses: with `LOSSLESS` an output queue,
which pauses all queues that feed its switch; with `LOSSLESS_INPUT` the input
queue of a link, which pauses that link only. `SendOn` is the end of a service,
`PacketArrives` the end of a pipe, `Deliver` the last one; a PAUSE or GO reaches the other
side at once but takes effect after the packet being sent, as in
the code (`PAUSE_RECEIVED`). All packets have one size and sizes count them.
`MayComplete` keeps the order in which links of one speed can finish: no queue
serves two packets while a host sends one. It matters because the GO branch of a
host's `PriorityQueue` (queue.cpp:196, as ecnqueue.cpp:44) begins a service without
asking whether one is under way: a pause and a go within one packet's service
leave two service events. `services` counts them. With `LOSSLESS_INPUT` that takes
so many output queues that they drain the host's input queue from above its upper to
below its lower threshold while the host sends one packet: five with the thresholds of 15 and
12 packets in the code, three in the run `lossless`. With `LOSSLESS` it takes
only two queues of one switch that send their goes one after the other (finding 4).
`SendOn` of an empty queue is not modelled: the code is then at a failed assertion,
`EventsFindPackets` is what says that this does not happen, and `EverythingArrives`
asks for delivery only as long as it has not.

### Forwarding and the topologies

A topology module has two operators: the links `init_network` creates, and the
routes `get_paths` returns for a pair, each with the same index expressions as
the code, which differ between the two functions. A route is the links it
takes and, where the code builds a reverse route, those of it. `Forwarding`
puts one packet on any of these routes: `Start`, `Forward`, `Return` at a full
queue of a switch, `Resend` by the source. `sendOn`, `bounce` and `unbounce`
are translated with their index arithmetic and their asserts. Conditions on the
parameters of a topology are comments on its constants. Routes of
`OversubscribedFatTree`, `VL2`, `StarTopology`, `BCube` and `CamCube` have no
reverse and their packets never return. That a tree offers every shortest path is
said without its arithmetic: `ShortestWalks` are the walks over links that come
closer to the destination with every link, as a search from there finds them.

`PodTree` models no code of its own. It is the tree all five `init_network` of the
pod based trees build, with three numbers (racks and upper switches of a pod, hosts
of a rack) in place of the expressions in `K` with which each numbers its switches:
what the proofs compare them with.

## 3. The runs

| run | instance | states | shows |
|---|---|---|---|
| `taskgraph` | two applications of 6 and 4 tasks on a GPU each, with competing roots, transfers of three durations, a collective of either kind; no end of simulation, or one that cuts work off | 5,140 | all eleven properties of `TaskGraph`, refinement and termination included |
| `root_transfers` | two root transfers | - | finding 2 |
| `allreduce` | four classes, groups of 1 to 4, two rings, sizes on both sides of every threshold, `uint32_t` as 64 | 71,518 | barriers, restart, completion |
| `allreduce_iterations` | ring of 3 | - | finding 1 |
| `reconfiguration` | two flows, of two segments and of one, two links with queues for one packet, two topologies, in one of which the flows meet and one crosses two links | 197,944 | the protocol's safety; reconfigurations end and flows finish |
| `tcp` | one flow of 5 segments, window up to 4, a queue for 2, late timeouts | 39,854 | loss, fast recovery, completion |
| `ndp` | two flows, 3 and 1 packets on single paths or 2 and 1 scattered, first window 2, a queue for one packet and one header, two trims or returns | 98,101 | every packet is in one place, the window is kept, flows end or are stranded |
| `forwarding` | 15 networks of all topologies, packets returned up to twice | 49,344 | routes are right and packets arrive |
| `optimizer` | 5 nodes with 3 interfaces, all demands of up to 3 pairs and two sizes, and the generator | 641,190 | degrees, shortest routes, termination |
| `optimizer_connected` | the same | - | finding 3 |
| `lossless` | `LOSSLESS_INPUT`, two switches, four hosts, traffic both ways, eight packets, input queues for 4 | 99,955 | no loss; pauses and goes match, also when a go finds a host serving; delivery |
| `lossless_switch` | `LOSSLESS`, one switch, two hosts that send five packets each | - | finding 4 |

Bounds, and why they are enough. In `taskgraph` the second application is
shorter, so that it restarts while the first runs, and is caught by the end in
every stage; two roots per device make waiting and simultaneous events happen;
transfer times include ones longer and shorter than the computation they
overlap. Times are bounded because the run ends. In `allreduce`, groups of 3
and 4 tell neighbours from pairs, one node is the special case, and sizes 1 to
67 with `Mtu` 3 lie below, at and above both thresholds and above the limit of
the integer. Repetition of iterations needs no bound: `Reset` returns to a
finite state. In `reconfiguration` a queue for one packet makes drops common;
a second reconfiguration during or after every state of a flow is reached since
the scheduler never stops. `tcp` is the smallest in which three duplicates
follow a loss, with room for a partial acknowledgement. In `ndp` the third packet
to arrive at once finds both lists full, so that trimming, returning the
arriving header and returning the one queued last all happen, and a pull may
come before or after the packet it is for; `MaxTrims` bounds how often, and
packets then wait for room. Each topology of `forwarding` is the smallest with
all its cases (same rack, same pod, other pod) and with unequal numbers of
switches in its layers, so that an index in the wrong terms leaves the tables; the sources are at both ends and in
the middle. Five nodes are the fewest that leave a component of three and one
of two to join, or an odd node without a partner, and sizes 1 and 6 make
demands that are and are not divided. In `lossless` the switch of
`a` passes its packets on to another switch and to two hosts, over as many queues as
may drain the input queue from 3 packets to none while `a` sends one: a go finds
`a` serving, and a second service event its queue empty (five packets of `a` are needed
for that, and as many to fill the 4 places). Three packets each way fill the
input queues at both ends of the link between the switches above the
threshold, so that each pauses the queue that feeds it while it is paused by the other. Both in one
behaviour have too many states; `ApartSpec` has the behaviours of `Spec` in which either
`c` sends, or `a` sends to the hosts of its own switch. What a host sends is not under
fairness, so that nothing fair is cut off.

Deadlock is checked in `allreduce`, `allreduce_iterations`, `reconfiguration`
and `tcp`, which never stop. The other systems do: a simulation ends with an
empty event list, flows and packets arrive, and the optimiser returns. There the
liveness properties say that they do not stop early.

### Fairness

`TaskGraph` assumes weak fairness of its whole next-state relation only: `main`
runs the next event as long as there is one. In `Allreduce`, flows in the
network complete, which is what the `tcp` run shows of TCP; nothing makes a
collective start. In `Reconfiguration` the event list runs each source, queue,
pipe and scheduler event that is due, the scanner comes round, and a timer that
remains armed expires: no event is postponed for ever because each has a time
and time advances. Nothing makes a flow connect, and losses are not fair:
`EveryFlowFinishes` holds since dropping needs a queue full of other packets,
which are served.

In `Ndp` the event list runs what is due: each flow starts, the queue serves,
messages and packets arrive, the pacer fires and its interval passes. A packet
that waits for room waits because `MaxTrims` is used up, and the queue is
served. `Forwarding` assumes that a packet that is being sent goes on; queues
return it only so often. `LosslessNetwork` assumes weak fairness of the event
list as a whole, as `TaskGraph` does. `TopologyOptimizer` assumes that the
program runs, which includes that a draw that is repeated fits at last.

### What the code does not do

1. `EveryIterationSendsTheSame` (`ffapp.cpp:849`). A ring operator smaller than
   9000 bytes per node has its size multiplied by 2(n-1)/n when it starts, and
   `reset` does not restore it, so that the amount sent changes from one
   iteration to the next.
2. `NoEventInThePast` for root transfers (`ffapp.cpp:612`). Root tasks are
   started one picosecond apart, but a transfer connects at its `ready_time`,
   which for a root is earlier: the assertion `when>=now()` of
   `sourceIsPending` fails for every root transfer that is not the first of the
   root tasks. Graphs whose
   roots are all compute tasks, as those of training steps, are not affected;
   `MCTaskGraph` is of that kind.
3. `AllConnected` (`dyn_net_sch.cpp:1519`). To join two components of several
   nodes each, `connect_cc` exchanges the ends of one link of each and counts
   one component less. When both links are bridges two components remain, some
   pairs of nodes get no route, and the check that would tell
   (`dyn_net_sch.cpp:1536`) is commented out. `JoiningJoins` is what is true: no
   step makes components more, and a single node always joins.
4. `EventsFindPackets` (`queue.cpp:196`). A GO that comes while a host's queue
   serves a packet begins a second service.
   If that packet was the last, the second event finds no packet, and the assertion
   `!_queue[_servicing].empty()` (`queue.cpp:244`) fails; if it was not, two events
   serve the queue at twice the speed of the link until it is empty. Two queues of
   a switch with `LOSSLESS` suffice: both are full and pause the same hosts
   (`queue_lossless.cpp:129`), the GO of the one releases the hosts although the other is
   still `PAUSED`, and the GO of the other comes when they serve. A large switch with
   `LOSSLESS_INPUT` does it with one input queue; `lossless` gets there too.
   `PausesAreMatched` is what is true all the
   same: no pause, go or service is lost, the queues of switches, which look
   at `_sending`, have one event, and so have hosts at switches with few ports.

No main selects `LOSSLESS` or `LOSSLESS_INPUT`: finding 4 is about the library. So are two
more weaknesses of `LOSSLESS`, which TLC shows on other instances of the module and which
have no run. Since the queue that is still `PAUSED` when another has released its senders does not
pause them again, it grows past its size (in the switch of `lossless_switch`, with thirteen packets of
`a` and four of `b`); with `LOSSLESS_INPUT` each link has one buffer that pauses it, and nothing
overflows. And a full queue pauses all queues that lead to its switch except
the one from its own neighbour, whether or not they send
anything into it (`switch.cpp:15`): in a pod of a fat tree the queues from one lower
switch up to an upper one, from there down to the other, up to the other
upper one and back down may each wait for the next, although no route is a circle. It
takes seven packets each way between two hosts, at thresholds of 3 and 2; it was found
among the behaviours in which both halves of the pod do the same in turn, all others being too
many to explore.

Smaller things seen while modelling, none of which a run is spent on: the reverse route of
`FlatTopology` is one link short (`flat_topology.cpp:346`; nothing returns there);
a fat tree with `LOSSLESS` has no switches in three of its variants
(`agg_os_fattree.cpp`, `os_fattree.cpp`, the 3:1 tree), and
`FCTopology` and `FlatTopology` configure them in a loop up to the queue size;
the assertion of `dyn_net_sch.cpp:807` cannot fail; `FatTreeTopology` accepts
an odd `K` from its other constructor; `CamCubeTopology` with an even `K` returns
only the forward one of two equally short ways around an axis (`camcubetopology.cpp:118`),
so that the run takes an odd one where it asks for every shortest path.

## 4. The proofs

The theorems on task graphs hold for every set of tasks, task graph, assignment of devices,
run times, transfer times and ends of simulation that satisfies
`GraphAssumption`, `DeviceAssumption` and `TimeAssumption`.

* `TaskGraph_proofs!Inductive` proves the inductive invariant

      IInv == TypeOK /\ CountersAreExact /\ OneEventPerTask
              /\ FinishedAreCounted /\ AppsAreCounted

  None of the first three is inductive alone. A counter stays exact only if the
  task that finishes had not finished before, which is the part of
  `OneEventPerTask` that says events belong to ready or running tasks; a woken
  successor gets its only event because, its counter having been above 0, it
  was not ready and so had none; and a restart may give every root an event
  only because no task of the application had one, which follows when all its
  tasks have finished, that is, when `n_finished_tasks` really counts finished
  tasks (`FinishedAreCounted`). `AppsAreCounted` does the same for
  `finished_apps`. Events are kept apart by their task alone, so the order of events
  plays no part.
* `TypeCorrect`, `CountersCorrect` and `EventsCorrect` are its consequences
  for `TypeOK`, `CountersAreExact` and `OneEventPerTask`. About three dozen
  lemmas carry them: the effect of `WakeSuccessors` and of `ResetAndRestart` on
  each variable, cardinalities of the sets of unfinished predecessors and of
  finished tasks, and one lemma per action.
* `TaskGraph_proofs!Refinement`: `Spec => ImplementsTaskDag`. Under
  the mapping of `done` to the finished tasks and `once` to `finished_once`,
  `Cleanup` maps to `Finish`, `FinishAll` or `FinishIteration` and every other
  action to a stutter; `IInv` supplies that a task that finishes had all its
  predecessors finished and that the two counts mean what `TaskDag` says.
* `TaskGraph_proofs!DevicesCorrect`: `Spec => []DeviceIsExclusive`. The
  invariant adds to `IInv` that events of compute tasks are task events, and
  for each device that it is busy exactly while one task runs. A restart frees
  no device behind a running task's back because the last task has finished
  by then.
* `TaskGraph_proofs!NoWakeupIsLost`: `Spec => []NoTaskIsLost`, by
  induction from `IInv`. A task whose counter reaches 0 is in the batch of
  events of the cleanup that counted it down; one that was awake before keeps
  its event, because an action takes away only the event it runs, and a task
  that runs and does not finish schedules itself; a restart schedules the roots,
  and only they have a counter of 0 then. The property excludes simulations
  with an end, which drop events on purpose, and, since `endtime` 0 means no
  end, also the one in which the last application finished at time 0.
* `TaskGraph_proofs!RestartsAreClean`: `Spec => RestartIsClean`. The
  invariant of the devices is extended by the numbering of insertions: every
  pending event has a number below `stamp`, so that no event a handler inserts
  equals one that is pending. Only the cleanup of an application's last task
  resets its count; all tasks being finished, the invariant leaves no event of
  them but the one that runs, and none of their devices is busy. Applications
  share no device (`DeviceAssumption`).
* `TaskGraph_proofs!EventsAreAhead`, `DevicesNeverIdle` and
  `ResultsAreCompletionTimes` are about time: until every application has
  completed an iteration `NoEventInThePast` and `DeviceIsWorkConserving` hold,
  and `ResultIsCompletionTime` always does. They hold together or not at all
  (`Timely`): a cleanup that takes place now wakes waiters for now; whoever waits
  for a device waits for the time the running task ends, and that task has the
  event that ends it or ends beyond the end of the simulation; and a cleanup
  takes place now because an event's ready time is its time. Two hypotheses
  are needed. `RootsCompute`: a root that is a transfer starts at a ready
  time that may have passed, which is finding 2, and the run `root_transfers` shows
  `NoEventInThePast` violated. And `finished_apps # NApps`: `sourceIsPending` asserts
  before it compares with the end (`eventlist.cpp:45`), and the end is set
  again by each application that completes after all have, so that events a
  device is waiting for may be dropped and its waiters be called late. With
  three applications TLC finds that the assertion fails after that end.
* `Allreduce_proofs!Inductive` proves for every strategy, group size, data size
  and number of rings that, while a collective runs, each ring that is not done
  is exact (`RingIsExact`): its flows in the network are all of its current
  round, there is one at least, the counter is the number of those that have come back, and the
  deliveries counted are the rounds done times the flows of a round plus those.
  None of it is inductive alone: a counter is right only if no flow of an
  earlier round is left, and that follows from the counter. `BarriersHold`
  (`RoundsAreBarriers`), `EveryStartIsFresh` (`StartsFresh`) and
  `FinishedMeansDelivered` (`FinishesWithTheLastFlow`) are its consequences.
* `Reconfiguration_proofs!Inductive` proves

      IInv == FlowsAreExact /\ PausedInReconf /\ SchedulerIsExclusive

  for every set of flows and links, sizes, capacities, windows and topologies.
  `FlowsAreExact` says that what a source takes as acknowledged is what its sink
  has in order, that a finished source's sink has everything, and that no
  handler leaves packets to send behind. Packets carry no acknowledgements, so
  that these three need nothing about the contents of queues: they hold
  whatever the network drops, repeats or reorders. That the sink's cumulative
  acknowledgement is well defined (`RunEnds`: in a finite set of segments a run
  has an end) is shown by counting.
  `SchedulerIsExclusive` needs `PausedInReconf`: a packet that leaves the
  network for good while flows are paused is followed by no other, and only the
  last one schedules. `AcknowledgedHasArrived` (`AckedIsReceived`),
  `SchedulerCorrect` (`SchedulerIsExclusive`) and `RewiringIsSafe`
  (`RewiredWhenDrained`) follow.
* `Reconfiguration_proofs!FlowsInductive` is about what is in the network:

      FInv == FlowsInv /\ NetInv /\ RouteInv /\ RoutesFollowTopology

  Packets are only of flows that have sent, and of a flow that is not
  established only its SYN; a flow's event is its start as long as it has sent nothing.
  None can do without the others: only because a start comes before anything
  is sent can it not un-establish a flow that has segments underway, and because the sink
  of a flow that is not established is empty, its first arrival is acknowledged
  as 1, which is what establishes the flow. Routes are replaced for every flow
  the scanner knows, so `RoutesFollowTopology` needs that it forgets only flows
  that have no event and so never send. `EventsAreSingle`
  (`OneEventPerSource`), `SynIsFirst` (`SynFirst`) and `RoutesAreOfTopology`
  (`RoutesFollowTopology`) are consequences. What the loops of a handler send
  (`send_packets`, `retransmit_packet`) is a recursive function in `Tcp`; the lemmas
  about it are by induction on the number of segments left.
* `Reconfiguration_proofs!PausedMeansQuiet`: `Spec => QuietWhilePaused`. The
  packets in the network are counted by their places. A packet that arrives
  vacates one; what its acknowledgement releases is noted and not sent, as the
  handler looks at the pause; a packet that is served or forwarded moves from
  one place to one.
* `Ndp_proofs!LedgersAreKept` proves

      NdpInv == Types /\ Ledger /\ Budget /\ Acknowledged /\ Finishing

  for any number of flows, packets per flow, window and capacity of the queue.
  Each part is an account that balances. `Ledger`: each packet sent is once in
  exactly one of: underway, the queue (whole, trimmed or returned), a negative
  acknowledgement or return on its way, the retransmission queue, the
  sink. `Budget`: packets and requests underway and the pulls granted but not
  used are at most a window; a handler spends a unit when it sends, and a pull
  carries what the sink has granted since the last one, so that lost
  order between pulls changes nothing. `Acknowledged`: the packets the
  sink has are those acknowledged and those whose acknowledgement is underway.
  `Finishing`: the acknowledgement of everything exists once, because
  the sink's cumulative acknowledgement reaches the end once; no later
  packet can arrive, all being in the ledger once. `PacketsAreInOnePlace`
  (`EveryPacketIsInOnePlace`), `WindowsAreKept` (`WindowIsKept`), `CallbacksAreOnce`
  (`CallbackIsOnce`) and `NdpTypesHold` (`NdpTypeOK`) follow. The queue's part, that
  an arrival that trims, returns or makes room moves packets and loses none, is
  proved on its own from `CompositeQueue`.
* `TopologyOptimizer_proofs!DegreesAreKept`: `Spec => []DegreeIsKept`, for every
  number of nodes, every number of interfaces above 1 and every demand. The
  number of links of a node is a sum over a row of `conn` that each loop keeps in
  its own way, and the invariant says what each relies on:

      DInv == LinksFit /\ Tallied /\ Serving /\ Chaining /\ Filling

  A demand stays in the queue only while both of its nodes have an interface left
  by the tally (`Serving`); the last node of the chain has at most one link
  and those not yet chained none (`Chaining`); each entry of `node_with_avail_if` is another node
  with what its links leave of its interfaces, also after `Take` has erased one
  or both of two entries in place (`Filling`). `Join` needs nothing of this,
  because `add_link` counts for itself.
* `TopologyOptimizer_proofs!RoutesComputedAreShortest`: `Spec =>
  []RoutesAreShortest`, from

      SInv == DInv /\ LinksAreNat /\ Joining /\ Searching

  `Searching` is what a breadth first search keeps: distances are those over
  `prev`, a node that was expanded has no neighbour further than one hop more, and
  the queue is in the order of distances, which span at most 1. Ties may
  put a node into the queue a second time and change its predecessor, but only to one at
  the same distance. The code's "not reached" is the number of nodes, so that it must also
  be shown that no distance gets that far while a node is not reached
  (`DistancesAreSmall`, a pigeonhole argument). Then the nodes within so many hops are those
  with at most that distance, and the recursive `RouteTo`, whose existence follows
  with `RecursionExists`, has the length of the distance. That numbers of links never
  get negative (`LinksAreNat`), without which a link could be looked for where none is,
  needs the components that are joined: those are disjoint, and one with
  several nodes has a link to take away (`Joining`, from `ReachIsClosed`: as many
  hops as there are other nodes reach everything).
* `TopologyOptimizer_proofs!JoiningNeverSplits` (`Spec => JoiningJoins`), from
  `CInv == JInv /\ NoLoops(conn) /\ Apart /\ NotYet`: no node is linked with itself, no link
  leaves a component that is still to be joined, and none is listed before
  `connect_cc` begins. The components are counted by their first nodes, so that no
  path is needed: a set closed under links holds all that is reached from a node
  of it. Where a single node gets in between the ends of a link, what is reached only grows,
  and one of two first nodes is no longer one (`BridgeJoins`). Where two links are
  crossed, which may cut either component in two, the nodes that were reached
  from them lie in what is now reached from the ends of the first, so that the two first
  nodes of before are replaced by at most two (`CrossingJoins`), and nothing
  else changes. A single node has no links and at least two interfaces, the ends of the
  link keep their degree, so that `add_link` does not fail for it (`SingleNodeFits`).
* `SharedLemmas` holds what these proofs have in common. The induction theorems of the
  library take an operator, which cannot be instantiated here; stated for a set of numbers
  (`NatInductionOnSets`) induction needs none, and with `RecursionExists`, which is
  shown with it, a recursive function on numbers equals its definition.
  `Count` and its lemmas say how many entries of a sequence are in a set when it
  is extended, shortened or emptied.
* `LosslessNetwork_proofs!PauseAndGoMatch` (`PausesAreMatched`), `RoomIsKept` and
  `NothingIsDropped` (`NothingOverflows`), for `LOSSLESS_INPUT` and any routes,
  numbers of packets, thresholds, pipes and sizes that leave the room the
  constructor asks for, from

      LInv == Types /\ Serving /\ Levels /\ Headroom /\ Draining

  `Serving` ties the state of a queue to the one buffer it feeds and to its service
  events. Every queue is `Awake`, that is, sending while it may and has packets: a go
  that finds it serving may leave it an event too many, never one too few. A switch's
  queue is also `Sound`: it looks at `_sending`, so that its one event is there
  exactly while it has something to send or to finish. `Levels` keeps the load of a buffer
  at or above the lower threshold while its sender is paused, and at or below the
  upper one otherwise. `PauseAndGoMatch` needs no more, and no hypothesis on the ports: that of service events that find a packet is said of switches
  and of hosts by themselves, each host with `FewPorts` being `Sound`.
  `Headroom` is the account of a pause: the load of a buffer that has paused its
  sender, the packets on its link and the one its sender may still be sending
  are together at most one more than the upper threshold and what fits in the pipe.
  The pause adds nothing to that sum, since what is being sent is counted from
  then on, goes into the pipe, and from there into the buffer. That is one packet as long
  as the sender is `Sound`. A host is while no go finds it serving: `Draining` says that
  each queue of the switch has taken at most one packet from
  the buffer since the host's service began, and `FewPorts` that
  they are too few to empty it from one threshold to the other, with the code's
  thresholds of 15 and 12 packets four links of the switch besides the
  host's own. `RoomIsKept` is about each buffer by itself: `FewPorts` is asked of
  those that a host feeds, and all others are safe whatever the hosts do. The
  code does not check the number of ports; the run `lossless` has a host with more than
  `FewPorts` allows, and overflows nothing, and finding 4 shows what happens instead. The bound on a queue's
  packets in a host (`Backlog`) plays no part.
* `Forwarding_proofs!PacketsMoveAlongLinks`: `ForwardingSpec => MovesAlongLinks`
  for any topologies, under `RoutesLead`: every route `get_paths` may return
  is a walk over links of the topology, and, where queues return packets, its reverse is the
  walk back over the same nodes. The run checks just that of each of the fifteen
  networks (the first conjunct of `PathsAreAsPromised`); the theorem adds that
  nothing else matters. What is proved is the arithmetic: on a route of n links
  the queue of link j has place 2j - 1 of 2n + 1, `_nexthop` of a packet
  returned there becomes 2(n + 1 - j), and that place of the reverse begins at the
  node the packet is in. So the number of returns and the length of routes need no bound.
* `Forwarding_proofs!TopologyPathsAreAsPromised`: `ForwardingSpec /\ IsTopology(net)
  => []PathsAreAsPromised`, and `TopologiesMovePackets`, the same for
  `MovesAlongLinks`, so that `PacketsMoveAlongLinks` has instances without bounds.
  `IsTopology` is a tree (`FatTreeTopology`, `OverSubscribedFatTree` with any number of hosts in a
  rack, `AggOverSubscribedFatTree` with any number of ports up, the 3:1 tree,
  `OversubscribedFatTreeTopology`) with any even number of ports, VL2, the full mesh, a single
  switch, the star or a loaded flat network, between any of its hosts; thirteen
  of the fifteen networks of the run are of these kinds. The argument has three parts. Each tree
  builds a `PodTree`: the loops that create links, in which a switch is numbered by the loop,
  make the same links as the formulas for its neighbours in `get_paths`
  (`RackLinksAre`, `UpLinksAre`, `TopLinksAre`), and the routes are those of the pod
  tree, place by place. In a pod tree the routes lead over links and back
  (`TreeRoutes`). And they are all shortest walks: `Hops` bounds from below how far a node is
  from the destination, since no link brings a packet closer by more than one
  (`HopsOfLink`), and every walk of 2, 4 or 6 links between hosts goes up and
  down again through a rack, an upper or a core switch (`RackWalks`, `PodWalks`,
  `CoreWalks`). The recursive functions of `ShortestWalks` equal their
  definitions by `RecursionExists`. Of the hypotheses, `NT` at most ten times `NA` in VL2 is what
  keeps C's `%` from making the number of an aggregation switch negative
  (`main.h:18`), routes of a flat network are as good as the file they are
  read from, and its queues return nothing. Of trees with an odd number of ports, for
  which the divisions of `init_network` lose a link, nothing is claimed.

Only model-checked, and why:

* liveness (`SimulationEnds`, `EveryCollectiveFinishes`,
  `EveryReconfigurationEnds`, `EveryFlowFinishes`, `FlowsEnd`, `Delivered`,
  `ATopologyIsComputed`, `EverythingArrives`), out of the prover's reach under
  fairness;
* `NoEventInThePast` and `DeviceIsWorkConserving` after every application has completed an
  iteration, and for graphs that begin with a transfer, where the former is false;
* `PathsAreAsPromised` for BCube, whose addresses are digits of a number in any
  base and whose routes are a fold over the levels, and for CamCube, whose routes are recursive
  in the servers; neither recursion is on a number, as the lemmas here would need;
* `LosslessNetwork` with `LOSSLESS`, where `NothingOverflows` and `EventsFindPackets` are
  false (section 3); `NothingOverflows` of hosts at switches with more
  ports than `FewPorts` allows.

## 5. Not modelled

* Congestion control proper: window growth, RTT estimation, DCTCP's `alfa` and
  marking at the ECN queue. They are floating-point arithmetic; `Tcp` allows any
  window. Multipath TCP (`mtcp.cpp`) is the same arithmetic over several
  sources; its data sequence numbers are under `MODEL_RECEIVE_WINDOW`, which no
  Makefile defines.
* RCP, constant-rate sources and QCN: rates in floating point, and no main for
  task graphs selects them.
* Other queues: priorities (`PriorityQueue` only as far as it obeys pause
  frames), `CompositePrioQueue`, `CutPayloadQueue`, `CtrlPrioQueue`, `ExoQueue`,
  `RandomQueue`. They share
  the service loop of the queues that are modelled.
* The optimisers that call Gurobi (the solver is external), and the timing of
  queues in a lossless network (one packet size, one priority).
* The expander topology, which no rule of the Makefile builds; speeds and sizes
  of queues in topologies; the virtual input queues that LOSSLESS_INPUT adds to routes.
* Traffic matrices, loaders, argument parsing, loggers, clock, configuration:
  input, output and random workloads.
* Vendored and generated code: `json.hpp` alone is 25,347 lines, the protobuf
  and flatbuffers code another 8,700. It is more than half of what the
  repository holds, so that no faithful map of the simulator's logic covers a
  third of all lines; of the code that is neither, about a third is mapped.

`PROJECT.json` gives the reason for each component.

## 6. Plan

Done, in the order of importance: task graph execution, collectives, TCP with
the reconfiguration protocol, NDP with its queue, the optimiser, forwarding over
all topologies, the lossless network; theorems on all of them.

Next, modelling:

1. `Dctcp`: window, slow start, `alfa` and marking at a queue, in scaled
   integers, as a refinement of the free choice of window in `Tcp`.
2. `CompositePrioQueue`, with `Ndp` taking either queue.
3. `ExpanderTopology`, and the node group of the new rings (`ffapp.cpp:1047`)
   with the nodes a flow connects in `Allreduce`.

Next, proving:

1. The routes of BCube and CamCube for every size, with the recursion of both restated on
   the number of digits or hops that are left.
