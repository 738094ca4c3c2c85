-------------------------- MODULE Reconfiguration --------------------------
(***************************************************************************)
(* The reconfigurable network: DynFlatScheduler (dyn_net_sch.cpp) over the *)
(* flows, queues and pipes of module Tcp.  The scheduler pauses the flows, *)
(* waits until the network has drained, installs a new topology and new    *)
(* routes, and after the reconfiguration delay resumes the flows.          *)
(*                                                                         *)
(* Nobody waits explicitly: every queue and pipe that finishes with a      *)
(* packet while the status is RECONF calls do_reconf, which looks whether  *)
(* it was the last.  The optimiser that computes the topology is left out: *)
(* any topology may follow any other.                                      *)
(***************************************************************************)
EXTENDS Tcp

CONSTANT Topologies   \* a topology gives each flow the set of its routes (get_paths)

ASSUME TopologyAssumption ==
  Topologies \subseteq [Flows -> (SUBSET Routes) \ {{}}]

VARIABLES
  status,    \* "LIVE" or "RECONF"
  scheduled, \* the number of events of the scheduler in the event list
  topo       \* the topology the queues have bandwidth for

schedVars == <<status, scheduled, topo>>
vars == <<tcpVars, schedVars>>

Init ==
  /\ TcpInit
  /\ status = "LIVE"
  /\ scheduled = 1
  /\ topo \in Topologies

-----------------------------------------------------------------------------
\* Faulty: packets in the pipes are not looked at.
QueuesAreEmpty == \A l \in Links : queue[l] = <<>>

\* What set_all_queues_pause_recved and do_reconf look for.
Drained == NetworkIsEmpty

\* Faulty: the flows that have sent nothing yet keep their route.
StartedFlows == {f \in ToSet(tcps) : src[f].highest_sent > 0}

\* The flows update_all_route goes through: those the scanner knows.
RoutedFlows == ToSet(tcps)

RoutesIn(t) == UNION {t[f] : f \in Flows}

\* do_reconf in a handler that leaves sources and network as primed, when n
\* events of the scheduler are pending.  If the network has drained, the
\* demand is that of the unfinished flows, the finished ones are forgotten; the
\* optimiser answers with a topology; every flow is routed over it; and the
\* scheduler comes back after the reconfiguration delay.
DoReconf(n, drained) ==
  IF drained
  THEN /\ tcps' = Unfinished(src')
       /\ events' = EventsCancelled(src')
       /\ topo' \in Topologies
       /\ \E r \in [Flows -> RoutesIn(topo')] :
            /\ \A f \in RoutedFlows' : r[f] \in topo'[f]
            /\ route' = [f \in Flows |-> IF f \in RoutedFlows' THEN r[f] ELSE route[f]]
       /\ scheduled' = n + 1
  ELSE /\ scheduled' = n
       /\ UNCHANGED <<tcps, events, topo, route>>

\* Faulty: the topology is installed when a packet finds the network drained,
\* also if there is no packet.
AlwaysWait == FALSE

NothingToWaitFor == Drained

\* doNextEvent of the scheduler while LIVE: start_reconf.
StartReconf ==
  /\ status = "LIVE" /\ scheduled > 0
  /\ status' = "RECONF"
  /\ paused' = TRUE
  /\ UNCHANGED <<src, sink, netVars>>
  /\ DoReconf(scheduled - 1, NothingToWaitFor)

\* Faulty: what was held back is forgotten without being sent.
Forget(f, s) == [s EXCEPT !.has_pending_send = FALSE, !.has_pending_retrans = FALSE]

\* resume_flow: what was held back is sent, first the window, then the retransmission.
Resume(f, s) ==
  LET s1 == IF s.has_pending_send THEN SendPackets(f, s) ELSE s
      s2 == IF s.has_pending_retrans THEN Retransmit(s1) ELSE s1
  IN  [s2 EXCEPT !.has_pending_send = FALSE, !.has_pending_retrans = FALSE]

\* The queues after the flows have been resumed in the order of the scanner.
SentByAll ==
  LET sent[i \in 0..Len(tcps)] ==
        IF i = 0 THEN queue ELSE SentOn(sent[i - 1], tcps[i], Resume(tcps[i], src[tcps[i]]))
  IN  sent[Len(tcps)]

\* doNextEvent of the scheduler while RECONF: finish_reconf resumes all flows.
FinishReconf ==
  /\ status = "RECONF" /\ scheduled > 0
  /\ status' = "LIVE"
  /\ paused' = FALSE
  /\ src' = [f \in Flows |-> IF f \in ToSet(tcps)
                             THEN [Resume(f, src[f]) EXCEPT !.out = <<>>] ELSE src[f]]
  /\ queue' = SentByAll
  /\ UNCHANGED <<sink, events, tcps, pipe, route, scheduled, topo>>

\* A queue or a pipe has finished with a packet, and tells the scheduler.
Packet(l) ==
  /\ PacketEvent(l)
  /\ UNCHANGED status
  /\ IF status = "RECONF" THEN DoReconf(scheduled, Drained')
     ELSE UNCHANGED <<tcps, events, route, scheduled, topo>>

ConnectFlow(f) == (\E r \in topo[f] : Connect(f, r)) /\ UNCHANGED schedVars

RunSource(f) == SrcEvent(f) /\ UNCHANGED schedVars

ScanTimers(expired) == Scan(expired) /\ UNCHANGED schedVars

Next ==
  \/ \E f \in Flows : ConnectFlow(f) \/ RunSource(f)
  \/ \E expired \in SUBSET Expirable : ScanTimers(expired)
  \/ \E l \in Links : Packet(l)
  \/ StartReconf \/ FinishReconf

\* The event list runs every event that is due, the scanner comes round, and a
\* timer that is neither stopped nor restarted expires.  Nothing makes a flow connect.
Fairness ==
  /\ \A f \in Flows : WF_vars(RunSource(f))
  /\ \A f \in Flows : WF_vars(\E expired \in SUBSET Expirable : f \in expired /\ ScanTimers(expired))
  /\ \A l \in Links : WF_vars(Packet(l))
  /\ WF_vars(StartReconf) /\ WF_vars(FinishReconf)

Spec == Init /\ [][Next]_vars /\ Fairness
-----------------------------------------------------------------------------
(* Properties.                                                             *)

\* The scheduler is driven from two sides, its own event and the last packet to
\* leave the network: it has one event while LIVE, one once the network has
\* drained, and none, so that nothing resumes the flows early, while it drains
\* (also the assertion dyn_net_sch.cpp:354 that finish_reconf finds empty queues).
SchedulerIsExclusive ==
  IF status = "RECONF" /\ ~ NetworkIsEmpty THEN scheduled = 0 ELSE scheduled = 1

\* No packet is in the network while routes are replaced: update_route deletes
\* the route that the packets of the flow point to.
RewiredWhenDrained ==
  [][(\E f \in Flows : route[f] # <<>> /\ route'[f] # route[f]) \/ topo' # topo
        => NetworkIsEmpty']_vars

\* The places of queues and pipes that hold a packet.
Places ==
  ({"queue"} \X UNION {{l} \X DOMAIN queue[l] : l \in Links})
    \cup ({"pipe"} \X UNION {{l} \X DOMAIN pipe[l] : l \in Links})

InNetwork == Cardinality(Places)

\* While the flows are paused packets only leave: no path through the sources
\* (start, acknowledgement, duplicate, timeout) sends.
QuietWhilePaused ==
  [][paused /\ paused' => InNetwork' <= InNetwork]_vars

\* Every unfinished flow is routed over links that have bandwidth in the
\* topology that is installed, also one that connects during a reconfiguration.
RoutesFollowTopology ==
  \A f \in ToSet(tcps) : ~ src[f].finished => route[f] \in topo[f]

\* The network drains, and every reconfiguration ends.
EveryReconfigurationEnds == status = "RECONF" ~> status = "LIVE"

\* A flow that connects is finished, whatever is reconfigured meanwhile.
EveryFlowFinishes == \A f \in Flows : route[f] # <<>> ~> src[f].finished
=============================================================================
