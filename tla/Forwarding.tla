----------------------------- MODULE Forwarding -----------------------------
(***************************************************************************)
(* A packet on the routes of a topology: sendOn, bounce and unbounce of    *)
(* Packet (network.cpp), with the endpoints a source adds to a route       *)
(* (route.cpp) and the routes get_paths returns for it.                    *)
(*                                                                         *)
(* Source, queues, pipes and sinks hand the packet on with sendOn.  A full *)
(* queue of a switch returns it (CompositeQueue); its source then sends it *)
(* again, on any of the routes.  Packets that are dropped are left out.    *)
(***************************************************************************)
EXTENDS Routes, SequencesExt

CONSTANTS
  Nets,        \* the topologies
  Ends,        \* Ends[n]: the pairs of source and destination considered
  Links,       \* Links[n]: the links init_network creates
  PathSets,    \* PathSets[n][pair]: the sets of routes get_paths may return
  Bouncing,    \* the topologies whose queues are CompositeQueues
  Ecmp,        \* those that return every shortest path
  Parallel,    \* those that return one path for each level of switches
  MaxBounces   \* bound: how often the packet is returned

ASSUME ForwardingAssumption ==
  /\ Bouncing \subseteq Nets /\ Ecmp \subseteq Nets /\ Parallel \subseteq Nets
  /\ MaxBounces \in Nat

VARIABLES
  net, src, dst,  \* the topology and the pair
  paths,          \* what get_paths returned
  packet,         \* its _route, _nexthop and _bounced, and the element it is at
  bounces         \* counts up to MaxBounces

forwardingVars == <<net, src, dst, paths, packet, bounces>>

Element(kind, from, to) == [kind |-> kind, from |-> from, to |-> to]
End(node) == Element("end", node, node)
AssertFailed == Element("assert", <<"none">>, <<"none">>)

\* A queue and a pipe for each link.
Elements(links) ==
  [i \in 1..2 * Len(links) |->
     LET link == links[(i + 1) \div 2]
     IN  Element(IF i % 2 = 1 THEN "queue" ELSE "pipe", link[1], link[2])]

\* add_endpoints: the sinks of the route and of its reverse.
Out(route) ==
  (IF route.feeder THEN <<Element("feeder", src, src)>> ELSE <<>>)
    \o Elements(route.out) \o <<End(dst)>>
Back(route) == Elements(route.back) \o <<End(src)>>

SendOn(p) ==
  LET sinks == IF p.bounced THEN Back(p.route) ELSE Out(p.route)
      asserted == p.bounced => p.nexthop > 0 /\ p.nexthop < Len(Out(p.route))
  IN  IF asserted /\ p.nexthop < Len(sinks)
      THEN [p EXCEPT !.at = sinks[p.nexthop + 1], !.nexthop = @ + 1]
      ELSE [p EXCEPT !.at = AssertFailed]

\* Faulty: the decrement that is commented out.
BounceBehind(p) == [p EXCEPT !.bounced = TRUE, !.nexthop = Len(Out(p.route)) - @ - 1]

Bounce(p) == [p EXCEPT !.bounced = TRUE, !.nexthop = Len(Out(p.route)) - p.nexthop]

\* Faulty: the packet keeps its place on the route.
UnbounceInPlace(p) == [p EXCEPT !.bounced = FALSE]

Unbounce(p) == [p EXCEPT !.bounced = FALSE, !.nexthop = 0]

ForwardingInit ==
  /\ net \in Nets
  /\ \E pair \in Ends[net] :
       /\ src = pair[1] /\ dst = pair[2]
       /\ paths \in PathSets[net][pair]
  /\ packet = [route |-> OneWay(<<>>), nexthop |-> 0, bounced |-> FALSE, at |-> Element("source", src, src)]
  /\ bounces = 0

\* The source sends the packet for the first time.
Start ==
  /\ packet.at.kind = "source"
  /\ \E route \in paths : packet' = SendOn([packet EXCEPT !.route = route])
  /\ UNCHANGED <<net, src, dst, paths, bounces>>

\* A queue or a pipe is done with it.
Forward ==
  /\ packet.at.kind \in {"feeder", "queue", "pipe"}
  /\ packet' = SendOn(packet)
  /\ UNCHANGED <<net, src, dst, paths, bounces>>

\* A full queue returns it; the queue out of a host is a PriorityQueue, which does not.
Return ==
  /\ net \in Bouncing /\ bounces < MaxBounces
  /\ packet.at.kind = "queue" /\ packet.at.from[1] # "host"
  /\ ~packet.bounced /\ packet.route.reversible
  /\ packet' = SendOn(Bounce(packet))
  /\ bounces' = bounces + 1
  /\ UNCHANGED <<net, src, dst, paths>>

\* The source has it back and sends it again.
Resend ==
  /\ packet.at = End(src) /\ packet.bounced
  /\ \E route \in paths : packet' = SendOn([Unbounce(packet) EXCEPT !.route = route])
  /\ UNCHANGED <<net, src, dst, paths, bounces>>

ForwardingNext == Start \/ Forward \/ Return \/ Resend

ForwardingSpec ==
  /\ ForwardingInit /\ [][ForwardingNext]_forwardingVars
  /\ WF_forwardingVars(Start) /\ WF_forwardingVars(Forward) /\ WF_forwardingVars(Resend)

(***************************************************************************)
(* Properties.                                                             *)
(***************************************************************************)

\* A packet is at its element's near end, and past the end of a pipe it leaves.
Leaves(element) == IF element.kind = "pipe" THEN element.to ELSE element.from

Exists(element) ==
  element.kind \in {"queue", "pipe"} => <<element.from, element.to>> \in Links[net]

\* A packet is handed on where it is, to a queue or pipe that init_network has
\* created, and no assert of sendOn fails.  get_paths computes the numbers of
\* switches in other terms than init_network does, and takes NULL where they
\* disagree; the place of a bounced packet on the reverse route is computed from
\* its place on the route.
MovesAlongLinks ==
  [][/\ packet'.at # AssertFailed /\ Exists(packet'.at)
     /\ Leaves(packet.at) = packet'.at.from]_packet

\* A packet reaches its destination, however often a queue has returned it.
Delivered == <>(packet.at = End(dst))

Nodes(route) == <<src>> \o [i \in 1..Len(route.out) |-> route.out[i][2]]

\* Those nodes and the ones a link leads from to one of them.
Closer(nodes) == nodes \cup {l[1] : l \in {link \in Links[net] : link[2] \in nodes}}

\* Within(hops)[i]: the nodes within i hops of dst.
Within(hops) ==
  LET within[i \in 0..hops] == IF i = 0 THEN {dst} ELSE Closer(within[i - 1])
  IN  within

\* The walks with one more link, to one of those nodes.
Onward(walks, nodes) ==
  UNION {{Append(w, l[2]) : l \in {link \in Links[net] : link[1] = Last(w) /\ link[2] \in nodes}} :
           w \in walks}

\* Approaching(hops)[i]: the walks of i links from src that can still end in dst after that
\* many hops.
Approaching(hops) ==
  LET within == Within(hops)
      walks[i \in 0..hops] == IF i = 0 THEN {<<src>>} ELSE Onward(walks[i - 1], within[hops - i])
  IN  walks

\* All walks of that many hops from src to dst, if there is no shorter one.
ShortestWalks(hops) ==
  IF src \in Within(hops)[hops - 1] THEN {} ELSE Approaching(hops)[hops]

EveryShortestPath == {Nodes(r) : r \in paths} = ShortestWalks(Len((CHOOSE r \in paths : TRUE).out))

DisjointPaths ==
  \A p, q \in paths : p # q =>
    {p.out[i][2] : i \in 1..Len(p.out)} \cap {q.out[i][2] : i \in 1..Len(q.out)} = {dst}

Walks(links, from, to, n) ==
  /\ Len(links) \in Nat \ {0}
  /\ links[1][1] = from /\ links[Len(links)][2] = to
  /\ \A i \in 1..Len(links) : <<links[i][1], links[i][2]>> \in Links[n]
  /\ \A i \in 1..Len(links) - 1 : links[i][2] = links[i + 1][1]

Mirrors(back, out) ==
  /\ Len(back) = Len(out)
  /\ \A i \in 1..Len(out) :
       LET link == out[Len(out) + 1 - i] IN back[i][1] = link[2] /\ back[i][2] = link[1]

\* A route over links of the topology, and, where queues return packets, back over
\* the same nodes.
IsRoute(r, from, to, n) ==
  /\ Walks(r.out, from, to, n)
  /\ n \in Bouncing /\ r.reversible =>
       ~r.feeder /\ Walks(r.back, to, from, n) /\ Mirrors(r.back, r.out)

\* What load is spread over, and what forwarding relies on: the routes of a pair
\* lead from one to the other and back; get_paths of a tree returns every shortest
\* path between two hosts and nothing else; the parallel paths of BCube share
\* neither a switch nor a server.
PathsAreAsPromised ==
  packet.at.kind = "source" =>
    /\ \A r \in paths : IsRoute(r, src, dst, net)
    /\ net \in Ecmp => EveryShortestPath
    /\ net \in Parallel => DisjointPaths
=============================================================================
