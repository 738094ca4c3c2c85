------------------------------- MODULE Routes -------------------------------
(***************************************************************************)
(* What the static topologies (clos/datacenter) share: the names of nodes, *)
(* the links init_network creates, and the routes get_paths returns.       *)
(*                                                                         *)
(* A link is a pair of nodes and stands for a queue and the pipe behind    *)
(* it.  A route is kept as the links it takes, out and, if it was given a  *)
(* reverse for packets that bounce, back; feeder says that a queue of the  *)
(* source itself comes first.  The virtual queues that LOSSLESS_INPUT adds *)
(* to a route are left out.                                                *)
(***************************************************************************)
EXTENDS Integers, Sequences

Host(i) == <<"host", i>>
Lower(j) == <<"lower", j>>   \* switch of the lower layer of a pod, or of a rack
Upper(k) == <<"upper", k>>   \* switch of the upper layer of a pod
Core(c) == <<"core", c>>

Both(a, b) == {<<a, b>>, <<b, a>>}

\* The links between consecutive nodes.
Walk(nodes) == [i \in 1..Len(nodes) - 1 |-> <<nodes[i], nodes[i + 1]>>]

\* set_reverse on a pair of routes.
Reversible(out, back) == [out |-> out, back |-> back, reversible |-> TRUE, feeder |-> FALSE]
\* A route without reverse, through a queue of its own.
OneWay(out) == [out |-> out, back |-> <<>>, reversible |-> FALSE, feeder |-> TRUE]

\* The three shapes of route of the pod based trees: ts and td are the racks
\* of s and d, upper and upper2 the switches used in the pod of s and of d.
ViaRack(s, ts, td, d) ==
  Reversible(Walk(<<Host(s), Lower(ts), Host(d)>>), Walk(<<Host(d), Lower(td), Host(s)>>))

ViaUpper(s, ts, upper, td, d) ==
  Reversible(Walk(<<Host(s), Lower(ts), Upper(upper), Lower(td), Host(d)>>),
             Walk(<<Host(d), Lower(td), Upper(upper), Lower(ts), Host(s)>>))

ViaCore(s, ts, upper, core, upper2, td, d) ==
  Reversible(
    Walk(<<Host(s), Lower(ts), Upper(upper), Core(core), Upper(upper2), Lower(td), Host(d)>>),
    Walk(<<Host(d), Lower(td), Upper(upper2), Core(core), Upper(upper), Lower(ts), Host(s)>>))
=============================================================================
