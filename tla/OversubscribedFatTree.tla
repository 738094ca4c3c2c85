------------------------ MODULE OversubscribedFatTree ------------------------
(***************************************************************************)
(* OversubscribedFatTreeTopology (oversubscribed_fat_tree_topology.cpp): a *)
(* fat tree of K pods whose racks hold 2K hosts.  Its routes have no       *)
(* reverse: a packet cannot bounce.                                        *)
(***************************************************************************)
EXTENDS Routes

CONSTANT K  \* positive

NK == (K * K) \div 2

PodSwitch(h) == (h \div 2) \div K
HostPod(h) == (h \div K) \div K
PodIds(pod) == ((pod * K) \div 2)..(((pod + 1) * K) \div 2 - 1)

OvHostLinks ==
  UNION {Both(Lower(j), Host(j * 2 * K + l)) : j \in 0..NK - 1, l \in 0..2 * K - 1}

OvPodLinks ==
  UNION {UNION {Both(Lower(j), Upper(k)) : k \in PodIds((2 * j) \div K)} : j \in 0..NK - 1}

OvCoreLinks ==
  UNION {Both(Upper(j), Core(((j % (K \div 2)) * K) \div 2 + l)) :
           j \in 0..NK - 1, l \in 0..(K \div 2) - 1}

NoReverse(route) == [route EXCEPT !.back = <<>>, !.reversible = FALSE]

CoresOf(upper) ==
  LET podpos == upper % (K \div 2)
  IN  ((podpos * K) \div 2)..(((podpos + 1) * K) \div 2 - 1)

OvSamePodPaths(s, d) ==
  {NoReverse(ViaUpper(s, PodSwitch(s), upper, PodSwitch(d), d)) : upper \in PodIds(HostPod(s))}

OvOtherPodPaths(s, d) ==
  UNION {{NoReverse(ViaCore(s, PodSwitch(s), upper, core,
                            (HostPod(d) * K) \div 2 + (2 * core) \div K, PodSwitch(d), d)) :
            core \in CoresOf(upper)} : upper \in PodIds(HostPod(s))}

OvPaths(s, d) ==
  CASE PodSwitch(s) = PodSwitch(d) -> {NoReverse(ViaRack(s, PodSwitch(s), PodSwitch(d), d))}
    [] PodSwitch(s) # PodSwitch(d) /\ HostPod(s) = HostPod(d) -> OvSamePodPaths(s, d)
    [] OTHER -> OvOtherPodPaths(s, d)

OvLinks == OvHostLinks \cup OvPodLinks \cup OvCoreLinks
=============================================================================
