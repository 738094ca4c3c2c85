------------------------------- MODULE FatTree -------------------------------
(***************************************************************************)
(* FatTreeTopology (fat_tree_topology.cpp): K pods of K/2 lower and K/2    *)
(* upper switches, K/2 hosts per lower switch, K*K/4 core switches.        *)
(***************************************************************************)
EXTENDS Routes

CONSTANT NoOfNodes  \* the number of hosts asked for; positive

Capacity(k) == (k * k * k) \div 4

\* set_params grows K until the tree is large enough; it exits if it is larger.
K == CHOOSE k \in 1..4 * NoOfNodes :
       /\ Capacity(k) >= NoOfNodes
       /\ \A smaller \in 1..k - 1 : Capacity(smaller) < NoOfNodes
IsAccepted == Capacity(K) = NoOfNodes

NK == (K * K) \div 2
NC == (K * K) \div 4
NSRV == Capacity(K)

HOST_POD_SWITCH(h) == (2 * h) \div K
HOST_POD(h) == h \div NC
PodIds(pod) == ((pod * K) \div 2)..(((pod + 1) * K) \div 2 - 1)

HostLinks ==
  UNION {Both(Lower(j), Host((j * K) \div 2 + l)) : j \in 0..NK - 1, l \in 0..(K \div 2) - 1}

PodLinks ==
  UNION {UNION {Both(Lower(j), Upper(k)) : k \in PodIds((2 * j) \div K)} : j \in 0..NK - 1}

CoreLinks ==
  UNION {Both(Upper(j), Core(((j % (K \div 2)) * K) \div 2 + l)) :
           j \in 0..NK - 1, l \in 0..(K \div 2) - 1}

\* Faulty: the loop stops one core switch early.
AllButTheLastCore(upper) ==
  LET podpos == upper % (K \div 2)
  IN  ((podpos * K) \div 2)..(((podpos + 1) * K) \div 2 - 2)

\* Of the core switches above an upper switch, each has one way down.
CoresOf(upper) ==
  LET podpos == upper % (K \div 2)
  IN  ((podpos * K) \div 2)..(((podpos + 1) * K) \div 2 - 1)

\* Faulty: the position of the core switch itself, and not its group's.
DownByCore(core, d) == (HOST_POD(d) * K) \div 2 + (core % (K \div 2))

UpperDown(core, d) == (HOST_POD(d) * K) \div 2 + (2 * core) \div K

SamePodPaths(s, d) ==
  {ViaUpper(s, HOST_POD_SWITCH(s), upper, HOST_POD_SWITCH(d), d) :
     upper \in PodIds(HOST_POD(s))}

OtherPodPaths(s, d) ==
  UNION {{ViaCore(s, HOST_POD_SWITCH(s), upper, core, UpperDown(core, d), HOST_POD_SWITCH(d), d) :
            core \in CoresOf(upper)} : upper \in PodIds(HOST_POD(s))}

FatTreePaths(s, d) ==
  IF HOST_POD_SWITCH(s) = HOST_POD_SWITCH(d)
  THEN {ViaRack(s, HOST_POD_SWITCH(s), HOST_POD_SWITCH(d), d)}
  ELSE IF HOST_POD(s) = HOST_POD(d) THEN SamePodPaths(s, d) ELSE OtherPodPaths(s, d)

FatTreeLinks == HostLinks \cup PodLinks \cup CoreLinks
=============================================================================
