------------------------------ MODULE OsFatTree ------------------------------
(***************************************************************************)
(* OverSubscribedFatTree (os_fattree.cpp): racks of Nhpr hosts, at least   *)
(* K/2, take the ports of a lower switch from its K - Nhpr uplinks.        *)
(***************************************************************************)
EXTENDS Routes

CONSTANTS K, Nhpr  \* K is even, and Nhpr is in (K \div 2)..(K - 1)

Nlp == (K * K) \div 2
Nup == K * (K - Nhpr)

Rack(h) == h \div Nhpr
Pod(h) == h \div ((Nhpr * K) \div 2)
UppersOf(pod) == {pod * (K - Nhpr) + u : u \in 0..(K - Nhpr) - 1}

OsHostLinks == UNION {Both(Lower(j), Host(j * Nhpr + l)) : j \in 0..Nlp - 1, l \in 0..Nhpr - 1}

OsPodLinks ==
  UNION {Both(Upper(k), Lower(((k \div (K - Nhpr)) * K) \div 2 + l)) :
           k \in 0..Nup - 1, l \in 0..(K \div 2) - 1}

OsCoreLinks ==
  UNION {Both(Upper(j), Core(((j % (K - Nhpr)) * K) \div 2 + l)) :
           j \in 0..Nup - 1, l \in 0..(K \div 2) - 1}

OsSamePodPaths(s, d) ==
  {ViaUpper(s, Rack(s), upper, Rack(d), d) : upper \in UppersOf(Pod(s))}

OsOtherPodPaths(s, d) ==
  {ViaCore(s, Rack(s), Pod(s) * (K - Nhpr) + u, u * (K \div 2) + c,
           Pod(d) * (K - Nhpr) + u, Rack(d), d) :
     u \in 0..(K - Nhpr) - 1, c \in 0..(K \div 2) - 1}

OsPaths(s, d) ==
  CASE Rack(s) = Rack(d) -> {ViaRack(s, Rack(s), Rack(d), d)}
    [] Rack(s) # Rack(d) /\ Pod(s) = Pod(d) -> OsSamePodPaths(s, d)
    [] OTHER -> OsOtherPodPaths(s, d)

OsLinks == OsHostLinks \cup OsPodLinks \cup OsCoreLinks
=============================================================================
