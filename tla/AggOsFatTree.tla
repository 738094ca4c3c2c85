---------------------------- MODULE AggOsFatTree ----------------------------
(***************************************************************************)
(* AggOverSubscribedFatTree (agg_os_fattree.cpp): the racks of a full fat  *)
(* tree, K/2 hosts each, with only UpPort upper switches in a pod.         *)
(***************************************************************************)
EXTENDS Routes

CONSTANTS K, UpPort  \* positive; K is even

Nhpr == K \div 2
Nlp == (K * K) \div 2
Nup == K * UpPort

Rack(h) == h \div Nhpr
Pod(h) == h \div ((Nhpr * K) \div 2)
UppersPerPod == Nup \div K

AggHostLinks == UNION {Both(Lower(j), Host(j * Nhpr + l)) : j \in 0..Nlp - 1, l \in 0..Nhpr - 1}

AggPodLinks ==
  UNION {Both(Upper(k), Lower(((k \div UppersPerPod) * K) \div 2 + l)) :
           k \in 0..Nup - 1, l \in 0..(K \div 2) - 1}

AggCoreLinks ==
  UNION {Both(Upper(j), Core(((j % UppersPerPod) * K) \div 2 + l)) :
           j \in 0..Nup - 1, l \in 0..(K \div 2) - 1}

AggSamePodPaths(s, d) ==
  {ViaUpper(s, Rack(s), Pod(s) * UppersPerPod + u, Rack(d), d) : u \in 0..UppersPerPod - 1}

AggOtherPodPaths(s, d) ==
  {ViaCore(s, Rack(s), Pod(s) * UppersPerPod + u, u * (K \div 2) + c,
           Pod(d) * UppersPerPod + u, Rack(d), d) :
     u \in 0..UppersPerPod - 1, c \in 0..(K \div 2) - 1}

AggPaths(s, d) ==
  CASE Rack(s) = Rack(d) -> {ViaRack(s, Rack(s), Rack(d), d)}
    [] Rack(s) # Rack(d) /\ Pod(s) = Pod(d) -> AggSamePodPaths(s, d)
    [] OTHER -> AggOtherPodPaths(s, d)

AggLinks == AggHostLinks \cup AggPodLinks \cup AggCoreLinks
=============================================================================
