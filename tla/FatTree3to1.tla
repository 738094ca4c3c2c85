----------------------------- MODULE FatTree3to1 -----------------------------
(***************************************************************************)
(* The 3:1 oversubscribed tree of fat_tree_topology_3to1_k12.cpp.  Every   *)
(* number is written out there: 72 racks of 9 hosts, pods of 6 racks and   *)
(* 3 upper switches, 6 core switches above each.                           *)
(***************************************************************************)
EXTENDS Routes

Nlp == 72
Nup == 36
Nhpr == 9

Rack3(h) == h \div Nhpr
Pod3(h) == h \div 54

HostLinks3 == UNION {Both(Lower(j), Host(j * Nhpr + l)) : j \in 0..Nlp - 1, l \in 0..Nhpr - 1}

PodLinks3 == UNION {Both(Upper(k), Lower((k \div 3) * 6 + l)) : k \in 0..Nup - 1, l \in 0..5}

CoreLinks3 == UNION {Both(Upper(j), Core((j % 3) * 6 + l)) : j \in 0..Nup - 1, l \in 0..5}

SamePodPaths3(s, d) == {ViaUpper(s, Rack3(s), Pod3(s) * 3 + u, Rack3(d), d) : u \in 0..2}

OtherPodPaths3(s, d) ==
  {ViaCore(s, Rack3(s), Pod3(s) * 3 + u, u * 6 + c, Pod3(d) * 3 + u, Rack3(d), d) :
     u \in 0..2, c \in 0..5}

Paths3(s, d) ==
  CASE Rack3(s) = Rack3(d) -> {ViaRack(s, Rack3(s), Rack3(d), d)}
    [] Rack3(s) # Rack3(d) /\ Pod3(s) = Pod3(d) -> SamePodPaths3(s, d)
    [] OTHER -> OtherPodPaths3(s, d)

Links3 == HostLinks3 \cup PodLinks3 \cup CoreLinks3
=============================================================================
