------------------------------ MODULE PodTree ------------------------------
(***************************************************************************)
(* What the pod based trees of clos/datacenter build, in the terms of one  *)
(* tree: pods of t.racks racks with t.hosts hosts each and of t.uppers     *)
(* upper switches, each of them linked to all racks of its pod.  There are *)
(* 2 * t.racks pods.  The core switches come in t.uppers groups of t.racks *)
(* each; an upper switch is linked to those of one group, and each group   *)
(* has an upper switch in every pod.                                       *)
(***************************************************************************)
EXTENDS Routes

TreeHosts(t) == 0..2 * t.racks * t.racks * t.hosts - 1
TreeLowers(t) == 0..2 * t.racks * t.racks - 1
TreeUppers(t) == 0..2 * t.racks * t.uppers - 1
TreeCores(t) == 0..t.uppers * t.racks - 1

RackOf(t, h) == h \div t.hosts
PodOfRack(t, j) == j \div t.racks
PodOfUpper(t, k) == k \div t.uppers
GroupOfUpper(t, k) == k % t.uppers
GroupOfCore(t, c) == c \div t.racks

\* The upper switch of a pod that is linked to a group of core switches.
UpperOf(t, pod, group) == pod * t.uppers + group

UppersOfPod(t, pod) == {k \in TreeUppers(t) : PodOfUpper(t, k) = pod}
CoresAbove(t, k) == {c \in TreeCores(t) : GroupOfCore(t, c) = GroupOfUpper(t, k)}

RackLinks(t) == UNION {Both(Lower(RackOf(t, h)), Host(h)) : h \in TreeHosts(t)}
UpLinks(t) ==
  UNION {UNION {Both(Lower(j), Upper(k)) : k \in UppersOfPod(t, PodOfRack(t, j))} :
           j \in TreeLowers(t)}
TopLinks(t) == UNION {UNION {Both(Upper(k), Core(c)) : c \in CoresAbove(t, k)} : k \in TreeUppers(t)}

TreeLinks(t) == RackLinks(t) \cup UpLinks(t) \cup TopLinks(t)

PathsInPod(t, s, d) ==
  {ViaUpper(s, RackOf(t, s), k, RackOf(t, d), d) : k \in UppersOfPod(t, PodOfRack(t, RackOf(t, s)))}

PathsOverCore(t, s, d) ==
  LET down(c) == UpperOf(t, PodOfRack(t, RackOf(t, d)), GroupOfCore(t, c))
  IN  UNION {{ViaCore(s, RackOf(t, s), k, c, down(c), RackOf(t, d), d) : c \in CoresAbove(t, k)} :
               k \in UppersOfPod(t, PodOfRack(t, RackOf(t, s)))}

TreePaths(t, s, d) ==
  IF RackOf(t, s) = RackOf(t, d) THEN {ViaRack(s, RackOf(t, s), RackOf(t, d), d)}
  ELSE IF PodOfRack(t, RackOf(t, s)) = PodOfRack(t, RackOf(t, d)) THEN PathsInPod(t, s, d)
  ELSE PathsOverCore(t, s, d)
=============================================================================
