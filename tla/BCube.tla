------------------------------- MODULE BCube -------------------------------
(***************************************************************************)
(* BCubeTopology (bcube_topology.cpp): Ports ^ (Levels + 1) servers, whose *)
(* addresses are their numbers in base Ports; the servers that differ in   *)
(* digit l only share a switch of level l.                                 *)
(***************************************************************************)
EXTENDS Routes, SequencesExt

CONSTANTS Ports, Levels  \* _NUM_PORTS, at least 2, and _K

Servers == 0..Ports^(Levels + 1) - 1

Switch(level, i) == <<"switch", level, i>>

\* address_from_srv: digit l of the server's number.
Digit(srv, l) == (srv \div Ports^l) % Ports

\* The digits other than l, read as a number.
SwitchOf(srv, l) == Switch(l, (srv \div Ports^(l + 1)) * Ports^l + (srv % Ports^l))

BCubeLinks == UNION {Both(Host(srv), SwitchOf(srv, l)) : srv \in Servers, l \in 0..Levels}

\* srv_from_address of the address of srv with digit l taken from d.
Correct(srv, d, l) == srv + (Digit(d, l) - Digit(srv, l)) * Ports^l

\* bcube_routing: correct the digits that differ, in the order of levels.
Routing(s, d, levels) ==
  LET Step(path, l) ==
        IF Digit(s, l) = Digit(d, l) THEN path
        ELSE LET crt == Last(path)[2] IN path \o <<SwitchOf(crt, l), Host(Correct(crt, d, l))>>
  IN  FoldLeft(Step, <<Host(s)>>, levels)

\* i, i - 1, ..., around the levels.
Downward(i) == [j \in 1..Levels + 1 |-> (i - (j - 1) + Levels + 1) % (Levels + 1)]

DcRouting(s, d, i) == Routing(s, d, Downward(i))

\* get_neighbour: a random server that differs from s in digit i only.
Neighbours(s, i) == {c \in Servers : /\ Digit(c, i) # Digit(s, i)
                                     /\ \A l \in 0..Levels \ {i} : Digit(c, l) = Digit(s, l)}

\* Faulty: the detour is corrected starting at the level it was taken on.
AltBackAtOnce(s, d, i, c) == Routing(s, c, Downward(Levels)) \o Tail(Routing(c, d, Downward(i)))

AltDcRouting(s, d, i, c) == Routing(s, c, Downward(Levels)) \o Tail(Routing(c, d, Downward(i - 1)))

\* One route per level; a level at which s and d agree makes a detour.
LevelPaths(s, d, i) ==
  IF Digit(s, i) # Digit(d, i) THEN {OneWay(Walk(DcRouting(s, d, i)))}
  ELSE {OneWay(Walk(AltDcRouting(s, d, i, c))) : c \in Neighbours(s, i)}

\* The route sets get_paths may return.
BCubePaths(s, d) ==
  {{choice[i] : i \in 0..Levels} :
     choice \in {f \in [0..Levels -> UNION {LevelPaths(s, d, i) : i \in 0..Levels}] :
                   \A i \in 0..Levels : f[i] \in LevelPaths(s, d, i)}}
=============================================================================
