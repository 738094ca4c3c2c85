-------------------------------- MODULE VL2 --------------------------------
(***************************************************************************)
(* VL2Topology (vl2_topology.cpp): NT racks of NS hosts, each below two of *)
(* NA aggregation switches, all of them below all NI intermediate ones.    *)
(***************************************************************************)
EXTENDS Routes

CONSTANTS NI, NA, NT, NS  \* main.h: 3, 6, 9 and 20

NT2A == 2

HOST_TOR(host) == host \div NS
TOR_AGG1(tor) == tor % NA
TOR_AGG2(tor) == (10 * NA - tor - 1) % NA

VL2Links ==
  (UNION {Both(Lower(j), Host(j * NS + k)) : j \in 0..NT - 1, k \in 0..NS - 1}) \cup
  (UNION {Both(Lower(j), Upper(TOR_AGG1(j))) \cup Both(Lower(j), Upper(TOR_AGG2(j))) :
            j \in 0..NT - 1}) \cup
  (UNION {Both(Core(j), Upper(k)) : j \in 0..NI - 1, k \in 0..NA - 1})

\* Route i of 4 * NI: i picks the first aggregation switch by its half, the
\* intermediate switch by its quotient and the second aggregation switch by its parity.
VL2Route(s, d, i) ==
  LET up == IF i < 2 * NI THEN TOR_AGG1(HOST_TOR(s)) ELSE TOR_AGG2(HOST_TOR(s))
      down == IF i % NT2A = 0 THEN TOR_AGG1(HOST_TOR(d)) ELSE TOR_AGG2(HOST_TOR(d))
  IN  OneWay(Walk(<<Host(s), Lower(HOST_TOR(s)), Upper(up), Core(i \div 4), Upper(down),
                    Lower(HOST_TOR(d)), Host(d)>>))

VL2Paths(s, d) ==
  IF HOST_TOR(s) = HOST_TOR(d) THEN {OneWay(Walk(<<Host(s), Lower(HOST_TOR(s)), Host(d)>>))}
  ELSE {VL2Route(s, d, i) : i \in 0..4 * NI - 1}
=============================================================================
