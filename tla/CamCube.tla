------------------------------ MODULE CamCube ------------------------------
(***************************************************************************)
(* CamCubeTopology (camcubetopology.cpp): K * K * K servers, each linked   *)
(* to its neighbours in either direction of three axes that wrap around.   *)
(***************************************************************************)
EXTENDS Routes

CONSTANT K  \* at least 2

CubeServers == 0..(K * K * K) - 1
Axes == 0..2

\* address_from_srv
Address(srv, l) == (srv \div K^l) % K

\* The server whose address along axis l is moved by 1 or by K - 1.
Moved(srv, l, by) == srv + (((Address(srv, l) + by) % K) - Address(srv, l)) * K^l

CamCubeLinks ==
  {<<Host(srv), Host(Moved(srv, l, by))>> : srv \in CubeServers, l \in Axes, by \in {1, K - 1}}

\* get_distance: the way around the axis that is shorter, forwards when both are.
Backwards(s, d, l) == (Address(s, l) + K - Address(d, l)) % K
Forwards(s, d, l) == (Address(d, l) + K - Address(s, l)) % K

NextServer(s, d, l) ==
  Moved(s, l, IF Backwards(s, d, l) < Forwards(s, d, l) THEN K - 1 ELSE 1)

\* get_paths_camcube: every axis with a distance left may come next.
CamCubePaths(s, d) ==
  LET walks[crt \in CubeServers] ==
        UNION {LET n == NextServer(crt, d, l)
               IN  IF n = d THEN {<<Host(crt), Host(d)>>}
                   ELSE {<<Host(crt)>> \o walk : walk \in walks[n]} :
                 l \in {axis \in Axes : Address(crt, axis) # Address(d, axis)}}
  IN  {OneWay(Walk(walk)) : walk \in walks[s]}
=============================================================================
