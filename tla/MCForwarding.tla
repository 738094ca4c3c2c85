---------------------------- MODULE MCForwarding ----------------------------
(***************************************************************************)
(* Small networks of every topology of clos/datacenter.                    *)
(***************************************************************************)
EXTENDS Forwarding, TLC

Tree == INSTANCE FatTree WITH NoOfNodes <- 16
Os == INSTANCE OsFatTree WITH K <- 4, Nhpr <- 3
WideOs == INSTANCE OsFatTree WITH K <- 4, Nhpr <- 2
Agg == INSTANCE AggOsFatTree WITH K <- 4, UpPort <- 1
WideAgg == INSTANCE AggOsFatTree WITH K <- 4, UpPort <- 3
Three == INSTANCE FatTree3to1
Over == INSTANCE OversubscribedFatTree WITH K <- 4
Cube == INSTANCE BCube WITH Ports <- 3, Levels <- 1
DeepCube == INSTANCE BCube WITH Ports <- 2, Levels <- 2
Vl2 == INSTANCE VL2 WITH NI <- 3, NA <- 6, NT <- 9, NS <- 2
Cam == INSTANCE CamCube WITH K <- 3

\* A flat network in which 0 reaches 2 directly and by way of 1.
Flat == INSTANCE FlatNetworks WITH
  NoOfFlat <- 4,
  Conn <- {<<0, 1>>, <<1, 2>>, <<2, 0>>, <<2, 3>>},
  FlatRoutes <- <<0, 2>> :> {<<0, 2>>, <<0, 1, 2>>} @@ <<0, 3>> :> {<<0, 2, 3>>, <<0, 1, 2, 3>>}

Pairs(ids, from) == {<<Host(s), Host(d)>> : s \in from, d \in ids} \ {<<Host(s), Host(s)>> : s \in ids}
NodePairs == {<<Flat!Node(s), Flat!Node(d)>> : s, d \in 0..3} \ {<<Flat!Node(s), Flat!Node(s)>> : s \in 0..3}

MCEnds ==
  [tree |-> Pairs(0..15, {0, 6, 15}), os |-> Pairs(0..23, {0, 23}), wide_os |-> Pairs(0..15, {5}),
   agg |-> Pairs(0..15, {0, 15}), wide_agg |-> Pairs(0..15, {5}),
   three |-> Pairs({8, 9, 53, 54, 323, 647}, {0, 323}),
   over |-> Pairs(0..63, {0, 63}), cube |-> Pairs(0..8, 0..8), deep_cube |-> Pairs(0..7, 0..7),
   vl2 |-> Pairs(0..17, {0, 9}), cam |-> Pairs(0..26, {0, 14}),
   fc |-> NodePairs,
   flat |-> {<<Flat!Node(0), Flat!Node(2)>>, <<Flat!Node(0), Flat!Node(3)>>},
   test |-> Pairs(0..3, 0..3), star |-> Pairs(0..3, 0..3)]

MCNets == DOMAIN MCEnds
MCBouncing == {"tree", "os", "wide_os", "agg", "wide_agg", "three", "fc", "test"}
MCEcmp == MCNets \ {"flat", "vl2", "cube", "deep_cube"}
MCParallel == {"cube", "deep_cube"}

MCLinks ==
  [tree |-> Tree!FatTreeLinks, os |-> Os!OsLinks, wide_os |-> WideOs!OsLinks,
   agg |-> Agg!AggLinks, wide_agg |-> WideAgg!AggLinks, three |-> Three!Links3,
   over |-> Over!OvLinks, cube |-> Cube!BCubeLinks, deep_cube |-> DeepCube!BCubeLinks,
   vl2 |-> Vl2!VL2Links, cam |-> Cam!CamCubeLinks, fc |-> Flat!FCLinks,
   flat |-> Flat!FlatLinks, test |-> Flat!TestLinks, star |-> Flat!StarLinks]

PathsOf(n, s, d) ==
  CASE n = "tree" -> {Tree!FatTreePaths(s, d)}
    [] n = "os" -> {Os!OsPaths(s, d)}
    [] n = "wide_os" -> {WideOs!OsPaths(s, d)}
    [] n = "agg" -> {Agg!AggPaths(s, d)}
    [] n = "wide_agg" -> {WideAgg!AggPaths(s, d)}
    [] n = "three" -> {Three!Paths3(s, d)}
    [] n = "over" -> {Over!OvPaths(s, d)}
    [] n = "cube" -> Cube!BCubePaths(s, d)
    [] n = "deep_cube" -> DeepCube!BCubePaths(s, d)
    [] n = "vl2" -> {Vl2!VL2Paths(s, d)}
    [] n = "cam" -> {Cam!CamCubePaths(s, d)}
    [] n = "fc" -> {Flat!FCPaths(s, d)}
    [] n = "flat" -> {Flat!FlatPaths(s, d)}
    [] n = "test" -> {Flat!TestPaths(s, d)}
    [] n = "star" -> {Flat!StarPaths(s, d)}

MCPathSets == [n \in MCNets |-> [pair \in MCEnds[n] |-> PathsOf(n, pair[1][2], pair[2][2])]]
=============================================================================
