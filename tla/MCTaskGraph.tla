---------------------------- MODULE MCTaskGraph ----------------------------
(***************************************************************************)
(* Two applications.  The first is a step of data-parallel training: two   *)
(* roots that compete for one GPU, a transfer, two tasks that queue on the *)
(* same GPU, and a collective that waits for all.  The second is shorter,  *)
(* so that it restarts while the first runs and can be caught in the       *)
(* middle of a transfer by the end of the simulation: two roots that       *)
(* compete for a GPU, a transfer and a collective over one node.           *)
(***************************************************************************)
EXTENDS TaskGraph

MCTasks == {"f1", "f2", "x", "y", "g", "ar", "h1", "h2", "k", "lar"}
MCDevices == {"gpu1", "gpu2"}
First == {"f1", "f2", "x", "y", "g", "ar"}

MCApp == [t \in MCTasks |-> IF t \in First THEN 1 ELSE 2]
MCKind == [t \in MCTasks |->
  CASE t \in {"x", "k"} -> "comm" [] t = "ar" -> "allreduce"
    [] t = "lar" -> "local_allreduce" [] OTHER -> "compute"]
MCDevice == [t \in {"f1", "f2", "y", "g", "h1", "h2"} |->
  IF t \in First THEN "gpu1" ELSE "gpu2"]
MCNextTasks == [t \in MCTasks |->
  CASE t = "f1" -> <<"x", "y">> [] t \in {"f2", "y", "g"} -> <<"ar">> [] t = "x" -> <<"g">>
    [] t = "h1" -> <<"k", "lar">> [] t \in {"h2", "k"} -> <<"lar">> [] OTHER -> <<>>]
MCRunTime == [t \in MCTasks |->
  CASE t = "f2" -> 4 [] t \in {"f1", "h2"} -> 2 [] OTHER -> 1]
MCXferTimes == {1, 2, 5}
MCSimEnds == {0, 5, 9}
=============================================================================
