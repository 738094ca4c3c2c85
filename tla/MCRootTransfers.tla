-------------------------- MODULE MCRootTransfers --------------------------
(***************************************************************************)
(* Two transfers that depend on nothing, and a task that waits for both.   *)
(***************************************************************************)
EXTENDS TaskGraph

MCTasks == {"x1", "x2", "c"}
MCDevices == {"gpu"}
MCApp == [t \in MCTasks |-> 1]
MCKind == [t \in MCTasks |-> IF t = "c" THEN "compute" ELSE "comm"]
MCDevice == [t \in {"c"} |-> "gpu"]
MCNextTasks == [t \in MCTasks |-> IF t = "c" THEN <<>> ELSE <<"c">>]
MCRunTime == [t \in MCTasks |-> 1]
MCXferTimes == {1}
MCSimEnds == {0}
=============================================================================
