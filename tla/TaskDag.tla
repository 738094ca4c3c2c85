------------------------------ MODULE TaskDag ------------------------------
(***************************************************************************)
(* What the execution of task graphs promises, without time, devices,      *)
(* counters or events: a task finishes only after all its predecessors of  *)
(* the same iteration, and once per iteration; an application that has     *)
(* finished all its tasks starts over, all at once, as long as some        *)
(* application has not completed an iteration.                             *)
(***************************************************************************)
CONSTANTS Apps, Tasks, App, Preds(_)

VARIABLES
  done,   \* the tasks that have finished in the current iteration
  once    \* the applications that have completed an iteration

dagVars == <<done, once>>

Init == done = {} /\ once = {}

Ready(t) == t \notin done /\ Preds(t) \subseteq done

CompletesIteration(t) == {u \in Tasks : App[u] = App[t]} \subseteq done \cup {t}

\* A task finishes; its application has others to do.
Finish(t) ==
  /\ Ready(t) /\ ~ CompletesIteration(t)
  /\ done' = done \cup {t}
  /\ UNCHANGED once

\* The last task of an application finishes and every application has now
\* completed an iteration: nothing starts over any more.
FinishAll(t) ==
  /\ Ready(t) /\ CompletesIteration(t)
  /\ once' = once \cup {App[t]}
  /\ once' = Apps
  /\ done' = done \cup {t}

\* The last task of an application finishes; the application starts over.
FinishIteration(t) ==
  /\ Ready(t) /\ CompletesIteration(t)
  /\ once' = once \cup {App[t]}
  /\ once' # Apps
  /\ done' = {u \in done : App[u] # App[t]}

Next == \E t \in Tasks : Finish(t) \/ FinishAll(t) \/ FinishIteration(t)

Spec == Init /\ [][Next]_dagVars
=============================================================================
