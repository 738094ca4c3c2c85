-------------------------- MODULE TaskGraph_proofs --------------------------
(***************************************************************************)
(* Proofs about the execution of task graphs: types, the exactness of the  *)
(* dependency counters, that no task is scheduled twice; then devices,     *)
(* restarts and time.  At the end: the implementation of TaskDag, with     *)
(* times, devices, dependency counters, events and counts of finished      *)
(* tasks left out (each cleanup is one step of the abstract specification, *)
(* every other event a stutter), and that no task is lost.                 *)
(***************************************************************************)
EXTENDS TaskGraph, FiniteSetTheorems, TLAPS

-----------------------------------------------------------------------------
(* What the assumptions say of a single task.                              *)

EventSet == [who : EventKinds, task : Tasks, when : Nat, ord : Nat]

\* Every set of tasks is finite, and its cardinality a number.
LEMMA FiniteTasks ==
  ASSUME NEW S \in SUBSET Tasks
  PROVE  IsFiniteSet(S) /\ Cardinality(S) \in Nat
BY FS_Subset, FS_CardinalityType, GraphAssumption

\* The successors and the predecessors of a task are tasks of its application.
LEMMA GraphFacts ==
  ASSUME NEW t \in Tasks
  PROVE  /\ App[t] \in Apps /\ NextTasks[t] \in Seq(Tasks)
         /\ Succs(t) \subseteq TasksOf(App[t])
         /\ Preds(t) \subseteq TasksOf(App[t])
         /\ \A u \in Tasks : u \in Succs(t) <=> t \in Preds(u)
<1>1. App[t] \in Apps /\ NextTasks[t] \in Seq(Tasks)
  BY GraphAssumption
<1>2. \A u \in Tasks : Succs(u) \subseteq Tasks
  BY GraphAssumption DEF Succs
<1>3. \A u \in Tasks : \A v \in Succs(u) : App[v] = App[u]
  BY GraphAssumption
<1>. QED  BY <1>1, <1>2, <1>3 DEF Preds, TasksOf

\* Only the root tasks are started again at the end of an iteration.
LEMMA StartedAreRoots ==
  ASSUME NEW a, NEW t \in Tasks
  PROVE  Started(a, t) \subseteq Roots
<1>. SUFFICES ASSUME NEW u \in Started(a, t), Preds(u) # {} PROVE FALSE
  BY DEF Started, Roots, TasksOf
<1>1. u \in Tasks /\ Preds(u) \subseteq Tasks
  BY DEF Started, TasksOf, Preds
<1>2. Cardinality(Preds(u)) = 0
  BY <1>1 DEF Started, Restored
<1>. QED  BY <1>1, <1>2, FiniteTasks, FS_EmptySet

-----------------------------------------------------------------------------
(* Types.                                                                  *)

LEMMA FireType ==
  ASSUME TypeOK, NEW e \in pending, NEW batch \in SUBSET EventSet, NEW n \in Nat,
         Fire(e, batch, n)
  PROVE  now' \in Nat /\ stamp' \in Nat /\ pending' \subseteq EventSet
BY DEF TypeOK, EventSet, Fire, Admitted

\* The events a handler schedules for the successors and the roots.
LEMMA EventType ==
  ASSUME TypeOK, NEW t \in Tasks, NEW when \in Nat, NEW i \in Nat, NEW who \in EventKinds
  PROVE  Event(who, t, when, i) \in EventSet
BY DEF TypeOK, Event, EventSet

LEMMA WakeEventsType ==
  ASSUME TypeOK, NEW t \in Tasks, NEW when \in Nat
  PROVE  WakeEvents(t, when) \subseteq EventSet /\ Len(NextTasks[t]) + 1 \in Nat
<1>1. NextTasks[t] \in Seq(Tasks)
  BY GraphFacts
<1>2. \A i \in DOMAIN NextTasks[t] : NextTasks[t][i] \in Tasks /\ i \in Nat
  BY <1>1
<1>3. \A i \in DOMAIN NextTasks[t] : Event("task", NextTasks[t][i], when, i) \in EventSet
  BY <1>2, EventType DEF EventKinds
<1>. QED  BY <1>1, <1>3 DEF WakeEvents

LEMMA InitEventsType ==
  ASSUME TypeOK, NEW t \in Tasks, NEW a, NEW time \in Nat
  PROVE  InitEvents(a, t, time) \subseteq EventSet
<1>. SUFFICES ASSUME NEW u \in Started(a, t)
              PROVE  Event("task", u, time + initPos[u], Len(NextTasks[t]) + 1 + initPos[u])
                       \in EventSet
  BY DEF InitEvents
<1>1. u \in Tasks /\ u \in Roots
  BY StartedAreRoots DEF Roots
<1>2. initPos[u] \in Nat /\ Len(NextTasks[t]) \in Nat
  BY <1>1, GraphFacts DEF TypeOK
<1>. QED  BY <1>1, <1>2, EventType DEF EventKinds

\* What one event leaves in the event list, and the types the loader gives.
LEMMA EventFacts ==
  ASSUME TypeOK, NEW e \in pending
  PROVE  /\ e \in EventSet /\ e.task \in Tasks /\ e.when \in Nat
         /\ App[e.task] \in Apps /\ NextTasks[e.task] \in Seq(Tasks)
         /\ RunTime[e.task] \in Nat
BY GraphAssumption, TimeAssumption DEF TypeOK, EventSet

\* What cleanup does to the task itself and to its successors.
LEMMA WakeSuccessorsType ==
  ASSUME TypeOK, NEW e \in pending, NEW when \in Nat, WakeSuccessors(e, when)
  PROVE  /\ now' \in Nat /\ stamp' \in Nat /\ pending' \subseteq EventSet
         /\ state' \in [Tasks -> States] /\ counter' \in [Tasks -> Int]
         /\ ready_time' \in [Tasks -> Nat] /\ finish_time' \in [Tasks -> Nat]
<1>1. e.task \in Tasks
  BY EventFacts
<1>2. WakeEvents(e.task, when) \subseteq EventSet /\ Len(NextTasks[e.task]) + 1 \in Nat
  BY <1>1, WakeEventsType
<1>3. now' \in Nat /\ stamp' \in Nat /\ pending' \subseteq EventSet
  BY <1>2, FireType DEF WakeSuccessors
<1>4. counter' \in [Tasks -> Int]
  BY DEF TypeOK, WakeSuccessors, Decremented
<1>5. state' \in [Tasks -> States]
  BY DEF TypeOK, WakeSuccessors, States
<1>6. ready_time' \in [Tasks -> Nat] /\ finish_time' \in [Tasks -> Nat]
  BY <1>1 DEF TypeOK, WakeSuccessors
<1>. QED  BY <1>3, <1>4, <1>5, <1>6

\* Every branch of cleanup keeps the types.
LEMMA CleanupMoreType ==
  ASSUME TypeOK, NEW e \in pending, NEW when \in Nat, CleanupMore(e, when)
  PROVE  /\ now' \in Nat /\ endtime' \in Nat /\ stamp' \in Nat /\ pending' \subseteq EventSet
         /\ state' \in [Tasks -> States] /\ counter' \in [Tasks -> Int]
         /\ ready_time' \in [Tasks -> Nat] /\ finish_time' \in [Tasks -> Nat]
         /\ n_finished_tasks' \in [Apps -> Nat] /\ finished_once' \subseteq Apps
         /\ first_iter_time' \in [Apps -> Nat] /\ finished_apps' \in Nat
<1>1. e.task \in Tasks /\ App[e.task] \in Apps
  BY EventFacts
<1>2. WakeSuccessors(e, when)
  BY DEF CleanupMore
<1>3. n_finished_tasks' \in [Apps -> Nat]
  BY <1>1 DEF TypeOK, CleanupMore
<1>. QED  BY <1>2, <1>3, WakeSuccessorsType DEF TypeOK, CleanupMore

LEMMA CountAppType ==
  ASSUME TypeOK, NEW a \in Apps, final_finish_time' \in [Apps -> Nat], CountApp(a)
  PROVE  /\ finished_once' \subseteq Apps /\ first_iter_time' \in [Apps -> Nat]
         /\ finished_apps' \in Nat
BY DEF TypeOK, CountApp, Result

LEMMA CleanupStopType ==
  ASSUME TypeOK, NEW e \in pending, NEW when \in Nat, final_finish_time' \in [Apps -> Nat],
         CleanupStop(e, when)
  PROVE  /\ now' \in Nat /\ endtime' \in Nat /\ stamp' \in Nat /\ pending' \subseteq EventSet
         /\ state' \in [Tasks -> States] /\ counter' \in [Tasks -> Int]
         /\ ready_time' \in [Tasks -> Nat] /\ finish_time' \in [Tasks -> Nat]
         /\ n_finished_tasks' \in [Apps -> Nat] /\ finished_once' \subseteq Apps
         /\ first_iter_time' \in [Apps -> Nat] /\ finished_apps' \in Nat
<1>1. e.task \in Tasks /\ App[e.task] \in Apps /\ e.when \in Nat
  BY EventFacts
<1>2. WakeSuccessors(e, when)
  BY DEF CleanupStop
<1>3. finished_once' \subseteq Apps /\ first_iter_time' \in [Apps -> Nat] /\ finished_apps' \in Nat
  BY <1>1, CountAppType DEF CleanupStop
<1>4. n_finished_tasks' \in [Apps -> Nat]
  BY <1>1 DEF TypeOK, CleanupStop
<1>5. endtime' \in Nat
  BY <1>1 DEF CleanupStop
<1>. QED  BY <1>2, <1>3, <1>4, <1>5, WakeSuccessorsType

LEMMA CleanupRestartType ==
  ASSUME TypeOK, NEW e \in pending, NEW when \in Nat, final_finish_time' \in [Apps -> Nat],
         CleanupRestart(e, when)
  PROVE  /\ now' \in Nat /\ endtime' \in Nat /\ stamp' \in Nat /\ pending' \subseteq EventSet
         /\ state' \in [Tasks -> States] /\ counter' \in [Tasks -> Int]
         /\ ready_time' \in [Tasks -> Nat] /\ finish_time' \in [Tasks -> Nat]
         /\ n_finished_tasks' \in [Apps -> Nat] /\ finished_once' \subseteq Apps
         /\ first_iter_time' \in [Apps -> Nat] /\ finished_apps' \in Nat
<1>. DEFINE t == e.task
            a == App[t]
            batch == WakeEvents(t, when) \cup InitEvents(a, t, e.when)
            calls == Len(NextTasks[t]) + 1 + Cardinality(Roots)
<1>1. t \in Tasks /\ a \in Apps /\ e.when \in Nat
  BY EventFacts
<1>2. batch \subseteq EventSet
  BY <1>1, WakeEventsType, InitEventsType
<1>3. calls \in Nat
  <2>1. Roots \subseteq Tasks
    BY DEF Roots
  <2>. QED  BY <1>1, <2>1, WakeEventsType, FiniteTasks
<1>4. Fire(e, batch, calls)
  BY DEF CleanupRestart, ResetAndRestart
<1>5. now' \in Nat /\ stamp' \in Nat /\ pending' \subseteq EventSet
  BY <1>2, <1>3, <1>4, FireType
<1>6. finished_once' \subseteq Apps /\ first_iter_time' \in [Apps -> Nat] /\ finished_apps' \in Nat
  BY <1>1, CountAppType DEF CleanupRestart
<1>7. \A u \in Tasks : Restored(t)[u] \in Int
  <2>. TAKE u \in Tasks
  <2>1. Cardinality(Preds(u)) \in Nat
    BY FiniteTasks DEF Preds
  <2>. QED  BY <2>1 DEF Restored, Decremented, TypeOK
<1>8. counter' \in [Tasks -> Int]
  BY <1>7 DEF CleanupRestart, ResetAndRestart, TypeOK
<1>. QED  BY <1>1, <1>5, <1>6, <1>8 DEF TypeOK, CleanupRestart, ResetAndRestart, States

LEMMA CleanupType ==
  ASSUME TypeOK, NEW e \in pending, NEW when \in Nat, Cleanup(e, when),
         device_state' \in [Devices -> {"IDLE", "BUSY"}], busy_up_to' \in [Devices -> Nat]
  PROVE  TypeOK'
<1>1. App[e.task] \in Apps
  BY EventFacts
<1>2. final_finish_time' \in [Apps -> Nat]
  BY <1>1 DEF Cleanup, Later, TypeOK
<1>3. initPos' \in [Roots -> Nat]
  BY DEF Cleanup, TypeOK
<1>4. CASE CleanupMore(e, when)
  BY <1>2, <1>3, <1>4, CleanupMoreType DEF TypeOK, EventSet
<1>5. CASE CleanupStop(e, when)
  BY <1>2, <1>3, <1>5, CleanupStopType DEF TypeOK, EventSet
<1>6. CASE CleanupRestart(e, when)
  BY <1>2, <1>3, <1>6, CleanupRestartType DEF TypeOK, EventSet
<1>. QED  BY <1>4, <1>5, <1>6 DEF Cleanup
LEMMA InitType == Init => TypeOK
<1>. SUFFICES ASSUME Init PROVE TypeOK
  OBVIOUS
<1>1. Roots \subseteq Tasks /\ Cardinality(Roots) \in Nat /\ Cardinality(Tasks) \in Nat
  BY FiniteTasks DEF Roots
<1>2. initPos \in [Roots -> Nat]
  <2>1. initPos \in [Roots -> 0..(Cardinality(Roots) - 1)]
    BY DEF Init, RootOrders
  <2>2. \A i \in 0..(Cardinality(Roots) - 1) : i \in Nat
    BY <1>1
  <2>. QED  BY <2>1, <2>2
<1>3. NApps \in Nat /\ \A t \in Tasks : App[t] \in Nat
  BY GraphAssumption DEF Apps
<1>4. now \in Nat /\ endtime \in Nat /\ stamp \in Nat
  BY <1>1, <1>3, TimeAssumption DEF Init
<1>5. pending \subseteq EventSet
  BY <1>1, <1>2, <1>3 DEF Init, EventSet, EventKinds
<1>6. counter \in [Tasks -> Int]
  <2>1. \A t \in Tasks : Cardinality(Preds(t)) \in Nat
    BY FiniteTasks DEF Preds
  <2>. QED  BY <2>1 DEF Init
<1>7. state \in [Tasks -> States]
  BY DEF Init, States
<1>. QED  BY <1>2, <1>4, <1>5, <1>6, <1>7 DEF Init, TypeOK, EventSet

\* Every step keeps the types: one step per action.
LEMMA NextType == TypeOK /\ [Next]_vars => TypeOK'
<1>1. ASSUME TypeOK, UNCHANGED vars PROVE TypeOK'
  BY <1>1 DEF TypeOK, vars, eventVars, taskVars, deviceVars, appVars
<1>2. ASSUME TypeOK, NEW e \in pending, DoNextEvent(e) PROVE TypeOK'
  <2>. USE <1>2
  <2>. DEFINE t == e.task
  <2>1. /\ t \in Tasks /\ e.when \in Nat /\ RunTime[t] \in Nat
        /\ ready_time[t] \in Nat /\ finish_time[t] \in Nat
    BY EventFacts DEF TypeOK
  <2>2. \A who \in EventKinds, when \in Nat : {Event(who, t, when, 0)} \subseteq EventSet
    BY <2>1, EventType
  <2>3. CASE ExecuteStart(e)
    <3>1. Device[t] \in Devices /\ EndOf(t, e.when) \in Nat
      BY <2>1, <2>3, DeviceAssumption DEF ExecuteStart, ComputeTasks, EndOf
    <3>2. Fire(e, {Event("task", t, EndOf(t, e.when), 0)}, 1)
      BY <2>3 DEF ExecuteStart
    <3>3. now' \in Nat /\ stamp' \in Nat /\ pending' \subseteq EventSet
      BY <2>2, <3>1, <3>2, FireType DEF EventKinds
    <3>4. state' \in [Tasks -> States] /\ finish_time' \in [Tasks -> Nat]
      BY <2>1, <2>3, <3>1 DEF ExecuteStart, TypeOK, States
    <3>5. device_state' \in [Devices -> {"IDLE", "BUSY"}] /\ busy_up_to' \in [Devices -> Nat]
      BY <2>3, <3>1 DEF ExecuteStart, TypeOK
    <3>. QED  BY <2>3, <3>3, <3>4, <3>5 DEF ExecuteStart, TypeOK, EventSet, appVars
  <2>4. CASE ExecuteWait(e)
    <3>1. Device[t] \in Devices
      BY <2>1, <2>4, DeviceAssumption DEF ExecuteWait, ComputeTasks
    <3>2. Release(t) \in Nat /\ Fire(e, {Event("task", t, Release(t), 0)}, 1)
      BY <2>4, <3>1 DEF ExecuteWait, Release, TypeOK
    <3>3. now' \in Nat /\ stamp' \in Nat /\ pending' \subseteq EventSet
      BY <2>2, <3>2, FireType DEF EventKinds
    <3>. QED  BY <2>4, <3>3 DEF ExecuteWait, TypeOK, EventSet, taskVars, deviceVars, appVars
  <2>5. CASE ExecuteFinish(e)
    <3>1. Cleanup(e, finish_time[t])
      BY <2>5 DEF ExecuteFinish
    <3>2. device_state' \in [Devices -> {"IDLE", "BUSY"}] /\ busy_up_to' \in [Devices -> Nat]
      BY <2>5 DEF ExecuteFinish, TypeOK
    <3>. QED  BY <2>1, <3>1, <3>2, CleanupType
  <2>6. CASE StartFlow(e)
    <3>1. Fire(e, {Event("connect", t, ready_time[t], 0)}, 1)
      BY <2>6 DEF StartFlow
    <3>2. now' \in Nat /\ stamp' \in Nat /\ pending' \subseteq EventSet
      BY <2>1, <2>2, <3>1, FireType DEF EventKinds
    <3>. QED  BY <2>6, <3>2 DEF StartFlow, TypeOK, EventSet, taskVars, deviceVars, appVars
  <2>7. CASE StartAllreduce(e)
    <3>1. Fire(e, {Event("connect", t, ready_time[t] + RunTime[t], 0)}, 1)
      BY <2>7 DEF StartAllreduce
    <3>2. now' \in Nat /\ stamp' \in Nat /\ pending' \subseteq EventSet
      BY <2>1, <2>2, <3>1, FireType DEF EventKinds
    <3>3. state' \in [Tasks -> States]
      BY <2>1, <2>7 DEF StartAllreduce, TypeOK, States
    <3>. QED  BY <2>7, <3>2, <3>3 DEF StartAllreduce, TypeOK, EventSet, deviceVars, appVars
  <2>8. CASE LocalAllreduce(e)
    <3>1. Cleanup(e, ready_time[t])
      BY <2>8 DEF LocalAllreduce
    <3>2. device_state' \in [Devices -> {"IDLE", "BUSY"}] /\ busy_up_to' \in [Devices -> Nat]
      BY <2>8 DEF LocalAllreduce, TypeOK, deviceVars
    <3>. QED  BY <2>1, <3>1, <3>2, CleanupType
  <2>9. CASE Connect(e)
    <3>1. PICK d \in XferTimes : Fire(e, {Event("deliver", t, e.when + d, 0)}, 1)
      BY <2>9 DEF Connect
    <3>2. d \in Nat
      BY TimeAssumption
    <3>3. now' \in Nat /\ stamp' \in Nat /\ pending' \subseteq EventSet
      BY <2>1, <2>2, <3>1, <3>2, FireType DEF EventKinds
    <3>. QED  BY <2>9, <3>3 DEF Connect, TypeOK, EventSet, taskVars, deviceVars, appVars
  <2>10. CASE TaskFinish(e)
    <3>1. Cleanup(e, e.when)
      BY <2>10 DEF TaskFinish
    <3>2. device_state' \in [Devices -> {"IDLE", "BUSY"}] /\ busy_up_to' \in [Devices -> Nat]
      BY <2>10 DEF TaskFinish, TypeOK, deviceVars
    <3>. QED  BY <2>1, <3>1, <3>2, CleanupType
  <2>11. CASE FlowCut(e)
    <3>1. now' \in Nat /\ stamp' \in Nat /\ pending' \subseteq EventSet
      BY <2>11, FireType DEF FlowCut
    <3>. QED  BY <2>11, <3>1 DEF FlowCut, TypeOK, EventSet, taskVars, deviceVars, appVars
  <2>. QED  BY <2>3, <2>4, <2>5, <2>6, <2>7, <2>8, <2>9, <2>10, <2>11 DEF DoNextEvent
<1>. QED  BY <1>1, <1>2 DEF Next

\* The variables keep their types, whatever the graphs, the devices and the
\* transfer times: counters stay integers and times natural numbers.
THEOREM TypeCorrect == Spec => []TypeOK
<1>1. Init => TypeOK
  BY InitType
<1>2. TypeOK /\ [Next]_vars => TypeOK'
  BY NextType
<1>. QED  BY <1>1, <1>2, PTL DEF Spec
-----------------------------------------------------------------------------
(* The inductive invariant.  The counters and the events are exact only    *)
(* together, and with the number of finished tasks: that number decides    *)
(* when the application restarts, and at a restart nothing must be left.   *)

FinishedOf(a) == {t \in TasksOf(a) : state[t] = "FINISHED"}

FinishedAreCounted == \A a \in Apps : n_finished_tasks[a] = Cardinality(FinishedOf(a))

AppsAreCounted == finished_apps = Cardinality(finished_once)

IInv ==
  /\ TypeOK
  /\ CountersAreExact
  /\ OneEventPerTask
  /\ FinishedAreCounted
  /\ AppsAreCounted

\* The task whose event runs has not finished, so that its successors have
\* not been woken; it is not its own successor.
LEMMA EventTask ==
  ASSUME IInv, NEW e \in pending
  PROVE  /\ e.task \in Tasks /\ state[e.task] \in {"READY", "RUNNING"}
         /\ counter[e.task] = 0 /\ e.task \notin Succs(e.task)
         /\ \A u \in Succs(e.task) : u \in Tasks /\ state[u] = "NOT_READY"
         /\ \A f \in pending \ {e} : f.task # e.task /\ f.task \notin Succs(e.task)
<1>. DEFINE t == e.task
<1>1. t \in Tasks
  BY EventFacts DEF IInv
<1>2. state[t] \in {"READY", "RUNNING"}
  BY DEF IInv, OneEventPerTask
<1>3. counter[t] = 0
  BY <1>1, <1>2 DEF IInv, CountersAreExact
<1>4. \A u \in Succs(t) : u \in Tasks /\ state[u] = "NOT_READY"
  <2>. SUFFICES ASSUME NEW u \in Succs(t) PROVE u \in Tasks /\ state[u] = "NOT_READY"
    OBVIOUS
  <2>1. u \in Tasks /\ t \in Preds(u)
    BY <1>1, GraphFacts DEF TasksOf
  <2>2. t \in Unfinished(u) /\ Unfinished(u) \subseteq Tasks
    BY <1>2, <2>1 DEF Unfinished, Preds
  <2>3. Cardinality(Unfinished(u)) # 0
    BY <2>2, FiniteTasks, FS_EmptySet
  <2>. QED  BY <2>1, <2>3 DEF IInv, CountersAreExact
<1>5. \A f \in pending : state[f.task] \in {"READY", "RUNNING"}
  BY DEF IInv, OneEventPerTask
<1>6. \A f \in pending \ {e} : f.task # t
  BY DEF IInv, OneEventPerTask
<1>. QED  BY <1>1, <1>2, <1>3, <1>4, <1>5, <1>6

\* At the last task of an iteration every other task of the application has
\* finished, and the last task has no successors.
LEMMA LastTask ==
  ASSUME IInv, NEW e \in pending, LastOfIteration(e.task)
  PROVE  /\ \A u \in TasksOf(App[e.task]) : u # e.task => state[u] = "FINISHED"
         /\ Succs(e.task) = {}
<1>. DEFINE t == e.task
            a == App[t]
<1>1. t \in Tasks /\ a \in Apps /\ t \in TasksOf(a) /\ TasksOf(a) \subseteq Tasks
  BY EventTask, GraphFacts DEF TasksOf
<1>2. t \notin FinishedOf(a) /\ FinishedOf(a) \cup {t} \subseteq TasksOf(a)
  BY <1>1, EventTask DEF FinishedOf
<1>3. Cardinality(FinishedOf(a) \cup {t}) = Cardinality(FinishedOf(a)) + 1
  BY <1>1, <1>2, FiniteTasks, FS_AddElement
<1>4. Cardinality(FinishedOf(a) \cup {t}) = Cardinality(TasksOf(a))
  BY <1>1, <1>3 DEF IInv, FinishedAreCounted, LastOfIteration
<1>5. FinishedOf(a) \cup {t} = TasksOf(a)
  BY <1>1, <1>2, <1>4, FiniteTasks, FS_Subset
<1>6. \A u \in TasksOf(a) : u # t => state[u] = "FINISHED"
  BY <1>5 DEF FinishedOf
<1>7. Succs(t) \subseteq TasksOf(a)
  BY <1>1, GraphFacts
<1>. QED  BY <1>6, <1>7, EventTask

\* The events for the successors: one for each task that is woken.
LEMMA WokenEvents ==
  ASSUME NEW t \in Tasks, NEW when
  PROVE  /\ \A f \in WakeEvents(t, when) : f.task \in Woken(t)
         /\ \A f, g \in WakeEvents(t, when) : f.task = g.task => f = g
<1>. DEFINE I == {i \in DOMAIN NextTasks[t] : NextTasks[t][i] \in Woken(t)}
<1>1. \A f \in WakeEvents(t, when) :
         \E i \in I : f = Event("task", NextTasks[t][i], when, i)
  BY DEF WakeEvents
<1>2. \A i \in I : Event("task", NextTasks[t][i], when, i).task = NextTasks[t][i]
  BY DEF Event
<1>3. \A i, j \in I : NextTasks[t][i] = NextTasks[t][j] => i = j
  BY GraphAssumption
<1>. QED  BY <1>1, <1>2, <1>3
\* The successors that are woken were waiting for the task alone.
LEMMA WokenFacts ==
  ASSUME IInv, NEW e \in pending
  PROVE  \A u \in Woken(e.task) : /\ u \in Tasks /\ state[u] = "NOT_READY" /\ u # e.task
                                  /\ \A f \in pending : f.task # u
<1>1. Woken(e.task) \subseteq Succs(e.task)
  BY DEF Woken
<1>. QED  BY <1>1, EventTask

\* Only the states of the task and of the tasks it wakes change.
LEMMA WakeSuccessorsStates ==
  ASSUME IInv, NEW e \in pending, NEW when, WakeSuccessors(e, when)
  PROVE  /\ state'[e.task] = "FINISHED"
         /\ \A u \in Woken(e.task) : state'[u] = "READY"
         /\ \A u \in Tasks \ (Woken(e.task) \cup {e.task}) : state'[u] = state[u]
         /\ \A u \in Tasks : state'[u] = "FINISHED" <=> state[u] = "FINISHED" \/ u = e.task
<1>1. e.task \in Tasks /\ e.task \notin Woken(e.task)
  BY EventTask, WokenFacts
<1>. QED  BY <1>1, WokenFacts DEF WakeSuccessors

LEMMA WakeSuccessorsCounters ==
  ASSUME IInv, NEW e \in pending, NEW when, WakeSuccessors(e, when)
  PROVE  CountersAreExact'
<1>. DEFINE t == e.task
<1>. SUFFICES ASSUME NEW u \in Tasks
              PROVE  /\ counter'[u] = Cardinality(Unfinished(u)')
                     /\ state'[u] # "NOT_READY" => counter'[u] = 0
  BY DEF CountersAreExact
<1>1. /\ t \in Tasks /\ Preds(u) \subseteq Tasks /\ Unfinished(u) \subseteq Tasks
      /\ counter[u] = Cardinality(Unfinished(u)) /\ counter[u] \in Int
      /\ state[u] # "NOT_READY" => counter[u] = 0
  BY EventTask DEF IInv, CountersAreExact, Unfinished, Preds, TypeOK
<1>2. Unfinished(u)' = Unfinished(u) \ {t}
  BY <1>1, WakeSuccessorsStates DEF Unfinished
<1>3. t \in Unfinished(u) <=> u \in Succs(t)
  BY <1>1, EventTask, GraphFacts DEF Unfinished
<1>4. counter'[u] = IF u \in Succs(t) THEN counter[u] - 1 ELSE counter[u]
  BY DEF WakeSuccessors, Decremented
<1>5. counter'[u] = Cardinality(Unfinished(u)')
  BY <1>1, <1>2, <1>3, <1>4, FiniteTasks, FS_RemoveElement
<1>6. state'[u] # "NOT_READY" => counter'[u] = 0
  <2>1. CASE u \in Woken(t)
    BY <2>1, <1>4 DEF Woken, Decremented
  <2>2. CASE u = t
    BY <2>2, <1>4, EventTask
  <2>3. CASE u \notin Woken(t) /\ u # t
    BY <2>3, <1>1, <1>4, EventTask, WakeSuccessorsStates
  <2>. QED  BY <2>1, <2>2, <2>3
<1>. QED  BY <1>5, <1>6

LEMMA WakeSuccessorsEvents ==
  ASSUME IInv, NEW e \in pending, NEW when, WakeSuccessors(e, when)
  PROVE  OneEventPerTask'
<1>. DEFINE t == e.task
            old == pending \ {e}
            new == WakeEvents(t, when)
<1>1. pending' \subseteq old \cup new
  BY DEF WakeSuccessors, Fire, Admitted
<1>2. \A f \in old : f.task \in Tasks /\ f.task # t /\ f.task \notin Woken(t)
  BY EventTask, EventFacts, WokenFacts DEF IInv
<1>3. \A f \in new : f.task \in Woken(t)
  BY EventTask, WokenEvents
<1>4. \A f, g \in pending' : f.task = g.task => f = g
  <2>1. \A f, g \in old : f.task = g.task => f = g
    BY DEF IInv, OneEventPerTask
  <2>2. \A f, g \in new : f.task = g.task => f = g
    BY EventTask, WokenEvents
  <2>. QED  BY <1>1, <1>2, <1>3, <2>1, <2>2
<1>5. \A f \in pending' : state'[f.task] \in {"READY", "RUNNING"}
  <2>1. \A f \in old : state'[f.task] \in {"READY", "RUNNING"}
    BY <1>2, WakeSuccessorsStates DEF IInv, OneEventPerTask
  <2>2. \A f \in new : state'[f.task] \in {"READY", "RUNNING"}
    BY <1>3, WakeSuccessorsStates
  <2>. QED  BY <1>1, <2>1, <2>2
<1>. QED  BY <1>4, <1>5 DEF OneEventPerTask

\* A task that finishes is counted.
LEMMA WakeSuccessorsFinished ==
  ASSUME IInv, NEW e \in pending, NEW when, WakeSuccessors(e, when),
         n_finished_tasks' = [n_finished_tasks EXCEPT ![App[e.task]] = @ + 1]
  PROVE  FinishedAreCounted'
<1>. DEFINE t == e.task
            a == App[t]
<1>. SUFFICES ASSUME NEW b \in Apps
              PROVE  n_finished_tasks'[b] = Cardinality(FinishedOf(b)')
  BY DEF FinishedAreCounted
<1>1. t \in Tasks /\ a \in Apps /\ state[t] # "FINISHED"
  BY EventTask, GraphFacts
<1>2. FinishedOf(b) \subseteq Tasks /\ n_finished_tasks[b] = Cardinality(FinishedOf(b))
  BY DEF FinishedOf, TasksOf, IInv, FinishedAreCounted
<1>3. CASE b = a
  <2>1. FinishedOf(b)' = FinishedOf(b) \cup {t} /\ t \notin FinishedOf(b)
    BY <1>1, <1>3, WakeSuccessorsStates DEF FinishedOf, TasksOf
  <2>2. Cardinality(FinishedOf(b)') = Cardinality(FinishedOf(b)) + 1
    BY <1>2, <2>1, FiniteTasks, FS_AddElement
  <2>. QED  BY <1>1, <1>2, <1>3, <2>2 DEF IInv, TypeOK
<1>4. CASE b # a
  <2>1. FinishedOf(b)' = FinishedOf(b)
    BY <1>4, WakeSuccessorsStates DEF FinishedOf, TasksOf
  <2>. QED  BY <1>2, <1>4, <2>1 DEF IInv, TypeOK
<1>. QED  BY <1>3, <1>4
-----------------------------------------------------------------------------
(* The restart of an application.                                          *)

\* At the restart every counter of the application is that of the loaded
\* graph again: the ones the counters map does not hold were 0 all along.
LEMMA RestoredFacts ==
  ASSUME IInv, NEW e \in pending, LastOfIteration(e.task)
  PROVE  \A u \in Tasks : Restored(e.task)[u] = Cardinality(Preds(u))
<1>. SUFFICES ASSUME NEW u \in Tasks, Preds(u) = {}
              PROVE  Decremented(e.task)[u] = Cardinality(Preds(u))
  BY DEF Restored
<1>1. Unfinished(u) = {}
  BY DEF Unfinished
<1>2. counter[u] = Cardinality({})
  BY <1>1 DEF IInv, CountersAreExact
<1>. QED  BY <1>2, LastTask DEF Decremented

LEMMA RestartStates ==
  ASSUME IInv, NEW e \in pending, NEW when, CleanupRestart(e, when)
  PROVE  /\ \A u \in TasksOf(App[e.task]) :
              state'[u] = IF u \in Started(App[e.task], e.task) THEN "READY" ELSE "NOT_READY"
         /\ \A u \in Tasks : App[u] # App[e.task] => state'[u] = state[u]
BY DEF CleanupRestart, ResetAndRestart, TasksOf

LEMMA RestartCounters ==
  ASSUME IInv, NEW e \in pending, NEW when, CleanupRestart(e, when)
  PROVE  CountersAreExact'
<1>. DEFINE t == e.task
            a == App[t]
<1>. SUFFICES ASSUME NEW u \in Tasks
              PROVE  /\ counter'[u] = Cardinality(Unfinished(u)')
                     /\ state'[u] # "NOT_READY" => counter'[u] = 0
  BY DEF CountersAreExact
<1>1. Preds(u) \subseteq TasksOf(App[u]) /\ Preds(u) \subseteq Tasks
  BY GraphFacts DEF Preds
<1>2. CASE App[u] = a
  <2>1. counter'[u] = Cardinality(Preds(u)) /\ counter'[u] = Restored(t)[u]
    BY <1>2, RestoredFacts DEF CleanupRestart, ResetAndRestart
  <2>2. Unfinished(u)' = Preds(u)
    BY <1>1, <1>2, RestartStates DEF Unfinished
  <2>3. state'[u] # "NOT_READY" => u \in Started(a, t)
    BY <1>2, RestartStates DEF TasksOf
  <2>. QED  BY <2>1, <2>2, <2>3 DEF Started
<1>3. CASE App[u] # a
  <2>1. counter'[u] = counter[u] /\ state'[u] = state[u]
    BY <1>3, RestartStates DEF CleanupRestart, ResetAndRestart
  <2>2. Unfinished(u)' = Unfinished(u)
    BY <1>1, <1>3, RestartStates DEF Unfinished, TasksOf
  <2>. QED  BY <2>1, <2>2 DEF IInv, CountersAreExact
<1>. QED  BY <1>2, <1>3

\* Nothing of the old iteration is left, and each task that is started has
\* one event.
LEMMA RestartEvents ==
  ASSUME IInv, NEW e \in pending, NEW when, CleanupRestart(e, when)
  PROVE  /\ \A f \in pending \ {e} : App[f.task] # App[e.task]
         /\ \A f \in pending' \ pending : f.task \in Started(App[e.task], e.task)
         /\ OneEventPerTask'
<1>. DEFINE t == e.task
            a == App[t]
            old == pending \ {e}
            new == InitEvents(a, t, e.when)
<1>1. \A f \in old : f.task \in Tasks /\ f.task # t /\ state[f.task] \in {"READY", "RUNNING"}
  BY EventTask, EventFacts DEF IInv, OneEventPerTask
<1>2. \A u \in TasksOf(a) : u # t => state[u] = "FINISHED"
  BY LastTask DEF CleanupRestart
<1>3. \A f \in old : App[f.task] # a
  BY <1>1, <1>2 DEF TasksOf
<1>4. WakeEvents(t, when) = {}
  <2>1. Woken(t) = {}
    BY LastTask DEF Woken, CleanupRestart
  <2>. QED  BY <2>1 DEF WakeEvents
<1>5. pending' \subseteq old \cup new
  BY <1>4 DEF CleanupRestart, ResetAndRestart, Fire, Admitted
<1>6. \A f \in new : f.task \in Started(a, t)
  BY DEF InitEvents, Event
<1>7. \A f, g \in new : f.task = g.task => f = g
  BY DEF InitEvents, Event
<1>8. Started(a, t) \subseteq TasksOf(a)
  BY DEF Started
<1>9. \A f, g \in pending' : f.task = g.task => f = g
  <2>1. \A f, g \in old : f.task = g.task => f = g
    BY DEF IInv, OneEventPerTask
  <2>. QED  BY <1>3, <1>5, <1>6, <1>7, <1>8, <2>1 DEF TasksOf
<1>10. \A f \in pending' : state'[f.task] \in {"READY", "RUNNING"}
  <2>1. \A f \in old : state'[f.task] \in {"READY", "RUNNING"}
    BY <1>1, <1>3, RestartStates
  <2>2. \A f \in new : state'[f.task] \in {"READY", "RUNNING"}
    BY <1>6, <1>8, RestartStates
  <2>. QED  BY <1>5, <2>1, <2>2
<1>11. \A f \in pending' \ pending : f.task \in Started(a, t)
  BY <1>5, <1>6
<1>. QED  BY <1>3, <1>9, <1>10, <1>11 DEF OneEventPerTask

LEMMA RestartFinished ==
  ASSUME IInv, NEW e \in pending, NEW when, CleanupRestart(e, when)
  PROVE  FinishedAreCounted'
<1>. DEFINE a == App[e.task]
<1>. SUFFICES ASSUME NEW b \in Apps
              PROVE  n_finished_tasks'[b] = Cardinality(FinishedOf(b)')
  BY DEF FinishedAreCounted
<1>1. n_finished_tasks' = [n_finished_tasks EXCEPT ![a] = 0]
  BY DEF CleanupRestart, ResetAndRestart
<1>2. CASE b = a
  <2>1. FinishedOf(b)' = {}
    BY <1>2, RestartStates DEF FinishedOf, TasksOf
  <2>. QED  BY <1>1, <1>2, <2>1, FS_EmptySet DEF IInv, TypeOK
<1>3. CASE b # a
  <2>1. FinishedOf(b)' = FinishedOf(b)
    BY <1>3, RestartStates DEF FinishedOf, TasksOf
  <2>. QED  BY <1>1, <1>3, <2>1 DEF IInv, TypeOK, FinishedAreCounted
<1>. QED  BY <1>2, <1>3

-----------------------------------------------------------------------------
(* Every step keeps the inductive invariant.                               *)

\* An application is counted when it first completes an iteration.
LEMMA CountAppCounts ==
  ASSUME TypeOK, AppsAreCounted, NEW a \in Apps, CountApp(a)
  PROVE  AppsAreCounted'
<1>1. IsFiniteSet(finished_once)
  <2>1. IsFiniteSet(Apps)
    BY GraphAssumption, FS_Interval DEF Apps
  <2>. QED  BY <2>1, FS_Subset DEF TypeOK
<1>2. CASE a \in finished_once
  BY <1>2 DEF CountApp, AppsAreCounted
<1>3. CASE a \notin finished_once
  BY <1>1, <1>3, FS_AddElement DEF CountApp, AppsAreCounted
<1>. QED  BY <1>2, <1>3

LEMMA CleanupInv ==
  ASSUME IInv, NEW e \in pending, NEW when, Cleanup(e, when)
  PROVE  CountersAreExact' /\ OneEventPerTask' /\ FinishedAreCounted' /\ AppsAreCounted'
<1>1. App[e.task] \in Apps /\ TypeOK /\ AppsAreCounted
  BY EventTask, GraphFacts DEF IInv
<1>2. CASE CleanupMore(e, when)
  <2>1. WakeSuccessors(e, when) /\ AppsAreCounted'
    BY <1>1, <1>2 DEF CleanupMore, AppsAreCounted
  <2>. QED  BY <1>2, <2>1, WakeSuccessorsCounters, WakeSuccessorsEvents, WakeSuccessorsFinished
            DEF CleanupMore
<1>3. CASE CleanupStop(e, when)
  <2>1. WakeSuccessors(e, when) /\ AppsAreCounted'
    BY <1>1, <1>3, CountAppCounts DEF CleanupStop
  <2>. QED  BY <1>3, <2>1, WakeSuccessorsCounters, WakeSuccessorsEvents, WakeSuccessorsFinished
            DEF CleanupStop
<1>4. CASE CleanupRestart(e, when)
  <2>1. AppsAreCounted'
    BY <1>1, <1>4, CountAppCounts DEF CleanupRestart
  <2>. QED  BY <1>4, <2>1, RestartCounters, RestartEvents, RestartFinished
<1>. QED  BY <1>2, <1>3, <1>4 DEF Cleanup
\* A handler that keeps its task running, and asks for one event of it at most.
LEMMA RescheduleInv ==
  ASSUME IInv, NEW e \in pending, NEW batch, NEW n, Fire(e, batch, n),
         \A f \in batch : f.task = e.task,
         \A f, g \in batch : f = g,
         UNCHANGED <<counter, appVars>>,
         \A u \in Tasks : state'[u] = state[u] \/ (u = e.task /\ state'[u] = "RUNNING")
  PROVE  CountersAreExact' /\ OneEventPerTask' /\ FinishedAreCounted' /\ AppsAreCounted'
<1>. DEFINE t == e.task
<1>1. t \in Tasks /\ state[t] \in {"READY", "RUNNING"} /\ state \in [Tasks -> States]
  BY EventTask DEF IInv, TypeOK
<1>2. \A u \in Tasks : /\ u # t => state'[u] = state[u]
                       /\ state'[t] \in {"READY", "RUNNING"}
                       /\ state'[u] = "FINISHED" <=> state[u] = "FINISHED"
  BY <1>1
<1>3. CountersAreExact'
  <2>. SUFFICES ASSUME NEW u \in Tasks
                PROVE  /\ counter'[u] = Cardinality(Unfinished(u)')
                       /\ state'[u] # "NOT_READY" => counter'[u] = 0
    BY DEF CountersAreExact
  <2>1. Unfinished(u)' = Unfinished(u)
    BY <1>2 DEF Unfinished, Preds
  <2>2. state'[u] # "NOT_READY" => state[u] # "NOT_READY"
    BY <1>1, <1>2
  <2>. QED  BY <2>1, <2>2 DEF IInv, CountersAreExact
<1>4. OneEventPerTask'
  <2>1. pending' \subseteq (pending \ {e}) \cup batch
    BY DEF Fire, Admitted
  <2>2. \A f \in pending \ {e} : f.task # t /\ f.task \in Tasks
    BY EventTask, EventFacts DEF IInv
  <2>3. \A f, g \in pending' : f.task = g.task => f = g
    BY <2>1, <2>2 DEF IInv, OneEventPerTask
  <2>4. \A f \in pending' : state'[f.task] \in {"READY", "RUNNING"}
    BY <1>1, <1>2, <2>1, <2>2 DEF IInv, OneEventPerTask
  <2>. QED  BY <2>3, <2>4 DEF OneEventPerTask
<1>5. FinishedAreCounted'
  <2>1. \A a \in Apps : FinishedOf(a)' = FinishedOf(a)
    BY <1>2 DEF FinishedOf, TasksOf
  <2>. QED  BY <2>1 DEF FinishedAreCounted, IInv, appVars
<1>6. AppsAreCounted'
  BY DEF AppsAreCounted, IInv, appVars
<1>. QED  BY <1>3, <1>4, <1>5, <1>6

LEMMA StepInv ==
  ASSUME IInv, NEW e \in pending, DoNextEvent(e)
  PROVE  CountersAreExact' /\ OneEventPerTask' /\ FinishedAreCounted' /\ AppsAreCounted'
<1>. DEFINE t == e.task
<1>1. \A who, when : LET batch == {Event(who, t, when, 0)}
                     IN  (\A f \in batch : f.task = t) /\ (\A f, g \in batch : f = g)
  BY DEF Event
<1>2. CASE ExecuteStart(e)
  <2>1. /\ Fire(e, {Event("task", t, EndOf(t, e.when), 0)}, 1)
        /\ \A u \in Tasks : state'[u] = state[u] \/ (u = t /\ state'[u] = "RUNNING")
        /\ UNCHANGED <<counter, appVars>>
    BY <1>2 DEF ExecuteStart, IInv, TypeOK
  <2>. QED  BY <1>1, <2>1, RescheduleInv
<1>3. CASE ExecuteWait(e)
  BY <1>1, <1>3, RescheduleInv DEF ExecuteWait, taskVars
<1>4. CASE ExecuteFinish(e)
  BY <1>4, CleanupInv DEF ExecuteFinish
<1>5. CASE StartFlow(e)
  BY <1>1, <1>5, RescheduleInv DEF StartFlow, taskVars
<1>6. CASE StartAllreduce(e)
  <2>1. /\ Fire(e, {Event("connect", t, ready_time[t] + RunTime[t], 0)}, 1)
        /\ \A u \in Tasks : state'[u] = state[u] \/ (u = t /\ state'[u] = "RUNNING")
        /\ UNCHANGED <<counter, appVars>>
    BY <1>6 DEF StartAllreduce, IInv, TypeOK
  <2>. QED  BY <1>1, <2>1, RescheduleInv
<1>7. CASE LocalAllreduce(e)
  BY <1>7, CleanupInv DEF LocalAllreduce
<1>8. CASE Connect(e)
  BY <1>1, <1>8, RescheduleInv DEF Connect, taskVars
<1>9. CASE TaskFinish(e)
  BY <1>9, CleanupInv DEF TaskFinish
<1>10. CASE FlowCut(e)
  BY <1>10, RescheduleInv DEF FlowCut, taskVars
<1>. QED  BY <1>2, <1>3, <1>4, <1>5, <1>6, <1>7, <1>8, <1>9, <1>10 DEF DoNextEvent

LEMMA InitInv == Init => IInv
<1>. SUFFICES ASSUME Init PROVE IInv
  OBVIOUS
<1>1. TypeOK
  BY InitType
<1>2. CountersAreExact
  <2>. SUFFICES ASSUME NEW u \in Tasks
                PROVE  /\ counter[u] = Cardinality(Unfinished(u))
                       /\ state[u] # "NOT_READY" => counter[u] = 0
    BY DEF CountersAreExact
  <2>1. Unfinished(u) = Preds(u)
    BY DEF Init, Unfinished, Preds
  <2>2. state[u] # "NOT_READY" => Preds(u) = {}
    BY DEF Init, Roots
  <2>. QED  BY <2>1, <2>2, FS_EmptySet DEF Init
<1>3. OneEventPerTask
  <2>1. Roots \subseteq Tasks
    BY DEF Roots
  <2>. QED  BY <2>1 DEF Init, OneEventPerTask
<1>4. FinishedAreCounted
  <2>1. \A a \in Apps : FinishedOf(a) = {}
    BY DEF FinishedOf, TasksOf, Init
  <2>. QED  BY <2>1, FS_EmptySet DEF FinishedAreCounted, Init
<1>5. AppsAreCounted
  BY FS_EmptySet DEF AppsAreCounted, Init
<1>. QED  BY <1>1, <1>2, <1>3, <1>4, <1>5 DEF IInv

LEMMA NextInv == IInv /\ [Next]_vars => IInv'
<1>1. ASSUME IInv, UNCHANGED vars PROVE IInv'
  <2>1. TypeOK'
    BY <1>1, NextType DEF IInv
  <2>2. UNCHANGED <<pending, state, counter, n_finished_tasks, finished_once, finished_apps>>
    BY <1>1 DEF vars, eventVars, taskVars, appVars
  <2>3. CountersAreExact'
    BY <1>1, <2>2 DEF IInv, CountersAreExact, Unfinished
  <2>4. OneEventPerTask' /\ FinishedAreCounted' /\ AppsAreCounted'
    BY <1>1, <2>2 DEF IInv, OneEventPerTask, FinishedAreCounted, FinishedOf, AppsAreCounted
  <2>. QED  BY <2>1, <2>3, <2>4 DEF IInv
<1>2. ASSUME IInv, NEW e \in pending, DoNextEvent(e) PROVE IInv'
  <2>1. TypeOK'
    BY <1>2, NextType DEF IInv, Next
  <2>. QED  BY <1>2, <2>1, StepInv DEF IInv
<1>. QED  BY <1>1, <1>2 DEF Next

\* The counters, the events and the numbers of finished tasks and of counted
\* applications are exact together: cleanup and reset_and_restart keep them so.
THEOREM Inductive == Spec => []IInv
<1>. QED  BY InitInv, NextInv, PTL DEF Spec

\* In every graph, under every order of completion and across every restart,
\* a counter is the number of predecessors still to finish, and no task has
\* left NOT_READY before it is 0.
THEOREM CountersCorrect == Spec => []CountersAreExact
<1>1. IInv => CountersAreExact
  BY DEF IInv
<1>. QED  BY <1>1, Inductive, PTL

\* No task ever has two events, or one when it is not ready or running.
THEOREM EventsCorrect == Spec => []OneEventPerTask
<1>1. IInv => OneEventPerTask
  BY DEF IInv
<1>. QED  BY <1>1, Inductive, PTL

-----------------------------------------------------------------------------
(* Devices and restarts: a device runs one task at a time, busy_up_to is   *)
(* the time of the event that releases it, and an application restarts     *)
(* from a clean slate.                                                     *)

Running(d) == {t \in ComputeTasks : Device[t] = d /\ state[t] = "RUNNING"}

\* The exclusiveness of one device.
Exclusive(d) ==
  /\ \A t, u \in Running(d) : t = u
  /\ device_state[d] = "BUSY" <=> Running(d) # {}
  /\ \A t \in Running(d) : finish_time[t] = busy_up_to[d]
  /\ \A e \in pending : e.task \in Running(d) => e.when = busy_up_to[d]

\* The flows belong to tasks that occupy no device, so that no other event
\* than its own finishes a compute task.
EventsMatchTasks == \A e \in pending : e.task \in ComputeTasks => e.who = "task"

DInv == IInv /\ EventsMatchTasks /\ \A d \in Devices : Exclusive(d)

LEMMA ComputeFacts ==
  ASSUME NEW t \in ComputeTasks
  PROVE  t \in Tasks /\ Device[t] \in Devices /\ Kind[t] = "compute"
BY DeviceAssumption DEF ComputeTasks

\* Cleanup, with or without a restart, takes no device and releases none but
\* that of its own task.
LEMMA CleanupRunning ==
  ASSUME IInv, NEW e \in pending, NEW when, Cleanup(e, when)
  PROVE  /\ \A u \in Tasks :
              state'[u] = "RUNNING" <=> state[u] = "RUNNING" /\ u # e.task
         /\ \A u \in Tasks : state'[u] = "RUNNING" => finish_time'[u] = finish_time[u]
         /\ \A f \in pending' : \/ f \in pending \ {e}
                                \/ f.who = "task" /\ state'[f.task] = "READY"
<1>. DEFINE t == e.task
            a == App[t]
<1>1. t \in Tasks /\ finish_time \in [Tasks -> Nat]
  BY EventTask DEF IInv, TypeOK
<1>2. CASE WakeSuccessors(e, when)
  <2>1. \A u \in Tasks : state'[u] = "RUNNING" <=> state[u] = "RUNNING" /\ u # t
    BY <1>1, <1>2, WakeSuccessorsStates, WokenFacts
  <2>2. \A u \in Tasks : u # t => finish_time'[u] = finish_time[u]
    BY <1>1, <1>2 DEF WakeSuccessors
  <2>3. \A f \in WakeEvents(t, when) : f.who = "task" /\ state'[f.task] = "READY"
    <3>1. \A f \in WakeEvents(t, when) : f.who = "task"
      BY DEF WakeEvents, Event
    <3>. QED  BY <1>1, <1>2, <3>1, WokenEvents, WakeSuccessorsStates
  <2>4. pending' \subseteq (pending \ {e}) \cup WakeEvents(t, when)
    BY <1>2 DEF WakeSuccessors, Fire, Admitted
  <2>. QED  BY <2>1, <2>2, <2>3, <2>4
<1>3. CASE CleanupRestart(e, when)
  <2>1. \A u \in Tasks : App[u] = a => /\ state'[u] # "RUNNING"
                                       /\ state[u] = "RUNNING" => u = t
    BY <1>3, RestartStates, LastTask DEF CleanupRestart, TasksOf
  <2>2. \A u \in Tasks : App[u] # a => /\ state'[u] = state[u] /\ u # t
                                       /\ finish_time'[u] = finish_time[u]
    BY <1>3, RestartStates DEF CleanupRestart, ResetAndRestart
  <2>3. \A f \in WakeEvents(t, when) \cup InitEvents(a, t, e.when) : f.who = "task"
    BY DEF WakeEvents, InitEvents, Event
  <2>4. pending' \subseteq (pending \ {e}) \cup (WakeEvents(t, when) \cup InitEvents(a, t, e.when))
    BY <1>3 DEF CleanupRestart, ResetAndRestart, Fire, Admitted
  <2>5. WakeEvents(t, when) = {}
    BY <1>3, LastTask DEF CleanupRestart, WakeEvents, Woken
  <2>6. \A f \in InitEvents(a, t, e.when) : state'[f.task] = "READY"
    <3>1. \A f \in InitEvents(a, t, e.when) : f.task \in Started(a, t)
      BY DEF InitEvents, Event
    <3>2. Started(a, t) \subseteq TasksOf(a)
      BY DEF Started
    <3>. QED  BY <1>3, <3>1, <3>2, RestartStates
  <2>. QED  BY <2>1, <2>2, <2>3, <2>4, <2>5, <2>6
<1>. QED  BY <1>2, <1>3 DEF Cleanup, CleanupMore, CleanupStop

\* A task that occupies no device finishes.
LEMMA OtherCleanup ==
  ASSUME DInv, NEW e \in pending, NEW when, Cleanup(e, when),
         e.task \notin ComputeTasks, UNCHANGED deviceVars
  PROVE  EventsMatchTasks' /\ \A d \in Devices : Exclusive(d)'
<1>1. IInv
  BY DEF DInv
<1>2. EventsMatchTasks'
  BY <1>1, CleanupRunning DEF EventsMatchTasks, DInv
<1>3. ASSUME NEW d \in Devices PROVE Exclusive(d)'
  <2>1. Running(d)' = Running(d) /\ Running(d) \subseteq Tasks
    BY <1>1, CleanupRunning DEF Running, ComputeTasks
  <2>2. Exclusive(d) /\ device_state'[d] = device_state[d] /\ busy_up_to'[d] = busy_up_to[d]
    BY DEF DInv, deviceVars
  <2>3. \A t \in Running(d)' : finish_time'[t] = finish_time[t]
    BY <1>1, <2>1, CleanupRunning DEF Running
  <2>4. \A f \in pending' : f.task \in Running(d)' => f \in pending
    BY <1>1, CleanupRunning DEF Running
  <2>. QED  BY <2>1, <2>2, <2>3, <2>4 DEF Exclusive
<1>. QED  BY <1>2, <1>3

\* The task of a device finishes and the device is released.
LEMMA FinishDevice ==
  ASSUME DInv, NEW e \in pending, ExecuteFinish(e)
  PROVE  EventsMatchTasks' /\ \A d \in Devices : Exclusive(d)'
<1>. DEFINE t == e.task
<1>1. /\ IInv /\ Cleanup(e, finish_time[t]) /\ t \in ComputeTasks /\ state[t] = "RUNNING"
      /\ device_state' = [device_state EXCEPT ![Device[t]] = "IDLE"]
      /\ device_state \in [Devices -> {"IDLE", "BUSY"}] /\ UNCHANGED busy_up_to
  BY EventTask DEF DInv, IInv, TypeOK, ExecuteFinish, ComputeTasks
<1>2. EventsMatchTasks'
  BY <1>1, CleanupRunning DEF EventsMatchTasks, DInv
<1>3. ASSUME NEW d \in Devices PROVE Exclusive(d)'
  <2>1. Exclusive(d) /\ Running(d) \subseteq Tasks
    BY DEF DInv, Running, ComputeTasks
  <2>2. Running(d)' = Running(d) \ {t}
    BY <1>1, CleanupRunning DEF Running, ComputeTasks
  <2>3. \A u \in Running(d)' : finish_time'[u] = finish_time[u]
    BY <1>1, <2>1, <2>2, CleanupRunning DEF Running
  <2>4. \A f \in pending' : f.task \in Running(d)' => f \in pending
    BY <1>1, CleanupRunning DEF Running
  <2>5. CASE d = Device[t]
    <3>1. t \in Running(d)
      BY <1>1, <2>5 DEF Running
    <3>2. Running(d)' = {}
      BY <2>1, <2>2, <3>1 DEF Exclusive
    <3>3. device_state'[d] = "IDLE"
      BY <1>1, <2>5
    <3>. QED  BY <3>2, <3>3 DEF Exclusive
  <2>6. CASE d # Device[t]
    <3>1. Running(d)' = Running(d)
      BY <2>2, <2>6 DEF Running
    <3>2. device_state'[d] = device_state[d] /\ busy_up_to'[d] = busy_up_to[d]
      BY <1>1, <2>6
    <3>. QED  BY <2>1, <2>3, <2>4, <3>1, <3>2 DEF Exclusive
  <2>. QED  BY <2>5, <2>6
<1>. QED  BY <1>2, <1>3
\* A ready task occupies an idle device.
LEMMA StartDevice ==
  ASSUME DInv, NEW e \in pending, ExecuteStart(e)
  PROVE  EventsMatchTasks' /\ \A d \in Devices : Exclusive(d)'
<1>. DEFINE t == e.task
            end == EndOf(t, e.when)
            new == Event("task", t, end, 0)
<1>1. /\ IInv /\ t \in ComputeTasks /\ state[t] = "READY" /\ Idle(Device[t])
      /\ state' = [state EXCEPT ![t] = "RUNNING"]
      /\ device_state' = [device_state EXCEPT ![Device[t]] = "BUSY"]
      /\ finish_time' = [finish_time EXCEPT ![t] = end]
      /\ busy_up_to' = [busy_up_to EXCEPT ![Device[t]] = end]
      /\ Fire(e, {new}, 1)
  BY EventTask DEF DInv, ExecuteStart, ComputeTasks
<1>2. /\ state \in [Tasks -> States] /\ finish_time \in [Tasks -> Nat]
      /\ device_state \in [Devices -> {"IDLE", "BUSY"}] /\ busy_up_to \in [Devices -> Nat]
  BY DEF DInv, IInv, TypeOK
<1>3. pending' \subseteq (pending \ {e}) \cup {new} /\ new.task = t /\ new.who = "task"
      /\ new.when = end
  BY <1>1 DEF Fire, Admitted, Event
<1>4. \A f \in pending \ {e} : f.task # t
  BY <1>1, EventTask
<1>5. EventsMatchTasks'
  BY <1>3 DEF EventsMatchTasks, DInv
<1>6. ASSUME NEW d \in Devices PROVE Exclusive(d)'
  <2>1. Exclusive(d)
    BY DEF DInv
  <2>2. CASE d = Device[t]
    <3>1. Running(d) = {}
      BY <1>1, <2>1, <2>2 DEF Exclusive, Idle
    <3>2. Running(d)' = {t}
      BY <1>1, <1>2, <2>2, <3>1, ComputeFacts DEF Running
    <3>3. finish_time'[t] = end /\ busy_up_to'[d] = end /\ device_state'[d] = "BUSY"
      BY <1>1, <1>2, <2>2, ComputeFacts
    <3>4. \A f \in pending' : f.task = t => f.when = end
      BY <1>3, <1>4
    <3>. QED  BY <3>2, <3>3, <3>4 DEF Exclusive
  <2>3. CASE d # Device[t]
    <3>1. Running(d)' = Running(d) /\ t \notin Running(d)
      BY <1>1, <1>2, <2>3, ComputeFacts DEF Running
    <3>2. device_state'[d] = device_state[d] /\ busy_up_to'[d] = busy_up_to[d]
      BY <1>1, <1>2, <2>3
    <3>3. \A u \in Running(d) : finish_time'[u] = finish_time[u]
      BY <1>1, <1>2, <3>1, ComputeFacts DEF Running
    <3>4. \A f \in pending' : f.task \in Running(d) => f \in pending
      BY <1>3, <3>1
    <3>. QED  BY <2>1, <3>1, <3>2, <3>3, <3>4 DEF Exclusive
  <2>. QED  BY <2>2, <2>3
<1>. QED  BY <1>5, <1>6

\* An event that starts and finishes no compute task changes no device.
LEMMA OtherDeviceSteps ==
  ASSUME DInv, NEW e \in pending, NEW batch, NEW n, Fire(e, batch, n),
         UNCHANGED <<finish_time, deviceVars>>,
         \A t \in ComputeTasks : state'[t] = state[t],
         \A f \in batch : /\ f.task \in ComputeTasks => f.who = "task"
                          /\ f.task \in ComputeTasks => state[f.task] # "RUNNING"
  PROVE  EventsMatchTasks' /\ \A d \in Devices : Exclusive(d)'
<1>1. pending' \subseteq pending \cup batch
  BY DEF Fire, Admitted
<1>2. EventsMatchTasks'
  BY <1>1 DEF EventsMatchTasks, DInv
<1>3. ASSUME NEW d \in Devices PROVE Exclusive(d)'
  <2>1. Running(d)' = Running(d)
    BY DEF Running
  <2>2. \A f \in pending' : f.task \in Running(d) => f \in pending
    BY <1>1 DEF Running
  <2>. QED  BY <2>1, <2>2 DEF DInv, Exclusive, deviceVars
<1>. QED  BY <1>2, <1>3

LEMMA DeviceStep ==
  ASSUME DInv, NEW e \in pending, DoNextEvent(e)
  PROVE  EventsMatchTasks' /\ \A d \in Devices : Exclusive(d)'
<1>. DEFINE t == e.task
<1>1. \A who, when : Event(who, t, when, 0).task = t /\ Event(who, t, when, 0).who = who
  BY DEF Event
<1>2. IInv /\ t \in Tasks /\ (t \in ComputeTasks => e.who = "task")
  BY EventTask DEF DInv, EventsMatchTasks
<1>3. CASE ExecuteStart(e)
  BY <1>3, StartDevice
<1>4. CASE ExecuteFinish(e)
  BY <1>4, FinishDevice
<1>5. CASE LocalAllreduce(e)
  BY <1>5, OtherCleanup DEF LocalAllreduce, ComputeTasks
<1>6. CASE TaskFinish(e)
  BY <1>2, <1>6, OtherCleanup DEF TaskFinish
<1>7. CASE ExecuteWait(e)
  <2>1. Fire(e, {Event("task", t, Release(t), 0)}, 1) /\ state[t] = "READY"
    BY <1>7 DEF ExecuteWait
  <2>2. UNCHANGED <<state, finish_time, deviceVars>>
    BY <1>7 DEF ExecuteWait, taskVars
  <2>. QED  BY <1>1, <2>1, <2>2, OtherDeviceSteps
<1>8. CASE StartFlow(e)
  <2>1. Fire(e, {Event("connect", t, ready_time[t], 0)}, 1) /\ t \notin ComputeTasks
    BY <1>8 DEF StartFlow, ComputeTasks
  <2>2. UNCHANGED <<state, finish_time, deviceVars>>
    BY <1>8 DEF StartFlow, taskVars
  <2>. QED  BY <1>1, <2>1, <2>2, OtherDeviceSteps
<1>9. CASE StartAllreduce(e)
  <2>1. /\ Fire(e, {Event("connect", t, ready_time[t] + RunTime[t], 0)}, 1)
        /\ t \notin ComputeTasks /\ UNCHANGED <<finish_time, deviceVars>>
    BY <1>9 DEF StartAllreduce, ComputeTasks
  <2>2. \A u \in ComputeTasks : state'[u] = state[u]
    BY <1>2, <1>9, <2>1, ComputeFacts DEF StartAllreduce, IInv, TypeOK
  <2>. QED  BY <1>1, <2>1, <2>2, OtherDeviceSteps
<1>10. CASE Connect(e)
  <2>1. PICK d \in XferTimes : Fire(e, {Event("deliver", t, e.when + d, 0)}, 1)
    BY <1>10 DEF Connect
  <2>2. t \notin ComputeTasks
    BY <1>2, <1>10 DEF Connect
  <2>3. UNCHANGED <<state, finish_time, deviceVars>>
    BY <1>10 DEF Connect, taskVars
  <2>. QED  BY <1>1, <2>1, <2>2, <2>3, OtherDeviceSteps
<1>11. CASE FlowCut(e)
  <2>1. Fire(e, {}, 0) /\ UNCHANGED <<state, finish_time, deviceVars>>
    BY <1>11 DEF FlowCut, taskVars
  <2>. QED  BY <2>1, OtherDeviceSteps
<1>. QED  BY <1>3, <1>4, <1>5, <1>6, <1>7, <1>8, <1>9, <1>10, <1>11 DEF DoNextEvent

LEMMA DeviceInit == Init => DInv
<1>. SUFFICES ASSUME Init PROVE DInv
  OBVIOUS
<1>1. EventsMatchTasks
  BY DEF Init, EventsMatchTasks
<1>2. \A d \in Devices : Running(d) = {} /\ device_state[d] # "BUSY"
  BY DEF Init, Running, ComputeTasks
<1>. QED  BY <1>1, <1>2, InitInv DEF DInv, Exclusive

LEMMA DeviceNext == DInv /\ [Next]_vars => DInv'
<1>1. ASSUME DInv, UNCHANGED vars PROVE DInv'
  <2>1. IInv'
    BY <1>1, NextInv DEF DInv
  <2>2. UNCHANGED <<pending, state, finish_time, device_state, busy_up_to>>
    BY <1>1 DEF vars, eventVars, taskVars, deviceVars
  <2>3. \A d \in Devices : Exclusive(d)'
    BY <1>1, <2>2 DEF DInv, Exclusive, Running
  <2>. QED  BY <1>1, <2>1, <2>2, <2>3 DEF DInv, EventsMatchTasks
<1>2. ASSUME DInv, NEW e \in pending, DoNextEvent(e) PROVE DInv'
  <2>1. IInv'
    BY <1>2, NextInv DEF DInv, Next
  <2>. QED  BY <1>2, <2>1, DeviceStep DEF DInv
<1>. QED  BY <1>1, <1>2 DEF Next

\* Whatever the graphs, the run times and the contention for the devices, two
\* tasks never run on one device, a device is busy exactly while a task runs
\* on it, and the tasks that wait are given the time of its release.
THEOREM DevicesCorrect == Spec => []DeviceIsExclusive
<1>1. DInv => DeviceIsExclusive
  BY DEF DInv, Exclusive, Running, DeviceIsExclusive
<1>. QED  BY <1>1, DeviceInit, DeviceNext, PTL DEF Spec

-----------------------------------------------------------------------------
(* An application restarts from a clean slate, whatever its graph and what *)
(* the other applications do: the handler that restarts it is that of the  *)
(* last event of its tasks, and no device of it is occupied.               *)

\* Insertions are numbered: what a handler schedules is none of the events that
\* are pending, not even the one that runs.
Numbered == \A e \in pending : e.ord < stamp

LEMMA FireNumbers ==
  ASSUME IInv, Numbered, NEW e \in pending, NEW batch, NEW n \in Nat, Fire(e, batch, n),
         \A f \in batch : f.ord < stamp + n
  PROVE  Numbered'
<1>1. stamp \in Nat /\ stamp' = stamp + n /\ \A f \in pending : f.ord \in Nat
  BY DEF IInv, TypeOK, Fire
<1>2. \A f \in pending : f.ord < stamp'
  BY <1>1 DEF Numbered
<1>3. pending' \subseteq pending \cup batch
  BY DEF Fire, Admitted
<1>. QED  BY <1>1, <1>2, <1>3 DEF Numbered

LEMMA WakeEventsNumbered ==
  ASSUME IInv, NEW t \in Tasks, NEW when
  PROVE  \A f \in WakeEvents(t, when) : f.ord < stamp + Len(NextTasks[t]) + 1
<1>1. stamp \in Nat /\ NextTasks[t] \in Seq(Tasks)
  BY GraphFacts DEF IInv, TypeOK
<1>. QED  BY <1>1 DEF WakeEvents, Event

\* The places of root tasks in the hash map are numbered as well.
PlacesAreNumbered == initPos \in [Roots -> 0..(Cardinality(Roots) - 1)]

LEMMA InitEventsNumbered ==
  ASSUME IInv, PlacesAreNumbered, NEW t \in Tasks, NEW a, NEW time
  PROVE  \A f \in InitEvents(a, t, time) :
           stamp <= f.ord /\ f.ord < stamp + Len(NextTasks[t]) + 1 + Cardinality(Roots)
<1>1. stamp \in Nat /\ Len(NextTasks[t]) \in Nat /\ Cardinality(Roots) \in Nat
  BY FiniteTasks, GraphFacts DEF IInv, TypeOK, Roots
<1>2. \A u \in Started(a, t) : initPos[u] \in Nat /\ initPos[u] < Cardinality(Roots)
  BY <1>1, StartedAreRoots DEF PlacesAreNumbered
<1>3. \A f \in InitEvents(a, t, time) : \E u \in Started(a, t) :
        f.ord = stamp + (Len(NextTasks[t]) + 1 + initPos[u])
  BY DEF InitEvents, Event
<1>. QED  BY <1>1, <1>2, <1>3

LEMMA CleanupNumbers ==
  ASSUME IInv, Numbered, PlacesAreNumbered, NEW e \in pending, NEW when, Cleanup(e, when)
  PROVE  Numbered'
<1>. DEFINE t == e.task
            k == Len(NextTasks[t]) + 1
            r == Cardinality(Roots)
<1>1. t \in Tasks /\ stamp \in Nat /\ k \in Nat /\ r \in Nat
  BY EventTask, FiniteTasks, GraphFacts DEF IInv, TypeOK, Roots
<1>2. \A f \in WakeEvents(t, when) : f.ord < stamp + k
  <2>1. \A f \in WakeEvents(t, when) : f.ord < stamp + Len(NextTasks[t]) + 1
    BY <1>1, WakeEventsNumbered
  <2>. QED  BY <1>1, <2>1, GraphFacts
<1>3. CASE WakeSuccessors(e, when)
  BY <1>1, <1>2, <1>3, FireNumbers DEF WakeSuccessors
<1>4. CASE CleanupRestart(e, when)
  <2>. DEFINE new == InitEvents(App[t], t, e.when)
  <2>1. Fire(e, WakeEvents(t, when) \cup new, k + r)
    BY <1>4 DEF CleanupRestart, ResetAndRestart
  <2>2. WakeEvents(t, when) = {}
    BY <1>4, LastTask DEF CleanupRestart, WakeEvents, Woken
  <2>3. \A f \in new : f.ord < stamp + Len(NextTasks[t]) + 1 + r
    BY <1>1, InitEventsNumbered
  <2>4. \A f \in WakeEvents(t, when) \cup new : f.ord < stamp + (k + r)
    BY <1>1, <2>2, <2>3, GraphFacts
  <2>5. k + r \in Nat
    BY <1>1
  <2>. HIDE DEF new, k, r, t
  <2>. QED  BY <2>1, <2>4, <2>5, FireNumbers
<1>. QED  BY <1>3, <1>4 DEF Cleanup, CleanupMore, CleanupStop

LEMMA StepNumbers ==
  ASSUME IInv, Numbered, PlacesAreNumbered, NEW e \in pending, DoNextEvent(e)
  PROVE  Numbered' /\ PlacesAreNumbered'
<1>1. UNCHANGED initPos
  BY DEF DoNextEvent, ExecuteStart, ExecuteWait, ExecuteFinish, StartFlow, StartAllreduce,
         LocalAllreduce, Connect, TaskFinish, FlowCut, Cleanup
<1>2. ASSUME NEW when, Cleanup(e, when) PROVE Numbered'
  BY <1>2, CleanupNumbers
<1>3. ASSUME NEW who, NEW when, Fire(e, {Event(who, e.task, when, 0)}, 1) PROVE Numbered'
  <2>1. \A f \in {Event(who, e.task, when, 0)} : f.ord < stamp + 1
    BY DEF Event, IInv, TypeOK
  <2>. QED  BY <1>3, <2>1, FireNumbers
<1>4. ASSUME Fire(e, {}, 0) PROVE Numbered'
  BY <1>4, FireNumbers
<1>5. \/ \E when : Cleanup(e, when)
      \/ \E who, when : Fire(e, {Event(who, e.task, when, 0)}, 1)
      \/ Fire(e, {}, 0)
  BY DEF DoNextEvent, ExecuteStart, ExecuteWait, ExecuteFinish, StartFlow, StartAllreduce,
         LocalAllreduce, Connect, TaskFinish, FlowCut
<1>6. PlacesAreNumbered'
  BY <1>1 DEF PlacesAreNumbered
<1>. QED  BY <1>2, <1>3, <1>4, <1>5, <1>6

RInv == DInv /\ Numbered /\ PlacesAreNumbered

LEMMA RestartInit == Init => RInv
<1>. SUFFICES ASSUME Init PROVE RInv
  OBVIOUS
<1>. DEFINE size == Cardinality(Tasks)
<1>1. size \in Nat /\ Cardinality(Roots) \in Nat /\ Cardinality(Roots) <= size
  BY FiniteTasks, FS_Subset, GraphAssumption DEF Roots
<1>2. PlacesAreNumbered
  BY DEF Init, RootOrders, PlacesAreNumbered
<1>3. ASSUME NEW e \in pending PROVE e.ord < stamp
  <2>1. PICK t \in Roots : e.ord = App[t] * size + initPos[t]
    BY DEF Init
  <2>2. initPos[t] \in Nat /\ initPos[t] < size
    BY <1>1, <1>2 DEF PlacesAreNumbered
  <2>3. App[t] \in Nat /\ App[t] <= NApps /\ NApps \in Nat
    BY GraphAssumption DEF Roots, Apps
  <2>4. \A a \in Nat : a <= NApps => a * size <= NApps * size
    BY <1>1, <2>3
  <2>5. (NApps + 1) * size = NApps * size + size /\ NApps * size \in Nat /\ App[t] * size \in Nat
    BY <1>1, <2>3
  <2>6. App[t] * size <= NApps * size
    BY <2>3, <2>4
  <2>7. stamp = NApps * size + size
    BY <2>5 DEF Init
  <2>. HIDE DEF size
  <2>. QED  BY <1>1, <2>1, <2>2, <2>5, <2>6, <2>7
<1>. QED  BY <1>2, <1>3, DeviceInit DEF RInv, Numbered

LEMMA RestartNext == RInv /\ [Next]_vars => RInv'
<1>1. ASSUME RInv, UNCHANGED vars PROVE RInv'
  BY <1>1, DeviceNext DEF RInv, vars, eventVars, Numbered, PlacesAreNumbered
<1>2. ASSUME RInv, NEW e \in pending, DoNextEvent(e) PROVE RInv'
  <2>1. DInv'
    BY <1>2, DeviceNext DEF RInv, Next
  <2>. QED  BY <1>2, <2>1, StepNumbers DEF RInv, DInv
<1>. QED  BY <1>1, <1>2 DEF Next

\* The count of finished tasks goes back to 0 in a restart only.
LEMMA OnlyRestartsReset ==
  ASSUME IInv, NEW e \in pending, DoNextEvent(e), NEW a \in Apps,
         n_finished_tasks[a] > 0, n_finished_tasks'[a] = 0
  PROVE  a = App[e.task] /\ \E when : CleanupRestart(e, when)
<1>1. n_finished_tasks \in [Apps -> Nat] /\ App[e.task] \in Apps
  BY EventTask, GraphFacts DEF IInv, TypeOK
<1>2. PICK when : Cleanup(e, when)
  BY DEF DoNextEvent, ExecuteStart, ExecuteWait, ExecuteFinish, StartFlow, StartAllreduce,
         LocalAllreduce, Connect, TaskFinish, FlowCut, appVars
<1>3. ~ CleanupMore(e, when) /\ ~ CleanupStop(e, when)
  BY <1>1 DEF CleanupMore, CleanupStop
<1>4. CleanupRestart(e, when)
  BY <1>2, <1>3 DEF Cleanup
<1>5. n_finished_tasks' = [n_finished_tasks EXCEPT ![App[e.task]] = 0]
  BY <1>4 DEF CleanupRestart, ResetAndRestart
<1>6. a = App[e.task]
  BY <1>1, <1>5
<1>. QED  BY <1>4, <1>6

LEMMA RestartStep ==
  ASSUME RInv, DInv', NEW e \in pending, DoNextEvent(e), NEW a \in Apps,
         n_finished_tasks[a] > 0, n_finished_tasks'[a] = 0
  PROVE  /\ \A f \in pending' : App[f.task] = a => f \notin pending
         /\ \A t \in ComputeTasks : App[t] = a => device_state'[Device[t]] = "IDLE"
<1>. DEFINE t == e.task
<1>1. a = App[t] /\ t \in Tasks /\ IInv /\ DInv
  BY OnlyRestartsReset, EventTask DEF RInv, DInv
<1>2. PICK when : CleanupRestart(e, when)
  BY <1>1, OnlyRestartsReset
<1>3. ASSUME NEW f \in pending', App[f.task] = a PROVE f \notin pending
  <2>1. \A g \in pending \ {e} : App[g.task] # a
    BY <1>1, <1>2, RestartEvents
  <2>2. WakeEvents(t, when) = {}
    BY <1>1, <1>2, LastTask DEF CleanupRestart, WakeEvents, Woken
  <2>3. f \in InitEvents(a, t, e.when)
    BY <1>1, <1>2, <1>3, <2>1, <2>2 DEF CleanupRestart, ResetAndRestart, Fire, Admitted
  <2>4. stamp <= f.ord
    BY <1>1, <2>3, InitEventsNumbered DEF RInv
  <2>5. stamp \in Nat /\ \A g \in pending : g.ord \in Nat /\ g.ord < stamp
    BY <1>1 DEF IInv, TypeOK, RInv, Numbered
  <2>. QED  BY <2>4, <2>5
<1>4. ASSUME NEW u \in ComputeTasks, App[u] = a PROVE device_state'[Device[u]] = "IDLE"
  <2>1. \A v \in TasksOf(a) : state'[v] # "RUNNING"
    BY <1>1, <1>2, RestartStates
  <2>2. \A v \in ComputeTasks : Device[v] = Device[u] => v \in TasksOf(a)
    BY <1>4, ComputeFacts, DeviceAssumption DEF TasksOf
  <2>3. Running(Device[u])' = {}
    BY <2>1, <2>2 DEF Running
  <2>4. device_state'[Device[u]] # "BUSY"
    BY <2>3, ComputeFacts DEF DInv, Exclusive
  <2>. QED  BY <2>4, ComputeFacts DEF DInv, IInv, TypeOK
<1>. QED  BY <1>3, <1>4

\* The handler that restarts an application, in the middle of the cleanup of
\* its last task, finds no event of its tasks left that would run one of the new
\* iteration early, and no device that a task still occupies.
THEOREM RestartsAreClean == Spec => RestartIsClean
<1>. DEFINE Clean(a) ==
              n_finished_tasks[a] > 0 /\ n_finished_tasks'[a] = 0 =>
                /\ \A e \in pending' : App[e.task] = a => e \notin pending
                /\ \A t \in ComputeTasks : App[t] = a => device_state'[Device[t]] = "IDLE"
<1>1. RInv /\ [Next]_vars => [\A a \in Apps : Clean(a)]_vars
  <2>. SUFFICES ASSUME RInv, Next, NEW a \in Apps PROVE Clean(a)
    OBVIOUS
  <2>1. DInv'
    BY DeviceNext DEF RInv
  <2>. QED  BY <2>1, RestartStep DEF Next
<1>2. Spec => []RInv
  BY RestartInit, RestartNext, PTL DEF Spec
<1>3. Spec => [][\A a \in Apps : Clean(a)]_vars
  BY <1>1, <1>2, PTL DEF Spec
<1>. QED  BY <1>3 DEF RestartIsClean

-----------------------------------------------------------------------------
(* Time, for task graphs whose roots run on devices: until all             *)
(* applications have completed an iteration, no handler schedules into the *)
(* past, every cleanup reports the current time, and no device idles while *)
(* a task waits for it.                                                    *)

\* No application begins with a transfer: its flow would connect at a ready time
\* that has passed.
RootsCompute == \A t \in Roots : Kind[t] = "compute"

\* A transfer or collective that is due to start is due when it got ready.
TransfersAreOnTime ==
  \A e \in pending : e.who = "task" /\ e.task \notin ComputeTasks
                       => e.when = ready_time[e.task]

\* A running task has the event that ends it, unless that is beyond the end.
HasEnd(t) ==
  \/ \E e \in pending : e.task = t
  \/ endtime # 0 /\ busy_up_to[Device[t]] >= endtime

RunningTasksEnd == \A t \in ComputeTasks : state[t] = "RUNNING" => HasEnd(t)

ResultsArePast == \A a \in Apps : final_finish_time[a] <= now

Timely ==
  /\ NoEventInThePast
  /\ TransfersAreOnTime
  /\ RunningTasksEnd
  /\ ResultsArePast
  /\ DeviceIsWorkConserving

\* When all applications have completed one, the end time may be set again, and
\* with it falls the reason why a task waits for a device.
TInv == DInv /\ (finished_apps # NApps => Timely)

\* The clock moves forward, and what stays pending is not behind it.
LEMMA FireMovesOn ==
  ASSUME DInv, NoEventInThePast, NEW e \in pending, NEW batch, NEW n, Fire(e, batch, n)
  PROVE  /\ now' = e.when /\ e.when \in Nat /\ now \in Nat /\ now <= now'
         /\ \A f \in pending \ {e} : f.when >= now' /\ f \in pending'
         /\ pending' = (pending \ {e}) \cup Admitted(batch)
<1>1. TypeOK
  BY DEF DInv, IInv
<1>2. e.when \in Nat /\ now \in Nat /\ now <= e.when
  BY <1>1, EventFacts DEF NoEventInThePast, TypeOK
<1>3. now' = e.when /\ IsNext(e) /\ pending' = (pending \ {e}) \cup Admitted(batch)
  BY DEF Fire
<1>4. \A f \in pending \ {e} : f.when >= e.when
  <2>. TAKE f \in pending \ {e}
  <2>1. Before(e, f) /\ f.when \in Nat
    BY <1>1, <1>3, EventFacts DEF IsNext
  <2>. QED  BY <1>2, <2>1 DEF Before
<1>. QED  BY <1>2, <1>3, <1>4

\* What a cleanup at the current time schedules, and what it leaves to those
\* that wait.
LEMMA CleanupSchedules ==
  ASSUME DInv, NEW e \in pending, Cleanup(e, e.when), finished_apps' # NApps
  PROVE  /\ endtime' = endtime
         /\ \E batch, n :
              /\ Fire(e, batch, n)
              /\ \A f \in batch : \/ f.when = e.when /\ ready_time'[f.task] = e.when
                                  \/ f.when >= e.when /\ f.task \in Roots
         /\ \A f \in pending \ {e} : ready_time'[f.task] = ready_time[f.task]
<1>. DEFINE t == e.task
            a == App[t]
            wake == WakeEvents(t, e.when)
            init == InitEvents(a, t, e.when)
<1>1. /\ IInv /\ TypeOK /\ t \in Tasks /\ a \in Apps /\ e.when \in Nat
      /\ ready_time \in [Tasks -> Nat] /\ \A f \in pending : f.task \in Tasks
  BY EventTask, EventFacts DEF DInv, IInv, TypeOK
<1>2. CASE CleanupMore(e, e.when)
  <2>1. WakeSuccessors(e, e.when) /\ endtime' = endtime
    BY <1>2 DEF CleanupMore
  <2>2. ready_time' = [u \in Tasks |-> IF u \in Woken(t) THEN e.when ELSE ready_time[u]]
        /\ Fire(e, wake, Len(NextTasks[t]) + 1)
    BY <2>1 DEF WakeSuccessors
  <2>3. \A f \in wake : f.when = e.when /\ f.task \in Woken(t)
    <3>1. \A f \in wake : f.when = e.when
      BY DEF WakeEvents, Event
    <3>. QED  BY <1>1, <3>1, WokenEvents
  <2>4. \A f \in wake : ready_time'[f.task] = e.when
    BY <1>1, <2>2, <2>3, WokenFacts
  <2>5. \A f \in pending \ {e} : ready_time'[f.task] = ready_time[f.task]
    BY <1>1, <2>2, WokenFacts
  <2>. QED  BY <2>1, <2>2, <2>3, <2>4, <2>5
<1>3. CASE CleanupRestart(e, e.when)
  <2>. DEFINE k == Len(NextTasks[t]) + 1 + Cardinality(Roots)
  <2>1. /\ endtime' = endtime /\ Fire(e, wake \cup init, k)
        /\ ready_time' = [u \in Tasks |-> IF App[u] = a THEN e.when ELSE ready_time[u]]
    BY <1>3 DEF CleanupRestart, ResetAndRestart
  <2>2. wake = {}
    BY <1>1, <1>3, LastTask DEF CleanupRestart, WakeEvents, Woken
  <2>3. \A f \in init : f.when >= e.when /\ f.task \in Roots
    <3>. TAKE f \in init
    <3>1. PICK u \in Started(a, t) : f.when = e.when + initPos[u] /\ f.task = u
      BY DEF InitEvents, Event
    <3>2. u \in Roots /\ initPos[u] \in Nat
      BY <1>1, <3>1, StartedAreRoots DEF TypeOK
    <3>. QED  BY <1>1, <3>1, <3>2
  <2>4. \A f \in pending \ {e} : ready_time'[f.task] = ready_time[f.task]
    BY <1>1, <1>3, <2>1, RestartEvents
  <2>5. \A f \in wake \cup init : f.when >= e.when /\ f.task \in Roots
    BY <2>2, <2>3
  <2>. HIDE DEF wake, init, k
  <2>. QED  BY <2>1, <2>4, <2>5
<1>4. ~ CleanupStop(e, e.when)
  BY DEF CleanupStop
<1>. QED  BY <1>2, <1>3, <1>4 DEF Cleanup

\* A cleanup at the current time, which at most frees the device of its task.
LEMMA CleanupTimely ==
  ASSUME DInv, Timely, RootsCompute, NEW e \in pending, Cleanup(e, e.when),
         finished_apps' # NApps, UNCHANGED busy_up_to,
         \A d \in Devices : device_state'[d] = device_state[d] \/ busy_up_to[d] = e.when
  PROVE  Timely'
<1>1. /\ endtime' = endtime /\ IInv /\ TypeOK
      /\ \A f \in pending \ {e} : ready_time'[f.task] = ready_time[f.task]
  BY CleanupSchedules DEF DInv, IInv
<1>2. PICK batch, n : /\ Fire(e, batch, n)
                      /\ \A f \in batch : \/ f.when = e.when /\ ready_time'[f.task] = e.when
                                          \/ f.when >= e.when /\ f.task \in Roots
  BY CleanupSchedules
<1>3. /\ now' = e.when /\ e.when \in Nat /\ now \in Nat /\ now <= now'
      /\ \A f \in pending \ {e} : f.when >= now' /\ f \in pending'
      /\ pending' \subseteq (pending \ {e}) \cup batch
  BY <1>2, FireMovesOn DEF Timely, Admitted
<1>4. NoEventInThePast'
  BY <1>2, <1>3 DEF NoEventInThePast
<1>5. TransfersAreOnTime'
  <2>. SUFFICES ASSUME NEW f \in pending', f.who = "task", f.task \notin ComputeTasks
                PROVE  f.when = ready_time'[f.task]
    BY DEF TransfersAreOnTime
  <2>1. f.task \notin Roots
    BY DEF RootsCompute, ComputeTasks, Roots
  <2>. QED  BY <1>1, <1>2, <1>3, <2>1 DEF Timely, TransfersAreOnTime
<1>6. RunningTasksEnd'
  <2>. SUFFICES ASSUME NEW t \in ComputeTasks, state'[t] = "RUNNING"
                PROVE  HasEnd(t)'
    BY DEF RunningTasksEnd
  <2>1. state[t] = "RUNNING" /\ t # e.task
    BY <1>1, CleanupRunning, ComputeFacts
  <2>2. HasEnd(t)
    BY <2>1 DEF Timely, RunningTasksEnd
  <2>. QED  BY <1>1, <1>3, <2>1, <2>2 DEF HasEnd
<1>7. ResultsArePast'
  <2>1. /\ final_finish_time' = [final_finish_time EXCEPT ![App[e.task]] = Later(@, e.when)]
        /\ final_finish_time \in [Apps -> Nat]
    BY <1>1 DEF Cleanup, TypeOK
  <2>. SUFFICES ASSUME NEW a \in Apps PROVE final_finish_time'[a] <= now'
    BY DEF ResultsArePast
  <2>2. final_finish_time[a] \in Nat /\ final_finish_time[a] <= now
    BY <2>1 DEF Timely, ResultsArePast
  <2>. QED  BY <1>3, <2>1, <2>2 DEF Later
<1>8. DeviceIsWorkConserving'
  <2>. SUFFICES ASSUME NEW f \in pending', f.task \in ComputeTasks \ Roots,
                       state'[f.task] = "READY", f.when > now'
                PROVE  /\ device_state'[Device[f.task]] = "BUSY"
                       /\ f.when = busy_up_to'[Device[f.task]]
    BY DEF DeviceIsWorkConserving
  <2>1. f \in pending \ {e}
    BY <1>2, <1>3
  <2>2. state[f.task] = "READY"
    <3>1. state[f.task] \in {"READY", "RUNNING"} /\ f.task # e.task /\ f.task \in Tasks
      BY <1>1, <2>1, EventTask
    <3>. QED  BY <1>1, <3>1, CleanupRunning
  <2>3. f.when > now
    <3>1. f.when \in Nat
      BY <1>1, <2>1, EventFacts
    <3>. QED  BY <1>3, <3>1
  <2>4. device_state[Device[f.task]] = "BUSY" /\ f.when = busy_up_to[Device[f.task]]
    BY <2>1, <2>2, <2>3 DEF Timely, DeviceIsWorkConserving
  <2>5. Device[f.task] \in Devices /\ f.when # e.when
    <3>1. f.when \in Nat
      BY <1>1, <2>1, EventFacts
    <3>. QED  BY <1>3, <3>1, ComputeFacts
  <2>. QED  BY <2>4, <2>5
<1>. QED  BY <1>4, <1>5, <1>6, <1>7, <1>8 DEF Timely

\* The task that occupies a device finishes at the current time.
LEMMA FinishIsNow ==
  ASSUME DInv, NEW e \in pending, ExecuteFinish(e)
  PROVE  /\ finish_time[e.task] = e.when
         /\ e.task \in ComputeTasks /\ busy_up_to[Device[e.task]] = e.when
<1>1. e.task \in ComputeTasks /\ state[e.task] = "RUNNING"
  BY EventTask DEF DInv, ExecuteFinish, ComputeTasks
<1>2. Exclusive(Device[e.task]) /\ e.task \in Running(Device[e.task])
  BY <1>1, ComputeFacts DEF DInv, Running
<1>. QED  BY <1>1, <1>2 DEF Exclusive

\* An event that finishes no task and occupies no device, and schedules at most
\* its own task again.
LEMMA OtherTimely ==
  ASSUME DInv, Timely, NEW e \in pending, NEW batch, NEW n, Fire(e, batch, n),
         UNCHANGED <<ready_time, deviceVars, final_finish_time, endtime>>,
         \A t \in ComputeTasks : state'[t] = state[t],
         e.task \in ComputeTasks => state[e.task] = "READY",
         \A f \in Admitted(batch) :
           /\ f.when >= e.when /\ f.task = e.task
           /\ f.who = "task" => f.task \in ComputeTasks
           /\ f.task \in ComputeTasks => /\ device_state[Device[f.task]] = "BUSY"
                                         /\ f.when = busy_up_to[Device[f.task]]
  PROVE  Timely'
<1>1. /\ now' = e.when /\ e.when \in Nat /\ now \in Nat /\ now <= now'
      /\ \A f \in pending \ {e} : f.when >= now' /\ f \in pending' /\ f.when \in Nat
      /\ pending' = (pending \ {e}) \cup Admitted(batch)
  BY FireMovesOn, EventFacts DEF Timely, DInv, IInv
<1>2. NoEventInThePast'
  BY <1>1 DEF NoEventInThePast
<1>3. TransfersAreOnTime'
  BY <1>1 DEF Timely, TransfersAreOnTime
<1>4. RunningTasksEnd'
  <2>. SUFFICES ASSUME NEW t \in ComputeTasks, state'[t] = "RUNNING"
                PROVE  HasEnd(t)'
    BY DEF RunningTasksEnd
  <2>1. HasEnd(t) /\ t # e.task
    BY DEF Timely, RunningTasksEnd
  <2>. QED  BY <1>1, <2>1 DEF HasEnd, deviceVars
<1>5. ResultsArePast'
  <2>. SUFFICES ASSUME NEW a \in Apps PROVE final_finish_time[a] <= now'
    BY DEF ResultsArePast
  <2>1. final_finish_time[a] \in Nat /\ final_finish_time[a] <= now
    BY DEF Timely, ResultsArePast, DInv, IInv, TypeOK
  <2>. QED  BY <1>1, <2>1
<1>6. DeviceIsWorkConserving'
  <2>. SUFFICES ASSUME NEW f \in pending', f.task \in ComputeTasks \ Roots,
                       state[f.task] = "READY", f.when > now'
                PROVE  /\ device_state[Device[f.task]] = "BUSY"
                       /\ f.when = busy_up_to[Device[f.task]]
    BY DEF DeviceIsWorkConserving, deviceVars
  <2>1. CASE f \in pending \ {e}
    <3>1. f.when > now
      BY <1>1, <2>1
    <3>. QED  BY <2>1, <3>1 DEF Timely, DeviceIsWorkConserving
  <2>2. CASE f \in Admitted(batch)
    BY <2>2
  <2>. QED  BY <1>1, <2>1, <2>2
<1>. QED  BY <1>2, <1>3, <1>4, <1>5, <1>6 DEF Timely

\* A ready task occupies an idle device: no other task waited for it.
LEMMA StartTimely ==
  ASSUME DInv, Timely, NEW e \in pending, ExecuteStart(e)
  PROVE  Timely'
<1>. DEFINE t == e.task
            d == Device[t]
            end == EndOf(t, e.when)
            new == Event("task", t, end, 0)
<1>1. /\ t \in ComputeTasks /\ t \in Tasks /\ d \in Devices /\ TypeOK
      /\ RunTime[t] \in Nat /\ state[t] = "READY" /\ device_state[d] = "IDLE"
      /\ state' = [state EXCEPT ![t] = "RUNNING"]
      /\ device_state' = [device_state EXCEPT ![d] = "BUSY"]
      /\ busy_up_to' = [busy_up_to EXCEPT ![d] = end]
      /\ Fire(e, {new}, 1)
      /\ UNCHANGED <<ready_time, final_finish_time, endtime>>
  BY EventTask, EventFacts, ComputeFacts
     DEF DInv, IInv, ExecuteStart, ComputeTasks, Idle, appVars
<1>2. /\ now' = e.when /\ e.when \in Nat /\ now \in Nat /\ now <= now'
      /\ \A f \in pending \ {e} : /\ f.when >= now' /\ f \in pending' /\ f.when \in Nat
                                  /\ f.task # t
      /\ pending' = (pending \ {e}) \cup Admitted({new})
  BY <1>1, FireMovesOn, EventFacts, EventTask DEF Timely, DInv, IInv
<1>3. end >= e.when /\ new.when = end /\ new.task = t /\ new.who = "task"
  BY <1>1, <1>2 DEF EndOf, Event
<1>4. NoEventInThePast'
  BY <1>2, <1>3 DEF NoEventInThePast, Admitted
<1>5. TransfersAreOnTime'
  BY <1>1, <1>2, <1>3 DEF Timely, TransfersAreOnTime, Admitted
<1>6. RunningTasksEnd'
  <2>. SUFFICES ASSUME NEW u \in ComputeTasks, state'[u] = "RUNNING"
                PROVE  HasEnd(u)'
    BY DEF RunningTasksEnd
  <2>1. CASE u = t
    <3>1. busy_up_to'[Device[u]] = end
      BY <1>1, <2>1 DEF TypeOK
    <3>2. CASE new \in pending'
      BY <1>3, <2>1, <3>2 DEF HasEnd
    <3>3. CASE new \notin pending'
      <4>1. endtime # 0 /\ ~ (end < endtime) /\ endtime \in Nat /\ end \in Nat
        BY <1>1, <1>2, <1>3, <3>3 DEF Admitted, TypeOK, EndOf
      <4>. QED  BY <1>1, <3>1, <4>1 DEF HasEnd
    <3>. QED  BY <3>2, <3>3
  <2>2. CASE u # t
    <3>1. state[u] = "RUNNING" /\ u \in Tasks /\ Device[u] \in Devices
      BY <1>1, <2>2, ComputeFacts DEF TypeOK
    <3>2. HasEnd(u)
      BY <3>1 DEF Timely, RunningTasksEnd
    <3>3. Device[u] # d
      <4>1. Exclusive(Device[u]) /\ u \in Running(Device[u])
        BY <3>1 DEF DInv, Running
      <4>. QED  BY <1>1, <4>1 DEF Exclusive
    <3>4. busy_up_to'[Device[u]] = busy_up_to[Device[u]]
      BY <1>1, <3>1, <3>3 DEF TypeOK
    <3>. QED  BY <1>1, <1>2, <2>2, <3>2, <3>4 DEF HasEnd
  <2>. QED  BY <2>1, <2>2
<1>7. ResultsArePast'
  <2>. SUFFICES ASSUME NEW a \in Apps PROVE final_finish_time[a] <= now'
    BY <1>1 DEF ResultsArePast
  <2>1. final_finish_time[a] \in Nat /\ final_finish_time[a] <= now
    BY <1>1 DEF Timely, ResultsArePast, TypeOK
  <2>. QED  BY <1>2, <2>1
<1>8. DeviceIsWorkConserving'
  <2>. SUFFICES ASSUME NEW f \in pending', f.task \in ComputeTasks \ Roots,
                       state'[f.task] = "READY", f.when > now'
                PROVE  /\ device_state'[Device[f.task]] = "BUSY"
                       /\ f.when = busy_up_to'[Device[f.task]]
    BY DEF DeviceIsWorkConserving
  <2>1. f.task # t /\ f.task \in Tasks
    BY <1>1, ComputeFacts DEF TypeOK
  <2>2. f \in pending \ {e}
    BY <1>2, <1>3, <2>1 DEF Admitted
  <2>3. state[f.task] = "READY" /\ f.when > now
    BY <1>1, <1>2, <2>1, <2>2 DEF TypeOK
  <2>4. device_state[Device[f.task]] = "BUSY" /\ f.when = busy_up_to[Device[f.task]]
    BY <2>2, <2>3 DEF Timely, DeviceIsWorkConserving
  <2>5. Device[f.task] # d /\ Device[f.task] \in Devices
    BY <1>1, <2>4, ComputeFacts
  <2>. QED  BY <1>1, <2>4, <2>5 DEF TypeOK
<1>. QED  BY <1>4, <1>5, <1>6, <1>7, <1>8 DEF Timely

\* A task that waits for a device is given a time that is still to come: that of
\* the event that ends the running task, or one after the end of the simulation.
LEMMA WaitIsAhead ==
  ASSUME DInv, Timely, NEW e \in pending, ExecuteWait(e),
         NEW f \in Admitted({Event("task", e.task, Release(e.task), 0)})
  PROVE  /\ f.task = e.task /\ f.who = "task" /\ f.task \in ComputeTasks
         /\ device_state[Device[f.task]] = "BUSY"
         /\ f.when = busy_up_to[Device[f.task]] /\ f.when >= e.when
<1>. DEFINE t == e.task
            d == Device[t]
<1>1. /\ TypeOK /\ t \in ComputeTasks /\ d \in Devices /\ state[t] = "READY"
      /\ device_state[d] = "BUSY" /\ IsNext(e)
  BY EventTask, ComputeFacts DEF DInv, IInv, TypeOK, ExecuteWait, ComputeTasks, Idle, Fire
<1>2. /\ f.task = t /\ f.who = "task" /\ f.when = busy_up_to[d]
      /\ endtime = 0 \/ f.when < endtime
  BY DEF Admitted, Event, Release
<1>3. PICK u \in Running(d) : TRUE
  BY <1>1 DEF DInv, Exclusive
<1>4. u \in ComputeTasks /\ state[u] = "RUNNING" /\ Device[u] = d /\ HasEnd(u)
  BY <1>3 DEF Running, Timely, RunningTasksEnd
<1>5. busy_up_to[d] \in Nat /\ endtime \in Nat /\ e.when \in Nat
  BY <1>1, EventFacts DEF TypeOK
<1>6. PICK g \in pending : g.task = u
  BY <1>2, <1>4, <1>5 DEF HasEnd
<1>7. g # e /\ g.when = busy_up_to[d]
  BY <1>1, <1>3, <1>4, <1>6 DEF DInv, Exclusive
<1>8. Before(e, g)
  BY <1>1, <1>6, <1>7 DEF IsNext
<1>. QED  BY <1>1, <1>2, <1>5, <1>7, <1>8 DEF Before

LEMMA TimelyStep ==
  ASSUME DInv, Timely, RootsCompute, NEW e \in pending, DoNextEvent(e), finished_apps' # NApps
  PROVE  Timely'
<1>. DEFINE t == e.task
<1>1. \A who, when : /\ Event(who, t, when, 0).task = t /\ Event(who, t, when, 0).who = who
                     /\ Event(who, t, when, 0).when = when
  BY DEF Event
<1>2. /\ IInv /\ TypeOK /\ t \in Tasks /\ (t \in ComputeTasks => e.who = "task")
      /\ e.when \in Nat /\ RunTime[t] \in Nat
      /\ e.who = "task" /\ t \notin ComputeTasks => e.when = ready_time[t]
  BY EventTask, EventFacts DEF DInv, IInv, EventsMatchTasks, Timely, TransfersAreOnTime
<1>3. CASE ExecuteStart(e)
  BY <1>3, StartTimely
<1>4. CASE ExecuteFinish(e)
  <2>1. /\ Cleanup(e, e.when) /\ UNCHANGED busy_up_to
        /\ device_state' = [device_state EXCEPT ![Device[t]] = "IDLE"]
        /\ busy_up_to[Device[t]] = e.when
    BY <1>4, FinishIsNow DEF ExecuteFinish
  <2>2. \A d \in Devices : device_state'[d] = device_state[d] \/ busy_up_to[d] = e.when
    BY <1>2, <2>1 DEF TypeOK
  <2>. QED  BY <2>1, <2>2, CleanupTimely
<1>5. CASE LocalAllreduce(e)
  <2>1. Cleanup(e, e.when) /\ UNCHANGED deviceVars
    BY <1>2, <1>5 DEF LocalAllreduce, ComputeTasks
  <2>. QED  BY <2>1, CleanupTimely DEF deviceVars
<1>6. CASE TaskFinish(e)
  BY <1>6, CleanupTimely DEF TaskFinish, deviceVars
<1>7. CASE ExecuteWait(e)
  <2>. DEFINE batch == {Event("task", t, Release(t), 0)}
  <2>1. /\ Fire(e, batch, 1) /\ state[t] = "READY" /\ UNCHANGED state
        /\ UNCHANGED <<ready_time, deviceVars, final_finish_time, endtime>>
    BY <1>7 DEF ExecuteWait, taskVars, appVars
  <2>2. \A f \in Admitted(batch) :
          /\ f.when >= e.when /\ f.task = t
          /\ f.who = "task" => f.task \in ComputeTasks
          /\ f.task \in ComputeTasks => /\ device_state[Device[f.task]] = "BUSY"
                                        /\ f.when = busy_up_to[Device[f.task]]
    BY <1>7, WaitIsAhead
  <2>. HIDE DEF batch
  <2>. QED  BY <2>1, <2>2, OtherTimely
<1>8. ASSUME NEW when, NEW who, who # "task", t \notin ComputeTasks, when >= e.when,
             Fire(e, {Event(who, t, when, 0)}, 1),
             UNCHANGED <<ready_time, deviceVars, final_finish_time, endtime>>,
             \A u \in ComputeTasks : state'[u] = state[u]
      PROVE  Timely'
  <2>. DEFINE batch == {Event(who, t, when, 0)}
  <2>1. \A f \in Admitted(batch) : f.when >= e.when /\ f.task = t /\ f.who # "task"
    BY <1>1, <1>8 DEF Admitted
  <2>. HIDE DEF batch
  <2>2. Fire(e, batch, 1)
    BY <1>8 DEF batch
  <2>. QED  BY <1>8, <2>1, <2>2, OtherTimely
<1>9. CASE StartFlow(e)
  <2>1. /\ Fire(e, {Event("connect", t, ready_time[t], 0)}, 1) /\ t \notin ComputeTasks
        /\ UNCHANGED <<state, ready_time, deviceVars, final_finish_time, endtime>>
        /\ e.who = "task"
    BY <1>9 DEF StartFlow, ComputeTasks, taskVars, appVars
  <2>. QED  BY <1>2, <1>8, <2>1
<1>10. CASE StartAllreduce(e)
  <2>1. /\ Fire(e, {Event("connect", t, ready_time[t] + RunTime[t], 0)}, 1)
        /\ t \notin ComputeTasks /\ e.who = "task"
        /\ UNCHANGED <<ready_time, deviceVars, final_finish_time, endtime>>
    BY <1>10 DEF StartAllreduce, ComputeTasks, appVars
  <2>2. \A u \in ComputeTasks : state'[u] = state[u]
    BY <1>2, <1>10, <2>1, ComputeFacts DEF StartAllreduce, TypeOK
  <2>3. ready_time[t] + RunTime[t] >= e.when
    BY <1>2, <2>1
  <2>. QED  BY <1>8, <2>1, <2>2, <2>3
<1>11. CASE Connect(e)
  <2>1. PICK d \in XferTimes : Fire(e, {Event("deliver", t, e.when + d, 0)}, 1)
    BY <1>11 DEF Connect
  <2>2. t \notin ComputeTasks /\ e.when + d >= e.when
    BY <1>2, <1>11, TimeAssumption DEF Connect
  <2>3. UNCHANGED <<state, ready_time, deviceVars, final_finish_time, endtime>>
    BY <1>11 DEF Connect, taskVars, appVars
  <2>. QED  BY <1>8, <2>1, <2>2, <2>3
<1>12. CASE FlowCut(e)
  <2>1. /\ Fire(e, {}, 0) /\ t \notin ComputeTasks
        /\ UNCHANGED <<state, ready_time, deviceVars, final_finish_time, endtime>>
    BY <1>2, <1>12 DEF FlowCut, taskVars, appVars
  <2>2. Admitted({}) = {}
    BY DEF Admitted
  <2>. QED  BY <2>1, <2>2, OtherTimely
<1>. QED  BY <1>3, <1>4, <1>5, <1>6, <1>7, <1>9, <1>10, <1>11, <1>12 DEF DoNextEvent

LEMMA AppsFacts == IsFiniteSet(Apps) /\ Cardinality(Apps) = NApps
<1>1. NApps \in Nat
  BY GraphAssumption
<1>. QED  BY <1>1, FS_Interval DEF Apps

\* Once every application has completed an iteration, that is so for good.
LEMMA NotAllBefore ==
  ASSUME IInv, NEW e \in pending, DoNextEvent(e), finished_apps' # NApps
  PROVE  finished_apps # NApps
<1>. SUFFICES ASSUME finished_apps = NApps PROVE FALSE
  OBVIOUS
<1>1. finished_once \subseteq Apps /\ Cardinality(finished_once) = NApps
  BY DEF IInv, TypeOK, AppsAreCounted
<1>2. finished_once = Apps
  BY <1>1, AppsFacts, FS_Subset
<1>3. App[e.task] \in finished_once
  BY <1>2, EventFacts DEF IInv
<1>4. PICK when : Cleanup(e, when)
  BY DEF DoNextEvent, ExecuteStart, ExecuteWait, ExecuteFinish, StartFlow, StartAllreduce,
         LocalAllreduce, Connect, TaskFinish, FlowCut, appVars
<1>. QED  BY <1>3, <1>4 DEF Cleanup, CleanupMore, CleanupStop, CleanupRestart, CountApp

LEMMA TimelyInit == RootsCompute /\ Init => TInv
<1>. SUFFICES ASSUME RootsCompute, Init PROVE TInv
  OBVIOUS
<1>1. \A e \in pending : e.task \in Roots /\ e.when = initPos[e.task] /\ initPos[e.task] \in Nat
  BY InitInv DEF Init, IInv, TypeOK
<1>2. \A t \in Tasks : state[t] # "RUNNING"
  BY DEF Init
<1>3. Timely
  <2>1. NoEventInThePast /\ ResultsArePast
    BY <1>1 DEF Init, NoEventInThePast, ResultsArePast
  <2>2. TransfersAreOnTime
    BY <1>1 DEF TransfersAreOnTime, RootsCompute, ComputeTasks, Roots
  <2>3. RunningTasksEnd /\ DeviceIsWorkConserving
    BY <1>1, <1>2, ComputeFacts DEF RunningTasksEnd, DeviceIsWorkConserving
  <2>. QED  BY <2>1, <2>2, <2>3 DEF Timely
<1>. QED  BY <1>3, DeviceInit DEF TInv

LEMMA TimelyNext == RootsCompute /\ TInv /\ [Next]_vars => TInv'
<1>1. ASSUME TInv, UNCHANGED vars PROVE TInv'
  <2>1. /\ DInv' /\ UNCHANGED <<pending, now, endtime, state, ready_time, device_state,
                                busy_up_to, final_finish_time, finished_apps>>
    BY <1>1, DeviceNext DEF TInv, vars, eventVars, taskVars, deviceVars, appVars
  <2>2. Timely => Timely'
    BY <2>1 DEF Timely, NoEventInThePast, TransfersAreOnTime, RunningTasksEnd, HasEnd,
                ResultsArePast, DeviceIsWorkConserving
  <2>. QED  BY <1>1, <2>1, <2>2 DEF TInv
<1>2. ASSUME RootsCompute, TInv, NEW e \in pending, DoNextEvent(e) PROVE TInv'
  <2>1. DInv /\ DInv'
    BY <1>2, DeviceNext DEF TInv, Next
  <2>2. finished_apps' # NApps => Timely'
    BY <1>2, <2>1, NotAllBefore, TimelyStep DEF TInv, DInv
  <2>. QED  BY <2>1, <2>2 DEF TInv
<1>. QED  BY <1>1, <1>2 DEF Next

\* Until every application has completed an iteration, the assertion of
\* sourceIsPending holds of every event that is pending, provided that no root
\* of a task graph is a transfer.
THEOREM EventsAreAhead ==
  ASSUME RootsCompute
  PROVE  Spec => [](finished_apps # NApps => NoEventInThePast)
<1>1. TInv => (finished_apps # NApps => NoEventInThePast)
  BY DEF TInv, Timely
<1>2. (Init => TInv) /\ (TInv /\ [Next]_vars => TInv')
  BY TimelyInit, TimelyNext
<1>. QED  BY <1>1, <1>2, PTL DEF Spec

\* Until every application has completed an iteration, a task that is ready and
\* due for later waits for its device, which is busy until just then.
THEOREM DevicesNeverIdle ==
  ASSUME RootsCompute
  PROVE  Spec => [](finished_apps # NApps => DeviceIsWorkConserving)
<1>1. TInv => (finished_apps # NApps => DeviceIsWorkConserving)
  BY DEF TInv, Timely
<1>2. (Init => TInv) /\ (TInv /\ [Next]_vars => TInv')
  BY TimelyInit, TimelyNext
<1>. QED  BY <1>1, <1>2, PTL DEF Spec

\* The first completion of an application records the current time.
LEMMA FirstCompletion ==
  ASSUME TInv, NEW e \in pending, DoNextEvent(e), NEW a \in finished_once' \ finished_once
  PROVE  first_iter_time'[a] = now'
<1>1. DInv /\ IInv /\ TypeOK /\ finished_once \subseteq Apps /\ a \in Apps
  <2>1. DInv /\ IInv /\ TypeOK
    BY DEF TInv, DInv, IInv
  <2>2. IInv'
    BY <2>1, NextInv DEF Next
  <2>. QED  BY <2>1, <2>2 DEF IInv, TypeOK
<1>2. finished_apps # NApps
  <2>. SUFFICES ASSUME finished_apps = NApps PROVE FALSE
    OBVIOUS
  <2>1. Cardinality(finished_once) = Cardinality(Apps)
    BY <1>1, AppsFacts DEF IInv, AppsAreCounted
  <2>. QED  BY <1>1, <2>1, AppsFacts, FS_Subset
<1>3. Timely
  BY <1>2 DEF TInv
<1>4. Cleanup(e, e.when)
  <2>1. ExecuteFinish(e) => Cleanup(e, e.when)
    BY <1>1, FinishIsNow DEF ExecuteFinish
  <2>2. LocalAllreduce(e) => Cleanup(e, e.when)
    BY <1>3 DEF LocalAllreduce, Timely, TransfersAreOnTime, ComputeTasks
  <2>3. TaskFinish(e) => Cleanup(e, e.when)
    BY DEF TaskFinish
  <2>. QED  BY <2>1, <2>2, <2>3
            DEF DoNextEvent, ExecuteStart, ExecuteWait, StartFlow, StartAllreduce,
                Connect, FlowCut, appVars
<1>5. /\ CountApp(App[e.task]) /\ now' = e.when
      /\ final_finish_time' = [final_finish_time EXCEPT ![App[e.task]] = Later(@, e.when)]
  BY <1>4 DEF Cleanup, CleanupMore, CleanupStop, CleanupRestart, WakeSuccessors,
              ResetAndRestart, Fire
<1>6. a = App[e.task] /\ first_iter_time'[a] = final_finish_time'[a]
  BY <1>1, <1>5 DEF CountApp, Result, TypeOK
<1>7. /\ final_finish_time[a] \in Nat /\ final_finish_time[a] <= now
      /\ now \in Nat /\ e.when \in Nat /\ now <= e.when
  BY <1>1, <1>3, EventFacts DEF TypeOK, Timely, ResultsArePast, NoEventInThePast
<1>8. final_finish_time'[a] = Later(final_finish_time[a], e.when)
  BY <1>1, <1>5, <1>6 DEF TypeOK
<1>. QED  BY <1>5, <1>6, <1>7, <1>8 DEF Later

\* The iteration time reported for an application, which cleanup takes from the
\* finish times of its tasks, is the time at which its first iteration ended.
THEOREM ResultsAreCompletionTimes ==
  ASSUME RootsCompute
  PROVE  Spec => ResultIsCompletionTime
<1>1. TInv /\ [Next]_vars =>
        [\A a \in finished_once' \ finished_once : first_iter_time'[a] = now']_vars
  BY FirstCompletion DEF Next
<1>2. (Init => TInv) /\ (TInv /\ [Next]_vars => TInv')
  BY TimelyInit, TimelyNext
<1>3. Spec => [][\A a \in finished_once' \ finished_once : first_iter_time'[a] = now']_vars
  BY <1>1, <1>2, PTL DEF Spec
<1>. QED  BY <1>3 DEF ResultIsCompletionTime

-----------------------------------------------------------------------------
(* The abstract specification.                                             *)

done == {t \in Tasks : state[t] = "FINISHED"}

\* A task whose event runs is one the abstract specification may finish.
LEMMA RunningIsReady ==
  ASSUME IInv, NEW e \in pending
  PROVE  e.task \in Tasks /\ e.task \notin done /\ Preds(e.task) \subseteq done
<1>. DEFINE t == e.task
<1>1. t \in Tasks /\ state[t] # "FINISHED" /\ counter[t] = 0
  BY EventTask
<1>2. Unfinished(t) \subseteq Tasks /\ Cardinality(Unfinished(t)) = 0
  BY <1>1 DEF IInv, CountersAreExact, Unfinished, Preds
<1>3. Unfinished(t) = {}
  BY <1>2, FiniteTasks, FS_EmptySet
<1>. QED  BY <1>1, <1>3 DEF Unfinished, Preds, done

\* The number of finished tasks tells the last task of an iteration: it is
\* the last exactly when all others of its application have finished.
LEMMA LastIsCompletion ==
  ASSUME IInv, NEW e \in pending
  PROVE  LastOfIteration(e.task) <=> TasksOf(App[e.task]) \subseteq done \cup {e.task}
<1>. DEFINE t == e.task
            a == App[t]
<1>1. ASSUME LastOfIteration(t) PROVE TasksOf(a) \subseteq done \cup {t}
  BY <1>1, LastTask DEF done, TasksOf
<1>2. ASSUME TasksOf(a) \subseteq done \cup {t} PROVE LastOfIteration(t)
  <2>1. t \in Tasks /\ a \in Apps /\ t \in TasksOf(a) /\ t \notin FinishedOf(a)
    BY EventTask, GraphFacts DEF TasksOf, FinishedOf
  <2>2. TasksOf(a) = FinishedOf(a) \cup {t} /\ FinishedOf(a) \subseteq Tasks
    BY <1>2, <2>1 DEF FinishedOf, TasksOf, done
  <2>3. Cardinality(TasksOf(a)) = Cardinality(FinishedOf(a)) + 1
    BY <2>1, <2>2, FiniteTasks, FS_AddElement
  <2>. QED  BY <2>1, <2>3 DEF LastOfIteration, IInv, FinishedAreCounted
<1>. QED  BY <1>1, <1>2

\* The counter of applications tells when each has completed an iteration.
LEMMA AllAppsAreDone ==
  ASSUME TypeOK, AppsAreCounted
  PROVE  finished_apps = NApps <=> finished_once = Apps
<1>1. IsFiniteSet(Apps) /\ Cardinality(Apps) = NApps
  BY GraphAssumption, FS_Interval DEF Apps
<1>2. finished_once \subseteq Apps /\ finished_apps = Cardinality(finished_once)
  BY DEF TypeOK, AppsAreCounted
<1>. QED  BY <1>1, <1>2, FS_Subset

LEMMA CountAppOnce ==
  ASSUME NEW a, CountApp(a)
  PROVE  finished_once' = finished_once \cup {a}
BY DEF CountApp

\* A task that finishes is added to those that are done.
LEMMA WakeSuccessorsDone ==
  ASSUME IInv, NEW e \in pending, NEW when, WakeSuccessors(e, when)
  PROVE  done' = done \cup {e.task}
BY EventTask, WakeSuccessorsStates DEF done

\* Each branch of cleanup is the abstract action of its case.
LEMMA CleanupStep ==
  ASSUME IInv, IInv', NEW e \in pending, NEW when, Cleanup(e, when)
  PROVE  Dag!Next
<1>. DEFINE t == e.task
            a == App[t]
<1>1. t \in Tasks /\ Dag!Ready(t)
  BY RunningIsReady DEF Dag!Ready, done
<1>2. Dag!CompletesIteration(t) <=> LastOfIteration(t)
  BY LastIsCompletion DEF Dag!CompletesIteration, TasksOf, done
<1>3. CASE CleanupMore(e, when)
  <2>1. done' = done \cup {t} /\ UNCHANGED finished_once
    BY <1>3, WakeSuccessorsDone DEF CleanupMore
  <2>2. Dag!Finish(t)
    BY <1>1, <1>2, <1>3, <2>1 DEF CleanupMore, Dag!Finish, done
  <2>. QED  BY <1>1, <2>2 DEF Dag!Next
<1>4. CASE CleanupStop(e, when)
  <2>1. done' = done \cup {t} /\ finished_once' = finished_once \cup {a}
    BY <1>4, WakeSuccessorsDone, CountAppOnce DEF CleanupStop
  <2>2. (finished_apps = NApps <=> finished_once = Apps)'
    BY AllAppsAreDone, PTL DEF IInv
  <2>3. Dag!FinishAll(t)
    BY <1>1, <1>2, <1>4, <2>1, <2>2 DEF CleanupStop, Dag!FinishAll, done
  <2>. QED  BY <1>1, <2>3 DEF Dag!Next
<1>5. CASE CleanupRestart(e, when)
  <2>1. finished_once' = finished_once \cup {a}
    BY <1>5, CountAppOnce DEF CleanupRestart
  <2>2. done' = {u \in done : App[u] # a}
    BY <1>5, RestartStates DEF done, TasksOf
  <2>3. (finished_apps = NApps <=> finished_once = Apps)'
    BY AllAppsAreDone, PTL DEF IInv
  <2>4. Dag!FinishIteration(t)
    BY <1>1, <1>2, <1>5, <2>1, <2>2, <2>3 DEF CleanupRestart, Dag!FinishIteration, done
  <2>. QED  BY <1>1, <2>4 DEF Dag!Next
<1>. QED  BY <1>3, <1>4, <1>5 DEF Cleanup

\* An event that finishes no task is a stutter.
LEMMA OtherSteps ==
  ASSUME IInv, NEW e \in pending, UNCHANGED finished_once,
         \A u \in Tasks : state'[u] = state[u] \/ (u = e.task /\ state'[u] = "RUNNING")
  PROVE  UNCHANGED <<done, finished_once>>
BY EventTask DEF done

LEMMA DagStep ==
  ASSUME IInv, IInv', [Next]_vars
  PROVE  [Dag!Next]_(Dag!dagVars)
<1>1. ASSUME UNCHANGED vars PROVE UNCHANGED Dag!dagVars
  BY <1>1 DEF vars, taskVars, appVars, Dag!dagVars
<1>2. ASSUME NEW e \in pending, DoNextEvent(e) PROVE Dag!Next \/ UNCHANGED Dag!dagVars
  <2>. DEFINE Quiet == /\ UNCHANGED finished_once
                       /\ \A u \in Tasks : \/ state'[u] = state[u]
                                           \/ u = e.task /\ state'[u] = "RUNNING"
  <2>1. ASSUME Quiet PROVE UNCHANGED Dag!dagVars
    BY <2>1, OtherSteps DEF Dag!dagVars, done
  <2>2. CASE ExecuteFinish(e) \/ LocalAllreduce(e) \/ TaskFinish(e)
    BY <2>2, CleanupStep DEF ExecuteFinish, LocalAllreduce, TaskFinish
  <2>3. CASE ExecuteStart(e) \/ StartAllreduce(e)
    <3>1. Quiet
      BY <2>3 DEF ExecuteStart, StartAllreduce, IInv, TypeOK, appVars
    <3>. QED  BY <2>1, <3>1
  <2>4. CASE ExecuteWait(e) \/ StartFlow(e) \/ Connect(e) \/ FlowCut(e)
    <3>1. Quiet
      BY <2>4 DEF ExecuteWait, StartFlow, Connect, FlowCut, taskVars, appVars
    <3>. QED  BY <2>1, <3>1
  <2>. QED  BY <1>2, <2>2, <2>3, <2>4 DEF DoNextEvent
<1>. QED  BY <1>1, <1>2 DEF Next

\* Tasks finish in dependency order, once per iteration, and an application
\* starts over as a whole, unless every application has completed one: the
\* counters, events and counts of ffapp.cpp implement this for every graph.
THEOREM Refinement == Spec => ImplementsTaskDag
<1>1. Init => Dag!Init
  BY DEF Init, Dag!Init
<1>2. IInv /\ IInv' /\ [Next]_vars => [Dag!Next]_(Dag!dagVars)
  BY DagStep
<1>. QED  BY <1>1, <1>2, Inductive, PTL DEF Spec, ImplementsTaskDag, Dag!Spec

-----------------------------------------------------------------------------
(* No task is lost: for every task graph, a task whose predecessors have   *)
(* finished has an event until it has finished itself, also across the     *)
(* restarts of its application.                                            *)

\* The tasks that must have an event.
Awake == {t \in Tasks : counter[t] = 0 /\ state[t] # "FINISHED"}

HasEvent(t) == \E e \in pending : e.task = t

LEMMA AwakeOrLost == NoTaskIsLost <=> (endtime = 0 /\ finished_apps # NApps
                                         => \A t \in Awake : HasEvent(t))
BY DEF NoTaskIsLost, Awake, HasEvent

\* An event that runs takes no event of another task away, and what it asks for
\* is scheduled while the simulation has no end.
LEMMA FireKeeps ==
  ASSUME NEW e \in pending, NEW batch, NEW n, Fire(e, batch, n), endtime = 0
  PROVE  pending' = (pending \ {e}) \cup batch
BY DEF Fire, Admitted

\* Every task that is woken gets an event.
LEMMA EveryWokenHasEvent ==
  ASSUME NEW t \in Tasks, NEW when, NEW u \in Woken(t)
  PROVE  \E f \in WakeEvents(t, when) : f.task = u
<1>1. PICK i \in DOMAIN NextTasks[t] : NextTasks[t][i] = u
  <2>1. u \in Succs(t) /\ NextTasks[t] \in Seq(Tasks)
    BY GraphFacts DEF Woken
  <2>. QED  BY <2>1 DEF Succs
<1>2. Event("task", u, when, i) \in WakeEvents(t, when)
  BY <1>1 DEF WakeEvents
<1>. QED  BY <1>2 DEF Event

LEMMA WakeSuccessorsKeep ==
  ASSUME IInv, NEW e \in pending, NEW when, WakeSuccessors(e, when), endtime = 0,
         \A t \in Awake : HasEvent(t)
  PROVE  \A t \in Awake' : HasEvent(t)'
<1>. SUFFICES ASSUME NEW u \in Awake' PROVE \E f \in pending' : f.task = u
  BY DEF HasEvent
<1>1. u \in Tasks /\ counter'[u] = 0 /\ state'[u] # "FINISHED"
  BY DEF Awake
<1>2. pending' = (pending \ {e}) \cup WakeEvents(e.task, when)
  BY FireKeeps DEF WakeSuccessors
<1>3. e.task \in Tasks /\ u # e.task
  BY <1>1, EventTask, WakeSuccessorsStates
<1>4. CASE u \in Woken(e.task)
  BY <1>2, <1>3, <1>4, EveryWokenHasEvent
<1>5. CASE u \notin Woken(e.task)
  <2>1. u \notin Succs(e.task)
    BY <1>1, <1>5 DEF WakeSuccessors, Woken
  <2>2. counter[u] = 0 /\ state[u] # "FINISHED"
    BY <1>1, <1>3, <2>1, WakeSuccessorsStates DEF WakeSuccessors, Decremented
  <2>3. \E f \in pending : f.task = u
    BY <1>1, <2>2 DEF Awake, HasEvent
  <2>. QED  BY <1>2, <1>3, <2>3
<1>. QED  BY <1>4, <1>5

LEMMA RestartKeeps ==
  ASSUME IInv, NEW e \in pending, NEW when, CleanupRestart(e, when), endtime = 0,
         \A t \in Awake : HasEvent(t)
  PROVE  \A t \in Awake' : HasEvent(t)'
<1>. DEFINE t == e.task
            a == App[t]
<1>. SUFFICES ASSUME NEW u \in Awake' PROVE \E f \in pending' : f.task = u
  BY DEF HasEvent
<1>1. u \in Tasks /\ counter'[u] = 0 /\ state'[u] # "FINISHED"
  BY DEF Awake
<1>2. pending' = (pending \ {e}) \cup (WakeEvents(t, when) \cup InitEvents(a, t, e.when))
  BY FireKeeps DEF CleanupRestart, ResetAndRestart
<1>3. CASE App[u] = a
  <2>1. u \in Started(a, t)
    <3>1. counter'[u] = Restored(t)[u]
      BY <1>1, <1>3 DEF CleanupRestart, ResetAndRestart
    <3>. QED  BY <1>1, <1>3, <3>1 DEF Started, TasksOf
  <2>2. \E f \in InitEvents(a, t, e.when) : f.task = u
    <3>. DEFINE f == Event("task", u, e.when + initPos[u],
                           Len(NextTasks[t]) + 1 + initPos[u])
    <3>1. f \in InitEvents(a, t, e.when)
      BY <2>1 DEF InitEvents
    <3>2. f.task = u
      BY DEF Event
    <3>. QED  BY <3>1, <3>2
  <2>. QED  BY <1>2, <2>2
<1>4. CASE App[u] # a
  <2>1. counter[u] = 0 /\ state[u] # "FINISHED"
    BY <1>1, <1>4 DEF CleanupRestart, ResetAndRestart
  <2>2. \E f \in pending : f.task = u
    BY <1>1, <2>1 DEF Awake, HasEvent
  <2>. QED  BY <1>2, <1>4, <2>2
<1>. QED  BY <1>3, <1>4

\* A handler that asks for another event of its task.
LEMMA RescheduleKeeps ==
  ASSUME IInv, NEW e \in pending, NEW batch, NEW n, Fire(e, batch, n), endtime = 0,
         \E f \in batch : f.task = e.task,
         UNCHANGED counter,
         \A u \in Tasks : state'[u] = state[u] \/ u = e.task,
         \A t \in Awake : HasEvent(t)
  PROVE  \A t \in Awake' : HasEvent(t)'
<1>. SUFFICES ASSUME NEW u \in Awake' PROVE \E f \in pending' : f.task = u
  BY DEF HasEvent
<1>1. u \in Tasks /\ counter[u] = 0 /\ state'[u] # "FINISHED"
  BY DEF Awake
<1>2. pending' = (pending \ {e}) \cup batch
  BY FireKeeps
<1>3. CASE u = e.task
  BY <1>2, <1>3
<1>4. CASE u # e.task
  <2>1. state[u] # "FINISHED"
    BY <1>1, <1>4
  <2>2. \E f \in pending : f.task = u
    BY <1>1, <2>1 DEF Awake, HasEvent
  <2>. QED  BY <1>2, <1>4, <2>2
<1>. QED  BY <1>3, <1>4

\* Until all applications have completed an iteration the end is that of main:
\* only the last of them sets another, and none of them is counted twice.
LEMMA EndIsGiven ==
  ASSUME IInv, NEW e \in pending, NEW when, Cleanup(e, when), finished_apps' # NApps
  PROVE  /\ CleanupMore(e, when) \/ CleanupRestart(e, when)
         /\ endtime' = endtime /\ finished_apps # NApps
<1>1. CleanupMore(e, when) \/ CleanupRestart(e, when)
  BY DEF Cleanup, CleanupStop
<1>2. endtime' = endtime
  BY <1>1 DEF CleanupMore, CleanupRestart, ResetAndRestart
<1>3. CASE CleanupMore(e, when)
  BY <1>1, <1>2, <1>3 DEF CleanupMore
<1>4. CASE CleanupRestart(e, when)
  <2>. SUFFICES ASSUME finished_apps = NApps PROVE FALSE
    BY <1>1, <1>2
  <2>1. App[e.task] \in Apps /\ CountApp(App[e.task])
    BY <1>4, EventTask, GraphFacts DEF CleanupRestart
  <2>2. finished_once = Apps
    BY AllAppsAreDone DEF IInv
  <2>. QED  BY <2>1, <2>2 DEF CountApp
<1>. QED  BY <1>1, <1>2, <1>3, <1>4

LEMMA StepKeeps ==
  ASSUME IInv, NoTaskIsLost, NEW e \in pending, DoNextEvent(e)
  PROVE  NoTaskIsLost'
<1>. SUFFICES ASSUME endtime' = 0, finished_apps' # NApps PROVE \A t \in Awake' : HasEvent(t)'
  BY AwakeOrLost DEF NoTaskIsLost, Awake, HasEvent
<1>1. ASSUME NEW when, Cleanup(e, when) PROVE \A t \in Awake' : HasEvent(t)'
  <2>1. /\ CleanupMore(e, when) \/ CleanupRestart(e, when)
        /\ endtime = 0 /\ finished_apps # NApps
    BY <1>1, EndIsGiven
  <2>2. \A t \in Awake : HasEvent(t)
    BY <2>1, AwakeOrLost
  <2>3. CASE CleanupMore(e, when)
    BY <2>1, <2>2, <2>3, WakeSuccessorsKeep DEF CleanupMore
  <2>4. CASE CleanupRestart(e, when)
    BY <2>1, <2>2, <2>4, RestartKeeps
  <2>. QED  BY <2>1, <2>3, <2>4
<1>2. ASSUME NEW who, NEW when, NEW n, Fire(e, {Event(who, e.task, when, 0)}, n),
             UNCHANGED <<counter, appVars, endtime>>,
             \A u \in Tasks : state'[u] = state[u] \/ u = e.task
      PROVE  \A t \in Awake' : HasEvent(t)'
  <2>1. endtime = 0 /\ finished_apps # NApps
    BY <1>2 DEF appVars
  <2>2. \A t \in Awake : HasEvent(t)
    BY <2>1, AwakeOrLost
  <2>3. \E f \in {Event(who, e.task, when, 0)} : f.task = e.task
    BY DEF Event
  <2>. QED  BY <1>2, <2>1, <2>2, <2>3, RescheduleKeeps
<1>3. CASE ExecuteStart(e)
  <2>1. \A u \in Tasks : state'[u] = state[u] \/ u = e.task
    BY <1>3 DEF ExecuteStart, IInv, TypeOK
  <2>. QED  BY <1>2, <1>3, <2>1 DEF ExecuteStart
<1>4. CASE ExecuteWait(e)
  BY <1>2, <1>4 DEF ExecuteWait, taskVars
<1>5. CASE ExecuteFinish(e)
  BY <1>1, <1>5 DEF ExecuteFinish
<1>6. CASE StartFlow(e)
  BY <1>2, <1>6 DEF StartFlow, taskVars
<1>7. CASE StartAllreduce(e)
  <2>1. \A u \in Tasks : state'[u] = state[u] \/ u = e.task
    BY <1>7 DEF StartAllreduce, IInv, TypeOK
  <2>. QED  BY <1>2, <1>7, <2>1 DEF StartAllreduce
<1>8. CASE LocalAllreduce(e)
  BY <1>1, <1>8 DEF LocalAllreduce
<1>9. CASE Connect(e)
  <2>1. PICK d \in XferTimes : Fire(e, {Event("deliver", e.task, e.when + d, 0)}, 1)
    BY <1>9 DEF Connect
  <2>. QED  BY <1>2, <1>9, <2>1 DEF Connect, taskVars
<1>10. CASE TaskFinish(e)
  BY <1>1, <1>10 DEF TaskFinish
<1>11. CASE FlowCut(e)
  BY <1>11 DEF FlowCut
<1>. QED  BY <1>3, <1>4, <1>5, <1>6, <1>7, <1>8, <1>9, <1>10, <1>11 DEF DoNextEvent

LEMMA InitKeeps == Init => NoTaskIsLost
<1>. SUFFICES ASSUME Init, endtime = 0, NEW t \in Tasks, counter[t] = 0
              PROVE  \E e \in pending : e.task = t
  BY DEF NoTaskIsLost
<1>1. t \in Roots
  <2>1. Preds(t) \subseteq Tasks /\ Cardinality(Preds(t)) = 0
    BY DEF Init, Preds
  <2>. QED  BY <2>1, FiniteTasks, FS_EmptySet DEF Roots
<1>. DEFINE e == [who |-> "task", task |-> t, when |-> initPos[t],
                  ord |-> App[t] * Cardinality(Tasks) + initPos[t]]
<1>2. e \in pending
  BY <1>1 DEF Init
<1>. QED  BY <1>2

\* No wake-up is lost, in any task graph.
THEOREM NoWakeupIsLost == Spec => []NoTaskIsLost
<1>1. IInv /\ NoTaskIsLost /\ [Next]_vars => NoTaskIsLost'
  <2>. SUFFICES ASSUME IInv, NoTaskIsLost, [Next]_vars PROVE NoTaskIsLost'
    OBVIOUS
  <2>1. CASE Next
    BY <2>1, StepKeeps DEF Next
  <2>2. CASE UNCHANGED vars
    BY <2>2 DEF vars, eventVars, taskVars, appVars, NoTaskIsLost
  <2>. QED  BY <2>1, <2>2
<1>. QED  BY <1>1, InitKeeps, Inductive, PTL DEF Spec

=============================================================================
