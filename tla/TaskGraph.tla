----------------------------- MODULE TaskGraph -----------------------------
(***************************************************************************)
(* The execution of FlexFlow task graphs (ffapp.cpp): several applications *)
(* on one event list, each with its tasks, their dependency counters and   *)
(* the devices that compute tasks occupy.  When the last task of an        *)
(* application finishes, the application starts a new iteration, unless    *)
(* every application has now completed one; then the simulation ends.      *)
(*                                                                         *)
(* A network transfer is opaque here: a "connect" event (TcpSrc::connect   *)
(* schedules the source at its start time) and, some transfer time later,  *)
(* a "deliver" event (the acknowledgement that completes the last flow and *)
(* calls the task back).                                                   *)
(***************************************************************************)
EXTENDS EventList, FiniteSets, Sequences

CONSTANTS
  NApps,      \* total_apps; applications are numbered in creation order
  Tasks,      \* the tasks of all applications
  Devices,    \* the devices of all applications
  App,        \* App[t]: the application that owns task t
  Kind,       \* Kind[t]: see Kinds
  Device,     \* Device[t]: the device of a compute task
  NextTasks,  \* NextTasks[t]: next_tasks, the successors of t
  RunTime,    \* RunTime[t]: run_time
  XferTimes,  \* the durations a network transfer may have
  SimEnds     \* the end times a main program may set; 0: none

Apps == 1..NApps
Kinds == {"compute",          \* runs on a device
          "comm",             \* TASK_COMM on a network device
          "allreduce",        \* a collective over at least two nodes
          "local_allreduce"}  \* a collective over one node
States == {"NOT_READY", "READY", "RUNNING", "FINISHED"}

Succs(t) == {NextTasks[t][i] : i \in DOMAIN NextTasks[t]}
Preds(t) == {p \in Tasks : t \in Succs(p)}
TasksOf(a) == {t \in Tasks : App[t] = a}
ComputeTasks == {t \in Tasks : Kind[t] = "compute"}
Collectives == {t \in Tasks : Kind[t] \in {"allreduce", "local_allreduce"}}

\* What the loader builds.  A graph lists each dependency once; an all-reduce
\* entry uses the successor list for its node group, so that it has no
\* successors, and it has predecessors (its counter is never written otherwise).
ASSUME GraphAssumption ==
  /\ NApps \in Nat \ {0}
  /\ IsFiniteSet(Tasks)
  /\ App \in [Tasks -> Apps]
  /\ Kind \in [Tasks -> Kinds]
  /\ NextTasks \in [Tasks -> Seq(Tasks)]
  /\ \A t \in Tasks : \A i, j \in DOMAIN NextTasks[t] :
        NextTasks[t][i] = NextTasks[t][j] => i = j
  /\ \A t \in Tasks : \A u \in Succs(t) : App[u] = App[t]
  /\ \A t \in Collectives : NextTasks[t] = <<>> /\ Preds(t) # {}

ASSUME DeviceAssumption ==
  /\ Device \in [ComputeTasks -> Devices]
  /\ \A t, u \in ComputeTasks : Device[t] = Device[u] => App[t] = App[u]

ASSUME TimeAssumption ==
  /\ RunTime \in [Tasks -> Nat]
  /\ XferTimes \subseteq Nat
  /\ SimEnds \subseteq Nat

VARIABLES
  state, counter, ready_time, finish_time,  \* FFTask
  device_state, busy_up_to,                 \* FFDevice
  n_finished_tasks, finished_once,          \* FFApplication
  final_finish_time, first_iter_time,
  finished_apps,                            \* the static counter
  initPos       \* the place of a root task in the iteration over the hash map tasks

taskVars == <<state, counter, ready_time, finish_time>>
deviceVars == <<device_state, busy_up_to>>
appVars == <<n_finished_tasks, finished_once, final_finish_time,
             first_iter_time, finished_apps>>
vars == <<eventVars, taskVars, deviceVars, appVars, initPos>>

-----------------------------------------------------------------------------
\* An event of task t: the i-th that the running handler schedules.
Event(who, t, when, i) ==
  [who |-> who, task |-> t, when |-> when, ord |-> stamp + i]

Roots == {t \in Tasks : Preds(t) = {}}

\* The hash map may hold the root tasks of an application in any order.
RootOrders ==
  {f \in [Roots -> 0..(Cardinality(Roots) - 1)] :
     /\ \A t, u \in Roots : App[t] = App[u] /\ f[t] = f[u] => t = u
     /\ \A t \in Roots : f[t] < Cardinality(Roots \cap TasksOf(App[t]))}

\* The main program loads every application and calls its start_init_tasks
\* at time 0: the k-th root task of an application is due at time k.
Init ==
  /\ initPos \in RootOrders
  /\ now = 0
  /\ endtime \in SimEnds
  /\ stamp = (NApps + 1) * Cardinality(Tasks)
  /\ pending = {e \in {[who |-> "task", task |-> t, when |-> initPos[t],
                        ord |-> App[t] * Cardinality(Tasks) + initPos[t]] : t \in Roots} :
                  endtime = 0 \/ e.when < endtime}
  /\ state = [t \in Tasks |-> IF t \in Roots THEN "READY" ELSE "NOT_READY"]
  /\ counter = [t \in Tasks |-> Cardinality(Preds(t))]
  /\ ready_time = [t \in Tasks |-> 0]
  /\ finish_time = [t \in Tasks |-> 0]
  /\ device_state = [d \in Devices |-> "IDLE"]
  /\ busy_up_to = [d \in Devices |-> 0]
  /\ n_finished_tasks = [a \in Apps |-> 0]
  /\ finished_once = {}
  /\ final_finish_time = [a \in Apps |-> 0]
  /\ first_iter_time = [a \in Apps |-> 0]
  /\ finished_apps = 0

-----------------------------------------------------------------------------
(* FFTask::cleanup and what it calls.                                      *)

Decremented(t) ==
  [u \in Tasks |-> IF u \in Succs(t) THEN counter[u] - 1 ELSE counter[u]]

\* Faulty: a successor is woken while it still waits for another task.
WokenEarly(t) == {u \in Succs(t) : Decremented(t)[u] <= 1}

\* The successors whose counter reaches zero.
Woken(t) == {u \in Succs(t) : Decremented(t)[u] = 0}

\* Faulty: only the first successor is scheduled.
WakeFirst(t, when) ==
  {Event("task", NextTasks[t][i], when, i) :
      i \in {i \in DOMAIN NextTasks[t] : i = 1 /\ NextTasks[t][i] \in Woken(t)}}

WakeEvents(t, when) ==
  {Event("task", NextTasks[t][i], when, i) :
      i \in {i \in DOMAIN NextTasks[t] : NextTasks[t][i] \in Woken(t)}}

\* The successors of t are told, and those that waited for t alone get ready.
WakeSuccessors(e, when) ==
  LET t == e.task IN
  /\ counter' = Decremented(t)
  /\ ready_time' = [u \in Tasks |-> IF u \in Woken(t) THEN when ELSE ready_time[u]]
  /\ state' = [u \in Tasks |-> IF u \in Woken(t) THEN "READY"
                               ELSE IF u = t THEN "FINISHED" ELSE state[u]]
  /\ finish_time' = [finish_time EXCEPT ![t] = when]
  /\ Fire(e, WakeEvents(t, when), Len(NextTasks[t]) + 1)

\* Faulty: the graph remembers that a task waits, not for how many others.
RestoredToOne(t) == [u \in Tasks |-> IF Preds(u) = {} THEN Decremented(t)[u] ELSE 1]

\* counters only has entries for tasks with predecessors.
Restored(t) ==
  [u \in Tasks |-> IF Preds(u) = {} THEN Decremented(t)[u] ELSE Cardinality(Preds(u))]

\* start_init_tasks starts the tasks whose counter is 0, one time unit apart.
Started(a, t) == {u \in TasksOf(a) : Restored(t)[u] = 0}

InitEvents(a, t, time) ==
  {Event("task", u, time + initPos[u], Len(NextTasks[t]) + 1 + initPos[u]) : u \in Started(a, t)}

\* FFApplication::reset_and_restart, called while e.task finishes.
ResetAndRestart(e, when) ==
  LET t == e.task
      a == App[t]
  IN
  /\ n_finished_tasks' = [n_finished_tasks EXCEPT ![a] = 0]
  /\ state' = [u \in Tasks |-> IF App[u] # a THEN state[u]
                               ELSE IF u \in Started(a, t) THEN "READY" ELSE "NOT_READY"]
  /\ ready_time' = [u \in Tasks |-> IF App[u] = a THEN e.when ELSE ready_time[u]]
  /\ finish_time' = [u \in Tasks |-> IF App[u] = a THEN 0 ELSE finish_time[u]]
  /\ counter' = [u \in Tasks |-> IF App[u] = a THEN Restored(t)[u] ELSE counter[u]]
  /\ Fire(e, WakeEvents(t, when) \cup InitEvents(a, t, e.when),
          Len(NextTasks[t]) + 1 + Cardinality(Roots))
  /\ UNCHANGED endtime

\* Faulty: one task too early.
LastButOne(t) ==
  n_finished_tasks[App[t]] + 2 >= Cardinality(TasksOf(App[t]))

LastOfIteration(t) ==
  n_finished_tasks[App[t]] + 1 = Cardinality(TasksOf(App[t]))

Later(x, y) == IF x < y THEN y ELSE x

\* The task of e finishes, with finish time when, but others of its
\* application have not.
CleanupMore(e, when) ==
  /\ ~ LastOfIteration(e.task)
  /\ n_finished_tasks' = [n_finished_tasks EXCEPT ![App[e.task]] = @ + 1]
  /\ WakeSuccessors(e, when)
  /\ UNCHANGED <<finished_once, first_iter_time, finished_apps, endtime>>

\* Faulty: counts iterations, not applications.
CountIteration(a) ==
  /\ finished_once' = finished_once \cup {a}
  /\ first_iter_time' = [first_iter_time EXCEPT ![a] = final_finish_time'[a]]
  /\ finished_apps' = finished_apps + 1

\* Faulty: the finish time of the last task is not yet in it.
StaleResult(a) == final_finish_time[a]

Result(a) == final_finish_time'[a]

\* The first time an application finishes all its tasks is its result.
CountApp(a) ==
  IF a \in finished_once
  THEN UNCHANGED <<finished_once, first_iter_time, finished_apps>>
  ELSE /\ finished_once' = finished_once \cup {a}
       /\ first_iter_time' = [first_iter_time EXCEPT ![a] = Result(a)]
       /\ finished_apps' = finished_apps + 1

\* The last task of an application that leaves none unfinished: the end.
CleanupStop(e, when) ==
  /\ LastOfIteration(e.task)
  /\ CountApp(App[e.task])
  /\ finished_apps' = NApps
  /\ n_finished_tasks' = [n_finished_tasks EXCEPT ![App[e.task]] = @ + 1]
  /\ WakeSuccessors(e, when)
  /\ endtime' = e.when

\* The last task of an application, while another has yet to finish.
CleanupRestart(e, when) ==
  /\ LastOfIteration(e.task)
  /\ CountApp(App[e.task])
  /\ finished_apps' # NApps
  /\ ResetAndRestart(e, when)

Cleanup(e, when) ==
  /\ final_finish_time' = [final_finish_time EXCEPT ![App[e.task]] = Later(@, when)]
  /\ CleanupMore(e, when) \/ CleanupStop(e, when) \/ CleanupRestart(e, when)
  /\ UNCHANGED initPos

-----------------------------------------------------------------------------
(* FFTask::doNextEvent: what the event of a task does.                     *)

\* Faulty: the state of the device is not looked at.
AnyDevice(d) == TRUE

Idle(d) == device_state[d] = "IDLE"

\* Faulty: the run time is taken off the start time.
EndBeforeStart(t, start) == start - RunTime[t]

EndOf(t, start) == start + RunTime[t]

\* A ready task whose device is idle occupies it for its run time.
ExecuteStart(e) ==
  LET t == e.task
      d == Device[t]
      done == EndOf(t, e.when)
  IN
  /\ e.who = "task" /\ Kind[t] = "compute"
  /\ state[t] = "READY" /\ Idle(d)
  /\ state' = [state EXCEPT ![t] = "RUNNING"]
  /\ device_state' = [device_state EXCEPT ![d] = "BUSY"]
  /\ finish_time' = [finish_time EXCEPT ![t] = done]
  /\ busy_up_to' = [busy_up_to EXCEPT ![d] = done]
  /\ Fire(e, {Event("task", t, done, 0)}, 1)
  /\ UNCHANGED <<counter, ready_time, appVars, initPos, endtime>>

\* Faulty: the finish time of the waiting task, not of the running one.
OwnFinish(t) == finish_time[t]

\* Faulty: one time unit after the device is released.
AfterRelease(t) == busy_up_to[Device[t]] + 1

Release(t) == busy_up_to[Device[t]]

\* A ready task whose device is busy tries again when the device is released.
ExecuteWait(e) ==
  /\ e.who = "task" /\ Kind[e.task] = "compute"
  /\ state[e.task] = "READY" /\ ~ Idle(Device[e.task])
  /\ Fire(e, {Event("task", e.task, Release(e.task), 0)}, 1)
  /\ UNCHANGED <<taskVars, deviceVars, appVars, initPos, endtime>>

\* A running task has finished.
ExecuteFinish(e) ==
  /\ e.who = "task" /\ Kind[e.task] = "compute"
  /\ state[e.task] = "RUNNING"
  /\ device_state' = [device_state EXCEPT ![Device[e.task]] = "IDLE"]
  /\ Cleanup(e, finish_time[e.task])
  /\ UNCHANGED busy_up_to

\* FFTask::start_flow: the flow connects at the time the task got ready.
StartFlow(e) ==
  /\ e.who = "task" /\ Kind[e.task] = "comm"
  /\ Fire(e, {Event("connect", e.task, ready_time[e.task], 0)}, 1)
  /\ UNCHANGED <<taskVars, deviceVars, appVars, initPos, endtime>>

\* A collective starts its first flows once its local run time has passed (which
\* is 0 with parameter servers: their start_flow does not look at run_time).
StartAllreduce(e) ==
  /\ e.who = "task" /\ Kind[e.task] = "allreduce"
  /\ state' = [state EXCEPT ![e.task] = "RUNNING"]
  /\ Fire(e, {Event("connect", e.task, ready_time[e.task] + RunTime[e.task], 0)}, 1)
  /\ UNCHANGED <<counter, ready_time, finish_time, deviceVars, appVars, initPos, endtime>>

\* A collective over one node finishes at once.
LocalAllreduce(e) ==
  /\ e.who = "task" /\ Kind[e.task] = "local_allreduce"
  /\ Cleanup(e, ready_time[e.task])
  /\ UNCHANGED deviceVars

\* The source of the flow starts; the network decides how long it takes.
Connect(e) ==
  /\ e.who = "connect"
  /\ \E d \in XferTimes : Fire(e, {Event("deliver", e.task, e.when + d, 0)}, 1)
  /\ UNCHANGED <<taskVars, deviceVars, appVars, initPos, endtime>>

\* taskfinish, or the end of the last round of a collective.
TaskFinish(e) ==
  /\ e.who = "deliver"
  /\ Cleanup(e, e.when)
  /\ UNCHANGED deviceVars

\* Past the end of the simulation a flow may miss a packet event it needs,
\* because sourceIsPending did not take it.
FlowCut(e) ==
  /\ e.who = "deliver" /\ endtime # 0 /\ e.when >= endtime
  /\ Fire(e, {}, 0)
  /\ UNCHANGED <<taskVars, deviceVars, appVars, initPos, endtime>>

DoNextEvent(e) ==
  \/ ExecuteStart(e) \/ ExecuteWait(e) \/ ExecuteFinish(e)
  \/ StartFlow(e) \/ StartAllreduce(e) \/ LocalAllreduce(e)
  \/ Connect(e) \/ TaskFinish(e) \/ FlowCut(e)

Next == \E e \in pending : DoNextEvent(e)

\* main: while (eventlist.doNextEvent()) { }
Fairness == WF_vars(Next)

Spec == Init /\ [][Next]_vars /\ Fairness
-----------------------------------------------------------------------------
(* Properties.                                                             *)

EventKinds == {"task", "connect", "deliver"}

\* The types of the variables.
TypeOK ==
  /\ now \in Nat /\ endtime \in Nat /\ stamp \in Nat
  /\ pending \subseteq [who : EventKinds, task : Tasks, when : Nat, ord : Nat]
  /\ state \in [Tasks -> States]
  /\ counter \in [Tasks -> Int]
  /\ ready_time \in [Tasks -> Nat]
  /\ finish_time \in [Tasks -> Nat]
  /\ device_state \in [Devices -> {"IDLE", "BUSY"}]
  /\ busy_up_to \in [Devices -> Nat]
  /\ n_finished_tasks \in [Apps -> Nat]
  /\ finished_once \subseteq Apps
  /\ final_finish_time \in [Apps -> Nat]
  /\ first_iter_time \in [Apps -> Nat]
  /\ finished_apps \in Nat
  /\ initPos \in [Roots -> Nat]

Unfinished(t) == {p \in Preds(t) : state[p] # "FINISHED"}

\* A dependency counter is the number of predecessors that have not finished
\* in this iteration, across restarts and whatever the order of completion;
\* a task has left NOT_READY only with a counter of 0 (the assertion of
\* taskstart, ffapp.cpp:519).
CountersAreExact ==
  \A t \in Tasks :
    /\ counter[t] = Cardinality(Unfinished(t))
    /\ state[t] # "NOT_READY" => counter[t] = 0

\* No task is scheduled twice: it has at most one event, which is that of a
\* task that is ready or running, so that cleanup runs once per iteration
\* (the states execute_compute rejects, ffapp.cpp:531-539).
OneEventPerTask ==
  \A e \in pending :
    /\ \A f \in pending : e.task = f.task => e = f
    /\ state[e.task] \in {"READY", "RUNNING"}

\* A device is busy exactly while one of its tasks runs, never two; the end of
\* that task, which releases it, is at busy_up_to, the time waiters are given.
DeviceIsExclusive ==
  \A d \in Devices :
    LET running == {t \in ComputeTasks : Device[t] = d /\ state[t] = "RUNNING"}
    IN  /\ \A t, u \in running : t = u
        /\ device_state[d] = "BUSY" <=> running # {}
        /\ \A t \in running : finish_time[t] = busy_up_to[d]
        /\ \A e \in pending : e.task \in running => e.when = busy_up_to[d]

\* No device idles while work waits: a task that is ready for a device, and is
\* not a root still in its start-up delay, waits for later only when the device
\* is busy, and then exactly until the device is released.
DeviceIsWorkConserving ==
  \A e \in pending :
    LET t == e.task IN
    (t \in ComputeTasks \ Roots /\ state[t] = "READY" /\ e.when > now)
      => device_state[Device[t]] = "BUSY" /\ e.when = busy_up_to[Device[t]]

\* No wake-up is lost: while some application has yet to complete an iteration,
\* and unless main gave the simulation an end, every task whose predecessors
\* have finished, and that has not, has an event.
NoTaskIsLost ==
  endtime = 0 /\ finished_apps # NApps =>
    \A t \in Tasks : counter[t] = 0 /\ state[t] # "FINISHED"
                        => \E e \in pending : e.task = t

\* An application restarts from a clean slate: nothing the last iteration
\* scheduled is still pending, and its devices are idle.
RestartIsClean ==
  [][\A a \in Apps : n_finished_tasks[a] > 0 /\ n_finished_tasks'[a] = 0 =>
       /\ \A e \in pending' : App[e.task] = a => e \notin pending
       /\ \A t \in ComputeTasks : App[t] = a => device_state'[Device[t]] = "IDLE"]_vars

\* The iteration time the program reports for an application is the time at
\* which its first iteration completed (first_iter_time, printed by main).
ResultIsCompletionTime ==
  [][\A a \in finished_once' \ finished_once : first_iter_time'[a] = now']_vars

\* The execution implements the abstract one.
Dag == INSTANCE TaskDag WITH
         done <- {t \in Tasks : state[t] = "FINISHED"},
         once <- finished_once
ImplementsTaskDag == Dag!Spec

\* The event loop ends, and unless main gave the simulation an end, every
\* application has then completed an iteration.
SimulationEnds ==
  /\ <>[](pending = {})
  /\ endtime = 0 => <>(finished_once = Apps)
=============================================================================
