------------------------------- MODULE Monitor -------------------------------
(***************************************************************************)
(* main/task_monitor.c: the table of the tasks whose stacks are watched.   *)
(* app_main enters each task after it has created it, and the report loop  *)
(* walks the table; both have priority 1, share the core by time slices    *)
(* and take no lock.  task_monitor_unregister has no caller.  The rest of  *)
(* the start is Startup's.                                                 *)
(***************************************************************************)
EXTENDS Startup, FiniteSets

VARIABLES
  s_tasks,
  s_task_count,
  entering,      \* what task_monitor_register writes next, or "none"
  mpc, entry     \* of the report loop: where it is, and its i

table == <<s_tasks, s_task_count>>
report == <<mpc, entry>>
monitorVars == <<startVars, table, entering, report>>

(* A mutant: the table has no room for the last task.                      *)
ShortTable == 4

MAX_MONITORED_TASKS == 16

(* The tasks that are registered, and their stacks in bytes.               *)
Watched == Tasks \ {"monitor"}
StackOf == [wifi |-> 8192, cmd |-> 4096, mqtt |-> 8192, sensor |-> 8192, btn |-> 2048]

Entry(t) == [name |-> t, handle |-> t, stack_total |-> StackOf[t]]
Zero == [name |-> "NULL", handle |-> "NULL", stack_total |-> 0]

(* task_monitor_start *)
MonitorInit ==
  /\ StartInit
  /\ s_tasks = [k \in 0..MAX_MONITORED_TASKS - 1 |-> Zero] /\ s_task_count = 0
  /\ entering = "none"
  /\ mpc = "wait" /\ entry = 0

(* A step of app_main, which registers the task that it has created.       *)
Create ==
  /\ entering = "none"
  /\ MainStep
  /\ entering' = IF Program[step] \in Watched /\ s_task_count < MAX_MONITORED_TASKS
                 THEN "name" ELSE "none"
  /\ UNCHANGED <<table, report>>

After == [name |-> "handle", handle |-> "stack_total", stack_total |-> "count", count |-> "none"]

(* A mutant: the entry is counted first.                                   *)
CountFirst ==
  /\ entering # "none" /\ Runs("main")
  /\ s_task_count' = IF entering = "name" THEN s_task_count + 1 ELSE s_task_count
  /\ s_tasks' = IF entering = "count" THEN s_tasks
                ELSE [s_tasks EXCEPT ![s_task_count' - 1][entering] =
                        Entry(Program[step - 1])[entering]]
  /\ entering' = After[entering]
  /\ UNCHANGED <<startVars, report>>

(* task_monitor_register: one store, in the order of the code.             *)
Register ==
  /\ entering # "none" /\ Runs("main")
  /\ IF entering = "count"
     THEN s_task_count' = s_task_count + 1 /\ UNCHANGED s_tasks
     ELSE /\ s_tasks' = [s_tasks EXCEPT ![s_task_count][entering] =
                           Entry(Program[step - 1])[entering]]
          /\ UNCHANGED s_task_count
  /\ entering' = After[entering]
  /\ UNCHANGED <<startVars, report>>

(* The report loop, from the end of a delay to the next.                   *)
DelayOver ==
  /\ mpc = "wait" /\ place["monitor"] = "up"
  /\ mpc' = "test" /\ entry' = 0

(* A mutant: the last entry is left out.                                   *)
TestButLast ==
  /\ mpc = "test"
  /\ mpc' = IF entry + 1 < s_task_count THEN "read" ELSE "wait"
  /\ UNCHANGED entry

Test ==
  /\ mpc = "test"
  /\ mpc' = IF entry < s_task_count THEN "read" ELSE "wait"
  /\ UNCHANGED entry

(* The stack of s_tasks[entry].handle is looked up and reported.               *)
ReadEntry ==
  /\ mpc = "read"
  /\ mpc' = "test" /\ entry' = entry + 1

Report ==
  /\ Runs("monitor")
  /\ DelayOver \/ Test \/ ReadEntry
  /\ UNCHANGED <<startVars, table, entering>>

OtherTasks ==
  /\ \/ TaskBegins \/ WifiBegins \/ WifiStarts \/ MqttBegins \/ WaitEnds \/ WaitExpired
     \/ ClientStarts \/ GotIp \/ WifiElse
  /\ UNCHANGED <<table, entering, report>>

MonitorNext == Create \/ Register \/ Report \/ OtherTasks

(* The scheduler runs a task that is ready, and the report loop when the   *)
(* others block; esp_wifi_init returns and the 60 s pass.  Of the fairness *)
(* of Wifi, that of the application: there may be no access point at all.  *)
MonitorFairness ==
  /\ WF_monitorVars(Create) /\ WF_monitorVars(Register) /\ WF_monitorVars(Report)
  /\ WF_startVars(TaskBegins) /\ WF_startVars(WifiBegins) /\ WF_startVars(WifiStarts)
  /\ WF_startVars(MqttBegins) /\ WF_startVars(WaitEnds) /\ WF_startVars(WaitExpired)
  /\ WF_startVars(ClientStarts)
  /\ WF_vars(OnStart) /\ WF_vars(OnDisconnected) /\ WF_vars(Reconnect) /\ WF_vars(OnGotIp)

MonitorSpec == MonitorInit /\ [][MonitorNext]_monitorVars /\ MonitorFairness

-----------------------------------------------------------------------------
(* Properties *)

(* The report loop never asks for the stack of a task that is not there,   *)
(* or of one with the size of another: the entry it reads is whole and of  *)
(* a task that app_main has created, wherever app_main was interrupted.    *)
EntryWhole ==
  mpc = "read" => \E t \in Watched : place[t] # "none" /\ s_tasks[entry] = Entry(t)

(* When app_main is through, each task is in the table, and in it once,    *)
(* whenever the report loop has run meanwhile.                             *)
TableComplete ==
  step > Len(Program) /\ entering = "none" =>
    /\ {s_tasks[k] : k \in 0..s_task_count - 1} = {Entry(t) : t \in Watched}
    /\ s_task_count = Cardinality(Watched)

(* Every task that is registered is reported again and again.              *)
AllReported ==
  \A t \in Watched : []<>(mpc = "read" /\ s_tasks[entry].handle = t)

=============================================================================
