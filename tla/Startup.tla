------------------------------- MODULE Startup -------------------------------
(***************************************************************************)
(* main/app_main.c: app_main makes what the tasks share and creates them   *)
(* one after the other, each of a higher priority than its own, on the one *)
(* core of the ESP32-C3: a task runs as soon as it is created, until it    *)
(* blocks.  The WiFi task makes the event group in which the MQTT task     *)
(* waits, 60 s at most, for the connection that the handler of Wifi brings *)
(* about; the MQTT client is started when that wait ends, or never.        *)
(*                                                                         *)
(* What the event loop's task and the WiFi driver do is Wifi's: both have  *)
(* higher priorities than any task here.                                   *)
(***************************************************************************)
EXTENDS Wifi

VARIABLES
  step,    \* of app_main
  made,    \* the queues, handles and drivers that exist
  place,   \* of each task
  seen     \* the station was connected while the MQTT task waited for it

startVars == <<vars, step, made, place, seen>>

Tasks == {"monitor", "wifi", "cmd", "mqtt", "sensor", "btn"}

(* A mutant: the WiFi task is of the priority of app_main.                 *)
PrioOfMain == [main |-> 1, monitor |-> 1, wifi |-> 1, cmd |-> 3, mqtt |-> 4, sensor |-> 2, btn |-> 2]

Prio == [main |-> 1, monitor |-> 1, wifi |-> 5, cmd |-> 3, mqtt |-> 4, sensor |-> 2, btn |-> 2]

(* What must be there when a task first runs.  Of the event group, the     *)
(* command queue and the handle of the MQTT task the code asks whether     *)
(* they are: without, it goes on as if there were no WiFi, and drops the   *)
(* command or the notification.  The rest it uses unasked.                 *)
Needs ==
  [monitor |-> {},
   wifi |-> {"event_loop"},
   cmd |-> {"command_queue", "leds"},
   mqtt |-> {"event_group", "data_mutex", "command_queue"},
   sensor |-> {"i2c_bus", "data_mutex", "mqtt_handle"},
   btn |-> {"button_queue", "leds"}]

(* The steps of app_main and of the start functions it calls.              *)
Program ==
  <<"event_loop", "data_mutex", "leds", "i2c_bus", "monitor", "wifi", "command_queue", "cmd",
    "mqtt", "sensor", "button_queue", "btn">>

StartInit ==
  /\ Init
  /\ step = 1 /\ made = {}
  /\ place = [t \in Tasks |-> "none"]
  /\ seen = FALSE

(* No task that is ready is of a higher priority.                          *)
Ready == {t \in Tasks : place[t] \in {"created", "connected", "expired"}}
Runs(t) == \A u \in Ready : Prio[u] <= Prio[t]

Goes(t, where) == place' = [place EXCEPT ![t] = where]

-----------------------------------------------------------------------------
(* app_main.  xTaskCreate stores the handle before the task can run.       *)
MainStep ==
  /\ step <= Len(Program)
  /\ Runs("main")
  /\ LET next == Program[step] IN
     IF next \in Tasks
     THEN Goes(next, "created") /\ made' = IF next = "mqtt" THEN made \cup {"mqtt_handle"} ELSE made
     ELSE made' = made \cup {next} /\ UNCHANGED place
  /\ step' = step + 1
  /\ UNCHANGED <<vars, seen>>

(* A task begins: "up" means that it has got to its loop.                  *)
TaskBegins ==
  /\ \E t \in Tasks \ {"wifi", "mqtt"} :
       place[t] = "created" /\ Runs(t) /\ Goes(t, "up")
  /\ UNCHANGED <<vars, step, made, seen>>

(* wifi_init_sta: the event group first; then it blocks in esp_wifi_init.  *)
WifiBegins ==
  /\ place["wifi"] = "created" /\ Runs("wifi")
  /\ made' = made \cup {"event_group"}
  /\ Goes("wifi", "init")
  /\ UNCHANGED <<vars, step, seen>>

WifiStarts ==
  /\ place["wifi"] = "init"
  /\ StartStation
  /\ Goes("wifi", "up")
  /\ UNCHANGED <<step, made, seen>>

(* app_wifi_wait_for_connection.  Without the event group it does not wait.*)
MqttBegins ==
  /\ place["mqtt"] = "created" /\ Runs("mqtt")
  /\ Goes("mqtt", IF "event_group" \notin made THEN "offline"
                  ELSE IF connectedBit THEN "connected" ELSE "waiting")
  /\ seen' = (seen \/ connectedBit)
  /\ UNCHANGED <<vars, step, made>>

(* A mutant: the wait polls, and only when the time is over.               *)
WakeNobody == UNCHANGED place

(* xEventGroupSetBits readies the task, and the task has the bits as they  *)
(* were then, although they may be cleared before it runs.                 *)
WakeMqtt == Goes("mqtt", IF place["mqtt"] = "waiting" THEN "connected" ELSE place["mqtt"])

GotIp ==
  /\ OnGotIp
  /\ WakeMqtt
  /\ seen' = (seen \/ place["mqtt"] = "waiting")
  /\ UNCHANGED <<step, made>>

(* A mutant: the wait has no limit.                                        *)
WaitForEver == FALSE /\ UNCHANGED startVars

(* 60 s are over.  The bit is tested once more when the task runs.         *)
WaitEnds ==
  /\ place["mqtt"] = "waiting"
  /\ Goes("mqtt", "expired")
  /\ UNCHANGED <<vars, step, made, seen>>

WaitExpired ==
  /\ place["mqtt"] = "expired" /\ Runs("mqtt")
  /\ Goes("mqtt", IF connectedBit THEN "connected" ELSE "offline")
  /\ seen' = (seen \/ connectedBit)
  /\ UNCHANGED <<vars, step, made>>

(* mqtt_app_start *)
ClientStarts ==
  /\ place["mqtt"] = "connected" /\ Runs("mqtt")
  /\ Goes("mqtt", "online")
  /\ UNCHANGED <<vars, step, made, seen>>

WifiElse ==
  /\ Join \/ Lose \/ GetAddress \/ OnStart \/ OnDisconnected \/ Reconnect
  /\ UNCHANGED <<step, made, place, seen>>

Booting ==
  \/ MainStep \/ TaskBegins \/ WifiBegins \/ WifiStarts
  \/ MqttBegins \/ WaitExpired \/ ClientStarts

StartNext == Booting \/ WaitEnds \/ GotIp \/ WifiElse

-----------------------------------------------------------------------------
(* Properties *)

(* What a task uses is there when it first runs, by the order of app_main  *)
(* and the priorities: in particular the event group, which no start       *)
(* function makes but the WiFi task itself, is there when the MQTT task    *)
(* asks for it, and the command queue before the first command.            *)
NeedsMet ==
  \A t \in Tasks : place[t] \notin {"none", "created"} => Needs[t] \subseteq made

(* The MQTT client is started if and only if the station was connected at  *)
(* some time of the wait of task_app_mqtt, even if it lost the connection  *)
(* again before that task could run; a connection that comes and goes      *)
(* between the last of the 60 s and the task's turn is not of the wait.    *)
ConnectionNotMissed ==
  /\ place["mqtt"] \in {"connected", "online"} => seen
  /\ place["mqtt"] = "offline" => ~seen

(* An access point that lets the station join and gives it an address.     *)
Served == WF_vars(Join) /\ WF_vars(GetAddress)

(* Then the station ends up connected, started as app_main starts it and   *)
(* whatever the MQTT task has decided meanwhile.                           *)
ConnectedIfServed == Served => EventuallyConnected

(* Every task gets to its loop, and the MQTT task's wait ends: with an     *)
(* access point, without one, and with one that comes and goes.            *)
AllStarted ==
  <>[](/\ \A t \in Tasks \ {"mqtt"} : place[t] = "up"
       /\ place["mqtt"] \in {"online", "offline"})

=============================================================================
