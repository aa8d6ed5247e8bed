------------------------------ MODULE CmdTask ------------------------------
(***************************************************************************)
(* main/task_app_cmd.c: the queue of ten commands and the task, of         *)
(* priority 3, that takes them out and drives the LED through bsp.c; with  *)
(* the part of main/task_app_mqtt.c that turns a broker message into a     *)
(* command.                                                                *)
(*                                                                         *)
(* The MQTT event handler sends without waiting (app_send_command_nonblock)*)
(* and app_send_command, the interface for tasks that has no caller yet,   *)
(* waits up to 100 ms for room.  A BSP call blocks while the LED frame is  *)
(* on the wire, so it is two steps: commands keep arriving while one is    *)
(* carried out.                                                            *)
(***************************************************************************)
EXTENDS Naturals, Sequences

CONSTANTS
  Waiters,     \* tasks that call app_send_command
  QueueCap     \* xQueueCreate(10, ...): the length of s_cmd_queue

ASSUME WaitersAssumption == "mqtt" \notin Waiters
ASSUME QueueCapAssumption == QueueCap \in Nat \ {0}

VARIABLES
  s_cmd_queue,  \* the FreeRTOS queue, oldest first
  curr,         \* the state of task_app_cmd's switch
  inBsp,        \* task_app_cmd is inside bsp_led_on() or bsp_led_off()
  lamp,         \* what the last BSP call that returned asked of the LED
  blocked,      \* blocked[w]: the command w waits to send, or "none"
  outcome       \* outcome[s]: the answer to the last send of s

vars == <<s_cmd_queue, curr, inBsp, lamp, blocked, outcome>>

Senders == Waiters \cup {"mqtt"}
Known == {"LED_ON", "LED_OFF"}
Commands == Known \cup {"OTHER"}
Outcomes == {"none", "queued", "refused"}

(* A mutant: off by one.                                                   *)
HasRoomOrFull == Len(s_cmd_queue) <= QueueCap

HasRoom == Len(s_cmd_queue) < QueueCap

Init ==
  /\ s_cmd_queue = <<>>
  /\ curr = "WAIT_CMD"
  /\ inBsp = FALSE
  /\ lamp = "NONE"
  /\ blocked = [w \in Waiters |-> "none"]
  /\ outcome = [s \in Senders |-> "none"]

-----------------------------------------------------------------------------
(* Senders *)

Enqueue(s, cmd) ==
  /\ HasRoom
  /\ s_cmd_queue' = Append(s_cmd_queue, cmd)
  /\ outcome' = [outcome EXCEPT ![s] = "queued"]

GiveUp(s) ==
  /\ ~HasRoom
  /\ outcome' = [outcome EXCEPT ![s] = "refused"]
  /\ UNCHANGED s_cmd_queue

(* The first byte of a payload on the control topic selects the command;   *)
(* another byte, an empty payload or another topic sends nothing.          *)
ControlByte == {"0", "1"}
CommandOf(byte) == IF byte = "1" THEN "LED_ON" ELSE "LED_OFF"

(* MQTT_EVENT_DATA: app_send_command_nonblock has its answer at once.      *)
MqttData(byte) ==
  /\ Enqueue("mqtt", CommandOf(byte)) \/ GiveUp("mqtt")
  /\ UNCHANGED <<curr, inBsp, lamp, blocked>>

(* app_send_command: sends at once when there is room, else blocks.        *)
SendNow(w, cmd) ==
  /\ blocked[w] = "none"
  /\ Enqueue(w, cmd)
  /\ UNCHANGED <<curr, inBsp, lamp, blocked>>

Block(w, cmd) ==
  /\ blocked[w] = "none"
  /\ ~HasRoom
  /\ blocked' = [blocked EXCEPT ![w] = cmd]
  /\ outcome' = [outcome EXCEPT ![w] = "none"]
  /\ UNCHANGED <<s_cmd_queue, curr, inBsp, lamp>>

(* A mutant: the sender waits with portMAX_DELAY.                          *)
UnblockByRoom(w) ==
  /\ blocked[w] # "none"
  /\ Enqueue(w, blocked[w])
  /\ blocked' = [blocked EXCEPT ![w] = "none"]
  /\ UNCHANGED <<curr, inBsp, lamp>>

(* The blocked sender is woken by room in the queue, which another sender  *)
(* may take first, or by its 100 ms timeout, after which xQueueSend looks  *)
(* at the queue once more before it gives up.                              *)
Unblock(w) ==
  /\ blocked[w] # "none"
  /\ Enqueue(w, blocked[w]) \/ GiveUp(w)
  /\ blocked' = [blocked EXCEPT ![w] = "none"]
  /\ UNCHANGED <<curr, inBsp, lamp>>

-----------------------------------------------------------------------------
(* task_app_cmd *)

(* STATE_WAIT_CMD: an unknown command is logged and forgotten.             *)
Receive ==
  /\ curr = "WAIT_CMD"
  /\ s_cmd_queue # <<>>
  /\ s_cmd_queue' = Tail(s_cmd_queue)
  /\ curr' = IF Head(s_cmd_queue) \in Known THEN Head(s_cmd_queue) ELSE curr
  /\ UNCHANGED <<inBsp, lamp, blocked, outcome>>

(* STATE_LED_ON and STATE_LED_OFF: the BSP call, then back to waiting.     *)
CallBsp ==
  /\ curr \in Known
  /\ ~inBsp
  /\ inBsp' = TRUE
  /\ UNCHANGED <<s_cmd_queue, curr, lamp, blocked, outcome>>

(* A mutant: the state is not set back to STATE_WAIT_CMD.                  *)
BspReturnsOnly ==
  /\ inBsp
  /\ inBsp' = FALSE
  /\ lamp' = curr
  /\ UNCHANGED <<s_cmd_queue, curr, blocked, outcome>>

BspReturns ==
  /\ inBsp
  /\ inBsp' = FALSE
  /\ lamp' = curr
  /\ curr' = "WAIT_CMD"
  /\ UNCHANGED <<s_cmd_queue, blocked, outcome>>

TaskStep == Receive \/ CallBsp \/ BspReturns

Next ==
  \/ \E byte \in ControlByte : MqttData(byte)
  \/ \E w \in Waiters, cmd \in Commands : SendNow(w, cmd) \/ Block(w, cmd)
  \/ \E w \in Waiters : Unblock(w)
  \/ TaskStep

(* The task runs whenever nothing of higher priority does and a BSP call   *)
(* ends with its frame; the kernel's timeout ends every wait for room.     *)
Fairness ==
  /\ WF_vars(TaskStep)
  /\ \A w \in Waiters : WF_vars(Unblock(w))

Spec == Init /\ [][Next]_vars /\ Fairness

-----------------------------------------------------------------------------
(* Properties *)

TypeOK ==
  /\ s_cmd_queue \in Seq(Commands)
  /\ Len(s_cmd_queue) <= QueueCap
  /\ curr \in Known \cup {"WAIT_CMD"}
  /\ inBsp \in BOOLEAN
  /\ lamp \in Known \cup {"NONE"}
  /\ blocked \in [Waiters -> Commands \cup {"none"}]
  /\ outcome \in [Senders -> Outcomes]

(* The command being carried out is still owed to its sender.              *)
Current == IF curr \in Known THEN <<curr>> ELSE <<>>

Service == INSTANCE CmdService
  WITH Capacity <- QueueCap, pending <- Current \o s_cmd_queue

(* The task, its queue and its senders keep the promise of the command     *)
(* channel (CmdService): commands accepted by app_send_command and its     *)
(* non-blocking twin are carried out in order, each exactly once, none is  *)
(* refused while there is room, and every accepted one is carried out.     *)
ServiceSpec == Service!Spec

(* app_send_command never blocks its caller for ever, whatever the other   *)
(* senders do with the room the task makes.                                *)
WaiterAnswered == \A w \in Waiters : blocked[w] # "none" ~> blocked[w] = "none"

=============================================================================
