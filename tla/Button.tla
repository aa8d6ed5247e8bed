------------------------------- MODULE Button -------------------------------
(***************************************************************************)
(* main/task_app_btn.c: the boot key pulls its pin down while it is        *)
(* pressed.  Each rising edge interrupts, the ISR queues an event if there *)
(* is room, and the button task waits 50 ms after each event and toggles   *)
(* the LED if the pin is high.  The contact bounces for less than 50 ms.   *)
(***************************************************************************)
EXTENDS Naturals

CONSTANTS
  QueueCap,     \* xQueueCreate(5, ...)
  MaxBounces,   \* bound: bounces of one movement of the key
  MaxPresses    \* bound: presses

ASSUME BoundsAssumption ==
  QueueCap \in Nat \ {0} /\ MaxBounces \in Nat /\ MaxPresses \in Nat

VARIABLES
  key,             \* "up" or "down"
  level,           \* of the pin
  bounces,         \* that this movement has left
  s_button_queue,  \* how many events it holds
  bpc,             \* button_task: "wait" or "delay"
  moved,           \* the key has moved since the delay began
  presses, toggles,
  owed             \* the key is released and the LED not toggled since

vars == <<key, level, bounces, s_button_queue, bpc, moved, presses, toggles, owed>>

Rest == IF key = "up" THEN 1 ELSE 0      \* the level the pin settles at
Settled == level = Rest /\ bounces = 0

Init ==
  /\ key = "up" /\ level = 1 /\ bounces = 0
  /\ s_button_queue = 0
  /\ bpc = "wait" /\ moved = FALSE
  /\ presses = 0 /\ toggles = 0
  /\ owed = FALSE

-----------------------------------------------------------------------------
(* The key                                                                 *)

Move ==
  /\ Settled
  /\ bounces' \in 0..MaxBounces
  /\ moved' = (bpc = "delay")
  /\ \/ /\ key = "up" /\ presses < MaxPresses
        /\ key' = "down"
        /\ presses' = presses + 1
        /\ owed' = FALSE
     \/ /\ key = "down"
        /\ key' = "up"
        /\ UNCHANGED <<presses, owed>>
  /\ UNCHANGED <<level, s_button_queue, bpc, toggles>>

(* A mutant: the event is counted whether or not the queue has room.       *)
EventUnchecked == s_button_queue' = s_button_queue + 1

(* button_isr_handler: an event that finds the queue full is lost.         *)
Event ==
  s_button_queue' = IF s_button_queue < QueueCap
                    THEN s_button_queue + 1 ELSE s_button_queue

Fall ==
  /\ level = 1 /\ ~Settled
  /\ level' = 0
  /\ bounces' = IF key = "up" THEN bounces - 1 ELSE bounces
  /\ UNCHANGED <<key, s_button_queue, bpc, moved, presses, toggles, owed>>

Rise ==
  /\ level = 0 /\ ~Settled
  /\ level' = 1
  /\ bounces' = IF key = "down" THEN bounces - 1 ELSE bounces
  /\ Event
  /\ owed' = (key = "up")
  /\ UNCHANGED <<key, bpc, moved, presses, toggles>>

-----------------------------------------------------------------------------
(* button_task                                                             *)

ReceiveEvent ==
  /\ bpc = "wait"
  /\ s_button_queue > 0
  /\ s_button_queue' = s_button_queue - 1
  /\ bpc' = "delay"
  /\ moved' = FALSE
  /\ UNCHANGED <<key, level, bounces, presses, toggles, owed>>

(* A mutant: it toggles if the key is still pressed.                       *)
DelayEndsPressed ==
  /\ bpc = "delay"
  /\ Settled \/ moved
  /\ bpc' = "wait"
  /\ IF level = 0
     THEN toggles' = toggles + 1 /\ owed' = FALSE
     ELSE UNCHANGED <<toggles, owed>>
  /\ moved' = FALSE
  /\ UNCHANGED <<key, level, bounces, s_button_queue, presses>>

(* The delay outlasts the bouncing, unless the key moved after it began.   *)
DelayEnds ==
  /\ bpc = "delay"
  /\ Settled \/ moved
  /\ bpc' = "wait"
  /\ IF level = 1
     THEN toggles' = toggles + 1 /\ owed' = FALSE
     ELSE UNCHANGED <<toggles, owed>>
  /\ moved' = FALSE
  /\ UNCHANGED <<key, level, bounces, s_button_queue, presses>>

(* The key is at rest and every event is handled.                          *)
Idle ==
  /\ presses = MaxPresses /\ key = "up" /\ Settled
  /\ s_button_queue = 0 /\ bpc = "wait"
  /\ UNCHANGED vars

Next == Move \/ Fall \/ Rise \/ ReceiveEvent \/ DelayEnds \/ Idle

Fairness == WF_vars(Fall \/ Rise) /\ WF_vars(ReceiveEvent) /\ WF_vars(DelayEnds)

Spec == Init /\ [][Next]_vars /\ Fairness

-----------------------------------------------------------------------------
(* Properties *)

TypeOK ==
  /\ key \in {"up", "down"}
  /\ level \in {0, 1}
  /\ bounces \in 0..MaxBounces
  /\ s_button_queue \in 0..QueueCap
  /\ bpc \in {"wait", "delay"}
  /\ moved \in BOOLEAN
  /\ presses \in 0..MaxPresses
  /\ toggles \in Nat
  /\ owed \in BOOLEAN

(* A release not yet answered is remembered: by an event in the queue, be  *)
(* it full, by the task in its delay, or by a rising edge still to come.   *)
ReleaseRemembered == owed => s_button_queue > 0 \/ bpc = "delay" \/ level = 0

(* A press is not lost to a full queue, nor to an event that was taken     *)
(* while the contact bounced: once the key is released the LED is toggled, *)
(* unless it is pressed anew.                                              *)
ReleaseToggles == owed ~> ~owed

(* The 50 ms delay is a debounce: one toggle for one press.                *)
OneTogglePerPress == toggles <= presses

=============================================================================
