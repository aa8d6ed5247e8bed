----------------------------- MODULE CmdService -----------------------------
(***************************************************************************)
(* What the command channel of the gateway promises its callers, with no   *)
(* queue, no task and no BSP call in it: a command is either accepted or   *)
(* refused, it is refused only when the service is full, and the accepted  *)
(* commands take effect one by one, each once, in the order of acceptance. *)
(* CmdTask.tla (task_app_cmd.c) is shown to implement it.                  *)
(***************************************************************************)
EXTENDS Naturals, Sequences

CONSTANTS
  Senders,    \* the tasks that send commands
  Capacity    \* how many commands may wait behind the one being served

VARIABLES
  pending,    \* commands accepted and not yet served, oldest first
  lamp,       \* what the last served command asked of the LED
  outcome     \* outcome[s]: what sender s was last told

vars == <<pending, lamp, outcome>>

Commands == {"LED_ON", "LED_OFF", "OTHER"}

(* An unknown command is consumed and changes nothing. *)
Effect(cmd, old) == IF cmd = "OTHER" THEN old ELSE cmd

Init ==
  /\ pending = <<>>
  /\ lamp = "NONE"
  /\ outcome = [s \in Senders |-> "none"]

Accept(s, cmd) ==
  /\ Len(pending) <= Capacity
  /\ pending' = Append(pending, cmd)
  /\ outcome' = [outcome EXCEPT ![s] = "queued"]
  /\ UNCHANGED lamp

Refuse(s) ==
  /\ Len(pending) >= Capacity
  /\ outcome' = [outcome EXCEPT ![s] = "refused"]
  /\ UNCHANGED <<pending, lamp>>

(* A sender that has chosen to wait has no answer yet. *)
Ask(s) ==
  /\ outcome' = [outcome EXCEPT ![s] = "none"]
  /\ UNCHANGED <<pending, lamp>>

Serve ==
  /\ pending # <<>>
  /\ lamp' = Effect(Head(pending), lamp)
  /\ pending' = Tail(pending)
  /\ UNCHANGED outcome

Next ==
  \/ \E s \in Senders, cmd \in Commands : Accept(s, cmd)
  \/ \E s \in Senders : Refuse(s) \/ Ask(s)
  \/ Serve

(* An accepted command is eventually served. *)
Spec == Init /\ [][Next]_vars /\ WF_vars(Serve)

=============================================================================
