-------------------------------- MODULE Bsp --------------------------------
(***************************************************************************)
(* main/bsp.c: the LED functions, over the RMT backend of the led_strip    *)
(* component.  The command task (priority 3) and the button task (priority *)
(* 2) call them with no lock between them, so a call is cut where another  *)
(* task can get in: after each byte of the pixel buffer, around the        *)
(* enabling of the channel, and while the frame is on the wire, when the   *)
(* caller is blocked.                                                      *)
(*                                                                         *)
(* The chip has one core: a task runs only while no task of higher         *)
(* priority can.  bsp_led_off also writes level 0 to the pin, which the    *)
(* RMT peripheral drives, so it changes nothing and has no step.           *)
(***************************************************************************)
EXTENDS Naturals

CONSTANTS
  Tasks,      \* the tasks that call the LED functions
  Prio,       \* Prio[t]: the FreeRTOS priority of t
  Sets,       \* Sets[t]: the colours t sets, Dark for bsp_led_off
  Toggles     \* Toggles[t]: the colours t toggles

ASSUME PrioAssumption == Prio \in [Tasks -> Nat]

Byte == 0..255
Channel == {"red", "green", "blue"}
Dark == [c \in Channel |-> 0]

ASSUME ColoursAssumption ==
  \A t \in Tasks : Sets[t] \cup Toggles[t] \subseteq [Channel -> Byte]

VARIABLES
  pixel_buf,    \* led_strip_rmt_obj.pixel_buf
  rmt,          \* state of the RMT channel: "init" or "enabled"
  frame,        \* the frame on the wire, {} when there is none
  led,          \* the colour the LED shows
  s_led_state,  \* bsp.c: what bsp_led_get_state returns
  pc,           \* pc[t]: where t is in its LED call
  want          \* want[t]: the colour of that call

vars == <<pixel_buf, rmt, frame, led, s_led_state, pc, want>>

Places == Channel \cup {"idle", "enable", "transmit", "wait", "store"}

(* bsp_init clears the strip before any task is started. *)
Init ==
  /\ pixel_buf = Dark
  /\ rmt = "init"
  /\ frame = {}
  /\ led = Dark
  /\ s_led_state = 0
  /\ pc = [t \in Tasks |-> "idle"]
  /\ want = [t \in Tasks |-> Dark]

-----------------------------------------------------------------------------
(* An idle task waits on its queue and a waiting one for the channel's     *)
(* interrupt; a task of lower priority runs only then.                     *)
Blocked(t) == pc[t] = "idle" \/ (pc[t] = "wait" /\ frame # {})
Runs(t) == \A u \in Tasks : Prio[u] > Prio[t] => Blocked(u)

At(t, place) == pc[t] = place /\ Runs(t)
Goto(t, place) == pc' = [pc EXCEPT ![t] = place]

Begin(t, colour) ==
  /\ want' = [want EXCEPT ![t] = colour]
  /\ Goto(t, "red")
  /\ UNCHANGED <<pixel_buf, rmt, frame, led, s_led_state>>

(* bsp_led_set_color (bsp_led_on is this with blue) and bsp_led_off.       *)
CallSet(t, colour) ==
  /\ At(t, "idle")
  /\ Begin(t, colour)

(* bsp_led_toggle: the state is read here and used to choose the call.     *)
CallToggle(t, colour) ==
  /\ At(t, "idle")
  /\ Begin(t, IF s_led_state = 1 THEN Dark ELSE colour)

(* led_strip_rmt_set_pixel, and the memset of led_strip_rmt_clear.         *)
AfterByte(c) == CASE c = "red" -> "green" [] c = "green" -> "blue" [] c = "blue" -> "enable"

(* A mutant: the colour byte is scaled beyond its width.                   *)
WriteBrightByte(t, c) ==
  /\ At(t, c)
  /\ pixel_buf' = [pixel_buf EXCEPT ![c] = want[t][c] * 16]
  /\ Goto(t, AfterByte(c))
  /\ UNCHANGED <<rmt, frame, led, s_led_state, want>>

WriteByte(t, c) ==
  /\ At(t, c)
  /\ pixel_buf' = [pixel_buf EXCEPT ![c] = want[t][c]]
  /\ Goto(t, AfterByte(c))
  /\ UNCHANGED <<rmt, frame, led, s_led_state, want>>

(* A mutant: the refresh goes on after a failed rmt_enable.                *)
EnableUnchecked(t) ==
  /\ At(t, "enable")
  /\ rmt' = "enabled"
  /\ Goto(t, "transmit")
  /\ UNCHANGED <<pixel_buf, frame, led, s_led_state, want>>

(* A mutant: rmt_enable spins until the channel is free.                   *)
EnableSpins(t) ==
  /\ At(t, "enable")
  /\ rmt = "init"
  /\ rmt' = "enabled"
  /\ Goto(t, "transmit")
  /\ UNCHANGED <<pixel_buf, frame, led, s_led_state, want>>

(* rmt_enable: fails when the channel is enabled already, and then         *)
(* led_strip_refresh returns an error that bsp.c does not look at.         *)
Enable(t) ==
  /\ At(t, "enable")
  /\ \/ /\ rmt = "init"
        /\ rmt' = "enabled"
        /\ Goto(t, "transmit")
     \/ /\ rmt = "enabled"
        /\ Goto(t, "store")
        /\ UNCHANGED rmt
  /\ UNCHANGED <<pixel_buf, frame, led, s_led_state, want>>

(* rmt_transmit: one pixel is encoded at once, from the buffer as it is.   *)
Transmit(t) ==
  /\ At(t, "transmit")
  /\ frame' = {pixel_buf}
  /\ Goto(t, "wait")
  /\ UNCHANGED <<pixel_buf, rmt, led, s_led_state, want>>

(* The peripheral has sent the frame and raises its interrupt.             *)
FrameDone ==
  /\ frame # {}
  /\ led' \in frame
  /\ frame' = {}
  /\ UNCHANGED <<pixel_buf, rmt, s_led_state, pc, want>>

(* rmt_tx_wait_all_done returns, and rmt_disable.                          *)
Disable(t) ==
  /\ At(t, "wait")
  /\ frame = {}
  /\ rmt' = "init"
  /\ Goto(t, "store")
  /\ UNCHANGED <<pixel_buf, frame, led, s_led_state, want>>

StoreState(t) ==
  /\ At(t, "store")
  /\ s_led_state' = IF want[t] = Dark THEN 0 ELSE 1
  /\ Goto(t, "idle")
  /\ UNCHANGED <<pixel_buf, rmt, frame, led, want>>

Step(t) ==
  \/ \E c \in Channel : WriteByte(t, c)
  \/ Enable(t) \/ Transmit(t) \/ Disable(t) \/ StoreState(t)

(* Each task makes the calls that its code has.                            *)
Calls(t) ==
  \/ \E colour \in Sets[t] : CallSet(t, colour)
  \/ \E colour \in Toggles[t] : CallToggle(t, colour)

Next == FrameDone \/ \E t \in Tasks : Calls(t) \/ Step(t)

(* The peripheral always ends a frame.  While one is on the wire its owner *)
(* is blocked, so the task below it gets the core again and again.         *)
Fairness ==
  /\ WF_vars(FrameDone)
  /\ \A t \in Tasks : SF_vars(Step(t))

Spec == Init /\ [][Next]_vars /\ Fairness

-----------------------------------------------------------------------------
(* Properties *)

TypeOK ==
  /\ pixel_buf \in [Channel -> Byte]
  /\ rmt \in {"init", "enabled"}
  /\ frame \subseteq [Channel -> Byte]
  /\ \A f, g \in frame : f = g
  /\ led \in [Channel -> Byte]
  /\ s_led_state \in {0, 1}
  /\ pc \in [Tasks -> Places]
  /\ want \in [Tasks -> [Channel -> Byte]]

Holds(t) == pc[t] \in {"transmit", "wait"}

(* led_strip_rmt_refresh leaves by four error returns without disabling    *)
(* the channel.  Whatever the order of the calls, the channel is enabled   *)
(* only while one call is between its own enabling and its own disabling,  *)
(* so it is never left enabled, which would fail every later refresh.      *)
ChannelOwned ==
  /\ rmt = "enabled" <=> \E t \in Tasks : Holds(t)
  /\ \A t, u \in Tasks : Holds(t) /\ Holds(u) => t = u
  /\ frame # {} => \E t \in Tasks : pc[t] = "wait"

(* No LED call blocks its task for ever, although the wait for the frame   *)
(* has no timeout: the frame a caller waits for is its own.                *)
CallReturns == \A t \in Tasks : pc[t] # "idle" ~> pc[t] = "idle"

Lit == led # Dark
Quiet == \A t \in Tasks : pc[t] = "idle"

(* bsp_led_get_state: 0 when the LED is off, 1 when it is on, here only    *)
(* asked between calls.  bsp_led_toggle relies on it.                      *)
StateMatchesLed == Quiet => (s_led_state = 1 <=> Lit)

=============================================================================
