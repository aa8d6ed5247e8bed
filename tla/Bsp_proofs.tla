----------------------------- MODULE Bsp_proofs -----------------------------
(***************************************************************************)
(* Proofs about Bsp for every set of tasks, with any priorities, that set  *)
(* and toggle any colours.  The priorities are not used: the RMT channel   *)
(* is safe whatever the scheduler does.                                    *)
(***************************************************************************)
EXTENDS Bsp, TLAPS

IInv == TypeOK /\ ChannelOwned

LEMMA DarkType == Dark \in [Channel -> Byte]
  BY DEF Dark, Byte

LEMMA InitIInv == Init => IInv
  <1> SUFFICES ASSUME Init PROVE IInv
    OBVIOUS
  <1>1. TypeOK
    BY DarkType DEF Init, TypeOK, Places
  <1>2. ChannelOwned
    BY DEF Init, ChannelOwned, Holds
  <1>3. QED
    BY <1>1, <1>2 DEF IInv

-----------------------------------------------------------------------------
(* Types                                                                   *)

LEMMA BeginType ==
  ASSUME TypeOK, NEW t \in Tasks, NEW colour \in [Channel -> Byte], Begin(t, colour)
  PROVE  TypeOK'
  BY DEF TypeOK, Begin, Goto, Places, Channel

LEMMA StepType ==
  ASSUME TypeOK, NEW t \in Tasks, Step(t)
  PROVE  TypeOK'
  <1>1. ASSUME NEW c \in Channel, WriteByte(t, c) PROVE TypeOK'
    <2>1. want[t][c] \in Byte
      BY DEF TypeOK
    <2>2. pixel_buf' \in [Channel -> Byte]
      BY <1>1, <2>1 DEF WriteByte, TypeOK
    <2>3. AfterByte(c) \in Places
      BY DEF AfterByte, Places, Channel
    <2>4. QED
      BY <1>1, <2>2, <2>3 DEF WriteByte, Goto, TypeOK
  <1>2. CASE Enable(t)
    BY <1>2 DEF Enable, Goto, TypeOK, Places
  <1>3. CASE Transmit(t)
    BY <1>3 DEF Transmit, Goto, TypeOK, Places
  <1>4. CASE Disable(t)
    BY <1>4 DEF Disable, Goto, TypeOK, Places
  <1>5. CASE StoreState(t)
    BY <1>5 DEF StoreState, Goto, TypeOK, Places
  <1>6. QED
    BY <1>1, <1>2, <1>3, <1>4, <1>5 DEF Step

LEMMA TypeStep == TypeOK /\ [Next]_vars => TypeOK'
  <1> SUFFICES ASSUME TypeOK, [Next]_vars PROVE TypeOK'
    OBVIOUS
  <1>1. ASSUME NEW t \in Tasks, NEW colour \in Sets[t], CallSet(t, colour)
        PROVE  TypeOK'
    <2>1. colour \in [Channel -> Byte]
      BY ColoursAssumption
    <2>2. QED
      BY <1>1, <2>1, BeginType DEF CallSet
  <1>2. ASSUME NEW t \in Tasks, NEW colour \in Toggles[t], CallToggle(t, colour)
        PROVE  TypeOK'
    <2>1. (IF s_led_state = 1 THEN Dark ELSE colour) \in [Channel -> Byte]
      BY ColoursAssumption, DarkType
    <2>2. QED
      BY <1>2, <2>1, BeginType DEF CallToggle
  <1>3. ASSUME NEW t \in Tasks, Step(t) PROVE TypeOK'
    BY <1>3, StepType
  <1>4. CASE FrameDone
    BY <1>4 DEF FrameDone, TypeOK
  <1>5. CASE UNCHANGED vars
    BY <1>5 DEF vars, TypeOK
  <1>6. QED
    BY <1>1, <1>2, <1>3, <1>4, <1>5 DEF Next, Calls

-----------------------------------------------------------------------------
(* The channel                                                             *)

(* A step in which no task comes to hold the channel or ceases to, and     *)
(* which leaves the channel and the wire alone.                            *)
LEMMA HoldersSame ==
  ASSUME TypeOK, ChannelOwned, NEW t \in Tasks, NEW place,
         pc' = [pc EXCEPT ![t] = place],
         pc[t] \notin {"transmit", "wait"}, place \notin {"transmit", "wait"},
         UNCHANGED <<rmt, frame>>
  PROVE  ChannelOwned'
  <1>1. pc \in [Tasks -> Places]
    BY DEF TypeOK
  <1>2. \A u \in Tasks : Holds(u)' <=> Holds(u)
    BY <1>1 DEF Holds
  <1>3. \A u \in Tasks : pc'[u] = "wait" <=> pc[u] = "wait"
    BY <1>1
  <1>4. QED
    BY <1>2, <1>3 DEF ChannelOwned

LEMMA OwnedStep == TypeOK /\ ChannelOwned /\ [Next]_vars => ChannelOwned'
  <1> SUFFICES ASSUME TypeOK, ChannelOwned, [Next]_vars PROVE ChannelOwned'
    OBVIOUS
  <1>p. pc \in [Tasks -> Places]
    BY DEF TypeOK
  <1>1. ASSUME NEW t \in Tasks, NEW colour, At(t, "idle"), Begin(t, colour)
        PROVE  ChannelOwned'
    BY <1>1, HoldersSame DEF At, Begin, Goto
  <1>2. ASSUME NEW t \in Tasks, NEW c \in Channel, WriteByte(t, c)
        PROVE  ChannelOwned'
    <2>1. pc[t] \notin {"transmit", "wait"} /\ AfterByte(c) \notin {"transmit", "wait"}
      BY <1>2 DEF WriteByte, At, AfterByte, Channel
    <2>2. QED
      BY <1>2, <2>1, HoldersSame DEF WriteByte, Goto
  <1>3. ASSUME NEW t \in Tasks, Enable(t) PROVE ChannelOwned'
    <2>1. CASE rmt = "init"
      <3>1. \A u \in Tasks : ~Holds(u)
        BY <2>1 DEF ChannelOwned
      <3>2. \A u \in Tasks : Holds(u)' <=> u = t
        BY <1>3, <1>p, <2>1, <3>1 DEF Enable, Goto, Holds
      <3>3. frame' = {}
        BY <1>3, <3>1 DEF Enable, ChannelOwned, Holds
      <3>4. rmt' = "enabled"
        BY <1>3, <2>1 DEF Enable
      <3>5. QED
        BY <3>2, <3>3, <3>4 DEF ChannelOwned
    <2>2. CASE rmt # "init"
      BY <1>3, <2>2, HoldersSame DEF Enable, At, Goto
    <2>3. QED
      BY <2>1, <2>2
  <1>4. ASSUME NEW t \in Tasks, Transmit(t) PROVE ChannelOwned'
    <2>1. \A u \in Tasks : Holds(u)' <=> Holds(u)
      BY <1>4, <1>p DEF Transmit, At, Goto, Holds
    <2>2. pc'[t] = "wait" /\ rmt' = rmt
      BY <1>4, <1>p DEF Transmit, Goto
    <2>3. QED
      BY <2>1, <2>2 DEF ChannelOwned
  <1>5. ASSUME NEW t \in Tasks, Disable(t) PROVE ChannelOwned'
    <2>1. Holds(t)
      BY <1>5 DEF Disable, At, Holds
    <2>2. \A u \in Tasks : u # t => ~Holds(u)
      BY <2>1 DEF ChannelOwned
    <2>3. \A u \in Tasks : ~Holds(u)'
      BY <1>5, <1>p, <2>2 DEF Disable, Goto, Holds
    <2>4. rmt' = "init" /\ frame' = {}
      BY <1>5 DEF Disable
    <2>5. QED
      BY <2>3, <2>4 DEF ChannelOwned
  <1>6. ASSUME NEW t \in Tasks, StoreState(t) PROVE ChannelOwned'
    BY <1>6, HoldersSame DEF StoreState, At, Goto
  <1>7. CASE FrameDone
    BY <1>7 DEF FrameDone, ChannelOwned, Holds
  <1>8. CASE UNCHANGED vars
    BY <1>8 DEF vars, ChannelOwned, Holds
  <1>9. QED
    BY <1>1, <1>2, <1>3, <1>4, <1>5, <1>6, <1>7, <1>8
    DEF Next, Calls, Step, CallSet, CallToggle

-----------------------------------------------------------------------------

(* The pixel buffer, the frame and the LED are bytes, and every task is at *)
(* a place of its LED call.                                                *)
THEOREM TypeCorrect == Spec => []TypeOK
  <1>1. Init => TypeOK
    BY InitIInv DEF IInv
  <1>2. QED
    BY <1>1, TypeStep, PTL DEF Spec

(* However many tasks call the LED functions, with no lock between them,   *)
(* the RMT channel is never left enabled by a refresh that returned, and   *)
(* no two refreshes hold it at once.                                       *)
THEOREM ChannelSafe == Spec => []ChannelOwned
  <1>1. IInv /\ [Next]_vars => IInv'
    BY TypeStep, OwnedStep DEF IInv
  <1>2. Spec => []IInv
    BY InitIInv, <1>1, PTL DEF Spec
  <1>3. IInv => ChannelOwned
    BY DEF IInv
  <1>4. QED
    BY <1>2, <1>3, PTL

-----------------------------------------------------------------------------
(* bsp_shared refutes StateMatchesLed.  What it takes is that two calls    *)
(* overlap: as long as they do not, the state is right between calls.      *)

NoOverlap == \A t, u \in Tasks : pc[t] # "idle" /\ pc[u] # "idle" => t = u

(* The bytes that a call has written when it is at each place.             *)
Before ==
  [red |-> {}, green |-> {"red"}, blue |-> {"red", "green"}, enable |-> Channel,
   transmit |-> Channel, wait |-> {}, store |-> {}, idle |-> {}]

(* How far the only call under way has come.                               *)
CallInv(t) ==
  /\ \A c \in Before[pc[t]] : pixel_buf[c] = want[t][c]
  /\ pc[t] = "wait" => frame = {want[t]} \/ (frame = {} /\ led = want[t])
  /\ pc[t] = "store" => led = want[t]

SerialInv == (\A t \in Tasks : CallInv(t)) /\ StateMatchesLed

LEMMA SerialInit == Init => SerialInv
  <1> SUFFICES ASSUME Init PROVE SerialInv
    OBVIOUS
  <1>1. ASSUME NEW t \in Tasks PROVE CallInv(t)
    BY DEF Init, CallInv, Before
  <1>2. StateMatchesLed
    BY DEF Init, StateMatchesLed, Lit
  <1>3. QED
    BY <1>1, <1>2 DEF SerialInv

(* A call that is alone finds the channel free and nothing on the wire,    *)
(* until it has put something there itself.                                *)
LEMMA Alone ==
  ASSUME TypeOK, ChannelOwned, NoOverlap, NEW t \in Tasks, pc[t] # "idle"
  PROVE  /\ pc[t] \notin {"transmit", "wait"} => rmt = "init"
         /\ pc[t] # "wait" => frame = {}
         /\ \A u \in Tasks \ {t} : pc[u] = "idle"
  BY DEF TypeOK, ChannelOwned, NoOverlap, Holds

(* What others than t have written stays, since they are idle.             *)
LEMMA OthersIdle ==
  ASSUME TypeOK, NEW t \in Tasks, NEW place,
         \A u \in Tasks \ {t} : pc[u] = "idle", pc' = [pc EXCEPT ![t] = place]
  PROVE  \A u \in Tasks \ {t} : pc'[u] = "idle" /\ CallInv(u)'
  BY DEF TypeOK, CallInv, Before

LEMMA SerialBegin ==
  ASSUME TypeOK, ChannelOwned, NoOverlap', SerialInv, NEW t \in Tasks, NEW colour,
         At(t, "idle"), Begin(t, colour)
  PROVE  SerialInv'
  <1>1. pc[t] = "idle" /\ pc' = [pc EXCEPT ![t] = "red"] /\ pc'[t] = "red"
    BY DEF At, Begin, Goto, TypeOK
  <1>2. \A u \in Tasks \ {t} : pc[u] = "idle"
    BY <1>1 DEF NoOverlap, TypeOK
  <1>3. CallInv(t)'
    BY <1>1 DEF CallInv, Before
  <1>4. StateMatchesLed'
    BY <1>1 DEF StateMatchesLed, Quiet
  <1>5. QED
    BY <1>1, <1>2, <1>3, <1>4, OthersIdle DEF SerialInv

LEMMA SerialStep ==
  ASSUME TypeOK, TypeOK', ChannelOwned, NoOverlap, SerialInv, NEW t \in Tasks, Step(t)
  PROVE  SerialInv'
  <1>p. pc \in [Tasks -> Places] /\ want \in [Tasks -> [Channel -> Byte]]
        /\ pixel_buf \in [Channel -> Byte]
    BY DEF TypeOK
  <1>a. pc[t] # "idle"
    BY DEF Step, WriteByte, Enable, Transmit, Disable, StoreState, At, Channel
  <1>b. /\ pc[t] \notin {"transmit", "wait"} => rmt = "init"
        /\ pc[t] # "wait" => frame = {}
        /\ \A u \in Tasks \ {t} : pc[u] = "idle"
    BY <1>a, Alone
  <1>c. CallInv(t)
    BY DEF SerialInv
  <1>d. UNCHANGED want
    BY DEF Step, WriteByte, Enable, Transmit, Disable, StoreState
  <1>0. ASSUME CallInv(t)', StateMatchesLed', NEW place, pc' = [pc EXCEPT ![t] = place]
        PROVE  SerialInv'
    BY <1>b, <1>0, OthersIdle DEF SerialInv
  <1>1. ASSUME NEW c \in Channel, WriteByte(t, c) PROVE SerialInv'
    <2>1. /\ pc[t] = c /\ pc' = [pc EXCEPT ![t] = AfterByte(c)] /\ pc'[t] = AfterByte(c)
          /\ pixel_buf' = [pixel_buf EXCEPT ![c] = want[t][c]]
      BY <1>1, <1>p DEF WriteByte, At, Goto
    <2>2. Before[AfterByte(c)] = Before[c] \cup {c} /\ Before[AfterByte(c)] \subseteq Channel
          /\ AfterByte(c) \notin {"wait", "store", "idle"}
      BY DEF Before, AfterByte, Channel
    <2>3. \A x \in Before[AfterByte(c)] : pixel_buf'[x] = want[t][x]
      BY <1>p, <1>c, <2>1, <2>2 DEF CallInv
    <2>4. CallInv(t)' /\ StateMatchesLed'
      BY <1>d, <2>1, <2>2, <2>3 DEF CallInv, StateMatchesLed, Quiet
    <2>5. QED
      BY <1>0, <2>1, <2>4
  <1>2. CASE Enable(t)
    <2>1. pc[t] = "enable" /\ rmt = "init" /\ pc' = [pc EXCEPT ![t] = "transmit"]
          /\ UNCHANGED <<pixel_buf, want>>
      BY <1>2, <1>b DEF Enable, At, Goto
    <2>2. CallInv(t)' /\ StateMatchesLed'
      BY <1>p, <1>c, <2>1 DEF CallInv, Before, StateMatchesLed, Quiet
    <2>3. QED
      BY <1>0, <2>1, <2>2
  <1>3. CASE Transmit(t)
    <2>1. pc[t] = "transmit" /\ pc' = [pc EXCEPT ![t] = "wait"] /\ frame' = {pixel_buf}
          /\ UNCHANGED <<pixel_buf, want>>
      BY <1>3 DEF Transmit, At, Goto
    <2>2. pixel_buf = want[t]
      BY <1>p, <1>c, <2>1 DEF CallInv, Before
    <2>3. CallInv(t)' /\ StateMatchesLed'
      BY <1>p, <2>1, <2>2 DEF CallInv, Before, StateMatchesLed, Quiet
    <2>4. QED
      BY <1>0, <2>1, <2>3
  <1>4. CASE Disable(t)
    <2>1. pc[t] = "wait" /\ frame = {} /\ pc' = [pc EXCEPT ![t] = "store"]
          /\ UNCHANGED <<led, want>>
      BY <1>4 DEF Disable, At, Goto
    <2>2. CallInv(t)' /\ StateMatchesLed'
      BY <1>p, <1>c, <2>1 DEF CallInv, Before, StateMatchesLed, Quiet
    <2>3. QED
      BY <1>0, <2>1, <2>2
  <1>5. CASE StoreState(t)
    <2>1. /\ pc[t] = "store" /\ pc' = [pc EXCEPT ![t] = "idle"]
          /\ s_led_state' = IF want[t] = Dark THEN 0 ELSE 1
          /\ UNCHANGED led
      BY <1>5 DEF StoreState, At, Goto
    <2>2. led = want[t]
      BY <1>c, <2>1 DEF CallInv
    <2>3. CallInv(t)' /\ StateMatchesLed'
      BY <1>p, <2>1, <2>2 DEF CallInv, Before, StateMatchesLed, Lit
    <2>4. QED
      BY <1>0, <2>1, <2>3
  <1>6. QED
    BY <1>1, <1>2, <1>3, <1>4, <1>5 DEF Step

LEMMA SerialFrameDone ==
  ASSUME TypeOK, ChannelOwned, NoOverlap, SerialInv, FrameDone
  PROVE  SerialInv'
  <1>1. PICK t \in Tasks : pc[t] = "wait"
    BY DEF FrameDone, ChannelOwned
  <1>2. frame = {want[t]}
    BY <1>1 DEF SerialInv, CallInv, FrameDone
  <1>3. led' = want[t] /\ frame' = {} /\ UNCHANGED <<pixel_buf, s_led_state, pc, want>>
    BY <1>2 DEF FrameDone
  <1>4. \A u \in Tasks \ {t} : pc[u] = "idle"
    BY <1>1 DEF NoOverlap
  <1>5. \A u \in Tasks : CallInv(u)'
    BY <1>1, <1>3, <1>4 DEF CallInv, Before
  <1>6. StateMatchesLed'
    BY <1>1, <1>3 DEF StateMatchesLed, Quiet
  <1>7. QED
    BY <1>5, <1>6 DEF SerialInv

LEMMA SerialNext ==
  IInv /\ IInv' /\ NoOverlap /\ NoOverlap' /\ SerialInv /\ [Next]_vars => SerialInv'
  <1> SUFFICES ASSUME IInv, IInv', NoOverlap, NoOverlap', SerialInv, [Next]_vars
               PROVE  SerialInv'
    OBVIOUS
  <1>1. ASSUME NEW t \in Tasks, NEW colour, CallSet(t, colour) \/ CallToggle(t, colour)
        PROVE  SerialInv'
    BY <1>1, SerialBegin DEF CallSet, CallToggle, IInv
  <1>2. ASSUME NEW t \in Tasks, Step(t) PROVE SerialInv'
    BY <1>2, SerialStep DEF IInv
  <1>3. CASE FrameDone
    BY <1>3, SerialFrameDone DEF IInv
  <1>4. CASE UNCHANGED vars
    BY <1>4 DEF vars, SerialInv, CallInv, StateMatchesLed, Quiet, Lit
  <1>5. QED
    BY <1>1, <1>2, <1>3, <1>4 DEF Next, Calls

(* As long as no LED call begins during another, bsp_led_get_state tells   *)
(* between calls whether the LED is on: a lock around the calls is all     *)
(* that bsp.c lacks, for any tasks, priorities and colours.                *)
THEOREM SerialCallsMatch == Spec /\ []NoOverlap => []StateMatchesLed
  <1>1. IInv /\ [Next]_vars => IInv'
    BY TypeStep, OwnedStep DEF IInv
  <1>2. SerialInv => StateMatchesLed
    BY DEF SerialInv
  <1>3. QED
    BY InitIInv, SerialInit, <1>1, <1>2, SerialNext, PTL DEF Spec

(* In particular one task alone, of any priority, is never misled.         *)
THEOREM SingleCallerMatches ==
  (\A t, u \in Tasks : t = u) => (Spec => []StateMatchesLed)
  <1> SUFFICES ASSUME \A t, u \in Tasks : t = u PROVE Spec => []StateMatchesLed
    OBVIOUS
  <1>1. NoOverlap
    BY DEF NoOverlap
  <1>2. QED
    BY <1>1, SerialCallsMatch, PTL

=============================================================================
