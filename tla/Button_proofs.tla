--------------------------- MODULE Button_proofs ---------------------------
(***************************************************************************)
(* Proofs about Button, for any length of the queue and any number of      *)
(* bounces and of presses.                                                 *)
(***************************************************************************)
EXTENDS Button, TLAPS

ButtonInv == TypeOK /\ ReleaseRemembered

LEMMA ButtonInit == Init => ButtonInv
<1>1. 0 \in 0..MaxBounces /\ 0 \in 0..QueueCap /\ 0 \in 0..MaxPresses /\ 0 \in Nat
  BY BoundsAssumption, SMT
<1>2. 0 \in {0, 1} /\ 1 \in {0, 1}
  OBVIOUS
<1> QED
  BY <1>1, <1>2, Zenon DEF Init, ButtonInv, TypeOK, ReleaseRemembered

(***************************************************************************)
(* What an interrupt does to the queue.                                    *)
(***************************************************************************)
LEMMA EventQueued ==
  ASSUME s_button_queue \in 0..QueueCap, Event
  PROVE  s_button_queue' \in 0..QueueCap /\ s_button_queue' > 0
BY BoundsAssumption, SMT DEF Event

LEMMA ButtonNext == ButtonInv /\ [Next]_vars => ButtonInv'
<1> SUFFICES ASSUME ButtonInv, [Next]_vars PROVE ButtonInv'
  OBVIOUS
<1>0. /\ key \in {"up", "down"} /\ level \in {0, 1}
      /\ bounces \in 0..MaxBounces /\ s_button_queue \in 0..QueueCap
      /\ presses \in 0..MaxPresses /\ toggles \in Nat
  BY DEF ButtonInv, TypeOK
<1>1. moved' \in BOOLEAN /\ owed' \in BOOLEAN /\ bpc' \in {"wait", "delay"}
  BY Zenon DEF ButtonInv, TypeOK, Next, vars, Move, Fall, Rise, ReceiveEvent, DelayEnds, Idle
<1>2. key' \in {"up", "down"} /\ level' \in {0, 1}
  BY DEF ButtonInv, TypeOK, Next, vars, Move, Fall, Rise, ReceiveEvent, DelayEnds, Idle
<1>3. CASE Move
  <2>1. /\ bounces' \in 0..MaxBounces
        /\ UNCHANGED <<level, s_button_queue, bpc, toggles>>
    BY <1>3, Zenon DEF Move
  <2>3. owed' => owed
    <3>1. owed' = owed \/ owed' = FALSE
      BY <1>3, Zenon DEF Move
    <3>2. owed \in BOOLEAN
      BY DEF ButtonInv, TypeOK
    <3> QED
      BY <1>1, <3>1, <3>2
  <2>2. presses' \in 0..MaxPresses
    <3>1. presses' = presses \/ (presses < MaxPresses /\ presses' = presses + 1)
      BY <1>3, Zenon DEF Move
    <3> QED
      BY <1>0, <3>1, BoundsAssumption, SMT
  <2> QED
    BY <1>0, <1>1, <1>2, <2>1, <2>2, <2>3, Zenon DEF ButtonInv, TypeOK, ReleaseRemembered
<1>4. CASE Fall
  <2>1. /\ level' = 0
        /\ UNCHANGED <<s_button_queue, presses, toggles>>
    BY <1>4, Zenon DEF Fall
  <2>2. bounces' \in 0..MaxBounces
    <3>1. /\ level = 1
          /\ level # Rest \/ bounces # 0
          /\ bounces' = IF key = "up" THEN bounces - 1 ELSE bounces
      BY <1>4, Zenon DEF Fall, Settled
    <3>2. bounces' = bounces \/ (bounces # 0 /\ bounces' = bounces - 1)
      BY <3>1 DEF Rest
    <3> QED
      BY <1>0, <3>2, BoundsAssumption, SMT
  <2> QED
    BY <1>0, <1>1, <1>2, <2>1, <2>2, Zenon DEF ButtonInv, TypeOK, ReleaseRemembered
<1>5. CASE Rise
  <2>1. Event /\ UNCHANGED <<presses, toggles>>
    BY <1>5, Zenon DEF Rise
  <2>2. s_button_queue' \in 0..QueueCap /\ s_button_queue' > 0
    BY <1>0, <2>1, EventQueued
  <2>3. bounces' \in 0..MaxBounces
    BY <1>0, <1>5, BoundsAssumption, SMT DEF Rise, Settled, Rest
  <2> QED
    BY <1>0, <1>1, <1>2, <2>1, <2>2, <2>3, Zenon DEF ButtonInv, TypeOK, ReleaseRemembered
<1>6. CASE ReceiveEvent
  <2>1. /\ s_button_queue > 0 /\ s_button_queue' = s_button_queue - 1 /\ bpc' = "delay"
        /\ UNCHANGED <<bounces, presses, toggles>>
    BY <1>6, Zenon DEF ReceiveEvent
  <2>2. s_button_queue' \in 0..QueueCap
    BY <1>0, <2>1, BoundsAssumption, SMT
  <2> QED
    BY <1>0, <1>1, <1>2, <2>1, <2>2, Zenon DEF ButtonInv, TypeOK, ReleaseRemembered
<1>7. CASE DelayEnds
  <2>1. UNCHANGED <<level, bounces, s_button_queue, presses>>
    BY <1>7, Zenon DEF DelayEnds
  <2>2. toggles' \in Nat
    <3>1. toggles' = toggles \/ toggles' = toggles + 1
      BY <1>7, Zenon DEF DelayEnds
    <3> QED
      BY <1>0, <3>1, SMT
  <2>3. level = 1 => owed' = FALSE
    BY <1>7, Zenon DEF DelayEnds
  <2>4. level = 0 \/ level = 1
    BY <1>0
  <2> QED
    BY <1>0, <1>1, <1>2, <2>1, <2>2, <2>3, <2>4, Zenon DEF ButtonInv, TypeOK, ReleaseRemembered
<1>8. CASE Idle \/ UNCHANGED vars
  <2>1. UNCHANGED vars
    BY <1>8, Zenon DEF Idle
  <2>2. UNCHANGED <<key, level, bounces, s_button_queue, bpc, moved, presses, toggles, owed>>
    BY <2>1 DEF vars
  <2> QED
    BY <2>2, Zenon DEF ButtonInv, TypeOK, ReleaseRemembered
<1> QED
  BY <1>3, <1>4, <1>5, <1>6, <1>7, <1>8, Zenon DEF Next

LEMMA ButtonInvHolds == Spec => []ButtonInv
<1> QED
  BY ButtonInit, ButtonNext, PTL DEF Spec

(***************************************************************************)
(* The types: the ISR never overfills s_button_queue.                      *)
(***************************************************************************)
THEOREM ButtonTypeCorrect == Spec => []TypeOK
<1>1. ButtonInv => TypeOK
  BY DEF ButtonInv
<1> QED
  BY <1>1, ButtonInvHolds, PTL

(***************************************************************************)
(* No release is forgotten, whatever the bounces and however short the     *)
(* queue: an event that finds it full is lost, but those in it are enough. *)
(***************************************************************************)
THEOREM ReleaseNotForgotten == Spec => []ReleaseRemembered
<1>1. ButtonInv => ReleaseRemembered
  BY DEF ButtonInv
<1> QED
  BY <1>1, ButtonInvHolds, PTL

-----------------------------------------------------------------------------
(***************************************************************************)
(* button_bounce refutes OneTogglePerPress.  What remains true: a press    *)
(* and its release have at most 2 * MaxBounces + 1 rising edges, and there *)
(* is a toggle for each edge at most.  Of the edges that the presses       *)
(* allow, some are still to come, some are in the queue, and one may be in *)
(* its delay.                                                              *)
(***************************************************************************)
EdgesPerPress == 2 * MaxBounces + 1
EdgesToCome ==
  bounces + IF key = "down" THEN MaxBounces + 1 ELSE IF level = 0 THEN 1 ELSE 0
InDelay == IF bpc = "delay" THEN 1 ELSE 0
EdgesCounted == toggles + s_button_queue + InDelay + EdgesToCome <= presses * EdgesPerPress

LEMMA OneMorePress ==
  ASSUME NEW n \in Nat
  PROVE  /\ n * EdgesPerPress \in Nat
         /\ (n + 1) * EdgesPerPress = n * EdgesPerPress + 2 * MaxBounces + 1
<1> DEFINE k == EdgesPerPress
<1>1. k \in Nat /\ k = 2 * MaxBounces + 1
  BY BoundsAssumption, SMT DEF EdgesPerPress
<1> HIDE DEF k
<1>2. n * k \in Nat /\ (n + 1) * k = n * k + k
  BY <1>1, SMT
<1>3. n * k \in Nat /\ (n + 1) * k = n * k + 2 * MaxBounces + 1
  BY <1>1, <1>2, BoundsAssumption, SMT
<1> QED
  BY <1>3 DEF k

LEMMA EdgesStep == TypeOK /\ EdgesCounted /\ [Next]_vars => EdgesCounted'
<1> SUFFICES ASSUME TypeOK, EdgesCounted, [Next]_vars PROVE EdgesCounted'
  OBVIOUS
<1> DEFINE allowed == presses * EdgesPerPress
<1>0. /\ key \in {"up", "down"} /\ level \in {0, 1}
      /\ bounces \in 0..MaxBounces /\ s_button_queue \in 0..QueueCap
      /\ presses \in Nat /\ toggles \in Nat /\ allowed \in Nat
      /\ MaxBounces \in Nat /\ QueueCap \in Nat
  <2>1. presses \in Nat
    BY BoundsAssumption, SMT DEF TypeOK
  <2> QED
    BY <2>1, OneMorePress, BoundsAssumption DEF TypeOK
<1>b. bpc \in {"wait", "delay"}
  BY DEF TypeOK
<1>c. toggles + s_button_queue + InDelay + EdgesToCome <= allowed
  BY DEF EdgesCounted
<1>3. CASE Move
  <2>1. /\ level = Rest /\ bounces = 0 /\ bounces' \in 0..MaxBounces
        /\ UNCHANGED <<level, s_button_queue, bpc, toggles>>
    BY <1>3, Zenon DEF Move, Settled
  <2>2. InDelay' = InDelay /\ InDelay \in Nat
    BY <2>1 DEF InDelay
  <2>5. PICK n \in 0..MaxBounces : bounces' = n
    BY <2>1
  <2>3. CASE key = "up" /\ key' = "down" /\ presses' = presses + 1
    <3>1. presses' * EdgesPerPress = allowed + 2 * MaxBounces + 1
      BY <1>0, <2>3, OneMorePress
    <3>2. EdgesToCome = 0 /\ EdgesToCome' <= 2 * MaxBounces + 1 /\ EdgesToCome' \in Nat
      <4>1. EdgesToCome = 0 + 0
        BY <2>1, <2>3 DEF EdgesToCome, Rest
      <4>2. EdgesToCome' = n + (MaxBounces + 1)
        BY <2>3, <2>5 DEF EdgesToCome
      <4>3. /\ 0 + 0 = 0
            /\ n + (MaxBounces + 1) <= 2 * MaxBounces + 1
            /\ n + (MaxBounces + 1) \in Nat
        BY <1>0, SMT
      <4> QED
        BY <4>1, <4>2, <4>3, Zenon
    <3> QED
      BY <1>0, <1>c, <2>1, <2>2, <3>1, <3>2, SMT DEF EdgesCounted
  <2>4. CASE key = "down" /\ key' = "up" /\ presses' = presses
    <3>1. EdgesToCome' <= EdgesToCome /\ EdgesToCome' \in Nat /\ EdgesToCome \in Nat
      <4>1. EdgesToCome = 0 + (MaxBounces + 1)
        BY <2>1, <2>4 DEF EdgesToCome
      <4>2. EdgesToCome' = n + 1
        BY <2>1, <2>4, <2>5 DEF EdgesToCome, Rest
      <4>3. /\ n + 1 <= 0 + (MaxBounces + 1)
            /\ n + 1 \in Nat /\ 0 + (MaxBounces + 1) \in Nat
        BY <1>0, SMT
      <4> QED
        BY <4>1, <4>2, <4>3, Zenon
    <3> QED
      BY <1>0, <1>c, <2>1, <2>2, <2>4, <3>1, SMT DEF EdgesCounted
  <2> QED
    BY <1>3, <2>3, <2>4, Zenon DEF Move
<1>4. CASE Fall
  <2>1. /\ level = 1 /\ level' = 0
        /\ UNCHANGED <<key, s_button_queue, bpc, presses, toggles>>
        /\ level # Rest \/ bounces # 0
        /\ bounces' = IF key = "up" THEN bounces - 1 ELSE bounces
    BY <1>4, Zenon DEF Fall, Settled
  <2>2. InDelay' = InDelay /\ InDelay \in Nat
    BY <2>1 DEF InDelay
  <2>3. EdgesToCome' = EdgesToCome /\ EdgesToCome \in Nat
    BY <1>0, <2>1, SMT DEF EdgesToCome, Rest
  <2> QED
    BY <1>0, <1>c, <2>1, <2>2, <2>3, SMT DEF EdgesCounted
<1>5. CASE Rise
  <2>1. /\ level = 0 /\ level' = 1
        /\ UNCHANGED <<key, bpc, presses, toggles>>
        /\ level # Rest \/ bounces # 0
        /\ bounces' = IF key = "down" THEN bounces - 1 ELSE bounces
    BY <1>5, Zenon DEF Rise, Settled
  <2>2. InDelay' = InDelay /\ InDelay \in Nat
    BY <2>1 DEF InDelay
  <2>3. EdgesToCome' = EdgesToCome - 1 /\ EdgesToCome \in Nat
    BY <1>0, <2>1, SMT DEF EdgesToCome, Rest
  <2>4. s_button_queue' \in Nat /\ s_button_queue' <= s_button_queue + 1
    BY <1>0, <1>5, SMT DEF Rise, Event
  <2> QED
    BY <1>0, <1>c, <2>1, <2>2, <2>3, <2>4, SMT DEF EdgesCounted
<1>6. CASE ReceiveEvent
  <2>1. /\ bpc = "wait" /\ bpc' = "delay"
        /\ s_button_queue > 0 /\ s_button_queue' = s_button_queue - 1
        /\ UNCHANGED <<key, level, bounces, presses, toggles>>
    BY <1>6, Zenon DEF ReceiveEvent
  <2>2. InDelay = 0 /\ InDelay' = 1
    BY <2>1 DEF InDelay
  <2>3. EdgesToCome' = EdgesToCome /\ EdgesToCome \in Nat
    BY <1>0, <2>1, SMT DEF EdgesToCome
  <2> QED
    BY <1>0, <1>c, <2>1, <2>2, <2>3, SMT DEF EdgesCounted
<1>7. CASE DelayEnds
  <2>1. /\ bpc = "delay" /\ bpc' = "wait"
        /\ UNCHANGED <<key, level, bounces, s_button_queue, presses>>
        /\ toggles' = toggles \/ toggles' = toggles + 1
    BY <1>7, Zenon DEF DelayEnds
  <2>2. InDelay = 1 /\ InDelay' = 0
    BY <2>1 DEF InDelay
  <2>3. EdgesToCome' = EdgesToCome /\ EdgesToCome \in Nat
    BY <1>0, <2>1, SMT DEF EdgesToCome
  <2> QED
    BY <1>0, <1>c, <2>1, <2>2, <2>3, SMT DEF EdgesCounted
<1>8. CASE Idle \/ UNCHANGED vars
  <2>1. UNCHANGED <<key, level, bounces, s_button_queue, bpc, presses, toggles>>
    BY <1>8, Zenon DEF Idle, vars
  <2> QED
    BY <1>c, <2>1 DEF EdgesCounted, EdgesToCome, InDelay
<1> QED
  BY <1>3, <1>4, <1>5, <1>6, <1>7, <1>8, Zenon DEF Next

LEMMA EdgesHold == Spec => []EdgesCounted
<1>1. Init => EdgesCounted
  <2> SUFFICES ASSUME Init PROVE EdgesCounted
    OBVIOUS
  <2>1. /\ toggles = 0 /\ s_button_queue = 0 /\ bounces = 0 /\ presses = 0
        /\ bpc = "wait" /\ key = "up" /\ level = 1
    BY Zenon DEF Init
  <2>2. InDelay = 0 /\ EdgesToCome = 0
    BY <2>1, SMT DEF InDelay, EdgesToCome
  <2>3. presses * EdgesPerPress \in Nat
    BY <2>1, OneMorePress, SMT
  <2> QED
    BY <2>1, <2>2, <2>3, SMT DEF EdgesCounted
<1>2. ButtonInv => TypeOK
  BY DEF ButtonInv
<1> QED
  BY <1>1, <1>2, EdgesStep, ButtonInvHolds, PTL DEF Spec

LEMMA CountedBounds ==
  ASSUME TypeOK, EdgesCounted
  PROVE  toggles <= presses * EdgesPerPress /\ toggles \in Nat /\ presses \in Nat
<1>1. presses \in Nat /\ presses * EdgesPerPress \in Nat
  <2>1. presses \in Nat
    BY BoundsAssumption, SMT DEF TypeOK
  <2> QED
    BY <2>1, OneMorePress
<1>2. EdgesToCome \in Nat /\ InDelay \in Nat /\ toggles \in Nat /\ s_button_queue \in Nat
  BY BoundsAssumption, SMT DEF TypeOK, EdgesToCome, InDelay
<1> QED
  BY <1>1, <1>2, SMT DEF EdgesCounted

(***************************************************************************)
(* How wrong the debounce can be: a press toggles the LED 2 * MaxBounces   *)
(* + 1 times at most, however the presses follow each other and however    *)
(* the task is delayed.  (It can: TLC shows presses that do.)              *)
(***************************************************************************)
TogglesBounded == toggles <= presses * EdgesPerPress

THEOREM TogglesPerPress == Spec => []TogglesBounded
<1>1. TypeOK /\ EdgesCounted => TogglesBounded
  BY CountedBounds DEF TogglesBounded
<1> QED
  BY <1>1, EdgesHold, ButtonTypeCorrect, PTL

(***************************************************************************)
(* With a contact that does not bounce there is one toggle for one press,  *)
(* as the comment on the delay says: the bounces alone refute it.          *)
(***************************************************************************)
THEOREM CleanContact == MaxBounces = 0 => (Spec => []OneTogglePerPress)
<1> SUFFICES ASSUME MaxBounces = 0 PROVE Spec => []OneTogglePerPress
  OBVIOUS
<1>1. ASSUME TypeOK, EdgesCounted PROVE OneTogglePerPress
  <2>1. EdgesPerPress = 1
    BY SMT DEF EdgesPerPress
  <2>2. toggles <= presses * 1 /\ toggles \in Nat /\ presses \in Nat
    BY <1>1, <2>1, CountedBounds
  <2> QED
    BY <2>2, SMT DEF OneTogglePerPress
<1> QED
  BY <1>1, EdgesHold, ButtonTypeCorrect, PTL

=============================================================================
