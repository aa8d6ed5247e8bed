---------------------------- MODULE Wifi_proofs ----------------------------
(***************************************************************************)
(* Proofs about Monitor, Startup and the Wifi they contain, for any number *)
(* of connections lost or refused.                                         *)
(***************************************************************************)
EXTENDS Monitor, FiniteSetTheorems, SequenceTheorems, TLAPS

(***************************************************************************)
(* The delay of any attempt is positive, which RetryPending rests on, and  *)
(* within the cap.                                                         *)
(***************************************************************************)
LEMMA BackoffRange ==
  ASSUME NEW n \in Nat \ {0}
  PROVE  Backoff(n) \in 1..WIFI_BACKOFF_MAX_MS
<1> DEFINE s == Least(n, WIFI_BACKOFF_MAX_SHIFT)
<1>1. s \in 1..6
  BY SMT DEF Least, WIFI_BACKOFF_MAX_SHIFT
<1>2. ASSUME NEW k \in 1..6 PROVE 2 ^ k \in 1..64
  <2>1. /\ 2 ^ 1 = 2 /\ 2 ^ 2 = 4 /\ 2 ^ 3 = 8
        /\ 2 ^ 4 = 16 /\ 2 ^ 5 = 32 /\ 2 ^ 6 = 64
    BY SMT
  <2>2. k = 1 \/ k = 2 \/ k = 3 \/ k = 4 \/ k = 5 \/ k = 6
    BY SMT
  <2>3. CASE k = 1 BY <2>1, <2>3, SMT
  <2>4. CASE k = 2 BY <2>1, <2>4, SMT
  <2>5. CASE k = 3 BY <2>1, <2>5, SMT
  <2>6. CASE k = 4 BY <2>1, <2>6, SMT
  <2>7. CASE k = 5 BY <2>1, <2>7, SMT
  <2>8. CASE k = 6 BY <2>1, <2>8, SMT
  <2> QED
    BY <2>2, <2>3, <2>4, <2>5, <2>6, <2>7, <2>8, Zenon
<1> DEFINE p == 2 ^ s
<1>3. Backoff(n) = Least(500 * p, WIFI_BACKOFF_MAX_MS)
  BY DEF Backoff, WIFI_BACKOFF_BASE_MS
<1> HIDE DEF s
<1>4. p \in 1..64
  BY <1>1, <1>2
<1> HIDE DEF p
<1> QED
  BY <1>3, <1>4, SMT DEF Least, WIFI_BACKOFF_MAX_MS

(***************************************************************************)
(* What the queue of the event loop holds after an event is posted and     *)
(* after one is taken.                                                     *)
(***************************************************************************)
Event == {"STA_START", "STA_DISCONNECTED", "GOT_IP"}

LEMMA AfterAppend ==
  ASSUME NEW q \in Seq(Event), NEW e \in Event, NEW x
  PROVE  /\ Append(q, e) \in Seq(Event)
         /\ Contains(Append(q, e), x) <=> Contains(q, x) \/ x = e
<1>1. /\ Append(q, e) \in Seq(Event)
      /\ Len(q) \in Nat
      /\ Len(Append(q, e)) = Len(q) + 1
      /\ \A i \in 1..Len(q) : Append(q, e)[i] = q[i]
      /\ Append(q, e)[Len(q) + 1] = e
  BY AppendProperties, LenProperties
<1> DEFINE a == Append(q, e)
           n == Len(q)
<1> HIDE DEF a, n
<1>2. Contains(a, x) <=> Contains(q, x) \/ x = e
  BY <1>1, SMT DEF Contains, a, n
<1> QED
  BY <1>1, <1>2 DEF a

LEMMA AfterTail ==
  ASSUME NEW q \in Seq(Event), q # <<>>, NEW x
  PROVE  /\ Tail(q) \in Seq(Event)
         /\ Contains(Tail(q), x) => Contains(q, x)
         /\ Contains(q, x) => Head(q) = x \/ Contains(Tail(q), x)
<1>1. /\ Tail(q) \in Seq(Event)
      /\ Len(q) \in Nat /\ Len(q) > 0
      /\ Len(Tail(q)) = Len(q) - 1
      /\ \A i \in 1..Len(Tail(q)) : Tail(q)[i] = q[i + 1]
      /\ Head(q) = q[1]
  BY HeadTailProperties, EmptySeq, LenProperties, SMT
<1> DEFINE t == Tail(q)
           h == Head(q)
           n == Len(q)
<1>2. Contains(t, x) => Contains(q, x)
  BY <1>1, SMT DEF Contains
<1>3. Contains(q, x) => h = x \/ Contains(t, x)
  <2> SUFFICES ASSUME NEW i \in 1..n, q[i] = x, h # x
               PROVE  \E j \in 1..Len(t) : t[j] = x
    BY DEF Contains
  <2>1. i # 1
    BY <1>1
  <2>2. i - 1 \in 1..Len(t) /\ t[i - 1] = q[i]
    BY <1>1, <2>1, SMT
  <2> QED
    BY <2>2
<1> QED
  BY <1>1, <1>2, <1>3

-----------------------------------------------------------------------------
(***************************************************************************)
(* BitMatchesState is not inductive: OnStart sets the state and leaves the *)
(* bit alone, and so does Reconnect.  STA_START is the first event of all, *)
(* and comes before any other is posted; and the handler sleeps in the     *)
(* state DISCONNECTED only.                                                *)
(***************************************************************************)
Early ==
  station = "off" \/ Contains(events, "STA_START") =>
    /\ s_wifi_state = "DISCONNECTED"
    /\ backoff_ms = 0
    /\ dhcp = "none"
    /\ \/ station = "off" /\ events = <<>>
       \/ station = "idle" /\ events = <<"STA_START">>

SleepsDisconnected == backoff_ms # 0 => s_wifi_state = "DISCONNECTED"

WifiInv == TypeOK /\ Early /\ SleepsDisconnected /\ BitMatchesState /\ RetryPending

WifiStep ==
  \/ StartStation \/ Join \/ Lose \/ GetAddress
  \/ OnStart \/ OnDisconnected \/ Reconnect \/ OnGotIp

LEMMA TypeStep ==
  ASSUME TypeOK, WifiStep
  PROVE  TypeOK'
<1>0. /\ events \in Seq(Event)
      /\ s_reconnect_attempt \in Nat
      /\ backoff_ms \in 0..WIFI_BACKOFF_MAX_MS
      /\ losses \in 0..MaxLosses
  BY DEF TypeOK, Event
<1>1. s_wifi_state' \in {"DISCONNECTED", "CONNECTING", "CONNECTED"}
  BY DEF TypeOK, WifiStep, StartStation, Join, Lose, GetAddress, OnStart, OnDisconnected,
         Reconnect, OnGotIp, handler, driver
<1>2. connectedBit' \in BOOLEAN
  BY Zenon DEF TypeOK, WifiStep, StartStation, Join, Lose, GetAddress, OnStart,
               OnDisconnected, Reconnect, OnGotIp, handler, driver
<1>3. /\ station' \in {"off", "idle", "connecting", "joined"}
      /\ dhcp' \in {"none", "asked", "given"}
  BY DEF TypeOK, WifiStep, StartStation, Join, Lose, GetAddress, OnStart, OnDisconnected,
         Reconnect, OnGotIp, handler, driver
<1>4. s_reconnect_attempt' \in Nat
  <2>1. s_reconnect_attempt' \in {0, s_reconnect_attempt, s_reconnect_attempt + 1}
    BY DEF WifiStep, StartStation, Join, Lose, GetAddress, OnStart, OnDisconnected,
           Reconnect, OnGotIp, handler, driver
  <2> QED
    BY <1>0, <2>1, SMT
<1>5. backoff_ms' \in 0..WIFI_BACKOFF_MAX_MS
  <2>1. \/ backoff_ms' \in {0, backoff_ms}
        \/ backoff_ms' = Backoff(s_reconnect_attempt + 1)
    <3>1. CASE OnDisconnected
      BY <3>1 DEF OnDisconnected
    <3> QED
      BY <3>1 DEF WifiStep, StartStation, Join, Lose, GetAddress, OnStart, Reconnect,
                  OnGotIp, handler
  <2>2. s_reconnect_attempt + 1 \in Nat \ {0}
    BY <1>0, SMT
  <2>3. Backoff(s_reconnect_attempt + 1) \in 1..WIFI_BACKOFF_MAX_MS
    BY <2>2, BackoffRange
  <2> DEFINE b == Backoff(s_reconnect_attempt + 1)
  <2> HIDE DEF b
  <2>b. b \in 1..WIFI_BACKOFF_MAX_MS
    BY <2>3, Zenon DEF b
  <2>4. b \in 0..WIFI_BACKOFF_MAX_MS
    BY <2>b, SMT DEF WIFI_BACKOFF_MAX_MS
  <2>5. 0 \in 0..WIFI_BACKOFF_MAX_MS
    BY SMT DEF WIFI_BACKOFF_MAX_MS
  <2> QED
    BY <1>0, <2>1, <2>4, <2>5 DEF b
<1>6. losses' \in 0..MaxLosses
  <2>1. losses' = losses \/ (losses < MaxLosses /\ losses' = losses + 1)
    BY Zenon DEF WifiStep, StartStation, Join, Lose, GetAddress, OnStart, OnDisconnected,
           Reconnect, OnGotIp, handler, driver
  <2> QED
    BY <1>0, <2>1, MaxLossesAssumption, SMT
<1>7. events' \in Seq(Event)
  <2>1. CASE StartStation \/ Lose \/ GetAddress
    <3>1. PICK e \in Event : events' = Append(events, e)
      BY <2>1, Zenon DEF StartStation, Lose, GetAddress, Event
    <3> QED
      BY <1>0, <3>1, AfterAppend
  <2>2. CASE OnStart \/ OnDisconnected \/ OnGotIp
    <3>1. events # <<>> /\ events' = Tail(events)
      BY <2>2, Zenon DEF OnStart, OnDisconnected, OnGotIp, Dispatch
    <3> QED
      BY <1>0, <3>1, AfterTail
  <2>3. CASE Join \/ Reconnect
    BY <1>0, <2>3 DEF Join, Reconnect
  <2> QED
    BY <2>1, <2>2, <2>3 DEF WifiStep
<1> QED
  BY <1>1, <1>2, <1>3, <1>4, <1>5, <1>6, <1>7 DEF TypeOK, Event

LEMMA RetryStep ==
  ASSUME TypeOK, RetryPending, WifiStep
  PROVE  RetryPending'
<1>0. events \in Seq(Event) /\ s_reconnect_attempt \in Nat
  BY DEF TypeOK, Event
<1>1. CASE StartStation \/ Lose
  <2>1. PICK e \in {"STA_START", "STA_DISCONNECTED"} : events' = Append(events, e)
    BY <1>1, Zenon DEF StartStation, Lose
  <2>2. Contains(events', e)
    BY <1>0, <2>1, AfterAppend DEF Event
  <2> QED
    BY <2>1, <2>2 DEF RetryPending
<1>2. CASE GetAddress
  <2>1. /\ events' = Append(events, "GOT_IP")
        /\ station' = station /\ backoff_ms' = backoff_ms
    BY <1>2 DEF GetAddress, handler
  <2>2. \A x : Contains(events, x) => Contains(events', x)
    BY <1>0, <2>1, AfterAppend DEF Event
  <2> QED
    BY <2>1, <2>2 DEF RetryPending
<1>3. CASE OnGotIp
  <2>1. /\ events # <<>> /\ Head(events) = "GOT_IP" /\ events' = Tail(events)
        /\ station' = station /\ backoff_ms' = backoff_ms
    BY <1>3 DEF OnGotIp, Dispatch, driver
  <2>2. \A x : x # "GOT_IP" /\ Contains(events, x) => Contains(events', x)
    BY <1>0, <2>1, AfterTail
  <2> QED
    BY <2>1, <2>2 DEF RetryPending
<1>4. CASE OnDisconnected
  <2>1. backoff_ms' = Backoff(s_reconnect_attempt + 1)
    BY <1>4 DEF OnDisconnected
  <2>2. Backoff(s_reconnect_attempt + 1) \in 1..WIFI_BACKOFF_MAX_MS
    BY <1>0, BackoffRange, SMT
  <2>3. PICK b \in 1..WIFI_BACKOFF_MAX_MS : backoff_ms' = b
    BY <2>1, <2>2, Zenon
  <2>4. backoff_ms' > 0
    BY <2>3, SMT DEF WIFI_BACKOFF_MAX_MS
  <2> QED
    BY <2>4 DEF RetryPending
<1>5. CASE Join \/ OnStart \/ Reconnect
  BY <1>5, Zenon DEF Join, OnStart, Reconnect, RetryPending
<1> QED
  BY <1>1, <1>2, <1>3, <1>4, <1>5 DEF WifiStep

(***************************************************************************)
(* Any step keeps the three facts that make BitMatchesState inductive.     *)
(***************************************************************************)
ControlInv == Early /\ SleepsDisconnected /\ BitMatchesState

LEMMA ControlStep ==
  ASSUME TypeOK, ControlInv, WifiStep
  PROVE  ControlInv'
<1>0. /\ events \in Seq(Event)
      /\ backoff_ms # 0 => s_wifi_state = "DISCONNECTED"
      /\ connectedBit <=> s_wifi_state = "CONNECTED"
  BY DEF TypeOK, Event, ControlInv, SleepsDisconnected, BitMatchesState
<1>1. CASE StartStation
  <2>1. /\ station = "off" /\ events = <<>>
        /\ station' = "idle" /\ events' = <<"STA_START">>
        /\ s_wifi_state = "DISCONNECTED" /\ backoff_ms = 0 /\ dhcp = "none"
        /\ UNCHANGED <<s_wifi_state, connectedBit, backoff_ms, dhcp>>
    <3>1. station = "off" /\ events = <<>>
      BY <1>1, Zenon DEF StartStation, ControlInv, Early
    <3>2. Append(<<>>, "STA_START") = <<"STA_START">>
      OBVIOUS
    <3> QED
      BY <1>1, <3>1, <3>2 DEF StartStation, ControlInv, Early, handler
  <2> QED
    BY <1>0, <2>1, Zenon DEF ControlInv, Early, SleepsDisconnected, BitMatchesState
<1>2. ASSUME station # "off", ~Contains(events, "STA_START"), WifiStep, ~StartStation
      PROVE  ControlInv'
  <2>1. station' # "off" /\ ~Contains(events', "STA_START")
    <3>1. station' # "off"
      BY <1>2, Zenon DEF WifiStep, Join, Lose, GetAddress, OnStart, OnDisconnected, Reconnect,
                         OnGotIp, driver
    <3>2. CASE Lose \/ GetAddress
      <4>1. PICK e \in {"STA_DISCONNECTED", "GOT_IP"} : events' = Append(events, e)
        BY <3>2, Zenon DEF Lose, GetAddress
      <4> QED
        BY <1>0, <1>2, <3>1, <4>1, AfterAppend DEF Event
    <3>3. CASE OnStart \/ OnDisconnected \/ OnGotIp
      <4>1. events # <<>> /\ events' = Tail(events)
        BY <3>3, Zenon DEF OnStart, OnDisconnected, OnGotIp, Dispatch
      <4> QED
        BY <1>0, <1>2, <3>1, <4>1, AfterTail
    <3>4. CASE Join \/ Reconnect
      BY <1>2, <3>1, <3>4 DEF Join, Reconnect
    <3> QED
      BY <1>2, <3>2, <3>3, <3>4 DEF WifiStep
  <2>2. ~OnStart
    <3> SUFFICES ASSUME OnStart PROVE FALSE
      OBVIOUS
    <3>1. events # <<>> /\ Head(events) = "STA_START"
      BY DEF OnStart, Dispatch
    <3>2. 1 \in 1..Len(events) /\ events[1] = Head(events)
      BY <1>0, <3>1, HeadTailProperties, EmptySeq, LenProperties, SMT
    <3> QED
      BY <1>2, <3>1, <3>2 DEF Contains
  <2>3. CASE OnDisconnected
    BY <2>1, <2>3, Zenon DEF OnDisconnected, ControlInv, Early, SleepsDisconnected, BitMatchesState
  <2>4. CASE OnGotIp
    <3>1. backoff_ms = 0 /\ backoff_ms' = backoff_ms
      BY <2>4 DEF OnGotIp, Dispatch
    <3> QED
      BY <2>1, <2>4, <3>1, Zenon DEF OnGotIp, ControlInv, Early, SleepsDisconnected, BitMatchesState
  <2>5. CASE Reconnect
    <3>1. backoff_ms # 0 /\ backoff_ms' = 0
      <4>1. backoff_ms > 0 /\ backoff_ms' = 0
        BY <2>5 DEF Reconnect
      <4> QED
        BY <4>1, SMT
    <3> QED
      BY <1>0, <2>1, <2>5, <3>1, Zenon
      DEF Reconnect, ControlInv, Early, SleepsDisconnected, BitMatchesState
  <2>6. CASE Join \/ Lose \/ GetAddress
    <3>1. UNCHANGED <<s_wifi_state, connectedBit, backoff_ms>>
      BY <2>6, Zenon DEF Join, Lose, GetAddress, handler
    <3> QED
      BY <1>0, <2>1, <3>1, Zenon DEF ControlInv, Early, SleepsDisconnected, BitMatchesState
  <2> QED
    BY <1>2, <2>2, <2>3, <2>4, <2>5, <2>6 DEF WifiStep
<1>3. ASSUME station = "off" \/ Contains(events, "STA_START"), WifiStep, ~StartStation
      PROVE  ControlInv'
  <2>1. /\ s_wifi_state = "DISCONNECTED" /\ backoff_ms = 0 /\ dhcp = "none"
        /\ \/ station = "off" /\ events = <<>>
           \/ station = "idle" /\ events = <<"STA_START">>
    BY <1>3 DEF ControlInv, Early
  <2>2. ~Join /\ ~Lose /\ ~GetAddress
    BY <2>1 DEF Join, Lose, GetAddress
  <2>3. ~Reconnect
    <3>1. ~(backoff_ms > 0)
      BY <2>1, SMT
    <3> QED
      BY <3>1, Zenon DEF Reconnect
  <2>4. ~OnDisconnected /\ ~OnGotIp
    <3>1. Head(<<"STA_START">>) = "STA_START"
      OBVIOUS
    <3> QED
      BY <2>1, <3>1 DEF OnDisconnected, OnGotIp, Dispatch
  <2>5. OnStart
    BY <1>3, <2>2, <2>3, <2>4 DEF WifiStep
  <2>6. ~Contains(events', "STA_START")
    <3>1. events = <<"STA_START">> /\ events' = Tail(events)
      BY <2>1, <2>5 DEF OnStart, Dispatch
    <3>2. Len(Tail(<<"STA_START">>)) = 0
      OBVIOUS
    <3> QED
      BY <3>1, <3>2, SMT DEF Contains
  <2> QED
    BY <1>0, <2>1, <2>5, <2>6, Zenon
    DEF OnStart, ControlInv, Early, SleepsDisconnected, BitMatchesState
<1> QED
  BY <1>1, <1>2, <1>3, Zenon

-----------------------------------------------------------------------------
LEMMA WifiInvInit == Init => WifiInv
<1> SUFFICES ASSUME Init PROVE WifiInv
  OBVIOUS
<1>1. ~Contains(events, "STA_START")
  BY SMT DEF Init, Contains
<1>2. TypeOK
  <2>1. 0 \in Nat /\ 0 \in 0..WIFI_BACKOFF_MAX_MS /\ 0 \in 0..MaxLosses
    BY MaxLossesAssumption, SMT DEF WIFI_BACKOFF_MAX_MS
  <2>2. events \in Seq({"STA_START", "STA_DISCONNECTED", "GOT_IP"})
    BY DEF Init
  <2>3. connectedBit \in BOOLEAN
    BY Zenon DEF Init
  <2> QED
    BY <2>1, <2>2, <2>3 DEF Init, TypeOK
<1> QED
  BY <1>1, <1>2 DEF Init, WifiInv, Early, SleepsDisconnected, BitMatchesState, RetryPending

LEMMA WifiInvNext == WifiInv /\ [Next]_vars => WifiInv'
<1> SUFFICES ASSUME WifiInv, [Next]_vars PROVE WifiInv'
  OBVIOUS
<1>1. CASE WifiStep
  <2>1. ControlInv'
    BY <1>1, ControlStep, Zenon DEF WifiInv, ControlInv
  <2> QED
    BY <1>1, <2>1, TypeStep, RetryStep, Zenon DEF WifiInv, ControlInv
<1>2. CASE UNCHANGED vars
  BY <1>2 DEF vars, handler, driver, WifiInv, TypeOK, Early, SleepsDisconnected,
              BitMatchesState, RetryPending
<1>3. Stay => UNCHANGED vars
  BY DEF Stay
<1> QED
  BY <1>1, <1>2, <1>3, Zenon DEF Next, WifiStep

(***************************************************************************)
(* Monitor starts the tasks as Startup does: entering them in the table,   *)
(* and reporting them, is a stutter of Startup.                            *)
(***************************************************************************)
LEMMA MonitorSteps == [MonitorNext]_monitorVars => [StartNext]_startVars
<1>1. Create => StartNext
  BY Zenon DEF Create, StartNext, Booting
<1>2. Register \/ Report => UNCHANGED startVars
  BY Zenon DEF Register, Report
<1>3. OtherTasks => StartNext
  BY Zenon DEF OtherTasks, StartNext, Booting
<1>4. UNCHANGED monitorVars => UNCHANGED startVars
  BY DEF monitorVars
<1> QED
  BY <1>1, <1>2, <1>3, <1>4, Zenon DEF MonitorNext

LEMMA MonitorStarts == MonitorSpec => StartInit /\ [][StartNext]_startVars
<1>1. MonitorInit => StartInit
  BY DEF MonitorInit
<1> QED
  BY <1>1, MonitorSteps, PTL DEF MonitorSpec

(***************************************************************************)
(* Booting the application does nothing to the connection that the station *)
(* of Wifi would not do: every step of Startup is one of Wifi, or leaves   *)
(* its variables alone.                                                    *)
(***************************************************************************)
LEMMA StepOfWifi == [StartNext]_startVars => [Next]_vars
<1>1. [StartNext]_startVars => StartNext \/ UNCHANGED vars
  BY DEF startVars
<1>2. Booting \/ WaitEnds => StartStation \/ UNCHANGED vars
  BY Zenon DEF Booting, MainStep, TaskBegins, WifiBegins, WifiStarts, MqttBegins,
               WaitExpired, ClientStarts, WaitEnds
<1>3. GotIp \/ WifiElse => Next
  BY Zenon DEF GotIp, WifiElse, Next
<1> QED
  BY <1>1, <1>2, <1>3, Zenon DEF StartNext, Next

(***************************************************************************)
(* Started by app_main, the station of the application is Wifi's.          *)
(***************************************************************************)
THEOREM StartRefinesWifi == MonitorSpec => Init /\ [][Next]_vars
<1>1. StartInit => Init
  BY DEF StartInit
<1> QED
  BY <1>1, StepOfWifi, MonitorStarts, PTL

LEMMA WifiInvHolds == MonitorSpec => []WifiInv
<1> QED
  BY WifiInvInit, WifiInvNext, StartRefinesWifi, PTL

(***************************************************************************)
(* The types, for any number of losses: in particular the backoff never    *)
(* exceeds WIFI_BACKOFF_MAX_MS, however long the attempts go on.           *)
(***************************************************************************)
THEOREM WifiTypeCorrect == MonitorSpec => []TypeOK
<1>1. WifiInv => TypeOK
  BY DEF WifiInv
<1> QED
  BY <1>1, WifiInvHolds, PTL

(***************************************************************************)
(* app_wifi_is_connected and app_wifi_wait_for_connection always agree.    *)
(***************************************************************************)
THEOREM BitIsState == MonitorSpec => []BitMatchesState
<1>1. WifiInv => BitMatchesState
  BY DEF WifiInv
<1> QED
  BY <1>1, WifiInvHolds, PTL

(***************************************************************************)
(* The station is never left idle without an attempt to come.              *)
(***************************************************************************)
THEOREM RetryIsPending == MonitorSpec => []RetryPending
<1>1. WifiInv => RetryPending
  BY DEF WifiInv
<1> QED
  BY <1>1, WifiInvHolds, PTL

-----------------------------------------------------------------------------
(***************************************************************************)
(* The positions of the events that make the handler try again, after an   *)
(* event is posted and after one is taken.                                 *)
(***************************************************************************)
RetryEvent == {"STA_START", "STA_DISCONNECTED"}
RetriesIn(q) == {i \in DOMAIN q : q[i] \in RetryEvent}

LEMMA RetriesAppend ==
  ASSUME NEW q \in Seq(Event), NEW e \in Event
  PROVE  /\ e \notin RetryEvent => RetriesIn(Append(q, e)) = RetriesIn(q)
         /\ e \in RetryEvent => RetriesIn(Append(q, e)) = RetriesIn(q) \cup {Len(q) + 1}
<1>1. /\ Len(q) \in Nat
      /\ DOMAIN q = 1..Len(q)
      /\ DOMAIN Append(q, e) = 1..Len(q) + 1
      /\ \A i \in 1..Len(q) : Append(q, e)[i] = q[i]
      /\ Append(q, e)[Len(q) + 1] = e
  BY AppendProperties, LenProperties
<1> DEFINE a == Append(q, e)
           n == Len(q)
<1> HIDE DEF a, n
<1> QED
  BY <1>1, SMT DEF RetriesIn, RetryEvent, a, n

LEMMA RetriesTail ==
  ASSUME NEW q \in Seq(Event), q # <<>>
  PROVE  /\ \A i \in RetriesIn(Tail(q)) : i \in Nat \ {0} /\ i + 1 \in RetriesIn(q)
         /\ Head(q) \in RetryEvent => 1 \in RetriesIn(q)
<1>1. /\ Tail(q) \in Seq(Event)
      /\ Len(q) \in Nat /\ Len(q) > 0
      /\ Len(Tail(q)) = Len(q) - 1
      /\ \A i \in 1..Len(Tail(q)) : Tail(q)[i] = q[i + 1]
      /\ Head(q) = q[1]
      /\ DOMAIN q = 1..Len(q) /\ DOMAIN Tail(q) = 1..Len(Tail(q))
  BY HeadTailProperties, EmptySeq, LenProperties, SMT
<1> DEFINE t == Tail(q)
           h == Head(q)
           n == Len(q)
<1> HIDE DEF t, h, n
<1> QED
  BY <1>1, SMT DEF RetriesIn, t, h, n

(***************************************************************************)
(* NoSecondAttempt is inductive: a loss is posted by a station that is trying   *)
(* or connected, and such a station has nothing queued that would make it  *)
(* try once more.                                                          *)
(***************************************************************************)
LEMMA NoSecondStep ==
  ASSUME TypeOK, NoSecondAttempt, WifiStep
  PROVE  NoSecondAttempt'
<1>0. /\ events \in Seq(Event) /\ s_reconnect_attempt \in Nat
      /\ station \in {"off", "idle", "connecting", "joined"}
  BY DEF TypeOK, Event
<1>1. /\ Retries = RetriesIn(events)
      /\ Retries' = RetriesIn(events')
  BY DEF Retries, RetriesIn, RetryEvent
<1>2. CASE StartStation \/ Lose
  <2>1. /\ station # "idle" /\ station' = "idle" /\ backoff_ms' = backoff_ms
        /\ \E e \in RetryEvent : events' = Append(events, e)
    BY <1>2, Zenon DEF StartStation, Lose, handler, RetryEvent
  <2>2. backoff_ms' = 0 /\ RetriesIn(events) = {}
    BY <1>1, <2>1 DEF NoSecondAttempt
  <2>3. RetriesIn(events') = {Len(events) + 1}
    BY <1>0, <2>1, <2>2, RetriesAppend DEF Event, RetryEvent
  <2>4. ~(0 > 0)
    BY SMT
  <2> QED
    BY <1>1, <2>1, <2>2, <2>3, <2>4 DEF NoSecondAttempt
<1>3. CASE GetAddress
  <2>1. /\ station' = station /\ backoff_ms' = backoff_ms
        /\ events' = Append(events, "GOT_IP")
    BY <1>3 DEF GetAddress, handler
  <2>2. Retries' = Retries
    BY <1>0, <1>1, <2>1, RetriesAppend DEF Event, RetryEvent
  <2> QED
    BY <2>1, <2>2 DEF NoSecondAttempt
<1>4. CASE Join
  BY <1>1, <1>4 DEF Join, NoSecondAttempt, handler
<1>5. CASE Reconnect
  <2>1. /\ backoff_ms > 0 /\ backoff_ms' = 0
        /\ events' = events /\ station' = "connecting"
    BY <1>5 DEF Reconnect
  <2>2. Retries' = {}
    BY <1>1, <2>1 DEF NoSecondAttempt
  <2> QED
    BY <2>1, <2>2 DEF NoSecondAttempt
<1>6. CASE OnStart \/ OnDisconnected
  <2>1. events # <<>> /\ Head(events) \in RetryEvent /\ events' = Tail(events)
    BY <1>6 DEF OnStart, OnDisconnected, Dispatch, RetryEvent
  <2>2. 1 \in Retries
    BY <1>0, <1>1, <2>1, RetriesTail
  <2>3. Retries' = {}
    <3> SUFFICES ASSUME NEW i \in RetriesIn(events') PROVE FALSE
      BY <1>1
    <3>1. i \in Nat \ {0} /\ i + 1 \in Retries
      BY <1>0, <1>1, <2>1, RetriesTail
    <3>2. i + 1 = 1
      BY <2>2, <3>1 DEF NoSecondAttempt
    <3> QED
      BY <3>1, <3>2, SMT
  <2>4. station' # "idle" => backoff_ms' = 0
    <3>1. CASE OnStart
      BY <3>1 DEF OnStart, Dispatch
    <3>2. CASE OnDisconnected
      <4>1. station' = station
        BY <3>2 DEF OnDisconnected
      <4> QED
        BY <2>2, <4>1 DEF NoSecondAttempt
    <3> QED
      BY <1>6, <3>1, <3>2
  <2> QED
    BY <2>3, <2>4 DEF NoSecondAttempt
<1>7. CASE OnGotIp
  <2>1. /\ events # <<>> /\ events' = Tail(events)
        /\ station' = station /\ backoff_ms' = backoff_ms
    BY <1>7 DEF OnGotIp, Dispatch, driver
  <2>2. \A i \in Retries' : i \in Nat /\ i + 1 \in Retries
    BY <1>0, <1>1, <2>1, RetriesTail
  <2>3. \A i, j \in Retries' : i = j
    <3> SUFFICES ASSUME NEW i \in Retries', NEW j \in Retries' PROVE i = j
      OBVIOUS
    <3>1. i \in Nat /\ j \in Nat /\ i + 1 = j + 1
      BY <2>2 DEF NoSecondAttempt
    <3> QED
      BY <3>1, SMT
  <2>4. Retries = {} => Retries' = {}
    BY <2>2
  <2> QED
    BY <2>1, <2>3, <2>4 DEF NoSecondAttempt
<1> QED
  BY <1>2, <1>3, <1>4, <1>5, <1>6, <1>7 DEF WifiStep

(***************************************************************************)
(* AddressComing needs it: the handler of a disconnection, with which DHCP *)
(* stops, never runs for a station that has joined again.                  *)
(***************************************************************************)
LEMMA AddressStep ==
  ASSUME TypeOK, NoSecondAttempt, AddressComing, WifiStep
  PROVE  AddressComing'
<1>0. /\ events \in Seq(Event)
      /\ station \in {"off", "idle", "connecting", "joined"}
  BY DEF TypeOK, Event
<1>1. CASE StartStation \/ Lose \/ OnStart \/ Reconnect
  BY <1>1 DEF StartStation, Lose, OnStart, Reconnect, AddressComing
<1>2. CASE Join
  BY <1>2 DEF Join, AddressComing
<1>3. CASE GetAddress
  <2>1. Contains(events', "GOT_IP")
    BY <1>0, <1>3, AfterAppend DEF GetAddress, Event
  <2> QED
    BY <1>3, <2>1 DEF GetAddress, AddressComing
<1>4. CASE OnDisconnected
  <2>1. /\ events # <<>> /\ Head(events) \in RetryEvent /\ station' = station
    BY <1>4 DEF OnDisconnected, Dispatch, RetryEvent
  <2>2. 1 \in Retries
    BY <1>0, <2>1, RetriesTail DEF Retries, RetriesIn, RetryEvent
  <2> QED
    BY <2>1, <2>2 DEF NoSecondAttempt, AddressComing
<1>5. CASE OnGotIp
  BY <1>5 DEF OnGotIp, driver, AddressComing
<1> QED
  BY <1>1, <1>2, <1>3, <1>4, <1>5 DEF WifiStep

AttemptInv == NoSecondAttempt /\ AddressComing

LEMMA AttemptHolds == MonitorSpec => []AttemptInv
<1>1. Init => AttemptInv
  <2> SUFFICES ASSUME Init PROVE AttemptInv
    OBVIOUS
  <2>1. Retries = {} /\ ~(0 > 0)
    BY SMT DEF Init, Retries
  <2> QED
    BY <2>1 DEF Init, AttemptInv, NoSecondAttempt, AddressComing
<1>2. WifiInv /\ AttemptInv /\ [Next]_vars => AttemptInv'
  <2> SUFFICES ASSUME WifiInv, AttemptInv, [Next]_vars PROVE AttemptInv'
    OBVIOUS
  <2>1. CASE WifiStep
    BY <2>1, NoSecondStep, AddressStep, Zenon DEF WifiInv, AttemptInv
  <2>2. CASE UNCHANGED vars
    BY <2>2 DEF vars, handler, driver, AttemptInv, NoSecondAttempt, Retries, AddressComing
  <2>3. Stay => UNCHANGED vars
    BY DEF Stay
  <2> QED
    BY <2>1, <2>2, <2>3, Zenon DEF Next, WifiStep
<1> QED
  BY <1>1, <1>2, WifiInvHolds, StartRefinesWifi, PTL

(***************************************************************************)
(* An idle station has exactly one attempt to come, and esp_wifi_connect   *)
(* is called for no other: once for each connection that was lost.         *)
(***************************************************************************)
THEOREM OneAttemptAtATime == MonitorSpec => []OneAttempt
<1>1. AttemptInv => NoSecondAttempt
  BY DEF AttemptInv
<1>2. RetryPending /\ NoSecondAttempt => OneAttempt
  BY DEF OneAttempt
<1> QED
  BY <1>1, <1>2, AttemptHolds, RetryIsPending, PTL

(***************************************************************************)
(* A station that has joined has its address, or will be given one, and    *)
(* the application knows it or has the event in its queue.                 *)
(***************************************************************************)
THEOREM JoinedIsAnnounced == MonitorSpec => []AddressComing
<1>1. AttemptInv => AddressComing
  BY DEF AttemptInv
<1> QED
  BY <1>1, AttemptHolds, PTL

(***************************************************************************)
(* The delay of each attempt.                                              *)
(***************************************************************************)
LEMMA BackoffValues ==
  /\ Backoff(1) = 1000 /\ Backoff(2) = 2000 /\ Backoff(3) = 4000
  /\ Backoff(4) = 8000 /\ Backoff(5) = 16000
  /\ \A n \in Nat : n >= 6 => Backoff(n) = WIFI_BACKOFF_MAX_MS
<1>1. /\ 2 ^ 1 = 2 /\ 2 ^ 2 = 4 /\ 2 ^ 3 = 8
      /\ 2 ^ 4 = 16 /\ 2 ^ 5 = 32 /\ 2 ^ 6 = 64
  BY SMT
<1>2. \A k \in 1..6 : Least(k, WIFI_BACKOFF_MAX_SHIFT) = k
  BY SMT DEF Least, WIFI_BACKOFF_MAX_SHIFT
<1>3. ASSUME NEW k \in 1..6, NEW p, 2 ^ k = p
      PROVE  Backoff(k) = Least(500 * p, WIFI_BACKOFF_MAX_MS)
  BY <1>2, <1>3 DEF Backoff, WIFI_BACKOFF_BASE_MS
<1>4. 1 \in 1..6 /\ 2 \in 1..6 /\ 3 \in 1..6 /\ 4 \in 1..6 /\ 5 \in 1..6 /\ 6 \in 1..6
  BY SMT
<1>5. ASSUME NEW p \in 1..64
      PROVE  Least(500 * p, WIFI_BACKOFF_MAX_MS) = IF p < 60 THEN 500 * p ELSE 30000
  BY SMT DEF Least, WIFI_BACKOFF_MAX_MS
<1>6. /\ 2 \in 1..64 /\ 4 \in 1..64 /\ 8 \in 1..64 /\ 16 \in 1..64 /\ 32 \in 1..64
      /\ 64 \in 1..64
  BY SMT
<1>7. /\ Backoff(1) = 1000 /\ Backoff(2) = 2000 /\ Backoff(3) = 4000
      /\ Backoff(4) = 8000 /\ Backoff(5) = 16000
  <2>1. Backoff(1) = 1000
    BY <1>1, <1>3, <1>4, <1>5, <1>6, SMT
  <2>2. Backoff(2) = 2000
    BY <1>1, <1>3, <1>4, <1>5, <1>6, SMT
  <2>3. Backoff(3) = 4000
    BY <1>1, <1>3, <1>4, <1>5, <1>6, SMT
  <2>4. Backoff(4) = 8000
    BY <1>1, <1>3, <1>4, <1>5, <1>6, SMT
  <2>5. Backoff(5) = 16000
    BY <1>1, <1>3, <1>4, <1>5, <1>6, SMT
  <2> QED
    BY <2>1, <2>2, <2>3, <2>4, <2>5
<1>8. ASSUME NEW n \in Nat, n >= 6 PROVE Backoff(n) = WIFI_BACKOFF_MAX_MS
  <2>1. Least(n, WIFI_BACKOFF_MAX_SHIFT) = 6
    BY <1>8, SMT DEF Least, WIFI_BACKOFF_MAX_SHIFT
  <2>2. Backoff(n) = Least(500 * 64, WIFI_BACKOFF_MAX_MS)
    BY <1>1, <2>1 DEF Backoff, WIFI_BACKOFF_BASE_MS
  <2> QED
    BY <2>2, SMT DEF Least, WIFI_BACKOFF_MAX_MS
<1> QED
  BY <1>7, <1>8

Sleeping == backoff_ms > 0 =>
  s_reconnect_attempt \in Nat \ {0} /\ backoff_ms = Backoff(s_reconnect_attempt)

LEMMA SleepingStep ==
  ASSUME TypeOK, Sleeping, [Next]_vars
  PROVE  Sleeping'
<1>0. s_reconnect_attempt \in Nat /\ ~(0 > 0)
  BY SMT DEF TypeOK
<1>1. CASE OnDisconnected
  <2>1. /\ s_reconnect_attempt' = s_reconnect_attempt + 1
        /\ backoff_ms' = Backoff(s_reconnect_attempt')
    BY <1>1 DEF OnDisconnected
  <2>2. s_reconnect_attempt + 1 \in Nat \ {0}
    BY <1>0, SMT
  <2> QED
    BY <2>1, <2>2, Zenon DEF Sleeping
<1>2. CASE OnStart \/ OnGotIp \/ Reconnect
  <2>1. backoff_ms' = 0
    BY <1>2, Zenon DEF OnStart, OnGotIp, Reconnect, Dispatch
  <2> QED
    BY <1>0, <2>1 DEF Sleeping
<1>3. CASE StartStation \/ Join \/ Lose \/ GetAddress \/ Stay \/ UNCHANGED vars
  <2>1. UNCHANGED handler
    BY <1>3, Zenon DEF StartStation, Join, Lose, GetAddress, Stay, vars, handler
  <2> QED
    BY <2>1 DEF handler, Sleeping
<1> QED
  BY <1>1, <1>2, <1>3, Zenon DEF Next

(***************************************************************************)
(* What the handler sleeps for.  After the first loss it is 1 s already,   *)
(* the attempt being counted before the shift: 500 ms, which the comment   *)
(* of the code begins with, never comes, and 30 s follows 16 s for good.   *)
(***************************************************************************)
THEOREM BackoffSteps ==
  MonitorSpec => []( /\ backoff_ms \in {0, 1000, 2000, 4000, 8000, 16000, 30000}
                     /\ backoff_ms = 30000 => s_reconnect_attempt >= 6 )
<1> DEFINE Steps == /\ backoff_ms \in {0, 1000, 2000, 4000, 8000, 16000, 30000}
                    /\ backoff_ms = 30000 => s_reconnect_attempt >= 6
<1>1. Init => Sleeping
  <2>1. ~(0 > 0)
    BY SMT
  <2> QED
    BY <2>1 DEF Init, Sleeping
<1>2. TypeOK /\ Sleeping => Steps
  <2> SUFFICES ASSUME TypeOK, Sleeping PROVE Steps
    OBVIOUS
  <2>1. backoff_ms \in 0..WIFI_BACKOFF_MAX_MS
    BY DEF TypeOK
  <2>2. CASE backoff_ms > 0
    <3>1. PICK n \in Nat \ {0} : s_reconnect_attempt = n /\ backoff_ms = Backoff(n)
      BY <2>2 DEF Sleeping
    <3>2. n = 1 \/ n = 2 \/ n = 3 \/ n = 4 \/ n = 5 \/ n >= 6
      BY SMT
    <3>3. \/ backoff_ms \in {1000, 2000, 4000, 8000, 16000}
          \/ n >= 6 /\ backoff_ms = 30000
      BY <3>1, <3>2, BackoffValues DEF WIFI_BACKOFF_MAX_MS
    <3>4. /\ 1000 # 30000 /\ 2000 # 30000 /\ 4000 # 30000
          /\ 8000 # 30000 /\ 16000 # 30000
      BY SMT
    <3>5. backoff_ms = 30000 => s_reconnect_attempt >= 6
      BY <3>1, <3>3, <3>4
    <3> QED
      BY <3>3, <3>5
  <2>3. CASE backoff_ms = 0
    <3>1. 0 # 30000
      BY SMT
    <3> QED
      BY <2>3, <3>1
  <2>4. backoff_ms > 0 \/ backoff_ms = 0
    <3> HIDE DEF Steps
    <3>1. PICK b \in 0..WIFI_BACKOFF_MAX_MS : backoff_ms = b
      BY <2>1, Zenon
    <3>2. b > 0 \/ b = 0
      BY SMT DEF WIFI_BACKOFF_MAX_MS
    <3> QED
      BY <3>1, <3>2
  <2> QED
    BY <2>2, <2>3, <2>4
<1> QED
  BY <1>1, <1>2, SleepingStep, WifiTypeCorrect, StartRefinesWifi, PTL

-----------------------------------------------------------------------------
(***************************************************************************)
(* What app_main has done by its step: the order of its calls, and for the *)
(* event group, which is made by the WiFi task, the priority of that task: *)
(* app_main gets on to the MQTT task only when the WiFi task has blocked.  *)
(***************************************************************************)
Places == {"none", "created", "init", "waiting", "expired", "connected", "online", "offline", "up"}

Order(i) ==
  IF Program[i] \in Tasks THEN place[Program[i]] # "none" <=> i < step
                          ELSE i < step => Program[i] \in made

Booted ==
  /\ step \in 1..13
  /\ place \in [Tasks -> Places]
  /\ \A i \in 1..12 : Order(i)
  /\ place["wifi"] \in {"none", "created"} \/ "event_group" \in made
  /\ step > 9 => "event_group" \in made /\ "mqtt_handle" \in made

LEMMA ProgramIs ==
  /\ Len(Program) = 12
  /\ Program[1] = "event_loop" /\ Program[2] = "data_mutex" /\ Program[3] = "leds"
  /\ Program[4] = "i2c_bus" /\ Program[5] = "monitor" /\ Program[6] = "wifi"
  /\ Program[7] = "command_queue" /\ Program[8] = "cmd" /\ Program[9] = "mqtt"
  /\ Program[10] = "sensor" /\ Program[11] = "button_queue" /\ Program[12] = "btn"
BY DEF Program

LEMMA ProgramOnce ==
  \A i, j \in 1..12 : Program[i] = Program[j] => i = j
BY ProgramIs, SMT

LEMMA BootedInit == StartInit => Booted
<1> SUFFICES ASSUME StartInit PROVE Booted
  OBVIOUS
<1>1. \A i \in 1..12 : Order(i)
  BY ProgramIs, SMT DEF StartInit, Order, Tasks
<1> QED
  BY <1>1, SMT DEF StartInit, Booted, Places, Tasks

LEMMA BootedMain ==
  ASSUME Booted, MainStep
  PROVE  Booted'
<1> DEFINE next == Program[step]
<1>1. step \in 1..12 /\ step' = step + 1 /\ step' \in 1..13
  BY ProgramIs, SMT DEF Booted, MainStep
<1>2. CASE next \in Tasks
  <2>1. /\ place' = [place EXCEPT ![next] = "created"]
        /\ made' = IF next = "mqtt" THEN made \cup {"mqtt_handle"} ELSE made
    BY <1>2 DEF MainStep, Goes
  <2>2. place' \in [Tasks -> Places]
    BY <1>2, <2>1 DEF Booted, Places
  <2>3. ASSUME NEW i \in 1..12 PROVE Order(i)'
    <3>1. Order(i)
      BY DEF Booted
    <3>2. CASE i = step
      BY <1>1, <1>2, <2>1, <3>2, SMT DEF Order, Booted
    <3>3. CASE i # step
      <4>1. Program[i] # next /\ (i < step <=> i < step')
        BY <1>1, <3>3, ProgramOnce, SMT
      <4> QED
        BY <1>1, <1>2, <2>1, <3>1, <4>1 DEF Order, Booted
    <3> QED
      BY <3>2, <3>3
  <2>4. place["wifi"]' \in {"none", "created"} \/ "event_group" \in made'
    BY <1>2, <2>1 DEF Booted
  <2>5. CASE step = 9
    <3>1. place["wifi"] # "none"
      <4>1. Order(6)
        BY SMT DEF Booted
      <4> QED
        BY <2>5, <4>1, ProgramIs, SMT DEF Order, Tasks
    <3>2. place["wifi"] # "created"
      <4>1. "wifi" \notin Ready \/ Prio["wifi"] <= Prio["main"]
        BY Zenon DEF MainStep, Runs
      <4>2. ~(Prio["wifi"] <= Prio["main"])
        BY SMT DEF Prio
      <4> QED
        BY <4>1, <4>2 DEF Ready, Tasks
    <3>3. "event_group" \in made /\ next = "mqtt"
      BY <2>5, <3>1, <3>2, ProgramIs DEF Booted
    <3> QED
      BY <1>1, <2>1, <2>2, <2>3, <2>4, <3>3 DEF Booted
  <2>6. CASE step # 9
    <3>1. step' > 9 => step > 9
      BY <1>1, <2>6, SMT
    <3> QED
      BY <1>1, <2>1, <2>2, <2>3, <2>4, <3>1 DEF Booted
  <2> QED
    BY <2>5, <2>6
<1>3. CASE next \notin Tasks
  <2>1. made' = made \cup {next} /\ place' = place
    BY <1>3, Zenon DEF MainStep
  <2>2. ASSUME NEW i \in 1..12 PROVE Order(i)'
    <3>1. Order(i)
      BY DEF Booted
    <3>2. CASE i = step
      BY <1>1, <1>3, <2>1, <3>2, SMT DEF Order
    <3>3. CASE i # step
      <4>1. i < step <=> i < step'
        BY <1>1, <3>3, SMT
      <4> QED
        BY <2>1, <3>1, <4>1 DEF Order
    <3> QED
      BY <3>2, <3>3
  <2>3. step' > 9 => step > 9
    <3>1. step # 9
      BY <1>3, ProgramIs DEF Tasks
    <3> QED
      BY <1>1, <3>1, SMT
  <2> QED
    BY <1>1, <2>1, <2>2, <2>3 DEF Booted
<1> QED
  BY <1>2, <1>3

(***************************************************************************)
(* Every other step moves a task that has been created, and unmakes        *)
(* nothing.                                                                *)
(***************************************************************************)
Move ==
  /\ step' = step
  /\ \/ /\ made' = made
        /\ \/ place' = place
           \/ \E t \in Tasks \ {"wifi"}, w \in Places \ {"none"} :
                place[t] # "none" /\ place' = [place EXCEPT ![t] = w]
           \/ place["wifi"] = "init" /\ place' = [place EXCEPT !["wifi"] = "up"]
     \/ /\ made' = made \cup {"event_group"}
        /\ place["wifi"] = "created" /\ place' = [place EXCEPT !["wifi"] = "init"]

LEMMA MoveStep ==
  ASSUME Booted, Move
  PROVE  Booted'
<1>1. step' = step /\ made \subseteq made'
  BY DEF Move
<1>2. /\ place' \in [Tasks -> Places]
      /\ \A t \in Tasks : place'[t] # "none" <=> place[t] # "none"
      /\ place'["wifi"] \in {"none", "created"} \/ "event_group" \in made'
  BY DEF Move, Booted, Places, Tasks
<1>3. ASSUME NEW i \in 1..12 PROVE Order(i)'
  <2>1. Order(i)
    BY DEF Booted
  <2> QED
    BY <1>1, <1>2, <2>1 DEF Order
<1> QED
  BY <1>1, <1>2, <1>3 DEF Booted

LEMMA NextMoves ==
  ASSUME Booted, [StartNext]_startVars
  PROVE  MainStep \/ Move
<1>1. CASE TaskBegins
  BY <1>1 DEF TaskBegins, Move, Goes, Places
<1>2. CASE WifiBegins \/ WifiStarts
  BY <1>2, Zenon DEF WifiBegins, WifiStarts, Move, Goes
<1>3. CASE MqttBegins \/ WaitExpired \/ ClientStarts \/ WaitEnds
  <2>1. step' = step /\ made' = made /\ place["mqtt"] # "none"
    BY <1>3 DEF MqttBegins, WaitExpired, ClientStarts, WaitEnds
  <2>2. PICK w \in Places \ {"none"} : place' = [place EXCEPT !["mqtt"] = w]
    BY <1>3, Zenon DEF MqttBegins, WaitExpired, ClientStarts, WaitEnds, Goes, Places
  <2> QED
    BY <2>1, <2>2 DEF Move, Tasks
<1>4. CASE GotIp
  <2>1. step' = step /\ made' = made
    BY <1>4 DEF GotIp
  <2>2. CASE place["mqtt"] = "waiting"
    <3>1. place' = [place EXCEPT !["mqtt"] = "connected"]
      BY <1>4, <2>2 DEF GotIp, WakeMqtt, Goes
    <3> QED
      BY <2>1, <2>2, <3>1 DEF Move, Tasks, Places
  <2>3. CASE place["mqtt"] # "waiting"
    <3>1. place' = place
      BY <1>4, <2>3 DEF GotIp, WakeMqtt, Goes, Booted
    <3> QED
      BY <2>1, <3>1 DEF Move
  <2> QED
    BY <2>2, <2>3
<1>5. CASE WifiElse \/ UNCHANGED startVars
  BY <1>5, Zenon DEF WifiElse, startVars, Move
<1> QED
  BY <1>1, <1>2, <1>3, <1>4, <1>5, Zenon DEF StartNext, Booting

LEMMA BootedNext == Booted /\ [StartNext]_startVars => Booted'
BY NextMoves, BootedMain, MoveStep, Zenon

LEMMA BootedHolds == MonitorSpec => []Booted
<1> QED
  BY BootedInit, BootedNext, MonitorStarts, PTL

(***************************************************************************)
(* No task uses, or looks in vain for, what does not exist yet.  It is the *)
(* order of app_main and the priorities that see to it: no task waits.     *)
(***************************************************************************)
THEOREM NothingMissing == MonitorSpec => []NeedsMet
<1>1. Booted => NeedsMet
  <2> SUFFICES ASSUME Booted, NEW t \in Tasks, place[t] # "none"
               PROVE  Needs[t] \subseteq made
    BY DEF NeedsMet
  <2>1. \A i \in 1..12 : Order(i)
    BY DEF Booted
  <2>2. /\ step > 5 => {"event_loop", "data_mutex", "leds", "i2c_bus"} \subseteq made
        /\ step > 8 => "command_queue" \in made
        /\ step > 11 => "button_queue" \in made
    BY <2>1, ProgramIs, SMT DEF Order, Tasks, Booted
  <2>3. /\ t = "monitor" => step > 5
        /\ t = "wifi" => step > 6
        /\ t = "cmd" => step > 8
        /\ t = "mqtt" => step > 9
        /\ t = "sensor" => step > 10
        /\ t = "btn" => step > 12
    BY <2>1, ProgramIs, SMT DEF Order, Tasks, Booted
  <2>4. /\ step > 6 => step > 5
        /\ step > 8 => step > 5
        /\ step > 9 => step > 8 /\ step > 5
        /\ step > 10 => step > 9
        /\ step > 12 => step > 11
    BY SMT DEF Booted
  <2> QED
    BY <2>2, <2>3, <2>4 DEF Needs, Tasks, Booted
<1> QED
  BY <1>1, BootedHolds, PTL

(***************************************************************************)
(* The MQTT task acts on a connection of its wait, and on nothing else.    *)
(***************************************************************************)
Heard == seen <=> place["mqtt"] \in {"connected", "online"}

LEMMA HeardNext == Booted /\ Heard /\ [StartNext]_startVars => Heard'
<1> SUFFICES ASSUME Booted, Heard, [StartNext]_startVars PROVE Heard'
  OBVIOUS
<1>0. "mqtt" \in DOMAIN place /\ place \in [Tasks -> Places]
  BY DEF Booted, Tasks
<1>1. CASE MainStep
  <2>1. seen' = seen
    BY <1>1 DEF MainStep
  <2>2. \/ place'["mqtt"] = place["mqtt"]
        \/ place["mqtt"] = "none" /\ place'["mqtt"] = "created"
    <3>1. CASE Program[step] = "mqtt"
      <4>1. step \in 1..12
        BY <1>1, ProgramIs, SMT DEF MainStep, Booted
      <4>2. step = 9
        BY <3>1, <4>1, ProgramIs, ProgramOnce, SMT
      <4>3. Order(9)
        BY SMT DEF Booted
      <4>4. place["mqtt"] = "none"
        BY <4>2, <4>3, ProgramIs, SMT DEF Order, Tasks
      <4> QED
        BY <1>0, <1>1, <3>1, <4>4 DEF MainStep, Goes, Tasks
    <3>2. CASE Program[step] # "mqtt"
      BY <1>0, <1>1, <3>2 DEF MainStep, Goes
    <3> QED
      BY <3>1, <3>2
  <2> QED
    BY <2>1, <2>2, Zenon DEF Heard
<1>2. CASE TaskBegins \/ WifiBegins \/ WifiStarts \/ WifiElse \/ UNCHANGED startVars
  <2>1. seen' = seen
    BY <1>2, Zenon DEF TaskBegins, WifiBegins, WifiStarts, WifiElse, startVars
  <2>2. place'["mqtt"] = place["mqtt"]
    BY <1>0, <1>2 DEF TaskBegins, WifiBegins, WifiStarts, WifiElse, startVars, Goes
  <2> QED
    BY <2>1, <2>2, Zenon DEF Heard
<1>3. CASE MqttBegins
  <2>1. "event_group" \in made
    <3>1. place["mqtt"] # "none"
      BY <1>3 DEF MqttBegins
    <3>2. Order(9)
      BY SMT DEF Booted
    <3>3. step > 9
      BY <3>1, <3>2, ProgramIs, SMT DEF Order, Tasks
    <3> QED
      BY <3>3 DEF Booted
  <2>2. ~seen /\ (seen' <=> seen \/ connectedBit)
    <3>1. place["mqtt"] = "created" /\ seen' = (seen \/ connectedBit)
      BY <1>3, Zenon DEF MqttBegins
    <3> QED
      BY <3>1 DEF Heard
  <2>3. place'["mqtt"] = IF connectedBit THEN "connected" ELSE "waiting"
    BY <1>0, <1>3, <2>1 DEF MqttBegins, Goes
  <2>4. CASE connectedBit
    BY <2>2, <2>3, <2>4, Zenon DEF Heard
  <2>5. CASE ~connectedBit
    <3>1. place'["mqtt"] = "waiting"
      BY <2>3, <2>5
    <3> QED
      BY <2>2, <2>5, <3>1 DEF Heard
  <2> QED
    BY <2>4, <2>5
<1>4. CASE WaitExpired
  <2>1. ~seen /\ (seen' <=> seen \/ connectedBit)
    <3>1. place["mqtt"] = "expired" /\ seen' = (seen \/ connectedBit)
      BY <1>4, Zenon DEF WaitExpired
    <3> QED
      BY <3>1 DEF Heard
  <2>2. place'["mqtt"] = IF connectedBit THEN "connected" ELSE "offline"
    BY <1>0, <1>4 DEF WaitExpired, Goes
  <2>3. CASE connectedBit
    BY <2>1, <2>2, <2>3, Zenon DEF Heard
  <2>4. CASE ~connectedBit
    <3>1. place'["mqtt"] = "offline"
      BY <2>2, <2>4
    <3> QED
      BY <2>1, <2>4, <3>1 DEF Heard
  <2> QED
    BY <2>3, <2>4
<1>5. CASE WaitEnds \/ ClientStarts
  <2>1. seen' = seen
    BY <1>5, Zenon DEF WaitEnds, ClientStarts
  <2>2. \/ place["mqtt"] = "waiting" /\ place'["mqtt"] = "expired"
        \/ place["mqtt"] = "connected" /\ place'["mqtt"] = "online"
    BY <1>0, <1>5 DEF WaitEnds, ClientStarts, Goes
  <2> QED
    BY <2>1, <2>2 DEF Heard
<1>6. CASE GotIp
  <2>1. seen' <=> seen \/ place["mqtt"] = "waiting"
    <3>1. seen' = (seen \/ place["mqtt"] = "waiting")
      BY <1>6, Zenon DEF GotIp
    <3> QED
      BY <3>1, Zenon
  <2>2. place'["mqtt"] = IF place["mqtt"] = "waiting" THEN "connected" ELSE place["mqtt"]
    BY <1>0, <1>6 DEF GotIp, WakeMqtt, Goes
  <2> QED
    BY <2>1, <2>2 DEF Heard
<1> QED
  BY <1>1, <1>2, <1>3, <1>4, <1>5, <1>6, Zenon DEF StartNext, Booting

THEOREM NoConnectionMissed == MonitorSpec => []ConnectionNotMissed
<1>1. StartInit => Heard
  <2> SUFFICES ASSUME StartInit PROVE Heard
    OBVIOUS
  <2>1. seen = FALSE /\ place["mqtt"] = "none"
    BY DEF StartInit, Tasks
  <2> QED
    BY <2>1 DEF Heard
<1>2. Heard => ConnectionNotMissed
  BY DEF Heard, ConnectionNotMissed
<1> QED
  BY <1>1, <1>2, BootedHolds, HeardNext, MonitorStarts, PTL

-----------------------------------------------------------------------------
(***************************************************************************)
(* EntryWhole is not inductive: what the report loop finds depends on how  *)
(* far app_main has got with the entry that it counts last.                *)
(***************************************************************************)
Fields == {"name", "handle", "stack_total", "count", "none"}
Records == [name : Tasks \cup {"NULL"}, handle : Tasks \cup {"NULL"}, stack_total : Nat]

TableType ==
  /\ s_tasks \in [0..15 -> Records] /\ s_task_count \in 0..16
  /\ entering \in Fields
  /\ mpc \in {"wait", "test", "read"} /\ entry \in Nat

Counted ==
  \A k \in 0..15 : k < s_task_count =>
    \E t \in Watched : place[t] # "none" /\ s_tasks[k] = Entry(t)

Entered ==
  entering # "none" =>
    /\ s_task_count < 16
    /\ step - 1 \in 1..12 /\ Program[step - 1] \in Watched
    /\ entering # "name" => s_tasks[s_task_count].name = Program[step - 1]
    /\ entering \in {"stack_total", "count"} =>
         s_tasks[s_task_count].handle = Program[step - 1]
    /\ entering = "count" =>
         s_tasks[s_task_count].stack_total = StackOf[Program[step - 1]]

TableInv == TableType /\ Counted /\ Entered /\ (mpc = "read" => entry < s_task_count)

LEMMA TableInit == MonitorInit => TableInv
<1> SUFFICES ASSUME MonitorInit PROVE TableInv
  OBVIOUS
<1>1. Zero \in Records
  BY DEF Zero, Records
<1>2. s_tasks = [k \in 0..15 |-> Zero]
  BY SMT DEF MonitorInit, MAX_MONITORED_TASKS
<1>3. s_task_count = 0 /\ entering = "none" /\ mpc = "wait" /\ entry = 0
  BY DEF MonitorInit
<1> QED
  BY <1>1, <1>2, <1>3, SMT DEF TableInv, TableType, Counted, Entered, Fields

(***************************************************************************)
(* A task that has been created stays created.                             *)
(***************************************************************************)
LEMMA CreatedStays ==
  ASSUME Booted, [StartNext]_startVars, NEW t \in Tasks, place[t] # "none"
  PROVE  place'[t] # "none"
<1>1. CASE MainStep
  BY <1>1 DEF MainStep, Goes, Booted
<1>2. CASE Move
  BY <1>2 DEF Move, Booted
<1> QED
  BY <1>1, <1>2, NextMoves

LEMMA WatchedAre ==
  ASSUME NEW t \in Watched
  PROVE  t \in Tasks /\ StackOf[t] \in Nat /\ Entry(t) \in Records
<1>1. t \in Tasks /\ StackOf[t] \in Nat
  BY DEF Watched, Tasks, StackOf
<1> QED
  BY <1>1 DEF Entry, Records

LEMMA EntryDone ==
  ASSUME TableType, Entered, entering = "count"
  PROVE  s_tasks[s_task_count] = Entry(Program[step - 1])
<1> DEFINE t == Program[step - 1]
           c == s_task_count
<1>1. c \in 0..15
  BY SMT DEF TableType, Entered
<1>2. s_tasks[c] \in Records
  BY <1>1 DEF TableType
<1>3. s_tasks[c].name = t /\ s_tasks[c].handle = t /\ s_tasks[c].stack_total = StackOf[t]
  BY DEF Entered
<1> QED
  BY <1>2, <1>3 DEF Records, Entry

LEMMA RegisterStep ==
  ASSUME Booted, TableInv, Register
  PROVE  TableInv'
<1> DEFINE t == Program[step - 1]
           c == s_task_count
<1>1. /\ c \in 0..15 /\ step - 1 \in 1..12 /\ t \in Watched
      /\ entering \in {"name", "handle", "stack_total", "count"}
  BY SMT DEF Register, TableInv, TableType, Entered, Fields
<1>2. /\ place' = place /\ step' = step /\ mpc' = mpc /\ entry' = entry
      /\ entering' = After[entering]
  BY DEF Register, startVars, report
<1>3. t \in Tasks /\ StackOf[t] \in Nat /\ Entry(t) \in Records
  BY <1>1, WatchedAre
<1>4. place[t] # "none"
  <2>1. Order(step - 1)
    BY <1>1 DEF Booted
  <2>2. step - 1 < step
    BY SMT DEF Booted
  <2> QED
    BY <1>3, <2>1, <2>2 DEF Order
<1>5. CASE entering = "count"
  <2>1. s_task_count' = c + 1 /\ s_tasks' = s_tasks /\ entering' = "none"
    BY <1>2, <1>5 DEF Register, After
  <2>2. s_tasks[c] = Entry(t)
    BY <1>5, EntryDone DEF TableInv
  <2>3. Counted'
    <3> SUFFICES ASSUME NEW k \in 0..15, k < c + 1
                 PROVE  \E u \in Watched : place[u] # "none" /\ s_tasks[k] = Entry(u)
      BY <1>2, <2>1 DEF Counted
    <3>1. CASE k = c
      BY <1>1, <1>4, <2>2, <3>1
    <3>2. CASE k # c
      <4>1. k < c
        BY <1>1, <3>2, SMT
      <4> QED
        BY <4>1 DEF TableInv, Counted
    <3> QED
      BY <3>1, <3>2
  <2>4. TableType'
    BY <1>1, <1>2, <2>1, SMT DEF TableInv, TableType, Fields
  <2>5. mpc' = "read" => entry' < s_task_count'
    BY <1>1, <1>2, <2>1, SMT DEF TableInv, TableType
  <2> QED
    BY <2>1, <2>3, <2>4, <2>5 DEF TableInv, Entered
<1>6. CASE entering # "count"
  <2> DEFINE f == entering
             r == [s_tasks[c] EXCEPT ![f] = Entry(t)[f]]
  <2>1. /\ s_task_count' = c
        /\ s_tasks' = [s_tasks EXCEPT ![c] = r]
    BY <1>6 DEF Register
  <2>2. s_tasks[c] \in Records
    BY <1>1 DEF TableInv, TableType
  <2>3. /\ r \in Records
        /\ f = "name" => r.name = t
        /\ f = "handle" => r.name = s_tasks[c].name /\ r.handle = t
        /\ f = "stack_total" => /\ r.name = s_tasks[c].name /\ r.handle = s_tasks[c].handle
                                /\ r.stack_total = StackOf[t]
    <3>1. CASE f = "name"
      BY <1>3, <2>2, <3>1 DEF Records, Entry
    <3>2. CASE f = "handle"
      BY <1>3, <2>2, <3>2 DEF Records, Entry
    <3>3. CASE f = "stack_total"
      BY <1>3, <2>2, <3>3 DEF Records, Entry
    <3> QED
      BY <1>1, <1>6, <3>1, <3>2, <3>3
  <2> HIDE DEF r
  <2>4. s_tasks' \in [0..15 -> Records] /\ s_tasks'[c] = r
        /\ \A k \in 0..15 : k # c => s_tasks'[k] = s_tasks[k]
    BY <1>1, <2>1, <2>3 DEF TableInv, TableType
  <2>5. Counted'
    <3> SUFFICES ASSUME NEW k \in 0..15, k < c
                 PROVE  \E u \in Watched : place[u] # "none" /\ s_tasks'[k] = Entry(u)
      BY <1>2, <2>1 DEF Counted
    <3>1. k # c
      BY <1>1, SMT
    <3> QED
      BY <2>4, <3>1 DEF TableInv, Counted
  <2>6. Entered'
    <3>1. CASE f = "name"
      BY <1>1, <1>2, <2>1, <2>3, <2>4, <3>1, SMT DEF After, Entered
    <3>2. CASE f = "handle"
      BY <1>1, <1>2, <2>1, <2>3, <2>4, <3>2, SMT DEF After, Entered, TableInv
    <3>3. CASE f = "stack_total"
      BY <1>1, <1>2, <2>1, <2>3, <2>4, <3>3, SMT DEF After, Entered, TableInv
    <3> QED
      BY <1>1, <1>6, <3>1, <3>2, <3>3
  <2>7. TableType'
    <3>1. entering' \in Fields
      BY <1>1, <1>2 DEF After, Fields
    <3> QED
      BY <1>2, <2>1, <2>4, <3>1 DEF TableInv, TableType
  <2> QED
    BY <1>2, <2>1, <2>5, <2>6, <2>7 DEF TableInv
<1> QED
  BY <1>5, <1>6

LEMMA TableNext == Booted /\ TableInv /\ [MonitorNext]_monitorVars => TableInv'
<1> SUFFICES ASSUME Booted, TableInv, [MonitorNext]_monitorVars PROVE TableInv'
  OBVIOUS
<1>0. ASSUME UNCHANGED table PROVE Counted'
  <2> SUFFICES ASSUME NEW k \in 0..15, k < s_task_count
               PROVE  \E t \in Watched : place'[t] # "none" /\ s_tasks[k] = Entry(t)
    BY <1>0 DEF table, Counted
  <2>1. PICK t \in Watched : place[t] # "none" /\ s_tasks[k] = Entry(t)
    BY DEF TableInv, Counted
  <2>2. place'[t] # "none"
    BY <2>1, WatchedAre, CreatedStays, MonitorSteps
  <2> QED
    BY <2>1, <2>2
<1>1. CASE Create
  <2>1. /\ UNCHANGED <<s_tasks, s_task_count, mpc, entry>>
        /\ step' = step + 1 /\ step \in 1..12
    BY <1>1, ProgramIs, SMT DEF Create, MainStep, table, report, Booted
  <2>2. entering' = IF Program[step] \in Watched /\ s_task_count < 16 THEN "name" ELSE "none"
    BY <1>1 DEF Create, MAX_MONITORED_TASKS
  <2>3. Counted'
    BY <1>0, <2>1 DEF table
  <2>4. Entered'
    BY <2>1, <2>2, SMT DEF Entered
  <2> QED
    BY <2>1, <2>2, <2>3, <2>4 DEF TableInv, TableType, Fields
<1>2. CASE Register
  BY <1>2, RegisterStep
<1>3. CASE Report
  <2>1. UNCHANGED <<place, step, s_tasks, s_task_count, entering>>
    BY <1>3 DEF Report, startVars, table
  <2>2. Counted' /\ Entered'
    BY <2>1 DEF TableInv, Counted, Entered
  <2>3. \/ mpc' = "test" /\ entry' \in {0, entry + 1}
        \/ mpc' \in {"wait", "read"} /\ entry' = entry /\ (mpc' = "read" => entry < s_task_count)
    BY <1>3 DEF Report, DelayOver, Test, ReadEntry
  <2> QED
    BY <2>1, <2>2, <2>3, SMT DEF TableInv, TableType
<1>4. CASE OtherTasks \/ UNCHANGED monitorVars
  <2>1. UNCHANGED <<s_tasks, s_task_count, entering, mpc, entry>>
    BY <1>4 DEF OtherTasks, monitorVars, table, report
  <2>2. step' = step
    BY <1>4 DEF OtherTasks, TaskBegins, WifiBegins, WifiStarts, MqttBegins, WaitEnds,
                WaitExpired, ClientStarts, GotIp, WifiElse, monitorVars, startVars
  <2>3. Counted'
    BY <1>0, <2>1 DEF table
  <2> QED
    BY <2>1, <2>2, <2>3 DEF TableInv, TableType, Entered
<1> QED
  BY <1>1, <1>2, <1>3, <1>4 DEF MonitorNext

(***************************************************************************)
(* The report loop of task_monitor reads entries of created tasks, and     *)
(* whole ones, wherever it interrupts task_monitor_register.               *)
(***************************************************************************)
THEOREM EntriesAlwaysWhole == MonitorSpec => []EntryWhole
<1>1. TableInv => EntryWhole
  <2> SUFFICES ASSUME TableInv, mpc = "read"
               PROVE  \E t \in Watched : place[t] # "none" /\ s_tasks[entry] = Entry(t)
    BY DEF EntryWhole
  <2>1. entry \in 0..15 /\ entry < s_task_count
    BY SMT DEF TableInv, TableType
  <2> QED
    BY <2>1 DEF TableInv, Counted
<1> QED
  BY <1>1, TableInit, TableNext, BootedHolds, PTL DEF MonitorSpec

-----------------------------------------------------------------------------
(***************************************************************************)
(* The place of each task in the table, and how many are entered when      *)
(* app_main gets to a step of its program.                                 *)
(***************************************************************************)
Slot == [wifi |-> 0, cmd |-> 1, mqtt |-> 2, sensor |-> 3, btn |-> 4]
CountAt == <<0, 0, 0, 0, 0, 0, 1, 1, 2, 3, 4, 4, 5>>

Filled ==
  /\ s_task_count = IF entering = "none" THEN CountAt[step] ELSE CountAt[step] - 1
  /\ \A t \in Watched : Slot[t] < s_task_count => s_tasks[Slot[t]] = Entry(t)

LEMMA WatchedTasks == Watched = {"wifi", "cmd", "mqtt", "sensor", "btn"}
BY DEF Watched, Tasks

LEMMA Slots ==
  /\ \A t \in Watched : Slot[t] \in 0..4
  /\ \A t, u \in Watched : Slot[t] = Slot[u] => t = u
  /\ \A k \in 0..4 : \E t \in Watched : Slot[t] = k
<1>1. /\ Slot["wifi"] = 0 /\ Slot["cmd"] = 1 /\ Slot["mqtt"] = 2
      /\ Slot["sensor"] = 3 /\ Slot["btn"] = 4
  BY DEF Slot
<1>2. \A k \in 0..4 : k = 0 \/ k = 1 \/ k = 2 \/ k = 3 \/ k = 4
  BY SMT
<1>3. \A k \in 0..4 : \E t \in Watched : Slot[t] = k
  BY <1>1, <1>2, WatchedTasks, Zenon
<1>4. /\ \A t \in Watched : Slot[t] \in 0..4
      /\ \A t, u \in Watched : Slot[t] = Slot[u] => t = u
  BY <1>1, WatchedTasks, SMT
<1> QED
  BY <1>3, <1>4

LEMMA Counts ==
  ASSUME NEW i \in 1..12
  PROVE  /\ CountAt[i] \in 0..5 /\ CountAt[i + 1] \in 0..5
         /\ Program[i] \in Watched =>
              CountAt[i + 1] = CountAt[i] + 1 /\ Slot[Program[i]] = CountAt[i]
         /\ Program[i] \notin Watched => CountAt[i + 1] = CountAt[i]
<1>1. \/ i = 1 \/ i = 2 \/ i = 3 \/ i = 4 \/ i = 5 \/ i = 6
      \/ i = 7 \/ i = 8 \/ i = 9 \/ i = 10 \/ i = 11 \/ i = 12
  BY SMT
<1>2. /\ CountAt[1] = 0 /\ CountAt[2] = 0 /\ CountAt[3] = 0 /\ CountAt[4] = 0
      /\ CountAt[5] = 0 /\ CountAt[6] = 0 /\ CountAt[7] = 1 /\ CountAt[8] = 1
      /\ CountAt[9] = 2 /\ CountAt[10] = 3 /\ CountAt[11] = 4 /\ CountAt[12] = 4
      /\ CountAt[13] = 5
  BY DEF CountAt
<1>3. /\ Slot["wifi"] = 0 /\ Slot["cmd"] = 1 /\ Slot["mqtt"] = 2
      /\ Slot["sensor"] = 3 /\ Slot["btn"] = 4
  BY DEF Slot
<1>4. CountAt[i] \in 0..5 /\ CountAt[i + 1] \in 0..5
  BY <1>1, <1>2, SMT
<1>5. /\ Program[i] \in Watched <=> i \in {6, 8, 9, 10, 12}
  BY <1>1, ProgramIs, WatchedTasks, SMT
<1>6. /\ i \in {6, 8, 9, 10, 12} =>
           CountAt[i + 1] = CountAt[i] + 1 /\ Slot[Program[i]] = CountAt[i]
      /\ i \notin {6, 8, 9, 10, 12} => CountAt[i + 1] = CountAt[i]
  BY <1>1, <1>2, <1>3, ProgramIs, SMT
<1> QED
  BY <1>4, <1>5, <1>6

LEMMA FilledNext ==
  Booted /\ TableInv /\ Filled /\ [MonitorNext]_monitorVars => Filled'
<1> SUFFICES ASSUME Booted, TableInv, Filled, [MonitorNext]_monitorVars PROVE Filled'
  OBVIOUS
<1>1. CASE Create
  <2>1. /\ s_tasks' = s_tasks /\ s_task_count' = s_task_count /\ entering = "none"
        /\ step' = step + 1 /\ step \in 1..12
    BY <1>1, ProgramIs, SMT DEF Create, MainStep, table, Booted
  <2>2. s_task_count = CountAt[step] /\ s_task_count < 16
    BY <2>1, Counts, SMT DEF Filled
  <2>3. entering' = IF Program[step] \in Watched THEN "name" ELSE "none"
    BY <1>1, <2>2 DEF Create, MAX_MONITORED_TASKS
  <2>4. s_task_count' = IF entering' = "none" THEN CountAt[step'] ELSE CountAt[step'] - 1
    <3>1. PICK n \in 0..5 : CountAt[step] = n
      BY <2>1, Counts
    <3> QED
      BY <2>1, <2>2, <2>3, <3>1, Counts, SMT
  <2> QED
    BY <2>1, <2>4 DEF Filled
<1>2. CASE Register
  <2> DEFINE t == Program[step - 1]
             c == s_task_count
  <2>1. /\ c \in 0..15 /\ step - 1 \in 1..12 /\ t \in Watched
        /\ entering \in {"name", "handle", "stack_total", "count"}
    BY <1>2, SMT DEF Register, TableInv, TableType, Entered, Fields
  <2>2. step' = step /\ entering' = After[entering]
    BY <1>2 DEF Register, startVars
  <2>3. c = CountAt[step] - 1 /\ CountAt[step] \in 0..5
    <3>1. (step - 1) + 1 = step
      BY SMT DEF Booted
    <3> QED
      BY <2>1, <3>1, Counts DEF Filled
  <2>4. CASE entering = "count"
    <3>1. s_task_count' = c + 1 /\ s_tasks' = s_tasks /\ entering' = "none"
      BY <1>2, <2>2, <2>4 DEF Register, After
    <3>2. s_tasks[c] = Entry(t)
      BY <2>4, EntryDone DEF TableInv
    <3>3. Slot[t] = c
      <4>1. CountAt[step] = CountAt[step - 1] + 1 /\ Slot[t] = CountAt[step - 1]
        <5>1. (step - 1) + 1 = step
          BY SMT DEF Booted
        <5> QED
          BY <2>1, <5>1, Counts
      <4>2. CountAt[step - 1] \in 0..5
        BY <2>1, Counts
      <4> QED
        BY <2>3, <4>1, <4>2, SMT
    <3>4. ASSUME NEW u \in Watched, Slot[u] < c + 1 PROVE s_tasks[Slot[u]] = Entry(u)
      <4>1. Slot[u] \in 0..4
        BY Slots
      <4>2. CASE Slot[u] = c
        BY <2>1, <3>2, <3>3, <4>2, Slots
      <4>3. CASE Slot[u] < c
        BY <4>3 DEF Filled
      <4> QED
        BY <2>1, <3>4, <4>1, <4>2, <4>3, SMT
    <3>5. s_task_count' = CountAt[step']
      BY <2>2, <2>3, <3>1, SMT
    <3> QED
      BY <3>1, <3>4, <3>5 DEF Filled
  <2>5. CASE entering # "count"
    <3>1. /\ s_task_count' = c /\ entering' # "none"
          /\ \A k \in 0..15 : k # c => s_tasks'[k] = s_tasks[k]
      BY <1>2, <2>1, <2>2, <2>5 DEF Register, After, TableInv, TableType
    <3>2. ASSUME NEW u \in Watched, Slot[u] < c PROVE s_tasks'[Slot[u]] = Entry(u)
      <4>1. Slot[u] \in 0..15 /\ Slot[u] # c
        BY <2>1, <3>2, Slots, SMT
      <4> QED
        BY <3>1, <3>2, <4>1 DEF Filled
    <3> QED
      BY <2>2, <2>3, <3>1, <3>2 DEF Filled
  <2> QED
    BY <2>4, <2>5
<1>3. CASE Report \/ OtherTasks \/ UNCHANGED monitorVars
  <2>1. UNCHANGED <<s_tasks, s_task_count, entering, step>>
    BY <1>3, Zenon DEF Report, OtherTasks, TaskBegins, WifiBegins, WifiStarts, MqttBegins,
      WaitEnds, WaitExpired, ClientStarts, GotIp, WifiElse, monitorVars, startVars, table
  <2> QED
    BY <2>1 DEF Filled
<1> QED
  BY <1>1, <1>2, <1>3 DEF MonitorNext

(***************************************************************************)
(* When app_main is through, the table holds every task, and each of them  *)
(* once: however the report loop was interleaved with the entering, none   *)
(* is overwritten, skipped or entered twice.                               *)
(***************************************************************************)
THEOREM TableGetsComplete == MonitorSpec => []TableComplete
<1>1. MonitorInit => Filled
  <2> SUFFICES ASSUME MonitorInit PROVE Filled
    OBVIOUS
  <2>1. s_task_count = 0 /\ entering = "none" /\ step = 1 /\ CountAt[1] = 0
    BY DEF MonitorInit, StartInit, CountAt
  <2>2. \A t \in Watched : ~(Slot[t] < 0)
    BY Slots, SMT
  <2> QED
    BY <2>1, <2>2 DEF Filled
<1>2. Cardinality(Watched) = 5
  <2>1. IsFiniteSet({}) /\ Cardinality({}) = 0
    BY FS_EmptySet
  <2>2. IsFiniteSet({"wifi"}) /\ Cardinality({"wifi"}) = 1
    <3>1. {} \cup {"wifi"} = {"wifi"}
      OBVIOUS
    <3> QED
      BY <2>1, <3>1, FS_AddElement
  <2>3. IsFiniteSet({"wifi", "cmd"}) /\ Cardinality({"wifi", "cmd"}) = 2
    <3>1. {"wifi"} \cup {"cmd"} = {"wifi", "cmd"} /\ "cmd" \notin {"wifi"}
      OBVIOUS
    <3> QED
      BY <2>2, <3>1, FS_AddElement
  <2>4. IsFiniteSet({"wifi", "cmd", "mqtt"}) /\ Cardinality({"wifi", "cmd", "mqtt"}) = 3
    <3>1. /\ {"wifi", "cmd"} \cup {"mqtt"} = {"wifi", "cmd", "mqtt"}
          /\ "mqtt" \notin {"wifi", "cmd"}
      OBVIOUS
    <3>2. /\ IsFiniteSet({"wifi", "cmd"} \cup {"mqtt"})
          /\ Cardinality({"wifi", "cmd"} \cup {"mqtt"}) = 2 + 1
      BY <2>3, <3>1, FS_AddElement
    <3>3. 2 + 1 = 3
      BY SMT
    <3> QED
      BY <3>1, <3>2, <3>3
  <2>5. /\ IsFiniteSet({"wifi", "cmd", "mqtt", "sensor"})
        /\ Cardinality({"wifi", "cmd", "mqtt", "sensor"}) = 4
    <3>1. /\ {"wifi", "cmd", "mqtt"} \cup {"sensor"} = {"wifi", "cmd", "mqtt", "sensor"}
          /\ "sensor" \notin {"wifi", "cmd", "mqtt"}
      OBVIOUS
    <3> QED
      BY <2>4, <3>1, FS_AddElement
  <2>6. /\ Watched = {"wifi", "cmd", "mqtt", "sensor"} \cup {"btn"}
        /\ "btn" \notin {"wifi", "cmd", "mqtt", "sensor"}
    BY WatchedTasks
  <2> QED
    BY <2>5, <2>6, FS_AddElement
<1>3. Booted /\ TableInv /\ Filled => TableComplete
  <2> SUFFICES ASSUME Booted, TableInv, Filled, step > 12, entering = "none"
               PROVE  /\ {s_tasks[k] : k \in 0..s_task_count - 1} = {Entry(t) : t \in Watched}
                      /\ s_task_count = 5
    BY <1>2, ProgramIs DEF TableComplete
  <2>1. step = 13
    BY SMT DEF Booted
  <2>2. s_task_count = 5
    BY <2>1 DEF Filled, CountAt
  <2>3. 0..s_task_count - 1 = 0..4
    BY <2>2, SMT
  <2>4. \A t \in Watched : Slot[t] \in 0..4 /\ s_tasks[Slot[t]] = Entry(t)
    BY <2>2, Slots, SMT DEF Filled
  <2>5. \A k \in 0..4 : \E t \in Watched : s_tasks[k] = Entry(t)
    <3> SUFFICES ASSUME NEW k \in 0..4 PROVE \E t \in Watched : s_tasks[k] = Entry(t)
      OBVIOUS
    <3>1. PICK t \in Watched : Slot[t] = k
      BY Slots
    <3> QED
      BY <2>4, <3>1
  <2>6. {s_tasks[k] : k \in 0..4} = {Entry(t) : t \in Watched}
    <3>1. {s_tasks[k] : k \in 0..4} \subseteq {Entry(t) : t \in Watched}
      BY <2>5
    <3>2. ASSUME NEW t \in Watched PROVE Entry(t) \in {s_tasks[k] : k \in 0..4}
      <4>1. Slot[t] \in 0..4 /\ Entry(t) = s_tasks[Slot[t]]
        BY <2>4
      <4> QED
        BY <4>1
    <3> QED
      BY <3>1, <3>2
  <2> QED
    BY <2>2, <2>3, <2>6
<1> QED
  BY <1>1, <1>3, FilledNext, TableInit, TableNext, BootedHolds, PTL DEF MonitorSpec

=============================================================================
