-------------------------------- MODULE Wifi --------------------------------
(***************************************************************************)
(* main/task_app_wifi_manage.c: the station keeps itself connected from    *)
(* the event handler, which runs in the event loop's own task and sleeps   *)
(* there through the backoff: while it does, later events wait in the      *)
(* loop's queue.  Other tasks read the state and the event group.          *)
(*                                                                         *)
(* The WiFi driver and DHCP are ESP-IDF's, modelled from the calls and the *)
(* events of the handler.  An address may be reported when the connection  *)
(* it is for is lost already: its event then follows the disconnection's.  *)
(***************************************************************************)
EXTENDS Integers, Sequences, SequencesExt

CONSTANT MaxLosses   \* bound: connections lost or refused

ASSUME MaxLossesAssumption == MaxLosses \in Nat

VARIABLES
  s_wifi_state,
  connectedBit,         \* WIFI_CONNECTED_BIT of s_wifi_event_group
  s_reconnect_attempt,
  backoff_ms,           \* the handler sleeps for this long; 0: it does not
  events,               \* the queue of the event loop
  station,              \* the driver: "off", "idle", "connecting", "joined"
  dhcp,                 \* the address is "none", "asked" or "given"
  losses

handler == <<s_wifi_state, connectedBit, s_reconnect_attempt, backoff_ms>>
driver == <<station, dhcp, losses>>
vars == <<handler, events, driver>>

WIFI_BACKOFF_BASE_MS == 500
WIFI_BACKOFF_MAX_MS == 30000
WIFI_BACKOFF_MAX_SHIFT == 6

Least(a, b) == IF a < b THEN a ELSE b

(* A mutant: the shift is not limited.                                     *)
UnlimitedBackoff(attempt) == WIFI_BACKOFF_BASE_MS * 2 ^ attempt

Backoff(attempt) ==
  Least(WIFI_BACKOFF_BASE_MS * 2 ^ Least(attempt, WIFI_BACKOFF_MAX_SHIFT),
        WIFI_BACKOFF_MAX_MS)

(* wifi_init_sta has created the event group, registered the handler and   *)
(* not yet called esp_wifi_start.                                          *)
Init ==
  /\ s_wifi_state = "DISCONNECTED"
  /\ connectedBit = FALSE
  /\ s_reconnect_attempt = 0
  /\ backoff_ms = 0
  /\ events = <<>>
  /\ station = "off"
  /\ dhcp = "none"
  /\ losses = 0

-----------------------------------------------------------------------------
(* The driver                                                              *)

StartStation ==
  /\ station = "off"
  /\ station' = "idle"
  /\ events' = Append(events, "STA_START")
  /\ UNCHANGED <<handler, dhcp, losses>>

Join ==
  /\ station = "connecting"
  /\ station' = "joined"
  /\ dhcp' = "asked"
  /\ UNCHANGED <<handler, events, losses>>

(* The access point refuses or drops the station.                          *)
Lose ==
  /\ station \in {"connecting", "joined"}
  /\ losses < MaxLosses
  /\ losses' = losses + 1
  /\ station' = "idle"
  /\ dhcp' = IF dhcp = "asked" THEN "asked" ELSE "none"
  /\ events' = Append(events, "STA_DISCONNECTED")
  /\ UNCHANGED handler

GetAddress ==
  /\ dhcp = "asked"
  /\ dhcp' = IF station = "joined" THEN "given" ELSE "none"
  /\ events' = Append(events, "GOT_IP")
  /\ UNCHANGED <<handler, station, losses>>

-----------------------------------------------------------------------------
(* wifi_event_handler                                                      *)

Dispatch(event) ==
  /\ backoff_ms = 0
  /\ events # <<>> /\ Head(events) = event
  /\ events' = Tail(events)

OnStart ==
  /\ Dispatch("STA_START")
  /\ s_reconnect_attempt' = 0
  /\ s_wifi_state' = "CONNECTING"
  /\ station' = "connecting"
  /\ UNCHANGED <<connectedBit, backoff_ms, dhcp, losses>>

(* A mutant: the bit of the event group is left as it was.                 *)
OnDisconnectedBitKept ==
  /\ Dispatch("STA_DISCONNECTED")
  /\ s_reconnect_attempt' = s_reconnect_attempt + 1
  /\ backoff_ms' = Backoff(s_reconnect_attempt')
  /\ s_wifi_state' = "DISCONNECTED"
  /\ dhcp' = "none"
  /\ UNCHANGED <<connectedBit, station, losses>>

(* A mutant: it retries only a connection that had been up.                *)
OnDisconnectedOnceUp ==
  /\ Dispatch("STA_DISCONNECTED")
  /\ s_reconnect_attempt' = s_reconnect_attempt + 1
  /\ backoff_ms' = IF s_wifi_state = "CONNECTED" THEN Backoff(s_reconnect_attempt') ELSE 0
  /\ s_wifi_state' = "DISCONNECTED"
  /\ connectedBit' = FALSE
  /\ dhcp' = "none"
  /\ UNCHANGED <<station, losses>>

(* A mutant: it reconnects at once, and once more after the sleep.         *)
OnDisconnectedTwice ==
  /\ Dispatch("STA_DISCONNECTED")
  /\ s_reconnect_attempt' = s_reconnect_attempt + 1
  /\ backoff_ms' = Backoff(s_reconnect_attempt')
  /\ s_wifi_state' = "DISCONNECTED"
  /\ connectedBit' = FALSE
  /\ dhcp' = "none"
  /\ station' = "connecting"
  /\ UNCHANGED losses

(* Up to vTaskDelay.  Before it, ESP-IDF's own handler of the event has    *)
(* stopped DHCP.                                                           *)
OnDisconnected ==
  /\ Dispatch("STA_DISCONNECTED")
  /\ s_reconnect_attempt' = s_reconnect_attempt + 1
  /\ backoff_ms' = Backoff(s_reconnect_attempt')
  /\ s_wifi_state' = "DISCONNECTED"
  /\ connectedBit' = FALSE
  /\ dhcp' = "none"
  /\ UNCHANGED <<station, losses>>

(* And after it.                                                           *)
Reconnect ==
  /\ backoff_ms > 0
  /\ backoff_ms' = 0
  /\ s_wifi_state' = "CONNECTING"
  /\ station' = "connecting"
  /\ UNCHANGED <<connectedBit, s_reconnect_attempt, events, dhcp, losses>>

(* A mutant: an address is a success only if the connection was not lost.  *)
OnGotIpAtFirst ==
  /\ Dispatch("GOT_IP")
  /\ s_reconnect_attempt' = 0
  /\ s_wifi_state' = IF s_reconnect_attempt = 0 THEN "CONNECTED" ELSE s_wifi_state
  /\ connectedBit' = (connectedBit \/ s_reconnect_attempt = 0)
  /\ UNCHANGED <<backoff_ms, driver>>

OnGotIp ==
  /\ Dispatch("GOT_IP")
  /\ s_reconnect_attempt' = 0
  /\ s_wifi_state' = "CONNECTED"
  /\ connectedBit' = TRUE
  /\ UNCHANGED <<backoff_ms, driver>>

(* Connected, and nothing happens any more.                                *)
Stay ==
  /\ events = <<>> /\ backoff_ms = 0
  /\ station = "joined" /\ dhcp = "given"
  /\ UNCHANGED vars

Next ==
  \/ StartStation \/ Join \/ Lose \/ GetAddress
  \/ OnStart \/ OnDisconnected \/ Reconnect \/ OnGotIp
  \/ Stay

(* The event loop's task runs and every sleep ends; an access point that   *)
(* is there lets the station join and gives it an address.                 *)
Fairness ==
  /\ WF_vars(StartStation)
  /\ WF_vars(OnStart) /\ WF_vars(OnDisconnected) /\ WF_vars(Reconnect) /\ WF_vars(OnGotIp)
  /\ WF_vars(Join) /\ WF_vars(GetAddress)

Spec == Init /\ [][Next]_vars /\ Fairness

-----------------------------------------------------------------------------
(* Properties *)

TypeOK ==
  /\ s_wifi_state \in {"DISCONNECTED", "CONNECTING", "CONNECTED"}
  /\ connectedBit \in BOOLEAN
  /\ s_reconnect_attempt \in Nat
  /\ backoff_ms \in 0..WIFI_BACKOFF_MAX_MS
  /\ events \in Seq({"STA_START", "STA_DISCONNECTED", "GOT_IP"})
  /\ station \in {"off", "idle", "connecting", "joined"}
  /\ dhcp \in {"none", "asked", "given"}
  /\ losses \in 0..MaxLosses

(* app_wifi_is_connected and app_wifi_wait_for_connection never disagree,  *)
(* whatever the order of the events.                                       *)
BitMatchesState == connectedBit <=> s_wifi_state = "CONNECTED"

(* A station that is not connected is never left alone: the handler sleeps *)
(* before a new attempt, or the event that will make it try is queued.     *)
RetryPending ==
  station = "idle" =>
    \/ backoff_ms > 0
    \/ Contains(events, "STA_START") \/ Contains(events, "STA_DISCONNECTED")

(* Nor is there more than one attempt to come.                             *)
Retries == {i \in DOMAIN events : events[i] \in {"STA_START", "STA_DISCONNECTED"}}

NoSecondAttempt ==
  /\ station # "idle" => backoff_ms = 0 /\ Retries = {}
  /\ backoff_ms > 0 => Retries = {}
  /\ \A i, j \in Retries : i = j

(* An idle station has exactly one attempt to come, and esp_wifi_connect   *)
(* is not called for one that is connecting or connected, nor twice for    *)
(* one loss.                                                               *)
OneAttempt == RetryPending /\ NoSecondAttempt

(* A station that has joined is not forgotten either: its address is still *)
(* asked for, or the event is queued, or the application knows.            *)
AddressComing ==
  station = "joined" =>
    \/ dhcp = "asked"
    \/ dhcp = "given" /\ (s_wifi_state = "CONNECTED" \/ Contains(events, "GOT_IP"))

(* When the access point stays, so does the connection, and the            *)
(* application knows it; a late GOT_IP misleads it only for a while.       *)
EventuallyConnected == <>[](s_wifi_state = "CONNECTED" /\ station = "joined")

(* "Exponential backoff: 500 ms, 1 s, 2 s, ..., at most 30 s".             *)
DocumentedBackoff ==
  backoff_ms > 0 =>
    backoff_ms = Least(WIFI_BACKOFF_BASE_MS * 2 ^ (s_reconnect_attempt - 1),
                       WIFI_BACKOFF_MAX_MS)

=============================================================================
