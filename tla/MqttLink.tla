------------------------------ MODULE MqttLink ------------------------------
(***************************************************************************)
(* main/task_app_mqtt.c over the esp-mqtt client: how a sensor reading     *)
(* reaches the broker.  Three threads: the sensor task stores a reading    *)
(* and notifies; the MQTT task pulls the JSON, publishes it with QoS 1 and *)
(* caches it; the client task keeps the connection, resends its outbox and *)
(* calls mqtt_event_handler.  The client's API lock is held by the client  *)
(* task for one turn of its loop (cpc other than "loop" is the inside of   *)
(* the turn that connected) and by a publish; the flag, the cache and the  *)
(* notification are shared without it.                                     *)
(*                                                                         *)
(* JSON texts are the numbers of the readings they show.                   *)
(***************************************************************************)
EXTENDS Integers, Sequences, SequencesExt

CONSTANTS
  MaxReading,   \* bound: readings taken
  MaxFaults,    \* bound: faults of the network and of the broker
  MaxOnWay,     \* bound: packets and answers on their way at a retransmission
  RecvMax       \* receive_maximum of the broker

ASSUME BoundsAssumption == {MaxReading, MaxFaults, MaxOnWay, RecvMax} \subseteq Nat

VARIABLES
  latest,      \* the reading sensor_data_mgr holds
  spc,         \* sensor task: "idle", or "stored" and about to notify
  notified,    \* a notification of the MQTT task is pending
  ppc,         \* place of the MQTT task
  json,        \* its json_buf
  s_mqtt_connected,
  cache,       \* s_cached_json in two parts, and s_cached_json_len
  state,       \* client->state
  cpc,         \* place of the client task
  outbox,      \* of [id, load, sent]; sent: TRANSMITTED, else QUEUED
  count,       \* send_publish_packet_count
  net,         \* the TCP connection: "up", or "down" and not yet noticed
  wire,        \* packets on their way to the broker
  acks,        \* and the packets whose acknowledgement is on its way back
  got,         \* the readings the broker has
  subscribed,  \* the broker sends the control topic on this connection
  faults

app == <<latest, spc, notified>>
publisher == <<ppc, json, cache>>
traffic == <<wire, acks, got, subscribed>>
vars == <<app, publisher, s_mqtt_connected, state, cpc, outbox, count, net,
          traffic, faults>>

Readings == 1..MaxReading
Torn == MaxReading + 1    \* a text that shows no reading

(* What a packet carries. *)
JsonOf(r) == [kind |-> "json", reading |-> r]
Online == [kind |-> "status", reading |-> 0]
Sub == [kind |-> "sub", reading |-> 0]
Loads == {JsonOf(r) : r \in Readings \cup {Torn}} \cup {Online, Sub}
Packets == [id : Nat \ {0}, load : Loads]

(* mqtt_app_start has returned. *)
Init ==
  /\ latest = 0 /\ spc = "idle" /\ notified = FALSE
  /\ ppc = "wait" /\ json = 0
  /\ s_mqtt_connected = FALSE
  /\ cache = [front |-> 0, back |-> 0, len |-> 0]
  /\ state = "INIT" /\ cpc = "loop"
  /\ outbox = <<>> /\ count = 0
  /\ net = "down" /\ wire = <<>> /\ acks = <<>> /\ got = {}
  /\ subscribed = FALSE
  /\ faults = 0

-----------------------------------------------------------------------------
(* The sensor task: sensor_data_mgr_update_*, then app_mqtt_notify_new_data*)

StoreReading ==
  /\ spc = "idle"
  /\ latest < MaxReading
  /\ latest' = latest + 1
  /\ spc' = "stored"
  /\ UNCHANGED <<notified, publisher, s_mqtt_connected, state, cpc, outbox,
                 count, net, traffic, faults>>

Notify ==
  /\ spc = "stored"
  /\ notified' = TRUE
  /\ spc' = "idle"
  /\ UNCHANGED <<latest, publisher, s_mqtt_connected, state, cpc, outbox,
                 count, net, traffic, faults>>

-----------------------------------------------------------------------------
(* The esp-mqtt client, in whichever task calls it                         *)

LockFree == cpc = "loop"

Store(load, sent) ==
  LET used == {outbox[i].id : i \in DOMAIN outbox} \cup {p.id : p \in Range(wire \o acks)}
      id == CHOOSE n \in 1..(Len(outbox \o wire \o acks) + 1) : n \notin used
  IN /\ outbox' = Append(outbox, [id |-> id, load |-> load, sent |-> sent])
     /\ wire' = IF sent /\ net = "up"
                THEN Append(wire, [id |-> id, load |-> load]) ELSE wire

(* esp_mqtt_abort_connection, with the MQTT_EVENT_DISCONNECTED it          *)
(* dispatches to mqtt_event_handler in the same task.                      *)
Abort ==
  /\ state' = "WAIT_RECONNECT"
  /\ s_mqtt_connected' = FALSE

CheckFails == count > RecvMax

(* esp_mqtt_client_publish returns a message id: the packet is in the      *)
(* outbox and, if the client is connected, written.  A write into a        *)
(* connection that is down may fail, or be lost later.                     *)
PublishOk(load) ==
  /\ ~CheckFails
  /\ Store(load, state = "CONNECTED")
  /\ count' = IF state = "CONNECTED" THEN count + 1 ELSE count
  /\ UNCHANGED <<state, s_mqtt_connected, net, acks>>

(* It returns -1: refused by the MQTT 5 check, or the write failed, and    *)
(* then the packet stays in the outbox all the same.                       *)
PublishFails(load) ==
  \/ CheckFails /\ UNCHANGED <<outbox, wire, count, state, s_mqtt_connected, net, acks>>
  \/ /\ ~CheckFails
     /\ state = "CONNECTED" /\ net = "down"
     /\ Store(load, FALSE)
     /\ Abort
     /\ UNCHANGED <<count, net, acks>>

-----------------------------------------------------------------------------
(* The MQTT task: task_app_mqtt's loop and app_mqtt_publish_data           *)

TakeNotification ==
  /\ ppc = "wait"
  /\ notified
  /\ notified' = FALSE
  /\ ppc' = "pull"
  /\ UNCHANGED <<latest, spc, json, cache, s_mqtt_connected, state, cpc,
                 outbox, count, net, traffic, faults>>

PullJson ==
  /\ ppc = "pull"
  /\ json' = latest
  /\ ppc' = "check"
  /\ UNCHANGED <<app, cache, s_mqtt_connected, state, cpc, outbox, count, net,
                 traffic, faults>>

CheckConnected ==
  /\ ppc = "check"
  /\ ppc' = IF s_mqtt_connected THEN "publish" ELSE "wait"
  /\ UNCHANGED <<app, json, cache, s_mqtt_connected, state, cpc, outbox, count,
                 net, traffic, faults>>

PublishJson ==
  /\ ppc = "publish"
  /\ LockFree
  /\ \/ PublishOk(JsonOf(json)) /\ ppc' = "copy"
     \/ PublishFails(JsonOf(json)) /\ ppc' = "wait"
  /\ UNCHANGED <<app, json, cache, cpc, got, subscribed, faults>>

(* The memcpy into s_cached_json, in two parts, then the length.           *)
CopyFront ==
  /\ ppc = "copy"
  /\ cache' = [cache EXCEPT !.front = json]
  /\ ppc' = "copied"
  /\ UNCHANGED <<app, json, s_mqtt_connected, state, cpc, outbox, count, net,
                 traffic, faults>>

(* A mutant: what came while it was publishing is cleared at the end.      *)
CopyAndClear ==
  /\ ppc = "copied"
  /\ cache' = [cache EXCEPT !.back = json, !.len = json]
  /\ ppc' = "wait"
  /\ notified' = FALSE
  /\ UNCHANGED <<latest, spc, json, s_mqtt_connected, state, cpc, outbox,
                 count, net, traffic, faults>>

CopyBack ==
  /\ ppc = "copied"
  /\ cache' = [cache EXCEPT !.back = json, !.len = json]
  /\ ppc' = "wait"
  /\ UNCHANGED <<app, json, s_mqtt_connected, state, cpc, outbox, count, net,
                 traffic, faults>>

PublisherStep ==
  \/ TakeNotification \/ PullJson \/ CheckConnected \/ PublishJson
  \/ CopyFront \/ CopyBack

-----------------------------------------------------------------------------
(* The client task connects, and mqtt_event_handler gets                   *)
(* MQTT_EVENT_CONNECTED: flag, cached JSON, status, subscription.          *)

Connect ==
  /\ state = "INIT"
  /\ state' = "CONNECTED"
  /\ s_mqtt_connected' = TRUE
  /\ cpc' = "republish"
  /\ net' = "up"
  /\ count' = 0
  /\ subscribed' = FALSE
  /\ UNCHANGED <<app, publisher, outbox, wire, acks, got, faults>>

ConnectFails ==
  /\ state = "INIT"
  /\ faults < MaxFaults
  /\ faults' = faults + 1
  /\ Abort
  /\ UNCHANGED <<app, publisher, cpc, outbox, count, net, traffic>>

Cached ==
  IF cache.front = cache.len /\ cache.back = cache.len THEN JsonOf(cache.len)
  ELSE JsonOf(Torn)

(* A mutant: nothing is re-published while the outbox has something.       *)
RepublishIfNothingQueued ==
  /\ cpc = "republish"
  /\ IF cache.len > 0 /\ outbox = <<>>
     THEN PublishOk(Cached) \/ PublishFails(Cached)
     ELSE UNCHANGED <<outbox, wire, count, state, s_mqtt_connected, net, acks>>
  /\ cpc' = "online"
  /\ UNCHANGED <<app, publisher, got, subscribed, faults>>

Republish ==
  /\ cpc = "republish"
  /\ IF cache.len > 0
     THEN PublishOk(Cached) \/ PublishFails(Cached)
     ELSE UNCHANGED <<outbox, wire, count, state, s_mqtt_connected, net, acks>>
  /\ cpc' = "online"
  /\ UNCHANGED <<app, publisher, got, subscribed, faults>>

PublishOnline ==
  /\ cpc = "online"
  /\ PublishOk(Online) \/ PublishFails(Online)
  /\ cpc' = "subscribe"
  /\ UNCHANGED <<app, publisher, got, subscribed, faults>>

(* A mutant: the flag is set when the handler has done its work.           *)
SubscribeThenFlag ==
  /\ cpc = "subscribe"
  /\ IF state = "CONNECTED" THEN Store(Sub, TRUE) ELSE UNCHANGED <<outbox, wire>>
  /\ s_mqtt_connected' = TRUE
  /\ cpc' = "loop"
  /\ UNCHANGED <<app, publisher, state, count, net, acks, got, subscribed, faults>>

(* A mutant: it subscribes only on the first connection.                   *)
SubscribeOnce ==
  /\ cpc = "subscribe"
  /\ IF state = "CONNECTED" /\ cache.len = 0 THEN Store(Sub, TRUE)
     ELSE UNCHANGED <<outbox, wire>>
  /\ cpc' = "loop"
  /\ UNCHANGED <<app, publisher, s_mqtt_connected, state, count, net, acks, got,
                 subscribed, faults>>

(* esp_mqtt_client_subscribe: -1 when not connected; when the write fails  *)
(* the packet is in the outbox and the connection is not aborted.          *)
Subscribe ==
  /\ cpc = "subscribe"
  /\ IF state = "CONNECTED" THEN Store(Sub, TRUE) ELSE UNCHANGED <<outbox, wire>>
  /\ cpc' = "loop"
  /\ UNCHANGED <<app, publisher, s_mqtt_connected, state, count, net, acks, got,
                 subscribed, faults>>

HandleConnected == Republish \/ PublishOnline \/ Subscribe

-----------------------------------------------------------------------------
(* One turn of the client's loop.                                          *)

Turn == cpc = "loop" /\ state = "CONNECTED"

(* A mutant: a connection already reported lost is not aborted.            *)
NoticeIfReported ==
  /\ Turn /\ net = "down" /\ s_mqtt_connected
  /\ Abort
  /\ UNCHANGED <<app, publisher, cpc, outbox, count, net, traffic, faults>>

(* The read, the poll or the keepalive finds the connection lost.          *)
NoticeLoss ==
  /\ Turn /\ net = "down"
  /\ Abort
  /\ UNCHANGED <<app, publisher, cpc, outbox, count, net, traffic, faults>>

Oldest(S) == CHOOSE i \in S : \A j \in S : i <= j

(* outbox_delete *)
Delete(id) ==
  LET answered == {i \in DOMAIN outbox : outbox[i].id = id} IN
  outbox' = IF answered = {} THEN outbox ELSE RemoveAt(outbox, Oldest(answered))

(* A mutant: the counter is decremented at 0 as well.                      *)
ReceiveAckNoFloor ==
  /\ Turn /\ acks # <<>>
  /\ acks' = Tail(acks)
  /\ Delete(Head(acks).id)
  /\ count' = IF Head(acks).load = Sub THEN count ELSE count - 1
  /\ UNCHANGED <<app, publisher, s_mqtt_connected, state, cpc, net, wire, got,
                 subscribed, faults>>

(* PUBACK, or SUBACK, which does not count.                                *)
ReceiveAck ==
  /\ Turn /\ acks # <<>>
  /\ acks' = Tail(acks)
  /\ Delete(Head(acks).id)
  /\ count' = IF Head(acks).load = Sub \/ count = 0 THEN count ELSE count - 1
  /\ UNCHANGED <<app, publisher, s_mqtt_connected, state, cpc, net, wire, got,
                 subscribed, faults>>

Queued == {i \in DOMAIN outbox : ~outbox[i].sent}
Write(item) ==
  wire' = IF net = "up" THEN Append(wire, [id |-> item.id, load |-> item.load]) ELSE wire

(* outbox_dequeue(QUEUED) and mqtt_resend_queued.                          *)
ResendQueued ==
  /\ Turn /\ Queued # {}
  /\ LET i == Oldest(Queued) IN
     \/ /\ Write(outbox[i])
        /\ outbox' = [outbox EXCEPT ![i].sent = TRUE]
        /\ count' = count + 1
        /\ UNCHANGED <<state, s_mqtt_connected>>
     \/ /\ net = "down"
        /\ Abort
        /\ UNCHANGED <<outbox, count, wire>>
  /\ UNCHANGED <<app, publisher, cpc, net, acks, got, subscribed, faults>>

(* outbox_dequeue(TRANSMITTED), 1 s after it was sent.  A SUBSCRIBE has no *)
(* DUP bit, so it is counted as a publish.  Into a connection that is down *)
(* it is lost, or fails and aborts as NoticeLoss does.  The first copy or  *)
(* its acknowledgement may still be on the way, and both are answered.     *)
Retransmit ==
  /\ Turn /\ Queued = {} /\ outbox # <<>>
  /\ net = "up"
  /\ Len(wire \o acks) < MaxOnWay
  /\ LET item == outbox[1] IN
     /\ Write(item)
     /\ count' = IF item.load = Sub THEN count + 1 ELSE count
  /\ UNCHANGED <<app, publisher, s_mqtt_connected, state, cpc, outbox, net,
                 acks, got, subscribed, faults>>

(* mqtt_delete_expired_messages: items 30 s old.                           *)
Expire ==
  /\ cpc = "loop"
  /\ \E i \in DOMAIN outbox : outbox' = RemoveAt(outbox, i)
  /\ UNCHANGED <<app, publisher, s_mqtt_connected, state, cpc, count, net,
                 traffic, faults>>

(* A mutant: no delay before the reconnection.                             *)
ReconnectAtOnce ==
  /\ cpc = "loop" /\ state = "WAIT_RECONNECT"
  /\ state' = "INIT"
  /\ UNCHANGED <<app, publisher, s_mqtt_connected, cpc, outbox, count, net,
                 traffic, faults>>

(* reconnect_timeout_ms: in two seconds, in which the lock is free, the    *)
(* MQTT task, of priority 4, ends a publish and a memcpy it has begun.     *)
ReconnectDelay ==
  /\ cpc = "loop" /\ state = "WAIT_RECONNECT"
  /\ ppc \notin {"publish", "copy", "copied"}
  /\ state' = "INIT"
  /\ UNCHANGED <<app, publisher, s_mqtt_connected, cpc, outbox, count, net,
                 traffic, faults>>

ClientStep ==
  \/ HandleConnected \/ NoticeLoss \/ ReceiveAck \/ ResendQueued \/ Retransmit
  \/ ReconnectDelay

-----------------------------------------------------------------------------
(* The network and the broker                                              *)

BrokerReceives ==
  /\ wire # <<>>
  /\ LET p == Head(wire) IN
     /\ got' = IF p.load.kind = "json" THEN got \cup {p.load.reading} ELSE got
     /\ subscribed' = (subscribed \/ p.load = Sub)
     /\ acks' = Append(acks, p)
  /\ wire' = Tail(wire)
  /\ UNCHANGED <<app, publisher, s_mqtt_connected, state, cpc, outbox, count, net, faults>>

NetFails ==
  /\ net = "up"
  /\ faults < MaxFaults
  /\ faults' = faults + 1
  /\ net' = "down" /\ wire' = <<>> /\ acks' = <<>>
  /\ UNCHANGED <<app, publisher, s_mqtt_connected, state, cpc, outbox, count, got, subscribed>>

(* A DISCONNECT packet: the event is dispatched, the state is kept, and    *)
(* the broker closes the connection.                                       *)
BrokerDisconnects ==
  /\ Turn /\ net = "up"
  /\ faults < MaxFaults
  /\ faults' = faults + 1
  /\ s_mqtt_connected' = FALSE
  /\ net' = "down" /\ wire' = <<>> /\ acks' = <<>>
  /\ UNCHANGED <<app, publisher, state, cpc, outbox, count, got, subscribed>>

(* The last reading is published and acknowledged: at the bound nothing is *)
(* left to do until the next one.                                          *)
Rest ==
  /\ latest = MaxReading /\ spc = "idle" /\ ~notified /\ ppc = "wait"
  /\ Turn /\ net = "up"
  /\ outbox = <<>> /\ wire = <<>> /\ acks = <<>>
  /\ UNCHANGED vars

Next ==
  \/ StoreReading \/ Notify
  \/ PublisherStep
  \/ Connect \/ ConnectFails \/ ClientStep \/ Expire
  \/ BrokerReceives \/ NetFails \/ BrokerDisconnects
  \/ Rest

(* Every task runs whenever it can and the network delivers; a client that *)
(* keeps trying connects, for faults are finitely many.                    *)
Fairness ==
  /\ WF_vars(Notify)
  /\ WF_vars(PublisherStep)
  /\ WF_vars(Connect)
  /\ WF_vars(HandleConnected) /\ WF_vars(NoticeLoss)
  /\ WF_vars(ReconnectDelay)
  /\ WF_vars(BrokerReceives)

Spec == Init /\ [][Next]_vars /\ Fairness

-----------------------------------------------------------------------------
(* Properties *)

TypeOK ==
  /\ latest \in 0..MaxReading
  /\ spc \in {"idle", "stored"}
  /\ notified \in BOOLEAN
  /\ ppc \in {"wait", "pull", "check", "publish", "copy", "copied"}
  /\ json \in 0..MaxReading
  /\ s_mqtt_connected \in BOOLEAN
  /\ cache \in [front : 0..MaxReading, back : 0..MaxReading, len : 0..MaxReading]
  /\ state \in {"INIT", "CONNECTED", "WAIT_RECONNECT"}
  /\ cpc \in {"loop", "republish", "online", "subscribe"}
  /\ outbox \in Seq([id : Nat \ {0}, load : Loads, sent : BOOLEAN])
  /\ count \in Nat
  /\ net \in {"up", "down"}
  /\ wire \in Seq(Packets) /\ acks \in Seq(Packets)
  /\ got \subseteq Readings \cup {Torn}
  /\ subscribed \in BOOLEAN
  /\ faults \in 0..MaxFaults

(* app_mqtt_is_connected never says yes of a client that is not connected, *)
(* although a publish inside the connected handler may abort the           *)
(* connection and dispatch MQTT_EVENT_DISCONNECTED from within it.         *)
FlagMeansConnected == s_mqtt_connected => state = "CONNECTED"

(* What the handler re-publishes from s_cached_json, which the MQTT task   *)
(* writes with no lock, is a text it was given, never two of them mixed.   *)
CacheIntact == \A i \in DOMAIN outbox : outbox[i].load # JsonOf(Torn)

(* A reading stored while the MQTT task is busy publishing is not missed:  *)
(* its notification is still to come or is pending.                        *)
NoLostWakeup ==
  latest > json => notified \/ spc = "stored" \/ ppc = "pull"

(* The last JSON for which app_mqtt_publish_data returns true.             *)
Accepted == IF ppc \in {"copy", "copied"} THEN json ELSE cache.len

(* That JSON is at the broker, or on the wire, or the handler will publish *)
(* it on the next connection, whatever happens to the outbox.              *)
AcceptedNotLost ==
  Accepted > 0 =>
    \/ Accepted \in got
    \/ \E p \in Range(wire) : p.load = JsonOf(Accepted)
    \/ state # "CONNECTED" \/ net = "down" \/ cpc = "republish"

(* While the connection lasts, the broker has the subscription to the      *)
(* control topic or is about to get it, on every connection anew.          *)
SubscriptionRenewed ==
  state = "CONNECTED" /\ net = "up" /\ cpc = "loop" =>
    subscribed \/ \E p \in Range(wire) : p.load = Sub

(* The promise of Gateway: JSONs are accepted in the order of the readings,*)
(* the broker gets none that shows no reading, and the last one accepted   *)
(* reaches it ("reconnect, re-publish").                                   *)
Promise == INSTANCE Gateway
           WITH Limit <- MaxReading, taken <- latest, accepted <- Accepted, received <- got

KeepsPromise == Promise!Spec

(* When the faults are over the application is connected for good.         *)
EventuallyConnected == <>[]s_mqtt_connected

(* The JSON of the last reading is kept for re-publication ("the last JSON *)
(* is cached and re-published after a reconnection, so no data is lost").  *)
LastJsonKept == ppc = "wait" /\ json > 0 => cache.len = json

=============================================================================
