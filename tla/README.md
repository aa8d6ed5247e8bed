# TLA+ models of the ESP32-C3 gateway

The repository is the firmware of a small IoT gateway on an ESP32-C3: one core,
FreeRTOS, ESP-IDF. It reads three sensors, publishes them as JSON over
MQTT/WiFi, takes LED commands from MQTT and from a button, and repairs its own
connections. This directory holds TLA+ models of its application code (`main/`)
and of the parts of the libraries whose state that code depends on, TLC
configurations that check them, and proofs for TLAPS.

- [1 Inventory](#1-inventory): the components, their state, how they interact
- [2 What is hard](#2-what-is-hard)
- [3 Modules](#3-modules): how each corresponds to the code
- [4 Runs](#4-runs): what is checked, bounds, fairness, and what was found
- [5 Proofs](#5-proofs)
- [6 What is only model-checked](#6-what-is-only-model-checked)
- [7 What is not modelled](#7-what-is-not-modelled)
- [8 Plan](#8-plan)
- [9 Running it](#9-running-it)

## 1 Inventory

Paths are relative to the repository's root.

| component | state | operations | correct when |
|---|---|---|---|
| **Command channel** `main/task_app_cmd.c` | `s_cmd_queue` (10), the state of the task's switch | `app_send_command` (waits 100 ms), `app_send_command_nonblock`, the task that carries commands out | an accepted command is carried out once, in order; none is refused while there is room; every sender gets an answer |
| **LED** `main/bsp.c` over `espressif__led_strip` (RMT) | `s_led_state`, the pixel buffer, the RMT channel | `bsp_led_on/off/toggle`, `set_color`, `get_state` | the channel is never left enabled, calls return, the state says what the LED shows |
| **Button** `main/task_app_btn.c` | `s_button_queue` (5) | rising-edge ISR, task with 50 ms debounce that toggles the LED | a press toggles the LED |
| **Sensor data manager** `main/sensor_data_mgr.c` | `s_sensor_data` with valid flags and timestamps, a mutex | `update_temperature/humidity/gas/imu/mag_only`, `get_latest`, `get_json` | readers see untorn samples; the JSON shows exactly the fresh fields |
| **Sensor task** `main/task_app_sensor.c` | device handles, failure counts, `s_last_retry_ms` | a cycle every 2 s: DHT11, gas, ICM-20948 with its magnetometer, notify MQTT | data come from the right register bank; devices are registered once; a sensor that was lost comes back; the task watchdog is fed in time |
| **ICM-20948 driver** `managed_components/cybergear-robotics__icm20948` | `_last_bank`, the bank it thinks selected | `set_bank`, `get_agmt`, configuration | as above |
| **MQTT application** `main/task_app_mqtt.c` | `s_mqtt_connected`, `s_cached_json` and its length, a task notification | publisher loop, `app_mqtt_publish_data`, `app_mqtt_notify_new_data`, `mqtt_event_handler` | no notification missed; the flag is right; what was accepted arrives |
| **MQTT client** `managed_components/espressif__mqtt` | connection state, outbox, MQTT 5 counters, an API lock | its own task; publish, subscribe | QoS 1 |
| **WiFi manager** `main/task_app_wifi_manage.c` | `s_wifi_state`, the event group, `s_reconnect_attempt` | the event handler, which sleeps through its backoff; `app_wifi_is_connected`, `..._wait_for_connection` | reconnects for ever; flag and event group agree |
| **Task monitor** `main/task_monitor.c` | a table of tasks | register, unregister (no caller), report every 30 s | no entry read half-written; every task reported |
| **Startup** `main/app_main.c` | handles of the above | creates them in order | nothing is used before it is created; everything is started, with an access point or without |

Tasks and priorities: WiFi manager 5, the client's own task 5, MQTT publisher 4,
commands 3, sensors 2, button 2, monitor 1; the WiFi event handler runs in
ESP-IDF's event-loop task.

How they interact:

```
 key --ISR--> Button --------------------bsp_led_toggle-------+
                                                              v
 broker --MQTT_EVENT_DATA--> Command channel --bsp_led_*--> LED
   ^
   |   MQTT client <--publish / events--> MQTT application --get_json--+
   |        |                                  ^  notification         v
   +--TCP---+                                  |            Sensor data manager
            |                             Sensor task --update_*-------^
       WiFi manager                            |
                                          ICM-20948 + AK09916 (I2C), DHT11, ADC
```

- The command channel is called from `mqtt_event_handler`, that is in the
  client's task, which must not block.
- The LED is called from the command task and the button task, with no lock.
- The sensor store is shared by the sensor task and the MQTT task, under a mutex.
- `s_mqtt_connected` and `s_cached_json` are written in the MQTT task and read
  in the client's task, or the other way round, with no lock; a failing publish
  dispatches `MQTT_EVENT_DISCONNECTED` in the task that publishes.
- The MQTT client is started once, if WiFi is up within 60 s of boot. The event
  group of that wait is made by the WiFi task, not by `app_main`.
- The task monitor's table is written by `app_main` and read by the monitor, at
  the same priority and with no lock.

Vendored and not called: cJSON, eppp_link, the serial slave link, WebSocket,
WiFi-remote, SinricPro, i2cdev, BMP280. Not compiled: `blink_example_main.c`,
`task_app_mainbusiness.c`, `task_app_sensor_comm.c`. A program of its own:
`oneshot_read/`.

## 2 What is hard

`PROJECT.json` lists each hazard at its line, with the property that would catch
it. In groups:

- **Preemption with no lock.** LED calls of two tasks, the cached JSON, the
  connected flag: which interleavings exist depends on priorities and on where
  a task blocks.
- **Callbacks inside calls.** A publish in the connected handler may abort the
  connection and run the disconnected handler before it returns.
- **Sleeping handlers.** The WiFi handler sleeps up to 30 s in the event-loop
  task; what was queued behind it may be outdated when it is handled.
- **Partial failure.** A publish that fails leaves the message in the outbox; an
  outbox item expires; an I2C transfer that fails may have arrived; a device is
  registered and the step after it fails.
- **Cached state.** The register bank, the LED state, the last JSON.
- **Boundaries.** Full queues, 32-bit clock differences, the limit of the
  backoff shift, a counter that must not pass below zero, a text longer than its
  buffer.
- **Time.** Retries of three sensors between two resets of a 5 s watchdog; pauses
  shorter than a tick.
- **Order of creation.** What a task uses must be there when it first runs, which
  the priorities decide as much as `app_main` does.
- **Things that must happen eventually.** Reconnection of WiFi and MQTT,
  recovery of the magnetometer, an answer for a blocked sender, delivery of the
  last JSON, the end of the start.

## 3 Modules

Each component has a module; its variables carry the names of the code where
there is one. `PROJECT.json` maps each definition to the lines it translates.
Definitions whose comment begins "A mutant:" are wrong variants of the action
that follows them, kept to show that a property can fail; no `Next` uses one.

**`CmdService` / `CmdTask`.** `CmdService` is what the command channel
promises: accept or refuse, serve in order. `CmdTask` is the code: the FreeRTOS
queue, senders that block (`Block`, then `Unblock` by room or by timeout, with
the last look at the queue that `xQueueSend` takes), the MQTT handler that never
blocks, and the task's switch. A BSP call is two steps (`CallBsp`,
`BspReturns`), because it blocks while the frame is sent and commands keep
coming. The refinement maps the queue and the command being carried out to
`pending`: the service can therefore hold one command more than the queue.

**`Bsp`** (instance: `MCBsp`). A call is cut at every place where another task
can get in: after each byte of the pixel buffer, around `rmt_enable`, while the
frame is on the wire. `Runs` is the scheduler, fixed priorities on one core.
`Sets` and `Toggles` give each task the calls that its code makes (`Calls`): the command
task sets blue or switches off, the button task toggles gold.
`Enable` keeps the error path of `led_strip_refresh`, whose result `bsp.c`
ignores. `FrameDone` is the peripheral.

**`Button`.** The key moves, the contact bounces for less than the 50 ms delay
(`DelayEnds` waits for `Settled`, unless the key moved anew), each rising edge
queues an event if there is room. The LED call is one step here and taken apart
in `Bsp`.

**`SensorStore`.** Updates and `get_json`, one step per assignment that the code
makes, with the mutex. A sample is named by the true time of its update, and
`by` remembers which sample a timestamp belongs to: both exist only in the model,
so that a torn read can be seen. The clock is true time; the code has it modulo
`Wrap` = 2^32 ms, which is what `Fresh` computes with. `Snapshot` is what the store
promises those who share it, with no mutex and no order of stores: an update
replaces the fields of its sensor at one moment, by a sample that is not older, and
a reader gets the whole store as it was at one moment. `SensorStore` implements it
with `Held` (what is stored, or will be when the update that has the mutex is
through) and `Reading` (the copy, while the reader has it).

**`JsonBuf`** (instance: `MCJsonBuf`) takes `Render` of `SensorStore` apart into the
calls of `snprintf`. A piece of the text is its length; `snprintf` writes what
there is room for, a NUL, and returns the length it would have needed, which `pos`
grows by. `end` is one past the last byte written, `cut` says that a piece did not
fit. The pieces may have any lengths, the buffer any size above 1: the real text
is at most about 350 bytes and never fills its 512, but nothing in the code says
so.

**`MqttLink`.** Three threads. The sensor task stores and notifies; the MQTT
task pulls, checks the flag, publishes, and copies to the cache in two parts and
a length; the client task connects, runs the handler (`Republish`,
`PublishOnline`, `Subscribe`), reads acknowledgements, resends and retransmits,
expires outbox items and reconnects. The client's API lock is `LockFree`. A
broken connection (`net`) and the client's knowledge of it (`state`) are
different things; a write into a broken connection may succeed and be lost. JSON
texts are numbers of readings, a text mixed from two is `Torn`.
`Gateway` is what the publishing side promises: readings are taken, the last one
is accepted or not, the broker receives readings that were taken, and the last one
accepted is received unless a newer one is accepted. `MqttLink` implements it with
`latest`, `Accepted` (the cached length, or the JSON being copied) and the broker's
`got`. `ReconnectDelay` waits for the publisher: the two seconds of the reconnect
delay, with the lock free, are enough for a task of priority 4 to finish a
publish or a memcpy it has begun. That assumption is what `CacheIntact` rests
on (its mutant drops it and mixes two texts).

**`Wifi`.** The event loop's queue, the handler split at its `vTaskDelay`
(`OnDisconnected`, `Reconnect`), and a driver that may refuse or drop the
station at any time. An address may be reported for a connection that is already
lost, since DHCP runs elsewhere. Besides the agreement of bit and state, two
invariants say that the handler's chain of attempts neither breaks nor doubles:
`OneAttempt` (an idle station has exactly one attempt to come, any other none: the
driver is asked to connect once for each loss) and `AddressComing` (a station that joined is never left
without an address, or with one that the application will not hear of).

**`Startup`** extends `Wifi` by `app_main`: `Program` is what it makes and creates,
in the order of the code, `Needs` what must be there when each task first runs
(some of it the code checks for a null handle, and would then silently go without), `Runs` the scheduler (a task is created, and runs before `app_main` goes on
if its priority is higher). The WiFi task makes the event group first (`WifiBegins`)
and blocks in the driver (`WifiStarts`). The MQTT task waits for the bit:
`GotIp` is `OnGotIp` with what `xEventGroupSetBits` does to a waiting task, which
keeps the bits of that moment even if they are cleared before it runs;
`WaitEnds` is the end of the 60 s, after which the bit is looked at once more.

**`Monitor`** extends `Startup` by the table of `task_monitor.c`: `Create` is a step
of `app_main`, `Register` one store of `task_monitor_register`, `Report` a step of
the report loop. The two have the same priority and interleave everywhere;
`TableComplete` says that the table is right when `app_main` is through all the same.

**`Imu`.** The I2C traffic of the sensor task: the identity check and the
configuration (`CheckId`, `Configure`), then the cycle. The ICM's
registers are in banks; `last_bank` is the driver's cached idea of the selected
one, `bank` the truth. `SetBank` keeps the bank before it knows the write
succeeded; `get_agmt` runs all its steps and ORs their results (`err`);
`mag_enable_bypass` (`Bypass`) selects bank 0 behind the driver's back. Its four
register accesses are one step, which changes bank and bypass or not when it
fails. `mag_get_data` is `MagEnter` (throttled recovery), `Poll`, the bypass
"fix", `Drop` and `ReadData`. Any transfer may fail, and one that fails may have
arrived; `Disturb` is a chip that loses its bypass or its mode, `Stick` a bus that
fails every transfer until `Release`. After a recovery all four polls find no
data: their pauses of 5 ms are no whole tick at 100 Hz, so they are over before
the first measurement (`NotReady`), and the bypass fix that follows is what saves
the cycle. Cycles count the 10 s of the recovery (`waited`).

**`SensorTask`** is the whole loop around it, DHT11, gas, IMU, notification and
sleep, with the time since the last `esp_task_wdt_reset` (`elapsed`, at worst).
A transfer takes 3 ms or times out after 100; a pause takes its milliseconds; a
DHT read at most 26, with interrupts off. Logging and the tasks of higher priority
are not counted. They have 141 ms, the difference between the 4859 ms of the
theorem (`CodeBudget`) and the 5 s of the watchdog: a cycle with every retry in it is nearly
too long, and a second of preemption by WiFi would make the watchdog
report. It would only report, since `CONFIG_ESP_TASK_WDT_PANIC` is not set.

`CmdTask_proofs`, `Bsp_proofs`, `SensorStore_proofs` (with `JsonBuf`), `Imu_proofs`,
`SensorTask_proofs`, `Wifi_proofs` (with `Startup` and `Monitor`), `MqttLink_proofs` (with
`Gateway`) and `Button_proofs` hold the proofs.

## 4 Runs

| run | shows | bounds | distinct states |
|---|---|---|---|
| `cmd_task` | `CmdTask` implements `CmdService`, its fairness included; a blocked sender is answered | 2 waiting senders, the MQTT handler, a queue of 3 | 63 thousand |
| `bsp` | the RMT channel is never left enabled; every LED call returns | command task: blue and off; button task: toggle gold | 2.3 thousand |
| `bsp_shared` | *violation*: `s_led_state` is wrong about the LED | same | |
| `sensor_store` (`MCJsonBuf`) | implements `Snapshot`; untorn copies, exactly the fresh fields; no write past the buffer, no cut text returned | one scalar, IMU, magnetometer; clock 0..3, threshold 2, wrap 3; a buffer of 7 for pieces of 1 and 6 | 2.4 million |
| `mqtt_link` | implements `Gateway`: the last accepted JSON is delivered; flag, cache, notification, re-publication, subscription; connected in the end | 2 readings, 1 fault, receive maximum 1; a retransmission with at most 2 other packets on their way | 573 thousand |
| `mqtt_link_offline` | *violation*: a JSON made while offline is not kept | same | |
| `wifi` (`Monitor`) | needs met, no connection missed, entries whole; table complete; bit and state agree, exactly one attempt to come for an idle station, an address is never forgotten; everything started and every task reported in the end; connected if served | 7 losses | 513 thousand |
| `wifi_backoff` (`Wifi`) | *violation*: the first retry waits 1 s | 8 losses | |
| `button` | a release is not forgotten and toggles the LED | 3 presses, 3 bounces each, a queue of 2 | 2.5 thousand |
| `button_bounce` | *violation*: two toggles for one press | 1 press, 1 bounce, a queue of 5 | |
| `imu` (`SensorTask`) | right bank, one registration per handle, watchdog fed, sensors recover | the attempts of the code (3, 5, 8, 4; DHT 3), 4 faults, 4 cycles for 10 s; configuration without failures | 1.75 million |
| `imu_config` (`Imu`) | *violation*: first sample from bank 2 | 5 faults, any of them in the configuration | |

Why the bounds are enough:

- `cmd_task`: the queue is filled and drained, a waiting sender is overtaken by
  another and by the MQTT handler, and both wait at once. The proof covers any
  length and any senders.
- `bsp`: the firmware has exactly these two callers, with these calls. Two colours and
  dark tell mixed frames apart. The proof covers any tasks, priorities and calls.
- `sensor_store`: scalars are independent of each other; one of them, and the IMU
  that shares its timestamp with the magnetometer, meet every kind of update.
  The clock wraps once, at 3, so ages are taken within a turn and across its end,
  younger than the threshold and equal to it (the mutant of `FreshOnly` is right
  until the wrap). A field not updated for a whole turn (49.7 days) counts as fresh
  again for 30 s, since an expired field keeps its flag: `FreshOnly` excepts it and
  says so.
- `mqtt_link`: one fault at any place (a refused connection, a lost one, or
  a DISCONNECT), with the outbox full past the receive maximum, is what each
  property needs several steps to break; each has a mutant it refutes here.
  Two readings give an old text and a new one. A retransmission may find the first copy,
  or its acknowledgement, still on the way; without a bound on the packets on their way
  (`MaxOnWay`) there would be any number of copies.
- `sensor_store`, the buffer: the pieces fall short of, reach and pass the last
  byte and the one before it; the longest text of short pieces just fits.
- `wifi`: 7 losses are one more than the limit of the shift, and can fall anywhere
  in the start; the 60 s may end at any time, which is more than the code allows.
- `button`: 3 bounces per movement and a queue of 2 overflow the queue; the real
  length is 5, and more bounces would be needed to fill it.
- `imu`: four faults, but each may be a bus that sticks for as long as it likes, so
  every loop can fail to its last attempt, and so can several of them in one turn;
  faults are disturbances as well, so a bypass is lost in the middle of a recovery.

**Fairness.** Weak fairness of a task's steps: FreeRTOS runs a ready task of
the highest priority and every task of the gateway blocks in each turn of its
loop. In `Bsp` it is strong fairness, since a task of lower priority is enabled
again and again while the other waits for the wire and not continuously. The
peripheral ends a frame, a sleep ends, the broker reads what is written. No
fairness is assumed of faults, of the user, of new readings, of `Expire` or
of retransmission, nor of the release of a stuck bus (`SensorsRecover` says what
happens if it is released for good). In `Monitor` none is assumed of the access
point: `AllStarted` and `AllReported` hold without one, and `ConnectedIfServed`
has the fairness of joining and addressing as its hypothesis (`Served`). Faults are finitely many in all runs (a bound); liveness says
what happens when they are over.

**Deadlock** is checked in every run. `Rest` (`MqttLink`), `Idle` (`Button`),
`Stay` (`Wifi`) and `Disabled` (`Imu`) are stuttering steps with full conditions: the state in which
nothing is left to do. Any other state without a successor is reported.

**What was found.** Each violation is a statement of the repository that its code
does not keep; `PROJECT.json` quotes both.

1. `wifi_backoff`: the attempt is counted before it is used as the shift, so
   the documented 500 ms never occurs.
2. `bsp_shared`: the command task switches the LED off; while its frame is on the wire
   the button is pressed, `s_led_state` is 0 and gold is asked for; the refresh finds the
   channel enabled and fails unseen, and `s_led_state` is set to 1 all the same. The LED
   is dark, and the next press will switch it off. (The reverse, a lit LED with state 0,
   is reached as well: it takes, for instance, a second "on" command and a press.)
3. `button_bounce`: every edge is queued and each waits its own 50 ms; the
   delay separates the toggles and does not merge the bounces.
4. `mqtt_link_offline`: `app_mqtt_publish_data` returns before the cache when
   disconnected, so the last reading taken offline is not re-published.
5. `imu_config`: a bank stored before it is selected, and configuration results
   nobody looks at. It takes a failed write at the end of the configuration and
   five failed attempts of the bypass; then the first burst comes from bank 2,
   and is accepted since its selection was skipped. The next cycle is right
   again. Without a failure in the configuration it cannot happen (theorem
   `BankRight`).

Seen while modelling, with no run of their own, since no property of state is
involved: `main/task_app_mqtt.c:191` speaks of a watchdog of 15 s, `sdkconfig:1564`
says 5; `main/app_main.c:46` of sensors every 5 s, the loop sleeps 2;
`main/task_app_sensor.c:466` says "just stop trying" of a DHT11 that fails, and goes
on trying; `main/task_monitor.c:70` says `sizeof(StackType_t) == 4`, on
ESP-IDF's RISC-V port it is 1 and the product is right for that reason.

## 5 Proofs

TLAPS checks the theorems of `PROJECT.json` for every value of the constants, from
the named assumptions in the modules (and no others, except where a theorem states
one).

**`CmdTask_proofs`.** `TypeCorrect`: the queue never exceeds its length, for any
set of senders and any length. `ServiceSafety`: initial states and steps of
`CmdTask` are those of `CmdService`. The invariant is `TypeOK /\ InBspServes`:
a BSP call is under way only for a known command. Without it the command that is
being served could not be told from none, and `BspReturns` would not be a `Serve`.
`CarriedExactlyOnce` says the same with two history variables, which follow every
step and hinder none: what was accepted is what was carried out, then what is in
hand, then the queue, and the LED was last asked what the last known command
carried out says.

**`Bsp_proofs`.** `TypeCorrect`, and `ChannelSafe`: the channel is enabled exactly
while one call is between its enabling and disabling, for any tasks, priorities
and colours. `ChannelOwned` is inductive together with `TypeOK`. The
scheduler is not needed: the property holds for every interleaving of the steps,
so it does not depend on the priorities. `SerialCallsMatch` is the other side of the
run `bsp_shared`: as long as no call begins during another (`NoOverlap`), the state
tells what the LED shows, so a lock around the calls is all that is missing. The
invariant follows one call through its places: what is in the pixel buffer, on the
wire and shown, and that none of the error paths of `led_strip_refresh` is taken.
`SingleCallerMatches` has the case of one task, where `NoOverlap` always holds.

**`SensorStore_proofs`.** `TypeCorrect`, `NeverTorn`, `MagNeverOlder`. The invariant is
in four parts: types; the mutex
(who holds it is where, so that writer and reader exclude each other); the store
(outside an update each valid field's value and timestamp belong together; inside
one, which parts the pending update has written); the copy (what the store
said when it was copied, the clock read after it). `NotTorn` alone says nothing
of the store that will be copied next, and is not inductive.
From the same invariant, `StoreIsRegister`: the moment of an update is the taking of
the mutex and that of a read the copy; that no sample replaces a newer one, although
a sample is taken before the mutex is waited for, is since there is one writer.
Four theorems on what is fresh. `FreshByTheClock`: exactly the fields whose age modulo
`Wrap` is below the threshold are shown, and for ages below one wrap that is their age.
From it, also across wraps, `FreshNotHidden` (a young field is always shown) and
`OnlyFreshShown` (an old one is not, unless it is older than a whole turn of the
clock). `OldHiddenAtFirst` drops that exception while `MaxTime < Wrap`.
`JsonRefinesStore` makes `JsonBuf` an implementation of `SensorStore`; `BufferHolds`
and `TextIsWhole` rest on the invariant that, as long as the text is not `Full`,
`end` is at most `pos + 1` and nothing was cut, and otherwise that it is at most
`buf_len`.

**`Imu_proofs`.** `TypeCorrect` (no loop attempts more than its limit),
`MagOwned`, and `BankRight` under `ConfigOk`. For the ownership the invariant adds
which places have a handle (`HandleInv`). For the bank it says where the driver
may be wrong about bank 0: only between a selection of it that failed and that of
bank 2 for the settings, and then an error is pending, so that the burst is not
accepted (`BankInv`). The argument is the reason why `get_agmt` may not return at
its first error: the second selection is what makes the driver right again.
`BankRecovers` drops `ConfigOk` and so tells how far the finding of `imu_config` goes:
after the first reading, wherever the configuration left the driver, every stored
acceleration is of bank 0. A reading that is accepted ends with the driver thinking bank 2
selected (its first half), and from there `BankInv` holds.

**`SensorTask_proofs`.** The four theorems again for the timed loop, each of whose
steps is one of `Imu` or leaves its variables alone; and the time. `TurnMost` is an
expression in the four limits: what the longest turn of the third sensor takes.
`TimeBetweenResets`: for any limits and any number of faults, `elapsed` is at most that
or the 2 s of the sleep. The invariant bounds `elapsed` at every place of the turn by
the worst path to it: the attempts made so far, and the loops that can have gone before.
`WatchdogHolds`: if `TurnMost` is at most 5 s, the watchdog is fed in time, and
`WatchdogHoldsInCode`: it is, with the limits of the code. The
worst turn is three failed reads of the ICM, a recovery whose loops all succeed at
their last attempt, four polls without data, a fix that succeeds at its last attempt,
and no data again: 4859 ms. `CodeBudget` has the price of more attempts: one more look
at WHO_AM_I would fit (110 ms), one more poll, bypass or read of the ICM would not.

**`Wifi_proofs`.** `StartRefinesWifi` (a step of `Monitor` is one of `Startup`, and
that is one of `Wifi`, or a stutter), then the invariants of `Wifi`, for any number of
losses. `BitMatchesState` is not inductive: `OnStart` sets the state alone. `Early`
adds that `STA_START` is the first event there is. `OneAttemptAtATime` and
`JoinedIsAnnounced` hold by one invariant: the driver reports a loss only of a station
that was not idle, and then nothing is queued or slept for that would connect it once
more; so the handler of a disconnection, with which DHCP stops, never runs for a
station that has joined again. `BackoffSteps` has the only durations there are: 1, 2, 4,
8, 16 and 30 s. `NothingMissing` rests on
`Booted`: what `app_main` has passed exists, and it passes the creation of the WiFi
task only when that task has blocked, thus made the event group; `NoConnectionMissed`
on `Heard`, which says of each place of the MQTT task whether it has seen the bit;
`EntriesAlwaysWhole` on `TableInv`: what is counted is whole, and of the entry
being made the fields that are behind `entering` are. `TableGetsComplete` adds
(`Filled`) how many tasks are counted behind each step of `app_main`, and that each is in
the slot of its turn.

**`MqttLink_proofs`.** All six invariants, for any numbers of readings, faults,
outbox items and unacknowledged publishes, and `ImplementsGateway`: every step of the
link is a step of `Gateway` or a stutter. The invariant `LinkInv` adds to the six
that what is queued or on the wire is the text of a reading that was taken
(`OnlyKnown`), that a notification or a publish has a reading behind it (`Begun`),
that the JSON in hand is not newer than the store and not older than the cache
(`InOrder`), which part of the cache is written (`CacheWritten`), and that the
publisher is not amid a publish or a copy when the client reconnects (`Calm`).

**`Button_proofs`.** `ButtonTypeCorrect` and `ReleaseNotForgotten`, which is inductive
together with it. How wrong the debounce can be, for any numbers of presses and bounces:
`TogglesPerPress` bounds the toggles by `2 * MaxBounces + 1` for each press, counting
those to come in the queue and in the bounces left; `CleanContact` has the
case without bounces, where `OneTogglePerPress` is true after all.

## 6 What is only model-checked

Everything about liveness, and refinement of fairness: liveness under fairness and
`ENABLED` are outside the prover's reach. These are `WaiterAnswered` and the fairness in
`ServiceSpec`, `CallReturns`, the `Delivery` of `KeepsPromise`, `EventuallyConnected`,
`ConnectedIfServed`, `AllStarted`, `AllReported`, `ReleaseToggles` and
`SensorsRecover`; the safety part of `ServiceSpec` and `KeepsPromise` is proved.
Recursive computations over all inputs are outside its reach as well; the models that
have proofs use none.

Every invariant that a run checks and holds is also proved, and so is
`ReadsAreSnapshots`. `MagNotOlder` is proved and no run checks it, since what
`Snapshot` says of the fields that are updated together implies it. One theorem has
an assumption that the runs have too: `RightBank` if the configuration meets no
failure. What holds without it (`BankRecovers`) is proved beside it.
`NoOverlap` is no assumption about the code but what the code does not ensure.

## 7 What is not modelled

- The values of the sensors: DHT11 and gas reads succeed or fail and take time. The
  bits of the DHT11 and its checksum are left out.
- What the configured registers of the ICM say: only the bank that the configuration
  leaves. That it may leave the chip asleep or at other scales is a listed hazard.
- The serial interface of the ICM driver: `serif` is a local of a block whose
  address is used after the block. That is undefined in C and works or not with
  the layout of the stack; no model can tell. Listed as a hazard.
- `app_send_command` has no caller in the compiled program (`mqtt_event_handler` uses
  `app_send_command_nonblock`): it is modelled as the interface it is, with senders that
  wait. `task_monitor_unregister`, which has no caller either, and the figures of the report.
- The longest wait of the MQTT task inside a publish, which is the TCP stack's, against
  the watchdog: listed as a hazard.
- Failures of memory or of a creation at boot: they abort, or are logged and leave the
  rest as it is.
- In `Startup` nothing but the WiFi task's own calls delays it before it has made
  the event group; a console that blocks its first log line would.
- QoS 0 and 2, MQTT 3.1.1, TLS, stop and reconfiguration of the client; in
  `MqttLink` keepalive, poll and read errors are one action, `NoticeLoss`.
- The bulk of the repository by lines is vendored and not called: cJSON, WiFi-remote
  headers for a dozen ESP-IDF versions, SinricPro, WebSocket, the DMP and FIFO half of the
  ICM driver. Of the code that the program consists of, all of `main/` that is compiled is
  modelled, and of the libraries what keeps state that `main/` depends on.
- WiFi driver, DHCP, broker, FreeRTOS, RMT peripheral: external, from how the code
  uses them, and marked so in `PROJECT.json`.

## 8 Plan

Done, in this order: the command channel with its abstract service, the LED, the
sensor store, the MQTT link, WiFi, the button, the IMU; then the timed sensor task,
the text buffer, the start, the task monitor, the promise of the gateway with its
refinement, the register that the sensor store is, and the proofs of all invariants,
of the safety part of the three refinements, and of what the code does keep where a
run shows that it does not keep what is written.

What could follow:

1. Proofs of `CallReturns` as a safety property (no place from which a call cannot
   go on), the nearest to liveness that the prover can do.
2. `CmdTask`, `Button` and `Bsp` composed. The calls of both tasks are in `Bsp` already,
   in any order, so what it would add is which calls are lost to `bsp_shared`.
3. The configured registers of the ICM as values, to state what a failed
   configuration publishes.

## 9 Running it

```
tlc -workers 2 -config MqttLink.cfg MqttLink     # a run: see PROJECT.json
tlapm Imu_proofs.tla                             # the proofs of a module
```

`mqtt_link` and `imu` take a minute and a half on two cores, `sensor_store` and `wifi` about
a minute,
the other runs a few seconds to half a minute each. `MqttLink_proofs` and
`SensorTask_proofs` take tlapm a few minutes.
