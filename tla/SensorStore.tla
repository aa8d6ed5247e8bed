---------------------------- MODULE SensorStore ----------------------------
(***************************************************************************)
(* main/sensor_data_mgr.c: the sensor values shared by the sensor task,    *)
(* which updates them, and the MQTT task, which copies them and renders    *)
(* the fresh ones as JSON.  One mutex guards them.                         *)
(*                                                                         *)
(* A sample is named by the time at which its update was called.  Times    *)
(* are true times, in ticks; the code only has them modulo Wrap (a         *)
(* uint32_t of milliseconds), which is what Age computes with.             *)
(***************************************************************************)
EXTENDS Integers

CONSTANTS
  Scalars,   \* temperature, humidity and gas: value, valid flag, timestamp
  Stale,     \* STALE_THRESHOLD_MS
  Wrap,      \* 2^32 ms
  MaxTime    \* bound: how long the device runs

ASSUME ScalarsAssumption == "imu" \notin Scalars /\ "mag" \notin Scalars
ASSUME TimesAssumption ==
  /\ Stale \in Nat /\ Wrap \in Nat /\ MaxTime \in Nat
  /\ 0 < Stale /\ Stale < Wrap

Timed == Scalars \cup {"imu"}     \* the fields with a timestamp
Fields == Timed \cup {"mag"}      \* the magnetometer shares that of the IMU

VARIABLES
  time,      \* true time
  s_sensor_data,
  s_data_mutex,   \* who holds it: "writer", "reader" or "free"
  wpc,       \* place of the sensor task in an update
  job,       \* the update: its field, its sample, and mag_valid for "imu"
  rpc,       \* place of the MQTT task in sensor_data_mgr_get_json
  data,      \* its copy of s_sensor_data, a local variable
  now_ms,    \* its reading of the clock
  json       \* the fields it rendered

vars == <<time, s_sensor_data, s_data_mutex, wpc, job, rpc, data, now_ms, json>>

Time == 0..MaxTime

(* value: the sample held; ts: the timestamp; by: the sample whose update  *)
(* wrote the timestamp, which the code does not keep.                      *)
Store == [value : [Fields -> Time], valid : [Fields -> BOOLEAN],
          ts : [Timed -> Time], by : [Timed -> Time]]
Blank == [value |-> [f \in Fields |-> 0], valid |-> [f \in Fields |-> FALSE],
          ts |-> [f \in Timed |-> 0], by |-> [f \in Timed |-> 0]]

Init ==
  /\ time = 0
  /\ s_sensor_data = Blank
  /\ s_data_mutex = "free"
  /\ wpc = "idle"
  /\ job = [field |-> "imu", sample |-> 0, mag |-> FALSE]
  /\ rpc = "idle"
  /\ data = Blank
  /\ now_ms = 0
  /\ json = {}

Tick ==
  /\ time < MaxTime
  /\ time' = time + 1
  /\ UNCHANGED <<s_sensor_data, s_data_mutex, wpc, job, rpc, data, now_ms, json>>

-----------------------------------------------------------------------------
(* sensor_data_mgr_update_*: lock, value, valid flag, timestamp, unlock.   *)

reader == <<rpc, data, now_ms, json>>

Call(f, mag) ==
  /\ wpc = "idle"
  /\ wpc' = "lock"
  /\ job' = [field |-> f, sample |-> time, mag |-> mag]
  /\ UNCHANGED <<time, s_sensor_data, s_data_mutex, reader>>

LockForUpdate ==
  /\ wpc = "lock"
  /\ s_data_mutex = "free"
  /\ s_data_mutex' = "writer"
  /\ wpc' = "value"
  /\ UNCHANGED <<time, s_sensor_data, job, reader>>

(* A mutant: update_imu leaves the magnetometer fields when it was not     *)
(* read.                                                                   *)
WrittenWhenRead ==
  IF job.field = "imu" /\ job.mag THEN {"imu", "mag"} ELSE {job.field}

(* What an update writes: update_imu also writes the magnetometer fields.  *)
Written == IF job.field = "imu" THEN {"imu", "mag"} ELSE {job.field}

WriteValue ==
  /\ wpc = "value"
  /\ s_sensor_data' = [s_sensor_data EXCEPT
       !.value = [f \in Fields |-> IF f \in Written THEN job.sample ELSE @[f]]]
  /\ wpc' = "valid"
  /\ UNCHANGED <<time, s_data_mutex, job, reader>>

(* update_mag_only leaves the IMU's flag and timestamp alone.              *)
WriteValid ==
  /\ wpc = "valid"
  /\ s_sensor_data' = [s_sensor_data EXCEPT
       !.valid = [f \in Fields |->
          IF f \in Written THEN f = "mag" /\ job.field = "imu" => job.mag
          ELSE @[f]]]
  /\ wpc' = IF job.field \in Timed THEN "ts" ELSE "unlock"
  /\ UNCHANGED <<time, s_data_mutex, job, reader>>

(* A mutant: the time at which the sample goes stale is kept instead.      *)
WriteExpiry ==
  /\ wpc = "ts"
  /\ s_sensor_data' = [s_sensor_data EXCEPT
       !.ts[job.field] = time + Stale, !.by[job.field] = job.sample]
  /\ wpc' = "unlock"
  /\ UNCHANGED <<time, s_data_mutex, job, reader>>

WriteTimestamp ==
  /\ wpc = "ts"
  /\ s_sensor_data' = [s_sensor_data EXCEPT
       !.ts[job.field] = time, !.by[job.field] = job.sample]
  /\ wpc' = "unlock"
  /\ UNCHANGED <<time, s_data_mutex, job, reader>>

UnlockAfterUpdate ==
  /\ wpc = "unlock"
  /\ s_data_mutex' = "free"
  /\ wpc' = "idle"
  /\ UNCHANGED <<time, s_sensor_data, job, reader>>

Update ==
  \/ \E f \in Fields : Call(f, FALSE)
  \/ Call("imu", TRUE)
  \/ LockForUpdate \/ WriteValue \/ WriteValid \/ WriteTimestamp \/ UnlockAfterUpdate

-----------------------------------------------------------------------------
(* sensor_data_mgr_get_json.  Its task has the higher priority, so the     *)
(* memcpy is not interleaved with an update; an update may be cut by it.   *)

writer == <<s_sensor_data, wpc, job>>

(* A mutant: the clock is read before the copy is made.                    *)
AfterClockFirst ==
  [idle |-> "clock", clock |-> "lock", lock |-> "copy", copy |-> "unlock",
   unlock |-> "render", render |-> "return"]

(* The order of its steps.                                                 *)
After ==
  [idle |-> "lock", lock |-> "copy", copy |-> "unlock", unlock |-> "clock",
   clock |-> "render", render |-> "return"]

Ask ==
  /\ rpc = "idle"
  /\ rpc' = After.idle
  /\ UNCHANGED <<time, writer, s_data_mutex, data, now_ms, json>>

(* A mutant: the copy is made without the mutex.                           *)
NoLock ==
  /\ rpc = "lock"
  /\ rpc' = After.lock
  /\ UNCHANGED <<time, writer, s_data_mutex, data, now_ms, json>>

LockForCopy ==
  /\ rpc = "lock"
  /\ s_data_mutex = "free"
  /\ s_data_mutex' = "reader"
  /\ rpc' = After.lock
  /\ UNCHANGED <<time, writer, data, now_ms, json>>

Copy ==
  /\ rpc = "copy"
  /\ data' = s_sensor_data
  /\ rpc' = After.copy
  /\ UNCHANGED <<time, writer, s_data_mutex, now_ms, json>>

UnlockAfterCopy ==
  /\ rpc = "unlock"
  /\ s_data_mutex' = "free"
  /\ rpc' = After.unlock
  /\ UNCHANGED <<time, writer, data, now_ms, json>>

ReadClock ==
  /\ rpc = "clock"
  /\ now_ms' = time
  /\ rpc' = After.clock
  /\ UNCHANGED <<time, writer, s_data_mutex, data, json>>

(* A mutant: the clock is compared with the time of expiry, which is right *)
(* until it wraps.                                                         *)
FreshBeforeExpiry(f) ==
  data.valid[f] /\ now_ms % Wrap < (data.ts[f] % Wrap) + Stale

(* now_ms - data.x_ts < STALE_THRESHOLD_MS, in uint32_t.                   *)
Fresh(f) ==
  data.valid[f] /\ ((now_ms % Wrap) - (data.ts[f] % Wrap)) % Wrap < Stale

Render ==
  /\ rpc = "render"
  /\ json' = {f \in Timed : Fresh(f)}
       \cup {f \in {"mag"} : Fresh("imu") /\ data.valid["mag"]}
  /\ rpc' = After.render
  /\ UNCHANGED <<time, writer, s_data_mutex, data, now_ms>>

Return ==
  /\ rpc = "return"
  /\ rpc' = "idle"
  /\ data' = Blank
  /\ now_ms' = 0
  /\ json' = {}
  /\ UNCHANGED <<time, writer, s_data_mutex>>

(* The text does not fit into the buffer: it returns -2.                   *)
TooLong ==
  /\ rpc = "render"
  /\ rpc' = "idle"
  /\ data' = Blank
  /\ now_ms' = 0
  /\ UNCHANGED <<time, writer, s_data_mutex, json>>

GetJson ==
  \/ Ask \/ LockForCopy \/ Copy \/ UnlockAfterCopy
  \/ ReadClock \/ Render \/ Return \/ TooLong

Next == Tick \/ Update \/ GetJson

Spec == Init /\ [][Next]_vars

-----------------------------------------------------------------------------
(* Properties *)

TypeOK ==
  /\ time \in Time
  /\ s_sensor_data \in Store
  /\ s_data_mutex \in {"free", "writer", "reader"}
  /\ wpc \in {"idle", "lock", "value", "valid", "ts", "unlock"}
  /\ job \in [field : Fields, sample : Time, mag : BOOLEAN]
  /\ rpc \in {"idle", "lock", "copy", "unlock", "clock", "render", "return"}
  /\ data \in Store
  /\ now_ms \in Time
  /\ json \subseteq Fields

(* Each value in the copy goes with the timestamp of its own sample,       *)
(* however the copy and the updates are interleaved.                       *)
NotTorn == \A f \in Timed : data.valid[f] => data.value[f] = data.by[f]

(* Staleness: no field older than the threshold is in the JSON ("expired   *)
(* fields are not output"), also when the clock has wrapped since the      *)
(* field was updated.  A field left alone for a whole turn of the clock is *)
(* excepted: it keeps its flag, and passes for fresh once in each turn.    *)
FreshOnly ==
  rpc = "return" =>
    \A f \in json \cap Timed :
      now_ms - data.ts[f] < Stale \/ now_ms - data.ts[f] >= Wrap

(* And no valid field that is younger is left out of it.                   *)
FreshKept ==
  rpc = "return" =>
    \A f \in Timed : data.valid[f] /\ now_ms - data.ts[f] < Stale => f \in json

(* The magnetometer has no timestamp: what update_imu and update_mag_only  *)
(* do to its flag is what keeps it from being shown with a later IMU       *)
(* sample than its own.                                                    *)
MagNotOlder ==
  rpc = "return" /\ "mag" \in json => data.value["mag"] >= data.value["imu"]

(* An update takes effect when it has the mutex: what it has still to      *)
(* write is counted as written.                                            *)
Held ==
  LET pending == IF wpc \in {"value", "valid", "ts", "unlock"} THEN Written ELSE {} IN
  [value |-> [f \in Fields |->
     IF f \in pending THEN job.sample ELSE s_sensor_data.value[f]],
   valid |-> [f \in Fields |->
     IF f \in pending THEN f = "mag" /\ job.field = "imu" => job.mag
     ELSE s_sensor_data.valid[f]]]

Reading ==
  IF rpc \in {"unlock", "clock", "render", "return"}
  THEN {[value |-> data.value, valid |-> data.valid]} ELSE {}

Snapshots == INSTANCE Snapshot WITH Samples <- Time, held <- Held, reading <- Reading

(* The store is a register that is written and read at one moment each,    *)
(* although a write is up to three stores and may be preempted by a reader *)
(* between any two of them, and updates get older while they wait.         *)
ReadsAreSnapshots == Snapshots!Spec

=============================================================================
