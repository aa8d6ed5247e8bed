----------------------------- MODULE SensorTask -----------------------------
(***************************************************************************)
(* main/task_app_sensor.c: the whole turn of sensor_task's loop, DHT11,    *)
(* gas, ICM-20948 and the notification, in time.  The task feeds the task  *)
(* watchdog between the sensors, never inside one; Imu has the retries of  *)
(* the third.                                                              *)
(*                                                                         *)
(* elapsed is the most that can have passed, in milliseconds, since the    *)
(* last esp_task_wdt_reset.  Logging and tasks of higher priority are left *)
(* out of it.                                                              *)
(***************************************************************************)
EXTENDS Imu

VARIABLES
  phase,     \* of the loop: "boot", "dht", "gas", "imu", "notify" or "sleep"
  dht_try,   \* attempts of read_dht11
  elapsed

taskVars == <<vars, phase, dht_try, elapsed>>

WDT_TIMEOUT_MS == 5000         \* CONFIG_ESP_TASK_WDT_TIMEOUT_S
DHT_TRIES == 3

(* Times in milliseconds.  A transfer is given pdMS_TO_TICKS(100), which   *)
(* the driver takes as milliseconds: 100 is the most in either unit.       *)
TIMEOUT == 100
TRANSFER == 3      \* one that does not time out; the burst is the longest
DHT_READ == 26     \* 20 ms of start signal, 40 bits, interrupts off

TaskInit == Init /\ phase = "boot" /\ dht_try = 1 /\ elapsed = 0

Spend(ms) == elapsed' = elapsed + ms

(* An access of n transfers ends at the first that times out.              *)
Access(n) ==
  IF stuck \/ faults' # faults THEN TIMEOUT + (n - 1) * TRANSFER ELSE n * TRANSFER

-----------------------------------------------------------------------------
(* Before the loop, the task is not yet watched: esp_task_wdt_add.         *)
Boot ==
  /\ phase = "boot"
  /\ BootIcm \/ MagInit
  /\ phase' = IF pc' \in {"select", "absent"} THEN "dht" ELSE "boot"
  /\ UNCHANGED <<stuck, dht_try, elapsed>>

(* read_dht11 and the updates of temperature and humidity.                 *)
ReadDht ==
  /\ phase = "dht"
  /\ \/ phase' = "gas" /\ dht_try' = 1 /\ elapsed' = 0
     \/ /\ dht_try < DHT_TRIES
        /\ dht_try' = dht_try + 1
        /\ Spend(DHT_READ + 100)
        /\ UNCHANGED phase
  /\ UNCHANGED vars

(* read_mics5524 and its update.                                           *)
ReadGas ==
  /\ phase = "gas"
  /\ phase' = IF pc = "absent" THEN "notify" ELSE "imu"
  /\ elapsed' = 0
  /\ UNCHANGED <<vars, dht_try>>

(* The third sensor, in the steps of Imu: transfers, and the pauses after. *)
ImuSpends ==
  \/ (SelectData \/ ReadBurst \/ SelectSettings) /\ Spend(Access(1))
  \/ ReadSettings /\ Spend(3 * Access(1))
  \/ AgmtReturns /\ Spend(IF pc' = "select" THEN 20 ELSE 0)
  \/ Bypass /\ Spend(Access(8) + 17)
  \/ AddDevice /\ Spend(0)
  \/ WhoAmI /\ Spend(Access(1) + IF pc' = "reset" THEN 0 ELSE 10)
  \/ SoftReset /\ Spend(Access(1) + 20)
  \/ SetContinuous /\ Spend(Access(1))
  \/ MagEnter /\ Spend(0)
  \/ Poll /\ Spend(Access(1) + IF pc' = "data" THEN 0 ELSE 5)
  \/ Drop /\ Spend(0)
  \/ ReadData /\ Spend(Access(1))

ReadImu ==
  /\ phase = "imu"
  /\ ImuSpends
  /\ UNCHANGED <<stuck, phase, dht_try>>

StoreImu ==
  /\ phase = "imu" /\ Update /\ UNCHANGED stuck
  /\ phase' = "notify"
  /\ UNCHANGED <<dht_try, elapsed>>

(* The watchdog is fed, app_mqtt_notify_new_data, fed again, the sleep.    *)
NotifyAndSleep ==
  /\ phase = "notify"
  /\ phase' = "sleep"
  /\ elapsed' = 2000
  /\ UNCHANGED <<vars, dht_try>>

WakeUp ==
  /\ phase = "sleep"
  /\ phase' = "dht"
  /\ elapsed' = 0
  /\ UNCHANGED <<vars, dht_try>>

LoopStep ==
  Boot \/ ReadDht \/ ReadGas \/ ReadImu \/ StoreImu \/ NotifyAndSleep \/ WakeUp

Bus ==
  /\ Disturb \/ Stick \/ Release
  /\ UNCHANGED <<phase, dht_try, elapsed>>

TaskNext == LoopStep \/ Bus

TaskSpec == TaskInit /\ [][TaskNext]_taskVars /\ WF_taskVars(LoopStep)

-----------------------------------------------------------------------------
(* Properties *)

TaskTypeOK ==
  /\ TypeOK
  /\ phase \in {"boot", "dht", "gas", "imu", "notify", "sleep"}
  /\ dht_try \in 1..DHT_TRIES
  /\ elapsed \in Nat

(* No turn of the loop starves the task watchdog, although the retries of  *)
(* the ICM, of mag_init, of the polls and of the bypass fix can all fall   *)
(* into one turn and none of them feeds it.                                *)
WatchdogFed == elapsed <= WDT_TIMEOUT_MS

=============================================================================
