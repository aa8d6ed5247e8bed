--------------------------------- MODULE Imu ---------------------------------
(***************************************************************************)
(* main/task_app_sensor.c, the ICM-20948 and the magnetometer (AK09916)    *)
(* behind it: what the sensor task does on the I2C bus from WHO_AM_I on,   *)
(* cycle after cycle.  The ICM's registers are in banks; its driver keeps  *)
(* the bank it last selected and skips a selection it thinks is in force,  *)
(* while mag_enable_bypass selects banks behind its back.  The             *)
(* magnetometer answers only while the ICM's bypass is on.                 *)
(*                                                                         *)
(* Any transfer may fail, and one that fails may have arrived; while the   *)
(* bus is stuck all of them fail.                                          *)
(***************************************************************************)
EXTENDS Naturals, Sequences

CONSTANTS
  IcmTries,      \* attempts of read_icm20948: 3
  BypassTries,   \* of mag_enable_bypass: 5
  WiaTries,      \* of the WHO_AM_I check: 8
  DrdyTries,     \* polls of ST1: 4
  Throttle,      \* cycles that make the 10 s between recoveries
  ConfigOk,      \* no transfer fails while the ICM is configured
  MaxFaults      \* bound: failed transfers, disturbances, times the bus sticks

ASSUME TriesAssumption ==
  {IcmTries, BypassTries, WiaTries, DrdyTries} \subseteq Nat \ {0}
ASSUME BoundsAssumption ==
  Throttle \in Nat /\ ConfigOk \in BOOLEAN /\ MaxFaults \in Nat

VARIABLES
  bank,          \* the bank selected in the ICM
  bypass,        \* its BYPASS_EN
  mode,          \* of the magnetometer: "down" or "continuous"
  last_bank,     \* the driver's _last_bank; 4 is no bank
  s_mag_handle,  \* "NULL" or "dev"
  attached,      \* magnetometer devices registered with the I2C bus
  waited,        \* cycles since s_last_retry_ms, up to Throttle
  pc, tries,
  ctx,           \* who called: mag_init at "boot" or to "recover", or
                 \* mag_get_data to "read", and again after a bypass "fix"
  err,           \* an error so far in icm20948_get_agmt
  burst,         \* the bank its data were read from
  icm_ok, mag_ok,
  stuck,         \* a line of the bus is held down
  faults

chip == <<bank, bypass, mode>>
device == <<s_mag_handle, attached>>
result == <<icm_ok, mag_ok>>
vars == <<chip, last_bank, device, waited, pc, tries, ctx, err, burst, result, stuck, faults>>

(* The ICM is linked to its driver; a restart does not reset it.           *)
Init ==
  /\ bank \in {0, 2} /\ last_bank = 4
  /\ bypass \in BOOLEAN /\ mode \in {"down", "continuous"}
  /\ s_mag_handle = "NULL" /\ attached = 0
  /\ waited = 0
  /\ pc = "id" /\ tries = 1 /\ ctx = "boot"
  /\ err = FALSE /\ burst = 0
  /\ icm_ok = FALSE /\ mag_ok = FALSE
  /\ stuck = FALSE /\ faults = 0

Goto(place) == pc' = place /\ tries' = 1
Again(max) == tries < max /\ tries' = tries + 1 /\ pc' = pc
GiveUp(max) == tries >= max

Count == faults < MaxFaults /\ faults' = faults + 1
Quiet == UNCHANGED faults

(* A transfer that fails, and one that does not.                           *)
Fault == IF stuck THEN Quiet ELSE Count
NoFault == ~stuck /\ Quiet

-----------------------------------------------------------------------------
(* sensor_task configures the ICM.                                         *)

(* icm20948_check_id.  When the wrong bank answers, or nothing does, the   *)
(* IMU is disabled until the next restart.                                 *)
CheckId ==
  /\ pc = "id"
  /\ last_bank' = 0
  /\ \/ NoFault /\ bank' = 0 /\ Goto("config")
     \/ Fault /\ bank' \in {bank, 0} /\ Goto("absent")
     \/ Fault /\ ~stuck /\ bank' = 0 /\ Goto("config")
  /\ UNCHANGED <<bypass, mode, device, waited, ctx, err, burst, result>>

(* The banks that sleep, set_clock_source, set_full_scale, set_dlpf_cfg,   *)
(* enable_dlpf, set_sample_rate and set_sample_mode write in.              *)
ConfigBanks == <<0, 0, 2, 2, 2, 2, 0>>

(* One of these calls: it selects its bank, unless the driver thinks it    *)
(* selected, and its result is not looked at.                              *)
Configure ==
  /\ pc = "config"
  /\ LET b == ConfigBanks[tries] IN
     /\ last_bank' = b
     /\ \/ last_bank = b /\ Quiet /\ UNCHANGED bank
        \/ last_bank # b /\ NoFault /\ bank' = b
        \/ last_bank # b /\ ~ConfigOk /\ Fault /\ bank' \in {bank, b}
  /\ IF tries < Len(ConfigBanks)
     THEN tries' = tries + 1 /\ UNCHANGED pc
     ELSE Goto("bypass")
  /\ UNCHANGED <<bypass, mode, device, waited, ctx, err, burst, result>>

(* s_imu_present is false: no cycle reads the IMU.                         *)
Disabled == pc = "absent" /\ UNCHANGED <<chip, last_bank, device, waited, pc, tries, ctx,
                                         err, burst, result, faults>>

BootIcm == CheckId \/ Configure \/ Disabled

-----------------------------------------------------------------------------
(* read_icm20948: up to IcmTries calls of icm20948_get_agmt, whose steps   *)
(* all run, also after an error.                                           *)

(* icm20948_set_bank: the bank is kept before it is known to be selected.  *)
SetBank(b) ==
  \/ /\ last_bank = b
     /\ Quiet /\ UNCHANGED <<bank, last_bank, err>>
  \/ /\ last_bank # b
     /\ last_bank' = b
     /\ \/ NoFault /\ bank' = b /\ UNCHANGED err
        \/ Fault /\ bank' \in {bank, b} /\ err' = TRUE

Read ==
  \/ NoFault /\ UNCHANGED err
  \/ Fault /\ err' = TRUE

(* A mutant: it returns at the first error.                                *)
SelectDataOrReturn ==
  /\ pc = "select"
  /\ SetBank(0)
  /\ pc' = IF err' THEN "returned" ELSE "burst"
  /\ UNCHANGED <<bypass, mode, device, waited, tries, ctx, burst, result>>

SelectData ==
  /\ pc = "select"
  /\ SetBank(0)
  /\ pc' = "burst"
  /\ UNCHANGED <<bypass, mode, device, waited, tries, ctx, burst, result>>

ReadBurst ==
  /\ pc = "burst"
  /\ Read
  /\ burst' = bank
  /\ pc' = "reselect"
  /\ UNCHANGED <<chip, last_bank, device, waited, tries, ctx, result>>

SelectSettings ==
  /\ pc = "reselect"
  /\ SetBank(2)
  /\ pc' = "settings"
  /\ UNCHANGED <<bypass, mode, device, waited, tries, ctx, burst, result>>

ReadSettings ==
  /\ pc = "settings"
  /\ Read
  /\ pc' = "returned"
  /\ UNCHANGED <<chip, last_bank, device, waited, tries, ctx, burst, result>>

AgmtReturns ==
  /\ pc = "returned"
  /\ err' = FALSE
  /\ \/ /\ err /\ tries < IcmTries
        /\ tries' = tries + 1 /\ pc' = "select" /\ UNCHANGED icm_ok
     \/ /\ err /\ GiveUp(IcmTries)
        /\ icm_ok' = FALSE /\ Goto("mag")
     \/ /\ ~err
        /\ icm_ok' = TRUE /\ Goto("mag")
  /\ UNCHANGED <<chip, last_bank, device, waited, ctx, burst, mag_ok, faults>>

ReadIcm == SelectData \/ ReadBurst \/ SelectSettings \/ ReadSettings \/ AgmtReturns

-----------------------------------------------------------------------------
(* mag_enable_bypass and mag_init                                          *)

imu == <<last_bank, err, burst, icm_ok>>

(* mag_init returns false. *)
InitFails ==
  /\ Goto(IF ctx = "boot" THEN "select" ELSE "update")
  /\ mag_ok' = FALSE

(* One attempt: four direct accesses, each with its bank selection.        *)
Bypass ==
  /\ pc = "bypass"
  /\ \/ /\ NoFault
        /\ bank' = 0 /\ bypass' = TRUE
        /\ Goto(IF ctx = "fix" THEN "drdy" ELSE "add")
        /\ UNCHANGED mag_ok
     \/ /\ Fault
        /\ bank' \in {bank, 0}
        /\ bypass' \in IF bank' = 0 THEN {bypass, TRUE} ELSE {bypass}
        /\ \/ Again(BypassTries) /\ UNCHANGED mag_ok
           \/ GiveUp(BypassTries) /\ ctx = "fix" /\ Goto("drop") /\ UNCHANGED mag_ok
           \/ GiveUp(BypassTries) /\ ctx # "fix" /\ InitFails
  /\ UNCHANGED <<mode, imu, device, waited, ctx>>

AddDevice ==
  /\ pc = "add"
  /\ \/ /\ Quiet
        /\ s_mag_handle' = "dev" /\ attached' = attached + 1
        /\ Goto("wia") /\ UNCHANGED mag_ok
     \/ Count /\ InitFails /\ UNCHANGED device
  /\ UNCHANGED <<chip, imu, waited, ctx>>

RemoveDevice == s_mag_handle' = "NULL" /\ attached' = attached - 1

(* A transfer to the magnetometer does not get there without the bypass.   *)
Unanswered == IF bypass THEN Fault ELSE Quiet

(* A mutant: the device is not removed from the bus.                       *)
WhoAmILeaks ==
  /\ pc = "wia"
  /\ \/ NoFault /\ bypass /\ Goto("reset") /\ UNCHANGED <<device, mag_ok>>
     \/ /\ Unanswered
        /\ \/ Again(WiaTries) /\ UNCHANGED <<device, mag_ok>>
           \/ GiveUp(WiaTries) /\ s_mag_handle' = "NULL" /\ InitFails /\ UNCHANGED attached
  /\ UNCHANGED <<chip, imu, waited, ctx>>

(* A mutant: two more attempts.                                            *)
WhoAmIPatient ==
  /\ pc = "wia"
  /\ \/ NoFault /\ bypass /\ Goto("reset") /\ UNCHANGED <<device, mag_ok>>
     \/ /\ Unanswered
        /\ \/ Again(WiaTries + 2) /\ UNCHANGED <<device, mag_ok>>
           \/ tries > WiaTries + 1 /\ RemoveDevice /\ InitFails
  /\ UNCHANGED <<chip, imu, waited, ctx>>

WhoAmI ==
  /\ pc = "wia"
  /\ \/ NoFault /\ bypass /\ Goto("reset") /\ UNCHANGED <<device, mag_ok>>
     \/ /\ Unanswered
        /\ \/ Again(WiaTries) /\ UNCHANGED <<device, mag_ok>>
           \/ GiveUp(WiaTries) /\ RemoveDevice /\ InitFails
  /\ UNCHANGED <<chip, imu, waited, ctx>>

(* mag_write of CNTL3 and of CNTL2, whose results are not looked at.       *)
WriteMode(m) ==
  \/ bypass /\ NoFault /\ mode' = m
  \/ bypass /\ Fault /\ mode' \in {mode, m}
  \/ ~bypass /\ Quiet /\ UNCHANGED mode

SoftReset ==
  /\ pc = "reset"
  /\ WriteMode("down")
  /\ Goto("mode")
  /\ UNCHANGED <<bank, bypass, imu, device, waited, ctx, mag_ok>>

SetContinuous ==
  /\ pc = "mode"
  /\ WriteMode("continuous")
  /\ Goto(IF ctx = "boot" THEN "select" ELSE "drdy")
  /\ ctx' = IF ctx = "boot" THEN "read" ELSE ctx
  /\ UNCHANGED <<bank, bypass, imu, device, waited, mag_ok>>

MagInit == Bypass \/ AddDevice \/ WhoAmI \/ SoftReset \/ SetContinuous

-----------------------------------------------------------------------------
(* mag_get_data                                                            *)

MagEnter ==
  /\ pc = "mag"
  /\ \/ /\ s_mag_handle # "NULL"
        /\ Goto("drdy") /\ ctx' = "read" /\ UNCHANGED <<waited, mag_ok>>
     \/ /\ s_mag_handle = "NULL" /\ waited < Throttle
        /\ mag_ok' = FALSE /\ Goto("update") /\ UNCHANGED <<waited, ctx>>
     \/ /\ s_mag_handle = "NULL" /\ waited = Throttle
        /\ waited' = 0 /\ Goto("bypass") /\ ctx' = "recover" /\ UNCHANGED mag_ok
  /\ UNCHANGED <<chip, imu, device, faults>>

(* No data.  In continuous mode they are ready, unless the mode was set    *)
(* just now: the pauses of 5 ms between the polls are no whole tick, and   *)
(* all four are over before the first measurement.  The bypass "fix" and   *)
(* its logging take longer than that.                                      *)
NotReady == IF mode = "down" \/ ctx = "recover" THEN Quiet ELSE Unanswered

(* A mutant: one poll too many.                                            *)
PollOnceMore ==
  /\ pc = "drdy"
  /\ \/ NoFault /\ bypass /\ mode = "continuous" /\ Goto("data") /\ UNCHANGED ctx
     \/ /\ NotReady
        /\ \/ Again(DrdyTries + 1) /\ UNCHANGED ctx
           \/ tries > DrdyTries /\ ctx # "fix" /\ Goto("bypass") /\ ctx' = "fix"
           \/ tries > DrdyTries /\ ctx = "fix" /\ Goto("drop") /\ UNCHANGED ctx
  /\ UNCHANGED <<chip, imu, device, waited, mag_ok>>

Poll ==
  /\ pc = "drdy"
  /\ \/ NoFault /\ bypass /\ mode = "continuous" /\ Goto("data") /\ UNCHANGED ctx
     \/ /\ NotReady
        /\ \/ Again(DrdyTries) /\ UNCHANGED ctx
           \/ GiveUp(DrdyTries) /\ ctx # "fix" /\ Goto("bypass") /\ ctx' = "fix"
           \/ GiveUp(DrdyTries) /\ ctx = "fix" /\ Goto("drop") /\ UNCHANGED ctx
  /\ UNCHANGED <<chip, imu, device, waited, mag_ok>>

(* A mutant: the magnetometer is left registered, to be polled again.      *)
DropLater ==
  /\ pc = "drop"
  /\ mag_ok' = FALSE
  /\ Goto("update")
  /\ UNCHANGED <<chip, imu, device, waited, ctx, faults>>

(* Still no data after the fix: marked stale for full recovery.            *)
Drop ==
  /\ pc = "drop"
  /\ RemoveDevice
  /\ mag_ok' = FALSE
  /\ Goto("update")
  /\ UNCHANGED <<chip, imu, waited, ctx, faults>>

(* The transfer fails, or the sensor has overflowed.                       *)
ReadData ==
  /\ pc = "data"
  /\ \/ NoFault /\ bypass /\ mag_ok' = TRUE
     \/ Unanswered /\ mag_ok' = FALSE
  /\ Goto("update")
  /\ UNCHANGED <<chip, imu, device, waited, ctx>>

MagGetData == MagEnter \/ Poll \/ Drop \/ ReadData

(* sensor_data_mgr_update_imu if icm_ok, update_mag_only if only mag_ok,   *)
(* nothing else; then the rest of the cycle, with its sleep.               *)
Update ==
  /\ pc = "update"
  /\ waited' = IF waited < Throttle THEN waited + 1 ELSE waited
  /\ Goto("select")
  /\ UNCHANGED <<chip, imu, device, ctx, mag_ok, faults>>

TaskStep == (BootIcm \/ ReadIcm \/ MagInit \/ MagGetData \/ Update) /\ UNCHANGED stuck

(* The ICM loses its bypass, or the magnetometer its mode.                 *)
Disturb ==
  /\ Count
  /\ \/ bypass /\ bypass' = FALSE /\ UNCHANGED mode
     \/ mode = "continuous" /\ mode' = "down" /\ UNCHANGED bypass
  /\ UNCHANGED <<bank, last_bank, device, waited, pc, tries, ctx, err, burst, result, stuck>>

task == <<last_bank, device, waited, pc, tries, ctx, err, burst, result>>

Stick ==
  /\ ~stuck /\ Count
  /\ ConfigOk => pc # "config"
  /\ stuck' = TRUE
  /\ UNCHANGED <<chip, task>>

Release ==
  /\ stuck
  /\ stuck' = FALSE
  /\ UNCHANGED <<chip, task, faults>>

Next == TaskStep \/ Disturb \/ Stick \/ Release

(* The sensor task runs.  The faults are finitely many; the bus may stay   *)
(* stuck.                                                                  *)
Spec == Init /\ [][Next]_vars /\ WF_vars(TaskStep)

-----------------------------------------------------------------------------
(* Properties *)

FlagsOK ==
  /\ {bypass, err, icm_ok, mag_ok, stuck} \subseteq BOOLEAN
  /\ {bank, burst} \subseteq {0, 2} /\ last_bank \in {0, 2, 4}
  /\ mode \in {"down", "continuous"} /\ s_mag_handle \in {"NULL", "dev"}
  /\ ctx \in {"boot", "recover", "read", "fix"}
  /\ pc \in {"id", "config", "absent", "select", "burst", "reselect", "settings",
             "returned", "bypass", "add", "wia", "reset", "mode", "mag", "drdy", "drop",
             "data", "update"}

CountsOK == waited \in 0..Throttle /\ attached \in Nat /\ faults \in 0..MaxFaults

(* No loop attempts more often than its limit.                             *)
AttemptsOK ==
  /\ tries \in Nat \ {0}
  /\ pc \in {"select", "burst", "reselect", "settings", "returned"} => tries <= IcmTries
  /\ pc = "config" => tries <= Len(ConfigBanks)
  /\ pc = "bypass" => tries <= BypassTries
  /\ pc = "wia" => tries <= WiaTries
  /\ pc = "drdy" => tries <= DrdyTries

(* The variables have their types, the loops their limits.                 *)
TypeOK == FlagsOK /\ CountsOK /\ AttemptsOK

(* What is stored as acceleration and rotation was read from the bank that *)
(* has it ("must be in the right bank"), whatever transfers failed and     *)
(* whatever mag_enable_bypass did to the bank the driver thinks selected.  *)
RightBank == pc = "update" /\ icm_ok => burst = 0

(* Every path of mag_init and mag_get_data leaves the magnetometer on the  *)
(* bus exactly when there is a handle for it: none is registered twice or  *)
(* never removed, and none is used after it is removed.                    *)
MagDeviceOwned ==
  /\ attached = IF s_mag_handle = "NULL" THEN 0 ELSE 1
  /\ pc \in {"wia", "reset", "mode", "drdy", "drop", "data"} => s_mag_handle = "dev"

(* When the disturbances are over and the bus is free every cycle delivers *)
(* IMU and magnetometer data: bypass, mode or registration, what was lost  *)
(* is brought back by the retry, the fix or the recovery.                  *)
SensorsRecover == <>[]~stuck => <>[](pc = "update" => icm_ok /\ mag_ok)

=============================================================================
