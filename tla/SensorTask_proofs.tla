-------------------------- MODULE SensorTask_proofs --------------------------
(***************************************************************************)
(* Theorems of SensorTask.  Its steps are steps of Imu, so what holds of   *)
(* Imu holds of it; and the retries of one turn of the loop fit into the   *)
(* time the task watchdog gives, however many transfers fail.              *)
(***************************************************************************)
EXTENDS SensorTask, Imu_proofs

LEMMA StepsOfImu == [TaskNext]_taskVars => [Next]_vars
<1> SUFFICES ASSUME [TaskNext]_taskVars PROVE [Next]_vars
  OBVIOUS
<1>1. CASE Boot
  BY <1>1 DEF Boot, Next, TaskStep
<1>2. CASE ReadDht \/ ReadGas \/ NotifyAndSleep \/ WakeUp \/ UNCHANGED taskVars
  BY <1>2 DEF ReadDht, ReadGas, NotifyAndSleep, WakeUp, taskVars
<1>3. CASE ReadImu
  BY <1>3 DEF ReadImu, ImuSpends, Next, TaskStep, ReadIcm, MagInit, MagGetData
<1>4. CASE StoreImu
  BY <1>4 DEF StoreImu, Next, TaskStep
<1>5. CASE Bus
  BY <1>5 DEF Bus, Next
<1>6. QED
  BY <1>1, <1>2, <1>3, <1>4, <1>5 DEF TaskNext, LoopStep

LEMMA TaskRunsImu == TaskSpec => []OwnInv /\ [][Next]_vars
<1>1. TaskInit => OwnInv
  BY OwnInit DEF TaskInit
<1>2. OwnInv /\ [Next]_vars => OwnInv'
  BY OwnNext
<1>3. QED
  BY <1>1, <1>2, StepsOfImu, PTL DEF TaskSpec

-----------------------------------------------------------------------------
(* Time                                                                    *)

LEMMA AccessCosts ==
  /\ Access(1) \in {3, 100} /\ Access(8) \in {24, 121}
  /\ NoFault => Access(1) = 3 /\ Access(8) = 24
  BY DEF Access, TIMEOUT, TRANSFER, NoFault, Quiet

LoopTyped ==
  /\ phase \in {"boot", "dht", "gas", "imu", "notify", "sleep"}
  /\ dht_try \in 1..DHT_TRIES
  /\ elapsed \in Nat

(* The steps of the third sensor only add to the time.                     *)
LEMMA ImuSpending ==
  ASSUME elapsed \in Nat, ReadImu
  PROVE  elapsed' \in Nat /\ UNCHANGED <<phase, dht_try>>
  BY AccessCosts DEF ReadImu, ImuSpends, Spend

LEMMA LoopTypes == LoopTyped /\ [TaskNext]_taskVars => LoopTyped'
<1> SUFFICES ASSUME LoopTyped, [TaskNext]_taskVars PROVE LoopTyped'
  OBVIOUS
<1> USE DEF LoopTyped, DHT_TRIES
<1>1. CASE ReadImu
  BY <1>1, ImuSpending
<1>2. CASE Boot
  BY <1>2 DEF Boot
<1>3. CASE ReadDht
  BY <1>3 DEF ReadDht, Spend, DHT_READ
<1>4. CASE ReadGas \/ NotifyAndSleep \/ WakeUp \/ StoreImu
  BY <1>4 DEF ReadGas, NotifyAndSleep, WakeUp, StoreImu
<1>5. CASE Bus \/ UNCHANGED taskVars
  BY <1>5 DEF Bus, taskVars
<1>6. QED
  BY <1>1, <1>2, <1>3, <1>4, <1>5 DEF TaskNext, LoopStep

(* The variables have their types, whatever fails and however long.        *)
THEOREM TaskTypeCorrect == TaskSpec => []TaskTypeOK
<1>1. TaskInit => LoopTyped
  BY DEF TaskInit, LoopTyped, DHT_TRIES
<1>2. LoopTyped /\ [TaskNext]_taskVars => LoopTyped'
  BY LoopTypes
<1>3. LoopTyped /\ OwnInv => TaskTypeOK
  BY DEF TaskTypeOK, TypeOK, OwnInv, LoopTyped
<1>4. QED
  BY <1>1, <1>2, <1>3, TaskRunsImu, PTL DEF TaskSpec

(* MagOwned and BankRight, of the whole sensor task.                       *)
THEOREM TaskOwnsMag == TaskSpec => []MagDeviceOwned
  BY TaskRunsImu, PTL DEF OwnInv

THEOREM TaskBankRight == ConfigOk => (TaskSpec => []RightBank)
<1> SUFFICES ASSUME ConfigOk PROVE TaskSpec => []RightBank
  OBVIOUS
<1>1. TaskInit => BankInv
  BY BankInit DEF TaskInit
<1>2. BankInv => RightBank
  BY DEF BankInv, RightBank
<1>3. BankInv /\ OwnInv /\ [Next]_vars => BankInv'
  BY BankStep DEF OwnInv
<1>4. QED
  BY <1>1, <1>2, <1>3, TaskRunsImu, PTL DEF TaskSpec

(* And BankRecovers: a reading of the wrong bank is the task's first.      *)
THEOREM TaskBankRecovers ==
  TaskSpec => /\ [](pc = "update" => last_bank = 2)
              /\ [](FirstReadOver => []RightBank)
<1>1. TaskInit => Init
  BY DEF TaskInit
<1>2. QED
  BY <1>1, BankComesRight, TaskRunsImu, PTL DEF TaskSpec

-----------------------------------------------------------------------------
(* The watchdog                                                            *)

(* Where the task is: the IMU is at rest outside its turn, and in it       *)
(* mag_init runs only as the recovery.                                     *)
PlaceOK ==
  /\ phase = "boot" => /\ pc \in {"id", "config", "bypass", "add", "wia", "reset", "mode"}
                       /\ ctx = "boot"
  /\ phase \in {"dht", "gas", "notify", "sleep"} => pc = "absent" \/ (pc = "select" /\ tries = 1)
  /\ phase = "imu" =>
       /\ pc \notin {"id", "config", "absent"}
       /\ pc = "bypass" => ctx \in {"recover", "fix"}
       /\ pc \in {"add", "wia", "reset", "mode"} => ctx = "recover"
       /\ pc = "drdy" => ctx \in {"read", "recover", "fix"}

LEMMA PlaceStep == PlaceOK /\ FlagsOK /\ [TaskNext]_taskVars => PlaceOK'
<1> SUFFICES ASSUME PlaceOK, FlagsOK, [TaskNext]_taskVars PROVE PlaceOK'
  OBVIOUS
<1> USE DEF PlaceOK, Goto
<1>1. CASE Boot
  <2>1. CASE CheckId \/ Configure \/ Disabled
    BY <1>1, <2>1 DEF Boot, CheckId, Configure, Disabled
  <2>2. CASE MagInit
    <3>1. phase = "boot" /\ phase' = IF pc' \in {"select", "absent"} THEN "dht" ELSE "boot"
      BY <1>1 DEF Boot
    <3>2. CASE Bypass
      BY <3>1, <3>2 DEF Bypass, Again, InitFails
    <3>3. CASE AddDevice
      BY <3>1, <3>3 DEF AddDevice, InitFails
    <3>4. CASE WhoAmI
      BY <3>1, <3>4 DEF WhoAmI, Again, InitFails
    <3>5. CASE SoftReset
      BY <3>1, <3>5 DEF SoftReset
    <3>6. CASE SetContinuous
      BY <3>1, <3>6 DEF SetContinuous
    <3>7. QED
      BY <2>2, <3>2, <3>3, <3>4, <3>5, <3>6 DEF MagInit
  <2>3. QED
    BY <1>1, <2>1, <2>2 DEF Boot, BootIcm
<1>2. CASE ReadDht \/ ReadGas \/ NotifyAndSleep \/ WakeUp
  BY <1>2 DEF ReadDht, ReadGas, NotifyAndSleep, WakeUp, vars
<1>3. CASE ReadImu
  <2> USE <1>3 DEF ReadImu
  <2>1. CASE SelectData \/ ReadBurst \/ SelectSettings \/ ReadSettings
    BY <2>1 DEF SelectData, ReadBurst, SelectSettings, ReadSettings
  <2>2. CASE AgmtReturns
    BY <2>2 DEF AgmtReturns
  <2>3. CASE Bypass
    BY <2>3 DEF Bypass, Again, InitFails
  <2>4. CASE AddDevice \/ SoftReset \/ SetContinuous
    BY <2>4 DEF AddDevice, InitFails, SoftReset, SetContinuous
  <2>5. CASE WhoAmI
    BY <2>5 DEF WhoAmI, Again, InitFails
  <2>6. CASE MagEnter \/ Drop \/ ReadData
    BY <2>6 DEF MagEnter, Drop, ReadData
  <2>7. CASE Poll
    BY <2>7 DEF Poll, Again
  <2>8. QED
    BY <2>1, <2>2, <2>3, <2>4, <2>5, <2>6, <2>7 DEF ImuSpends
<1>4. CASE StoreImu
  BY <1>4 DEF StoreImu, Update
<1>5. CASE Bus \/ UNCHANGED taskVars
  <2>1. UNCHANGED <<phase, pc, tries, ctx>>
    BY <1>5 DEF Bus, Disturb, Stick, Release, task, taskVars, vars
  <2>2. QED
    BY <2>1
<1>6. QED
  BY <1>1, <1>2, <1>3, <1>4, <1>5 DEF TaskNext, LoopStep

(* The most milliseconds a turn of the third sensor takes, from the limits *)
(* of its loops: to the end of read_icm20948; to the end of a bypass that  *)
(* works at its last attempt, in the recovery; of the WHO_AM_I check, the  *)
(* same way; of the polls without data, after the two writes; of the fix;  *)
(* and of the polls once more.                                             *)
IcmMost == 620 * IcmTries - 20
AddMost == IcmMost + 138 * (BypassTries - 1) + 41
ResetMost == AddMost + 110 * (WiaTries - 1) + 3
FixMost == ResetMost + 220 + 105 * DrdyTries
FixedMost == FixMost + 138 * (BypassTries - 1) + 41
TurnMost == FixedMost + 105 * DrdyTries

(* What it has taken at most, at each place of it: the longest way goes    *)
(* through all of these, to "drop".                                        *)
Allowance ==
  /\ pc = "select" => elapsed <= 620 * (tries - 1)
  /\ pc = "burst" => elapsed <= 620 * (tries - 1) + 100
  /\ pc = "reselect" => elapsed <= 620 * (tries - 1) + 200
  /\ pc = "settings" => elapsed <= 620 * (tries - 1) + 300
  /\ pc = "returned" => elapsed <= 620 * (tries - 1) + 600
  /\ pc = "mag" => elapsed <= IcmMost
  /\ pc = "bypass" /\ ctx = "recover" => elapsed <= IcmMost + 138 * (tries - 1)
  /\ pc = "add" => elapsed <= AddMost
  /\ pc = "wia" => elapsed <= AddMost + 110 * (tries - 1)
  /\ pc = "reset" => elapsed <= ResetMost
  /\ pc = "mode" => elapsed <= ResetMost + 120
  /\ pc = "drdy" /\ ctx \in {"read", "recover"} => elapsed <= ResetMost + 220 + 105 * (tries - 1)
  /\ pc = "bypass" /\ ctx = "fix" => elapsed <= FixMost + 138 * (tries - 1)
  /\ pc = "drdy" /\ ctx = "fix" => elapsed <= FixedMost + 105 * (tries - 1)
  /\ pc = "data" => elapsed <= TurnMost - 100
  /\ pc \in {"drop", "update"} => elapsed <= TurnMost

TimeInv ==
  /\ phase = "dht" => elapsed <= 126 * (dht_try - 1)
  /\ phase = "gas" => elapsed = 0
  /\ phase = "notify" => elapsed <= TurnMost
  /\ phase = "boot" => elapsed = 0
  /\ phase = "sleep" => elapsed <= 2000
  /\ phase = "imu" => Allowance

LEMMA TurnsTakeTime == TurnMost \in Nat /\ 0 <= TurnMost
  BY ParamsHold DEF Params, IcmMost, AddMost, ResetMost, FixMost, FixedMost, TurnMost

LEMMA ImuAllowance ==
  ASSUME LoopTyped, AttemptsOK, PlaceOK, Allowance, ReadImu
  PROVE  Allowance'
<1>0. Params
  BY ParamsHold
<1>1. /\ phase = "imu" /\ ImuSpends
      /\ elapsed \in Nat /\ tries \in Nat \ {0}
  BY DEF ReadImu, LoopTyped, AttemptsOK
<1> USE <1>0 DEF Params, IcmMost, AddMost, ResetMost, FixMost, FixedMost, TurnMost
<1>2. CASE SelectData /\ Spend(Access(1))
  <2>1. pc = "select" /\ pc' = "burst" /\ tries' = tries
    BY <1>2 DEF SelectData
  <2>2. elapsed' <= elapsed + 100 /\ elapsed' \in Nat
    BY <1>1, <1>2, AccessCosts DEF Spend
  <2>3. QED
    BY <1>1, <2>1, <2>2 DEF Allowance
<1>3. CASE ReadBurst /\ Spend(Access(1))
  <2>1. pc = "burst" /\ pc' = "reselect" /\ tries' = tries
    BY <1>3 DEF ReadBurst
  <2>2. elapsed' <= elapsed + 100 /\ elapsed' \in Nat
    BY <1>1, <1>3, AccessCosts DEF Spend
  <2>3. QED
    BY <1>1, <2>1, <2>2 DEF Allowance
<1>4. CASE SelectSettings /\ Spend(Access(1))
  <2>1. pc = "reselect" /\ pc' = "settings" /\ tries' = tries
    BY <1>4 DEF SelectSettings
  <2>2. elapsed' <= elapsed + 100 /\ elapsed' \in Nat
    BY <1>1, <1>4, AccessCosts DEF Spend
  <2>3. QED
    BY <1>1, <2>1, <2>2 DEF Allowance
<1>5. CASE ReadSettings /\ Spend(3 * Access(1))
  <2>1. pc = "settings" /\ pc' = "returned" /\ tries' = tries
    BY <1>5 DEF ReadSettings
  <2>2. elapsed' <= elapsed + 300 /\ elapsed' \in Nat
    BY <1>1, <1>5, AccessCosts DEF Spend
  <2>3. QED
    BY <1>1, <2>1, <2>2 DEF Allowance
<1>6. CASE AgmtReturns /\ Spend(IF pc' = "select" THEN 20 ELSE 0)
  <2>1. /\ pc = "returned" /\ tries <= IcmTries
        /\ \/ pc' = "select" /\ tries' = tries + 1
           \/ pc' = "mag"
    BY <1>6 DEF AgmtReturns, Goto, AttemptsOK
  <2>2. elapsed' = IF pc' = "select" THEN elapsed + 20 ELSE elapsed
    BY <1>1, <1>6 DEF Spend
  <2>3. QED
    BY <1>1, <2>1, <2>2 DEF Allowance
<1>7. CASE Bypass /\ Spend(Access(8) + 17)
  <2>1. /\ pc = "bypass" /\ ctx' = ctx /\ ctx \in {"recover", "fix"} /\ tries <= BypassTries
        /\ \/ NoFault /\ pc' = (IF ctx = "fix" THEN "drdy" ELSE "add") /\ tries' = 1
           \/ pc' = "bypass" /\ tries' = tries + 1
           \/ ctx = "fix" /\ pc' = "drop"
           \/ ctx # "fix" /\ pc' = "update"
    BY <1>1, <1>7 DEF Bypass, InitFails, Goto, Again, PlaceOK, AttemptsOK
  <2>2. elapsed' \in {elapsed + 41, elapsed + 138} /\ (NoFault => elapsed' = elapsed + 41)
    BY <1>1, <1>7, AccessCosts DEF Spend
  <2>3. QED
    BY <1>1, <2>1, <2>2 DEF Allowance
<1>8. CASE AddDevice /\ Spend(0)
  <2>1. pc = "add" /\ ((pc' = "wia" /\ tries' = 1) \/ pc' = "update")
    BY <1>1, <1>8 DEF AddDevice, InitFails, Goto, PlaceOK
  <2>2. elapsed' = elapsed
    BY <1>1, <1>8 DEF Spend
  <2>3. QED
    BY <1>1, <2>1, <2>2 DEF Allowance
<1>9. CASE WhoAmI /\ Spend(Access(1) + IF pc' = "reset" THEN 0 ELSE 10)
  <2>1. /\ pc = "wia" /\ tries <= WiaTries
        /\ \/ NoFault /\ pc' = "reset"
           \/ pc' = "wia" /\ tries' = tries + 1
           \/ pc' = "update"
    BY <1>1, <1>9 DEF WhoAmI, InitFails, Goto, Again, PlaceOK, AttemptsOK
  <2>2. /\ elapsed' <= elapsed + 110 /\ elapsed' \in Nat
        /\ NoFault /\ pc' = "reset" => elapsed' = elapsed + 3
    BY <1>1, <1>9, AccessCosts DEF Spend
  <2>3. QED
    BY <1>1, <2>1, <2>2 DEF Allowance
<1>10. CASE SoftReset /\ Spend(Access(1) + 20)
  <2>1. pc = "reset" /\ pc' = "mode"
    BY <1>10 DEF SoftReset, Goto
  <2>2. elapsed' <= elapsed + 120 /\ elapsed' \in Nat
    BY <1>1, <1>10, AccessCosts DEF Spend
  <2>3. QED
    BY <1>1, <2>1, <2>2 DEF Allowance
<1>11. CASE SetContinuous /\ Spend(Access(1))
  <2>1. pc = "mode" /\ pc' = "drdy" /\ tries' = 1 /\ ctx' = "recover"
    BY <1>1, <1>11 DEF SetContinuous, Goto, PlaceOK
  <2>2. elapsed' <= elapsed + 100 /\ elapsed' \in Nat
    BY <1>1, <1>11, AccessCosts DEF Spend
  <2>3. QED
    BY <1>1, <2>1, <2>2 DEF Allowance
<1>12. CASE (MagEnter \/ Drop) /\ Spend(0)
  <2>1. \/ pc = "mag" /\ pc' = "drdy" /\ ctx' = "read" /\ tries' = 1
        \/ pc = "mag" /\ pc' = "bypass" /\ ctx' = "recover" /\ tries' = 1
        \/ pc \in {"mag", "drop"} /\ pc' = "update"
    BY <1>12 DEF MagEnter, Drop, Goto
  <2>2. elapsed' = elapsed
    BY <1>1, <1>12 DEF Spend
  <2>3. QED
    BY <1>1, <2>1, <2>2 DEF Allowance
<1>13. CASE Poll /\ Spend(Access(1) + IF pc' = "data" THEN 0 ELSE 5)
  <2>1. /\ pc = "drdy" /\ tries <= DrdyTries /\ ctx \in {"read", "recover", "fix"}
        /\ \/ NoFault /\ pc' = "data"
           \/ pc' = "drdy" /\ ctx' = ctx /\ tries' = tries + 1
           \/ ctx # "fix" /\ pc' = "bypass" /\ ctx' = "fix" /\ tries' = 1
           \/ ctx = "fix" /\ pc' = "drop"
    BY <1>1, <1>13 DEF Poll, Goto, Again, PlaceOK, AttemptsOK
  <2>2. /\ elapsed' <= elapsed + 105 /\ elapsed' \in Nat
        /\ NoFault /\ pc' = "data" => elapsed' = elapsed + 3
    BY <1>1, <1>13, AccessCosts DEF Spend
  <2>3. QED
    BY <1>1, <2>1, <2>2 DEF Allowance
<1>14. CASE ReadData /\ Spend(Access(1))
  <2>1. pc = "data" /\ pc' = "update"
    BY <1>14 DEF ReadData, Goto
  <2>2. elapsed' <= elapsed + 100 /\ elapsed' \in Nat
    BY <1>1, <1>14, AccessCosts DEF Spend
  <2>3. QED
    BY <1>1, <2>1, <2>2 DEF Allowance
<1> HIDE <1>0 DEF Params, IcmMost, AddMost, ResetMost, FixMost, FixedMost, TurnMost
<1>15. QED
  BY <1>1, <1>2, <1>3, <1>4, <1>5, <1>6, <1>7, <1>8, <1>9, <1>10, <1>11, <1>12, <1>13, <1>14
     DEF ImuSpends

LEMMA TimeStep ==
  ASSUME LoopTyped, AttemptsOK, PlaceOK, TimeInv, [TaskNext]_taskVars
  PROVE  TimeInv'
<1> USE DEF LoopTyped, DHT_TRIES, PlaceOK, TimeInv
<1>1. CASE ReadImu
  BY <1>1, ImuAllowance, ImuSpending DEF ReadImu
<1>2. CASE Boot
  BY <1>2 DEF Boot
<1>3. CASE ReadDht
  BY <1>3 DEF ReadDht, Spend, DHT_READ
<1>4. CASE ReadGas
  <2>1. 0 <= TurnMost
    BY TurnsTakeTime
  <2>2. QED
    BY <1>4, <2>1 DEF ReadGas, Allowance, vars
<1>5. CASE StoreImu
  <2>1. pc = "update" /\ phase = "imu" /\ phase' = "notify" /\ elapsed' = elapsed
    BY <1>5 DEF StoreImu, Update
  <2>2. QED
    BY <2>1 DEF Allowance
<1>6. CASE NotifyAndSleep \/ WakeUp
  BY <1>6 DEF NotifyAndSleep, WakeUp
<1>7. CASE Bus \/ UNCHANGED taskVars
  <2>1. UNCHANGED <<phase, dht_try, elapsed, pc, tries, ctx>>
    BY <1>7 DEF Bus, Disturb, Stick, Release, task, taskVars, vars
  <2>2. QED
    BY <2>1 DEF Allowance
<1>8. QED
  BY <1>1, <1>2, <1>3, <1>4, <1>5, <1>6, <1>7 DEF TaskNext, LoopStep

(* With any limits of the loops: no more passes between two resets of the  *)
(* watchdog than the 2 s of the sleep and the longest turn of the third    *)
(* sensor, however many transfers fail and whenever the bus is stuck.      *)
THEOREM TimeBetweenResets == TaskSpec => [](elapsed <= 2000 \/ elapsed <= TurnMost)
<1> DEFINE Inv == LoopTyped /\ PlaceOK /\ TimeInv
<1>1. TaskInit => Inv
  BY DEF TaskInit, Init, LoopTyped, PlaceOK, TimeInv, DHT_TRIES
<1>2. Inv /\ OwnInv /\ [TaskNext]_taskVars => Inv'
  BY LoopTypes, PlaceStep, TimeStep DEF OwnInv
<1>3. Inv /\ FlagsOK /\ AttemptsOK => elapsed <= 2000 \/ elapsed <= TurnMost
  <2> SUFFICES ASSUME LoopTyped, PlaceOK, TimeInv, FlagsOK, AttemptsOK
               PROVE  elapsed <= 2000 \/ elapsed <= TurnMost
    OBVIOUS
  <2>1. CASE phase = "imu"
    <3>1. pc \in {"select", "burst", "reselect", "settings", "returned", "bypass",
                  "add", "wia", "reset", "mode", "mag", "drdy", "drop", "data", "update"}
      BY <2>1 DEF PlaceOK, FlagsOK
    <3>2. Allowance /\ elapsed \in Nat /\ tries \in Nat \ {0} /\ Params
      BY <2>1, ParamsHold DEF TimeInv, LoopTyped, AttemptsOK
    <3>3. /\ pc = "bypass" => ctx \in {"recover", "fix"}
          /\ pc = "drdy" => ctx \in {"read", "recover", "fix"}
      BY <2>1 DEF PlaceOK
    <3>4. QED
      BY <3>1, <3>2, <3>3 DEF Allowance, AttemptsOK, Params, IcmMost, AddMost, ResetMost,
                              FixMost, FixedMost, TurnMost
  <2>2. CASE phase # "imu"
    BY <2>2 DEF LoopTyped, TimeInv, DHT_TRIES
  <2>3. QED
    BY <2>1, <2>2
<1>4. QED
  BY <1>1, <1>2, <1>3, TaskRunsImu, PTL DEF TaskSpec, OwnInv

(* With the limits of the code that is 4859 ms.  One more attempt at the   *)
(* WHO_AM_I check would still do, one more of any other loop would not.    *)
LEMMA CodeBudget ==
  ASSUME NEW i \in 0..1, NEW b \in 0..1, NEW w \in 0..1, NEW d \in 0..1,
         IcmTries = 3 + i, BypassTries = 5 + b, WiaTries = 8 + w, DrdyTries = 4 + d
  PROVE  /\ TurnMost = 4859 + 620 * i + 276 * b + 110 * w + 210 * d
         /\ TurnMost <= WDT_TIMEOUT_MS <=> i = 0 /\ b = 0 /\ d = 0
<1>1. TurnMost = 620 * IcmTries + 276 * BypassTries + 110 * WiaTries + 210 * DrdyTries - 101
  BY ParamsHold DEF Params, IcmMost, AddMost, ResetMost, FixMost, FixedMost, TurnMost
<1>2. QED
  BY <1>1 DEF WDT_TIMEOUT_MS

(* No turn of the loop takes the 5 s after which the task watchdog barks,  *)
(* whatever fails, when the limits of the loops fit into them.             *)
THEOREM WatchdogHolds == TurnMost <= WDT_TIMEOUT_MS => (TaskSpec => []WatchdogFed)
<1> SUFFICES ASSUME TurnMost <= WDT_TIMEOUT_MS PROVE TaskSpec => []WatchdogFed
  OBVIOUS
<1>1. LoopTyped /\ (elapsed <= 2000 \/ elapsed <= TurnMost) => WatchdogFed
  BY TurnsTakeTime DEF LoopTyped, WatchdogFed, WDT_TIMEOUT_MS
<1>2. TaskTypeOK => LoopTyped
  BY DEF TaskTypeOK, LoopTyped
<1>3. QED
  BY <1>1, <1>2, TimeBetweenResets, TaskTypeCorrect, PTL

(* And they do, in the code: 3 reads of the ICM, 5 attempts at the bypass, *)
(* 8 at WHO_AM_I, 4 polls.                                                 *)
THEOREM WatchdogHoldsInCode ==
  IcmTries = 3 /\ BypassTries = 5 /\ WiaTries = 8 /\ DrdyTries = 4
    => (TaskSpec => []WatchdogFed)
<1> SUFFICES ASSUME IcmTries = 3, BypassTries = 5, WiaTries = 8, DrdyTries = 4
             PROVE  TurnMost <= WDT_TIMEOUT_MS
  BY WatchdogHolds
<1>1. QED
  BY CodeBudget

=============================================================================
