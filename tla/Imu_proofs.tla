----------------------------- MODULE Imu_proofs ------------------------------
(***************************************************************************)
(* Whatever transfers fail, and however often each is attempted: the loops *)
(* of the sensor task stay within their attempts, the magnetometer is on   *)
(* the bus exactly when the task holds its handle, and what is stored as   *)
(* acceleration was read from the bank that has it, provided the           *)
(* configuration left the ICM in the bank its driver thinks it left it in. *)
(*                                                                         *)
(* Flags and counts are separate lemmas: no leaf mixes Booleans with       *)
(* arithmetic.                                                             *)
(***************************************************************************)
EXTENDS Imu, TLAPS

Params ==
  /\ IcmTries \in Nat \ {0} /\ BypassTries \in Nat \ {0}
  /\ WiaTries \in Nat \ {0} /\ DrdyTries \in Nat \ {0}
  /\ Throttle \in Nat /\ MaxFaults \in Nat

LEMMA ParamsHold == Params
  BY TriesAssumption, BoundsAssumption DEF Params

-----------------------------------------------------------------------------
(* The types                                                               *)

LEMMA SevenCalls == Len(ConfigBanks) = 7
  BY DEF ConfigBanks

LEMMA BanksOfConfig == AttemptsOK /\ pc = "config" => ConfigBanks[tries] \in {0, 2}
<1>1. Len(ConfigBanks) = 7
  BY SevenCalls
<1>2. \A i \in 1..7 : ConfigBanks[i] \in {0, 2}
  BY DEF ConfigBanks
<1>3. QED
  BY <1>1, <1>2 DEF AttemptsOK

LEMMA FlagsStep == FlagsOK /\ AttemptsOK /\ [Next]_vars => FlagsOK'
<1> SUFFICES ASSUME FlagsOK, AttemptsOK, [Next]_vars PROVE FlagsOK'
  OBVIOUS
<1>0. stuck' \in BOOLEAN
  BY DEF FlagsOK, Next, TaskStep, Disturb, Stick, Release, vars
<1> USE <1>0 DEF FlagsOK, Goto, Again, GiveUp, chip, device, result, imu
<1>1. CASE SelectData
  BY <1>1 DEF SelectData, SetBank
<1>2. CASE ReadBurst
  BY <1>2 DEF ReadBurst, Read
<1>3. CASE SelectSettings
  BY <1>3 DEF SelectSettings, SetBank
<1>4. CASE ReadSettings
  BY <1>4 DEF ReadSettings, Read
<1>5. CASE AgmtReturns
  BY <1>5 DEF AgmtReturns
<1>6. CASE Bypass
  BY <1>6 DEF Bypass, InitFails
<1>7. CASE AddDevice
  BY <1>7 DEF AddDevice, InitFails
<1>8. CASE WhoAmI
  BY <1>8 DEF WhoAmI, Unanswered, RemoveDevice, InitFails
<1>9. CASE SoftReset
  BY <1>9 DEF SoftReset, WriteMode
<1>10. CASE SetContinuous
  BY <1>10 DEF SetContinuous, WriteMode
<1>11. CASE MagEnter
  BY <1>11 DEF MagEnter
<1>12. CASE Poll
  BY <1>12 DEF Poll, NotReady, Unanswered
<1>13. CASE Drop
  BY <1>13 DEF Drop, RemoveDevice
<1>14. CASE ReadData
  BY <1>14 DEF ReadData, Unanswered
<1>15. CASE Update
  BY <1>15 DEF Update
<1>16. CASE Disturb
  BY <1>16 DEF Disturb
<1>17. CASE Stick \/ Release
  BY <1>17 DEF Stick, Release, task
<1>18. CASE CheckId
  BY <1>18 DEF CheckId
<1>19. CASE Configure
  BY <1>19, BanksOfConfig DEF Configure
<1>20. CASE Disabled
  BY <1>20 DEF Disabled
<1>21. CASE UNCHANGED vars
  BY <1>21 DEF vars
<1>22. QED
  BY <1>1, <1>2, <1>3, <1>4, <1>5, <1>6, <1>7, <1>8, <1>9, <1>10, <1>11, <1>12,
     <1>13, <1>14, <1>15, <1>16, <1>17, <1>18, <1>19, <1>20, <1>21
     DEF Next, TaskStep, BootIcm, ReadIcm, MagInit, MagGetData

(* A loop is entered at its first attempt, and goes on only while it has    *)
(* attempts left.                                                          *)
LEMMA AttemptsStep == AttemptsOK /\ [Next]_vars => AttemptsOK'
<1> SUFFICES ASSUME AttemptsOK, [Next]_vars PROVE AttemptsOK'
  OBVIOUS
<1>1. ASSUME NEW place, Goto(place) PROVE AttemptsOK'
  <2>1. tries' = 1
    BY <1>1 DEF Goto
  <2>2. IcmTries >= 1 /\ BypassTries >= 1 /\ WiaTries >= 1 /\ DrdyTries >= 1
    BY ParamsHold DEF Params
  <2>3. tries' \in Nat \ {0}
    BY <2>1
  <2>4. 1 <= Len(ConfigBanks)
    BY SevenCalls
  <2>5. QED
    BY <2>1, <2>2, <2>3, <2>4 DEF AttemptsOK
<1>2. ASSUME pc = "bypass", Again(BypassTries) PROVE AttemptsOK'
  BY <1>2, ParamsHold DEF Again, AttemptsOK, Params
<1>3. ASSUME pc = "wia", Again(WiaTries) PROVE AttemptsOK'
  BY <1>3, ParamsHold DEF Again, AttemptsOK, Params
<1>4. ASSUME pc = "drdy", Again(DrdyTries) PROVE AttemptsOK'
  BY <1>4, ParamsHold DEF Again, AttemptsOK, Params
<1> DEFINE Reading == {"select", "burst", "reselect", "settings", "returned"}
<1>5. ASSUME pc \in Reading, pc' \in Reading, UNCHANGED tries PROVE AttemptsOK'
  BY <1>5 DEF AttemptsOK
<1>6. CASE SelectData \/ ReadBurst \/ SelectSettings \/ ReadSettings
  <2>1. pc \in Reading /\ pc' \in Reading /\ UNCHANGED tries
    BY <1>6 DEF SelectData, ReadBurst, SelectSettings, ReadSettings
  <2>2. QED
    BY <1>5, <2>1
<1>7. CASE AgmtReturns
  <2>1. CASE tries < IcmTries /\ tries' = tries + 1 /\ pc' = "select"
    BY <1>7, <2>1, ParamsHold DEF AgmtReturns, AttemptsOK, Params
  <2>2. CASE Goto("mag")
    BY <1>1, <2>2
  <2>3. QED
    BY <1>7, <2>1, <2>2 DEF AgmtReturns
<1>8. CASE Bypass
  BY <1>8, <1>1, <1>2 DEF Bypass, InitFails
<1>9. CASE WhoAmI
  BY <1>9, <1>1, <1>3 DEF WhoAmI, InitFails
<1>10. CASE Poll
  BY <1>10, <1>1, <1>4 DEF Poll
<1>11. CASE AddDevice \/ SoftReset \/ SetContinuous \/ CheckId
  BY <1>11, <1>1 DEF AddDevice, SoftReset, SetContinuous, InitFails, CheckId
<1>12. CASE MagEnter \/ Drop \/ ReadData \/ Update
  BY <1>12, <1>1 DEF MagEnter, Drop, ReadData, Update
<1>13. CASE Disturb \/ Stick \/ Release \/ Disabled \/ UNCHANGED vars
  <2>1. UNCHANGED <<pc, tries>>
    BY <1>13 DEF Disturb, Stick, Release, task, Disabled, vars
  <2>2. QED
    BY <2>1 DEF AttemptsOK
<1>14. CASE Configure
  <2>2. CASE tries < Len(ConfigBanks) /\ tries' = tries + 1 /\ UNCHANGED pc
    BY <1>14, SevenCalls, <2>2 DEF Configure, AttemptsOK
  <2>3. CASE Goto("bypass")
    BY <1>1, <2>3
  <2>4. QED
    BY <1>14, <2>2, <2>3 DEF Configure
<1>15. QED
  BY <1>6, <1>7, <1>8, <1>9, <1>10, <1>11, <1>12, <1>13, <1>14
     DEF Next, TaskStep, BootIcm, ReadIcm, MagInit, MagGetData

LEMMA CountsStep == CountsOK /\ MagDeviceOwned' /\ [Next]_vars => CountsOK'
<1> SUFFICES ASSUME CountsOK, MagDeviceOwned', [Next]_vars PROVE CountsOK'
  OBVIOUS
<1>1. /\ Count \/ UNCHANGED faults
      /\ \/ UNCHANGED waited
         \/ waited' = 0
         \/ waited' = IF waited < Throttle THEN waited + 1 ELSE waited
  BY DEF Next, TaskStep, BootIcm, ReadIcm, MagInit, MagGetData, CheckId, Configure, Disabled,
         SelectData, ReadBurst, SelectSettings, ReadSettings, AgmtReturns, Bypass, AddDevice,
         WhoAmI, SoftReset, SetContinuous, MagEnter, Poll, Drop, ReadData, Update, Disturb,
         Stick, Release, task, SetBank, Read, NotReady, Unanswered, WriteMode, Fault, NoFault,
         Quiet, vars, imu, device
<1>2. waited' \in 0..Throttle /\ faults' \in 0..MaxFaults
  BY <1>1, ParamsHold DEF CountsOK, Count, Params
<1>3. attached' \in Nat
  BY DEF MagDeviceOwned
<1>4. QED
  BY <1>2, <1>3 DEF CountsOK

-----------------------------------------------------------------------------
(* The ownership of the magnetometer                                       *)

(* Until the device is added there is no handle, and the bypass is fixed   *)
(* only for a device that is there.                                        *)
HandleInv ==
  /\ pc \in {"id", "config"} => s_mag_handle = "NULL" /\ ctx = "boot"
  /\ pc = "add" => s_mag_handle = "NULL"
  /\ pc = "bypass" => (s_mag_handle = "dev" <=> ctx = "fix")

LEMMA OwnStep == FlagsOK /\ AttemptsOK /\ MagDeviceOwned /\ HandleInv /\ [Next]_vars
                   => (MagDeviceOwned /\ HandleInv)'
<1> SUFFICES ASSUME FlagsOK, AttemptsOK, MagDeviceOwned, HandleInv, [Next]_vars
             PROVE  (MagDeviceOwned /\ HandleInv)'
  OBVIOUS
<1> USE DEF FlagsOK, MagDeviceOwned, HandleInv, Goto, Again, GiveUp, chip, device, result, imu
<1>1. CASE SelectData
  BY <1>1 DEF SelectData, SetBank
<1>2. CASE ReadBurst
  BY <1>2 DEF ReadBurst, Read
<1>3. CASE SelectSettings
  BY <1>3 DEF SelectSettings, SetBank
<1>4. CASE ReadSettings
  BY <1>4 DEF ReadSettings, Read
<1>5. CASE AgmtReturns
  BY <1>5 DEF AgmtReturns
<1>6. CASE Bypass
  BY <1>6 DEF Bypass, InitFails
<1>7. CASE AddDevice
  BY <1>7 DEF AddDevice, InitFails
<1>8. CASE WhoAmI
  BY <1>8 DEF WhoAmI, Unanswered, RemoveDevice, InitFails
<1>9. CASE SoftReset
  BY <1>9 DEF SoftReset, WriteMode
<1>10. CASE SetContinuous
  BY <1>10 DEF SetContinuous, WriteMode
<1>11. CASE MagEnter
  BY <1>11 DEF MagEnter
<1>12. CASE Poll
  BY <1>12 DEF Poll, NotReady, Unanswered
<1>13. CASE Drop
  BY <1>13 DEF Drop, RemoveDevice
<1>14. CASE ReadData
  BY <1>14 DEF ReadData, Unanswered
<1>15. CASE Update
  BY <1>15 DEF Update
<1>16. CASE Disturb
  BY <1>16 DEF Disturb
<1>17. CASE Stick \/ Release
  BY <1>17 DEF Stick, Release, task
<1>18. CASE CheckId
  BY <1>18 DEF CheckId
<1>19. CASE Configure
  BY <1>19, BanksOfConfig DEF Configure
<1>20. CASE Disabled
  BY <1>20 DEF Disabled
<1>21. CASE UNCHANGED vars
  BY <1>21 DEF vars
<1>22. QED
  BY <1>1, <1>2, <1>3, <1>4, <1>5, <1>6, <1>7, <1>8, <1>9, <1>10, <1>11, <1>12,
     <1>13, <1>14, <1>15, <1>16, <1>17, <1>18, <1>19, <1>20, <1>21
     DEF Next, TaskStep, BootIcm, ReadIcm, MagInit, MagGetData

OwnInv == FlagsOK /\ CountsOK /\ AttemptsOK /\ MagDeviceOwned /\ HandleInv

LEMMA OwnInit == Init => OwnInv
<1> SUFFICES ASSUME Init PROVE OwnInv
  OBVIOUS
<1>1. FlagsOK
  BY DEF Init, FlagsOK
<1>2. CountsOK /\ AttemptsOK
  BY ParamsHold DEF Init, CountsOK, AttemptsOK, Params
<1>3. MagDeviceOwned /\ HandleInv
  BY DEF Init, MagDeviceOwned, HandleInv
<1>4. QED
  BY <1>1, <1>2, <1>3 DEF OwnInv

LEMMA OwnNext == OwnInv /\ [Next]_vars => OwnInv'
  BY FlagsStep, CountsStep, AttemptsStep, OwnStep DEF OwnInv

LEMMA OwnHolds == Spec => []OwnInv
  BY OwnInit, OwnNext, PTL DEF Spec

(* The variables have their types; in particular no loop of the sensor     *)
(* task attempts more often than its limit.                                *)
THEOREM TypeCorrect == Spec => []TypeOK
  BY OwnHolds, PTL DEF OwnInv, TypeOK

(* The magnetometer is on the bus exactly when there is a handle for it,   *)
(* and is accessed only then, whatever transfers fail on the way through   *)
(* mag_init, the bypass fix and the recovery.                              *)
THEOREM MagOwned == Spec => []MagDeviceOwned
  BY OwnHolds, PTL DEF OwnInv

-----------------------------------------------------------------------------
(* The bank                                                                *)

(* The driver is wrong about bank 0 only between the selection that failed *)
(* and that of bank 2 for the settings, and then an error is pending.      *)
BankInv ==
  /\ pc \notin {"burst", "reselect", "absent"} => (last_bank = 0 => bank = 0)
  /\ pc = "burst" => (err \/ bank = 0)
  /\ pc \in {"reselect", "settings", "returned"} => (err \/ burst = 0)
  /\ pc \notin {"select", "burst", "reselect", "settings", "returned"}
       => (icm_ok => burst = 0)

LEMMA BankInit == Init => BankInv
  BY DEF Init, BankInv

LEMMA BankStep ==
  (ConfigOk \/ pc # "config") /\ FlagsOK /\ AttemptsOK /\ BankInv /\ [Next]_vars => BankInv'
<1> SUFFICES ASSUME ConfigOk \/ pc # "config", FlagsOK, AttemptsOK, BankInv, [Next]_vars
             PROVE  BankInv'
  OBVIOUS
<1> USE DEF FlagsOK, BankInv, NoFault, Goto, Again, GiveUp, chip, device, result, imu
<1>1. CASE SelectData
  BY <1>1 DEF SelectData, SetBank
<1>2. CASE ReadBurst
  BY <1>2 DEF ReadBurst, Read
<1>3. CASE SelectSettings
  BY <1>3 DEF SelectSettings, SetBank
<1>4. CASE ReadSettings
  BY <1>4 DEF ReadSettings, Read
<1>5. CASE AgmtReturns
  BY <1>5 DEF AgmtReturns
<1>6. CASE Bypass
  BY <1>6 DEF Bypass, InitFails
<1>7. CASE AddDevice
  BY <1>7 DEF AddDevice, InitFails
<1>8. CASE WhoAmI
  BY <1>8 DEF WhoAmI, Unanswered, RemoveDevice, InitFails
<1>9. CASE SoftReset
  BY <1>9 DEF SoftReset, WriteMode
<1>10. CASE SetContinuous
  BY <1>10 DEF SetContinuous, WriteMode
<1>11. CASE MagEnter
  BY <1>11 DEF MagEnter
<1>12. CASE Poll
  BY <1>12 DEF Poll, NotReady, Unanswered
<1>13. CASE Drop
  BY <1>13 DEF Drop, RemoveDevice
<1>14. CASE ReadData
  BY <1>14 DEF ReadData, Unanswered
<1>15. CASE Update
  BY <1>15 DEF Update
<1>16. CASE Disturb
  BY <1>16 DEF Disturb
<1>17. CASE Stick \/ Release
  <2>1. UNCHANGED <<bank, last_bank, pc, err, burst, icm_ok>>
    BY <1>17 DEF Stick, Release, task
  <2>2. QED
    BY <2>1
<1>18. CASE CheckId
  BY <1>18 DEF CheckId
<1>19. CASE Configure
  BY <1>19, BanksOfConfig DEF Configure
<1>20. CASE Disabled
  BY <1>20 DEF Disabled
<1>21. CASE UNCHANGED vars
  BY <1>21 DEF vars
<1>22. QED
  BY <1>1, <1>2, <1>3, <1>4, <1>5, <1>6, <1>7, <1>8, <1>9, <1>10, <1>11, <1>12,
     <1>13, <1>14, <1>15, <1>16, <1>17, <1>18, <1>19, <1>20, <1>21
     DEF Next, TaskStep, BootIcm, ReadIcm, MagInit, MagGetData

(* What is stored as acceleration was read from the bank that has it: the  *)
(* retries of read_icm20948 make up for a driver that keeps a bank it did  *)
(* not manage to select.  ConfigOk is needed: without it the run           *)
(* imu_config has a counterexample.                                        *)
THEOREM BankRight == ConfigOk => (Spec => []RightBank)
<1> SUFFICES ASSUME ConfigOk PROVE Spec => []RightBank
  OBVIOUS
<1>1. Init => BankInv
  BY BankInit
<1>2. BankInv => RightBank
  BY DEF BankInv, RightBank
<1>3. QED
  BY <1>1, <1>2, BankStep, OwnHolds, PTL DEF Spec, OwnInv

(***************************************************************************)
(* Without ConfigOk the driver may be wrong about the bank, but only until *)
(* it selects the settings' bank for the first time.                       *)
(***************************************************************************)
SettingsSelected ==
  \/ pc \in {"settings", "returned", "mag", "drdy", "drop", "data", "update"}
  \/ pc \in {"bypass", "add", "wia", "reset", "mode"} /\ ctx # "boot"

LastInv == SettingsSelected => last_bank = 2

LEMMA LastStep == FlagsOK /\ HandleInv /\ LastInv /\ [Next]_vars => LastInv'
<1> SUFFICES ASSUME FlagsOK, HandleInv, LastInv, [Next]_vars PROVE LastInv'
  OBVIOUS
<1> USE DEF FlagsOK, LastInv, SettingsSelected, Goto, Again, GiveUp, device, result, imu
<1>1. CASE CheckId \/ Configure \/ Disabled \/ SelectData
  BY <1>1 DEF HandleInv, CheckId, Configure, Disabled, SelectData
<1>2. CASE SelectSettings
  BY <1>2 DEF SelectSettings, SetBank
<1>3. CASE ReadBurst \/ ReadSettings \/ AgmtReturns
  BY <1>3 DEF ReadBurst, ReadSettings, AgmtReturns
<1>4. CASE Bypass \/ AddDevice
  BY <1>4 DEF Bypass, AddDevice, InitFails
<1>5. CASE WhoAmI
  BY <1>5 DEF WhoAmI, InitFails
<1>6. CASE SoftReset \/ SetContinuous
  BY <1>6 DEF SoftReset, SetContinuous
<1>7. CASE MagEnter \/ Poll
  BY <1>7 DEF MagEnter, Poll
<1>8. CASE Drop \/ ReadData \/ Update
  BY <1>8 DEF Drop, ReadData, Update
<1>9. CASE Disturb \/ Stick \/ Release \/ UNCHANGED vars
  <2>1. UNCHANGED <<pc, ctx, last_bank>>
    BY <1>9 DEF Disturb, Stick, Release, task, vars
  <2>2. QED
    BY <2>1
<1>10. QED
  BY <1>1, <1>2, <1>3, <1>4, <1>5, <1>6, <1>7, <1>8, <1>9
     DEF Next, TaskStep, BootIcm, ReadIcm, MagInit, MagGetData

(* The configuration is over for good.                                     *)
LEMMA ConfiguredStep == pc \notin {"id", "config"} /\ [Next]_vars => pc' \notin {"id", "config"}
<1> SUFFICES ASSUME pc \notin {"id", "config"}, [Next]_vars PROVE pc' \notin {"id", "config"}
  OBVIOUS
<1>1. CASE TaskStep
  BY <1>1 DEF TaskStep, BootIcm, ReadIcm, MagInit, MagGetData, CheckId, Configure, Disabled,
     SelectData, ReadBurst, SelectSettings, ReadSettings, AgmtReturns, Bypass, AddDevice,
     WhoAmI, SoftReset, SetContinuous, MagEnter, Poll, Drop, ReadData, Update, Goto, Again,
     InitFails
<1>2. CASE Disturb \/ Stick \/ Release \/ UNCHANGED vars
  BY <1>2 DEF Disturb, Stick, Release, task, vars
<1>3. QED
  BY <1>1, <1>2 DEF Next

FirstReadOver == pc = "select" /\ last_bank = 2

LEMMA BankComesRight ==
  Init /\ []OwnInv /\ [][Next]_vars
    => /\ [](pc = "update" => last_bank = 2)
       /\ [](FirstReadOver => []RightBank)
<1> DEFINE Right == BankInv /\ pc \notin {"id", "config"}
<1>1. Init => LastInv
  BY DEF Init, LastInv, SettingsSelected
<1>2. LastInv => (pc = "update" => last_bank = 2)
  BY DEF LastInv, SettingsSelected
<1>3. FirstReadOver => Right
  BY DEF FirstReadOver, BankInv
<1>4. OwnInv /\ Right /\ [Next]_vars => Right'
  BY BankStep, ConfiguredStep DEF OwnInv
<1>5. Right => RightBank
  BY DEF BankInv, RightBank
<1>6. OwnInv => FlagsOK /\ HandleInv
  BY DEF OwnInv
<1>7. QED
  BY <1>1, <1>2, <1>3, <1>4, <1>5, <1>6, LastStep, PTL

(* Whatever failed while the ICM was configured, only the first reading    *)
(* can be of the wrong bank: every later one, of the same cycle or of      *)
(* another, begins with the settings' bank selected, and from such a       *)
(* beginning on all that is stored was read from the bank that has it.     *)
THEOREM BankRecovers ==
  Spec => /\ [](pc = "update" => last_bank = 2)
          /\ [](FirstReadOver => []RightBank)
BY BankComesRight, OwnHolds, PTL DEF Spec

=============================================================================
