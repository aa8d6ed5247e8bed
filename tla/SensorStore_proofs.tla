------------------------- MODULE SensorStore_proofs -------------------------
(***************************************************************************)
(* Proofs about SensorStore for every set of scalar fields and every       *)
(* threshold, wrap and running time.  Only OldHidden needs an assumption:  *)
(* that the device has run for less than Wrap.                             *)
(***************************************************************************)
EXTENDS JsonBuf, TLAPS

Holding == {"value", "valid", "ts", "unlock"}

(* The mutex is where the places of the two tasks say it is.               *)
MutexInv ==
  /\ s_data_mutex = "writer" <=> wpc \in Holding
  /\ s_data_mutex = "reader" <=> rpc \in {"copy", "unlock"}

(* No sample is of the future, and an update's is not older than any held. *)
NoFuture ==
  /\ job.sample <= time
  /\ \A f \in Fields : s_sensor_data.value[f] <= time
  /\ wpc # "idle" => \A f \in Fields : s_sensor_data.value[f] <= job.sample
  /\ \A f \in Timed : s_sensor_data.ts[f] <= time

(* How far the update in progress has come.                                *)
JobInv ==
  /\ wpc = "ts" => job.field \in Timed
  /\ wpc \in {"valid", "ts", "unlock"} =>
       \A f \in Written : s_sensor_data.value[f] = job.sample
  /\ wpc \in {"ts", "unlock"} =>
       \A f \in Written :
         s_sensor_data.valid[f] = (f = "mag" /\ job.field = "imu" => job.mag)

(* A timestamp goes with its value, except in the middle of an update.     *)
StampInv ==
  \A f \in Timed :
    s_sensor_data.valid[f] =>
      \/ s_sensor_data.value[f] = s_sensor_data.by[f]
      \/ job.field = f /\ wpc \in {"valid", "ts"}

MagInv(s) == s.valid["mag"] => s.value["mag"] >= s.value["imu"]

StoreInv == NoFuture /\ JobInv /\ StampInv /\ MagInv(s_sensor_data)

(* The copy is consistent, and the clock is read after it is made.         *)
Rendered ==
  {f \in Timed : Fresh(f)} \cup {f \in {"mag"} : Fresh("imu") /\ data.valid["mag"]}
CopyInv ==
  /\ \A f \in Timed : data.ts[f] <= time
  /\ rpc \in {"render", "return"} => \A f \in Timed : data.ts[f] <= now_ms
  /\ rpc = "return" => json = Rendered
  /\ NotTorn
  /\ MagInv(data)

IInv == TypeOK /\ MutexInv /\ StoreInv /\ CopyInv

LEMMA FieldFacts ==
  /\ "imu" \in Timed /\ "mag" \in Fields /\ "mag" \notin Timed
  /\ Timed \subseteq Fields
  BY ScalarsAssumption DEF Timed, Fields

LEMMA TimeFacts == Time \subseteq Int /\ 0 \in Time
  BY TimesAssumption DEF Time

LEMMA BlankType == Blank \in Store
  BY TimeFacts DEF Blank, Store

LEMMA InitIInv == Init => IInv
  <1> SUFFICES ASSUME Init PROVE IInv
    OBVIOUS
  <1>1. TypeOK
    BY BlankType, TimeFacts, FieldFacts DEF Init, TypeOK
  <1>2. MutexInv
    BY DEF Init, MutexInv, Holding
  <1>3. StoreInv
    BY FieldFacts DEF Init, StoreInv, NoFuture, JobInv, StampInv, MagInv, Blank
  <1>4. CopyInv
    BY FieldFacts DEF Init, CopyInv, NotTorn, MagInv, Blank
  <1>5. QED
    BY <1>1, <1>2, <1>3, <1>4 DEF IInv

-----------------------------------------------------------------------------
(* Types                                                                   *)

LEMMA UpdateType == TypeOK /\ Update => TypeOK'
  <1> SUFFICES ASSUME TypeOK, Update PROVE TypeOK'
    OBVIOUS
  <1> USE DEF reader
  <1>1. ASSUME NEW f \in Fields, NEW mag \in BOOLEAN, Call(f, mag) PROVE TypeOK'
    BY <1>1 DEF Call, TypeOK
  <1>2. CASE LockForUpdate
    BY <1>2 DEF LockForUpdate, TypeOK
  <1>3. CASE WriteValue
    <2>1. s_sensor_data' \in Store
      BY <1>3 DEF WriteValue, TypeOK, Store
    <2>2. QED
      BY <1>3, <2>1 DEF WriteValue, TypeOK
  <1>4. CASE WriteValid
    <2>1. s_sensor_data' \in Store
      BY <1>4 DEF WriteValid, TypeOK, Store
    <2>2. QED
      BY <1>4, <2>1 DEF WriteValid, TypeOK
  <1>5. CASE WriteTimestamp
    <2>1. s_sensor_data' \in Store
      BY <1>5 DEF WriteTimestamp, TypeOK, Store
    <2>2. QED
      BY <1>5, <2>1 DEF WriteTimestamp, TypeOK
  <1>6. CASE UnlockAfterUpdate
    BY <1>6 DEF UnlockAfterUpdate, TypeOK
  <1>7. QED
    BY <1>1, <1>2, <1>3, <1>4, <1>5, <1>6, FieldFacts DEF Update

LEMMA GetJsonType == TypeOK /\ GetJson => TypeOK'
  <1> SUFFICES ASSUME TypeOK, GetJson PROVE TypeOK'
    OBVIOUS
  <1> USE DEF writer, After
  <1>1. CASE Ask
    BY <1>1 DEF Ask, TypeOK
  <1>2. CASE LockForCopy
    BY <1>2 DEF LockForCopy, TypeOK
  <1>3. CASE Copy
    BY <1>3 DEF Copy, TypeOK
  <1>4. CASE UnlockAfterCopy
    BY <1>4 DEF UnlockAfterCopy, TypeOK
  <1>5. CASE ReadClock
    BY <1>5 DEF ReadClock, TypeOK
  <1>6. CASE Render
    <2>1. json' \subseteq Fields
      BY <1>6, FieldFacts DEF Render
    <2>2. QED
      BY <1>6, <2>1 DEF Render, TypeOK
  <1>7. CASE Return \/ TooLong
    BY <1>7, BlankType, TimeFacts DEF Return, TooLong, TypeOK
  <1>8. QED
    BY <1>1, <1>2, <1>3, <1>4, <1>5, <1>6, <1>7 DEF GetJson

LEMMA TypeStep == TypeOK /\ [Next]_vars => TypeOK'
  <1> SUFFICES ASSUME TypeOK, [Next]_vars PROVE TypeOK'
    OBVIOUS
  <1>1. CASE Tick
    BY <1>1, TimesAssumption DEF Tick, TypeOK, Time
  <1>2. CASE UNCHANGED vars
    BY <1>2 DEF vars, TypeOK
  <1>3. QED
    BY <1>1, <1>2, UpdateType, GetJsonType DEF Next

-----------------------------------------------------------------------------
(* The mutex                                                               *)

LEMMA MutexStep == TypeOK /\ MutexInv /\ [Next]_vars => MutexInv'
  <1> SUFFICES ASSUME TypeOK, MutexInv, [Next]_vars PROVE MutexInv'
    OBVIOUS
  <1> USE DEF MutexInv, Holding
  <1>1. CASE Tick
    BY <1>1 DEF Tick
  <1>2. CASE Update
    <2> USE DEF reader
    <2>1. CASE \E f \in Fields, mag \in BOOLEAN : Call(f, mag)
      BY <2>1 DEF Call
    <2>2. CASE LockForUpdate
      BY <2>2 DEF LockForUpdate
    <2>3. CASE WriteValue
      BY <2>3 DEF WriteValue
    <2>4. CASE WriteValid
      BY <2>4 DEF WriteValid
    <2>5. CASE WriteTimestamp
      BY <2>5 DEF WriteTimestamp
    <2>6. CASE UnlockAfterUpdate
      BY <2>6 DEF UnlockAfterUpdate
    <2>7. QED
      BY <1>2, <2>1, <2>2, <2>3, <2>4, <2>5, <2>6, FieldFacts DEF Update
  <1>3. CASE GetJson
    BY <1>3 DEF GetJson, Ask, LockForCopy, Copy, UnlockAfterCopy, ReadClock,
                Render, Return, TooLong, writer, After
  <1>4. CASE UNCHANGED vars
    BY <1>4 DEF vars
  <1>5. QED
    BY <1>1, <1>2, <1>3, <1>4 DEF Next

-----------------------------------------------------------------------------
(* The store                                                               *)

(* A step that leaves the store and the update alone leaves StoreInv true, *)
(* even if time passes.                                                    *)
LEMMA StoreSame ==
  ASSUME TypeOK, TypeOK', StoreInv, UNCHANGED writer, time <= time'
  PROVE  StoreInv'
  <1>1. time \in Int /\ time' \in Int /\ job.sample \in Int
    BY TimeFacts DEF TypeOK
  <1>2. \A f \in Fields : s_sensor_data.value[f] \in Int
    BY TimeFacts DEF TypeOK, Store
  <1>3. \A f \in Timed : s_sensor_data.ts[f] \in Int
    BY TimeFacts DEF TypeOK, Store
  <1>4. NoFuture'
    BY <1>1, <1>2, <1>3 DEF StoreInv, NoFuture, writer
  <1>5. QED
    BY <1>4 DEF StoreInv, JobInv, StampInv, MagInv, Written, writer

LEMMA StoreUpdate == TypeOK /\ TypeOK' /\ StoreInv /\ Update => StoreInv'
  <1> SUFFICES ASSUME TypeOK, TypeOK', StoreInv, Update PROVE StoreInv'
    OBVIOUS
  <1>t. /\ time \in Int /\ job.sample \in Int
        /\ \A f \in Fields : s_sensor_data.value[f] \in Int
        /\ s_sensor_data \in Store
    BY TimeFacts DEF TypeOK, Store
  <1> USE DEF StoreInv
  <1>1. ASSUME NEW f \in Fields, NEW mag \in BOOLEAN, Call(f, mag) PROVE StoreInv'
    <2>1. /\ job'.sample = time /\ wpc' = "lock"
          /\ UNCHANGED <<time, s_sensor_data>>
      BY <1>1 DEF Call
    <2>2. NoFuture'
      BY <2>1, <1>t DEF NoFuture
    <2>3. JobInv' /\ MagInv(s_sensor_data)'
      BY <2>1 DEF JobInv, MagInv
    <2>4. StampInv'
      BY <1>1, <2>1 DEF StampInv, Call
    <2>5. QED
      BY <2>2, <2>3, <2>4
  <1>2. CASE LockForUpdate
    BY <1>2 DEF LockForUpdate, NoFuture, JobInv, StampInv, MagInv
  <1>3. CASE WriteValue
    <2>1. /\ wpc = "value" /\ wpc' = "valid" /\ UNCHANGED <<time, job>>
          /\ \A f \in Fields : s_sensor_data'.value[f] =
                IF f \in Written THEN job.sample ELSE s_sensor_data.value[f]
          /\ UNCHANGED <<s_sensor_data.valid, s_sensor_data.ts, s_sensor_data.by>>
      BY <1>3, <1>t DEF WriteValue, Store
    <2>2. NoFuture'
      BY <2>1, <1>t DEF NoFuture
    <2>3. JobInv'
      BY <2>1, FieldFacts DEF JobInv, Written, TypeOK
    <2>4. StampInv'
      BY <2>1, FieldFacts DEF StampInv, Written
    <2>5. MagInv(s_sensor_data)'
      BY <2>1, <1>t, FieldFacts DEF MagInv, NoFuture, Written
    <2>6. QED
      BY <2>2, <2>3, <2>4, <2>5
  <1>4. CASE WriteValid
    <2>1. /\ wpc = "valid" /\ UNCHANGED <<time, job>>
          /\ wpc' = IF job.field \in Timed THEN "ts" ELSE "unlock"
          /\ \A f \in Fields : f \notin Written =>
                s_sensor_data'.valid[f] = s_sensor_data.valid[f]
          /\ \A f \in Written : s_sensor_data'.valid[f] =
                (f = "mag" /\ job.field = "imu" => job.mag)
          /\ UNCHANGED <<s_sensor_data.value, s_sensor_data.ts, s_sensor_data.by>>
      <3>1. Written \subseteq Fields
        BY FieldFacts DEF Written, TypeOK
      <3>2. QED
        BY <1>4, <1>t, <3>1 DEF WriteValid, Store
    <2>2. NoFuture'
      BY <2>1 DEF NoFuture
    <2>3. JobInv'
      BY <2>1 DEF JobInv, Written
    <2>4. StampInv'
      BY <2>1, FieldFacts DEF StampInv, Written
    <2>5. MagInv(s_sensor_data)'
      <3>1. CASE "mag" \in Written
        <4>1. s_sensor_data.value["mag"] = job.sample
          BY <2>1, <3>1 DEF JobInv
        <4>2. s_sensor_data.value["imu"] <= job.sample
          BY <2>1, FieldFacts DEF NoFuture
        <4>3. QED
          BY <2>1, <4>1, <4>2, <1>t, FieldFacts DEF MagInv
      <3>2. CASE "mag" \notin Written
        BY <2>1, <3>2, FieldFacts DEF MagInv
      <3>3. QED
        BY <3>1, <3>2
    <2>6. QED
      BY <2>2, <2>3, <2>4, <2>5
  <1>5. CASE WriteTimestamp
    <2>1. /\ wpc = "ts" /\ wpc' = "unlock" /\ UNCHANGED <<time, job>>
          /\ \A f \in Timed : /\ s_sensor_data'.ts[f] =
                                IF f = job.field THEN time ELSE s_sensor_data.ts[f]
                             /\ s_sensor_data'.by[f] =
                                IF f = job.field THEN job.sample ELSE s_sensor_data.by[f]
          /\ UNCHANGED <<s_sensor_data.value, s_sensor_data.valid>>
      BY <1>5, <1>t DEF WriteTimestamp, Store
    <2>2. NoFuture'
      BY <2>1, <1>t DEF NoFuture
    <2>3. JobInv'
      BY <2>1 DEF JobInv, Written
    <2>4. ASSUME NEW f \in Timed, s_sensor_data'.valid[f]
          PROVE  s_sensor_data'.value[f] = s_sensor_data'.by[f]
      <3>1. CASE f = job.field
        <4>1. f \in Written
          BY <3>1 DEF Written
        <4>2. s_sensor_data.value[f] = job.sample
          BY <2>1, <4>1 DEF JobInv
        <4>3. QED
          BY <2>1, <3>1, <4>2
      <3>2. CASE f # job.field
        BY <2>1, <2>4, <3>2 DEF StampInv
      <3>3. QED
        BY <3>1, <3>2
    <2>5. StampInv' /\ MagInv(s_sensor_data)'
      BY <2>1, <2>4 DEF StampInv, MagInv
    <2>6. QED
      BY <2>2, <2>3, <2>4, <2>5
  <1>6. CASE UnlockAfterUpdate
    BY <1>6 DEF UnlockAfterUpdate, NoFuture, JobInv, StampInv, MagInv
  <1>7. QED
    BY <1>1, <1>2, <1>3, <1>4, <1>5, <1>6, FieldFacts DEF Update

LEMMA StoreStep == TypeOK /\ TypeOK' /\ StoreInv /\ [Next]_vars => StoreInv'
  <1> SUFFICES ASSUME TypeOK, TypeOK', StoreInv, [Next]_vars PROVE StoreInv'
    OBVIOUS
  <1>t. time \in Int
    BY TimeFacts DEF TypeOK
  <1>1. CASE Tick
    <2>1. UNCHANGED writer /\ time <= time'
      BY <1>1, <1>t DEF Tick, writer
    <2>2. QED
      BY <2>1, StoreSame
  <1>2. CASE Update
    BY <1>2, StoreUpdate
  <1>3. CASE GetJson \/ UNCHANGED vars
    <2>1. UNCHANGED writer /\ time' = time
      BY <1>3 DEF GetJson, Ask, LockForCopy, Copy, UnlockAfterCopy, ReadClock,
                  Render, Return, TooLong, vars, writer
    <2>2. QED
      BY <2>1, <1>t, StoreSame
  <1>4. QED
    BY <1>1, <1>2, <1>3 DEF Next

-----------------------------------------------------------------------------
(* The copy                                                                *)

LEMMA CopySame ==
  ASSUME TypeOK, TypeOK', CopyInv, UNCHANGED reader, time <= time'
  PROVE  CopyInv'
  <1>1. time \in Int /\ time' \in Int
    BY TimeFacts DEF TypeOK
  <1>2. \A f \in Timed : data.ts[f] \in Int
    BY TimeFacts DEF TypeOK, Store
  <1>3. \A f \in Timed : data'.ts[f] <= time'
    BY <1>1, <1>2 DEF CopyInv, reader
  <1>4. QED
    BY <1>3 DEF CopyInv, reader, NotTorn, MagInv, Rendered, Fresh

LEMMA CopyGetJson == IInv /\ TypeOK' /\ GetJson => CopyInv'
  <1> SUFFICES ASSUME IInv, TypeOK', GetJson PROVE CopyInv'
    OBVIOUS
  <1> USE DEF After, CopyInv, NotTorn, MagInv
  <1>c. CopyInv
    BY DEF IInv
  <1>1. CASE Ask
    BY <1>1, <1>c DEF Ask
  <1>2. CASE LockForCopy
    BY <1>2, <1>c DEF LockForCopy
  <1>3. CASE Copy
    <2>1. wpc \notin Holding
      BY <1>3 DEF Copy, IInv, MutexInv
    <2>2. \A f \in Timed : s_sensor_data.valid[f] =>
                            s_sensor_data.value[f] = s_sensor_data.by[f]
      BY <2>1 DEF Holding, IInv, StoreInv, StampInv
    <2>3. \A f \in Timed : s_sensor_data.ts[f] <= time
      BY DEF IInv, StoreInv, NoFuture
    <2>4. data' = s_sensor_data /\ rpc' = "unlock" /\ time' = time
      BY <1>3 DEF Copy
    <2>5. QED
      BY <2>2, <2>3, <2>4 DEF IInv, StoreInv
  <1>4. CASE UnlockAfterCopy
    BY <1>4, <1>c DEF UnlockAfterCopy
  <1>5. CASE ReadClock
    BY <1>5, <1>c DEF ReadClock
  <1>6. CASE Render
    BY <1>6, <1>c DEF Render, Rendered, Fresh
  <1>7. CASE Return \/ TooLong
    <2>1. \A f \in Timed : 0 <= time
      BY DEF IInv, TypeOK, Time
    <2>2. QED
      BY <1>7, <2>1, FieldFacts DEF Return, TooLong, Blank
  <1>8. QED
    BY <1>1, <1>2, <1>3, <1>4, <1>5, <1>6, <1>7 DEF GetJson

LEMMA StepIInv == IInv /\ [Next]_vars => IInv'
  <1> SUFFICES ASSUME IInv, [Next]_vars PROVE IInv'
    OBVIOUS
  <1>1. TypeOK'
    BY TypeStep DEF IInv
  <1>2. MutexInv'
    BY MutexStep DEF IInv
  <1>3. StoreInv'
    BY <1>1, StoreStep DEF IInv
  <1>4. CopyInv'
    <2>t. time \in Int
      BY TimeFacts DEF IInv, TypeOK
    <2>1. CASE GetJson
      BY <1>1, <2>1, CopyGetJson
    <2>2. CASE Tick \/ Update \/ UNCHANGED vars
      <3>1. UNCHANGED reader /\ time <= time'
        BY <2>2, <2>t DEF Tick, Update, Call, LockForUpdate, WriteValue, WriteValid,
                          WriteTimestamp, UnlockAfterUpdate, vars, reader
      <3>2. QED
        BY <1>1, <3>1, CopySame DEF IInv
    <2>3. QED
      BY <2>1, <2>2 DEF Next
  <1>5. QED
    BY <1>1, <1>2, <1>3, <1>4 DEF IInv

LEMMA Invariance == Spec => []IInv
  BY InitIInv, StepIInv, PTL DEF Spec

-----------------------------------------------------------------------------
(* What the invariant gives                                                *)

LEMMA DivMod ==
  ASSUME NEW n \in Int
  PROVE  n % Wrap \in 0..Wrap - 1 /\ n \div Wrap \in Int /\ n = Wrap * (n \div Wrap) + (n % Wrap)
  <1>1. Wrap \in Nat /\ 0 < Wrap
    BY TimesAssumption
  <1>2. QED
    BY <1>1

LEMMA NoMultiple ==
  ASSUME NEW k \in Int, -Wrap < Wrap * k, Wrap * k < Wrap
  PROVE  k = 0
  <1>w. Wrap \in Nat /\ 0 < Wrap
    BY TimesAssumption
  <1>1. k >= 1 => Wrap * k >= Wrap
    BY <1>w
  <1>2. k <= -1 => Wrap * k <= -Wrap
    BY <1>w
  <1>3. QED
    BY <1>w, <1>1, <1>2

(* Two numbers that differ by a multiple of Wrap have the same remainder.  *)
LEMMA SameRemainder ==
  ASSUME NEW m \in Int, NEW n \in Int, NEW k \in Int, m = n + Wrap * k
  PROVE  m % Wrap = n % Wrap
  <1>w. Wrap \in Nat /\ 0 < Wrap
    BY TimesAssumption
  <1> DEFINE qm == m \div Wrap
             rm == m % Wrap
             qn == n \div Wrap
             rn == n % Wrap
  <1>1. /\ rm \in 0..Wrap - 1 /\ qm \in Int /\ m = Wrap * qm + rm
        /\ rn \in 0..Wrap - 1 /\ qn \in Int /\ n = Wrap * qn + rn
    BY DivMod
  <1> HIDE DEF qm, rm, qn, rn
  <1>2. Wrap * (qn + k - qm) = Wrap * qn + Wrap * k - Wrap * qm
    BY <1>w, <1>1
  <1>3. qn + k - qm \in Int /\ -Wrap < Wrap * (qn + k - qm) /\ Wrap * (qn + k - qm) < Wrap
    BY <1>w, <1>1, <1>2
  <1>4. qn + k - qm = 0
    BY <1>3, NoMultiple
  <1>5. rm = rn
    BY <1>w, <1>1, <1>2, <1>4
  <1>6. QED
    BY <1>5 DEF rm, rn

(* The uint32_t difference of two readings of the clock is the time        *)
(* between them, less whole turns of the clock.                            *)
LEMMA AgeIsTrue ==
  ASSUME NEW ts \in Time, NEW now \in Time
  PROVE  ((now % Wrap) - (ts % Wrap)) % Wrap = (now - ts) % Wrap
  <1>w. Wrap \in Nat /\ ts \in Int /\ now \in Int
    BY TimesAssumption DEF Time
  <1> DEFINE qn == now \div Wrap
             rn == now % Wrap
             qt == ts \div Wrap
             rt == ts % Wrap
  <1>1. /\ rn \in Int /\ qn \in Int /\ now = Wrap * qn + rn
        /\ rt \in Int /\ qt \in Int /\ ts = Wrap * qt + rt
    BY <1>w, DivMod
  <1> HIDE DEF qn, rn, qt, rt
  <1>2. Wrap * (qt - qn) = Wrap * qt - Wrap * qn
    BY <1>w, <1>1
  <1>3. /\ rn - rt \in Int /\ now - ts \in Int /\ qt - qn \in Int
        /\ rn - rt = (now - ts) + Wrap * (qt - qn)
    BY <1>w, <1>1, <1>2
  <1>4. (rn - rt) % Wrap = (now - ts) % Wrap
    BY <1>3, SameRemainder
  <1>5. QED
    BY <1>4 DEF rn, rt

LEMMA SmallAge ==
  ASSUME NEW n \in Int, 0 <= n, n < Wrap
  PROVE  n % Wrap = n
  BY TimesAssumption

(* The shared values, the copy and the JSON are of their types.            *)
THEOREM TypeCorrect == Spec => []TypeOK
  BY Invariance, PTL DEF IInv

(* A reader never sees a value with the timestamp of another sample.       *)
THEOREM NeverTorn == Spec => []NotTorn
  <1>1. IInv => NotTorn
    BY DEF IInv, CopyInv
  <1>2. QED
    BY Invariance, <1>1, PTL

(* The JSON never shows a magnetometer reading with a later IMU sample.    *)
THEOREM MagNeverOlder == Spec => []MagNotOlder
  <1>1. ASSUME IInv, rpc = "return", "mag" \in json
        PROVE  data.value["mag"] >= data.value["imu"]
    <2>1. json = Rendered /\ MagInv(data)
      BY <1>1 DEF IInv, CopyInv
    <2>2. "mag" \in Rendered
      BY <1>1, <2>1
    <2>3. data.valid["mag"]
      BY <2>2, FieldFacts DEF Rendered
    <2>4. QED
      BY <2>1, <2>3 DEF MagInv
  <1>2. IInv => MagNotOlder
    BY <1>1 DEF MagNotOlder
  <1>3. QED
    BY Invariance, <1>2, PTL

(* How long the device has run does not matter to what the code computes:  *)
(* a field is shown if its age is below the threshold after whole turns of *)
(* the clock are taken from it.                                            *)
Age(f) == now_ms - data.ts[f]
ShownByRemainder ==
  rpc = "return" =>
    \A f \in Timed : f \in json <=> data.valid[f] /\ Age(f) % Wrap < Stale

LEMMA Shown == IInv => ShownByRemainder
  <1> SUFFICES ASSUME IInv, rpc = "return", NEW f \in Timed
               PROVE  f \in json <=> data.valid[f] /\ Age(f) % Wrap < Stale
    BY DEF ShownByRemainder
  <1>1. data.ts[f] \in Time /\ now_ms \in Time
    BY DEF IInv, TypeOK, Store
  <1>2. ((now_ms % Wrap) - (data.ts[f] % Wrap)) % Wrap = Age(f) % Wrap
    BY <1>1, AgeIsTrue DEF Age
  <1>3. f \in json <=> Fresh(f)
    BY FieldFacts DEF IInv, CopyInv, Rendered
  <1>4. QED
    BY <1>2, <1>3 DEF Fresh

(* The JSON is right of every field that was updated within one turn of    *)
(* the clock: it shows it if and only if it is valid and younger than the  *)
(* threshold.  What it says of a field left alone for longer (49.7 days)   *)
(* is what ShownByRemainder says.                                          *)
RightWithinTurn ==
  rpc = "return" =>
    \A f \in Timed : Age(f) < Wrap =>
      (f \in json <=> data.valid[f] /\ Age(f) < Stale)

LEMMA RightInTurn == IInv => RightWithinTurn
  <1> SUFFICES ASSUME IInv, rpc = "return", NEW f \in Timed, Age(f) < Wrap
               PROVE  f \in json <=> data.valid[f] /\ Age(f) < Stale
    BY DEF RightWithinTurn
  <1>1. data.ts[f] \in Time /\ now_ms \in Time /\ data.ts[f] <= now_ms
    BY DEF IInv, CopyInv, TypeOK, Store
  <1>2. Age(f) \in Int /\ 0 <= Age(f)
    BY <1>1, TimesAssumption DEF Age, Time
  <1>3. Age(f) % Wrap = Age(f)
    BY <1>2, SmallAge
  <1>4. QED
    BY <1>3, Shown DEF ShownByRemainder

THEOREM FreshByTheClock == Spec => [](ShownByRemainder /\ RightWithinTurn)
  BY Invariance, Shown, RightInTurn, PTL

(* However often the clock wraps, every field that is shown was updated    *)
(* less than the threshold ago, or not for a whole turn of the clock.      *)
THEOREM OnlyFreshShown == Spec => []FreshOnly
  <1>1. ASSUME IInv, rpc = "return", NEW f \in json \cap Timed
        PROVE  Age(f) < Stale \/ Age(f) >= Wrap
    <2>1. Age(f) \in Int
      <3>1. data.ts[f] \in Time /\ now_ms \in Time
        BY <1>1 DEF IInv, TypeOK, Store
      <3>2. QED
        BY <3>1, TimesAssumption DEF Age, Time
    <2>2. CASE Age(f) < Wrap
      BY <1>1, <2>2, RightInTurn DEF RightWithinTurn
    <2>3. CASE ~(Age(f) < Wrap)
      BY <2>1, <2>3, TimesAssumption
    <2>4. QED
      BY <2>2, <2>3
  <1>2. IInv => FreshOnly
    BY <1>1 DEF FreshOnly, Age
  <1>3. QED
    BY Invariance, <1>2, PTL

(* In particular, until the clock wraps, nothing old is shown at all.      *)
OldHidden == rpc = "return" => \A f \in json \cap Timed : Age(f) < Stale

THEOREM OldHiddenAtFirst == MaxTime < Wrap => (Spec => []OldHidden)
  <1> SUFFICES ASSUME MaxTime < Wrap PROVE Spec => []OldHidden
    OBVIOUS
  <1>1. ASSUME IInv, NEW f \in Timed PROVE Age(f) < Wrap
    <2>1. data.ts[f] \in 0..MaxTime /\ now_ms \in 0..MaxTime
      BY <1>1 DEF IInv, TypeOK, Store, Time
    <2>2. QED
      BY <2>1, TimesAssumption DEF Age
  <1>2. IInv => OldHidden
    BY <1>1, RightInTurn DEF RightWithinTurn, OldHidden
  <1>3. QED
    BY Invariance, <1>2, PTL

(* However long it runs, no valid field younger than the threshold is left *)
(* out: what the wrap can do is to show an old one.                        *)
THEOREM FreshNotHidden == Spec => []FreshKept
  <1>1. ASSUME IInv, rpc = "return", NEW f \in Timed, data.valid[f], Age(f) < Stale
        PROVE  f \in json
    <2>1. Age(f) \in Int
      <3>1. data.ts[f] \in Time /\ now_ms \in Time
        BY <1>1 DEF IInv, TypeOK, Store
      <3>2. QED
        BY <3>1, TimesAssumption DEF Age, Time
    <2>2. Age(f) < Wrap
      BY <1>1, <2>1, TimesAssumption
    <2>3. QED
      BY <1>1, <2>2, RightInTurn DEF RightWithinTurn
  <1>2. IInv => FreshKept
    BY <1>1 DEF FreshKept, Age
  <1>3. QED
    BY Invariance, <1>2, PTL

-----------------------------------------------------------------------------
(* The store as a register                                                 *)

Pending == IF wpc \in Holding THEN Written ELSE {}
ValidOf(f) == f = "mag" /\ job.field = "imu" => job.mag

LEMMA HeldIs ==
  /\ Held.value = [f \in Fields |-> IF f \in Pending THEN job.sample
                                    ELSE s_sensor_data.value[f]]
  /\ Held.valid = [f \in Fields |-> IF f \in Pending THEN ValidOf(f)
                                    ELSE s_sensor_data.valid[f]]
  /\ Held = [value |-> Held.value, valid |-> Held.valid]
  BY DEF Held, Pending, Holding, ValidOf

LEMMA SnapshotInit == Init => Snapshots!Init
  <1> SUFFICES ASSUME Init PROVE Snapshots!Init
    OBVIOUS
  <1>1. Held.value = [f \in Fields |-> 0] /\ Held.valid = [f \in Fields |-> FALSE]
    BY HeldIs DEF Init, Blank, Pending, Holding
  <1>2. Held = [value |-> [f \in Fields |-> 0], valid |-> [f \in Fields |-> FALSE]]
    BY <1>1, HeldIs
  <1>3. Reading = {}
    BY DEF Init, Reading
  <1>4. QED
    BY <1>2, <1>3 DEF Snapshots!Init

(* Having the mutex is the moment at which an update takes effect.         *)
LEMMA LockWrites == IInv /\ LockForUpdate => Snapshots!Write(job.sample)
  <1> SUFFICES ASSUME IInv, LockForUpdate PROVE Snapshots!Write(job.sample)
    OBVIOUS
  <1>1. /\ job.field \in Fields /\ job.sample \in Time /\ job.mag \in BOOLEAN
        /\ Written \subseteq Fields
    BY FieldFacts DEF IInv, TypeOK, Written
  <1>2. /\ wpc = "lock" /\ wpc' = "value"
        /\ UNCHANGED <<s_sensor_data, job, rpc, data>>
    BY DEF LockForUpdate, reader
  <1>3. Pending = {} /\ Pending' = Written
    BY <1>2 DEF Pending, Holding, Written
  <1>4. /\ Held.value = [f \in Fields |-> s_sensor_data.value[f]]
        /\ Held.valid = [f \in Fields |-> s_sensor_data.valid[f]]
    BY <1>3, HeldIs
  <1>5. /\ Held'.value = [f \in Fields |-> IF f \in Written THEN job.sample ELSE Held.value[f]]
        /\ Held'.valid = [f \in Fields |-> IF f \in Written THEN ValidOf(f) ELSE Held.valid[f]]
        /\ Held' = [value |-> Held'.value, valid |-> Held'.valid]
    BY <1>2, <1>3, <1>4 DEF Held, Pending, Holding, Written, ValidOf
  <1>6. \A f \in Fields : Held.value[f] <= job.sample
    BY <1>2, <1>4 DEF IInv, StoreInv, NoFuture
  <1>7. Reading' = Reading
    BY <1>2 DEF Reading
  <1>8. ASSUME NEW read, \A f \in Written : ValidOf(f) = (f \in read)
        PROVE  Snapshots!Replace(Written, read, job.sample)
    <2>1. [f \in Fields |-> IF f \in Written THEN ValidOf(f) ELSE Held.valid[f]]
            = [f \in Fields |-> IF f \in Written THEN f \in read ELSE Held.valid[f]]
      BY <1>8
    <2>2. QED
      BY <1>5, <1>6, <1>7, <2>1 DEF Snapshots!Replace
  <1>9. CASE job.field = "imu"
    <2>1. Written = {"imu", "mag"}
      BY <1>9 DEF Written
    <2>2. PICK read \in {{"imu"}, {"imu", "mag"}} : \A f \in Written : ValidOf(f) = (f \in read)
      BY <1>1, <1>9, <2>1 DEF ValidOf
    <2>3. QED
      BY <1>8, <2>1, <2>2 DEF Snapshots!Write
  <1>10. CASE job.field # "imu"
    <2>1. Written = {job.field} /\ \A f \in Written : ValidOf(f) = (f \in {job.field})
      BY <1>10 DEF Written, ValidOf
    <2>2. QED
      BY <1>1, <1>8, <1>10, <2>1 DEF Snapshots!Write
  <1>11. QED
    BY <1>9, <1>10

(* What it then writes was counted as written.                             *)
LEMMA WriterHolds ==
  ASSUME IInv, WriteValue \/ WriteValid \/ WriteTimestamp \/ UnlockAfterUpdate
  PROVE  Held' = Held /\ Reading' = Reading
  <1>1. /\ s_sensor_data \in Store /\ wpc \in Holding /\ UNCHANGED <<job, rpc, data>>
        /\ \A f \in Written : f \in Fields
    BY FieldFacts DEF IInv, TypeOK, Holding, reader, WriteValue, WriteValid, WriteTimestamp,
                      UnlockAfterUpdate, Written
  <1>2. Reading' = Reading
    BY <1>1 DEF Reading
  <1>3. Pending = Written
    BY <1>1 DEF Pending
  <1>4. ASSUME \A f \in Fields \ Written :
                  /\ s_sensor_data'.value[f] = s_sensor_data.value[f]
                  /\ s_sensor_data'.valid[f] = s_sensor_data.valid[f],
               wpc' \in Holding
        PROVE  Held' = Held
    <2>1. Pending' = Written
      BY <1>1, <1>4 DEF Pending, Holding, Written
    <2>2. Held'.value = Held.value /\ Held'.valid = Held.valid
      BY <1>1, <1>3, <1>4, <2>1 DEF Held, Pending, ValidOf, Holding, Written
    <2>3. QED
      BY <2>2 DEF Held
  <1>5. CASE WriteValue \/ WriteValid \/ WriteTimestamp
    <2>1. wpc' \in Holding
      BY <1>5 DEF WriteValue, WriteValid, WriteTimestamp, Holding
    <2>2. \A f \in Fields \ Written :
            /\ s_sensor_data'.value[f] = s_sensor_data.value[f]
            /\ s_sensor_data'.valid[f] = s_sensor_data.valid[f]
      <3>1. CASE WriteValue
        BY <1>1, <3>1 DEF WriteValue, Store
      <3>2. CASE WriteValid
        BY <1>1, <3>2 DEF WriteValid, Store
      <3>3. CASE WriteTimestamp
        BY <1>1, <3>3 DEF WriteTimestamp, Store
      <3>4. QED
        BY <1>5, <3>1, <3>2, <3>3
    <2>3. QED
      BY <1>2, <1>4, <2>1, <2>2
  <1>6. CASE UnlockAfterUpdate
    <2>1. wpc = "unlock" /\ wpc' = "idle" /\ UNCHANGED s_sensor_data
      BY <1>6 DEF UnlockAfterUpdate
    <2>2. \A f \in Written : /\ s_sensor_data.value[f] = job.sample
                             /\ s_sensor_data.valid[f] = ValidOf(f)
      BY <2>1 DEF IInv, StoreInv, JobInv, ValidOf
    <2>3. Pending' = {}
      BY <2>1 DEF Pending, Holding
    <2>4. Held'.value = Held.value /\ Held'.valid = Held.valid
      BY <1>1, <1>3, <2>1, <2>2, <2>3 DEF Held, Pending, ValidOf, Holding, Written
    <2>5. QED
      BY <1>2, <2>4 DEF Held
  <1>7. QED
    BY <1>5, <1>6

LEMMA SnapshotStep == IInv /\ [Next]_vars => [Snapshots!Next]_(Snapshots!snapshotVars)
  <1> SUFFICES ASSUME IInv, [Next]_vars
               PROVE  Snapshots!Next \/ (Held' = Held /\ Reading' = Reading)
    BY DEF Snapshots!snapshotVars
  <1>1. CASE Tick \/ UNCHANGED vars
    BY <1>1 DEF Tick, vars, Held, Reading, Written
  <1>2. ASSUME NEW f \in Fields, NEW mag \in BOOLEAN, Call(f, mag)
        PROVE  Held' = Held /\ Reading' = Reading
    BY <1>2 DEF Call, reader, Held, Reading
  <1>3. CASE LockForUpdate
    <2>1. job.sample \in Time
      BY DEF IInv, TypeOK
    <2>2. QED
      BY <1>3, <2>1, LockWrites DEF Snapshots!Next
  <1>4. CASE WriteValue \/ WriteValid \/ WriteTimestamp \/ UnlockAfterUpdate
    BY <1>4, WriterHolds
  <1>5. CASE Ask \/ LockForCopy \/ UnlockAfterCopy \/ ReadClock \/ Render
    BY <1>5 DEF Ask, LockForCopy, UnlockAfterCopy, ReadClock, Render, After, writer,
                Held, Reading, Written
  <1>6. CASE Copy
    <2>1. /\ rpc = "copy" /\ rpc' = "unlock" /\ data' = s_sensor_data
          /\ UNCHANGED <<s_sensor_data, wpc, job>>
      BY <1>6 DEF Copy, After, writer
    <2>2. wpc \notin Holding
      BY <2>1 DEF IInv, MutexInv
    <2>3. s_sensor_data \in Store
      BY DEF IInv, TypeOK
    <2>4. Held = [value |-> s_sensor_data.value, valid |-> s_sensor_data.valid]
      BY <2>2, <2>3 DEF Held, Holding, Store
    <2>5. Held' = Held /\ Reading = {} /\ Reading' = {Held}
      BY <2>1, <2>4 DEF Held, Reading, Written
    <2>6. QED
      BY <2>5 DEF Snapshots!Next, Snapshots!Read
  <1>7. CASE Return \/ TooLong
    <2>1. Held' = Held /\ Reading' = {}
      BY <1>7 DEF Return, TooLong, writer, Held, Reading, Written
    <2>2. QED
      BY <2>1 DEF Snapshots!Next, Snapshots!Forget
  <1>8. QED
    BY <1>1, <1>2, <1>3, <1>4, <1>5, <1>6, <1>7, FieldFacts DEF Next, Update, GetJson

(* Though an update is several stores, between any two of which a reader   *)
(* may come, and readers and updates wait for each other, both happen at   *)
(* one moment: sensor_data_mgr is a register, for any sensors and times.   *)
THEOREM StoreIsRegister == Spec => ReadsAreSnapshots
  BY SnapshotInit, SnapshotStep, Invariance, PTL DEF Spec, ReadsAreSnapshots, Snapshots!Spec

-----------------------------------------------------------------------------
(* The text in the buffer                                                  *)

LEMMA JsonIsStore == [JsonNext]_jsonVars => [Next]_vars
  <1> SUFFICES ASSUME [JsonNext]_jsonVars PROVE [Next]_vars
    OBVIOUS
  <1>1. CASE PrintPiece
    BY <1>1 DEF PrintPiece
  <1>2. CASE Close \/ Overflow \/ Return
    BY <1>2 DEF Close, Overflow, Next, GetJson
  <1>3. CASE Elsewhere
    BY <1>3 DEF Elsewhere, Next, GetJson
  <1>4. CASE UNCHANGED jsonVars
    BY <1>4 DEF jsonVars
  <1>5. QED
    BY <1>1, <1>2, <1>3, <1>4 DEF JsonNext

(* Printing a text is a step of the data manager or is not seen there: all *)
(* that is proved of SensorStore holds with the buffer in place.           *)
THEOREM JsonRefinesStore == JsonSpec => Spec
  <1>1. JsonInit => Init
    BY DEF JsonInit
  <1>2. QED
    BY <1>1, JsonIsStore, PTL DEF JsonSpec, Spec

(* While the text grows its end is where pos says, unless it is full; a    *)
(* piece that was cut has made it full.                                    *)
Growing == end <= pos + 1 /\ (cut => Full)
Done == ~cut /\ end = pos + 1 /\ pos < buf_len
BufInv ==
  /\ pos \in Nat /\ end \in Nat /\ end <= buf_len
  /\ rpc # "return" => Growing
  /\ rpc = "return" => Done

LEMMA PrintFits ==
  ASSUME NEW needed \in Nat, pos \in Nat, end \in Nat, end <= buf_len, end <= pos + 1, ~Full,
         NEW room, room = buf_len - pos - 1,
         end' = Last(pos + 1 + IF needed < room THEN needed ELSE room), pos' = pos + needed
  PROVE  /\ pos' \in Nat /\ end' \in Nat /\ end' <= buf_len /\ end' <= pos' + 1
         /\ needed > room => pos' >= buf_len - 1
  BY BufferAssumption DEF Full, Last

LEMMA BufStep == BufInv /\ [JsonNext]_jsonVars => BufInv'
  <1> SUFFICES ASSUME BufInv, [JsonNext]_jsonVars PROVE BufInv'
    OBVIOUS
  <1>1. CASE PrintPiece
    <2>1. rpc = "render" /\ rpc' = "render" /\ ~Full /\ end <= pos + 1
      BY <1>1 DEF PrintPiece, vars, BufInv, Growing
    <2>2. PICK needed \in Lengths :
            /\ end' = Last(pos + 1 + IF needed < buf_len - pos - 1
                                     THEN needed ELSE buf_len - pos - 1)
            /\ cut' = (needed > buf_len - pos - 1)
            /\ pos' = pos + needed
      BY <1>1 DEF PrintPiece
    <2>3. needed \in Nat /\ pos \in Nat /\ end \in Nat /\ end <= buf_len
      BY LengthsAssumption DEF BufInv
    <2>4. /\ pos' \in Nat /\ end' \in Nat /\ end' <= buf_len /\ end' <= pos' + 1
          /\ needed > buf_len - pos - 1 => pos' >= buf_len - 1
      BY <2>1, <2>2, <2>3, PrintFits
    <2>5. cut' => Full'
      BY <2>2, <2>4 DEF Full
    <2>6. QED
      BY <2>1, <2>4, <2>5 DEF BufInv, Growing
  <1>2. CASE Close
    <2>1. rpc = "render" /\ rpc' = "return" /\ ~Full /\ UNCHANGED cut
      BY <1>2 DEF Close, Render, After
    <2>2. ~cut /\ pos \in Nat /\ end \in Nat /\ end <= pos + 1
      BY <2>1 DEF BufInv, Growing
    <2>3. end' = Last(pos + 2) /\ pos' = pos + 1
      BY <1>2 DEF Close
    <2>4. /\ pos' \in Nat /\ end' \in Nat /\ end' <= buf_len
          /\ end' = pos' + 1 /\ pos' < buf_len
      BY <2>1, <2>2, <2>3, BufferAssumption DEF Full, Last
    <2>5. QED
      BY <2>1, <2>2, <2>4 DEF BufInv, Done
  <1>3. CASE (Overflow \/ Return) /\ ClearBuffer
    <2>1. rpc' # "return" /\ pos' = 0 /\ end' = 0 /\ cut' = FALSE
      BY <1>3 DEF Overflow, TooLong, Return, ClearBuffer
    <2>2. QED
      BY <2>1, BufferAssumption DEF BufInv, Growing
  <1>4. CASE Elsewhere \/ UNCHANGED jsonVars
    <2>1. UNCHANGED buffer
      BY <1>4 DEF Elsewhere, jsonVars
    <2>2. rpc' = "return" <=> rpc = "return"
      <3>1. CASE UNCHANGED rpc
        BY <3>1
      <3>2. CASE Ask \/ LockForCopy \/ Copy \/ UnlockAfterCopy \/ ReadClock
        BY <3>2 DEF Ask, LockForCopy, Copy, UnlockAfterCopy, ReadClock, After
      <3>3. Tick \/ Update \/ UNCHANGED vars => UNCHANGED rpc
        BY DEF Tick, Update, Call, LockForUpdate, WriteValue, WriteValid, WriteTimestamp,
               UnlockAfterUpdate, reader, vars
      <3>4. QED
        BY <1>4, <3>1, <3>2, <3>3 DEF Elsewhere, jsonVars
    <2>3. QED
      BY <2>1, <2>2 DEF buffer, BufInv, Growing, Done, Full
  <1>5. QED
    BY <1>1, <1>2, <1>3, <1>4 DEF JsonNext, Overflow

LEMMA BufHolds == JsonSpec => []BufInv
  <1>1. JsonInit => BufInv
    BY BufferAssumption DEF JsonInit, Init, BufInv, Growing
  <1>2. QED
    BY <1>1, BufStep, PTL DEF JsonSpec

(* Nothing is written past the end of the buffer, whatever the size of the *)
(* buffer and the lengths of the pieces.                                   *)
THEOREM BufferHolds == JsonSpec => []InBuffer
  <1>1. BufInv => InBuffer
    BY DEF BufInv, InBuffer
  <1>2. QED
    BY <1>1, BufHolds, PTL

(* A text that is returned was not cut, and its length is the string's.    *)
THEOREM TextIsWhole == JsonSpec => []TextWhole
  <1>1. BufInv => TextWhole
    BY DEF BufInv, TextWhole, Done
  <1>2. QED
    BY <1>1, BufHolds, PTL

=============================================================================
