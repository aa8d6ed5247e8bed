------------------------------ MODULE Snapshot ------------------------------
(***************************************************************************)
(* What the sensor data manager (main/sensor_data_mgr.c) promises those    *)
(* who share it, with no mutex and no order of stores in it: an update     *)
(* replaces the fields of its sensor at one moment, by a sample that is    *)
(* not older than any that is held, and a reader has the whole store as it *)
(* was at one moment.  SensorStore is shown to implement it.               *)
(***************************************************************************)
EXTENDS Integers

CONSTANTS
  Fields,    \* "imu" and "mag", which are updated together, and others
  Samples    \* a sample is named by its time

VARIABLES
  held,      \* of each field: its sample, and whether it is valid
  reading    \* what the reader has: {} or one copy of what was held

snapshotVars == <<held, reading>>

Init ==
  /\ held = [value |-> [f \in Fields |-> 0], valid |-> [f \in Fields |-> FALSE]]
  /\ reading = {}

(* An update of some fields, valid in those of them that were read.        *)
Replace(fields, read, sample) ==
  /\ UNCHANGED reading
  /\ \A f \in Fields : held.value[f] <= sample
  /\ held' = [value |-> [f \in Fields |-> IF f \in fields THEN sample ELSE held.value[f]],
              valid |-> [f \in Fields |-> IF f \in fields THEN f \in read ELSE held.valid[f]]]

Write(sample) ==
  \/ \E f \in Fields \ {"imu"} : Replace({f}, {f}, sample)
  \/ \E read \in {{"imu"}, {"imu", "mag"}} : Replace({"imu", "mag"}, read, sample)

Read ==
  /\ reading = {}
  /\ reading' = {held}
  /\ UNCHANGED held

Forget ==
  /\ reading' = {}
  /\ UNCHANGED held

Next == Read \/ Forget \/ \E sample \in Samples : Write(sample)

Spec == Init /\ [][Next]_snapshotVars

=============================================================================
