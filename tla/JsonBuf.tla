------------------------------- MODULE JsonBuf -------------------------------
(***************************************************************************)
(* main/sensor_data_mgr.c: how sensor_data_mgr_get_json puts its text into *)
(* the buffer of its caller.  snprintf writes what there is room for and   *)
(* returns the length the text would have had; pos grows by that length    *)
(* and is compared with buf_len - 1 before anything else is written.       *)
(*                                                                         *)
(* A text is a sequence of pieces, of which only the lengths matter.  The  *)
(* rest of the data manager is SensorStore's.                              *)
(***************************************************************************)
EXTENDS SensorStore, Sequences

CONSTANTS
  Order,    \* the scalar fields in the order of the text
  buf_len,  \* JSON_BUF_SIZE of the caller: 512
  Lengths   \* bound: how long the pieces are

ASSUME BufferAssumption == buf_len \in Nat /\ 1 < buf_len
ASSUME LengthsAssumption == Lengths \subseteq Nat

VARIABLES
  printed,   \* how many pieces
  pos,
  end,       \* one past the last byte of buf that was written
  cut        \* a piece did not fit

buffer == <<printed, pos, end, cut>>
jsonVars == <<vars, buffer>>

JsonInit == Init /\ printed = 0 /\ pos = 0 /\ end = 0 /\ cut = FALSE

Pieces == <<"{">> \o Order \o <<"imu", "mag", "imu }">>

(* The fields of the text; the last piece closes that of the IMU.          *)
Wanted(piece) ==
  \/ piece = "{"
  \/ piece \in Scalars /\ Fresh(piece)
  \/ piece \in {"imu", "imu }"} /\ Fresh("imu")
  \/ piece = "mag" /\ Fresh("imu") /\ data.valid["mag"]

Text == SelectSeq(Pieces, Wanted)

(* A mutant: the last byte is not kept for the NUL.                        *)
FullAtEnd == pos >= buf_len

Full == pos >= buf_len - 1

Last(i) == IF end < i THEN i ELSE end

(* One snprintf(buf + pos, buf_len - pos, ...) with its NUL.               *)
PrintPiece ==
  /\ rpc = "render" /\ ~Full
  /\ printed < Len(Text)
  /\ \E needed \in Lengths :
       LET room == buf_len - pos - 1 IN
       /\ end' = Last(pos + 1 + IF needed < room THEN needed ELSE room)
       /\ cut' = (needed > room)
       /\ pos' = pos + needed
  /\ printed' = printed + 1
  /\ UNCHANGED vars

(* A mutant: the NUL is counted.                                           *)
CloseCounting ==
  /\ Render /\ ~Full
  /\ printed = Len(Text)
  /\ end' = Last(pos + 2)
  /\ pos' = pos + 2
  /\ UNCHANGED <<printed, cut>>

(* The two bytes that close the text.                                      *)
Close ==
  /\ Render /\ ~Full
  /\ printed = Len(Text)
  /\ end' = Last(pos + 2)
  /\ pos' = pos + 1
  /\ UNCHANGED <<printed, cut>>

ClearBuffer == printed' = 0 /\ pos' = 0 /\ end' = 0 /\ cut' = FALSE

Overflow == TooLong /\ Full /\ ClearBuffer

(* While the text is printed its task is not preempted by the sensor task, *)
(* and what the clock does is without effect.                              *)
Elsewhere ==
  /\ rpc # "render"
  /\ Tick \/ Update \/ Ask \/ LockForCopy \/ Copy \/ UnlockAfterCopy \/ ReadClock
  /\ UNCHANGED buffer

JsonNext ==
  \/ PrintPiece \/ Close \/ Overflow
  \/ Return /\ ClearBuffer
  \/ Elsewhere

JsonSpec == JsonInit /\ [][JsonNext]_jsonVars

-----------------------------------------------------------------------------
(* Properties *)

(* Nothing is written past the end of the caller's buffer, however long    *)
(* the pieces of the text are.                                             *)
InBuffer == end <= buf_len

(* A text that is returned is whole, and its length is that of the string  *)
(* in the buffer: what the MQTT task publishes, and copies into a cache of *)
(* the same size, is the text.                                             *)
TextWhole ==
  rpc = "return" => ~cut /\ end = pos + 1 /\ pos < buf_len

=============================================================================
