--------------------------- MODULE CmdTask_proofs ---------------------------
(***************************************************************************)
(* Proofs about CmdTask for every set of senders and every length of the   *)
(* queue: its type invariant, and that each of its steps is a step of      *)
(* CmdService or none.                                                     *)
(***************************************************************************)
EXTENDS CmdTask, SequenceTheorems, TLAPS

(* TypeOK is not inductive: that a BSP call is made for a command depends  *)
(* on curr being unchanged while the call lasts.                           *)
InBspServes == inBsp => curr \in Known
IInv == TypeOK /\ InBspServes

LEMMA InitIInv == Init => IInv
  <1> SUFFICES ASSUME Init PROVE IInv
    OBVIOUS
  <1> USE QueueCapAssumption DEF Init
  <1>1. s_cmd_queue \in Seq(Commands) /\ Len(s_cmd_queue) <= QueueCap
    OBVIOUS
  <1>2. QED
    BY <1>1 DEF IInv, TypeOK, InBspServes, Outcomes

(* A send leaves the queue a queue of commands, no longer than its length. *)
LEMMA SendType ==
  ASSUME TypeOK, NEW s \in Senders, NEW cmd \in Commands,
         Enqueue(s, cmd) \/ GiveUp(s)
  PROVE  /\ s_cmd_queue' \in Seq(Commands)
         /\ Len(s_cmd_queue') <= QueueCap
         /\ outcome' \in [Senders -> Outcomes]
  <1>1. CASE Enqueue(s, cmd)
    <2>1. s_cmd_queue' \in Seq(Commands) /\ Len(s_cmd_queue') = Len(s_cmd_queue) + 1
      BY <1>1, AppendProperties DEF Enqueue, TypeOK
    <2>2. Len(s_cmd_queue) \in Nat /\ Len(s_cmd_queue) < QueueCap
      BY <1>1, LenProperties DEF Enqueue, HasRoom, TypeOK
    <2>3. outcome' \in [Senders -> Outcomes]
      BY <1>1 DEF Enqueue, TypeOK, Outcomes
    <2>4. QED
      BY <2>1, <2>2, <2>3, QueueCapAssumption
  <1>2. CASE GiveUp(s)
    BY <1>2 DEF GiveUp, TypeOK, Outcomes
  <1>3. QED
    BY <1>1, <1>2

LEMMA StepIInv == IInv /\ [Next]_vars => IInv'
  <1> SUFFICES ASSUME IInv, [Next]_vars PROVE IInv'
    OBVIOUS
  <1> USE DEF IInv, InBspServes
  <1>1. ASSUME NEW byte \in ControlByte, MqttData(byte) PROVE IInv'
    <2>1. "mqtt" \in Senders /\ CommandOf(byte) \in Commands
      BY DEF Senders, CommandOf, Commands, Known
    <2>2. QED
      BY <1>1, <2>1, SendType DEF MqttData, TypeOK
  <1>2. ASSUME NEW w \in Waiters, NEW cmd \in Commands, SendNow(w, cmd) PROVE IInv'
    <2>1. w \in Senders
      BY DEF Senders
    <2>2. QED
      BY <1>2, <2>1, SendType DEF SendNow, TypeOK
  <1>3. ASSUME NEW w \in Waiters, NEW cmd \in Commands, Block(w, cmd) PROVE IInv'
    BY <1>3 DEF Block, TypeOK, Outcomes
  <1>4. ASSUME NEW w \in Waiters, Unblock(w) PROVE IInv'
    <2>1. w \in Senders /\ blocked[w] \in Commands
      BY <1>4 DEF Senders, Unblock, TypeOK
    <2>2. blocked' \in [Waiters -> Commands \cup {"none"}]
      BY <1>4 DEF Unblock, TypeOK
    <2>3. QED
      BY <1>4, <2>1, <2>2, SendType DEF Unblock, TypeOK
  <1>5. CASE Receive
    <2>1. s_cmd_queue' \in Seq(Commands) /\ Len(s_cmd_queue') = Len(s_cmd_queue) - 1
      BY <1>5, HeadTailProperties DEF Receive, TypeOK
    <2>2. Len(s_cmd_queue') <= QueueCap
      BY <2>1, LenProperties, QueueCapAssumption DEF TypeOK
    <2>3. QED
      BY <1>5, <2>1, <2>2 DEF Receive, TypeOK, Known
  <1>6. CASE CallBsp
    BY <1>6 DEF CallBsp, TypeOK
  <1>7. CASE BspReturns
    BY <1>7 DEF BspReturns, TypeOK
  <1>8. CASE UNCHANGED vars
    BY <1>8 DEF vars, TypeOK
  <1>9. QED
    BY <1>1, <1>2, <1>3, <1>4, <1>5, <1>6, <1>7, <1>8 DEF Next, TaskStep

(* The state of the queue, of the command task and of its callers is of    *)
(* its type: in particular the queue never holds more than its length.     *)
THEOREM TypeCorrect == Spec => []TypeOK
  <1>1. Spec => []IInv
    BY InitIInv, StepIInv, PTL DEF Spec
  <1>2. IInv => TypeOK
    BY DEF IInv
  <1>3. QED
    BY <1>1, <1>2, PTL

-----------------------------------------------------------------------------
(* Refinement                                                              *)

Pending == Current \o s_cmd_queue

(* What is pending behind the command in hand is the queue itself.         *)
LEMMA CurrentType ==
  ASSUME IInv
  PROVE  /\ Current \in Seq(Commands)
         /\ curr \in Known => Current = <<curr>> /\ Len(Current) = 1
         /\ curr \notin Known => Current = <<>> /\ Len(Current) = 0
         /\ s_cmd_queue \in Seq(Commands)
         /\ Len(s_cmd_queue) \in Nat
  <1>1. s_cmd_queue \in Seq(Commands) /\ Len(s_cmd_queue) \in Nat
    BY LenProperties DEF IInv, TypeOK
  <1>2. CASE curr \in Known
    <2>1. curr \in Commands
      BY <1>2 DEF Commands
    <2>2. <<curr>> \in Seq(Commands) /\ Len(<<curr>>) = 1
      BY <2>1
    <2>3. QED
      BY <1>1, <1>2, <2>2 DEF Current
  <1>3. CASE curr \notin Known
    <2>1. <<>> \in Seq(Commands) /\ Len(<<>>) = 0
      BY EmptySeq
    <2>2. QED
      BY <1>1, <1>3, <2>1 DEF Current
  <1>4. QED
    BY <1>2, <1>3

(* How long what is pending is, against the queue.                         *)
LEMMA PendingLength ==
  ASSUME IInv
  PROVE  Len(Pending) = Len(s_cmd_queue) + (IF curr \in Known THEN 1 ELSE 0)
  <1>1. Len(Pending) = Len(Current) + Len(s_cmd_queue)
    BY CurrentType, ConcatProperties DEF Pending
  <1>2. CASE curr \in Known
    <2>1. Len(Current) = 1 /\ Len(s_cmd_queue) \in Nat
      BY <1>2, CurrentType
    <2>2. QED
      BY <1>1, <1>2, <2>1
  <1>3. CASE curr \notin Known
    BY <1>1, <1>3, CurrentType
  <1>4. QED
    BY <1>2, <1>3

(* A send is an acceptance or a refusal of the service.                    *)
LEMMA SendRefines ==
  ASSUME IInv, NEW s \in Senders, NEW cmd \in Commands,
         Enqueue(s, cmd) \/ GiveUp(s), UNCHANGED <<curr, lamp>>
  PROVE  Service!Accept(s, cmd) \/ Service!Refuse(s)
  <1>1. CASE Enqueue(s, cmd)
    <2>1. Len(Pending) <= QueueCap
      BY <1>1, CurrentType, PendingLength, QueueCapAssumption DEF Enqueue, HasRoom
    <2>2. Pending' = Append(Pending, cmd)
      <3>1. Current' = Current
        BY DEF Current
      <3>2. Current \in Seq(Commands) /\ s_cmd_queue \in Seq(Commands)
        BY CurrentType
      <3>3. Current \o Append(s_cmd_queue, cmd) = Append(Current \o s_cmd_queue, cmd)
        BY <3>2
      <3>4. QED
        BY <1>1, <3>1, <3>3 DEF Enqueue, Pending
    <2>3. QED
      BY <1>1, <2>1, <2>2 DEF Enqueue, Service!Accept, Pending
  <1>2. CASE GiveUp(s)
    <2>1. Len(Pending) >= QueueCap
      BY <1>2, CurrentType, PendingLength, QueueCapAssumption DEF GiveUp, HasRoom
    <2>2. Pending' = Pending
      BY <1>2 DEF GiveUp, Pending, Current
    <2>3. QED
      BY <1>2, <2>1, <2>2 DEF GiveUp, Service!Refuse, Pending
  <1>3. QED
    BY <1>1, <1>2

(* Taking a command out of the queue moves it to the task's hand, where it *)
(* is still pending; an unknown one is dropped there and then.             *)
LEMMA ReceivePending ==
  ASSUME IInv, Receive
  PROVE  /\ Head(s_cmd_queue) \in Known => Pending' = Pending
         /\ Head(s_cmd_queue) \notin Known =>
              /\ Pending = s_cmd_queue /\ Pending # <<>>
              /\ Head(Pending) = "OTHER" /\ Pending' = Tail(Pending)
  <1>1. /\ s_cmd_queue \in Seq(Commands)
        /\ s_cmd_queue # <<>>
        /\ Head(s_cmd_queue) \in Commands
        /\ Tail(s_cmd_queue) \in Seq(Commands)
    BY HeadTailProperties DEF Receive, IInv, TypeOK
  <1>2. Pending = s_cmd_queue
    BY <1>1 DEF Receive, Pending, Current, Known
  <1>3. CASE Head(s_cmd_queue) \in Known
    <2>1. Pending' = <<Head(s_cmd_queue)>> \o Tail(s_cmd_queue)
      BY <1>3 DEF Receive, Pending, Current
    <2>2. <<Head(s_cmd_queue)>> \o Tail(s_cmd_queue) = s_cmd_queue
      BY <1>1
    <2>3. QED
      BY <1>2, <1>3, <2>1, <2>2
  <1>4. CASE Head(s_cmd_queue) \notin Known
    <2>1. Head(s_cmd_queue) = "OTHER"
      BY <1>1, <1>4 DEF Commands
    <2>2. Pending' = Tail(s_cmd_queue)
      BY <1>1, <1>4 DEF Receive, Pending, Current, Known
    <2>3. QED
      BY <1>1, <1>2, <1>4, <2>1, <2>2
  <1>5. QED
    BY <1>3, <1>4

(* The return of a BSP call takes the oldest pending command away.         *)
LEMMA ReturnPending ==
  ASSUME IInv, BspReturns
  PROVE  /\ curr \in Known
         /\ Pending # <<>> /\ Head(Pending) = curr
         /\ Pending' = Tail(Pending)
  <1>1. curr \in Known /\ s_cmd_queue \in Seq(Commands)
    BY DEF BspReturns, IInv, InBspServes, TypeOK
  <1>2. Pending = <<curr>> \o s_cmd_queue
    BY <1>1 DEF Pending, Current
  <1>3. Pending # <<>> /\ Head(Pending) = curr /\ Tail(Pending) = s_cmd_queue
    BY <1>1, <1>2
  <1>4. Pending' = s_cmd_queue
    BY <1>1 DEF BspReturns, Pending, Current, Known
  <1>5. QED
    BY <1>1, <1>3, <1>4

LEMMA InitRefines == Init => Service!Init
  BY DEF Init, Service!Init, Current, Known, Senders

LEMMA StepRefines == IInv /\ [Next]_vars => [Service!Next]_(Service!vars)
  <1> SUFFICES ASSUME IInv, [Next]_vars
               PROVE  Service!Next \/ UNCHANGED Service!vars
    OBVIOUS
  <1>c. Service!Commands = Commands
    BY DEF Service!Commands, Commands, Known
  <1>1. ASSUME NEW byte \in ControlByte, MqttData(byte) PROVE Service!Next
    <2>1. "mqtt" \in Senders /\ CommandOf(byte) \in Commands
      BY DEF Senders, CommandOf, Commands, Known
    <2>2. Service!Accept("mqtt", CommandOf(byte)) \/ Service!Refuse("mqtt")
      BY <1>1, <2>1, SendRefines DEF MqttData
    <2>3. QED
      BY <1>c, <2>1, <2>2 DEF Service!Next
  <1>2. ASSUME NEW w \in Waiters, NEW cmd \in Commands, SendNow(w, cmd)
        PROVE  Service!Next
    <2>1. w \in Senders
      BY DEF Senders
    <2>2. Service!Accept(w, cmd) \/ Service!Refuse(w)
      BY <1>2, <2>1, SendRefines DEF SendNow
    <2>3. QED
      BY <1>c, <2>1, <2>2 DEF Service!Next
  <1>3. ASSUME NEW w \in Waiters, NEW cmd \in Commands, Block(w, cmd)
        PROVE  Service!Next
    <2>1. w \in Senders
      BY DEF Senders
    <2>2. Service!Ask(w)
      BY <1>3 DEF Block, Service!Ask, Current
    <2>3. QED
      BY <2>1, <2>2 DEF Service!Next
  <1>4. ASSUME NEW w \in Waiters, Unblock(w) PROVE Service!Next
    <2>1. w \in Senders /\ blocked[w] \in Commands
      BY <1>4 DEF Senders, Unblock, IInv, TypeOK
    <2>2. Service!Accept(w, blocked[w]) \/ Service!Refuse(w)
      BY <1>4, <2>1, SendRefines DEF Unblock
    <2>3. QED
      BY <1>c, <2>1, <2>2 DEF Service!Next
  <1>5. CASE Receive
    <2>1. CASE Head(s_cmd_queue) \in Known
      BY <1>5, <2>1, ReceivePending DEF Receive, Service!vars, Pending
    <2>2. CASE Head(s_cmd_queue) \notin Known
      <3>1. Service!Serve
        BY <1>5, <2>2, ReceivePending DEF Receive, Service!Serve, Service!Effect, Pending
      <3>2. QED
        BY <3>1 DEF Service!Next
    <2>3. QED
      BY <2>1, <2>2
  <1>6. CASE CallBsp
    BY <1>6 DEF CallBsp, Service!vars, Current
  <1>7. CASE BspReturns
    <2>1. Service!Serve
      BY <1>7, ReturnPending DEF BspReturns, Service!Serve, Service!Effect, Pending, Known
    <2>2. QED
      BY <2>1 DEF Service!Next
  <1>8. CASE UNCHANGED vars
    BY <1>8 DEF vars, Service!vars, Current
  <1>9. QED
    BY <1>1, <1>2, <1>3, <1>4, <1>5, <1>6, <1>7, <1>8 DEF Next, TaskStep

(* Every behaviour of the queue, the command task and its senders is one   *)
(* of the command channel: commands take effect in the order accepted,     *)
(* each exactly once, and none is refused while there is room.             *)
THEOREM ServiceSafety == Spec => Service!Init /\ [][Service!Next]_(Service!vars)
  <1>1. Spec => []IInv
    BY InitIInv, StepIInv, PTL DEF Spec
  <1>2. QED
    BY <1>1, InitRefines, StepRefines, PTL DEF Spec

-----------------------------------------------------------------------------
(* Exactly once, told by the history of the channel                        *)

VARIABLES
  accepted,   \* every command the queue has taken
  carried     \* every command the task is done with

(* They follow every step and hinder none.                                 *)
Record ==
  /\ accepted' = IF Len(s_cmd_queue') > Len(s_cmd_queue)
                 THEN Append(accepted, s_cmd_queue'[Len(s_cmd_queue')]) ELSE accepted
  /\ carried' = IF inBsp /\ ~inBsp' THEN Append(carried, curr)
                ELSE IF Len(s_cmd_queue') < Len(s_cmd_queue) /\ curr' = "WAIT_CMD"
                     THEN Append(carried, Head(s_cmd_queue)) ELSE carried

RecordSpec ==
  /\ Init /\ accepted = <<>> /\ carried = <<>>
  /\ [][Next /\ Record]_<<vars, accepted, carried>>

(* What was accepted is what was carried out, then what is in the task's   *)
(* hand, then the queue.                                                   *)
ExactlyOnce == accepted = carried \o Pending

(* The lamp was told what the last known command carried out asks for.     *)
LampFollows ==
  \/ lamp = "NONE" /\ \A i \in DOMAIN carried : carried[i] \notin Known
  \/ /\ lamp \in Known
     /\ \E i \in DOMAIN carried :
          carried[i] = lamp /\ \A j \in DOMAIN carried : j > i => carried[j] \notin Known

HistoryInv == carried \in Seq(Commands) /\ ExactlyOnce /\ LampFollows

LEMMA PendingType == IInv => Pending \in Seq(Commands)
  BY CurrentType, ConcatProperties DEF Pending

(* A command enters both histories at their ends.                          *)
LEMMA SendRecorded ==
  ASSUME IInv, HistoryInv, Record, NEW s \in Senders, NEW cmd \in Commands,
         Enqueue(s, cmd) \/ GiveUp(s), UNCHANGED <<curr, inBsp, lamp>>
  PROVE  HistoryInv'
  <1>1. s_cmd_queue \in Seq(Commands) /\ Len(s_cmd_queue) \in Nat
    BY CurrentType
  <1>2. Current' = Current /\ Current \in Seq(Commands)
    BY CurrentType DEF Current
  <1>3. CASE Enqueue(s, cmd)
    <2>1. /\ s_cmd_queue' = Append(s_cmd_queue, cmd)
          /\ Len(s_cmd_queue') = Len(s_cmd_queue) + 1
          /\ s_cmd_queue'[Len(s_cmd_queue')] = cmd
      BY <1>1, <1>3, AppendProperties DEF Enqueue
    <2>2. accepted' = Append(accepted, cmd) /\ carried' = carried
      BY <1>1, <2>1 DEF Record
    <2>3. Current \o Append(s_cmd_queue, cmd) = Append(Current \o s_cmd_queue, cmd)
      BY <1>1, <1>2
    <2>4. Pending' = Append(Pending, cmd)
      BY <1>2, <2>1, <2>3 DEF Pending
    <2>5. carried \o Append(Pending, cmd) = Append(carried \o Pending, cmd)
      BY PendingType DEF HistoryInv
    <2>6. QED
      BY <2>2, <2>4, <2>5 DEF HistoryInv, ExactlyOnce, LampFollows
  <1>4. CASE GiveUp(s)
    <2>1. s_cmd_queue' = s_cmd_queue /\ Pending' = Pending
      BY <1>2, <1>4 DEF GiveUp, Pending
    <2>2. accepted' = accepted /\ carried' = carried
      BY <1>1, <2>1 DEF Record
    <2>3. QED
      BY <2>1, <2>2 DEF HistoryInv, ExactlyOnce, LampFollows
  <1>5. QED
    BY <1>3, <1>4

(* A command carried out leaves the one for the other.                     *)
LEMMA CarriedRecorded ==
  ASSUME IInv, HistoryInv, NEW cmd \in Commands,
         Pending # <<>>, Head(Pending) = cmd, Pending' = Tail(Pending),
         accepted' = accepted, carried' = Append(carried, cmd),
         lamp' = IF cmd \in Known THEN cmd ELSE lamp
  PROVE  HistoryInv'
  <1>1. Pending \in Seq(Commands) /\ carried \in Seq(Commands)
    BY PendingType DEF HistoryInv
  <1>2. Append(carried, cmd) \o Tail(Pending) = carried \o Pending
    BY <1>1
  <1>3. carried' \in Seq(Commands) /\ ExactlyOnce'
    BY <1>1, <1>2 DEF HistoryInv, ExactlyOnce
  <1>4. /\ Len(carried) \in Nat /\ DOMAIN carried = 1..Len(carried)
        /\ DOMAIN carried' = 1..Len(carried) + 1
        /\ \A i \in 1..Len(carried) : carried'[i] = carried[i]
        /\ carried'[Len(carried) + 1] = cmd
    BY <1>1, AppendProperties, LenProperties
  <1>5. CASE cmd \in Known
    <2>1. Len(carried) + 1 \in DOMAIN carried'
          /\ carried'[Len(carried) + 1] = lamp'
          /\ \A j \in DOMAIN carried' : ~(j > Len(carried) + 1)
      BY <1>4, <1>5
    <2>2. lamp' \in Known
      BY <1>5
    <2>3. QED
      BY <1>3, <2>1, <2>2 DEF HistoryInv, LampFollows
  <1>6. CASE cmd \notin Known
    <2>1. lamp' = lamp
      BY <1>6
    <2>2. CASE lamp = "NONE" /\ \A i \in DOMAIN carried : carried[i] \notin Known
      <3>1. \A i \in DOMAIN carried' : carried'[i] \notin Known
        <4> SUFFICES ASSUME NEW i \in 1..Len(carried) + 1 PROVE carried'[i] \notin Known
          BY <1>4
        <4>1. CASE i = Len(carried) + 1
          BY <1>4, <1>6, <4>1
        <4>2. CASE i # Len(carried) + 1
          <5>1. i \in 1..Len(carried)
            BY <1>4, <4>2
          <5>2. QED
            BY <1>4, <2>2, <5>1
        <4>3. QED
          BY <4>1, <4>2
      <3>2. QED
        BY <1>3, <2>1, <2>2, <3>1 DEF HistoryInv, LampFollows
    <2>3. CASE /\ lamp \in Known
               /\ \E i \in DOMAIN carried :
                    carried[i] = lamp /\ \A j \in DOMAIN carried : j > i => carried[j] \notin Known
      <3>1. PICK i \in 1..Len(carried) :
              carried[i] = lamp /\ \A j \in 1..Len(carried) : j > i => carried[j] \notin Known
        BY <1>4, <2>3
      <3>2. i \in DOMAIN carried' /\ carried'[i] = lamp
        BY <1>4, <3>1
      <3>3. ASSUME NEW j \in DOMAIN carried', j > i PROVE carried'[j] \notin Known
        <4>1. CASE j = Len(carried) + 1
          BY <1>4, <1>6, <4>1
        <4>2. CASE j # Len(carried) + 1
          <5>1. j \in 1..Len(carried)
            BY <1>4, <3>3, <4>2
          <5>2. QED
            BY <1>4, <3>1, <3>3, <5>1
        <4>3. QED
          BY <4>1, <4>2
      <3>4. QED
        BY <1>3, <2>1, <2>3, <3>2, <3>3 DEF HistoryInv, LampFollows
    <2>4. QED
      BY <2>2, <2>3 DEF HistoryInv, LampFollows
  <1>7. QED
    BY <1>3, <1>5, <1>6 DEF HistoryInv

LEMMA StepRecorded == IInv /\ HistoryInv /\ [Next /\ Record]_<<vars, accepted, carried>> => HistoryInv'
  <1> SUFFICES ASSUME IInv, HistoryInv, [Next /\ Record]_<<vars, accepted, carried>>
               PROVE  HistoryInv'
    OBVIOUS
  <1>q. s_cmd_queue \in Seq(Commands) /\ Len(s_cmd_queue) \in Nat
    BY CurrentType
  <1>s. ASSUME UNCHANGED <<Pending, lamp, accepted, carried>> PROVE HistoryInv'
    BY <1>s DEF HistoryInv, ExactlyOnce, LampFollows
  <1>1. ASSUME Record, NEW byte \in ControlByte, MqttData(byte) PROVE HistoryInv'
    <2>1. "mqtt" \in Senders /\ CommandOf(byte) \in Commands
      BY DEF Senders, CommandOf, Commands, Known
    <2>2. QED
      BY <1>1, <2>1, SendRecorded DEF MqttData
  <1>2. ASSUME Record, NEW w \in Waiters, NEW cmd \in Commands, SendNow(w, cmd)
        PROVE  HistoryInv'
    <2>1. w \in Senders
      BY DEF Senders
    <2>2. QED
      BY <1>2, <2>1, SendRecorded DEF SendNow
  <1>3. ASSUME Record, NEW w \in Waiters, NEW cmd \in Commands, Block(w, cmd)
        PROVE  HistoryInv'
    <2>1. UNCHANGED <<accepted, carried>>
      BY <1>q, <1>3 DEF Block, Record
    <2>2. QED
      BY <1>s, <1>3, <2>1 DEF Block, Pending, Current
  <1>4. ASSUME Record, NEW w \in Waiters, Unblock(w) PROVE HistoryInv'
    <2>1. w \in Senders /\ blocked[w] \in Commands
      BY <1>4 DEF Senders, Unblock, IInv, TypeOK
    <2>2. QED
      BY <1>4, <2>1, SendRecorded DEF Unblock
  <1>5. CASE Record /\ Receive
    <2>1. /\ s_cmd_queue # <<>> /\ inBsp' = inBsp /\ lamp' = lamp
          /\ Len(s_cmd_queue') = Len(s_cmd_queue) - 1
      BY <1>q, <1>5, HeadTailProperties DEF Receive
    <2>2. accepted' = accepted
      BY <1>q, <1>5, <2>1 DEF Record
    <2>3. CASE Head(s_cmd_queue) \in Known
      <3>1. carried' = carried
        BY <1>5, <2>1, <2>3 DEF Record, Receive, Known
      <3>2. QED
        BY <1>s, <1>5, <2>1, <2>2, <2>3, <3>1, ReceivePending
    <2>4. CASE Head(s_cmd_queue) \notin Known
      <3>1. carried' = Append(carried, Head(s_cmd_queue))
        BY <1>q, <1>5, <2>1, <2>4 DEF Record, Receive
      <3>2. "OTHER" \in Commands /\ "OTHER" \notin Known
        BY DEF Commands, Known
      <3>3. QED
        BY <1>5, <2>1, <2>2, <2>4, <3>1, <3>2, ReceivePending, CarriedRecorded
    <2>5. QED
      BY <2>3, <2>4
  <1>6. CASE Record /\ CallBsp
    <2>1. UNCHANGED <<accepted, carried>>
      BY <1>q, <1>6 DEF CallBsp, Record
    <2>2. QED
      BY <1>s, <1>6, <2>1 DEF CallBsp, Pending, Current
  <1>7. CASE Record /\ BspReturns
    <2>1. accepted' = accepted /\ carried' = Append(carried, curr)
      BY <1>q, <1>7 DEF Record, BspReturns
    <2>2. curr \in Commands /\ curr \in Known /\ lamp' = curr
      BY <1>7, ReturnPending DEF Commands, BspReturns
    <2>3. QED
      BY <1>7, <2>1, <2>2, ReturnPending, CarriedRecorded
  <1>8. CASE UNCHANGED <<vars, accepted, carried>>
    BY <1>s, <1>8 DEF vars, Pending, Current
  <1>9. QED
    BY <1>1, <1>2, <1>3, <1>4, <1>5, <1>6, <1>7, <1>8 DEF Next, TaskStep

(* Of the commands accepted, those carried out are the oldest, in order,   *)
(* each once, none left out; the rest is in the task's hand and the queue; *)
(* and the LED was asked last what the last known one of them says.        *)
THEOREM CarriedExactlyOnce == RecordSpec => [](ExactlyOnce /\ LampFollows)
  <1>1. Init /\ accepted = <<>> /\ carried = <<>> => IInv /\ HistoryInv
    <2> SUFFICES ASSUME Init, accepted = <<>>, carried = <<>> PROVE IInv /\ HistoryInv
      OBVIOUS
    <2>1. Pending = <<>>
      BY DEF Init, Pending, Current, Known
    <2>2. carried \in Seq(Commands) /\ DOMAIN carried = {}
      OBVIOUS
    <2>3. ExactlyOnce
      BY <2>1, <2>2 DEF ExactlyOnce
    <2>4. LampFollows
      BY <2>2 DEF LampFollows, Init
    <2>5. QED
      BY <2>2, <2>3, <2>4, InitIInv DEF HistoryInv
  <1>2. IInv /\ HistoryInv /\ [Next /\ Record]_<<vars, accepted, carried>> => (IInv /\ HistoryInv)'
    BY StepIInv, StepRecorded
  <1>3. HistoryInv => ExactlyOnce /\ LampFollows
    BY DEF HistoryInv
  <1>4. QED
    BY <1>1, <1>2, <1>3, PTL DEF RecordSpec

=============================================================================
