-------------------------- MODULE MqttLink_proofs --------------------------
(***************************************************************************)
(* Proofs about MqttLink, for any number of readings and of faults and any *)
(* receive_maximum of the broker: its invariants, and the safety part of   *)
(* the promise of Gateway.                                                 *)
(***************************************************************************)
EXTENDS MqttLink, FunctionTheorems, FiniteSetTheorems, SequenceTheorems,
        WellFoundedInduction, TLAPS

Items == [id : Nat \ {0}, load : Loads, sent : BOOLEAN]

(***************************************************************************)
(* outbox_enqueue finds an identifier that no packet has.                  *)
(***************************************************************************)
LEMMA FreshId ==
  ASSUME NEW n \in Nat, NEW used, NEW f \in [1..n -> used],
         \A u \in used : \E i \in 1..n : f[i] = u
  PROVE  \E k \in 1..(n + 1) : k \notin used
<1>1. f \in Surjection(1..n, used)
  BY DEF Surjection
<1>2. IsFiniteSet(1..n) /\ Cardinality(1..n) = n
  <2>1. IsFiniteSet(1..n) /\ Cardinality(1..n) = IF 1 > n THEN 0 ELSE n - 1 + 1
    BY FS_Interval
  <2> QED
    BY <2>1, SMT
<1>3. IsFiniteSet(used) /\ Cardinality(used) <= n
  BY <1>1, <1>2, FS_Surjection
<1>4. Cardinality(1..(n + 1)) = n + 1
  <2>1. Cardinality(1..(n + 1)) = IF 1 > n + 1 THEN 0 ELSE (n + 1) - 1 + 1
    BY FS_Interval, SMT
  <2> QED
    BY <2>1, SMT
<1>5. Cardinality(used) \in Nat
  BY <1>3, FS_CardinalityType
<1> SUFFICES ASSUME 1..(n + 1) \subseteq used PROVE FALSE
  OBVIOUS
<1>6. Cardinality(1..(n + 1)) <= Cardinality(used)
  BY <1>3, FS_Subset
<1> QED
  BY <1>3, <1>4, <1>5, <1>6, SMT

(***************************************************************************)
(* Store appends one item to the outbox, and writes it or not.             *)
(***************************************************************************)
LEMMA StoreEffect ==
  ASSUME TypeOK, NEW load \in Loads, NEW sent \in BOOLEAN, Store(load, sent)
  PROVE  \E id \in Nat \ {0} :
           /\ outbox' = Append(outbox, [id |-> id, load |-> load, sent |-> sent])
           /\ wire' = IF sent /\ net = "up"
                      THEN Append(wire, [id |-> id, load |-> load]) ELSE wire
<1> DEFINE air == wire \o acks
           a == Len(outbox)
           n == Len(outbox \o wire \o acks)
           used == {outbox[i].id : i \in DOMAIN outbox} \cup {p.id : p \in Range(air)}
           f == [i \in 1..n |-> IF i <= a THEN outbox[i].id ELSE air[i - a].id]
<1>1. /\ outbox \in Seq(Items) /\ wire \in Seq(Packets) /\ acks \in Seq(Packets)
  BY DEF TypeOK, Items
<1>2. /\ a \in Nat /\ DOMAIN outbox = 1..a
      /\ air \in Seq(Packets) /\ DOMAIN air = 1..Len(air) /\ Len(air) \in Nat
      /\ Len(air) = Len(wire) + Len(acks)
  BY <1>1, LenProperties, ConcatProperties
<1>3. n \in Nat /\ n = a + Len(air)
  <2> DEFINE Both == Items \cup Packets
  <2>1. outbox \in Seq(Both) /\ wire \in Seq(Both) /\ acks \in Seq(Both)
    BY <1>1, SeqMonotonic
  <2>2. /\ outbox \o wire \in Seq(Both)
        /\ Len(outbox \o wire) = Len(outbox) + Len(wire)
    BY <2>1, ConcatProperties
  <2>3. n = Len(outbox \o wire) + Len(acks)
    BY <2>1, <2>2, ConcatProperties
  <2>4. Len(wire) \in Nat /\ Len(acks) \in Nat
    BY <1>1, LenProperties
  <2> QED
    BY <1>2, <2>2, <2>3, <2>4, SMT
<1> HIDE DEF air, a, n
<1>4. Range(air) = {air[j] : j \in 1..Len(air)}
  BY <1>2 DEF Range
<1>5. f \in [1..n -> used]
  <2> SUFFICES ASSUME NEW i \in 1..n
               PROVE  (IF i <= a THEN outbox[i].id ELSE air[i - a].id) \in used
    OBVIOUS
  <2>1. CASE i <= a
    <3>1. i \in DOMAIN outbox
      BY <1>2, <1>3, <2>1, SMT
    <3> QED
      BY <2>1, <3>1
  <2>2. CASE ~(i <= a)
    <3>1. i - a \in 1..Len(air)
      BY <1>2, <1>3, <2>2, SMT
    <3> QED
      BY <1>4, <2>2, <3>1
  <2> QED
    BY <2>1, <2>2
<1>6. ASSUME NEW u \in used PROVE \E i \in 1..n : f[i] = u
  <2>1. CASE \E i \in DOMAIN outbox : u = outbox[i].id
    <3>1. PICK i \in 1..a : u = outbox[i].id
      BY <1>2, <2>1
    <3>2. i \in 1..n /\ i <= a
      BY <1>2, <1>3, SMT
    <3> QED
      BY <3>1, <3>2
  <2>2. CASE \E p \in Range(air) : u = p.id
    <3>1. PICK j \in 1..Len(air) : u = air[j].id
      BY <1>4, <2>2
    <3>2. j + a \in 1..n /\ ~(j + a <= a) /\ (j + a) - a = j
      BY <1>2, <1>3, SMT
    <3> QED
      BY <3>1, <3>2
  <2> QED
    BY <2>1, <2>2
<1> HIDE DEF f, used
<1>7. \E k \in 1..(n + 1) : k \notin used
  BY <1>3, <1>5, <1>6, FreshId
<1> DEFINE id == CHOOSE k \in 1..(n + 1) : k \notin used
<1>8. id \in 1..(n + 1)
  BY <1>7, Zenon
<1>9. id \in Nat \ {0}
  <2> HIDE DEF id
  <2> QED
    BY <1>3, <1>8, SMT
<1>10. /\ outbox' = Append(outbox, [id |-> id, load |-> load, sent |-> sent])
       /\ wire' = IF sent /\ net = "up"
                  THEN Append(wire, [id |-> id, load |-> load]) ELSE wire
  BY Zenon DEF Store, n, used, air
<1> QED
  BY <1>9, <1>10, Zenon

-----------------------------------------------------------------------------
(***************************************************************************)
(* What a queue carries after an entry is appended, marked as sent or      *)
(* removed.                                                                *)
(***************************************************************************)
LoadsIn(q, K) == \A i \in DOMAIN q : q[i].load \in K

LEMMA LoadsAppend ==
  ASSUME NEW S, NEW K, NEW q \in Seq(S), LoadsIn(q, K), NEW e \in S, e.load \in K
  PROVE  Append(q, e) \in Seq(S) /\ LoadsIn(Append(q, e), K)
<1>1. /\ Append(q, e) \in Seq(S)
      /\ Len(Append(q, e)) = Len(q) + 1
      /\ \A i \in 1..Len(q) : Append(q, e)[i] = q[i]
      /\ Append(q, e)[Len(q) + 1] = e
  BY AppendProperties
<1>2. /\ Len(q) \in Nat /\ DOMAIN q = 1..Len(q)
      /\ DOMAIN Append(q, e) = 1..(Len(q) + 1)
  BY <1>1, LenProperties
<1>3. ASSUME NEW i \in 1..(Len(q) + 1) PROVE Append(q, e)[i].load \in K
  <2>1. i = Len(q) + 1 \/ i \in 1..Len(q)
    BY <1>2, SMT
  <2> QED
    BY <1>1, <1>2, <2>1 DEF LoadsIn
<1> QED
  BY <1>1, <1>2, <1>3 DEF LoadsIn

LEMMA LoadsTail ==
  ASSUME NEW S, NEW K, NEW q \in Seq(S), LoadsIn(q, K), q # <<>>
  PROVE  /\ Head(q) \in S /\ Head(q).load \in K
         /\ Tail(q) \in Seq(S) /\ LoadsIn(Tail(q), K)
<1>1. /\ Head(q) \in S /\ Tail(q) \in Seq(S)
      /\ Len(Tail(q)) = Len(q) - 1
      /\ \A i \in 1..Len(Tail(q)) : Tail(q)[i] = q[i + 1]
      /\ Head(q) = q[1]
  BY HeadTailProperties
<1>2. /\ Len(q) \in Nat \ {0} /\ DOMAIN q = 1..Len(q)
      /\ DOMAIN Tail(q) = 1..Len(Tail(q))
  BY <1>1, LenProperties, EmptySeq
<1>3. 1 \in DOMAIN q /\ \A i \in DOMAIN Tail(q) : i + 1 \in DOMAIN q
  BY <1>1, <1>2, SMT
<1> QED
  BY <1>1, <1>2, <1>3 DEF LoadsIn

LEMMA LoadsRemove ==
  ASSUME NEW S, NEW K, NEW q \in Seq(S), LoadsIn(q, K), NEW i \in DOMAIN q
  PROVE  RemoveAt(q, i) \in Seq(S) /\ LoadsIn(RemoveAt(q, i), K)
<1> DEFINE T == {e \in S : e.load \in K}
           front == SubSeq(q, 1, i - 1)
           back == SubSeq(q, i + 1, Len(q))
<1>1. Len(q) \in Nat /\ DOMAIN q = 1..Len(q) /\ i \in 1..Len(q)
  BY LenProperties
<1>2. \A j \in 1..Len(q) : q[j] \in T
  BY <1>1, ElementOfSeq DEF LoadsIn
<1> HIDE DEF T
<1>3. front \in Seq(T)
  <2>1. \A j \in 1..(i - 1) : q[j] \in T
    BY <1>1, <1>2, SMT
  <2>2. i - 1 \in Int
    BY <1>1, SMT
  <2> QED
    BY <2>1, <2>2, SubSeqProperties
<1>4. back \in Seq(T)
  <2>1. \A j \in (i + 1)..Len(q) : q[j] \in T
    BY <1>1, <1>2, SMT
  <2>2. i + 1 \in Int /\ Len(q) \in Int
    BY <1>1, SMT
  <2> QED
    BY <2>1, <2>2, SubSeqProperties
<1>5. RemoveAt(q, i) \in Seq(T)
  <2>1. front \o back \in Seq(T)
    BY <1>3, <1>4, ConcatProperties
  <2> QED
    BY <2>1 DEF RemoveAt
<1>6. T \subseteq S /\ \A e \in T : e.load \in K
  BY DEF T
<1>7. \A j \in DOMAIN RemoveAt(q, i) : RemoveAt(q, i)[j] \in T
  BY <1>5, LenProperties, ElementOfSeq
<1> QED
  BY <1>5, <1>6, <1>7, SeqMonotonic DEF LoadsIn

LEMMA LoadsMark ==
  ASSUME NEW K, NEW q \in Seq(Items), LoadsIn(q, K), NEW i \in DOMAIN q
  PROVE  [q EXCEPT ![i].sent = TRUE] \in Seq(Items) /\ LoadsIn([q EXCEPT ![i].sent = TRUE], K)
<1> DEFINE e == [q[i] EXCEPT !.sent = TRUE]
           r == [q EXCEPT ![i] = e]
<1>1. i \in 1..Len(q) /\ DOMAIN q = 1..Len(q)
  BY LenProperties
<1>2. q[i] \in Items
  BY <1>1, ElementOfSeq
<1>3. e \in Items /\ e.load = q[i].load
  BY <1>2 DEF Items
<1>4. [q EXCEPT ![i].sent = TRUE] = r
  OBVIOUS
<1> HIDE DEF e
<1>5. /\ r \in Seq(Items) /\ Len(r) = Len(q)
      /\ \A j \in 1..Len(q) : r[j] = IF j = i THEN e ELSE q[j]
  BY <1>1, <1>3, ExceptSeq
<1>6. DOMAIN r = 1..Len(q)
  BY <1>1
<1> QED
  BY <1>1, <1>3, <1>4, <1>5, <1>6 DEF LoadsIn

LEMMA LoadsEmpty ==
  ASSUME NEW S, NEW K
  PROVE  <<>> \in Seq(S) /\ LoadsIn(<<>>, K)
BY SMT DEF LoadsIn

-----------------------------------------------------------------------------
(***************************************************************************)
(* The JSON texts there are show a reading that was taken.  The readings   *)
(* do not go back, the cache is a text of json except while it is written, *)
(* and the handler, which re-publishes it, does not run meanwhile.         *)
(***************************************************************************)
Known == {Online, Sub} \cup {JsonOf(r) : r \in 1..latest}

Begun ==
  /\ notified \/ spc = "stored" \/ ppc = "pull" => latest > 0
  /\ ppc \in {"check", "publish", "copy", "copied"} => json > 0

InOrder == cache.len <= json /\ json <= latest

CacheWritten ==
  /\ cache.len = cache.back
  /\ cache.front = IF ppc = "copied" THEN json ELSE cache.len

Calm ==
  /\ state = "INIT" => cpc = "loop" /\ ppc \notin {"publish", "copy", "copied"}
  /\ cpc = "republish" => ppc \notin {"copy", "copied"} /\ count = 0

OnlyKnown == LoadsIn(outbox, Known) /\ LoadsIn(wire, Known)

LinkInv ==
  /\ TypeOK
  /\ Begun /\ InOrder /\ CacheWritten /\ Calm /\ OnlyKnown
  /\ FlagMeansConnected /\ NoLostWakeup /\ AcceptedNotLost /\ SubscriptionRenewed

QueuesOK(K) ==
  /\ outbox \in Seq(Items) /\ LoadsIn(outbox, K)
  /\ wire \in Seq(Packets) /\ LoadsIn(wire, K)
  /\ acks \in Seq(Packets)

LEMMA StoreQueues ==
  ASSUME TypeOK, NEW K \in SUBSET Loads, QueuesOK(K), NEW load \in K, NEW sent \in BOOLEAN,
         Store(load, sent), acks' = acks
  PROVE  QueuesOK(K)'
<1>1. PICK id \in Nat \ {0} :
        /\ outbox' = Append(outbox, [id |-> id, load |-> load, sent |-> sent])
        /\ wire' = IF sent /\ net = "up"
                   THEN Append(wire, [id |-> id, load |-> load]) ELSE wire
  BY StoreEffect
<1> DEFINE e == [id |-> id, load |-> load, sent |-> sent]
           p == [id |-> id, load |-> load]
<1>2. e \in Items /\ e.load \in K /\ p \in Packets /\ p.load \in K
  BY DEF Items, Packets
<1>3. Append(outbox, e) \in Seq(Items) /\ LoadsIn(Append(outbox, e), K)
  BY <1>2, LoadsAppend DEF QueuesOK
<1>4. Append(wire, p) \in Seq(Packets) /\ LoadsIn(Append(wire, p), K)
  BY <1>2, LoadsAppend DEF QueuesOK
<1> QED
  BY <1>1, <1>3, <1>4 DEF QueuesOK, LoadsIn

LEMMA PublishQueues ==
  ASSUME TypeOK, NEW K \in SUBSET Loads, QueuesOK(K), NEW load \in K,
         PublishOk(load) \/ PublishFails(load)
  PROVE  QueuesOK(K)'
<1>1. acks' = acks
  BY DEF PublishOk, PublishFails
<1>2. CASE PublishOk(load)
  <2>1. Store(load, state = "CONNECTED")
    BY <1>2 DEF PublishOk
  <2> QED
    BY <1>1, <2>1, StoreQueues
<1>3. CASE PublishFails(load)
  <2>1. Store(load, FALSE) \/ UNCHANGED <<outbox, wire>>
    BY <1>3 DEF PublishFails
  <2>2. CASE Store(load, FALSE)
    BY <1>1, <2>2, StoreQueues
  <2>3. CASE UNCHANGED <<outbox, wire>>
    BY <1>1, <2>3 DEF QueuesOK, LoadsIn
  <2> QED
    BY <2>1, <2>2, <2>3
<1> QED
  BY <1>2, <1>3

LEMMA WriteQueues ==
  ASSUME NEW K, QueuesOK(K), NEW item \in Items, item.load \in K, Write(item)
  PROVE  wire' \in Seq(Packets) /\ LoadsIn(wire', K)
<1> DEFINE p == [id |-> item.id, load |-> item.load]
<1>1. p \in Packets /\ p.load \in K
  BY DEF Items, Packets
<1>2. Append(wire, p) \in Seq(Packets) /\ LoadsIn(Append(wire, p), K)
  BY <1>1, LoadsAppend DEF QueuesOK
<1> QED
  BY <1>2 DEF Write, QueuesOK

LEMMA OldestIsOne ==
  ASSUME NEW n \in Nat, NEW A \in SUBSET (1..n), A # {}
  PROVE  Oldest(A) \in A
<1>1. \E i \in A : \A j \in A : i <= j
  <2>1. A \subseteq Nat
    BY SMT
  <2>2. PICK m \in A : \A k \in A : ~ (<<k, m>> \in OpToRel(<, Nat))
    BY <2>1, WFMin, NatLessThanWellFounded
  <2>3. \A k \in A : ~ (k < m)
    BY <2>1, <2>2 DEF OpToRel
  <2> QED
    BY <2>1, <2>3, SMT
<1> QED
  BY <1>1 DEF Oldest

(***************************************************************************)
(* What the two tasks publish is known.                                    *)
(***************************************************************************)
LEMMA OffersKnown ==
  ASSUME TypeOK, Begun, InOrder, CacheWritten, Calm
  PROVE  /\ Known \subseteq Loads
         /\ Online \in Known /\ Sub \in Known
         /\ ppc = "publish" => JsonOf(json) \in Known
         /\ cpc = "republish" => Cached = JsonOf(cache.len)
         /\ cpc = "republish" /\ cache.len > 0 => Cached \in Known
<1>1. /\ latest \in 0..MaxReading /\ json \in 0..MaxReading
      /\ cache.len \in 0..MaxReading
  BY DEF TypeOK
<1>2. \A r \in 1..latest : r \in Readings
  BY <1>1, BoundsAssumption, SMT DEF Readings
<1>3. Known \subseteq Loads
  BY <1>2, Zenon DEF Known, Loads
<1>4. ppc = "publish" => json \in 1..latest
  BY <1>1, SMT DEF Begun, InOrder
<1>5. cache.len > 0 => cache.len \in 1..latest
  BY <1>1, SMT DEF InOrder
<1>6. cpc = "republish" => Cached = JsonOf(cache.len)
  BY DEF Cached, CacheWritten, Calm
<1> QED
  BY <1>3, <1>4, <1>5, <1>6, Zenon DEF Known

LEMMA QueuesNext ==
  ASSUME TypeOK, Begun, InOrder, CacheWritten, Calm, OnlyKnown, [Next]_vars
  PROVE  /\ outbox' \in Seq(Items) /\ wire' \in Seq(Packets) /\ acks' \in Seq(Packets)
         /\ OnlyKnown'
<1>1. PICK K : K = Known
  OBVIOUS
<1>2. /\ K \in SUBSET Loads /\ Online \in K /\ Sub \in K
      /\ ppc = "publish" => JsonOf(json) \in K
      /\ cpc = "republish" /\ cache.len > 0 => Cached \in K
  BY <1>1, OffersKnown
<1>3. QueuesOK(K)
  BY <1>1 DEF QueuesOK, OnlyKnown, TypeOK, Items
<1>4. QueuesOK(K)'
  <2>1. CASE StoreReading \/ Notify \/ TakeNotification \/ PullJson \/ CheckConnected
             \/ CopyFront \/ CopyBack \/ Connect \/ ConnectFails \/ NoticeLoss \/ ReconnectDelay
    <3>1. UNCHANGED <<outbox, wire, acks>>
      BY <2>1, Zenon DEF StoreReading, Notify, TakeNotification, PullJson, CheckConnected,
         CopyFront, CopyBack, Connect, ConnectFails, NoticeLoss, ReconnectDelay, traffic
    <3> QED
      BY <1>3, <3>1 DEF QueuesOK, LoadsIn
  <2>2. CASE Rest \/ UNCHANGED vars
    BY <1>3, <2>2 DEF Rest, vars, traffic, QueuesOK, LoadsIn
  <2>3. CASE PublishJson
    <3>1. PublishOk(JsonOf(json)) \/ PublishFails(JsonOf(json))
      BY <2>3 DEF PublishJson
    <3>2. JsonOf(json) \in K
      BY <1>2, <2>3 DEF PublishJson
    <3> QED
      BY <1>2, <1>3, <3>1, <3>2, PublishQueues
  <2>4. CASE Republish
    <3>1. CASE cache.len > 0
      <4>1. PublishOk(Cached) \/ PublishFails(Cached)
        BY <2>4, <3>1, Zenon DEF Republish
      <4>2. Cached \in K
        BY <1>2, <2>4, <3>1, Zenon DEF Republish
      <4> QED
        BY <1>2, <1>3, <4>1, <4>2, PublishQueues
    <3>2. CASE ~(cache.len > 0)
      <4>1. UNCHANGED <<outbox, wire, acks>>
        BY <2>4, <3>2, Zenon DEF Republish
      <4> QED
        BY <1>3, <4>1 DEF QueuesOK, LoadsIn
    <3> QED
      BY <3>1, <3>2
  <2>5. CASE PublishOnline
    <3>1. PublishOk(Online) \/ PublishFails(Online)
      BY <2>5 DEF PublishOnline
    <3> QED
      BY <1>2, <1>3, <3>1, PublishQueues
  <2>6. CASE Subscribe
    <3>1. acks' = acks /\ (Store(Sub, TRUE) \/ UNCHANGED <<outbox, wire>>)
      BY <2>6 DEF Subscribe
    <3>2. CASE Store(Sub, TRUE)
      BY <1>2, <1>3, <3>1, <3>2, StoreQueues
    <3>3. CASE UNCHANGED <<outbox, wire>>
      BY <1>3, <3>1, <3>3 DEF QueuesOK, LoadsIn
    <3> QED
      BY <3>1, <3>2, <3>3
  <2>7. CASE ReceiveAck
    <3>1. acks # <<>> /\ acks' = Tail(acks) /\ wire' = wire /\ Delete(Head(acks).id)
      BY <2>7 DEF ReceiveAck
    <3>2. acks' \in Seq(Packets)
      <4>1. acks \in Seq(Packets)
        BY <1>3 DEF QueuesOK
      <4> QED
        BY <3>1, <4>1, HeadTailProperties
    <3>3. outbox' \in Seq(Items) /\ LoadsIn(outbox', K)
      <4> DEFINE A == {i \in DOMAIN outbox : outbox[i].id = Head(acks).id}
      <4>1. outbox' = IF A = {} THEN outbox ELSE RemoveAt(outbox, Oldest(A))
        BY <3>1 DEF Delete
      <4>2. CASE A = {}
        BY <1>3, <4>1, <4>2 DEF QueuesOK
      <4>3. CASE A # {}
        <5>1. DOMAIN outbox = 1..Len(outbox) /\ Len(outbox) \in Nat
          BY <1>3, LenProperties DEF QueuesOK
        <5>2. Oldest(A) \in A
          <6> HIDE DEF A
          <6>1. A \in SUBSET (1..Len(outbox))
            BY <5>1 DEF A
          <6> QED
            BY <4>3, <5>1, <6>1, OldestIsOne
        <5>3. PICK i \in DOMAIN outbox : outbox' = RemoveAt(outbox, i)
          BY <4>1, <4>3, <5>2
        <5> QED
          BY <1>3, <5>3, LoadsRemove DEF QueuesOK
      <4> QED
        BY <4>2, <4>3
    <3> QED
      BY <1>3, <3>1, <3>2, <3>3 DEF QueuesOK, LoadsIn
  <2>8. CASE ResendQueued
    <3> DEFINE i == Oldest(Queued)
    <3>1. /\ Queued # {} /\ acks' = acks
          /\ \/ Write(outbox[i]) /\ outbox' = [outbox EXCEPT ![i].sent = TRUE]
             \/ outbox' = outbox /\ wire' = wire
      BY <2>8 DEF ResendQueued
    <3>2. i \in DOMAIN outbox
      <4>1. DOMAIN outbox = 1..Len(outbox) /\ Len(outbox) \in Nat
        BY <1>3, LenProperties DEF QueuesOK
      <4>2. Queued \in SUBSET (1..Len(outbox))
        BY <4>1 DEF Queued
      <4>3. Oldest(Queued) \in Queued
        BY <3>1, <4>1, <4>2, OldestIsOne
      <4> QED
        BY <4>3 DEF Queued
    <3> HIDE DEF i
    <3>3. outbox[i] \in Items /\ outbox[i].load \in K
      BY <1>3, <3>2, LenProperties, ElementOfSeq DEF QueuesOK, LoadsIn
    <3>4. CASE Write(outbox[i]) /\ outbox' = [outbox EXCEPT ![i].sent = TRUE]
      <4>1. wire' \in Seq(Packets) /\ LoadsIn(wire', K)
        BY <1>3, <3>3, <3>4, WriteQueues
      <4>2. outbox' \in Seq(Items) /\ LoadsIn(outbox', K)
        BY <1>3, <3>2, <3>4, LoadsMark DEF QueuesOK
      <4> QED
        BY <1>3, <3>1, <4>1, <4>2 DEF QueuesOK, LoadsIn
    <3>5. CASE outbox' = outbox /\ wire' = wire
      BY <1>3, <3>1, <3>5 DEF QueuesOK, LoadsIn
    <3> QED
      BY <3>1, <3>4, <3>5
  <2>9. CASE Retransmit
    <3>1. outbox # <<>> /\ outbox' = outbox /\ acks' = acks /\ Write(outbox[1])
      BY <2>9 DEF Retransmit
    <3>2. 1 \in DOMAIN outbox
      <4>1. Len(outbox) \in Nat \ {0} /\ DOMAIN outbox = 1..Len(outbox)
        BY <1>3, <3>1, EmptySeq, LenProperties DEF QueuesOK
      <4> QED
        BY <4>1, SMT
    <3>3. outbox[1] \in Items /\ outbox[1].load \in K
      BY <1>3, <3>2, LenProperties, ElementOfSeq DEF QueuesOK, LoadsIn
    <3>4. wire' \in Seq(Packets) /\ LoadsIn(wire', K)
      BY <1>3, <3>1, <3>3, WriteQueues
    <3> QED
      BY <1>3, <3>1, <3>4 DEF QueuesOK, LoadsIn
  <2>10. CASE Expire
    <3>1. wire' = wire /\ acks' = acks
      BY <2>10 DEF Expire, traffic
    <3>2. PICK i \in DOMAIN outbox : outbox' = RemoveAt(outbox, i)
      BY <2>10 DEF Expire
    <3>3. outbox' \in Seq(Items) /\ LoadsIn(outbox', K)
      BY <1>3, <3>2, LoadsRemove DEF QueuesOK
    <3> QED
      BY <1>3, <3>1, <3>3 DEF QueuesOK, LoadsIn
  <2>11. CASE BrokerReceives
    <3>1. /\ wire # <<>> /\ wire' = Tail(wire) /\ outbox' = outbox
          /\ acks' = Append(acks, Head(wire))
      BY <2>11 DEF BrokerReceives
    <3>2. Head(wire) \in Packets /\ wire' \in Seq(Packets) /\ LoadsIn(wire', K)
      BY <1>3, <3>1, LoadsTail DEF QueuesOK
    <3>3. acks' \in Seq(Packets)
      <4>1. acks \in Seq(Packets)
        BY <1>3 DEF QueuesOK
      <4> QED
        BY <3>1, <3>2, <4>1, AppendProperties
    <3> QED
      BY <1>3, <3>1, <3>2, <3>3 DEF QueuesOK, LoadsIn
  <2>12. CASE NetFails \/ BrokerDisconnects
    <3>1. outbox' = outbox /\ wire' = <<>> /\ acks' = <<>>
      BY <2>12, Zenon DEF NetFails, BrokerDisconnects
    <3> QED
      BY <1>3, <3>1, LoadsEmpty DEF QueuesOK, LoadsIn
  <2> QED
    BY <2>1, <2>2, <2>3, <2>4, <2>5, <2>6, <2>7, <2>8, <2>9, <2>10, <2>11, <2>12, Zenon
    DEF Next, PublisherStep, ClientStep, HandleConnected
<1>5. K \subseteq Known'
  <2>1. latest \in Nat /\ latest' \in {latest, latest + 1}
    <3>1. latest' = latest + 1 \/ latest' = latest
      BY Zenon DEF Next, PublisherStep, ClientStep, HandleConnected, vars, app,
         StoreReading, Notify, TakeNotification, PullJson, CheckConnected, PublishJson,
         CopyFront, CopyBack, Connect, ConnectFails, Republish, PublishOnline, Subscribe,
         NoticeLoss, ReceiveAck, ResendQueued, Retransmit, ReconnectDelay, Expire,
         BrokerReceives, NetFails, BrokerDisconnects, Rest
    <3>2. latest \in 0..MaxReading
      BY DEF TypeOK
    <3> QED
      BY <3>1, <3>2, SMT
  <2>2. 1..latest \subseteq 1..latest'
    BY <2>1, SMT
  <2> QED
    BY <1>1, <2>2, Zenon DEF Known
<1> QED
  BY <1>4, <1>5 DEF QueuesOK, OnlyKnown, LoadsIn

-----------------------------------------------------------------------------
(***************************************************************************)
(* The application's side: what only the sensor task and the MQTT task     *)
(* change.                                                                 *)
(***************************************************************************)
LEMMA OthersLeaveApp ==
  [Next]_vars => StoreReading \/ Notify \/ PublisherStep \/ UNCHANGED <<app, publisher>>
BY Zenon DEF Next, ClientStep, HandleConnected, vars, Connect, ConnectFails, Republish,
   PublishOnline, Subscribe, NoticeLoss, ReceiveAck, ResendQueued, Retransmit,
   ReconnectDelay, Expire, BrokerReceives, NetFails, BrokerDisconnects, Rest

AppTypes ==
  /\ latest \in 0..MaxReading /\ json \in 0..MaxReading
  /\ cache \in [front : 0..MaxReading, back : 0..MaxReading, len : 0..MaxReading]

AppControl ==
  /\ spc \in {"idle", "stored"}
  /\ notified \in BOOLEAN
  /\ ppc \in {"wait", "pull", "check", "publish", "copy", "copied"}

AppInv == AppTypes /\ AppControl /\ Begun /\ InOrder /\ CacheWritten /\ NoLostWakeup

LEMMA AppNext ==
  ASSUME AppInv, [Next]_vars
  PROVE  AppInv'
<1>0. /\ latest \in 0..MaxReading /\ json \in 0..MaxReading
      /\ cache \in [front : 0..MaxReading, back : 0..MaxReading, len : 0..MaxReading]
      /\ cache.len <= json /\ json <= latest
      /\ cache.len = cache.back
      /\ cache.front = IF ppc = "copied" THEN json ELSE cache.len
  BY DEF AppInv, AppTypes, InOrder, CacheWritten
<1>1. AppControl'
  BY OthersLeaveApp, Zenon DEF AppInv, AppControl, PublisherStep, StoreReading, Notify,
     TakeNotification, PullJson, CheckConnected, PublishJson, CopyFront, CopyBack, app, publisher
<1>2. CASE StoreReading
  <2>1. /\ latest < MaxReading /\ latest' = latest + 1 /\ spc' = "stored"
        /\ UNCHANGED <<notified, ppc, json, cache>>
    BY <1>2 DEF StoreReading, publisher
  <2>2. /\ latest' \in 0..MaxReading /\ latest' > 0 /\ json <= latest'
    BY <1>0, <2>1, BoundsAssumption, SMT
  <2> QED
    BY <1>0, <1>1, <2>1, <2>2 DEF AppInv, AppTypes, Begun, InOrder, CacheWritten, NoLostWakeup
<1>3. CASE Notify
  <2>1. /\ spc = "stored" /\ notified' = TRUE /\ spc' = "idle"
        /\ UNCHANGED <<latest, ppc, json, cache>>
    BY <1>3 DEF Notify, publisher
  <2> QED
    BY <1>0, <1>1, <2>1 DEF AppInv, AppTypes, Begun, InOrder, CacheWritten, NoLostWakeup
<1>4. CASE TakeNotification
  <2>1. /\ notified /\ ppc = "wait" /\ ppc' = "pull"
        /\ UNCHANGED <<latest, spc, json, cache>>
    BY <1>4 DEF TakeNotification
  <2>2. latest > 0
    BY <2>1, Zenon DEF AppInv, Begun
  <2> QED
    BY <1>0, <1>1, <2>1, <2>2 DEF AppInv, AppTypes, Begun, InOrder, CacheWritten, NoLostWakeup
<1>5. CASE PullJson
  <2>1. /\ ppc = "pull" /\ ppc' = "check" /\ json' = latest
        /\ UNCHANGED <<latest, spc, notified, cache>>
    BY <1>5 DEF PullJson, app
  <2>2. latest > 0
    BY <2>1, Zenon DEF AppInv, Begun
  <2>3. cache.len <= json' /\ json' <= latest' /\ ~(latest' > json')
    BY <1>0, <2>1, SMT
  <2> QED
    BY <1>0, <1>1, <2>1, <2>2, <2>3
    DEF AppInv, AppTypes, Begun, InOrder, CacheWritten, NoLostWakeup
<1>6. CASE CheckConnected \/ PublishJson
  <2>1. /\ ppc \in {"check", "publish"}
        /\ ppc' \in {"wait", "publish", "copy"}
        /\ UNCHANGED <<latest, spc, notified, json, cache>>
    BY <1>6 DEF CheckConnected, PublishJson, app
  <2>2. json > 0
    BY <2>1 DEF AppInv, Begun
  <2> QED
    BY <1>0, <1>1, <2>1, <2>2 DEF AppInv, AppTypes, Begun, InOrder, CacheWritten, NoLostWakeup
<1>7. CASE CopyFront
  <2>1. /\ ppc = "copy" /\ ppc' = "copied" /\ cache' = [cache EXCEPT !.front = json]
        /\ UNCHANGED <<latest, spc, notified, json>>
    BY <1>7 DEF CopyFront, app
  <2>2. /\ cache' \in [front : 0..MaxReading, back : 0..MaxReading, len : 0..MaxReading]
        /\ cache'.front = json /\ cache'.len = cache.len /\ cache'.back = cache.back
    BY <1>0, <2>1
  <2> QED
    BY <1>0, <1>1, <2>1, <2>2 DEF AppInv, AppTypes, Begun, InOrder, CacheWritten, NoLostWakeup
<1>8. CASE CopyBack
  <2>1. /\ ppc = "copied" /\ ppc' = "wait"
        /\ cache' = [cache EXCEPT !.back = json, !.len = json]
        /\ UNCHANGED <<latest, spc, notified, json>>
    BY <1>8 DEF CopyBack, app
  <2>2. /\ cache' \in [front : 0..MaxReading, back : 0..MaxReading, len : 0..MaxReading]
        /\ cache'.front = json /\ cache'.len = json /\ cache'.back = json
    BY <1>0, <2>1
  <2>3. json <= json
    BY <1>0, SMT
  <2> QED
    BY <1>0, <1>1, <2>1, <2>2, <2>3
    DEF AppInv, AppTypes, Begun, InOrder, CacheWritten, NoLostWakeup
<1>9. CASE UNCHANGED <<app, publisher>>
  BY <1>9 DEF AppInv, AppTypes, AppControl, Begun, InOrder, CacheWritten, NoLostWakeup,
              app, publisher
<1> QED
  BY <1>2, <1>3, <1>4, <1>5, <1>6, <1>7, <1>8, <1>9, OthersLeaveApp, Zenon DEF PublisherStep

-----------------------------------------------------------------------------
(***************************************************************************)
(* The connection.                                                         *)
(***************************************************************************)
LinkTypes ==
  /\ s_mqtt_connected \in BOOLEAN
  /\ state \in {"INIT", "CONNECTED", "WAIT_RECONNECT"}
  /\ cpc \in {"loop", "republish", "online", "subscribe"}
  /\ count \in Nat
  /\ net \in {"up", "down"}
  /\ got \subseteq Readings \cup {Torn}
  /\ subscribed \in BOOLEAN
  /\ faults \in 0..MaxFaults

LEMMA LinkTypesNext ==
  ASSUME TypeOK, [Next]_vars
  PROVE  LinkTypes'
<1>1. s_mqtt_connected' \in BOOLEAN
  BY Zenon DEF TypeOK, Next, PublisherStep, ClientStep, HandleConnected, vars, StoreReading,
     Notify, TakeNotification, PullJson, CheckConnected, PublishJson, CopyFront, CopyBack,
     Connect, ConnectFails, Republish, PublishOnline, Subscribe, NoticeLoss, ReceiveAck,
     ResendQueued, Retransmit, ReconnectDelay, Expire, BrokerReceives, NetFails,
     BrokerDisconnects, Rest, PublishOk, PublishFails, Abort
<1>2. state' \in {"INIT", "CONNECTED", "WAIT_RECONNECT"}
  BY Zenon DEF TypeOK, Next, PublisherStep, ClientStep, HandleConnected, vars, StoreReading,
     Notify, TakeNotification, PullJson, CheckConnected, PublishJson, CopyFront, CopyBack,
     Connect, ConnectFails, Republish, PublishOnline, Subscribe, NoticeLoss, ReceiveAck,
     ResendQueued, Retransmit, ReconnectDelay, Expire, BrokerReceives, NetFails,
     BrokerDisconnects, Rest, PublishOk, PublishFails, Abort
<1>3. cpc' \in {"loop", "republish", "online", "subscribe"}
  BY Zenon DEF TypeOK, Next, PublisherStep, ClientStep, HandleConnected, vars, StoreReading,
     Notify, TakeNotification, PullJson, CheckConnected, PublishJson, CopyFront, CopyBack,
     Connect, ConnectFails, Republish, PublishOnline, Subscribe, NoticeLoss, ReceiveAck,
     ResendQueued, Retransmit, ReconnectDelay, Expire, BrokerReceives, NetFails,
     BrokerDisconnects, Rest
<1>4. net' \in {"up", "down"}
  BY Zenon DEF TypeOK, Next, PublisherStep, ClientStep, HandleConnected, vars, StoreReading,
     Notify, TakeNotification, PullJson, CheckConnected, PublishJson, CopyFront, CopyBack,
     Connect, ConnectFails, Republish, PublishOnline, Subscribe, NoticeLoss, ReceiveAck,
     ResendQueued, Retransmit, ReconnectDelay, Expire, BrokerReceives, NetFails,
     BrokerDisconnects, Rest, PublishOk, PublishFails
<1>5. subscribed' \in BOOLEAN
  <2>1. \/ subscribed' = subscribed
        \/ subscribed' = FALSE
        \/ subscribed' = (subscribed \/ Head(wire).load = Sub)
    BY Zenon DEF Next, PublisherStep, ClientStep, HandleConnected, vars, traffic,
       StoreReading, Notify, TakeNotification, PullJson, CheckConnected, PublishJson,
       CopyFront, CopyBack, Connect, ConnectFails, Republish, PublishOnline, Subscribe,
       NoticeLoss, ReceiveAck, ResendQueued, Retransmit, ReconnectDelay, Expire,
       BrokerReceives, NetFails, BrokerDisconnects, Rest
  <2>2. subscribed \in BOOLEAN
    BY DEF TypeOK
  <2> QED
    BY <2>1, <2>2, Zenon
<1>6. count' \in Nat
  <2>1. \/ count' = count \/ count' = count + 1 \/ count' = 0
        \/ count # 0 /\ count' = count - 1
    BY Zenon DEF Next, PublisherStep, ClientStep, HandleConnected, vars, StoreReading,
       Notify, TakeNotification, PullJson, CheckConnected, PublishJson, CopyFront, CopyBack,
       Connect, ConnectFails, Republish, PublishOnline, Subscribe, NoticeLoss, ReceiveAck,
       ResendQueued, Retransmit, ReconnectDelay, Expire, BrokerReceives, NetFails,
       BrokerDisconnects, Rest, PublishOk, PublishFails
  <2>2. count \in Nat
    BY DEF TypeOK
  <2> QED
    BY <2>1, <2>2, SMT
<1>7. faults' \in 0..MaxFaults
  <2>1. faults' = faults \/ (faults < MaxFaults /\ faults' = faults + 1)
    BY Zenon DEF Next, PublisherStep, ClientStep, HandleConnected, vars, StoreReading,
       Notify, TakeNotification, PullJson, CheckConnected, PublishJson, CopyFront, CopyBack,
       Connect, ConnectFails, Republish, PublishOnline, Subscribe, NoticeLoss, ReceiveAck,
       ResendQueued, Retransmit, ReconnectDelay, Expire, BrokerReceives, NetFails,
       BrokerDisconnects, Rest
  <2>2. faults \in 0..MaxFaults
    BY DEF TypeOK
  <2> QED
    BY <2>1, <2>2, BoundsAssumption, SMT
<1>8. got' \subseteq Readings \cup {Torn}
  <2>1. got \subseteq Readings \cup {Torn} /\ wire \in Seq(Packets)
    BY DEF TypeOK
  <2>2. CASE BrokerReceives
    <3>1. /\ wire # <<>>
          /\ got' = IF Head(wire).load.kind = "json"
                    THEN got \cup {Head(wire).load.reading} ELSE got
      BY <2>2 DEF BrokerReceives
    <3>2. Head(wire) \in Packets
      BY <2>1, <3>1, HeadTailProperties, Zenon
    <3>3. PICK load \in Loads : Head(wire).load = load
      BY <3>2 DEF Packets
    <3>4. load.kind = "json" => load.reading \in Readings \cup {Torn}
      <4>1. CASE load \in {Online, Sub}
        BY <4>1 DEF Online, Sub
      <4>2. CASE \E r \in Readings \cup {Torn} : load = JsonOf(r)
        <5>1. PICK r \in Readings \cup {Torn} : load = JsonOf(r)
          BY <4>2
        <5>2. load.reading = r
          BY <5>1 DEF JsonOf
        <5> QED
          BY <5>2
      <4> QED
        BY <4>1, <4>2, Zenon DEF Loads
    <3> QED
      BY <2>1, <3>1, <3>3, <3>4
  <2>3. CASE ~BrokerReceives
    <3>1. got' = got
      BY <2>3, Zenon DEF Next, PublisherStep, ClientStep, HandleConnected, vars, traffic,
         StoreReading, Notify, TakeNotification, PullJson, CheckConnected, PublishJson,
         CopyFront, CopyBack, Connect, ConnectFails, Republish, PublishOnline, Subscribe,
         NoticeLoss, ReceiveAck, ResendQueued, Retransmit, ReconnectDelay, Expire,
         NetFails, BrokerDisconnects, Rest
    <3> QED
      BY <2>1, <3>1
  <2> QED
    BY <2>2, <2>3
<1> QED
  BY <1>1, <1>2, <1>3, <1>4, <1>5, <1>6, <1>7, <1>8, Zenon DEF LinkTypes, Readings, Torn

LEMMA TypeNext ==
  ASSUME TypeOK, Begun, InOrder, CacheWritten, NoLostWakeup, Calm, OnlyKnown, [Next]_vars
  PROVE  TypeOK' /\ OnlyKnown' /\ AppInv'
<1>1. AppInv
  BY Zenon DEF TypeOK, AppInv, AppTypes, AppControl
<1>2. AppInv'
  BY <1>1, AppNext
<1>3. LinkTypes'
  BY LinkTypesNext
<1>4. /\ outbox' \in Seq(Items) /\ wire' \in Seq(Packets) /\ acks' \in Seq(Packets)
      /\ OnlyKnown'
  BY QueuesNext
<1> QED
  BY <1>2, <1>3, <1>4, Zenon DEF TypeOK, AppInv, AppTypes, AppControl, LinkTypes, Items

LEMMA FlagNext ==
  ASSUME FlagMeansConnected, [Next]_vars
  PROVE  FlagMeansConnected'
<1>1. CASE UNCHANGED <<state, s_mqtt_connected>>
  BY <1>1 DEF FlagMeansConnected
<1>2. CASE Abort \/ Connect \/ BrokerDisconnects
  BY <1>2, Zenon DEF Abort, Connect, BrokerDisconnects, FlagMeansConnected
<1>3. CASE ReconnectDelay
  <2>1. state = "WAIT_RECONNECT" /\ s_mqtt_connected' = s_mqtt_connected
    BY <1>3 DEF ReconnectDelay
  <2>2. ~s_mqtt_connected
    BY <2>1 DEF FlagMeansConnected
  <2> QED
    BY <2>1, <2>2 DEF FlagMeansConnected
<1>4. \/ UNCHANGED <<state, s_mqtt_connected>>
      \/ Abort \/ Connect \/ BrokerDisconnects \/ ReconnectDelay
  BY Zenon DEF Next, PublisherStep, ClientStep, HandleConnected, vars, StoreReading, Notify,
     TakeNotification, PullJson, CheckConnected, PublishJson, CopyFront, CopyBack,
     ConnectFails, Republish, PublishOnline, Subscribe, NoticeLoss, ReceiveAck,
     ResendQueued, Retransmit, Expire, BrokerReceives, NetFails, Rest, PublishOk, PublishFails
<1> QED
  BY <1>1, <1>2, <1>3, <1>4

(***************************************************************************)
(* From the loss of a connection until the next one the MQTT task does not *)
(* get to the cache, nor anybody to the counter until the handler runs.    *)
(***************************************************************************)
LEMMA CalmNext ==
  ASSUME Calm, FlagMeansConnected, [Next]_vars
  PROVE  Calm'
<1>1. CASE ReconnectDelay
  BY <1>1 DEF ReconnectDelay, Calm, publisher
<1>2. CASE Connect
  BY <1>2 DEF Connect, Calm, publisher
<1>3. ASSUME ~ReconnectDelay, ~Connect, state' = "INIT"
      PROVE  cpc' = "loop" /\ ppc' \notin {"publish", "copy", "copied"}
  <2>1. state = "INIT"
    BY <1>3, Zenon DEF Next, PublisherStep, ClientStep, HandleConnected, vars, StoreReading,
       Notify, TakeNotification, PullJson, CheckConnected, PublishJson, CopyFront, CopyBack,
       ConnectFails, Republish, PublishOnline, Subscribe, NoticeLoss, ReceiveAck,
       ResendQueued, Retransmit, Expire, BrokerReceives, NetFails, BrokerDisconnects, Rest,
       PublishOk, PublishFails, Abort
  <2>2. /\ cpc = "loop" /\ ppc \notin {"publish", "copy", "copied"}
        /\ ~s_mqtt_connected
    BY <2>1 DEF Calm, FlagMeansConnected
  <2>3. cpc' = "loop"
    BY <1>3, <2>2 DEF Next, PublisherStep, ClientStep, HandleConnected, vars, StoreReading,
       Notify, TakeNotification, PullJson, CheckConnected, PublishJson, CopyFront, CopyBack,
       ConnectFails, Republish, PublishOnline, Subscribe, NoticeLoss, ReceiveAck,
       ResendQueued, Retransmit, Expire, BrokerReceives, NetFails, BrokerDisconnects, Rest
  <2>4. CASE StoreReading \/ Notify \/ UNCHANGED <<app, publisher>>
    BY <2>2, <2>3, <2>4 DEF StoreReading, Notify, publisher
  <2>5. CASE PublisherStep
    BY <2>2, <2>3, <2>5 DEF PublisherStep, TakeNotification, PullJson, CheckConnected,
                            PublishJson, CopyFront, CopyBack
  <2> QED
    BY <2>3, <2>4, <2>5, OthersLeaveApp
<1>4. ASSUME ~Connect, cpc' = "republish"
      PROVE  ppc' \notin {"copy", "copied"} /\ count' = 0
  <2>1. cpc = "republish"
    BY <1>4 DEF Next, PublisherStep, ClientStep, HandleConnected, vars, StoreReading,
       Notify, TakeNotification, PullJson, CheckConnected, PublishJson, CopyFront, CopyBack,
       ConnectFails, Republish, PublishOnline, Subscribe, NoticeLoss, ReceiveAck,
       ResendQueued, Retransmit, ReconnectDelay, Expire, BrokerReceives, NetFails,
       BrokerDisconnects, Rest, Turn
  <2>2. ppc \notin {"copy", "copied"} /\ count = 0
    BY <2>1 DEF Calm
  <2>3. count' = count
    <3>1. ~PublishJson /\ ~ReceiveAck /\ ~ResendQueued /\ ~Retransmit
      BY <2>1, Zenon DEF PublishJson, ReceiveAck, ResendQueued, Retransmit, Turn, LockFree
    <3>2. ~Republish /\ ~PublishOnline
      BY <1>4, <2>1 DEF Republish, PublishOnline
    <3> QED
      BY <1>4, <3>1, <3>2, Zenon DEF Next, PublisherStep, ClientStep, HandleConnected, vars,
         StoreReading, Notify, TakeNotification, PullJson, CheckConnected, CopyFront, CopyBack,
         ConnectFails, Subscribe, NoticeLoss, ReconnectDelay, Expire, BrokerReceives, NetFails,
         BrokerDisconnects, Rest
  <2>4. CASE StoreReading \/ Notify \/ UNCHANGED <<app, publisher>>
    BY <2>2, <2>3, <2>4 DEF StoreReading, Notify, publisher
  <2>5. CASE PublisherStep
    BY <2>1, <2>2, <2>3, <2>5 DEF PublisherStep, TakeNotification, PullJson, CheckConnected,
                                  PublishJson, CopyFront, CopyBack, LockFree
  <2> QED
    BY <2>4, <2>5, OthersLeaveApp
<1> QED
  BY <1>1, <1>2, <1>3, <1>4 DEF Calm

-----------------------------------------------------------------------------
(***************************************************************************)
(* What is on the wire stays there until the broker has it or the          *)
(* connection is lost.                                                     *)
(***************************************************************************)
LEMMA RangeAppend ==
  ASSUME NEW S, NEW q \in Seq(S), NEW e \in S
  PROVE  Range(q) \subseteq Range(Append(q, e)) /\ e \in Range(Append(q, e))
<1>1. /\ Append(q, e) \in Seq(S)
      /\ Len(Append(q, e)) = Len(q) + 1
      /\ \A i \in 1..Len(q) : Append(q, e)[i] = q[i]
      /\ Append(q, e)[Len(q) + 1] = e
  BY AppendProperties
<1>2. /\ Len(q) \in Nat /\ DOMAIN q = 1..Len(q)
      /\ DOMAIN Append(q, e) = 1..(Len(q) + 1)
  BY <1>1, LenProperties
<1>3. /\ Len(q) + 1 \in 1..(Len(q) + 1)
      /\ 1..Len(q) \subseteq 1..(Len(q) + 1)
  BY <1>2, SMT
<1> QED
  BY <1>1, <1>2, <1>3 DEF Range

LEMMA RangeTail ==
  ASSUME NEW S, NEW q \in Seq(S), q # <<>>, NEW p \in Range(q)
  PROVE  p = Head(q) \/ p \in Range(Tail(q))
<1>1. /\ Tail(q) \in Seq(S)
      /\ Len(Tail(q)) = Len(q) - 1
      /\ \A i \in 1..Len(Tail(q)) : Tail(q)[i] = q[i + 1]
      /\ Head(q) = q[1]
  BY HeadTailProperties
<1>2. /\ Len(q) \in Nat \ {0} /\ DOMAIN q = 1..Len(q)
      /\ DOMAIN Tail(q) = 1..Len(Tail(q))
  BY <1>1, LenProperties, EmptySeq
<1>3. PICK i \in 1..Len(q) : q[i] = p
  BY <1>2 DEF Range
<1>4. CASE i = 1
  BY <1>1, <1>3, <1>4
<1>5. CASE i # 1
  <2>1. i - 1 \in 1..Len(Tail(q)) /\ (i - 1) + 1 = i
    BY <1>1, <1>2, <1>5, SMT
  <2>2. Tail(q)[i - 1] = p
    BY <1>1, <1>3, <2>1
  <2> QED
    BY <1>2, <2>1, <2>2 DEF Range
<1> QED
  BY <1>4, <1>5

OnWire(load) == \E p \in Range(wire) : p.load = load

LEMMA StoreOnWire ==
  ASSUME TypeOK, NEW load \in Loads, NEW sent \in BOOLEAN, Store(load, sent)
  PROVE  /\ Range(wire) \subseteq Range(wire')
         /\ sent /\ net = "up" => OnWire(load)'
<1>1. PICK id \in Nat \ {0} :
        wire' = IF sent /\ net = "up"
                THEN Append(wire, [id |-> id, load |-> load]) ELSE wire
  BY StoreEffect
<1> DEFINE p == [id |-> id, load |-> load]
<1>2. wire \in Seq(Packets) /\ p \in Packets /\ p.load = load
  BY DEF TypeOK, Packets
<1>3. Range(wire) \subseteq Range(Append(wire, p)) /\ p \in Range(Append(wire, p))
  BY <1>2, RangeAppend
<1> QED
  BY <1>1, <1>2, <1>3 DEF OnWire

LEMMA PublishOnWire ==
  ASSUME TypeOK, NEW load \in Loads, PublishOk(load) \/ PublishFails(load)
  PROVE  /\ Range(wire) \subseteq Range(wire')
         /\ net' = net
         /\ state' = state \/ state' = "WAIT_RECONNECT"
         /\ PublishOk(load) /\ state = "CONNECTED" /\ net = "up" => OnWire(load)'
<1>1. CASE PublishOk(load)
  <2>1. Store(load, state = "CONNECTED") /\ net' = net /\ state' = state
    BY <1>1 DEF PublishOk
  <2> QED
    BY <2>1, StoreOnWire
<1>2. CASE PublishFails(load)
  <2>1. /\ Store(load, FALSE) \/ wire' = wire
        /\ net' = net
        /\ state' = state \/ state' = "WAIT_RECONNECT"
    BY <1>2 DEF PublishFails, Abort
  <2>2. Range(wire) \subseteq Range(wire')
    BY <2>1, StoreOnWire
  <2>3. CASE PublishOk(load)
    BY <1>1, <2>3
  <2> QED
    BY <2>1, <2>2, <2>3
<1> QED
  BY <1>1, <1>2

LEMMA WriteOnWire ==
  ASSUME TypeOK, NEW i \in DOMAIN outbox, Write(outbox[i])
  PROVE  Range(wire) \subseteq Range(wire')
<1>1. outbox \in Seq(Items) /\ wire \in Seq(Packets)
  BY DEF TypeOK, Items
<1>2. outbox[i] \in Items
  BY <1>1, LenProperties, ElementOfSeq
<1> DEFINE p == [id |-> outbox[i].id, load |-> outbox[i].load]
<1>3. p \in Packets
  BY <1>2 DEF Items, Packets
<1>4. Range(wire) \subseteq Range(Append(wire, p))
  BY <1>1, <1>3, RangeAppend
<1> QED
  BY <1>4 DEF Write

LEMMA WireKept ==
  ASSUME TypeOK, Begun, InOrder, CacheWritten, Calm, [Next]_vars,
         ~Connect, ~NetFails, ~BrokerDisconnects, ~BrokerReceives
  PROVE  /\ Range(wire) \subseteq Range(wire')
         /\ got' = got /\ subscribed' = subscribed /\ net' = net
         /\ state' = state \/ state' # "CONNECTED"
<1>1. /\ ppc = "publish" => JsonOf(json) \in Loads
      /\ cpc = "republish" /\ cache.len > 0 => Cached \in Loads
      /\ Online \in Loads /\ Sub \in Loads
  BY OffersKnown
<1>2. CASE PublishJson
  <2>1. /\ PublishOk(JsonOf(json)) \/ PublishFails(JsonOf(json))
        /\ got' = got /\ subscribed' = subscribed /\ JsonOf(json) \in Loads
    BY <1>1, <1>2 DEF PublishJson
  <2> QED
    BY <2>1, PublishOnWire
<1>3. CASE Republish
  <2>1. got' = got /\ subscribed' = subscribed
    BY <1>3 DEF Republish
  <2>2. CASE cache.len > 0
    <3>1. (PublishOk(Cached) \/ PublishFails(Cached)) /\ Cached \in Loads
      BY <1>1, <1>3, <2>2, Zenon DEF Republish
    <3> QED
      BY <2>1, <3>1, PublishOnWire
  <2>3. CASE ~(cache.len > 0)
    <3>1. wire' = wire /\ net' = net /\ state' = state
      BY <1>3, <2>3, Zenon DEF Republish
    <3> QED
      BY <2>1, <3>1
  <2> QED
    BY <2>2, <2>3
<1>4. CASE PublishOnline
  <2>1. /\ PublishOk(Online) \/ PublishFails(Online)
        /\ got' = got /\ subscribed' = subscribed
    BY <1>4 DEF PublishOnline
  <2> QED
    BY <1>1, <2>1, PublishOnWire
<1>5. CASE Subscribe
  <2>1. /\ Store(Sub, TRUE) \/ wire' = wire
        /\ got' = got /\ subscribed' = subscribed /\ net' = net /\ state' = state
    BY <1>5 DEF Subscribe
  <2> QED
    BY <1>1, <2>1, StoreOnWire
<1>6. CASE ResendQueued \/ Retransmit
  <2>1. DOMAIN outbox = 1..Len(outbox) /\ Len(outbox) \in Nat
    BY LenProperties DEF TypeOK
  <2>2. got' = got /\ subscribed' = subscribed /\ net' = net
    BY <1>6, Zenon DEF ResendQueued, Retransmit
  <2>3. state' = state \/ state' # "CONNECTED"
    BY <1>6 DEF ResendQueued, Retransmit, Abort
  <2>4. wire' = wire \/ \E i \in DOMAIN outbox : Write(outbox[i])
    <3>1. CASE ResendQueued
      <4>1. Queued # {} /\ (wire' = wire \/ Write(outbox[Oldest(Queued)]))
        BY <3>1 DEF ResendQueued
      <4>2. Queued \in SUBSET (1..Len(outbox))
        BY <2>1 DEF Queued
      <4>3. Oldest(Queued) \in DOMAIN outbox
        BY <2>1, <4>1, <4>2, OldestIsOne
      <4> QED
        BY <4>1, <4>3
    <3>2. CASE Retransmit
      <4>1. outbox # <<>> /\ Write(outbox[1])
        BY <3>2 DEF Retransmit
      <4>2. 1 \in DOMAIN outbox
        <5>1. Len(outbox) # 0
          BY <4>1, EmptySeq DEF TypeOK
        <5> QED
          BY <2>1, <5>1, SMT
      <4> QED
        BY <4>1, <4>2
    <3> QED
      BY <1>6, <3>1, <3>2
  <2>5. Range(wire) \subseteq Range(wire')
    BY <2>4, WriteOnWire
  <2> QED
    BY <2>2, <2>3, <2>5
<1>7. CASE ConnectFails \/ NoticeLoss \/ ReceiveAck \/ ReconnectDelay \/ Expire
  <2>1. wire' = wire /\ got' = got /\ subscribed' = subscribed /\ net' = net
    BY <1>7, Zenon DEF ConnectFails, NoticeLoss, ReceiveAck, ReconnectDelay, Expire, traffic
  <2>2. state' = state \/ state' # "CONNECTED"
    BY <1>7 DEF ConnectFails, NoticeLoss, ReceiveAck, ReconnectDelay, Expire, Abort
  <2> QED
    BY <2>1, <2>2
<1>8. CASE StoreReading \/ Notify \/ TakeNotification \/ PullJson \/ CheckConnected
           \/ CopyFront \/ CopyBack \/ Rest \/ UNCHANGED vars
  <2>1. UNCHANGED <<wire, got, subscribed, net, state>>
    BY <1>8, Zenon DEF StoreReading, Notify, TakeNotification, PullJson, CheckConnected,
       CopyFront, CopyBack, Rest, vars, traffic
  <2> QED
    BY <2>1
<1> QED
  BY <1>2, <1>3, <1>4, <1>5, <1>6, <1>7, <1>8, Zenon
  DEF Next, PublisherStep, ClientStep, HandleConnected

(***************************************************************************)
(* SubscriptionRenewed is kept by every step: a connection begins inside   *)
(* the handler, which leaves it with the subscription written.             *)
(***************************************************************************)
LEMMA SubscriptionNext ==
  ASSUME TypeOK, Begun, InOrder, CacheWritten, Calm, SubscriptionRenewed, [Next]_vars
  PROVE  SubscriptionRenewed'
<1>1. CASE Connect
  BY <1>1 DEF Connect, SubscriptionRenewed
<1>2. CASE NetFails \/ BrokerDisconnects
  BY <1>2, Zenon DEF NetFails, BrokerDisconnects, SubscriptionRenewed
<1>3. CASE BrokerReceives
  <2>1. /\ wire # <<>> /\ wire' = Tail(wire)
        /\ state' = state /\ net' = net /\ cpc' = cpc
        /\ subscribed' = (subscribed \/ Head(wire).load = Sub)
    BY <1>3, Zenon DEF BrokerReceives
  <2>2. wire \in Seq(Packets)
    BY DEF TypeOK
  <2>3. \A p \in Range(wire) : p = Head(wire) \/ p \in Range(wire')
    BY <2>1, <2>2, RangeTail
  <2> QED
    BY <2>1, <2>3, Zenon DEF SubscriptionRenewed
<1>4. CASE Subscribe
  <2>1. CASE state = "CONNECTED" /\ net = "up"
    <3>1. Store(Sub, TRUE)
      BY <1>4, <2>1 DEF Subscribe
    <3>2. Sub \in Loads
      BY DEF Loads
    <3>3. OnWire(Sub)'
      BY <2>1, <3>1, <3>2, StoreOnWire
    <3> QED
      BY <3>3 DEF OnWire, SubscriptionRenewed
  <2>2. CASE ~(state = "CONNECTED" /\ net = "up")
    BY <1>4, <2>2, Zenon DEF Subscribe, SubscriptionRenewed
  <2> QED
    BY <2>1, <2>2
<1>5. CASE ~Connect /\ ~NetFails /\ ~BrokerDisconnects /\ ~BrokerReceives /\ ~Subscribe
  <2>1. /\ Range(wire) \subseteq Range(wire')
        /\ subscribed' = subscribed /\ net' = net
        /\ state' = state \/ state' # "CONNECTED"
    BY <1>5, WireKept
  <2>2. cpc' = "loop" => cpc = "loop"
    BY <1>5 DEF Next, PublisherStep, ClientStep, HandleConnected, vars, StoreReading,
       Notify, TakeNotification, PullJson, CheckConnected, PublishJson, CopyFront, CopyBack,
       ConnectFails, Republish, PublishOnline, NoticeLoss, ReceiveAck,
       ResendQueued, Retransmit, ReconnectDelay, Expire, Rest
  <2> QED
    BY <2>1, <2>2, Zenon DEF SubscriptionRenewed
<1> QED
  BY <1>1, <1>2, <1>3, <1>4, <1>5

(***************************************************************************)
(* What is accepted changes only when the client takes a JSON: the copy to *)
(* the cache moves it, and a JSON refused leaves it.                       *)
(***************************************************************************)
LEMMA AcceptedMoves ==
  [Next]_vars =>
    \/ Accepted' = Accepted
    \/ PublishJson /\ PublishOk(JsonOf(json)) /\ Accepted' = json
<1> SUFFICES ASSUME [Next]_vars
             PROVE  \/ Accepted' = Accepted
                    \/ PublishJson /\ PublishOk(JsonOf(json)) /\ Accepted' = json
  OBVIOUS
<1>1. CASE StoreReading \/ Notify \/ UNCHANGED <<app, publisher>>
  BY <1>1 DEF StoreReading, Notify, publisher, Accepted
<1>2. CASE TakeNotification \/ PullJson \/ CheckConnected \/ CopyFront
  BY <1>2 DEF TakeNotification, PullJson, CheckConnected, CopyFront, Accepted
<1>3. CASE CopyBack
  BY <1>3 DEF CopyBack, Accepted, AppTypes
<1>4. CASE PublishJson
  <2>1. /\ ppc = "publish" /\ UNCHANGED <<json, cache>>
        /\ \/ PublishOk(JsonOf(json)) /\ ppc' = "copy"
           \/ ppc' = "wait"
    BY <1>4, Zenon DEF PublishJson
  <2> QED
    BY <1>4, <2>1 DEF Accepted
<1> QED
  BY <1>1, <1>2, <1>3, <1>4, OthersLeaveApp DEF PublisherStep

LEMMA AcceptedNext ==
  ASSUME TypeOK, Begun, InOrder, CacheWritten, Calm, AcceptedNotLost, [Next]_vars
  PROVE  AcceptedNotLost'
<1>0. net \in {"up", "down"} /\ wire \in Seq(Packets)
  BY DEF TypeOK
<1>1. CASE Connect
  BY <1>1, Zenon DEF Connect, AcceptedNotLost
<1>2. CASE NetFails \/ BrokerDisconnects
  BY <1>2, Zenon DEF NetFails, BrokerDisconnects, AcceptedNotLost
<1>3. CASE BrokerReceives
  <2>1. /\ wire # <<>> /\ wire' = Tail(wire)
        /\ state' = state /\ net' = net /\ cpc' = cpc
        /\ got' = IF Head(wire).load.kind = "json"
                  THEN got \cup {Head(wire).load.reading} ELSE got
        /\ ppc' = ppc /\ json' = json /\ cache' = cache
    BY <1>3, Zenon DEF BrokerReceives, publisher
  <2>2. Accepted' = Accepted /\ got \subseteq got'
    BY <2>1 DEF Accepted
  <2>3. \A p \in Range(wire) : p = Head(wire) \/ p \in Range(wire')
    BY <1>0, <2>1, RangeTail
  <2>4. Head(wire).load = JsonOf(Accepted) => Accepted \in got'
    BY <2>1 DEF JsonOf
  <2> QED
    BY <2>1, <2>2, <2>3, <2>4, Zenon DEF AcceptedNotLost
<1>4. CASE PublishJson /\ PublishOk(JsonOf(json)) /\ Accepted' = json
  <2>1. JsonOf(json) \in Loads /\ state' = state
    BY <1>4, OffersKnown DEF PublishJson, PublishOk
  <2>2. /\ net' = net
        /\ state = "CONNECTED" /\ net = "up" => \E p \in Range(wire') : p.load = JsonOf(json)
    <3>1. PICK load \in Loads : load = JsonOf(json)
      BY <2>1
    <3>2. net' = net /\ (state = "CONNECTED" /\ net = "up" => OnWire(load)')
      BY <1>4, <3>1, PublishOnWire
    <3> QED
      BY <3>1, <3>2 DEF OnWire
  <2>3. json' = json
    BY <1>4 DEF PublishJson
  <2>4. CASE state = "CONNECTED" /\ net = "up"
    BY <1>4, <2>2, <2>3, <2>4 DEF AcceptedNotLost
  <2>5. CASE ~(state = "CONNECTED" /\ net = "up")
    BY <1>0, <2>1, <2>2, <2>5 DEF AcceptedNotLost
  <2> QED
    BY <2>4, <2>5
<1>5. CASE Republish
  <2>1. Accepted = cache.len /\ Accepted' = Accepted /\ Cached = JsonOf(cache.len) /\ count = 0
    <3>1. cpc = "republish" /\ ppc' = ppc /\ json' = json /\ cache' = cache
      BY <1>5 DEF Republish, publisher
    <3>2. ppc \notin {"copy", "copied"} /\ count = 0 /\ Cached = JsonOf(cache.len)
      BY <3>1, OffersKnown DEF Calm
    <3> QED
      BY <3>1, <3>2 DEF Accepted
  <2>2. CASE ~(cache.len > 0)
    BY <2>1, <2>2, Zenon DEF AcceptedNotLost
  <2>3. CASE cache.len > 0
    <3>1. (PublishOk(Cached) \/ PublishFails(Cached)) /\ Cached \in Loads
      BY <1>5, <2>3, OffersKnown, Zenon DEF Republish
    <3>2. ~CheckFails
      BY <2>1, BoundsAssumption, SMT DEF CheckFails
    <3>3. CASE PublishOk(Cached)
      <4>1. net' = net /\ state' = state
        BY <3>3 DEF PublishOk
      <4>3. CASE state = "CONNECTED" /\ net = "up"
        <5>1. PICK p \in Range(wire') : p.load = JsonOf(Accepted)
          <6>1. PICK load \in Loads : load = Cached
            BY <3>1
          <6>2. OnWire(load)'
            BY <3>3, <4>3, <6>1, PublishOnWire
          <6> QED
            BY <2>1, <6>1, <6>2 DEF OnWire
        <5> QED
          BY <2>1, <5>1, Zenon DEF AcceptedNotLost
      <4>4. CASE ~(state = "CONNECTED" /\ net = "up")
        BY <1>0, <4>1, <4>4 DEF AcceptedNotLost
      <4> QED
        BY <4>3, <4>4
    <3>4. CASE PublishFails(Cached)
      <4>1. net = "down" /\ net' = net
        BY <3>2, <3>4, Zenon DEF PublishFails
      <4> QED
        BY <4>1, Zenon DEF AcceptedNotLost
    <3> QED
      BY <3>1, <3>3, <3>4
  <2> QED
    BY <2>2, <2>3
<1>6. ASSUME ~Connect, ~NetFails, ~BrokerDisconnects, ~BrokerReceives, ~Republish,
             Accepted' = Accepted
      PROVE  AcceptedNotLost'
  <2>1. /\ Range(wire) \subseteq Range(wire')
        /\ got' = got /\ net' = net
        /\ state' = state \/ state' # "CONNECTED"
    BY <1>6, WireKept
  <2>2. cpc = "republish" => cpc' = "republish"
    BY <1>6 DEF Next, PublisherStep, ClientStep, HandleConnected, vars, StoreReading,
       Notify, TakeNotification, PullJson, CheckConnected, PublishJson, CopyFront, CopyBack,
       ConnectFails, PublishOnline, Subscribe, NoticeLoss, ReceiveAck,
       ResendQueued, Retransmit, ReconnectDelay, Expire, Rest
  <2> QED
    BY <1>6, <2>1, <2>2, Zenon DEF AcceptedNotLost
<1> QED
  BY <1>1, <1>2, <1>3, <1>4, <1>5, <1>6, AcceptedMoves, Zenon

-----------------------------------------------------------------------------
LEMMA LinkInvInit == Init => LinkInv
<1> SUFFICES ASSUME Init PROVE LinkInv
  OBVIOUS
<1>1. /\ 0 \in 0..MaxReading /\ 0 \in 0..MaxFaults /\ 0 \in Nat
      /\ 0 <= 0 /\ ~(0 > 0)
  BY BoundsAssumption, SMT
<1>2. /\ outbox \in Seq(Items) /\ wire \in Seq(Packets) /\ acks \in Seq(Packets)
      /\ OnlyKnown
  BY LoadsEmpty DEF Init, OnlyKnown
<1>3. AppTypes /\ InOrder /\ CacheWritten
  BY <1>1 DEF Init, AppTypes, InOrder, CacheWritten
<1>4. AppControl /\ Begun /\ NoLostWakeup /\ FlagMeansConnected
  BY <1>1, Zenon DEF Init, AppControl, Begun, NoLostWakeup, FlagMeansConnected
<1>5. LinkTypes
  BY <1>1, Zenon DEF Init, LinkTypes
<1>6. Calm /\ SubscriptionRenewed
  BY DEF Init, Calm, SubscriptionRenewed
<1>7. AcceptedNotLost
  BY DEF Init, AcceptedNotLost
<1> QED
  BY <1>2, <1>3, <1>4, <1>5, <1>6, <1>7, Zenon
  DEF LinkInv, TypeOK, AppTypes, AppControl, LinkTypes, Items

LEMMA LinkInvNext == LinkInv /\ [Next]_vars => LinkInv'
<1> SUFFICES ASSUME LinkInv, [Next]_vars PROVE LinkInv'
  OBVIOUS
<1>1. TypeOK' /\ OnlyKnown' /\ AppInv'
  BY TypeNext, Zenon DEF LinkInv
<1>2. FlagMeansConnected' /\ Calm'
  BY FlagNext, CalmNext, Zenon DEF LinkInv
<1>3. SubscriptionRenewed' /\ AcceptedNotLost'
  BY SubscriptionNext, AcceptedNext, Zenon DEF LinkInv
<1> QED
  BY <1>1, <1>2, <1>3, Zenon DEF LinkInv, AppInv

LEMMA LinkInvHolds == Spec => []LinkInv
<1> QED
  BY LinkInvInit, LinkInvNext, PTL DEF Spec

(***************************************************************************)
(* The types: in particular send_publish_packet_count never goes below 0,  *)
(* and the outbox finds an identifier for every packet.                    *)
(***************************************************************************)
THEOREM LinkTypeCorrect == Spec => []TypeOK
<1>1. LinkInv => TypeOK
  BY DEF LinkInv
<1> QED
  BY <1>1, LinkInvHolds, PTL

(***************************************************************************)
(* app_mqtt_is_connected never says yes of a client that is not connected. *)
(***************************************************************************)
THEOREM FlagHonest == Spec => []FlagMeansConnected
<1>1. LinkInv => FlagMeansConnected
  BY DEF LinkInv
<1> QED
  BY <1>1, LinkInvHolds, PTL

(***************************************************************************)
(* The unlocked cache never yields two texts mixed: the delay before a     *)
(* reconnection outlasts the copy.                                         *)
(***************************************************************************)
THEOREM CacheNeverTorn == Spec => []CacheIntact
<1>1. LinkInv => CacheIntact
  <2> SUFFICES ASSUME LinkInv, NEW i \in DOMAIN outbox, outbox[i].load = JsonOf(Torn)
               PROVE  FALSE
    BY DEF CacheIntact
  <2>1. outbox[i].load \in Known
    BY DEF LinkInv, OnlyKnown, LoadsIn
  <2>2. PICK r \in 1..latest : JsonOf(Torn) = JsonOf(r)
    BY <2>1 DEF Known, JsonOf, Online, Sub
  <2>3. Torn = r
    BY <2>2 DEF JsonOf
  <2>4. latest \in 0..MaxReading
    BY DEF LinkInv, TypeOK
  <2> QED
    BY <2>3, <2>4, BoundsAssumption, SMT DEF Torn
<1> QED
  BY <1>1, LinkInvHolds, PTL

(***************************************************************************)
(* No notification of the sensor task is lost to a busy MQTT task.         *)
(***************************************************************************)
THEOREM WakeupNotLost == Spec => []NoLostWakeup
<1>1. LinkInv => NoLostWakeup
  BY DEF LinkInv
<1> QED
  BY <1>1, LinkInvHolds, PTL

(***************************************************************************)
(* The last JSON accepted survives the outbox, the connection and the      *)
(* broker's limit.                                                         *)
(***************************************************************************)
THEOREM LastAcceptedSafe == Spec => []AcceptedNotLost
<1>1. LinkInv => AcceptedNotLost
  BY DEF LinkInv
<1> QED
  BY <1>1, LinkInvHolds, PTL

(***************************************************************************)
(* Every connection renews the subscription to the control topic.          *)
(***************************************************************************)
THEOREM SubscriptionAlways == Spec => []SubscriptionRenewed
<1>1. LinkInv => SubscriptionRenewed
  BY DEF LinkInv
<1> QED
  BY <1>1, LinkInvHolds, PTL

(***************************************************************************)
(* The safety of Gateway: JSONs are accepted in the order of the readings, *)
(* and the broker gets readings that were taken and nothing else.  (That   *)
(* the last one accepted arrives is left to the run mqtt_link.)            *)
(***************************************************************************)
LEMMA StepOfGateway ==
  LinkInv /\ [Next]_vars => [Promise!Next]_(Promise!gatewayVars)
<1> SUFFICES ASSUME LinkInv, [Next]_vars
             PROVE  Promise!Next \/ UNCHANGED <<latest, Accepted, got>>
  BY DEF Promise!gatewayVars
<1>1. /\ latest \in 0..MaxReading /\ json \in 0..MaxReading /\ cache.len \in 0..MaxReading
      /\ cache.len <= json /\ json <= latest
      /\ Accepted \in {json, cache.len}
  BY DEF LinkInv, TypeOK, InOrder, Accepted
<1>2. CASE PublishJson /\ PublishOk(JsonOf(json)) /\ Accepted' = json
  <2>1. latest' = latest /\ got' = got
    BY <1>2 DEF PublishJson, app
  <2>2. json \in Accepted..latest
    BY <1>1, SMT
  <2> QED
    BY <1>2, <2>1, <2>2 DEF Promise!Next, Promise!Accept
<1>3. CASE Accepted' = Accepted
  <2>1. CASE StoreReading
    <3>1. latest' = latest + 1 /\ got' = got
      BY <2>1 DEF StoreReading, traffic
    <3> QED
      BY <1>3, <3>1 DEF Promise!Next, Promise!Take
  <2>2. CASE BrokerReceives
    <3>1. /\ wire # <<>> /\ latest' = latest
          /\ got' = IF Head(wire).load.kind = "json"
                    THEN got \cup {Head(wire).load.reading} ELSE got
      BY <2>2, Zenon DEF BrokerReceives, app
    <3>2. PICK K : K = Known
      OBVIOUS
    <3>3. wire \in Seq(Packets) /\ LoadsIn(wire, K)
      BY <3>2 DEF LinkInv, TypeOK, OnlyKnown
    <3>4. Head(wire).load \in Known
      BY <3>1, <3>2, <3>3, LoadsTail
    <3>5. CASE Head(wire).load \in {Online, Sub}
      <4>1. got' = got
        BY <3>1, <3>5 DEF Online, Sub
      <4> QED
        BY <1>3, <3>1, <4>1
    <3>6. CASE \E r \in 1..latest : Head(wire).load = JsonOf(r)
      <4>1. PICK r \in 1..latest : Head(wire).load = JsonOf(r)
        BY <3>6
      <4>2. got' = got \cup {r}
        BY <3>1, <4>1 DEF JsonOf
      <4> QED
        BY <1>3, <3>1, <4>2 DEF Promise!Next, Promise!Receive
    <3> QED
      BY <3>4, <3>5, <3>6 DEF Known
  <2>3. CASE ~StoreReading /\ ~BrokerReceives
    <3>1. latest' = latest /\ got' = got
      BY <2>3, Zenon DEF Next, PublisherStep, ClientStep, HandleConnected, vars, app, traffic,
         Notify, TakeNotification, PullJson, CheckConnected, PublishJson, CopyFront, CopyBack,
         Connect, ConnectFails, Republish, PublishOnline, Subscribe, NoticeLoss, ReceiveAck,
         ResendQueued, Retransmit, ReconnectDelay, Expire, NetFails, BrokerDisconnects, Rest
    <3> QED
      BY <1>3, <3>1
  <2> QED
    BY <2>1, <2>2, <2>3
<1> QED
  BY <1>2, <1>3, AcceptedMoves

THEOREM ImplementsGateway == Spec => Promise!Init /\ [][Promise!Next]_(Promise!gatewayVars)
<1>1. Init => Promise!Init
  BY DEF Init, Promise!Init, Accepted
<1> QED
  BY <1>1, LinkInvHolds, StepOfGateway, PTL DEF Spec

=============================================================================
