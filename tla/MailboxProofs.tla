---------------------------- MODULE MailboxProofs ---------------------------
(***************************************************************************)
(* No message is lost or duplicated by the ring buffer of a message_queue, *)
(* its length is exact, and its order is kept until it grows, for every    *)
(* initial size and any number of messages.                                *)
(***************************************************************************)
EXTENDS Mailbox, MessageQueueProofs, FiniteSetTheorems

LEMMA MsgNotNoMsg == NoMsg \notin Msg
BY NoMsgAssumption DEF Msg

(* NothingLost alone is not inductive: a message about to be pushed must   *)
(* differ from those in the ring.                                          *)
MailboxInv ==
  /\ RingOK(ring, Msg)
  /\ pushed \in Nat
  /\ pending \subseteq 1 .. pushed
  /\ NothingLost

LEMMA InitMailbox == Init => MailboxInv
<1> SUFFICES ASSUME Init PROVE MailboxInv
  OBVIOUS
<1>1. RingOK(ring, Msg) /\ Occupied(ring) = {}
  <2>1. RingOK(ring, Msg)
    BY NewRingOK, MsgNotNoMsg DEF Init
  <2>2. Occupied(NewRing) = {}
    BY QueueSizeAssumption DEF NewRing, Occupied
  <2> QED BY <2>1, <2>2 DEF Init
<1> QED BY <1>1 DEF Init, MailboxInv, NothingLost

LEMMA MqPushMailbox == ASSUME MailboxInv, MqPush PROVE MailboxInv'
<1> DEFINE m == pushed + 1
<1>1. /\ m \in Msg
      /\ pushed' = m
      /\ pending' = pending \cup {m}
      /\ ring' = Push(ring, m)
      /\ RingOK(ring, Msg)
  BY DEF MqPush, MailboxInv, Msg
<1> HIDE DEF m
<1>2. /\ RingOK(ring', Msg)
      /\ ring.tail \notin Occupied(ring)
      /\ Occupied(ring') = Occupied(ring) \cup {ring.tail}
      /\ ring'.buf[ring.tail] = m
      /\ \A i \in Occupied(ring) : ring'.buf[i] = ring.buf[i]
  BY ONLY <1>1, PushRing, MsgNotNoMsg
<1>3. pending' \subseteq 1 .. pushed' /\ m \notin pending
  BY <1>1 DEF MailboxInv, m
<1>4. \A i \in Occupied(ring) : ring.buf[i] # m
  BY <1>3 DEF MailboxInv, NothingLost
<1>5. pending' = { ring'.buf[i] : i \in Occupied(ring') }
  BY <1>1, <1>2 DEF MailboxInv, NothingLost
<1>6. \A i, j \in Occupied(ring') : ring'.buf[i] = ring'.buf[j] => i = j
  BY <1>2, <1>4 DEF MailboxInv, NothingLost
<1> QED BY <1>1, <1>2, <1>3, <1>5, <1>6 DEF MailboxInv, NothingLost, m

LEMMA MqPopMailbox == ASSUME MailboxInv, MqPopMessage PROVE MailboxInv'
<1>1. /\ RingOK(ring, Msg) /\ ~ IsEmpty(ring)
      /\ ring' = Pop(ring)
      /\ pending' = pending \ {First(ring)}
      /\ pushed' = pushed
  BY DEF MqPopMessage, MailboxInv
<1>2. /\ RingOK(ring', Msg)
      /\ ring.head \in Occupied(ring)
      /\ Occupied(ring') = Occupied(ring) \ {ring.head}
      /\ \A i \in Occupied(ring') : ring'.buf[i] = ring.buf[i]
  BY ONLY <1>1, PopRing, MsgNotNoMsg
<1>3. \A i \in Occupied(ring) : ring.buf[i] = First(ring) <=> i = ring.head
  BY <1>2 DEF MailboxInv, NothingLost, First
<1>4. pending' = { ring'.buf[i] : i \in Occupied(ring') }
  BY <1>1, <1>2, <1>3 DEF MailboxInv, NothingLost
<1>5. \A i, j \in Occupied(ring') : ring'.buf[i] = ring'.buf[j] => i = j
  BY <1>2 DEF MailboxInv, NothingLost
<1> QED BY <1>1, <1>2, <1>4, <1>5 DEF MailboxInv, NothingLost

LEMMA NextMailbox == MailboxInv /\ [Next]_vars => MailboxInv'
<1> SUFFICES ASSUME MailboxInv, [Next]_vars PROVE MailboxInv'
  OBVIOUS
<1>1. CASE MqPush
  BY <1>1, MqPushMailbox
<1>2. CASE MqPopMessage
  BY <1>2, MqPopMailbox
<1>3. CASE MqPopEmpty \/ MqOverload \/ UNCHANGED vars
  BY <1>3 DEF MqPopEmpty, MqOverload, vars, MailboxInv, NothingLost
<1> QED BY <1>1, <1>2, <1>3 DEF Next, Owner

(* Whatever the order of pushes and pops, through every wrap-around and    *)
(* every growth, the ring holds exactly the messages pushed and not yet    *)
(* popped, each once.                                                      *)
THEOREM NothingEverLost == Spec => []NothingLost
<1>1. MailboxInv => NothingLost
  BY DEF MailboxInv
<1> QED BY <1>1, InitMailbox, NextMailbox, PTL DEF Spec

-----------------------------------------------------------------------------
(* While the array has its first size the messages rise along the ring.    *)
Ordered ==
  ring.cap = DEFAULT_QUEUE_SIZE =>
    \A i, j \in Occupied(ring) :
      Rank(ring, i) < Rank(ring, j) => ring.buf[i] < ring.buf[j]

(* The length counts the messages, and an array that has grown stays so.   *)
QueueInv ==
  /\ MailboxInv
  /\ IsFiniteSet(pending) /\ LengthExact
  /\ ring.cap >= DEFAULT_QUEUE_SIZE /\ Ordered

LEMMA InitQueue == Init => QueueInv
<1> SUFFICES ASSUME Init PROVE QueueInv
  OBVIOUS
<1>1. /\ ring.cap = DEFAULT_QUEUE_SIZE /\ ring.head = 0 /\ ring.tail = 0
      /\ pending = {}
  BY DEF Init, NewRing
<1>2. Length(ring) = 0 /\ Occupied(ring) = {}
  BY <1>1, QueueSizeAssumption DEF Length, Occupied
<1>3. IsFiniteSet(pending) /\ LengthExact
  BY <1>1, <1>2, FS_EmptySet DEF LengthExact
<1> QED BY <1>1, <1>2, <1>3, InitMailbox, QueueSizeAssumption
        DEF QueueInv, Ordered

LEMMA MqPushQueue == ASSUME QueueInv, MqPush PROVE QueueInv'
<1> DEFINE m == pushed + 1
<1>1. /\ m \in Msg
      /\ pending' = pending \cup {m}
      /\ ring' = Push(ring, m)
      /\ RingOK(ring, Msg)
      /\ pending \subseteq 1 .. pushed /\ pushed \in Nat
      /\ pending = { ring.buf[i] : i \in Occupied(ring) }
  BY DEF MqPush, QueueInv, MailboxInv, NothingLost, Msg
<1>2. MailboxInv'
  BY MqPushMailbox DEF QueueInv
<1>3. m \notin pending /\ \A i \in Occupied(ring) : ring.buf[i] < m
  <2>1. \A k \in pending : k < m /\ k # m
    BY <1>1
  <2> HIDE DEF m
  <2>2. \A i \in Occupied(ring) : ring.buf[i] \in pending
    BY <1>1
  <2> QED BY <2>1, <2>2
<1> HIDE DEF m
<1>4. /\ Length(ring') = Length(ring) + 1
      /\ ring'.cap \in {ring.cap, 2 * ring.cap}
      /\ ring'.cap = ring.cap =>
           \A i \in Occupied(ring) : /\ Rank(ring', i) = Rank(ring, i)
                                     /\ Rank(ring, i) < Rank(ring', ring.tail)
  BY ONLY <1>1, PushOrder
<1>5. /\ Occupied(ring') = Occupied(ring) \cup {ring.tail}
      /\ ring'.buf[ring.tail] = m
      /\ \A i \in Occupied(ring) : ring'.buf[i] = ring.buf[i]
  BY ONLY <1>1, PushRing, MsgNotNoMsg
<1>6. IsFiniteSet(pending') /\ LengthExact'
  <2>1. IsFiniteSet(pending) /\ Length(ring) = Cardinality(pending)
    BY DEF QueueInv, LengthExact
  <2>2. IsFiniteSet(pending') /\ Cardinality(pending') = Cardinality(pending) + 1
    BY <1>1, <1>3, <2>1, FS_AddElement
  <2> QED BY <1>4, <2>1, <2>2 DEF LengthExact
<1>7. ring.cap \in Nat \ {0, 1} /\ ring.cap >= DEFAULT_QUEUE_SIZE
  BY <1>1 DEF RingOK, QueueInv
<1>8. Ordered'
  <2> SUFFICES ASSUME ring'.cap = DEFAULT_QUEUE_SIZE,
                      NEW i \in Occupied(ring'), NEW j \in Occupied(ring'),
                      Rank(ring', i) < Rank(ring', j)
               PROVE  ring'.buf[i] < ring'.buf[j]
    BY DEF Ordered
  <2>1. ring'.cap = ring.cap /\ ring.cap = DEFAULT_QUEUE_SIZE
    BY <1>4, <1>7, QueueSizeAssumption
  <2>2. \A k \in Occupied(ring) : Rank(ring', k) = Rank(ring, k)
    BY <1>4, <2>1
  <2>3. CASE i \in Occupied(ring) /\ j \in Occupied(ring)
    BY <1>5, <2>1, <2>2, <2>3 DEF QueueInv, Ordered
  <2>4. CASE i \in Occupied(ring) /\ j = ring.tail
    BY <1>3, <1>5, <2>4
  <2>5. CASE i = ring.tail
    <3>1. ring.cap \in Nat /\ ring.head \in Nat /\ ring'.head \in Nat
          /\ ring.tail \in Nat /\ ring'.cap \in Nat
          /\ Occupied(ring') \subseteq Nat
      BY <1>1, <1>2 DEF RingOK, MailboxInv, Occupied
    <3>2. \A k \in Occupied(ring') : Rank(ring', k) \in Int
      BY <3>1 DEF Rank
    <3>3. Rank(ring', j) <= Rank(ring', ring.tail)
      BY <1>4, <1>5, <2>1, <2>2, <2>5, <3>2
    <3> QED BY <2>5, <3>2, <3>3
  <2> QED BY <1>5, <2>3, <2>4, <2>5
<1> QED BY <1>2, <1>4, <1>6, <1>7, <1>8, QueueSizeAssumption DEF QueueInv

LEMMA MqPopQueue == ASSUME QueueInv, MqPopMessage PROVE QueueInv'
<1>1. /\ RingOK(ring, Msg) /\ ~ IsEmpty(ring)
      /\ ring' = Pop(ring)
      /\ pending' = pending \ {First(ring)}
      /\ pending = { ring.buf[i] : i \in Occupied(ring) }
  BY DEF MqPopMessage, QueueInv, MailboxInv, NothingLost
<1>2. MailboxInv'
  BY MqPopMailbox DEF QueueInv
<1>3. /\ Length(ring') = Length(ring) - 1
      /\ ring'.cap = ring.cap
      /\ \A i \in Occupied(ring) \ {ring.head} :
           Rank(ring', i) = Rank(ring, i) - 1
  BY ONLY <1>1, PopOrder
<1>4. /\ ring.head \in Occupied(ring)
      /\ Occupied(ring') = Occupied(ring) \ {ring.head}
      /\ \A i \in Occupied(ring') : ring'.buf[i] = ring.buf[i]
  BY ONLY <1>1, PopRing, MsgNotNoMsg
<1>5. IsFiniteSet(pending') /\ LengthExact'
  <2>1. IsFiniteSet(pending) /\ Length(ring) = Cardinality(pending)
    BY DEF QueueInv, LengthExact
  <2>2. First(ring) \in pending
    BY <1>1, <1>4 DEF First
  <2>3. IsFiniteSet(pending') /\ Cardinality(pending') = Cardinality(pending) - 1
    BY <1>1, <2>1, <2>2, FS_RemoveElement
  <2> QED BY <1>3, <2>1, <2>3 DEF LengthExact
<1>6. Ordered'
  <2> SUFFICES ASSUME ring.cap = DEFAULT_QUEUE_SIZE,
                      NEW i \in Occupied(ring'), NEW j \in Occupied(ring'),
                      Rank(ring', i) < Rank(ring', j)
               PROVE  ring'.buf[i] < ring'.buf[j]
    BY <1>3 DEF Ordered
  <2>1. \A k \in Occupied(ring) : Rank(ring, k) \in Int
    BY <1>1 DEF RingOK, Occupied, Rank
  <2>2. Rank(ring, i) < Rank(ring, j)
    BY <1>3, <1>4, <2>1
  <2> QED BY <1>4, <2>2 DEF QueueInv, Ordered
<1> QED BY <1>2, <1>3, <1>5, <1>6 DEF QueueInv

LEMMA NextQueue == QueueInv /\ [Next]_vars => QueueInv'
<1> SUFFICES ASSUME QueueInv, [Next]_vars PROVE QueueInv'
  OBVIOUS
<1>1. CASE MqPush
  BY <1>1, MqPushQueue
<1>2. CASE MqPopMessage
  BY <1>2, MqPopQueue
<1>3. CASE MqPopEmpty \/ MqOverload \/ UNCHANGED vars
  <2>1. MailboxInv'
    BY NextMailbox DEF QueueInv
  <2>2. UNCHANGED <<ring, pending>>
    BY <1>3 DEF MqPopEmpty, MqOverload, vars
  <2> QED BY <2>1, <2>2 DEF QueueInv, LengthExact, Ordered
<1> QED BY <1>1, <1>2, <1>3 DEF Next, Owner

(* The length that mq_pop compares with the threshold, and that decides    *)
(* how large a worker's batch is, is the number of messages that wait.     *)
THEOREM LengthCounts == Spec => []LengthExact
<1>1. QueueInv => LengthExact
  BY DEF QueueInv
<1> QED BY <1>1, InitQueue, NextQueue, PTL DEF Spec

(* A queue that has never grown is first in, first out.                    *)
THEOREM FirstInFirstOut == Spec => FifoBeforeGrowth
<1> DEFINE Oldest == last' # last /\ ring.cap = DEFAULT_QUEUE_SIZE
                       => \A m \in pending : last' <= m
<1>1. QueueInv /\ [Next]_vars => [Oldest]_vars
  <2> SUFFICES ASSUME QueueInv, Next, last' # last,
                      ring.cap = DEFAULT_QUEUE_SIZE, NEW m \in pending
               PROVE  last' <= m
    OBVIOUS
  <2>1. MqPopMessage
    BY DEF Next, Owner, MqPush, MqPopEmpty, MqOverload
  <2>2. /\ RingOK(ring, Msg) /\ ~ IsEmpty(ring) /\ last' = ring.buf[ring.head]
        /\ pending = { ring.buf[i] : i \in Occupied(ring) }
        /\ pending \subseteq Nat
    BY <2>1 DEF MqPopMessage, First, QueueInv, MailboxInv, NothingLost
  <2>3. PICK i \in Occupied(ring) : m = ring.buf[i]
    BY <2>2
  <2>4. ring.head \in Occupied(ring)
    BY ONLY <2>2, PopRing, MsgNotNoMsg
  <2>5. i # ring.head => Rank(ring, ring.head) < Rank(ring, i)
    BY ONLY <2>2, <2>3, PopOrder
  <2>6. last' \in Nat /\ m \in Nat
    BY <2>2, <2>4
  <2> QED BY <2>2, <2>3, <2>4, <2>5, <2>6 DEF QueueInv, Ordered
<1> QED BY <1>1, InitQueue, NextQueue, PTL DEF Spec, FifoBeforeGrowth

-----------------------------------------------------------------------------
(* The reports of a busy period rise up to the threshold, and a threshold  *)
(* that has been raised has been reported, or will be by the owner's next   *)
(* step: the length that raised it is recorded and more than half of it.   *)
Latest == alarms[Len(alarms)]

AlarmInv ==
  /\ MailboxInv
  /\ overload_threshold \in Nat /\ overload_threshold >= MQ_OVERLOAD
  /\ overload \in Nat
  /\ step \in {"pop", "overload"}
  /\ step = "pop" => overload = 0
  /\ alarms \in Seq(Nat)
  /\ \A j \in 2 .. Len(alarms) : alarms[j - 1] < alarms[j]
  /\ alarms # << >> => Latest <= overload_threshold
  /\ overload # 0 => /\ overload <= overload_threshold
                     /\ overload_threshold < 2 * overload
                     /\ alarms # << >> => Latest < overload
  /\ overload = 0 /\ overload_threshold > MQ_OVERLOAD =>
       alarms # << >> /\ 2 * Latest > overload_threshold

LEMMA InitAlarm == Init => AlarmInv
BY InitMailbox, OverloadAssumption DEF Init, AlarmInv

LEMMA MqPopAlarm == ASSUME AlarmInv, MqPopMessage PROVE AlarmInv'
<1> DEFINE t == overload_threshold
<1>1. PICK left : left = Length(ring')
  OBVIOUS
<1>2. MailboxInv' /\ left \in Nat
  <2>1. MailboxInv'
    BY MqPopMailbox DEF AlarmInv
  <2>2. RingOK(ring', Msg)
    BY <2>1 DEF MailboxInv
  <2> QED BY <1>1, <2>1, <2>2, LengthNat
<1>3. /\ step = "pop" /\ step' = "overload" /\ alarms' = alarms
      /\ overload' = IF left > t THEN left ELSE overload
      /\ overload_threshold' = Raised(t, left)
  BY <1>1 DEF MqPopMessage
<1>4. /\ t \in Nat \ {0} /\ t >= MQ_OVERLOAD /\ overload = 0
      /\ alarms \in Seq(Nat) /\ (alarms # << >> => Latest \in Nat /\ Latest <= t)
  <2>1. alarms \in Seq(Nat) /\ (alarms # << >> => Latest <= t)
    BY DEF AlarmInv
  <2>2. alarms # << >> => Latest \in Nat
    BY <2>1 DEF Latest
  <2> QED BY <1>3, <2>1, <2>2, OverloadAssumption DEF AlarmInv
<1>5. Latest' = Latest
  BY <1>3 DEF Latest
<1> HIDE DEF t
<1>6. CASE left > t
  <2>1. Raised(t, left) \in left .. 2 * left - 1
    BY <1>2, <1>4, <1>6, RaisedFacts
  <2> DEFINE r == Raised(t, left)
  <2>2. r \in left .. 2 * left - 1 /\ overload_threshold' = r /\ overload' = left
    BY <1>3, <1>6, <2>1
  <2> HIDE DEF r
  <2>3. /\ r \in Nat /\ r >= MQ_OVERLOAD /\ left # 0 /\ r < 2 * left /\ left <= r
        /\ alarms # << >> => Latest < left /\ Latest <= r
    BY <1>2, <1>4, <1>6, <2>2, OverloadAssumption
  <2> QED BY <1>2, <1>3, <1>4, <1>5, <2>2, <2>3 DEF AlarmInv
<1>7. CASE ~ left > t
  <2>1. overload_threshold' = t /\ overload' = 0
    <3>1. left <= t
      BY <1>2, <1>4, <1>7
    <3> QED BY <1>2, <1>3, <1>4, <1>7, <3>1, RaisedFacts
  <2> QED BY <1>2, <1>3, <1>4, <1>5, <2>1 DEF AlarmInv, t
<1> QED BY <1>6, <1>7

LEMMA MqOverloadAlarm == ASSUME AlarmInv, MqOverload PROVE AlarmInv'
<1>1. MailboxInv'
  BY NextMailbox DEF AlarmInv, Next, Owner
<1>2. /\ overload' = 0 /\ step' = "pop" /\ UNCHANGED overload_threshold
      /\ alarms' = IF overload # 0 THEN Append(alarms, overload) ELSE alarms
  BY DEF MqOverload
<1>3. /\ overload_threshold \in Nat /\ overload_threshold >= MQ_OVERLOAD
      /\ overload \in Nat /\ alarms \in Seq(Nat) /\ Len(alarms) \in Nat
  BY DEF AlarmInv
<1>4. CASE overload = 0
  <2>1. alarms' = alarms /\ Latest' = Latest
    BY <1>2, <1>4 DEF Latest
  <2> QED BY <1>1, <1>2, <1>4, <2>1 DEF AlarmInv
<1>5. CASE overload # 0
  <2>1. /\ alarms' = Append(alarms, overload)
        /\ Len(alarms') = Len(alarms) + 1
        /\ alarms' \in Seq(Nat)
        /\ alarms'[Len(alarms) + 1] = overload
        /\ \A j \in 1 .. Len(alarms) : alarms'[j] = alarms[j]
        /\ alarms' # << >>
    BY <1>2, <1>3, <1>5
  <2>2. Latest' = overload
    BY <2>1 DEF Latest
  <2>3. overload <= overload_threshold /\ overload_threshold < 2 * overload
    BY <1>5 DEF AlarmInv
  <2>4. ASSUME NEW j \in 2 .. Len(alarms') PROVE alarms'[j - 1] < alarms'[j]
    <3>1. CASE j \in 2 .. Len(alarms)
      <4>1. j \in 1 .. Len(alarms) /\ j - 1 \in 1 .. Len(alarms)
        BY <1>3, <3>1
      <4> QED BY <2>1, <3>1, <4>1 DEF AlarmInv
    <3>2. CASE j = Len(alarms) + 1
      <4>1. j - 1 = Len(alarms) /\ Len(alarms) \in 1 .. Len(alarms)
        BY <1>3, <3>2
      <4>2. alarms # << >>
        BY <4>1
      <4> QED BY <1>5, <2>1, <3>2, <4>1, <4>2 DEF AlarmInv, Latest
    <3> QED BY <1>3, <2>1, <3>1, <3>2
  <2> QED BY <1>1, <1>2, <1>3, <2>1, <2>2, <2>3, <2>4 DEF AlarmInv
<1> QED BY <1>4, <1>5

(* The reports of one busy period rise, and no backlog is missed: once the *)
(* owner goes back to popping, a threshold above the first one means that  *)
(* a length of more than half of it has been reported.                     *)
THEOREM AlarmsRise == Spec => []AlarmsExact
<1>1. AlarmInv /\ [Next]_vars => AlarmInv'
  <2> SUFFICES ASSUME AlarmInv, [Next]_vars PROVE AlarmInv'
    OBVIOUS
  <2>1. MailboxInv'
    BY NextMailbox DEF AlarmInv
  <2>2. CASE MqPush \/ UNCHANGED vars
    <3>1. UNCHANGED <<overload_threshold, overload, step, alarms>>
      BY <2>2 DEF MqPush, vars
    <3> QED BY <2>1, <3>1 DEF AlarmInv, Latest
  <2>3. CASE MqPopMessage
    BY <2>3, MqPopAlarm
  <2>4. CASE MqPopEmpty
    <3>1. alarms' = << >> /\ overload_threshold' = MQ_OVERLOAD
          /\ UNCHANGED <<overload, step>> /\ step = "pop"
      BY <2>4 DEF MqPopEmpty
    <3> QED BY <2>1, <3>1, OverloadAssumption DEF AlarmInv
  <2>5. CASE MqOverload
    BY <2>5, MqOverloadAlarm
  <2> QED BY <2>2, <2>3, <2>4, <2>5 DEF Next, Owner
<1>2. AlarmInv => AlarmsExact
  BY DEF AlarmInv, AlarmsExact, Latest
<1> QED BY <1>1, <1>2, InitAlarm, PTL DEF Spec
=============================================================================
