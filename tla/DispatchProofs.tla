--------------------------- MODULE DispatchProofs ---------------------------
(***************************************************************************)
(* Proofs about module Dispatch, for any number of services, workers and   *)
(* messages and any weights.                                               *)
(***************************************************************************)
EXTENDS Dispatch, MessageQueueProofs

LEMMA MsgNotNoMsg == NoMsg \notin Msg
BY NoMsgAssumption DEF Msg

LEMMA InitTypeOK == Init => TypeOK
<1> SUFFICES ASSUME Init PROVE TypeOK
  OBVIOUS
<1> USE DEF Init
<1>1. \A s \in Service : RingOK(ring[s], Msg)
  BY NewRingOK, MsgNotNoMsg
<1>2. WorkerState
  BY DEF WorkerState
<1> QED BY <1>1, <1>2 DEF TypeOK, Phases, Labels

(* Every step keeps the types, and keeps a worker's variables as its place *)
(* in the loop of context_message_dispatch says.                           *)
LEMMA NextTypeOK == TypeOK /\ [Next]_vars => TypeOK'
<1> SUFFICES ASSUME TypeOK, [Next]_vars PROVE TypeOK'
  OBVIOUS
<1> USE DEF TypeOK, Phases, Labels
<1>1. ASSUME NEW s \in Service, Create(s) PROVE TypeOK'
  BY <1>1 DEF Create, sched, WorkerState
<1>2. ASSUME NEW s \in Service, Launch(s) PROVE TypeOK'
  BY <1>2 DEF Launch, WorkerState
<1>3. ASSUME NEW s \in Service, ContextPush(s) PROVE TypeOK'
  <2>1. RingOK(Push(ring[s], sent + 1), Msg)
    <3>1. RingOK(ring[s], Msg) /\ sent + 1 \in Msg
      BY DEF Msg
    <3> QED BY ONLY <3>1, PushRing, MsgNotNoMsg
  <2>2. \A t \in Service : RingOK(ring'[t], Msg)
    BY <1>3, <2>1 DEF ContextPush
  <2>3. WorkerState'
    BY <1>3 DEF ContextPush, WorkerState
  <2> QED BY <1>3, <2>2, <2>3 DEF ContextPush
<1>4. ASSUME NEW w \in Worker, PopGlobal(w) PROVE TypeOK'
  <2>1. global # << >> => Head(global) \in Service /\ Tail(global) \in Seq(Service)
    OBVIOUS
  <2>2. WorkerState'
    BY <1>4, <2>1, ServiceAssumption DEF PopGlobal, WorkerState
  <2> QED BY <1>4, <2>1, <2>2 DEF PopGlobal
<1>5. ASSUME NEW w \in Worker, MqPopMessage(w) PROVE TypeOK'
  <2> DEFINE s == q[w]
  <2>1. s \in Service
    BY <1>5 DEF MqPopMessage, WorkerState
  <2>2. RingOK(Pop(ring[s]), Msg) /\ First(ring[s]) \in Msg
    BY <1>5, <2>1, PopRing, MsgNotNoMsg DEF MqPopMessage
  <2>3. \A t \in Service : RingOK(ring'[t], Msg)
    BY <1>5, <2>1, <2>2 DEF MqPopMessage
  <2>4. WorkerState'
    BY <1>5, <2>2, MsgNotNoMsg DEF MqPopMessage, WorkerState
  <2> QED BY <1>5, <2>2, <2>3, <2>4 DEF MqPopMessage
<1>6. ASSUME NEW w \in Worker, MqPopEmpty(w) PROVE TypeOK'
  BY <1>6 DEF MqPopEmpty, WorkerState
<1>7. ASSUME NEW w \in Worker, ReadLength(w) PROVE TypeOK'
  <2>1. ShiftRight(Length(ring[q[w]]), Weight[w]) \in Int
    <3>1. q[w] \in Service /\ Weight[w] \in 0 .. 3
      <4>1. pc[w] = "length"
        BY <1>7 DEF ReadLength
      <4>2. q[w] \in Service /\ Weight[w] >= 0
        BY <4>1 DEF WorkerState
      <4> QED BY ONLY <4>2, WeightAssumption
    <3>2. Length(ring[q[w]]) \in Nat
      BY <3>1, LengthNat
    <3> QED BY ONLY <3>1, <3>2 DEF ShiftRight
  <2>2. WorkerState'
    BY <1>7 DEF ReadLength, WorkerState
  <2> QED BY <1>7, <2>1, <2>2 DEF ReadLength
<1>8. ASSUME NEW w \in Worker, Return(w) PROVE TypeOK'
  <2>1. msg[w] \in Msg
    BY <1>8 DEF Return, WorkerState
  <2>2. WorkerState'
    BY <1>8 DEF Return, WorkerState
  <2>3. /\ handled' \in SUBSET Msg
        /\ msg' \in [Worker -> Msg \cup {NoMsg}]
    BY <1>8, <2>1 DEF Return
  <2>4. /\ left' \in [Worker -> Int]
        /\ pc' \in [Worker -> Labels]
    <3>1. CASE left[w] > 0
      BY <1>8, <3>1 DEF Return
    <3>2. CASE ~ (left[w] > 0)
      BY <1>8, <3>2 DEF Return
    <3> QED BY <3>1, <3>2
  <2> QED BY <1>8, <2>2, <2>3, <2>4 DEF Return
<1>9. ASSUME NEW w \in Worker, Yield(w) PROVE TypeOK'
  <2>1. global # << >> => Head(global) \in Service /\ Tail(global) \in Seq(Service)
    OBVIOUS
  <2>2. WorkerState'
    BY <1>9, <2>1, ServiceAssumption DEF Yield, WorkerState
  <2> QED BY <1>9, <2>1, <2>2 DEF Yield
<1>10. ASSUME NEW w \in Worker, Requeue(w) PROVE TypeOK'
  <2>1. q[w] \in Service
    BY <1>10 DEF Requeue, WorkerState
  <2>2. WorkerState'
    BY <1>10, <2>1 DEF Requeue, WorkerState
  <2> QED BY <1>10, <2>1, <2>2 DEF Requeue
<1>11. ASSUME NEW w \in Worker, EnterSleep(w) \/ CondWait(w) \/ LeaveSleep(w)
       PROVE  TypeOK'
  <2>1. WorkerState'
    BY <1>11 DEF EnterSleep, CondWait, LeaveSleep, asleep, WorkerState
  <2>2. pc' \in [Worker -> Labels] /\ sleep' \in Int
    <3>1. pc' \in [Worker -> Labels]
      BY <1>11 DEF EnterSleep, CondWait, LeaveSleep
    <3>2. sleep' \in Int
      BY <1>11 DEF EnterSleep, CondWait, LeaveSleep
    <3> QED BY <3>1, <3>2
  <2>3. UNCHANGED asleep
    BY <1>11 DEF EnterSleep, CondWait, LeaveSleep
  <2> QED BY <2>1, <2>2, <2>3 DEF asleep
<1>12. ASSUME TimerWakeup PROVE TypeOK'
  <2>1. WorkerState'
    BY <1>12 DEF TimerWakeup, Waiting, asleep, WorkerState
  <2> QED BY <1>12, <2>1 DEF TimerWakeup, Waiting, asleep
<1>13. ASSUME UNCHANGED vars PROVE TypeOK'
  BY <1>13 DEF vars, WorkerState
<1> QED BY <1>1, <1>2, <1>3, <1>4, <1>5, <1>6, <1>7, <1>8, <1>9, <1>10,
           <1>11, <1>12, <1>13 DEF Next, WorkerStep

(* The fields of every queue, the run queue and the variables of every     *)
(* worker keep their types.                                                *)
THEOREM TypeCorrect == Spec => []TypeOK
BY InitTypeOK, NextTypeOK, PTL DEF Spec

-----------------------------------------------------------------------------
(* The inductive invariant of the ownership protocol.  A queue is owned by *)
(* at most one place of the list or one variable of one worker, in_global  *)
(* says whether it is owned, and a message is only ever in an owned queue. *)
(* The last conjunct is the one that makes NothingStranded inductive.      *)
Flagged == \A s \in Service : ~ IsEmpty(ring[s]) => in_global[s]

Ownership ==
  /\ NoDoublePush
  /\ ExclusiveOwner
  /\ InGlobalMeansOwned
  /\ NotBeforeInit
  /\ Flagged

LEMMA InitOwnership == Init => Ownership
<1> SUFFICES ASSUME Init PROVE Ownership
  OBVIOUS
<1>1. \A w \in Worker : Held(w) = {}
  BY DEF Init, Held
<1>2. Flagged
  BY DEF Flagged, Init
<1> QED BY <1>1, <1>2 DEF Init, Ownership, NoDoublePush, ExclusiveOwner,
                          InGlobalMeansOwned, NotBeforeInit

(* What the ownership protocol is about; other steps leave it alone.       *)
own == <<phase, ring, in_global, global, q, nq>>

LEMMA OwnershipUnchanged == Ownership /\ UNCHANGED own => Ownership'
<1> SUFFICES ASSUME Ownership, UNCHANGED own PROVE Ownership'
  OBVIOUS
<1>1. /\ UNCHANGED <<phase, ring, in_global, global>>
      /\ \A w \in Worker : Held(w)' = Held(w) /\ q'[w] = q[w] /\ nq'[w] = nq[w]
  BY DEF own, Held
<1>2. NoDoublePush' /\ ExclusiveOwner'
  BY <1>1 DEF Ownership, NoDoublePush, ExclusiveOwner
<1>3. InGlobalMeansOwned'
  BY <1>1 DEF Ownership, InGlobalMeansOwned
<1>4. NotBeforeInit' /\ Flagged'
  BY <1>1 DEF Ownership, NotBeforeInit, Flagged
<1> QED BY <1>2, <1>3, <1>4 DEF Ownership

LEMMA CreateOwnership ==
  ASSUME TypeOK, Ownership, NEW s \in Service, Create(s)
  PROVE  Ownership'
<1> USE DEF Create, sched, TypeOK
<1>1. NoDoublePush' /\ ExclusiveOwner'
  BY DEF Ownership, NoDoublePush, ExclusiveOwner, Held
<1>2. InGlobalMeansOwned'
  BY DEF Ownership, InGlobalMeansOwned, Held
<1>3. NotBeforeInit'
  BY DEF Ownership, NotBeforeInit, Held
<1>4. Flagged'
  BY DEF Ownership, Flagged
<1> QED BY <1>1, <1>2, <1>3, <1>4 DEF Ownership

(* Appending a queue that nobody owns.                                     *)
LEMMA AppendOwnership ==
  ASSUME TypeOK, NoDoublePush, ExclusiveOwner, NEW s \in Service,
         \A i \in 1 .. Len(global) : global[i] # s,
         \A w \in Worker : s \notin Held(w),
         global' = Append(global, s), UNCHANGED <<q, nq>>
  PROVE  /\ NoDoublePush'
         /\ ExclusiveOwner'
         /\ \A t \in Service :
              (\E i \in 1 .. Len(global') : global'[i] = t) <=>
              (t = s \/ \E i \in 1 .. Len(global) : global[i] = t)
<1>1. /\ global \in Seq(Service)
      /\ Len(global') = Len(global) + 1
      /\ \A i \in 1 .. Len(global) : global'[i] = global[i]
      /\ global'[Len(global) + 1] = s
  BY DEF TypeOK
<1>2. NoDoublePush'
  BY <1>1 DEF NoDoublePush
<1>3. ExclusiveOwner'
  <2>1. \A w \in Worker : Held(w)' = Held(w)
    BY DEF Held
  <2> QED BY <1>1, <2>1 DEF ExclusiveOwner
<1>4. ASSUME NEW t \in Service
      PROVE  (\E i \in 1 .. Len(global') : global'[i] = t) <=>
             (t = s \/ \E i \in 1 .. Len(global) : global[i] = t)
  BY <1>1
<1> QED BY <1>2, <1>3, <1>4

LEMMA LaunchOwnership ==
  ASSUME TypeOK, Ownership, NEW s \in Service, Launch(s)
  PROVE  Ownership'
<1>1. /\ \A i \in 1 .. Len(global) : global[i] # s
      /\ \A w \in Worker : s \notin Held(w)
      /\ in_global[s]
  BY DEF Launch, Ownership, NotBeforeInit
<1>2. /\ global' = Append(global, s)
      /\ UNCHANGED <<ring, in_global, q, nq>>
      /\ phase[s] = "init"
      /\ \A t \in Service : phase'[t] = IF t = s THEN "live" ELSE phase[t]
      /\ \A w \in Worker : Held(w)' = Held(w)
  BY DEF Launch, TypeOK, Held
<1>3. /\ NoDoublePush'
      /\ ExclusiveOwner'
      /\ \A t \in Service :
           (\E i \in 1 .. Len(global') : global'[i] = t) <=>
           (t = s \/ \E i \in 1 .. Len(global) : global[i] = t)
  BY <1>1, <1>2, AppendOwnership DEF Ownership
<1>4. InGlobalMeansOwned'
  BY <1>1, <1>2, <1>3 DEF Ownership, InGlobalMeansOwned
<1>5. NotBeforeInit'
  <2> SUFFICES ASSUME NEW t \in Service, phase'[t] # "live"
               PROVE  /\ in_global'[t]
                      /\ \A i \in 1 .. Len(global') : global'[i] # t
                      /\ \A w \in Worker : t \notin Held(w)'
    BY DEF NotBeforeInit
  <2>1. t # s /\ phase[t] # "live"
    BY <1>2
  <2> QED BY <1>2, <1>3, <2>1 DEF Ownership, NotBeforeInit
<1>6. Flagged'
  BY <1>2 DEF Ownership, Flagged
<1> QED BY <1>3, <1>4, <1>5, <1>6 DEF Ownership

LEMMA PushOwnership ==
  ASSUME TypeOK, Ownership, NEW s \in Service, ContextPush(s)
  PROVE  Ownership'
<1>1. /\ UNCHANGED <<phase, q, nq>>
      /\ in_global'[s]
      /\ \A t \in Service : t # s => /\ in_global'[t] <=> in_global[t]
                                     /\ ring'[t] = ring[t]
      /\ \A w \in Worker : Held(w)' = Held(w)
      /\ global' = IF in_global[s] THEN global ELSE Append(global, s)
  BY DEF ContextPush, TypeOK, Held
<1>2. Flagged'
  BY <1>1 DEF Ownership, Flagged
<1>3. CASE in_global[s]
  <2>1. NoDoublePush' /\ ExclusiveOwner'
    BY <1>1, <1>3 DEF Ownership, NoDoublePush, ExclusiveOwner
  <2>2. InGlobalMeansOwned'
    BY <1>1, <1>3 DEF Ownership, InGlobalMeansOwned
  <2>3. NotBeforeInit'
    BY <1>1, <1>3 DEF Ownership, NotBeforeInit
  <2> QED BY <1>2, <2>1, <2>2, <2>3 DEF Ownership
<1>4. CASE ~ in_global[s]
  <2>1. phase[s] = "live"
    BY <1>4 DEF Ownership, NotBeforeInit
  <2>2. /\ \A i \in 1 .. Len(global) : global[i] # s
        /\ \A w \in Worker : s \notin Held(w)
    BY <1>4, <2>1 DEF Ownership, InGlobalMeansOwned
  <2>3. /\ NoDoublePush'
        /\ ExclusiveOwner'
        /\ \A t \in Service :
             (\E i \in 1 .. Len(global') : global'[i] = t) <=>
             (t = s \/ \E i \in 1 .. Len(global) : global[i] = t)
    BY <1>1, <1>4, <2>2, AppendOwnership DEF Ownership
  <2>4. InGlobalMeansOwned'
    BY <1>1, <2>3 DEF Ownership, InGlobalMeansOwned
  <2>5. NotBeforeInit'
    <3> SUFFICES ASSUME NEW t \in Service, phase'[t] # "live"
                 PROVE  /\ in_global'[t]
                        /\ \A i \in 1 .. Len(global') : global'[i] # t
                        /\ \A w \in Worker : t \notin Held(w)'
      BY DEF NotBeforeInit
    <3>1. t # s /\ phase[t] # "live"
      BY <1>1, <2>1
    <3> QED BY <1>1, <2>3, <3>1 DEF Ownership, NotBeforeInit
  <2> QED BY <1>2, <2>3, <2>4, <2>5 DEF Ownership
<1> QED BY <1>3, <1>4

(* Taking the first queue of the list: nobody has it in hand and it is not *)
(* in the list any more.                                                   *)
LEMMA TailOwnership ==
  ASSUME TypeOK, NoDoublePush, ExclusiveOwner,
         global # << >>, global' = Tail(global)
  PROVE  /\ Head(global) \in Service
         /\ NoDoublePush'
         /\ \A i \in 1 .. Len(global') : global'[i] # Head(global)
         /\ \A w \in Worker : Head(global) \notin Held(w)
         /\ \A t \in Service :
              (\E i \in 1 .. Len(global) : global[i] = t) <=>
              (t = Head(global) \/ \E i \in 1 .. Len(global') : global'[i] = t)
<1>1. /\ global \in Seq(Service)
      /\ Len(global) \in Nat \ {0}
      /\ Head(global) = global[1]
      /\ Len(global') = Len(global) - 1
      /\ \A i \in 1 .. Len(global') : global'[i] = global[i + 1]
  BY DEF TypeOK
<1>2. Head(global) \in Service
  BY <1>1
<1>3. NoDoublePush'
  BY <1>1 DEF NoDoublePush
<1>4. \A i \in 1 .. Len(global') : global'[i] # Head(global)
  BY <1>1 DEF NoDoublePush
<1>5. \A w \in Worker : Head(global) \notin Held(w)
  BY <1>1 DEF ExclusiveOwner
<1>6. ASSUME NEW t \in Service
      PROVE  (\E i \in 1 .. Len(global) : global[i] = t) <=>
             (t = Head(global) \/ \E i \in 1 .. Len(global') : global'[i] = t)
  <2>1. ASSUME NEW i \in 1 .. Len(global), global[i] = t, i # 1
        PROVE  \E j \in 1 .. Len(global') : global'[j] = t
    <3>1. i - 1 \in 1 .. Len(global') /\ global'[i - 1] = t
      BY <1>1, <2>1
    <3> QED BY <3>1
  <2>2. ASSUME NEW j \in 1 .. Len(global'), global'[j] = t
        PROVE  \E i \in 1 .. Len(global) : global[i] = t
    <3>1. j + 1 \in 1 .. Len(global) /\ global[j + 1] = t
      BY <1>1, <2>2
    <3> QED BY <3>1
  <2>3. 1 \in 1 .. Len(global)
    BY <1>1
  <2> QED BY <1>1, <2>1, <2>2, <2>3
<1> QED BY <1>2, <1>3, <1>4, <1>5, <1>6

(* A worker takes the first queue of the list into its hands, as its queue *)
(* (PopGlobal) or beside it (Yield).                                       *)
LEMMA TakeOwnership ==
  ASSUME TypeOK, Ownership, NEW w \in Worker,
         global # << >>, global' = Tail(global),
         UNCHANGED <<phase, ring, in_global>>,
         \A v \in Worker \ {w} : q'[v] = q[v] /\ nq'[v] = nq[v],
         \/ q[w] = None /\ q'[w] = Head(global) /\ nq'[w] = nq[w]
         \/ nq[w] = None /\ nq'[w] = Head(global) /\ q'[w] = q[w]
  PROVE  Ownership'
<1> DEFINE h == Head(global)
<1>1. /\ h \in Service
      /\ NoDoublePush'
      /\ \A i \in 1 .. Len(global') : global'[i] # h
      /\ \A v \in Worker : h \notin Held(v)
      /\ \A t \in Service :
           (\E i \in 1 .. Len(global) : global[i] = t) <=>
           (t = h \/ \E i \in 1 .. Len(global') : global'[i] = t)
  BY TailOwnership DEF Ownership
<1>2. \A v \in Worker \ {w} : Held(v)' = Held(v)
  BY DEF Held
<1>3. Held(w)' = Held(w) \cup {h}
  BY <1>1, ServiceAssumption DEF Held
<1>4. \A i \in 1 .. Len(global') : \E j \in 1 .. Len(global) : global'[i] = global[j]
  BY DEF TypeOK
<1> HIDE DEF h
<1>5. ExclusiveOwner'
  <2>1. \A u, v \in Worker : u # v => Held(u)' \cap Held(v)' = {}
    BY <1>1, <1>2, <1>3 DEF Ownership, ExclusiveOwner
  <2>2. \A v \in Worker : q'[v] # None => q'[v] # nq'[v]
    BY <1>1, ServiceAssumption DEF Ownership, ExclusiveOwner, Held, h
  <2>3. \A v \in Worker : \A i \in 1 .. Len(global') : global'[i] \notin Held(v)'
    BY <1>1, <1>2, <1>3, <1>4 DEF Ownership, ExclusiveOwner
  <2> QED BY <2>1, <2>2, <2>3 DEF ExclusiveOwner
<1>6. InGlobalMeansOwned'
  <2>1. \A t \in Service :
          ( \/ \E i \in 1 .. Len(global) : global[i] = t
            \/ \E v \in Worker : t \in Held(v) ) <=>
          ( \/ \E i \in 1 .. Len(global') : global'[i] = t
            \/ \E v \in Worker : t \in Held(v)' )
    BY <1>1, <1>2, <1>3
  <2> QED BY <2>1 DEF Ownership, InGlobalMeansOwned
<1>7. NotBeforeInit'
  <2>1. phase[h] = "live"
    BY <1>1 DEF Ownership, NotBeforeInit
  <2> QED BY <1>1, <1>2, <1>3, <2>1 DEF Ownership, NotBeforeInit
<1>8. Flagged'
  BY DEF Ownership, Flagged
<1> QED BY <1>1, <1>5, <1>6, <1>7, <1>8 DEF Ownership

LEMMA PopGlobalOwnership ==
  ASSUME TypeOK, Ownership, NEW w \in Worker, PopGlobal(w)
  PROVE  Ownership'
<1>1. CASE global = << >>
  BY <1>1, OwnershipUnchanged DEF PopGlobal, own
<1>2. CASE global # << >>
  <2>1. q[w] = None
    BY DEF PopGlobal, TypeOK, WorkerState
  <2> QED BY <1>2, <2>1, TakeOwnership DEF PopGlobal, TypeOK
<1> QED BY <1>1, <1>2

LEMMA YieldOwnership ==
  ASSUME TypeOK, Ownership, NEW w \in Worker, Yield(w)
  PROVE  Ownership'
<1>1. CASE global = << >>
  BY <1>1, OwnershipUnchanged DEF Yield, own
<1>2. CASE global # << >>
  <2>1. nq[w] = None
    BY DEF Yield, TypeOK, WorkerState
  <2> QED BY <1>2, <2>1, TakeOwnership DEF Yield, TypeOK
<1> QED BY <1>1, <1>2

(* The worker pushes q back and goes on with the other queue it took.      *)
LEMMA RequeueOwnership ==
  ASSUME TypeOK, Ownership, NEW w \in Worker, Requeue(w)
  PROVE  Ownership'
<1> DEFINE s == q[w]
<1>1. /\ s \in Service
      /\ nq[w] \in Service
      /\ s # nq[w]
      /\ global' = Append(global, s)
      /\ q'[w] = nq[w] /\ nq'[w] = None
      /\ \A v \in Worker \ {w} : q'[v] = q[v] /\ nq'[v] = nq[v]
      /\ UNCHANGED <<phase, ring, in_global>>
  <2>1. q[w] # None /\ nq[w] # None
    BY DEF Requeue, TypeOK, WorkerState
  <2>2. s \in Service /\ nq[w] \in Service /\ s # nq[w]
    BY <2>1 DEF TypeOK, Ownership, ExclusiveOwner
  <2> QED BY <2>2 DEF Requeue, TypeOK
<1> HIDE DEF s
<1>2. /\ \A v \in Worker \ {w} : Held(v)' = Held(v)
      /\ Held(w)' = {nq[w]}
      /\ Held(w) = {s, nq[w]}
  BY <1>1, ServiceAssumption DEF Held, s
<1>3. /\ \A i \in 1 .. Len(global) : global[i] # s
      /\ \A v \in Worker \ {w} : s \notin Held(v)
  BY <1>2 DEF Ownership, ExclusiveOwner
<1>4. /\ global \in Seq(Service)
      /\ Len(global') = Len(global) + 1
      /\ \A i \in 1 .. Len(global) : global'[i] = global[i]
      /\ global'[Len(global) + 1] = s
  BY <1>1 DEF TypeOK
<1>5. NoDoublePush'
  BY <1>3, <1>4 DEF Ownership, NoDoublePush
<1>6. ExclusiveOwner'
  <2>1. \A u, v \in Worker : u # v => Held(u)' \cap Held(v)' = {}
    BY <1>2 DEF Ownership, ExclusiveOwner
  <2>2. \A v \in Worker : q'[v] # None => q'[v] # nq'[v]
    BY <1>1 DEF Ownership, ExclusiveOwner
  <2>3. \A v \in Worker : \A i \in 1 .. Len(global') : global'[i] \notin Held(v)'
    <3>1. \A v \in Worker : s \notin Held(v)'
      BY <1>1, <1>2, <1>3
    <3>2. \A v \in Worker : Held(v)' \subseteq Held(v)
      BY <1>2
    <3>3. \A i \in 1 .. Len(global') :
            global'[i] = s \/ \E j \in 1 .. Len(global) : global'[i] = global[j]
      BY <1>4
    <3> QED BY <3>1, <3>2, <3>3 DEF Ownership, ExclusiveOwner
  <2> QED BY <2>1, <2>2, <2>3 DEF ExclusiveOwner
<1>7. \A t \in Service :
        (\E i \in 1 .. Len(global') : global'[i] = t) <=>
        (t = s \/ \E i \in 1 .. Len(global) : global[i] = t)
  BY <1>4
<1>8. InGlobalMeansOwned'
  <2>1. \A t \in Service :
          ( \/ \E i \in 1 .. Len(global) : global[i] = t
            \/ \E v \in Worker : t \in Held(v) ) <=>
          ( \/ \E i \in 1 .. Len(global') : global'[i] = t
            \/ \E v \in Worker : t \in Held(v)' )
    BY <1>1, <1>2, <1>7
  <2> QED BY <1>1, <2>1 DEF Ownership, InGlobalMeansOwned
<1>9. NotBeforeInit'
  <2>1. phase[s] = "live" /\ phase[nq[w]] = "live"
    BY <1>1, <1>2 DEF Ownership, NotBeforeInit
  <2> QED BY <1>1, <1>2, <1>7, <2>1 DEF Ownership, NotBeforeInit
<1>10. Flagged'
  BY <1>1 DEF Ownership, Flagged
<1> QED BY <1>5, <1>6, <1>8, <1>9, <1>10 DEF Ownership

(* mq_pop on an empty queue: the worker that lets go of it is its only     *)
(* owner, so in_global may become false.                                   *)
LEMMA ReleaseOwnership ==
  ASSUME TypeOK, Ownership, NEW w \in Worker, MqPopEmpty(w)
  PROVE  Ownership'
<1> DEFINE s == q[w]
<1>1. /\ s \in Service
      /\ nq[w] = None
      /\ q'[w] = None /\ nq' = nq
      /\ \A v \in Worker \ {w} : q'[v] = q[v]
      /\ ~ in_global'[s]
      /\ \A t \in Service : t # s => (in_global'[t] <=> in_global[t])
      /\ IsEmpty(ring[s])
      /\ UNCHANGED <<phase, ring, global>>
  BY DEF MqPopEmpty, TypeOK, WorkerState
<1> HIDE DEF s
<1>2. /\ \A v \in Worker \ {w} : Held(v)' = Held(v)
      /\ Held(w)' = {}
      /\ Held(w) = {s}
  BY <1>1, ServiceAssumption DEF Held, s
<1>3. NoDoublePush'
  BY <1>1 DEF Ownership, NoDoublePush
<1>4. ExclusiveOwner'
  BY <1>1, <1>2 DEF Ownership, ExclusiveOwner
<1>5. phase[s] = "live"
  BY <1>1, <1>2 DEF Ownership, NotBeforeInit
<1>6. InGlobalMeansOwned'
  <2>1. /\ \A i \in 1 .. Len(global') : global'[i] # s
        /\ \A v \in Worker : s \notin Held(v)'
    BY <1>1, <1>2 DEF Ownership, ExclusiveOwner
  <2>2. ASSUME NEW t \in Service, phase'[t] = "live", t # s
        PROVE  in_global'[t] <=> \/ \E i \in 1 .. Len(global') : global'[i] = t
                                 \/ \E v \in Worker : t \in Held(v)'
    BY <1>1, <1>2, <2>2 DEF Ownership, InGlobalMeansOwned
  <2> QED BY <1>1, <2>1, <2>2 DEF InGlobalMeansOwned
<1>7. NotBeforeInit'
  BY <1>1, <1>2, <1>5 DEF Ownership, NotBeforeInit
<1>8. Flagged'
  BY <1>1 DEF Ownership, Flagged
<1> QED BY <1>3, <1>4, <1>6, <1>7, <1>8 DEF Ownership

(* mq_pop of a message: the flag of the queue is set, as somebody owns it. *)
LEMMA PopOwnership ==
  ASSUME TypeOK, Ownership, NEW w \in Worker, MqPopMessage(w)
  PROVE  Ownership'
<1>1. /\ UNCHANGED <<phase, in_global, global, q, nq>>
      /\ \A v \in Worker : Held(v)' = Held(v)
      /\ ~ IsEmpty(ring[q[w]])
      /\ \A t \in Service : t # q[w] => ring'[t] = ring[t]
      /\ q[w] \in Service
  BY DEF MqPopMessage, TypeOK, WorkerState, Held
<1>2. Flagged'
  BY <1>1 DEF Ownership, Flagged
<1>3. NoDoublePush' /\ ExclusiveOwner'
  BY <1>1 DEF Ownership, NoDoublePush, ExclusiveOwner
<1>4. InGlobalMeansOwned' /\ NotBeforeInit'
  BY <1>1 DEF Ownership, InGlobalMeansOwned, NotBeforeInit
<1> QED BY <1>2, <1>3, <1>4 DEF Ownership

LEMMA NextOwnership == TypeOK /\ Ownership /\ [Next]_vars => Ownership'
<1> SUFFICES ASSUME TypeOK, Ownership, [Next]_vars PROVE Ownership'
  OBVIOUS
<1>1. ASSUME NEW s \in Service, Create(s) \/ Launch(s) \/ ContextPush(s)
      PROVE  Ownership'
  BY <1>1, CreateOwnership, LaunchOwnership, PushOwnership
<1>2. ASSUME NEW w \in Worker,
             \/ PopGlobal(w) \/ Yield(w) \/ Requeue(w)
             \/ MqPopEmpty(w) \/ MqPopMessage(w)
      PROVE  Ownership'
  BY <1>2, PopGlobalOwnership, YieldOwnership, RequeueOwnership,
     ReleaseOwnership, PopOwnership
<1>3. ASSUME NEW w \in Worker, ReadLength(w) \/ Return(w) PROVE Ownership'
  BY <1>3, OwnershipUnchanged DEF ReadLength, Return, own
<1>4. ASSUME NEW w \in Worker, EnterSleep(w) \/ CondWait(w) \/ LeaveSleep(w)
      PROVE  Ownership'
  BY <1>4, OwnershipUnchanged DEF EnterSleep, CondWait, LeaveSleep, asleep, own
<1>5. ASSUME TimerWakeup \/ UNCHANGED vars PROVE Ownership'
  BY <1>5, OwnershipUnchanged DEF TimerWakeup, vars, asleep, own
<1> QED BY <1>1, <1>2, <1>3, <1>4, <1>5 DEF Next, WorkerStep

THEOREM OwnershipInvariant == Spec => []Ownership
<1>1. Init => Ownership
  BY InitOwnership
<1>2. TypeOK /\ Ownership /\ [Next]_vars => Ownership'
  BY NextOwnership
<1> QED BY <1>1, <1>2, TypeCorrect, PTL DEF Spec

(* Two workers never run callbacks of the same service at the same time:   *)
(* whatever the number of threads, a queue is in one pair of hands, or     *)
(* once in the global queue, never both.                                   *)
THEOREM Exclusion == Spec => [](ExclusiveOwner /\ NoDoublePush)
<1>1. Ownership => ExclusiveOwner /\ NoDoublePush
  BY DEF Ownership
<1> QED BY <1>1, OwnershipInvariant, PTL

(* No service runs before its init has returned true.                      *)
THEOREM InitFirst == Spec => []NotBeforeInit
<1>1. Ownership => NotBeforeInit
  BY DEF Ownership
<1> QED BY <1>1, OwnershipInvariant, PTL

(* The flag in_global is exact for every live service.                     *)
THEOREM FlagIsExact == Spec => []InGlobalMeansOwned
<1>1. Ownership => InGlobalMeansOwned
  BY DEF Ownership
<1> QED BY <1>1, OwnershipInvariant, PTL

(* No message is ever left in a queue that nobody will look at.            *)
THEOREM NoLostWakeup == Spec => []NothingStranded
<1>1. Ownership => NothingStranded
  BY DEF Ownership, Flagged, InGlobalMeansOwned, NothingStranded
<1> QED BY <1>1, OwnershipInvariant, PTL

-----------------------------------------------------------------------------
(* The refinement.  What box and running stand for, for one service.       *)
Box(s) == {ring[s].buf[i] : i \in Occupied(ring[s])}
Run(s) == {msg[w] : w \in {v \in Worker :
                             q[v] = s /\ pc[v] \in {"length", "call"}}}

Boxes == [s \in Service |-> Box(s)]
Runs  == [s \in Service |-> Run(s)]

(* A message is in one slot of one ring: without it, taking a message out  *)
(* of a ring would not take it out of the box.                             *)
Numbered ==
  \A s \in Service :
    /\ \A i \in Occupied(ring[s]) : ring[s].buf[i] \in 1 .. sent
    /\ \A i, j \in Occupied(ring[s]) :
         ring[s].buf[i] = ring[s].buf[j] => i = j

(* What a push and a pop do to the box.                                    *)
LEMMA PushBox ==
  ASSUME TypeOK, Numbered, NEW s \in Service, ContextPush(s)
  PROVE  /\ Box(s)' = Box(s) \cup {sent + 1}
         /\ \A t \in Service \ {s} : Box(t)' = Box(t)
         /\ Numbered'
<1> DEFINE m == sent + 1
<1>1. /\ RingOK(ring[s], Msg) /\ m \in Msg
      /\ ring'[s] = Push(ring[s], m) /\ sent' = m
      /\ \A t \in Service \ {s} : ring'[t] = ring[t]
  BY DEF ContextPush, TypeOK, Msg
<1>2. \A k \in 1 .. sent : k # m /\ k \in 1 .. m
  BY DEF TypeOK
<1>3. m \in 1 .. m
  BY DEF TypeOK
<1> HIDE DEF m
<1>4. /\ Occupied(ring'[s]) = Occupied(ring[s]) \cup {ring[s].tail}
      /\ ring'[s].buf[ring[s].tail] = m
      /\ \A i \in Occupied(ring[s]) : ring'[s].buf[i] = ring[s].buf[i]
  BY ONLY <1>1, PushRing, MsgNotNoMsg
<1>5. Box(s)' = Box(s) \cup {m}
  BY <1>4 DEF Box
<1>6. \A t \in Service \ {s} : Box(t)' = Box(t)
  BY <1>1 DEF Box
<1>7. Numbered'
  <2> SUFFICES ASSUME NEW t \in Service
               PROVE  /\ \A i \in Occupied(ring'[t]) : ring'[t].buf[i] \in 1 .. m
                      /\ \A i, j \in Occupied(ring'[t]) :
                           ring'[t].buf[i] = ring'[t].buf[j] => i = j
    BY <1>1 DEF Numbered
  <2>1. CASE t = s
    BY <2>1, <1>2, <1>3, <1>4 DEF Numbered
  <2>2. CASE t # s
    BY <2>2, <1>1, <1>2 DEF Numbered
  <2> QED BY <2>1, <2>2
<1> QED BY <1>5, <1>6, <1>7 DEF m

LEMMA PopBox ==
  ASSUME TypeOK, Numbered, NEW w \in Worker, NEW s \in Service, s = q[w],
         MqPopMessage(w)
  PROVE  /\ First(ring[s]) \in Box(s)
         /\ Box(s)' = Box(s) \ {First(ring[s])}
         /\ \A t \in Service \ {s} : Box(t)' = Box(t)
         /\ Numbered'
<1>1. /\ RingOK(ring[s], Msg) /\ ~ IsEmpty(ring[s])
      /\ ring'[s] = Pop(ring[s]) /\ sent' = sent
      /\ \A t \in Service \ {s} : ring'[t] = ring[t]
  BY DEF MqPopMessage, TypeOK
<1>2. /\ ring[s].head \in Occupied(ring[s])
      /\ Occupied(ring'[s]) = Occupied(ring[s]) \ {ring[s].head}
      /\ \A i \in Occupied(ring'[s]) : ring'[s].buf[i] = ring[s].buf[i]
  BY ONLY <1>1, PopRing, MsgNotNoMsg
<1>3. \A i \in Occupied(ring[s]) :
        ring[s].buf[i] = First(ring[s]) <=> i = ring[s].head
  BY <1>2 DEF Numbered, First
<1>4. First(ring[s]) \in Box(s) /\ Box(s)' = Box(s) \ {First(ring[s])}
  BY <1>2, <1>3 DEF Box, First
<1>5. \A t \in Service \ {s} : Box(t)' = Box(t)
  BY <1>1 DEF Box
<1>6. Numbered'
  <2> SUFFICES ASSUME NEW t \in Service
               PROVE  /\ \A i \in Occupied(ring'[t]) :
                           ring'[t].buf[i] \in 1 .. sent
                      /\ \A i, j \in Occupied(ring'[t]) :
                           ring'[t].buf[i] = ring'[t].buf[j] => i = j
    BY <1>1 DEF Numbered
  <2>1. CASE t = s
    BY <2>1, <1>2 DEF Numbered
  <2>2. CASE t # s
    BY <2>2, <1>1 DEF Numbered
  <2> QED BY <2>1, <2>2
<1> QED BY <1>4, <1>5, <1>6

LEMMA NextNumbered == TypeOK /\ Numbered /\ [Next]_vars => Numbered'
<1> SUFFICES ASSUME TypeOK, Numbered, [Next]_vars PROVE Numbered'
  OBVIOUS
<1>1. CASE UNCHANGED <<ring, sent>>
  BY <1>1 DEF Numbered
<1>2. ASSUME NEW w \in Worker, MqPopMessage(w) PROVE Numbered'
  <2>1. q[w] \in Service
    BY <1>2 DEF MqPopMessage, TypeOK, WorkerState
  <2> QED BY <1>2, <2>1, PopBox
<1> QED BY <1>1, <1>2, PushBox
        DEF Next, WorkerStep, Create, sched, Launch, PopGlobal, MqPopEmpty,
            ReadLength, Return, Yield, Requeue, EnterSleep, CondWait,
            LeaveSleep, TimerWakeup, asleep, vars

(* A step that starts and ends no callback leaves running alone.           *)
LEMMA RunKept ==
  ASSUME UNCHANGED msg,
         \A w \in Worker :
           /\ pc'[w] \in {"length", "call"} <=> pc[w] \in {"length", "call"}
           /\ pc[w] \in {"length", "call"} => q'[w] = q[w]
  PROVE  \A s \in Service : Run(s)' = Run(s)
  BY DEF Run

(* The worker that holds a queue is the only one that runs its callback.   *)
LEMMA OnlyRunner ==
  ASSUME TypeOK, ExclusiveOwner, NEW w \in Worker, q[w] \in Service
  PROVE  \A v \in Worker : q[v] = q[w] => v = w
  BY ServiceAssumption DEF ExclusiveOwner, Held

RefineInv == TypeOK /\ Ownership /\ Numbered

LEMMA InitMailboxes == Init => Abstract!Init
<1> SUFFICES ASSUME Init PROVE Abstract!Init
  OBVIOUS
<1>1. \A s \in Service : Occupied(ring[s]) = {}
  BY QueueSizeAssumption DEF Init, NewRing, Occupied
<1> QED BY <1>1 DEF Init, Abstract!Init

(* A step that keeps both is a stutter, whatever it does to the queues.    *)
LEMMA MailboxesKept ==
  ASSUME UNCHANGED <<phase, sent, handled>>,
         \A s \in Service : Box(s)' = Box(s) /\ Run(s)' = Run(s)
  PROVE  UNCHANGED Abstract!vars
  BY DEF Box, Run, Abstract!vars

LEMMA SendRefines ==
  ASSUME RefineInv, NEW s \in Service, ContextPush(s)
  PROVE  Abstract!Send(s)
<1>1. /\ Box(s)' = Box(s) \cup {sent + 1}
      /\ \A t \in Service \ {s} : Box(t)' = Box(t)
  BY PushBox DEF RefineInv
<1>2. \A t \in Service : Run(t)' = Run(t)
  BY RunKept DEF ContextPush
<1>3. Boxes' = [Boxes EXCEPT ![s] = Boxes[s] \cup {sent + 1}]
  BY <1>1 DEF Boxes
<1>4. Runs' = Runs
  BY <1>2 DEF Runs
<1>5. phase[s] # "absent" /\ sent' = sent + 1 /\ UNCHANGED <<phase, handled>>
  BY DEF ContextPush
<1> QED BY <1>3, <1>4, <1>5, Zenon DEF Abstract!Send, Boxes, Runs, Box, Run

LEMMA BeginRefines ==
  ASSUME RefineInv, NEW w \in Worker, NEW s \in Service, s = q[w],
         MqPopMessage(w)
  PROVE  Abstract!Begin(s)
<1>1. PICK m : m = First(ring[s])
  OBVIOUS
<1>2. /\ m \in Box(s) /\ Box(s)' = Box(s) \ {m}
      /\ \A t \in Service \ {s} : Box(t)' = Box(t)
  BY <1>1, PopBox DEF RefineInv
<1>3. phase[s] = "live"
  <2>1. s \in Held(w)
    BY ServiceAssumption DEF Held
  <2> QED BY <2>1 DEF RefineInv, Ownership, NotBeforeInit
<1>4. \A v \in Worker : q[v] = s => v = w
  BY OnlyRunner DEF RefineInv, Ownership
<1>5. /\ pc[w] \notin {"length", "call"} /\ pc'[w] \in {"length", "call"}
      /\ msg'[w] = m /\ q' = q
      /\ \A v \in Worker \ {w} : pc'[v] = pc[v] /\ msg'[v] = msg[v]
      /\ UNCHANGED <<phase, sent, handled>>
  BY <1>1 DEF MqPopMessage, RefineInv, TypeOK
<1>6. Run(s) = {} /\ Run(s)' = {m}
  BY <1>4, <1>5 DEF Run
<1>7. \A t \in Service \ {s} : Run(t)' = Run(t)
  BY <1>5 DEF Run
<1>8. Runs' = [Runs EXCEPT ![s] = {m}] /\ Runs[s] = {}
  BY <1>6, <1>7 DEF Runs
<1>9. Boxes' = [Boxes EXCEPT ![s] = Boxes[s] \ {m}] /\ m \in Boxes[s]
  BY <1>2 DEF Boxes
<1>10. phase[s] = "live" /\ UNCHANGED <<phase, sent, handled>>
  BY <1>3, <1>5
<1> QED BY <1>8, <1>9, <1>10, Zenon DEF Abstract!Begin, Boxes, Runs, Box, Run

LEMMA EndRefines ==
  ASSUME RefineInv, NEW w \in Worker, NEW s \in Service, s = q[w], Return(w)
  PROVE  Abstract!End(s)
<1>1. \A v \in Worker : q[v] = s => v = w
  BY OnlyRunner DEF RefineInv, Ownership
<1>2. /\ pc[w] = "call" /\ pc'[w] \notin {"length", "call"}
      /\ q' = q /\ ring' = ring
      /\ \A v \in Worker \ {w} : pc'[v] = pc[v] /\ msg'[v] = msg[v]
      /\ UNCHANGED <<phase, sent>>
      /\ handled' = handled \cup {msg[w]}
  BY DEF Return, RefineInv, TypeOK
<1>3. Run(s) = {msg[w]} /\ Run(s)' = {}
  BY <1>1, <1>2 DEF Run
<1>4. \A t \in Service \ {s} : Run(t)' = Run(t)
  BY <1>2 DEF Run
<1>5. \A t \in Service : Box(t)' = Box(t)
  BY <1>2 DEF Box
<1>6. /\ Runs' = [Runs EXCEPT ![s] = {}]
      /\ Runs[s] # {} /\ handled' = handled \cup Runs[s]
  BY <1>2, <1>3, <1>4 DEF Runs
<1>7. Boxes' = Boxes
  BY <1>5 DEF Boxes
<1> QED BY <1>2, <1>6, <1>7, Zenon DEF Abstract!End, Boxes, Runs, Box, Run

LEMMA StepRefines ==
  RefineInv /\ [Next]_vars => [Abstract!Next]_(Abstract!vars)
<1> SUFFICES ASSUME RefineInv, [Next]_vars
             PROVE  Abstract!Next \/ UNCHANGED Abstract!vars
  OBVIOUS
<1> USE DEF RefineInv, TypeOK
<1>1. ASSUME NEW s \in Service, Create(s) PROVE Abstract!Create(s)
  <2>1. \A t \in Service : Box(t)' = Box(t) /\ Run(t)' = Run(t)
    BY <1>1, RunKept DEF Create, sched, Box
  <2> QED BY <1>1, <2>1 DEF Create, sched, Abstract!Create, Box, Run
<1>2. ASSUME NEW s \in Service, Launch(s) PROVE Abstract!Launch(s)
  <2>1. \A t \in Service : Box(t)' = Box(t) /\ Run(t)' = Run(t)
    BY <1>2, RunKept DEF Launch, Box
  <2> QED BY <1>2, <2>1 DEF Launch, Abstract!Launch, Box, Run
<1>3. ASSUME NEW w \in Worker,
             \/ PopGlobal(w) \/ MqPopEmpty(w) \/ ReadLength(w)
             \/ Yield(w) \/ Requeue(w)
      PROVE  UNCHANGED Abstract!vars
  <2>1. UNCHANGED <<phase, ring, msg, sent, handled>>
    BY <1>3 DEF PopGlobal, MqPopEmpty, ReadLength, Yield, Requeue
  <2>2. \A v \in Worker :
          /\ pc'[v] \in {"length", "call"} <=> pc[v] \in {"length", "call"}
          /\ pc[v] \in {"length", "call"} => q'[v] = q[v]
    BY <1>3 DEF PopGlobal, MqPopEmpty, ReadLength, Yield, Requeue
  <2>3. \A t \in Service : Box(t)' = Box(t) /\ Run(t)' = Run(t)
    BY <2>1, <2>2, RunKept DEF Box
  <2> QED BY <2>1, <2>3, MailboxesKept
<1>4. ASSUME \/ \E w \in Worker :
                  EnterSleep(w) \/ CondWait(w) \/ LeaveSleep(w)
             \/ TimerWakeup
             \/ UNCHANGED vars
      PROVE  UNCHANGED Abstract!vars
  <2>1. UNCHANGED <<phase, ring, msg, q, sent, handled>>
    BY <1>4 DEF EnterSleep, CondWait, LeaveSleep, TimerWakeup, asleep, vars
  <2>2. \A v \in Worker :
          pc'[v] \in {"length", "call"} <=> pc[v] \in {"length", "call"}
    BY <1>4 DEF EnterSleep, CondWait, LeaveSleep, TimerWakeup, Waiting, vars
  <2>3. \A t \in Service : Box(t)' = Box(t) /\ Run(t)' = Run(t)
    BY <2>1, <2>2, RunKept DEF Box
  <2> QED BY <2>1, <2>3, MailboxesKept
<1>5. ASSUME NEW w \in Worker, MqPopMessage(w)
      PROVE  \E s \in Service : Abstract!Begin(s)
  <2>1. q[w] \in Service
    BY <1>5 DEF MqPopMessage, WorkerState
  <2>2. PICK s \in Service : s = q[w]
    BY <2>1
  <2>3. Abstract!Begin(s)
    BY <1>5, <2>2, BeginRefines
  <2> QED BY <2>3, Zenon
<1>6. ASSUME NEW s \in Service, ContextPush(s) PROVE Abstract!Send(s)
  BY <1>6, SendRefines
<1>7. ASSUME NEW w \in Worker, Return(w)
      PROVE  \E s \in Service : Abstract!End(s)
  <2>1. q[w] \in Service
    BY <1>7 DEF Return, WorkerState
  <2>2. PICK s \in Service : s = q[w]
    BY <2>1
  <2>3. Abstract!End(s)
    BY <1>7, <2>2, EndRefines
  <2> QED BY <2>3, Zenon
<1>8. ASSUME NEW s \in Service, Create(s) \/ Launch(s) \/ ContextPush(s)
      PROVE  Abstract!Next
  BY <1>1, <1>2, <1>6, <1>8, Zenon DEF Abstract!Next
<1>9. ASSUME NEW w \in Worker, WorkerStep(w) \/ Return(w)
      PROVE  Abstract!Next \/ UNCHANGED Abstract!vars
  <2>1. CASE MqPopMessage(w)
    BY <1>5, <2>1, Zenon DEF Abstract!Next
  <2>2. CASE Return(w)
    BY <1>7, <2>2, Zenon DEF Abstract!Next
  <2> QED BY <1>3, <1>4, <1>9, <2>1, <2>2, Zenon DEF WorkerStep
<1> QED BY <1>4, <1>8, <1>9, Zenon DEF Next

(* Every run of the message core, with queues that wrap around and grow,   *)
(* any number of workers of any weights, trades and sleep, is one of       *)
(* Mailboxes: each message is handed over exactly once, one at a time per  *)
(* service, and never before the service's init has returned.              *)
THEOREM MailboxesImplemented == Spec => ImplementsMailboxes
<1>1. Init => Numbered
  BY QueueSizeAssumption DEF Init, NewRing, Occupied, Numbered
<1>2. Spec => []RefineInv
  BY <1>1, NextNumbered, TypeCorrect, OwnershipInvariant, PTL
  DEF Spec, RefineInv
<1> QED BY <1>2, InitMailboxes, StepRefines, PTL
        DEF Spec, ImplementsMailboxes, Abstract!Spec
=============================================================================
