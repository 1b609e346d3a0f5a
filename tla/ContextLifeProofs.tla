-------------------------- MODULE ContextLifeProofs -------------------------
(***************************************************************************)
(* For any number of contexts, senders and workers: while every init       *)
(* succeeds and every context is found, the list of queues is a sequence   *)
(* and nothing freed or null is used, and no live service is stranded by   *)
(* another one's end.                                                      *)
(***************************************************************************)
EXTENDS ContextLife, TLAPS

(* The list of global_queue by itself, for any set of queues.              *)
ListInv == ListTypeOK /\ ListIsSequence /\ AssertionsHold

LEMMA InitList == ListInit => ListInv
BY DEF ListInit, ListInv, ListTypeOK, ListIsSequence, AssertionsHold, Linked

LEMMA PushList ==
  ASSUME ListInv, NEW x \in Queue, QueuePush(x)
  PROVE  ListInv'
<1>1. /\ items \in Seq(Queue)
      /\ Len(items') = Len(items) + 1
      /\ \A i \in 1 .. Len(items) : items'[i] = items[i]
      /\ items'[Len(items) + 1] = x
      /\ \A i \in 1 .. Len(items) : items[i] # x /\ items[i] \in Queue
      /\ next[x] = Null
      /\ x # Null
      /\ items' # << >>
  BY NullAssumption DEF QueuePush, Link, ListInv, ListTypeOK, AssertionsHold, Linked
<1>2. ListTypeOK'
  <2>1. CASE tail # Null
    BY <2>1 DEF QueuePush, Link, ListInv, ListTypeOK
  <2>2. CASE tail = Null
    BY <2>2 DEF QueuePush, Link, ListInv, ListTypeOK
  <2> QED BY <2>1, <2>2
<1>3. CASE tail # Null
  <2>1. /\ Len(items) \in Nat \ {0}
        /\ tail = items[Len(items)]
        /\ head = items[1]
        /\ head' = head
        /\ tail' = x
        /\ \A y \in Queue : next'[y] = IF y = tail THEN x ELSE next[y]
    BY <1>1, <1>3 DEF QueuePush, Link, ListInv, ListTypeOK, ListIsSequence
  <2>2. \A i, j \in 1 .. Len(items') : items'[i] = items'[j] => i = j
    BY <1>1 DEF ListInv, ListIsSequence
  <2>3. \A i \in 1 .. Len(items') :
          next'[items'[i]] = IF i < Len(items') THEN items'[i + 1] ELSE Null
    <3> SUFFICES ASSUME NEW i \in 1 .. Len(items')
                 PROVE  next'[items'[i]] =
                          IF i < Len(items') THEN items'[i + 1] ELSE Null
      OBVIOUS
    <3>1. CASE i < Len(items)
      <4>1. /\ items'[i] = items[i] /\ items'[i + 1] = items[i + 1]
            /\ items[i] # tail /\ items[i] \in Queue
        BY <3>1, <1>1, <2>1 DEF ListInv, ListIsSequence
      <4>2. next[items[i]] = items[i + 1]
        BY <3>1, <1>1 DEF ListInv, ListIsSequence
      <4> QED BY <3>1, <4>1, <4>2, <1>1, <2>1
    <3>2. CASE i = Len(items)
      BY <3>2, <1>1, <2>1
    <3>3. CASE i = Len(items) + 1
      BY <3>3, <1>1, <2>1
    <3> QED BY <3>1, <3>2, <3>3, <1>1
  <2>4. ListIsSequence'
    <3>1. head' # Null /\ tail' # Null
      BY <2>1, <1>1, <1>3 DEF ListInv, ListIsSequence
    <3>2. head' = items'[1] /\ tail' = items'[Len(items')]
      BY <2>1, <1>1
    <3> QED BY <3>1, <3>2, <1>1, <2>2, <2>3 DEF ListIsSequence
  <2>5. AssertionsHold'
    <3>1. ASSUME NEW y \in Queue \ Linked' PROVE next'[y] = Null
      <4>1. y # x /\ y \notin Linked
        BY <1>1 DEF Linked
      <4>2. y # tail
        BY <4>1, <2>1 DEF Linked
      <4> QED BY <4>1, <4>2, <2>1 DEF ListInv, AssertionsHold
    <3>2. next'[head'] # Null
      <4>1. 1 \in 1 .. Len(items') /\ 1 < Len(items') /\ 2 \in 1 .. Len(items')
        BY <1>1, <2>1
      <4>2. next'[head'] = items'[2]
        BY <4>1, <2>1, <2>3, <1>1
      <4>3. items'[2] \in Queue
        BY <4>1, <1>2 DEF ListTypeOK
      <4> QED BY <4>2, <4>3, NullAssumption
    <3> QED BY <3>1, <3>2 DEF AssertionsHold
  <2> QED BY <1>2, <2>4, <2>5 DEF ListInv
<1>4. CASE tail = Null
  <2>1. /\ items = << >> /\ Len(items) = 0
        /\ head' = x /\ tail' = x /\ next' = next
    BY <1>4 DEF QueuePush, Link, ListInv, ListIsSequence
  <2>2. Len(items') = 1 /\ items'[1] = x
    BY <1>1, <2>1
  <2>3. ListIsSequence'
    BY <1>1, <2>1, <2>2 DEF ListIsSequence
  <2>4. AssertionsHold'
    BY <1>1, <2>1, <2>2 DEF ListInv, AssertionsHold, Linked
  <2> QED BY <1>2, <2>3, <2>4 DEF ListInv
<1> QED BY <1>3, <1>4

LEMMA PopList ==
  ASSUME ListInv, QueuePop
  PROVE  ListInv'
<1>1. /\ items \in Seq(Queue)
      /\ Len(items) \in Nat \ {0}
      /\ items # << >>
      /\ head = items[1]
      /\ tail = items[Len(items)]
      /\ Len(items') = Len(items) - 1
      /\ \A i \in 1 .. Len(items') : items'[i] = items[i + 1]
      /\ items' \in Seq(Queue)
      /\ head \in Queue
  BY DEF QueuePop, ListInv, ListTypeOK, ListIsSequence
<1>2. /\ head' = IF Len(items) = 1 THEN Null ELSE items[2]
      /\ \A y \in Queue : next'[y] = IF y = head THEN Null ELSE next[y]
      /\ next' \in [Queue -> Queue \cup {Null}]
  BY <1>1 DEF QueuePop, ListInv, ListTypeOK, ListIsSequence
<1>3. \A i \in 1 .. Len(items) : items[i] \in Queue
  BY <1>1
<1>4. ListTypeOK'
  BY <1>1, <1>2, <1>3 DEF QueuePop, ListInv, ListTypeOK
<1>5. \A i, j \in 1 .. Len(items') : items'[i] = items'[j] => i = j
  <2> SUFFICES ASSUME NEW i \in 1 .. Len(items'), NEW j \in 1 .. Len(items'),
                      items'[i] = items'[j]
               PROVE  i = j
    OBVIOUS
  <2>1. items[i + 1] = items[j + 1] /\ i + 1 \in 1 .. Len(items) /\ j + 1 \in 1 .. Len(items)
    BY <1>1
  <2>2. i + 1 = j + 1
    BY <2>1 DEF ListInv, ListIsSequence
  <2> QED BY <2>2
<1>6. \A i \in 1 .. Len(items') :
        next'[items'[i]] = IF i < Len(items') THEN items'[i + 1] ELSE Null
  <2> SUFFICES ASSUME NEW i \in 1 .. Len(items')
               PROVE  next'[items'[i]] =
                        IF i < Len(items') THEN items'[i + 1] ELSE Null
    OBVIOUS
  <2>1. /\ i + 1 \in 1 .. Len(items) /\ 1 \in 1 .. Len(items)
        /\ items'[i] = items[i + 1]
    BY <1>1
  <2>2. items[i + 1] # head
    BY <2>1, <1>1 DEF ListInv, ListIsSequence
  <2>3. next'[items'[i]] = next[items[i + 1]]
    BY <2>1, <2>2, <1>2, <1>3
  <2>4. next[items[i + 1]] =
          IF i + 1 < Len(items) THEN items[i + 2] ELSE Null
    BY <2>1 DEF ListInv, ListIsSequence
  <2> QED BY <2>1, <2>3, <2>4, <1>1
<1>7. ListIsSequence'
  <2>1. CASE Len(items) = 1
    <3>1. items' = << >> /\ head' = Null /\ tail' = Null /\ Len(items') = 0
      BY <2>1, <1>1, <1>2 DEF QueuePop
    <3> QED BY <3>1 DEF ListIsSequence
  <2>2. CASE Len(items) # 1
    <3>1. /\ items' # << >>
          /\ head' = items'[1] /\ tail' = items'[Len(items')]
          /\ head' # Null /\ tail' # Null
      <4>1. /\ Len(items') \in Nat \ {0}
            /\ 1 \in 1 .. Len(items') /\ Len(items') \in 1 .. Len(items')
            /\ 2 \in 1 .. Len(items) /\ Len(items) \in 1 .. Len(items)
        BY <2>2, <1>1
      <4>2. head' = items[2] /\ items'[1] = items[2] /\ items[2] # Null
        BY <4>1, <2>2, <1>1, <1>2, <1>3, NullAssumption
      <4>3. tail' = tail /\ tail = items[Len(items)] /\ tail # Null
        BY <4>1, <4>2, <1>1, <1>3, NullAssumption DEF QueuePop
      <4>4. items'[Len(items')] = items[Len(items)]
        BY <4>1, <1>1
      <4> QED BY <4>1, <4>2, <4>3, <4>4, <1>1
    <3> QED BY <3>1, <1>5, <1>6 DEF ListIsSequence
  <2> QED BY <2>1, <2>2
<1>8. AssertionsHold'
  <2>1. ASSUME NEW y \in Queue \ Linked' PROVE next'[y] = Null
    <3>1. CASE y = head
      BY <3>1, <1>2
    <3>2. CASE y # head
      <4>1. y \notin Linked
        <5> SUFFICES ASSUME NEW i \in 1 .. Len(items), items[i] = y PROVE FALSE
          BY DEF Linked
        <5>1. i # 1 /\ i - 1 \in 1 .. Len(items') /\ items'[i - 1] = y
          BY <3>2, <1>1
        <5> QED BY <5>1, <2>1 DEF Linked
      <4> QED BY <4>1, <3>2, <1>2 DEF ListInv, AssertionsHold
    <3> QED BY <3>1, <3>2
  <2>2. ASSUME head' # Null, next'[head'] = Null PROVE head' = tail'
    <3>1. /\ items' # << >> /\ Len(items') \in Nat \ {0}
          /\ head' = items'[1] /\ tail' = items'[Len(items')]
      BY <2>2, <1>4, <1>7 DEF ListIsSequence, ListTypeOK
    <3>2. CASE Len(items') = 1
      BY <3>1, <3>2
    <3>3. CASE Len(items') # 1
      <4>1. 1 \in 1 .. Len(items') /\ 1 < Len(items') /\ 2 \in 1 .. Len(items')
        BY <3>1, <3>3, <1>1
      <4>2. next'[head'] = items'[2] /\ items'[2] \in Queue
        BY <4>1, <3>1, <1>6, <1>4 DEF ListTypeOK
      <4> QED BY <4>2, <2>2, NullAssumption
    <3> QED BY <3>2, <3>3
  <2> QED BY <2>1, <2>2 DEF AssertionsHold
<1> QED BY <1>4, <1>7, <1>8 DEF ListInv

(* The list of global_queue always spells out the sequence of the queues   *)
(* pushed and not yet popped, and its two assertions never fail.           *)
THEOREM ListIsSequenceAlways == ListSpec => [](ListTypeOK /\ ListIsSequence /\ AssertionsHold)
<1>1. ListInv /\ [ListNext]_list => ListInv'
  <2> SUFFICES ASSUME ListInv, [ListNext]_list PROVE ListInv'
    OBVIOUS
  <2>1. ASSUME UNCHANGED list PROVE ListInv'
    BY <2>1 DEF list, ListInv, ListTypeOK, ListIsSequence, AssertionsHold, Linked
  <2> QED BY <2>1, PushList, PopList DEF ListNext
<1>2. ListInv => ListTypeOK /\ ListIsSequence /\ AssertionsHold
  BY DEF ListInv
<1> QED BY <1>1, <1>2, InitList, PTL DEF ListSpec

-----------------------------------------------------------------------------

(* The queues a worker may use: what it held at "fetch" it has given up.   *)
Hand(w) ==
  { c \in Queue : \/ pc[w] \notin {"idle", "fetch"} /\ c = q[w]
                  \/ pc[w] = "requeue" /\ c = nq[w] }

(* The types, and that a worker that is about to use a queue has one.      *)
Typed ==
  /\ TypeOK
  /\ \A w \in Worker : pc[w] # "idle" => q[w] \in Queue
  /\ \A w \in Worker : pc[w] = "requeue" => nq[w] \in Queue

(* A live service that is flagged is in the list or in a hand, and one     *)
(* that is not has nothing to do.                                          *)
Flagged ==
  /\ \A c \in Queue : ~ in_global[c] => count[c] = 0
  /\ ~ broken =>
       \A c \in Queue : stage[c] = "live" /\ in_global[c] =>
         c \in Linked \/ \E w \in Worker : c \in Hand(w)

(* While all is whole, every context that exists is in the table, and      *)
(* every queue in the list or in a hand is a live one's, in one place,     *)
(* with its flag set.                                                      *)
Sane ==
  /\ ~ broken
  /\ \A c \in Queue : stage[c] # "absent" => c \in table
  /\ \A c \in Linked : stage[c] = "live" /\ in_global[c]
  /\ \A c \in Queue : ~ in_global[c] => stage[c] = "live"
  /\ \A w \in Worker : \A c \in Hand(w) :
       stage[c] = "live" /\ in_global[c] /\ c \notin Linked
  /\ \A v, w \in Worker : v # w => Hand(v) \cap Hand(w) = {}
  /\ \A w \in Worker : pc[w] = "requeue" => nq[w] # q[w]
  /\ \A w \in Worker :
       /\ pc[w] # "release"
       /\ pc[w] \in {"pop", "call", "yield", "requeue"} => ctx[w] = q[w]
  /\ \A s \in Sender : held[s] # Null => held[s] \in table

(* The list is as it should be until something breaks.                     *)
Listed == ListInv \/ (broken /\ ListTypeOK)

IInv == Listed /\ Typed /\ Flagged /\ (Whole => Sane)

-----------------------------------------------------------------------------
(* What the list links, after a push and after a pop.                      *)
LEMMA PushLinked ==
  ASSUME ListInv, NEW c \in Queue, QueuePush(c)
  PROVE  ListInv' /\ Linked' = Linked \cup {c}
<1>1. ListInv'
  BY PushList
<1>2. items \in Seq(Queue) /\ items' = Append(items, c)
  BY DEF QueuePush, Link, ListInv, ListTypeOK
<1>3. /\ Len(items') = Len(items) + 1 /\ Len(items) \in Nat
      /\ \A i \in 1 .. Len(items) : items'[i] = items[i]
      /\ items'[Len(items) + 1] = c
  BY <1>2
<1>4. Linked' = Linked \cup {c}
  BY <1>3 DEF Linked
<1> QED BY <1>1, <1>4

LEMMA PopLinked ==
  ASSUME ListInv, QueuePop
  PROVE  /\ ListInv'
         /\ head \in Queue /\ head \in Linked
         /\ Linked' = Linked \ {head}
<1>1. ListInv'
  BY PopList
<1>2. /\ items \in Seq(Queue) /\ items # << >> /\ items' = Tail(items)
      /\ head = items[1] /\ head \in Queue
  BY DEF QueuePop, ListInv, ListTypeOK, ListIsSequence
<1>3. /\ Len(items) \in Nat \ {0} /\ Len(items') = Len(items) - 1
      /\ \A i \in 1 .. Len(items') : items'[i] = items[i + 1]
      /\ 1 \in 1 .. Len(items)
  BY <1>2
<1>4. \A i \in 1 .. Len(items) : items[i] = head => i = 1
  BY <1>2, <1>3 DEF ListInv, ListIsSequence
<1>5. Linked' \subseteq Linked \ {head}
  <2> SUFFICES ASSUME NEW i \in 1 .. Len(items')
               PROVE  items'[i] \in Linked \ {head}
    BY DEF Linked
  <2>1. i + 1 \in 1 .. Len(items) /\ i + 1 # 1 /\ items'[i] = items[i + 1]
    BY <1>3
  <2> QED BY <2>1, <1>4 DEF Linked
<1>6. Linked \ {head} \subseteq Linked'
  <2> SUFFICES ASSUME NEW i \in 1 .. Len(items), items[i] # head
               PROVE  items[i] \in Linked'
    BY DEF Linked
  <2>1. i # 1 /\ i - 1 \in 1 .. Len(items') /\ items'[i - 1] = items[i]
    BY <1>2, <1>3
  <2> QED BY <2>1 DEF Linked
<1> QED BY <1>1, <1>2, <1>3, <1>5, <1>6 DEF Linked

(* The tail is a queue in the list, or there is none.                      *)
LEMMA EndsLinked ==
  ASSUME ListInv
  PROVE  /\ tail # Null => tail \in Linked
         /\ head # Null => head \in Linked
         /\ Linked \subseteq Queue
<1>1. items \in Seq(Queue)
  BY DEF ListInv, ListTypeOK
<1>2. items # << >> => Len(items) \in 1 .. Len(items) /\ 1 \in 1 .. Len(items)
  BY <1>1
<1> QED BY <1>1, <1>2 DEF ListInv, ListIsSequence, Linked

(* global_queue::push and pop, whatever becomes of the queue.              *)
LEMMA GlobalPushList ==
  ASSUME ListInv, broken \in BOOLEAN, NEW c \in Queue, GlobalPush(c)
  PROVE  /\ Listed' /\ broken' \in BOOLEAN
         /\ Linked \subseteq Linked' /\ Linked' \subseteq Linked \cup {c}
         /\ ~ broken' => c \in Linked'
<1>1. CASE QueuePush(c) /\ UNCHANGED broken
  BY <1>1, PushLinked DEF Listed
<1>2. CASE broken' = TRUE /\ UNCHANGED list
  BY <1>2 DEF list, Listed, ListInv, ListTypeOK, ListIsSequence, AssertionsHold,
              Linked
<1>3. CASE c \in Linked /\ broken' = TRUE /\ Link(c)
  <2>1. items \in Seq(Queue) /\ items' = Append(items, c)
    BY <1>3 DEF Link, ListInv, ListTypeOK
  <2>2. Linked' = Linked \cup {c}
    <3>1. /\ Len(items') = Len(items) + 1 /\ Len(items) \in Nat
          /\ \A i \in 1 .. Len(items) : items'[i] = items[i]
          /\ items'[Len(items) + 1] = c
      BY <2>1
    <3> QED BY <3>1 DEF Linked
  <2>3. ListTypeOK'
    BY <1>3, <2>1 DEF Link, ListInv, ListTypeOK
  <2> QED BY <1>3, <2>2, <2>3 DEF Listed
<1> QED BY <1>1, <1>2, <1>3 DEF GlobalPush

LEMMA GlobalPopList ==
  ASSUME ListInv, broken \in BOOLEAN, head # Null, GlobalPop
  PROVE  /\ Listed' /\ broken' \in BOOLEAN
         /\ head \in Queue /\ head \in Linked
         /\ Linked \ {head} \subseteq Linked' /\ Linked' \subseteq Linked
         /\ ~ broken' => Linked' = Linked \ {head}
<1>1. head \in Queue /\ head \in Linked
  BY EndsLinked
<1>2. CASE QueuePop /\ UNCHANGED broken
  BY <1>1, <1>2, PopLinked DEF Listed
<1>3. CASE broken' = TRUE /\ UNCHANGED list
  BY <1>1, <1>3
  DEF list, Listed, ListInv, ListTypeOK, ListIsSequence, AssertionsHold, Linked
<1> QED BY <1>2, <1>3 DEF GlobalPop

LEMMA ListKept ==
  ASSUME ListInv, UNCHANGED list
  PROVE  ListInv' /\ Linked' = Linked
  BY DEF list, ListInv, ListTypeOK, ListIsSequence, AssertionsHold, Linked

(* What is in the table or in no stage yet is not freed.                   *)
LEMMA TabledNotFreed ==
  ASSUME NEW c, c \in table \/ c \notin Queue
  PROVE  ~ Freed(c)
  BY DEF Freed, Referred

(* While all is well a push and a pop touch nothing freed.                 *)
LEMMA GlobalPushSane ==
  ASSUME ListInv, Sane, NEW c \in Queue, c \in table, c \notin Linked,
         GlobalPush(c)
  PROVE  ~ broken' /\ Linked' = Linked \cup {c}
<1>1. tail \in table \/ tail \notin Queue
  BY EndsLinked, NullAssumption DEF Sane
<1>2. ~ Freed(c) /\ ~ Freed(tail)
  BY <1>1, TabledNotFreed
<1> QED BY <1>2, PushLinked DEF GlobalPush, Sane

LEMMA GlobalPopSane ==
  ASSUME ListInv, Sane, head # Null, GlobalPop
  PROVE  ~ broken' /\ Linked' = Linked \ {head}
<1>1. head \in table
  BY EndsLinked DEF Sane
<1>2. ~ Freed(head)
  BY <1>1, TabledNotFreed
<1> QED BY <1>2, PopLinked DEF GlobalPop, Sane

-----------------------------------------------------------------------------
LEMMA InitInv == Init => IInv
<1> SUFFICES ASSUME Init PROVE IInv
  OBVIOUS
<1>1. ListInv
  BY InitList DEF Init
<1>2. items = << >> /\ Linked = {}
  BY DEF Init, ListInit, Linked
<1>3. Typed
  BY <1>1, ContextAssumption
  DEF Init, ListInv, Typed, TypeOK, Stages, Labels
<1>4. Flagged
  BY DEF Init, Flagged
<1>5. Sane
  BY <1>2 DEF Init, Sane, Hand
<1> QED BY <1>1, <1>3, <1>4, <1>5 DEF IInv, Listed

(* The steps of create.                                                    *)
LEMMA CreateInv ==
  ASSUME IInv, ~ broken, NEW c \in Queue, Create(c)
  PROVE  IInv'
<1> USE DEF Create, IInv, Listed
<1>1. ListInv' /\ Linked' = Linked
  BY ListKept
<1>2. \A w \in Worker : Hand(w)' = Hand(w)
  BY DEF Hand, worker
<1>3. Typed'
  BY <1>1 DEF ListInv, Typed, TypeOK, Stages, list, mail, worker
<1>4. Flagged'
  BY <1>1, <1>2 DEF Flagged, Typed, TypeOK, mail
<1>5. ASSUME Whole' PROVE Sane'
  <2>1. Sane
    BY <1>5 DEF Whole, Typed, TypeOK
  <2> QED BY <1>1, <1>2, <2>1 DEF Sane, Typed, TypeOK, worker, mail
<1> QED BY <1>1, <1>3, <1>4, <1>5

LEMMA LaunchInv ==
  ASSUME IInv, ~ broken, NEW c \in Queue, Launch(c)
  PROVE  IInv'
<1> USE DEF Launch, IInv, Listed
<1>1. /\ Listed' /\ broken' \in BOOLEAN
      /\ Linked \subseteq Linked' /\ Linked' \subseteq Linked \cup {c}
      /\ ~ broken' => c \in Linked'
  BY GlobalPushList DEF Typed, TypeOK
<1>2. \A w \in Worker : Hand(w)' = Hand(w)
  BY DEF Hand, worker
<1>3. Typed'
  BY <1>1 DEF ListInv, Typed, TypeOK, Stages, mail, worker
<1>4. Flagged'
  BY <1>1, <1>2 DEF Flagged, Typed, TypeOK, mail
<1>5. ASSUME Whole' PROVE Sane'
  <2>1. Sane
    BY <1>5 DEF Whole, Typed, TypeOK
  <2>2. c \in table /\ c \notin Linked /\ in_global[c]
    BY <2>1 DEF Sane
  <2>3. ~ broken' /\ Linked' = Linked \cup {c}
    BY <2>1, <2>2, GlobalPushSane
  <2> QED BY <1>2, <2>1, <2>2, <2>3 DEF Sane, Typed, TypeOK, worker, mail
<1> QED BY <1>1, <1>3, <1>4, <1>5

LEMMA InitFailsInv ==
  ASSUME IInv, ~ broken, NEW c \in Queue, InitFails(c)
  PROVE  IInv'
<1> USE DEF InitFails, IInv, Listed
<1>1. ListInv' /\ Linked' = Linked
  BY ListKept
<1>2. \A w \in Worker : Hand(w)' = Hand(w)
  BY DEF Hand, worker
<1>3. Typed'
  BY <1>1 DEF ListInv, Typed, TypeOK, Stages, list, mail, worker
<1>4. Flagged'
  BY <1>1, <1>2 DEF Flagged, Typed, TypeOK, mail
<1>5. ~ Whole'
  BY DEF Whole, Typed, TypeOK
<1> QED BY <1>1, <1>3, <1>4, <1>5

LEMMA HandleRetireInv ==
  ASSUME IInv, ~ broken, NEW c \in Queue, HandleRetire(c)
  PROVE  IInv'
<1> USE DEF HandleRetire, IInv, Listed
<1>1. ListInv' /\ Linked' = Linked
  BY ListKept
<1>2. \A w \in Worker : Hand(w)' = Hand(w)
  BY DEF Hand, worker
<1>3. Typed'
  BY <1>1 DEF ListInv, Typed, TypeOK, Stages, list, mail, worker, Retired,
              Reachable
<1>4. Flagged'
  BY <1>1, <1>2 DEF Flagged, Typed, TypeOK, mail
<1>5. ~ Whole'
  BY DEF Whole, Typed, TypeOK
<1> QED BY <1>1, <1>3, <1>4, <1>5

LEMMA MqReleaseInv ==
  ASSUME IInv, ~ broken, NEW c \in Queue, MqRelease(c)
  PROVE  IInv'
<1> USE DEF MqRelease, IInv, Listed
<1>1. /\ Listed' /\ broken' \in BOOLEAN
      /\ Linked \subseteq Linked' /\ Linked' \subseteq Linked \cup {c}
  BY GlobalPushList DEF Typed, TypeOK
<1>2. \A w \in Worker : Hand(w)' = Hand(w)
  BY DEF Hand, worker
<1>3. Typed'
  BY <1>1 DEF ListInv, Typed, TypeOK, Stages, mail, worker
<1>4. Flagged'
  BY <1>1, <1>2 DEF Flagged, Typed, TypeOK, mail
<1>5. ~ Whole'
  BY DEF Whole, Typed, TypeOK
<1> QED BY <1>1, <1>3, <1>4, <1>5

LEMMA ForgetInv ==
  ASSUME IInv, ~ broken, NEW c \in Queue, Forget(c)
  PROVE  IInv'
<1> USE DEF Forget, IInv, Listed
<1>1. ListInv' /\ Linked' = Linked
  BY ListKept
<1>2. \A w \in Worker : Hand(w)' = Hand(w)
  BY DEF Hand, worker
<1>3. Typed'
  BY <1>1 DEF ListInv, Typed, TypeOK, Stages, list, mail, worker
<1>4. Flagged'
  BY <1>1, <1>2 DEF Flagged, Typed, TypeOK, mail
<1>5. ~ Whole'
  BY DEF Whole, Typed, TypeOK
<1> QED BY <1>1, <1>3, <1>4, <1>5

(* The steps of context_push.                                              *)
LEMMA HandleGrabInv ==
  ASSUME IInv, ~ broken, NEW s \in Sender, NEW c \in Queue, HandleGrab(s, c)
  PROVE  IInv'
<1> USE DEF HandleGrab, IInv, Listed
<1>1. ListInv' /\ Linked' = Linked
  BY ListKept
<1>2. \A w \in Worker : Hand(w)' = Hand(w)
  BY DEF Hand, worker
<1>3. Typed'
  BY <1>1 DEF ListInv, Typed, TypeOK, list, creation, worker
<1>4. Flagged'
  BY <1>1, <1>2 DEF Flagged, Typed, TypeOK, creation
<1>5. ASSUME Whole' PROVE Sane'
  <2>1. Sane
    BY <1>5 DEF Whole, creation
  <2> QED BY <1>1, <1>2, <2>1 DEF Sane, Reachable, Typed, TypeOK, creation,
                                  worker
<1> QED BY <1>1, <1>3, <1>4, <1>5

LEMMA MqPushInv ==
  ASSUME IInv, ~ broken, NEW s \in Sender, MqPush(s)
  PROVE  IInv'
<1> USE DEF IInv, Listed
<1> DEFINE c == held[s]
<1>1. /\ c \in Queue
      /\ count' = [count EXCEPT ![c] = @ + 1]
      /\ in_global' = [in_global EXCEPT ![c] = TRUE]
      /\ IF in_global[c] THEN UNCHANGED <<list, broken>> ELSE GlobalPush(c)
      /\ held' = [held EXCEPT ![s] = Null]
      /\ UNCHANGED <<creation, pushes, worker>>
  BY DEF MqPush, Wake, Typed, TypeOK
<1>2. \A w \in Worker : Hand(w)' = Hand(w)
  BY <1>1 DEF Hand, worker
<1>3. /\ Listed' /\ broken' \in BOOLEAN
      /\ Linked \subseteq Linked' /\ Linked' \subseteq Linked \cup {c}
      /\ ~ broken' /\ ~ in_global[c] => c \in Linked'
  <2> HIDE DEF c
  <2>1. CASE in_global[c]
    BY <2>1, <1>1, ListKept DEF Typed, TypeOK
  <2>2. CASE ~ in_global[c]
    BY <2>2, <1>1, GlobalPushList DEF Typed, TypeOK
  <2> QED BY <2>1, <2>2
<1>4. Typed'
  BY <1>1, <1>3 DEF ListInv, Typed, TypeOK, creation, worker
<1>5. Flagged'
  <2> HIDE DEF c
  <2>1. \A d \in Queue : d # c => /\ in_global'[d] = in_global[d]
                                  /\ count'[d] = count[d]
    BY <1>1 DEF Typed, TypeOK
  <2>2. in_global'[c]
    BY <1>1 DEF Typed, TypeOK
  <2> QED BY <1>1, <1>2, <1>3, <2>1, <2>2 DEF Flagged, creation
<1>6. ASSUME Whole' PROVE Sane'
  <2>1. Sane
    BY <1>1, <1>6 DEF Whole, creation
  <2> HIDE DEF c
  <2>2. c \in table
    BY <2>1, <1>1, NullAssumption DEF Sane, c
  <2>3. in_global'[c] /\ \A d \in Queue : d # c => in_global'[d] = in_global[d]
    BY <1>1 DEF Typed, TypeOK
  <2>4. CASE in_global[c]
    <3>1. ~ broken' /\ Linked' = Linked
      BY <2>1, <2>4, <1>1, ListKept DEF Sane
    <3> QED BY <1>1, <1>2, <2>1, <2>3, <3>1
            DEF Sane, Typed, TypeOK, creation, worker
  <2>5. CASE ~ in_global[c]
    <3>1. stage[c] = "live" /\ c \notin Linked /\ \A w \in Worker : c \notin Hand(w)
      BY <2>1, <2>5, <1>1 DEF Sane
    <3>2. ~ broken' /\ Linked' = Linked \cup {c}
      BY <2>1, <2>2, <2>5, <3>1, <1>1, GlobalPushSane
    <3> QED BY <1>1, <1>2, <2>1, <2>3, <3>1, <3>2
            DEF Sane, Typed, TypeOK, creation, worker
  <2> QED BY <2>4, <2>5
<1> QED BY <1>3, <1>4, <1>5, <1>6

-----------------------------------------------------------------------------
(* The steps of a worker.  No other worker's hand changes with them.       *)
LEMMA OthersHand ==
  ASSUME Typed, NEW w \in Worker,
         \A v \in Worker \ {w} : pc'[v] = pc[v] /\ q'[v] = q[v] /\ nq'[v] = nq[v]
  PROVE  \A v \in Worker \ {w} : Hand(v)' = Hand(v)
  BY DEF Hand

LEMMA TakeInv ==
  ASSUME IInv, ~ broken, NEW w \in Worker, Take(w)
  PROVE  IInv'
<1> USE DEF Take, Goto, IInv, Listed
<1>1. /\ Listed' /\ broken' \in BOOLEAN
      /\ head \in Queue /\ head \in Linked
      /\ Linked \ {head} \subseteq Linked' /\ Linked' \subseteq Linked
  BY GlobalPopList DEF Typed, TypeOK
<1>2. /\ pc'[w] = "grab" /\ q'[w] = head /\ nq'[w] = nq[w] /\ pc[w] = "idle"
      /\ \A v \in Worker \ {w} : /\ pc'[v] = pc[v] /\ q'[v] = q[v]
                                 /\ nq'[v] = nq[v]
  BY DEF Typed, TypeOK
<1>3. /\ \A v \in Worker \ {w} : Hand(v)' = Hand(v)
      /\ Hand(w) = {} /\ Hand(w)' = {head}
  BY <1>1, <1>2, OthersHand DEF Hand
<1>4. Typed'
  BY <1>1, <1>2 DEF ListInv, Typed, TypeOK, Labels, creation, mail
<1>5. Flagged'
  BY <1>1, <1>3 DEF Flagged, Typed, TypeOK, creation, mail
<1>6. ASSUME Whole' PROVE Sane'
  <2>1. Sane
    BY <1>6 DEF Whole, creation
  <2>2. ~ broken' /\ Linked' = Linked \ {head}
    BY <2>1, GlobalPopSane
  <2> QED BY <1>1, <1>2, <1>3, <2>1, <2>2 DEF Sane, Typed, TypeOK, creation, mail
<1> QED BY <1>1, <1>4, <1>5, <1>6

LEMMA GrabContextInv ==
  ASSUME IInv, ~ broken, NEW w \in Worker, GrabContext(w)
  PROVE  IInv'
<1> USE DEF GrabContext, Goto, IInv, Listed
<1>1. ListInv' /\ Linked' = Linked
  BY ListKept
<1>2. /\ pc'[w] \in {"pop", "release"} /\ pc[w] = "grab"
      /\ q' = q /\ nq' = nq /\ q[w] \in Queue
      /\ \A v \in Worker \ {w} : pc'[v] = pc[v] /\ ctx'[v] = ctx[v]
  BY DEF Typed, TypeOK
<1>3. \A v \in Worker : Hand(v)' = Hand(v)
  BY <1>2, OthersHand DEF Hand
<1>4. Typed'
  BY <1>1, <1>2
  DEF ListInv, Typed, TypeOK, Labels, creation, mail, list, Freed
<1>5. Flagged'
  BY <1>1, <1>3 DEF Flagged, Typed, TypeOK, creation, mail
<1>6. ASSUME Whole' PROVE Sane'
  <2>1. Sane
    BY <1>6 DEF Whole, creation
  <2>2. q[w] \in Hand(w) /\ q[w] \in table /\ Reachable(q[w])
    BY <1>2, <1>6, <2>1 DEF Hand, Sane, Whole, Reachable, creation
  <2>3. ~ broken' /\ pc'[w] = "pop" /\ ctx'[w] = q[w]
    BY <2>2, TabledNotFreed DEF Typed, TypeOK
  <2> QED BY <1>1, <1>2, <1>3, <2>1, <2>3 DEF Sane, Typed, TypeOK, creation, mail
<1> QED BY <1>1, <1>4, <1>5, <1>6

LEMMA ReleaseOrphanInv ==
  ASSUME IInv, ~ broken, NEW w \in Worker, ReleaseOrphan(w)
  PROVE  IInv'
<1> USE DEF ReleaseOrphan, Goto, IInv, Listed
<1>1. q[w] \in Queue
  BY DEF Typed
<1>2. /\ Listed' /\ broken' \in BOOLEAN /\ Linked \subseteq Linked'
  BY <1>1, GlobalPushList DEF Typed, TypeOK
<1>3. /\ pc'[w] = "pop" /\ pc[w] = "release" /\ q' = q /\ nq' = nq
      /\ \A v \in Worker \ {w} : pc'[v] = pc[v]
  BY DEF Typed, TypeOK
<1>4. \A v \in Worker : Hand(v)' = Hand(v)
  BY <1>3, OthersHand DEF Hand
<1>5. Typed'
  BY <1>2, <1>3 DEF ListInv, Typed, TypeOK, Labels, creation, mail
<1>6. Flagged'
  BY <1>2, <1>4 DEF Flagged, Typed, TypeOK, creation, mail
<1>7. ~ Whole'
  BY DEF Whole, Sane, creation
<1> QED BY <1>2, <1>5, <1>6, <1>7

LEMMA MqPopMessageInv ==
  ASSUME IInv, ~ broken, NEW w \in Worker, MqPopMessage(w)
  PROVE  IInv'
<1> USE DEF MqPopMessage, Goto, IInv, Listed
<1>1. ListInv' /\ Linked' = Linked
  BY ListKept
<1>2. /\ pc'[w] = "call" /\ pc[w] = "pop" /\ q' = q /\ nq' = nq /\ q[w] \in Queue
      /\ \A v \in Worker \ {w} : pc'[v] = pc[v]
  BY DEF Typed, TypeOK
<1>3. \A v \in Worker : Hand(v)' = Hand(v)
  BY <1>2, OthersHand DEF Hand
<1>4. Typed'
  <2>1. count' \in [Queue -> Nat]
    BY <1>2 DEF Typed, TypeOK
  <2> QED BY <1>1, <1>2, <2>1
          DEF ListInv, Typed, TypeOK, Labels, creation, list, Freed
<1>5. Flagged'
  BY <1>1, <1>2, <1>3 DEF Flagged, Typed, TypeOK, creation
<1>6. ASSUME Whole' PROVE Sane'
  <2>1. Sane
    BY <1>6 DEF Whole, creation
  <2>2. q[w] \in Hand(w) /\ q[w] \in table /\ ctx[w] = q[w]
    BY <1>2, <2>1 DEF Hand, Sane
  <2>3. ~ broken'
    BY <1>2, <2>2, TabledNotFreed, NullAssumption
  <2> QED BY <1>1, <1>2, <1>3, <2>1, <2>2, <2>3
          DEF Sane, Typed, TypeOK, creation
<1> QED BY <1>1, <1>4, <1>5, <1>6

LEMMA MqPopEmptyInv ==
  ASSUME IInv, ~ broken, NEW w \in Worker, MqPopEmpty(w)
  PROVE  IInv'
<1> USE DEF MqPopEmpty, Goto, IInv, Listed
<1>1. ListInv' /\ Linked' = Linked
  BY ListKept
<1>2. /\ pc'[w] = "fetch" /\ pc[w] = "pop" /\ q' = q /\ nq' = nq /\ q[w] \in Queue
      /\ \A v \in Worker \ {w} : pc'[v] = pc[v]
      /\ ~ in_global'[q[w]]
      /\ \A c \in Queue : c # q[w] => in_global'[c] = in_global[c]
  BY DEF Typed, TypeOK
<1>3. /\ \A v \in Worker \ {w} : Hand(v)' = Hand(v)
      /\ Hand(w) = {q[w]} /\ Hand(w)' = {}
  BY <1>2, OthersHand DEF Hand
<1>4. Typed'
  BY <1>1, <1>2 DEF ListInv, Typed, TypeOK, Labels, creation, list, Freed
<1>5. Flagged'
  BY <1>1, <1>2, <1>3 DEF Flagged, Typed, TypeOK, creation
<1>6. ASSUME Whole' PROVE Sane'
  <2>1. Sane
    BY <1>6 DEF Whole, creation
  <2>2. /\ q[w] \in table /\ stage[q[w]] = "live" /\ q[w] \notin Linked
        /\ \A v \in Worker \ {w} : q[w] \notin Hand(v)
    BY <1>2, <1>3, <2>1 DEF Sane
  <2>3. ~ broken'
    BY <1>2, <2>2, TabledNotFreed
  <2> QED BY <1>1, <1>2, <1>3, <2>1, <2>2, <2>3
          DEF Sane, Typed, TypeOK, creation
<1> QED BY <1>1, <1>4, <1>5, <1>6

LEMMA FetchInv ==
  ASSUME IInv, ~ broken, NEW w \in Worker, Fetch(w)
  PROVE  IInv'
<1> USE DEF Fetch, Goto, IInv, Listed
<1>1. /\ pc[w] = "fetch" /\ q'[w] = head /\ nq' = nq
      /\ pc'[w] = IF head = Null THEN "idle" ELSE "grab"
      /\ \A v \in Worker \ {w} : /\ pc'[v] = pc[v] /\ q'[v] = q[v]
                                 /\ ctx'[v] = ctx[v]
  BY DEF Typed, TypeOK
<1>2. CASE head = Null
  <2>1. ListInv' /\ Linked' = Linked /\ broken' = broken
    BY <1>2, ListKept
  <2>2. \A v \in Worker : Hand(v)' = Hand(v)
    BY <1>1, <1>2, OthersHand DEF Hand
  <2>3. Typed'
    BY <1>1, <1>2, <2>1 DEF ListInv, Typed, TypeOK, Labels, creation, mail
  <2>4. Flagged'
    BY <2>1, <2>2 DEF Flagged, Typed, TypeOK, creation, mail
  <2>5. ASSUME Whole' PROVE Sane'
    <3>1. Sane
      BY <2>5 DEF Whole, creation
    <3> QED BY <1>1, <1>2, <2>1, <2>2, <3>1 DEF Sane, Typed, TypeOK, creation, mail
  <2> QED BY <2>1, <2>3, <2>4, <2>5
<1>3. CASE head # Null
  <2>1. /\ Listed' /\ broken' \in BOOLEAN
        /\ head \in Queue /\ head \in Linked
        /\ Linked \ {head} \subseteq Linked' /\ Linked' \subseteq Linked
    BY <1>3, GlobalPopList DEF Typed, TypeOK
  <2>2. /\ \A v \in Worker \ {w} : Hand(v)' = Hand(v)
        /\ Hand(w) = {} /\ Hand(w)' = {head}
    BY <1>1, <1>3, <2>1, OthersHand DEF Hand
  <2>3. Typed'
    BY <1>1, <1>3, <2>1 DEF ListInv, Typed, TypeOK, Labels, creation, mail
  <2>4. Flagged'
    BY <2>1, <2>2 DEF Flagged, Typed, TypeOK, creation, mail
  <2>5. ASSUME Whole' PROVE Sane'
    <3>1. Sane
      BY <2>5 DEF Whole, creation
    <3>2. ~ broken' /\ Linked' = Linked \ {head}
      BY <1>3, <3>1, GlobalPopSane
    <3> QED BY <1>1, <1>3, <2>1, <2>2, <3>1, <3>2
            DEF Sane, Typed, TypeOK, creation, mail
  <2> QED BY <2>1, <2>3, <2>4, <2>5
<1> QED BY <1>2, <1>3

LEMMA ReturnInv ==
  ASSUME IInv, ~ broken, NEW w \in Worker, Return(w)
  PROVE  IInv'
<1> USE DEF Return, Goto, IInv, Listed
<1>1. ListInv' /\ Linked' = Linked
  BY ListKept
<1>2. /\ pc'[w] \in {"pop", "yield"} /\ pc[w] = "call" /\ q' = q /\ nq' = nq
      /\ \A v \in Worker \ {w} : pc'[v] = pc[v]
  BY DEF Typed, TypeOK
<1>3. \A v \in Worker : Hand(v)' = Hand(v)
  BY <1>2, OthersHand DEF Hand
<1>4. Typed'
  BY <1>1, <1>2 DEF ListInv, Typed, TypeOK, Labels, creation, mail, list
<1>5. Flagged'
  BY <1>1, <1>3 DEF Flagged, Typed, TypeOK, creation, mail
<1>6. ASSUME Whole' PROVE Sane'
  <2>1. Sane
    BY <1>6 DEF Whole, creation
  <2> QED BY <1>1, <1>2, <1>3, <2>1 DEF Sane, Typed, TypeOK, creation, mail
<1> QED BY <1>1, <1>4, <1>5, <1>6

LEMMA YieldInv ==
  ASSUME IInv, ~ broken, NEW w \in Worker, Yield(w)
  PROVE  IInv'
<1> USE DEF Yield, Goto, IInv, Listed
<1>1. pc[w] = "yield" /\ q' = q /\ q[w] \in Queue
  BY DEF Typed
<1>2. CASE head = Null
  <2>1. ListInv' /\ Linked' = Linked /\ broken' = broken
    BY <1>2, ListKept
  <2>2. /\ pc'[w] = "grab" /\ nq' = nq
        /\ \A v \in Worker \ {w} : pc'[v] = pc[v] /\ ctx'[v] = ctx[v]
    BY <1>2 DEF Typed, TypeOK
  <2>3. \A v \in Worker : Hand(v)' = Hand(v)
    BY <1>1, <2>2, OthersHand DEF Hand
  <2>4. Typed'
    BY <1>1, <1>2, <2>1, <2>2 DEF ListInv, Typed, TypeOK, Labels, creation, mail
  <2>5. Flagged'
    BY <2>1, <2>3 DEF Flagged, Typed, TypeOK, creation, mail
  <2>6. ASSUME Whole' PROVE Sane'
    <3>1. Sane
      BY <2>6 DEF Whole, creation
    <3> QED BY <1>1, <2>1, <2>2, <2>3, <3>1 DEF Sane, Typed, TypeOK, creation, mail
  <2> QED BY <2>1, <2>4, <2>5, <2>6
<1>3. CASE head # Null
  <2>1. /\ Listed' /\ broken' \in BOOLEAN
        /\ head \in Queue /\ head \in Linked
        /\ Linked \ {head} \subseteq Linked' /\ Linked' \subseteq Linked
    BY <1>3, GlobalPopList DEF Typed, TypeOK
  <2>2. /\ pc'[w] = "requeue" /\ nq'[w] = head /\ ctx' = ctx
        /\ \A v \in Worker \ {w} : pc'[v] = pc[v] /\ nq'[v] = nq[v]
    BY <1>3 DEF Typed, TypeOK
  <2>3. /\ \A v \in Worker \ {w} : Hand(v)' = Hand(v)
        /\ Hand(w) = {q[w]} /\ Hand(w)' = {q[w], head}
    BY <1>1, <2>1, <2>2, OthersHand DEF Hand
  <2>4. Typed'
    BY <1>1, <1>3, <2>1, <2>2 DEF ListInv, Typed, TypeOK, Labels, creation, mail
  <2>5. Flagged'
    BY <2>1, <2>3 DEF Flagged, Typed, TypeOK, creation, mail
  <2>6. ASSUME Whole' PROVE Sane'
    <3>1. Sane
      BY <2>6 DEF Whole, creation
    <3>2. ~ broken' /\ Linked' = Linked \ {head}
      BY <1>3, <3>1, GlobalPopSane
    <3>3. \A v \in Worker : head \notin Hand(v)
      BY <2>1, <3>1 DEF Sane
    <3> QED BY <1>1, <2>1, <2>2, <2>3, <3>1, <3>2, <3>3
            DEF Sane, Typed, TypeOK, creation, mail
  <2> QED BY <2>1, <2>4, <2>5, <2>6
<1> QED BY <1>2, <1>3

LEMMA RequeueInv ==
  ASSUME IInv, ~ broken, NEW w \in Worker, Requeue(w)
  PROVE  IInv'
<1> USE DEF Requeue, Goto, IInv, Listed
<1>1. /\ pc[w] = "requeue" /\ pc'[w] = "grab"
      /\ q[w] \in Queue /\ nq[w] \in Queue /\ q'[w] = nq[w]
      /\ \A v \in Worker \ {w} : /\ pc'[v] = pc[v] /\ q'[v] = q[v]
                                 /\ nq'[v] = nq[v] /\ ctx'[v] = ctx[v]
  BY DEF Typed, TypeOK
<1>2. /\ Listed' /\ broken' \in BOOLEAN
      /\ Linked \subseteq Linked' /\ Linked' \subseteq Linked \cup {q[w]}
      /\ ~ broken' => q[w] \in Linked'
  BY <1>1, GlobalPushList DEF Typed, TypeOK
<1>3. /\ \A v \in Worker \ {w} : Hand(v)' = Hand(v)
      /\ Hand(w) = {q[w], nq[w]} /\ Hand(w)' = {nq[w]}
  BY <1>1, OthersHand DEF Hand
<1>4. Typed'
  BY <1>1, <1>2 DEF ListInv, Typed, TypeOK, Labels, creation, mail
<1>5. Flagged'
  BY <1>2, <1>3 DEF Flagged, Typed, TypeOK, creation, mail
<1>6. ASSUME Whole' PROVE Sane'
  <2>1. Sane
    BY <1>6 DEF Whole, creation
  <2>2. /\ q[w] \in table /\ q[w] \notin Linked /\ q[w] # nq[w]
        /\ stage[q[w]] = "live" /\ in_global[q[w]]
        /\ \A v \in Worker \ {w} : q[w] \notin Hand(v)
    BY <1>1, <1>3, <2>1 DEF Sane
  <2>3. ~ broken' /\ Linked' = Linked \cup {q[w]}
    BY <1>1, <2>1, <2>2, GlobalPushSane
  <2> QED BY <1>1, <1>3, <2>1, <2>2, <2>3
          DEF Sane, Typed, TypeOK, creation, mail
<1> QED BY <1>2, <1>4, <1>5, <1>6

-----------------------------------------------------------------------------
LEMMA StepInv == IInv /\ [Next]_vars => IInv'
<1> SUFFICES ASSUME IInv, [Next]_vars PROVE IInv'
  OBVIOUS
<1>1. ASSUME NEW c \in Queue, ~ broken, CreateStep(c) PROVE IInv'
  BY <1>1, CreateInv, LaunchInv, InitFailsInv, HandleRetireInv, MqReleaseInv,
     ForgetInv
  DEF CreateStep
<1>2. ASSUME NEW w \in Worker, ~ broken, WorkerStep(w) PROVE IInv'
  BY <1>2, TakeInv, GrabContextInv, ReleaseOrphanInv, MqPopMessageInv,
     MqPopEmptyInv, FetchInv, ReturnInv, YieldInv, RequeueInv
  DEF WorkerStep
<1>3. CASE UNCHANGED vars
  <2>1. Listed' /\ Linked' = Linked
    BY <1>3 DEF vars, list, IInv, Listed, ListInv, ListTypeOK, ListIsSequence,
                AssertionsHold, Linked
  <2>2. \A w \in Worker : Hand(w)' = Hand(w)
    BY <1>3 DEF Hand, vars, worker
  <2>3. Typed' /\ Flagged'
    BY <1>3, <2>1, <2>2
    DEF IInv, Listed, ListInv, Typed, TypeOK, Flagged, vars, list, creation, mail, worker
  <2>4. Whole' => Sane'
    BY <1>3, <2>1, <2>2
    DEF IInv, Whole, Sane, vars, creation, mail, worker
  <2> QED BY <2>1, <2>3, <2>4 DEF IInv
<1> QED BY <1>1, <1>2, <1>3, HandleGrabInv, MqPushInv DEF Next

LEMMA InvAlways == Spec => []IInv
<1> QED BY InitInv, StepInv, PTL DEF Spec

(* The variables keep their types, and as long as every init succeeds and  *)
(* every context is found the fields of global_queue and the next pointers *)
(* spell out a sequence without a repetition: no queue is linked while it  *)
(* is linked or in a worker's hands.                                       *)
THEOREM ContextListCorrect == Spec => [](TypeOK /\ ListWhileWhole)
<1>1. IInv => TypeOK /\ ListWhileWhole
  BY DEF IInv, Listed, ListInv, Typed, Sane, ListWhileWhole
<1> QED BY <1>1, InvAlways, PTL

(* As long as every init succeeds and every context is found, no thread    *)
(* uses a freed queue or a null context, or links a queue twice.           *)
THEOREM SoundUnlessLost == Spec => []SoundWhileWhole
<1>1. IInv => SoundWhileWhole
  BY DEF IInv, Sane, SoundWhileWhole
<1> QED BY <1>1, InvAlways, PTL

(* A live service that can be reached and has messages is in the global    *)
(* queue or in a worker's hands, whatever other services came to.          *)
THEOREM NoneStranded == Spec => []LiveNotStranded
<1>1. IInv => LiveNotStranded
  <2> SUFFICES ASSUME IInv, NEW c \in Queue, stage[c] = "live",
                      count[c] > 0, ~ broken
               PROVE  c \in Linked \/ \E w \in Worker : c \in {q[w], nq[w]}
    BY DEF LiveNotStranded
  <2>1. in_global[c]
    BY DEF IInv, Flagged
  <2>2. c \in Linked \/ \E w \in Worker : c \in Hand(w)
    BY <2>1 DEF IInv, Flagged
  <2> QED BY <2>2 DEF Hand
<1> QED BY <1>1, InvAlways, PTL
=============================================================================
