------------------------- MODULE MessageQueueProofs -------------------------
(***************************************************************************)
(* What mq_push and mq_pop do to the ring, for every size of the array, and *)
(* what the overload loop of mq_pop makes of the threshold.                *)
(***************************************************************************)
EXTENDS MessageQueue, WellFoundedInduction, TLAPS

(* A new queue is a ring with nothing in it (message_queue's constructor). *)
LEMMA NewRingOK ==
  ASSUME NEW Msg, NoMsg \notin Msg
  PROVE  RingOK(NewRing, Msg) /\ IsEmpty(NewRing)
BY QueueSizeAssumption DEF RingOK, NewRing, IsEmpty, Occupied

(* length() never wraps below zero, and is zero only on an empty ring.     *)
LEMMA LengthNat ==
  ASSUME NEW Msg, NEW r, RingOK(r, Msg)
  PROVE  Length(r) \in Nat /\ (Length(r) = 0 <=> IsEmpty(r))
BY DEF RingOK, Length, IsEmpty

(* mq_push keeps the ring in order and writes the slot at tail, which held *)
(* no message, with and without growth; the other messages stay.           *)
LEMMA PushRing ==
  ASSUME NEW Msg, NoMsg \notin Msg, NEW r, RingOK(r, Msg), NEW m \in Msg
  PROVE  /\ RingOK(Push(r, m), Msg)
         /\ ~ IsEmpty(Push(r, m))
         /\ r.tail \notin Occupied(r)
         /\ Occupied(Push(r, m)) = Occupied(r) \cup {r.tail}
         /\ Push(r, m).buf[r.tail] = m
         /\ \A i \in Occupied(r) : Push(r, m).buf[i] = r.buf[i]
<1> DEFINE buf  == [r.buf EXCEPT ![r.tail] = m]
           tail == After(r.tail, r.cap)
<1>1. /\ r.cap \in Nat \ {0, 1}
      /\ r.head \in 0 .. r.cap - 1
      /\ r.tail \in 0 .. r.cap - 1
      /\ r.buf \in [0 .. r.cap - 1 -> Msg \cup {NoMsg}]
      /\ \A i \in 0 .. r.cap - 1 : i \in Occupied(r) <=> r.buf[i] # NoMsg
  BY DEF RingOK
<1>2. /\ buf \in [0 .. r.cap - 1 -> Msg \cup {NoMsg}]
      /\ buf[r.tail] = m
      /\ \A i \in 0 .. r.cap - 1 : i # r.tail => buf[i] = r.buf[i]
  BY <1>1
<1>3. r.tail \notin Occupied(r) /\ Occupied(r) \subseteq 0 .. r.cap - 1
  BY <1>1 DEF Occupied
<1>4. CASE r.head = tail
  <2> DEFINE g == Grow(buf, r.cap)
  <2>1. Push(r, m) = g
    BY <1>4 DEF Push
  <2>2. /\ g.cap = 2 * r.cap
        /\ g.head = 0
        /\ g.tail = r.cap
        /\ g.buf = [i \in 0 .. 2 * r.cap - 1 |->
                      IF i < r.cap THEN buf[i] ELSE NoMsg]
    BY DEF Grow
  <2>3. Occupied(g) = 0 .. r.cap - 1
    BY <2>2, <1>1 DEF Occupied
  <2>4. Occupied(r) = (0 .. r.cap - 1) \ {r.tail}
    BY <1>1, <1>4 DEF Occupied, After
  <2> HIDE DEF g, buf, tail
  <2>5. g.buf \in [0 .. 2 * r.cap - 1 -> Msg \cup {NoMsg}]
    <3>1. \A i \in 0 .. 2 * r.cap - 1 : i < r.cap => i \in 0 .. r.cap - 1
      BY <1>1
    <3> QED BY <2>2, <3>1, <1>2
  <2>6. \A i \in 0 .. 2 * r.cap - 1 : i \in Occupied(g) <=> g.buf[i] # NoMsg
    <3> SUFFICES ASSUME NEW i \in 0 .. 2 * r.cap - 1
                 PROVE  i \in Occupied(g) <=> g.buf[i] # NoMsg
      OBVIOUS
    <3>1. CASE i < r.cap
      <4>1. g.buf[i] = buf[i] /\ i \in 0 .. r.cap - 1
        BY <3>1, <2>2, <1>1
      <4>2. buf[i] # NoMsg
        BY <4>1, <1>1, <1>2, <2>4
      <4> QED BY <4>1, <4>2, <2>3
    <3>2. CASE ~ (i < r.cap)
      BY <3>2, <2>2, <2>3, <1>1
    <3> QED BY <3>1, <3>2
  <2>7. RingOK(g, Msg) /\ ~ IsEmpty(g)
    <3>1. /\ g.cap \in Nat \ {0, 1}
          /\ g.head \in 0 .. g.cap - 1
          /\ g.tail \in 0 .. g.cap - 1
          /\ g.head # g.tail
      BY <2>2, <1>1
    <3>2. /\ g.buf \in [0 .. g.cap - 1 -> Msg \cup {NoMsg}]
          /\ \A i \in 0 .. g.cap - 1 : i \in Occupied(g) <=> g.buf[i] # NoMsg
      <4>1. g.cap = 2 * r.cap
        BY <2>2
      <4> QED BY <4>1, <2>5, <2>6
    <3> QED BY <3>1, <3>2 DEF RingOK, IsEmpty
  <2>8. /\ g.buf[r.tail] = m
        /\ \A i \in Occupied(r) : g.buf[i] = r.buf[i]
    BY <2>2, <2>4, <1>1, <1>2
  <2> QED BY <2>1, <2>3, <2>4, <2>7, <2>8, <1>1, <1>3
<1>5. CASE r.head # tail
  <2> DEFINE g == [buf |-> buf, cap |-> r.cap, head |-> r.head, tail |-> tail]
  <2>1. Push(r, m) = g
    BY <1>5 DEF Push
  <2>2. g.cap = r.cap /\ g.head = r.head /\ g.tail = tail /\ g.buf = buf
    OBVIOUS
  <2>3. tail \in 0 .. r.cap - 1
    BY <1>1 DEF After
  <2>4. Occupied(g) = Occupied(r) \cup {r.tail}
    BY <2>2, <1>1, <1>5 DEF Occupied, After
  <2>5. RingOK(g, Msg)
    BY <2>2, <2>3, <2>4, <1>1, <1>2, <1>3 DEF RingOK
  <2>6. \A i \in Occupied(r) : g.buf[i] = r.buf[i]
    BY <2>2, <1>2, <1>3
  <2> QED BY <2>1, <2>2, <2>4, <2>5, <2>6, <1>2, <1>3, <1>5 DEF IsEmpty
<1> QED BY <1>4, <1>5

(* mq_pop takes the message at head out of the ring and nothing else.      *)
LEMMA PopRing ==
  ASSUME NEW Msg, NoMsg \notin Msg, NEW r, RingOK(r, Msg), ~ IsEmpty(r)
  PROVE  /\ RingOK(Pop(r), Msg)
         /\ First(r) \in Msg
         /\ r.head \in Occupied(r)
         /\ Occupied(Pop(r)) = Occupied(r) \ {r.head}
         /\ \A i \in Occupied(Pop(r)) : Pop(r).buf[i] = r.buf[i]
<1> DEFINE buf == [r.buf EXCEPT ![r.head] = NoMsg]
           g   == Pop(r)
<1>1. /\ r.cap \in Nat \ {0, 1}
      /\ r.head \in 0 .. r.cap - 1
      /\ r.tail \in 0 .. r.cap - 1
      /\ r.buf \in [0 .. r.cap - 1 -> Msg \cup {NoMsg}]
      /\ \A i \in 0 .. r.cap - 1 : i \in Occupied(r) <=> r.buf[i] # NoMsg
      /\ r.head # r.tail
  BY DEF RingOK, IsEmpty
<1>2. /\ g.buf = buf
      /\ g.cap = r.cap
      /\ g.head = After(r.head, r.cap)
      /\ g.tail = r.tail
  BY DEF Pop
<1>3. r.head \in Occupied(r) /\ Occupied(r) \subseteq 0 .. r.cap - 1
  BY <1>1 DEF Occupied
<1>4. Occupied(g) = Occupied(r) \ {r.head}
  BY <1>1, <1>2 DEF Occupied, After
<1>5. g.head \in 0 .. r.cap - 1
  BY <1>1, <1>2 DEF After
<1>6. /\ buf \in [0 .. r.cap - 1 -> Msg \cup {NoMsg}]
      /\ buf[r.head] = NoMsg
      /\ \A i \in 0 .. r.cap - 1 : i # r.head => buf[i] = r.buf[i]
  BY <1>1
<1>7. RingOK(g, Msg)
  BY <1>1, <1>2, <1>3, <1>4, <1>5, <1>6 DEF RingOK
<1>8. First(r) \in Msg
  BY <1>1, <1>3 DEF First
<1> QED BY <1>2, <1>3, <1>4, <1>6, <1>7, <1>8

(* The place in the order of reading of a slot that is in use.             *)
Rank(r, i) == IF r.head <= i THEN i - r.head ELSE i + r.cap - r.head

(* mq_push makes the ring longer by one and, unless it grows the array,    *)
(* puts the new message behind all others.                                 *)
LEMMA PushOrder ==
  ASSUME NEW Msg, NEW r, RingOK(r, Msg), NEW m
  PROVE  /\ Length(Push(r, m)) = Length(r) + 1
         /\ Push(r, m).cap \in {r.cap, 2 * r.cap}
         /\ Push(r, m).cap = r.cap =>
              \A i \in Occupied(r) :
                /\ Rank(Push(r, m), i) = Rank(r, i)
                /\ Rank(r, i) < Rank(Push(r, m), r.tail)
<1> DEFINE buf  == [r.buf EXCEPT ![r.tail] = m]
           tail == After(r.tail, r.cap)
<1>1. /\ r.cap \in Nat \ {0, 1}
      /\ r.head \in 0 .. r.cap - 1
      /\ r.tail \in 0 .. r.cap - 1
  BY DEF RingOK
<1>2. CASE r.head = tail
  <2>1. /\ Push(r, m).cap = 2 * r.cap
        /\ Push(r, m).head = 0
        /\ Push(r, m).tail = r.cap
    BY <1>2 DEF Push, Grow
  <2>2. Length(Push(r, m)) = r.cap
    BY <1>1, <2>1 DEF Length
  <2>3. Length(r) = r.cap - 1
    BY <1>1, <1>2 DEF Length, After
  <2> QED BY <1>1, <2>1, <2>2, <2>3
<1>3. CASE r.head # tail
  <2>1. /\ Push(r, m).cap = r.cap
        /\ Push(r, m).head = r.head
        /\ Push(r, m).tail = tail
    BY <1>3 DEF Push
  <2>2. Length(Push(r, m)) = Length(r) + 1
    BY <1>1, <1>3, <2>1 DEF Length, After
  <2>3. \A i \in Occupied(r) : /\ Rank(Push(r, m), i) = Rank(r, i)
                               /\ Rank(r, i) < Rank(Push(r, m), r.tail)
    BY <1>1, <2>1 DEF Rank, Occupied
  <2> QED BY <2>1, <2>2, <2>3
<1> QED BY <1>2, <1>3

(* mq_pop makes it shorter by one, takes the first in the order, and keeps *)
(* the order of the others.                                                *)
LEMMA PopOrder ==
  ASSUME NEW Msg, NEW r, RingOK(r, Msg), ~ IsEmpty(r)
  PROVE  /\ Length(Pop(r)) = Length(r) - 1
         /\ Pop(r).cap = r.cap
         /\ \A i \in Occupied(r) \ {r.head} :
              /\ Rank(r, r.head) < Rank(r, i)
              /\ Rank(Pop(r), i) = Rank(r, i) - 1
<1>1. /\ r.cap \in Nat \ {0, 1}
      /\ r.head \in 0 .. r.cap - 1
      /\ r.tail \in 0 .. r.cap - 1
      /\ r.head # r.tail
  BY DEF RingOK, IsEmpty
<1>2. /\ Pop(r).cap = r.cap
      /\ Pop(r).head = After(r.head, r.cap)
      /\ Pop(r).tail = r.tail
  BY DEF Pop
<1>3. Length(Pop(r)) = Length(r) - 1
  BY <1>1, <1>2 DEF Length, After
<1>4. \A i \in Occupied(r) \ {r.head} : /\ Rank(r, r.head) < Rank(r, i)
                                        /\ Rank(Pop(r), i) = Rank(r, i) - 1
  BY <1>1, <1>2 DEF Rank, Occupied, After
<1> QED BY <1>2, <1>3, <1>4

-----------------------------------------------------------------------------
(* Induction on the natural numbers, for a set of them: they are well      *)
(* ordered.                                                                *)
LEMMA InductionBySet ==
  ASSUME NEW S, 0 \in S, \A n \in Nat : n \in S => n + 1 \in S
  PROVE  Nat \subseteq S
<1> DEFINE T == Nat \ S
           R == OpToRel(<, Nat)
<1>1. IsWellFoundedOn(R, Nat)
  BY NatLessThanWellFounded
<1>2. \A x, y \in Nat : x < y => <<x, y>> \in R
  BY DEF OpToRel
<1> HIDE DEF R
<1>3. SUFFICES ASSUME T # {} PROVE FALSE
  OBVIOUS
<1>4. PICK x \in T : \A y \in T : ~ <<y, x>> \in R
  <2>1. T \subseteq Nat
    OBVIOUS
  <2> HIDE DEF T
  <2> QED BY <1>1, <1>3, <2>1, WFMin
<1>5. x \in Nat /\ x # 0
  OBVIOUS
<1>6. x - 1 \in Nat /\ x - 1 < x /\ (x - 1) + 1 = x
  BY <1>5
<1> QED BY <1>2, <1>4, <1>5, <1>6

(* The loop of mq_pop, as the equation of the function in Raised.          *)
Loop(g, length) == g = [t \in Nat |-> IF length > t THEN g[2 * t] ELSE t]

LEMMA RaisedIsLoop ==
  ASSUME NEW t \in Nat, NEW l \in Nat, \E g : Loop(g, l)
  PROVE  \E g : Loop(g, l) /\ Raised(t, l) = g[t]
BY DEF Raised, Loop

(* g does what the loop does to the thresholds from l - n on.              *)
LoopFrom(g, l, n) ==
  \A t \in Nat : t + n >= l => g[t] = IF l > t THEN g[2 * t] ELSE t

(* The loop ends for every threshold, except that 0 would never reach l.   *)
LEMMA LoopExists ==
  ASSUME NEW l \in Nat
  PROVE  \E g : Loop(g, l)
<1> DEFINE S == {n \in Nat : \E g \in [Nat -> Nat] : LoopFrom(g, l, n)}
<1>1. 0 \in S
  <2> DEFINE g == [t \in Nat |-> t]
  <2>1. g \in [Nat -> Nat] /\ LoopFrom(g, l, 0)
    BY DEF LoopFrom
  <2> HIDE DEF g
  <2> QED BY <2>1
<1>2. ASSUME NEW n \in Nat, n \in S PROVE n + 1 \in S
  <2>1. PICK g \in [Nat -> Nat] : LoopFrom(g, l, n)
    BY <1>2
  <2>2. CASE l - (n + 1) <= 0
    <3>1. \A t \in Nat : t + (n + 1) >= l => t + n >= l \/ t = 0
      BY <2>2
    <3>2. 2 * 0 = 0
      OBVIOUS
    <3>3. \A t \in Nat : t + (n + 1) >= l => g[t] = IF l > t THEN g[2 * t] ELSE t
      BY <2>1, <3>1, <3>2 DEF LoopFrom
    <3> QED BY <2>1, <3>3 DEF LoopFrom
  <2>3. CASE l - (n + 1) > 0
    <3> DEFINE u == l - (n + 1)
               f == [g EXCEPT ![u] = g[2 * u]]
    <3>1. u \in Nat \ {0} /\ 2 * u \in Nat /\ 2 * u # u /\ l > u
      BY <2>3
    <3> HIDE DEF u
    <3>2. f \in [Nat -> Nat] /\ f[u] = g[2 * u] /\ \A t \in Nat : t # u => f[t] = g[t]
      BY <3>1
    <3> HIDE DEF f
    <3>3. ASSUME NEW t \in Nat, t + (n + 1) >= l
          PROVE  f[t] = IF l > t THEN f[2 * t] ELSE t
      <4>1. CASE t = u
        BY <3>1, <3>2, <4>1
      <4>2. CASE t # u
        <5>1. t + n >= l
          BY <3>3, <4>2 DEF u
        <5>2. 2 * t \in Nat /\ 2 * t # u
          BY <3>1, <3>3, <4>2 DEF u
        <5> QED BY <2>1, <3>2, <4>2, <5>1, <5>2 DEF LoopFrom
      <4> QED BY <4>1, <4>2
    <3> QED BY <3>2, <3>3 DEF LoopFrom
  <2> QED BY <2>2, <2>3
<1>3. l \in S
  <2> HIDE DEF S
  <2> QED BY <1>1, <1>2, InductionBySet
<1>4. PICK g \in [Nat -> Nat] : LoopFrom(g, l, l)
  BY <1>3
<1>5. g = [t \in Nat |-> IF l > t THEN g[2 * t] ELSE t]
  BY <1>4 DEF LoopFrom
<1> QED BY <1>5 DEF Loop

LEMMA LoopBounds ==
  ASSUME NEW l \in Nat, NEW g, Loop(g, l), NEW t \in Nat \ {0}
  PROVE  /\ l <= t => g[t] = t
         /\ l > t => g[t] \in l .. 2 * l - 1
<1>1. \A u \in Nat : g[u] = IF l > u THEN g[2 * u] ELSE u
  BY DEF Loop
<1> DEFINE S == {n \in Nat : \A u \in 1 .. l - 1 : u + n >= l => g[u] \in l .. 2 * l - 1}
<1>2. 0 \in S
  OBVIOUS
<1>3. ASSUME NEW n \in Nat, n \in S PROVE n + 1 \in S
  <2> SUFFICES ASSUME NEW u \in 1 .. l - 1, u + (n + 1) >= l
               PROVE  g[u] \in l .. 2 * l - 1
    OBVIOUS
  <2>1. u \in Nat /\ l > u /\ 2 * u \in Nat
    OBVIOUS
  <2>2. g[u] = g[2 * u]
    BY <1>1, <2>1
  <2>3. CASE 2 * u >= l
    <3>1. g[2 * u] = 2 * u
      BY <1>1, <2>1, <2>3
    <3> QED BY <2>2, <2>3, <3>1
  <2>4. CASE 2 * u < l
    <3>1. 2 * u \in 1 .. l - 1 /\ 2 * u + n >= l
      BY <2>4
    <3> QED BY <1>3, <2>2, <3>1
  <2> QED BY <2>3, <2>4
<1>4. l \in S
  <2> HIDE DEF S
  <2> QED BY <1>2, <1>3, InductionBySet
<1>5. CASE l > t
  <2>1. t \in 1 .. l - 1 /\ t + l >= l
    BY <1>5
  <2> QED BY <1>4, <1>5, <2>1
<1>6. CASE l <= t
  BY <1>1, <1>6
<1> QED BY <1>5, <1>6

(* The threshold is left alone if it is large enough, otherwise it ends up *)
(* at the length or above, but below its double.                           *)
LEMMA RaisedFacts ==
  ASSUME NEW l \in Nat, NEW t \in Nat \ {0}
  PROVE  /\ l <= t => Raised(t, l) = t
         /\ l > t => Raised(t, l) \in l .. 2 * l - 1
<1>1. PICK g : Loop(g, l) /\ Raised(t, l) = g[t]
  BY LoopExists, RaisedIsLoop
<1> QED BY <1>1, LoopBounds
=============================================================================
