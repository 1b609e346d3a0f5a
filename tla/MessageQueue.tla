---------------------------- MODULE MessageQueue ----------------------------
(***************************************************************************)
(* The ring buffer inside cpp_sk::message_queue (cpp_sk.h, cpp_sk.cpp), as *)
(* operators on a record [buf, cap, head, tail].  Every operation of the   *)
(* class runs under the queue's spinlock, so each operator is one atomic   *)
(* step of the thread that calls it.                                       *)
(*                                                                         *)
(* The class reads slots head, head+1, ... up to but excluding tail,       *)
(* modulo cap; head = tail means empty.  buf is the std::deque the class   *)
(* uses as its array, cap its size().  A slot whose message has been moved *)
(* out holds NoMsg.                                                        *)
(***************************************************************************)
EXTENDS Integers, Sequences

CONSTANTS
  DEFAULT_QUEUE_SIZE,  (* slots of a new queue: 64 in the code              *)
  MQ_OVERLOAD,         (* first length that is reported: 1024 in the code   *)
  NoMsg                (* the content of a slot that holds no message       *)

ASSUME QueueSizeAssumption == DEFAULT_QUEUE_SIZE \in Nat \ {0, 1}
ASSUME OverloadAssumption  == MQ_OVERLOAD \in Nat \ {0}
ASSUME NoMsgAssumption     == NoMsg \notin Nat

NewRing ==
  [ buf  |-> [i \in 0 .. DEFAULT_QUEUE_SIZE - 1 |-> NoMsg],
    cap  |-> DEFAULT_QUEUE_SIZE,
    head |-> 0,
    tail |-> 0 ]

IsEmpty(r) == r.head = r.tail

(* ++index, wrapped at the end of the array.                               *)
After(index, cap) == IF index + 1 >= cap THEN 0 ELSE index + 1

(* Mutant of Grow: tail is set to the last old slot, not past it.          *)
GrowShort(buf, cap) ==
  [ buf  |-> [i \in 0 .. 2 * cap - 1 |-> IF i < cap THEN buf[i] ELSE NoMsg],
    cap  |-> 2 * cap,
    head |-> 0,
    tail |-> cap - 1 ]

(* The growth step: queue.resize(2 * size) keeps every message in the slot *)
(* it was in, and the read order restarts at slot 0.                       *)
Grow(buf, cap) ==
  [ buf  |-> [i \in 0 .. 2 * cap - 1 |-> IF i < cap THEN buf[i] ELSE NoMsg],
    cap  |-> 2 * cap,
    head |-> 0,
    tail |-> cap ]

(* message_queue::mq_push on the ring.                                     *)
Push(r, m) ==
  LET buf  == [r.buf EXCEPT ![r.tail] = m]
      tail == After(r.tail, r.cap)
  IN  IF r.head = tail
        THEN Grow(buf, r.cap)
        ELSE [buf |-> buf, cap |-> r.cap, head |-> r.head, tail |-> tail]

(* Mutant of First: the newest message instead of the oldest.              *)
FirstNewest(r) == r.buf[IF r.tail = 0 THEN r.cap - 1 ELSE r.tail - 1]

(* message_queue::mq_pop on a ring that is not empty: the message and what *)
(* it leaves behind.                                                       *)
First(r) == r.buf[r.head]

Pop(r) ==
  [ buf  |-> [r.buf EXCEPT ![r.head] = NoMsg],
    cap  |-> r.cap,
    head |-> After(r.head, r.cap),
    tail |-> r.tail ]

(* Mutant of Length: the distance is not taken around the ring.            *)
LengthFlat(r) == IF r.head <= r.tail THEN r.tail - r.head
                                     ELSE r.head - r.tail

(* message_queue::length, and the length mq_pop compares with the overload *)
(* threshold: the distance from head to tail around the ring.              *)
Length(r) == IF r.head <= r.tail THEN r.tail - r.head
                                 ELSE r.tail + r.cap - r.head

(* Mutant of Raised: the threshold stays where it is.                      *)
RaisedNever(threshold, length) == threshold

(* The overload loop of mq_pop: the threshold doubles until it is no       *)
(* smaller than the length.                                                *)
Raised(threshold, length) ==
  LET Doubled[t \in Nat] == IF length > t THEN Doubled[2 * t] ELSE t
  IN  Doubled[threshold]

-----------------------------------------------------------------------------
(* Vocabulary of the properties, not of the code.                          *)

(* The slots that hold an unread message.                                  *)
Occupied(r) ==
  { i \in 0 .. r.cap - 1 :
      IF r.head <= r.tail THEN r.head <= i /\ i < r.tail
                          ELSE r.head <= i \/ i < r.tail }

(* The unread messages, in the order mq_pop would return them.             *)
Contents(r) ==
  [ k \in 1 .. Length(r) |-> r.buf[(r.head + k - 1) % r.cap] ]

(* What the class keeps true of its four fields: the indices lie in the    *)
(* array and slots outside [head, tail) hold nothing.                      *)
RingOK(r, Msg) ==
  /\ r.cap \in Nat \ {0, 1}
  /\ r.head \in 0 .. r.cap - 1
  /\ r.tail \in 0 .. r.cap - 1
  /\ r.buf \in [0 .. r.cap - 1 -> Msg \cup {NoMsg}]
  /\ \A i \in 0 .. r.cap - 1 : i \in Occupied(r) <=> r.buf[i] # NoMsg
=============================================================================
