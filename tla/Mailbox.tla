------------------------------- MODULE Mailbox ------------------------------
(***************************************************************************)
(* One message_queue of cpp_sk in use: any thread pushes into it           *)
(* (skynet_app::context_push), and the one worker that owns it alternates  *)
(* mq_pop and mq_overload (skynet_app::context_message_dispatch).  That    *)
(* there is never a second owner is shown by module Dispatch.              *)
(*                                                                         *)
(* Messages are numbered in the order of their mq_push.                    *)
(***************************************************************************)
EXTENDS MessageQueue, FiniteSets

CONSTANT MaxPush     (* bound: messages pushed in one behaviour            *)

ASSUME MaxPushAssumption == MaxPush \in Nat

VARIABLES
  ring,                (* the queue's array and indices                     *)
  overload_threshold,  (* fields of the same names                          *)
  overload,
  step,                (* where the owner is in its round                   *)
  (* History.                                                               *)
  pushed,              (* messages pushed so far: 1 .. pushed               *)
  pending,             (* those not popped yet                              *)
  last,                (* the last message popped, 0 before the first       *)
  alarms               (* overload reports since the queue was last empty   *)

vars == <<ring, overload_threshold, overload, step,
          pushed, pending, last, alarms>>

Msg == Nat \ {0}

Init ==
  /\ ring = NewRing
  /\ overload_threshold = MQ_OVERLOAD
  /\ overload = 0
  /\ step = "pop"
  /\ pushed = 0
  /\ pending = {}
  /\ last = 0
  /\ alarms = << >>

(* message_queue::mq_push, by any thread, at any moment.                   *)
MqPush ==
  /\ pushed < MaxPush
  /\ pushed' = pushed + 1
  /\ pending' = pending \cup {pushed'}
  /\ ring' = Push(ring, pushed')
  /\ UNCHANGED <<overload_threshold, overload, step, last, alarms>>

(* message_queue::mq_pop finds a message: the length that is left decides  *)
(* whether an overload is recorded and the threshold raised.               *)
MqPopMessage ==
  /\ step = "pop"
  /\ ~ IsEmpty(ring)
  /\ ring' = Pop(ring)
  /\ LET left == Length(ring')
     IN  /\ overload' = IF left > overload_threshold THEN left ELSE overload
         /\ overload_threshold' = Raised(overload_threshold, left)
  /\ last' = First(ring)
  /\ pending' = pending \ {First(ring)}
  /\ step' = "overload"
  /\ UNCHANGED <<pushed, alarms>>

(* message_queue::mq_pop finds the queue empty: the threshold is reset.    *)
MqPopEmpty ==
  /\ step = "pop"
  /\ IsEmpty(ring)
  /\ overload_threshold' = MQ_OVERLOAD
  /\ alarms' = << >>
  /\ UNCHANGED <<ring, overload, step, pushed, pending, last>>

(* message_queue::mq_overload hands the recorded overload to the owner,    *)
(* which reports it, and clears it.                                        *)
MqOverload ==
  /\ step = "overload"
  /\ overload' = 0
  /\ alarms' = IF overload # 0 THEN Append(alarms, overload) ELSE alarms
  /\ step' = "pop"
  /\ UNCHANGED <<ring, overload_threshold, pushed, pending, last>>

Owner == MqPopMessage \/ MqPopEmpty \/ MqOverload

Next == MqPush \/ Owner

Spec == Init /\ [][Next]_vars

-----------------------------------------------------------------------------
(* The fields stay in range, and a slot outside [head, tail) holds nothing *)
(* (message_queue, cpp_sk.h:180).                                          *)
TypeOK ==
  /\ RingOK(ring, Msg)
  /\ overload_threshold \in Nat
  /\ overload \in Nat
  /\ step \in {"pop", "overload"}
  /\ pushed \in Nat
  /\ pending \in SUBSET Msg
  /\ last \in Nat
  /\ alarms \in Seq(Nat)

(* Through wrap-around and growth, the ring holds exactly the messages     *)
(* pushed and not yet popped, each in one slot: mq_push never overwrites   *)
(* an unread slot, resize never drops one, and none is returned twice.     *)
NothingLost ==
  /\ pending = { ring.buf[i] : i \in Occupied(ring) }
  /\ \A i, j \in Occupied(ring) : ring.buf[i] = ring.buf[j] => i = j

(* length() counts the messages that are there at that moment, on both     *)
(* sides of the wrap-around and after a growth (cpp_sk.cpp:29).            *)
LengthExact == Length(ring) = Cardinality(pending)

(* Until the array has grown for the first time, messages are popped in    *)
(* the order they were pushed.                                             *)
FifoBeforeGrowth ==
  [][ last' # last /\ ring.cap = DEFAULT_QUEUE_SIZE
        => \A m \in pending : last' <= m ]_vars

(* A queue is a queue: messages are popped in the order they were pushed.  *)
(* mq_push grows the array without rotating it, so this fails when the     *)
(* array fills up while head is not 0 (cpp_sk.cpp:52-57).                  *)
Fifo ==
  [][ last' # last => \A m \in pending : last' <= m ]_vars

(* Within one busy period the overload reports rise, so the same backlog   *)
(* is not reported twice (mq_pop doubles the threshold, cpp_sk.cpp:83).  *)
(* No backlog is missed: when the owner has taken the report and goes back *)
(* to popping, a threshold above its initial value means that a length of  *)
(* more than half of it was reported in this busy period.                  *)
AlarmsExact ==
  /\ \A j \in 2 .. Len(alarms) : alarms[j - 1] < alarms[j]
  /\ step = "pop" /\ overload_threshold > MQ_OVERLOAD
       => /\ alarms # << >>
          /\ 2 * alarms[Len(alarms)] > overload_threshold
          /\ alarms[Len(alarms)] <= overload_threshold
=============================================================================
