----------------------------- MODULE GlobalQueue ----------------------------
(***************************************************************************)
(* cpp_sk::global_queue (cpp_sk.h, cpp_sk.cpp): the queues that have work, *)
(* linked through message_queue::next, under a spinlock.  Both operations  *)
(* run under the lock and are one step each.                               *)
(*                                                                         *)
(* Modules that use the global queue treat it as a sequence; items is that *)
(* sequence, kept beside the list to say what the list means.              *)
(***************************************************************************)
EXTENDS Naturals, Sequences

CONSTANTS
  Queue,    (* the message queues                                           *)
  Null      (* nullptr                                                      *)

ASSUME NullAssumption == Null \notin Queue

VARIABLES
  head, tail,  (* fields of global_queue                                    *)
  next,        (* message_queue::next of every queue                        *)
  items        (* history: the queues pushed and not yet popped             *)

list == <<head, tail, next, items>>

Linked == {items[i] : i \in 1 .. Len(items)}

ListInit ==
  /\ head = Null
  /\ tail = Null
  /\ next = [x \in Queue |-> Null]
  /\ items = << >>

(* global_queue::push, of any queue.                                       *)
Link(x) ==
  /\ IF tail # Null
       THEN /\ next' = [next EXCEPT ![tail] = x]
            /\ UNCHANGED head
       ELSE /\ head' = x
            /\ UNCHANGED next
  /\ tail' = x
  /\ items' = Append(items, x)

(* Callers push a queue they own and that is in no list: it has just left  *)
(* in_global = false, or a worker has it in hand, or create has just built *)
(* it (Dispatch!ExclusiveOwner, NotBeforeInit).                            *)
QueuePush(x) == x \notin Linked /\ Link(x)

(* Mutant of QueuePop: tail survives the last queue.                       *)
QueuePopKeepsTail ==
  /\ head # Null
  /\ head' = next[head]
  /\ next' = [next EXCEPT ![head] = Null]
  /\ items' = Tail(items)
  /\ UNCHANGED tail

(* global_queue::pop on a list that is not empty; it returns head.  On an  *)
(* empty list pop changes nothing.                                         *)
QueuePop ==
  /\ head # Null
  /\ head' = next[head]
  /\ tail' = IF head' = Null THEN Null ELSE tail
  /\ next' = [next EXCEPT ![head] = Null]
  /\ items' = Tail(items)

ListNext == QueuePop \/ \E x \in Queue : QueuePush(x)

ListSpec == ListInit /\ [][ListNext]_list

-----------------------------------------------------------------------------
ListTypeOK ==
  /\ head \in Queue \cup {Null}
  /\ tail \in Queue \cup {Null}
  /\ next \in [Queue -> Queue \cup {Null}]
  /\ items \in Seq(Queue)

(* The list is the sequence: pop returns the queues in the order push got  *)
(* them, the chain from head to tail is neither broken nor cyclic, and     *)
(* pop reports an empty list exactly when every queue has been popped.     *)
ListIsSequence ==
  /\ items = << >> <=> head = Null
  /\ items = << >> <=> tail = Null
  /\ items # << >> => head = items[1] /\ tail = items[Len(items)]
  /\ \A i \in 1 .. Len(items) :
       next[items[i]] = IF i < Len(items) THEN items[i + 1] ELSE Null
  /\ \A i, j \in 1 .. Len(items) : items[i] = items[j] => i = j

(* The two assertions of the class: a queue that is pushed is linked to    *)
(* nothing (cpp_sk.cpp:111), and the queue that leaves the list empty is   *)
(* its last (cpp_sk.cpp:126).                                              *)
AssertionsHold ==
  /\ \A x \in Queue \ Linked : next[x] = Null
  /\ head # Null /\ next[head] = Null => head = tail
=============================================================================
