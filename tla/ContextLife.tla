----------------------------- MODULE ContextLife ----------------------------
(***************************************************************************)
(* The life of a context_t and of the message_queue it owns (cpp_sk.cpp:   *)
(* context_t::create, handle_retire, mq_release, context_push,             *)
(* context_message_dispatch): who refers to it, when it is freed, and who  *)
(* still has its queue then.  A context and its queue go by one name.      *)
(*                                                                         *)
(* The queue is owned by the context, and the context by shared_ptrs: the  *)
(* table's, the creator's, and one for the time of each push and of each   *)
(* round of a worker.  global_queue and the workers' q are raw pointers.   *)
(*                                                                         *)
(* broken is set by a step that uses a freed queue, dereferences the null  *)
(* context, or links a queue that is linked already.  A behaviour is       *)
(* followed up to that step and no further.                                *)
(*                                                                         *)
(* Batches, sleeping and the rings are Dispatch's; here a queue is a       *)
(* number of messages and a round of a worker ends when it likes.          *)
(***************************************************************************)
EXTENDS GlobalQueue, Integers

CONSTANTS
  Sender,    (* threads inside context_push: workers, timer and poll thread *)
  Worker,
  MayFail,   (* contexts whose init may return false                        *)
  MayLose,   (* contexts the growth of the table may make unreachable       *)
  MaxPush    (* bound: messages pushed in one behaviour                     *)

ASSUME ContextAssumption == MayFail \subseteq Queue /\ MayLose \subseteq Queue
ASSUME MaxPushAssumption == MaxPush \in Nat

VARIABLES
  stage,      (* how far create has come with a context                     *)
  table,      (* the contexts the table refers to                           *)
  lost,       (* those handle_grab no longer finds (HandleStorage!Found)    *)
  in_global,  (* message_queue::in_global                                   *)
  count,      (* the messages in each queue                                 *)
  held,       (* the context a sender has grabbed, Null for none            *)
  pc, q, nq,  (* of each worker, as in Dispatch                             *)
  ctx,        (* the context a worker's round has grabbed, Null for none    *)
  pushes,     (* messages pushed so far                                     *)
  broken

creation == <<stage, table, lost>>
mail     == <<in_global, count, held, pushes>>
worker   == <<pc, q, nq, ctx>>
vars     == <<list, creation, mail, worker, broken>>

(* failed: init has returned false; retired: out of the table; released:   *)
(* mq_release has been called; gone: create's caller has let go as well.   *)
Stages == {"absent", "init", "live", "failed", "retired", "released", "gone"}
Labels == {"idle", "grab", "release", "pop", "call", "yield", "requeue",
           "fetch"}

Init ==
  /\ ListInit
  /\ stage = [c \in Queue |-> "absent"]
  /\ table = {}
  /\ lost = {}
  /\ in_global = [c \in Queue |-> TRUE]
  /\ count = [c \in Queue |-> 0]
  /\ held = [s \in Sender |-> Null]
  /\ pc = [w \in Worker |-> "idle"]
  /\ q = [w \in Worker |-> Null]
  /\ nq = [w \in Worker |-> Null]
  /\ ctx = [w \in Worker |-> Null]
  /\ pushes = 0
  /\ broken = FALSE

-----------------------------------------------------------------------------
(* Some shared_ptr refers to the context.                                  *)
Referred(c) ==
  \/ c \in table
  \/ stage[c] \in {"init", "failed", "retired", "released"}
  \/ \E s \in Sender : held[s] = c
  \/ \E w \in Worker : ctx[w] = c

Freed(c) == c \in Queue /\ stage[c] # "absent" /\ ~ Referred(c)

(* handle_grab of the handle of c finds it.                                *)
Reachable(c) == c \in table \ lost

(* global_queue::push reads the queue and writes to the last one linked.   *)
(* Of the queues in the list its assertion stops all but the last, whose   *)
(* next is null: that one is linked to itself.                             *)
GlobalPush(c) ==
  IF Freed(c) \/ Freed(tail) \/ c \in Linked
    THEN /\ broken' = TRUE
         /\ IF c = tail /\ ~ Freed(c) THEN Link(c) ELSE UNCHANGED list
    ELSE QueuePush(c) /\ UNCHANGED broken

(* global_queue::pop reads the first one, if there is one.                 *)
GlobalPop ==
  IF Freed(head) THEN broken' = TRUE /\ UNCHANGED list
                 ELSE QueuePop /\ UNCHANGED broken

-----------------------------------------------------------------------------
(* context_t::create: the context is registered and has its queue.  The    *)
(* registration may grow the table and lose others (cpp_sk.cpp:156).       *)
Create(c) ==
  /\ stage[c] = "absent"
  /\ stage' = [stage EXCEPT ![c] = "init"]
  /\ table' = table \cup {c}
  /\ \E L \in SUBSET (table \cap MayLose) : lost' = lost \cup L
  /\ UNCHANGED <<list, mail, worker, broken>>

(* init returns true.                                                      *)
Launch(c) ==
  /\ stage[c] = "init"
  /\ stage' = [stage EXCEPT ![c] = "live"]
  /\ GlobalPush(c)
  /\ UNCHANGED <<table, lost, mail, worker>>

(* init returns false.                                                     *)
InitFails(c) ==
  /\ c \in MayFail
  /\ stage[c] = "init"
  /\ stage' = [stage EXCEPT ![c] = "failed"]
  /\ UNCHANGED <<list, table, lost, mail, worker, broken>>

(* Mutant of Retired: the context stays in its slot.                       *)
RetiredKeeps(c) == table

(* handle_retire drops the table's shared_ptr, if the handle leads to it.  *)
Retired(c) == IF Reachable(c) THEN table \ {c} ELSE table

HandleRetire(c) ==
  /\ stage[c] = "failed"
  /\ stage' = [stage EXCEPT ![c] = "retired"]
  /\ table' = Retired(c)
  /\ UNCHANGED <<list, lost, mail, worker, broken>>

(* mq_release by create: release is never set (mark_release has no         *)
(* caller), so the queue is pushed and nothing is dropped.                 *)
MqRelease(c) ==
  /\ stage[c] = "retired"
  /\ stage' = [stage EXCEPT ![c] = "released"]
  /\ GlobalPush(c)
  /\ UNCHANGED <<table, lost, mail, worker>>

(* The caller of create lets go of the context it was given.               *)
Forget(c) ==
  /\ stage[c] = "released"
  /\ stage' = [stage EXCEPT ![c] = "gone"]
  /\ UNCHANGED <<list, table, lost, mail, worker, broken>>

CreateStep(c) ==
  Create(c) \/ Launch(c) \/ InitFails(c) \/ HandleRetire(c) \/ MqRelease(c)
            \/ Forget(c)

-----------------------------------------------------------------------------
(* context_push: handle_grab, which keeps a reference for the push ...     *)
HandleGrab(s, c) ==
  /\ held[s] = Null
  /\ pushes < MaxPush
  /\ Reachable(c)
  /\ held' = [held EXCEPT ![s] = c]
  /\ pushes' = pushes + 1
  /\ UNCHANGED <<list, creation, in_global, count, worker, broken>>

(* Mutants of Wake: the flag is not looked at; it is set and no more.      *)
WakeAlways(c) == GlobalPush(c)
WakeNever(c)  == UNCHANGED <<list, broken>>

(* A queue that is not global becomes so.                                  *)
Wake(c) == IF in_global[c] THEN UNCHANGED <<list, broken>> ELSE GlobalPush(c)

(* ... and mq_push.                                                        *)
MqPush(s) ==
  LET c == held[s] IN
  /\ c # Null
  /\ count' = [count EXCEPT ![c] = @ + 1]
  /\ in_global' = [in_global EXCEPT ![c] = TRUE]
  /\ Wake(c)
  /\ held' = [held EXCEPT ![s] = Null]
  /\ UNCHANGED <<creation, pushes, worker>>

-----------------------------------------------------------------------------
(* A worker goes to l.                                                     *)
Goto(w, l) == pc' = [pc EXCEPT ![w] = l]

(* A worker that has no queue takes one.                                   *)
Take(w) ==
  /\ pc[w] = "idle"
  /\ head # Null
  /\ GlobalPop
  /\ q' = [q EXCEPT ![w] = head]
  /\ Goto(w, "grab")
  /\ UNCHANGED <<creation, mail, nq, ctx>>

(* The queue's handle is read and its context looked up.                   *)
GrabContext(w) ==
  /\ pc[w] = "grab"
  /\ broken' = Freed(q[w])
  /\ IF Reachable(q[w])
       THEN ctx' = [ctx EXCEPT ![w] = q[w]] /\ Goto(w, "pop")
       ELSE UNCHANGED ctx /\ Goto(w, "release")
  /\ UNCHANGED <<list, creation, mail, q, nq>>

(* There is none: mq_release pushes the queue the worker has in hand, and  *)
(* the round goes on with the null context.                                *)
ReleaseOrphan(w) ==
  /\ pc[w] = "release"
  /\ GlobalPush(q[w])
  /\ Goto(w, "pop")
  /\ UNCHANGED <<creation, mail, q, nq, ctx>>

(* mq_pop returns a message: the callback is looked up in the context.     *)
MqPopMessage(w) ==
  /\ pc[w] = "pop"
  /\ count[q[w]] > 0
  /\ broken' = (Freed(q[w]) \/ ctx[w] = Null)
  /\ count' = [count EXCEPT ![q[w]] = @ - 1]
  /\ Goto(w, "call")
  /\ UNCHANGED <<list, creation, in_global, held, pushes, q, nq, ctx>>

MqPopEmpty(w) ==
  /\ pc[w] = "pop"
  /\ count[q[w]] = 0
  /\ broken' = Freed(q[w])
  /\ in_global' = [in_global EXCEPT ![q[w]] = FALSE]
  /\ Goto(w, "fetch")
  /\ UNCHANGED <<list, creation, count, held, pushes, q, nq, ctx>>

(* The dispatch of an empty queue returns the next one, or none.           *)
Fetch(w) ==
  /\ pc[w] = "fetch"
  /\ IF head = Null THEN UNCHANGED <<list, broken>> ELSE GlobalPop
  /\ q' = [q EXCEPT ![w] = head]
  /\ ctx' = [ctx EXCEPT ![w] = Null]
  /\ Goto(w, IF head = Null THEN "idle" ELSE "grab")
  /\ UNCHANGED <<creation, mail, nq>>

(* The callback returns, and the batch goes on or is over.                 *)
Return(w) ==
  /\ pc[w] = "call"
  /\ \E l \in {"pop", "yield"} : Goto(w, l)
  /\ UNCHANGED <<list, creation, mail, q, nq, ctx, broken>>

(* The end of a round: keep the queue, or trade it for another one.        *)
Yield(w) ==
  /\ pc[w] = "yield"
  /\ IF head = Null
       THEN /\ ctx' = [ctx EXCEPT ![w] = Null]
            /\ Goto(w, "grab")
            /\ UNCHANGED <<list, nq, broken>>
       ELSE /\ GlobalPop
            /\ nq' = [nq EXCEPT ![w] = head]
            /\ Goto(w, "requeue")
            /\ UNCHANGED ctx
  /\ UNCHANGED <<creation, mail, q>>

Requeue(w) ==
  /\ pc[w] = "requeue"
  /\ GlobalPush(q[w])
  /\ q' = [q EXCEPT ![w] = nq[w]]
  /\ nq' = [nq EXCEPT ![w] = Null]
  /\ ctx' = [ctx EXCEPT ![w] = Null]
  /\ Goto(w, "grab")
  /\ UNCHANGED <<creation, mail>>

WorkerStep(w) ==
  \/ Take(w) \/ GrabContext(w) \/ ReleaseOrphan(w) \/ MqPopMessage(w)
  \/ MqPopEmpty(w) \/ Fetch(w) \/ Return(w) \/ Yield(w) \/ Requeue(w)

Next ==
  /\ ~ broken
  /\ \/ \E c \in Queue : CreateStep(c)
     \/ \E s \in Sender : MqPush(s) \/ \E c \in Queue : HandleGrab(s, c)
     \/ \E w \in Worker : WorkerStep(w)

Spec == Init /\ [][Next]_vars

(* The threads that create and that send run on; nothing is asked of the   *)
(* workers.                                                                *)
Fairness ==
  /\ \A c \in Queue :
       WF_vars(~ broken /\ (HandleRetire(c) \/ MqRelease(c) \/ Forget(c)))
  /\ \A s \in Sender : WF_vars(~ broken /\ MqPush(s))

FairSpec == Spec /\ Fairness

-----------------------------------------------------------------------------
TypeOK ==
  /\ ListTypeOK
  /\ stage \in [Queue -> Stages]
  /\ table \in SUBSET Queue
  /\ lost \in SUBSET table
  /\ in_global \in [Queue -> BOOLEAN]
  /\ count \in [Queue -> Nat]
  /\ held \in [Sender -> Queue \cup {Null}]
  /\ pc \in [Worker -> Labels]
  /\ q \in [Worker -> Queue \cup {Null}]
  /\ nq \in [Worker -> Queue \cup {Null}]
  /\ ctx \in [Worker -> Queue \cup {Null}]
  /\ pushes \in Nat
  /\ broken \in BOOLEAN

(* No init has failed, and the table finds every context.                  *)
Whole ==
  lost = {} /\ \A c \in Queue : stage[c] \in {"absent", "init", "live"}

(* As long as every init succeeds and the table finds every context, no    *)
(* thread ever uses a freed queue or a null context, or links a queue      *)
(* twice: the raw pointers in the global queue and in the workers' hands   *)
(* are good because the table never lets go of a context.                  *)
SoundWhileWhole == Whole => ~ broken

(* As long as that is so, head, tail and next of global_queue spell a      *)
(* sequence without a repetition: no interleaving of pushes, pops and      *)
(* trades links a queue a second time or leaves a tail behind.  A second   *)
(* link of the last queue would pass the assertion (cpp_sk.cpp:111) and    *)
(* close the list to a cycle.                                              *)
ListWhileWhole == Whole => ListIsSequence

(* Until it breaks the process, the failure of one service strands no      *)
(* other: a live service that can be reached and has messages is in the    *)
(* global queue or in a worker's hands, whatever orphaned queues are       *)
(* pushed round and round beside it.                                       *)
LiveNotStranded ==
  \A c \in Queue :
    stage[c] = "live" /\ Reachable(c) /\ count[c] > 0 /\ ~ broken =>
      c \in Linked \/ \E w \in Worker : c \in {q[w], nq[w]}

(* A context whose init failed is given up by everyone: no reference to it *)
(* leaks, whoever was sending to it (unless the growth of the table has    *)
(* hidden it from handle_retire).                                          *)
FailedIsFreed ==
  \A c \in Queue :
    stage[c] = "failed" ~> Freed(c) \/ c \in lost \/ broken

(* A worker that calls back has the context of its queue (the assertion    *)
(* q == ctx->queue.get(), cpp_sk.cpp:442).  After a failed init, or once   *)
(* the table has grown, it does not.                                       *)
ServedHasContext ==
  \A w \in Worker : pc[w] \in {"call", "yield", "requeue"} => ctx[w] = q[w]

(* A queue in the global list is one that exists.  create pushes the queue *)
(* of a service whose init failed, and frees it with the context           *)
(* (cpp_sk.cpp:255-266).                                                   *)
LinkedIsAlive == \A c \in Linked : ~ Freed(c)
=============================================================================
