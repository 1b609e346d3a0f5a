------------------------------ MODULE Dispatch ------------------------------
(***************************************************************************)
(* The message core of cpp_sk: the services' message queues, the global    *)
(* queue of queues that have work, and the worker threads that serve them  *)
(* (cpp_sk.cpp: message_queue, global_queue, context_t::create,            *)
(* context_message_dispatch, start_worker, start_timer).                   *)
(*                                                                         *)
(* Each action is one critical section of the code, or one run of code     *)
(* that touches only the worker's own variables.  global_queue is used     *)
(* here as the sequence of queues it links together; module GlobalQueue    *)
(* shows that its list is that sequence.                                   *)
(*                                                                         *)
(* A worker's pc:                                                          *)
(*   start    top of start_worker's loop with q = nullptr                  *)
(*   first    about to mq_pop the first message of a round (i = 0)         *)
(*   length   has popped it, about to read length() for the batch size     *)
(*   call     inside the service's callback                                *)
(*   next     about to mq_pop a further message of the round (i > 0)       *)
(*   yield    round over, about to pop the global queue                    *)
(*   requeue  has popped another queue nq, about to push q back            *)
(*   park     q = nullptr, about to lock the monitor's mutex               *)
(*   enter    holds the mutex, has counted itself in sleep                 *)
(*   wait     blocked in cond.wait, mutex released                         *)
(*   woken    notified, about to take the mutex again                      *)
(***************************************************************************)
EXTENDS MessageQueue, FiniteSets

CONSTANTS
  Service,   (* the services; a service is named by its handle              *)
  Worker,    (* the worker threads                                          *)
  Weight,    (* each worker's entry of the weight table of skynet_app::start*)
  Stuck,     (* services whose callback may never return                    *)
  MaxSend,   (* bound: messages sent in one behaviour                       *)
  None       (* no queue                                                    *)

ASSUME ServiceAssumption == None \notin Service
ASSUME WeightAssumption  == Weight \in [Worker -> -1 .. 3]
ASSUME StuckAssumption   == Stuck \subseteq Service
ASSUME MaxSendAssumption == MaxSend \in Nat

VARIABLES
  phase,      (* "absent", "init" while create runs init, then "live"       *)
  ring,       (* each service's message_queue: the ring ...                 *)
  in_global,  (* ... and the flag                                           *)
  global,     (* global_queue                                               *)
  pc, q, nq,  (* of each worker: where it is, its queue, the other queue    *)
  msg,        (* the message its callback works on                          *)
  left,       (* messages it still takes from q in this round: n - i - 1    *)
  sleep,      (* monitor::sleep                                             *)
  sent,       (* messages are numbered 1 .. sent as they are pushed         *)
  handled     (* history: messages whose callback has returned              *)

sched == <<global, pc, q, nq, left, sleep>>
vars  == <<phase, ring, in_global, global, pc, q, nq, msg, left, sleep,
           sent, handled>>

Msg == Nat \ {0}

Phases == {"absent", "init", "live"}
Labels == {"start", "first", "length", "call", "next", "yield", "requeue",
           "park", "enter", "wait", "woken"}

Init ==
  /\ phase = [s \in Service |-> "absent"]
  /\ ring = [s \in Service |-> NewRing]
  /\ in_global = [s \in Service |-> TRUE]
  /\ global = << >>
  /\ pc = [w \in Worker |-> "start"]
  /\ q = [w \in Worker |-> None]
  /\ nq = [w \in Worker |-> None]
  /\ msg = [w \in Worker |-> NoMsg]
  /\ left = [w \in Worker |-> 0]
  /\ sleep = 0
  /\ sent = 0
  /\ handled = {}

-----------------------------------------------------------------------------
(* Mutant of Create: the new queue starts with in_global = false.          *)
CreateUnflagged(s) ==
  /\ phase[s] = "absent"
  /\ phase' = [phase EXCEPT ![s] = "init"]
  /\ in_global' = [in_global EXCEPT ![s] = FALSE]
  /\ UNCHANGED <<ring, sched, msg, sent, handled>>

(* context_t::create up to init: the context is registered and has its     *)
(* queue.  in_global is true from the start although the queue is in no    *)
(* list, which keeps it from being served before init has returned.        *)
Create(s) ==
  /\ phase[s] = "absent"
  /\ phase' = [phase EXCEPT ![s] = "init"]
  /\ UNCHANGED <<ring, in_global, sched, msg, sent, handled>>

(* The end of context_t::create when init has returned true.               *)
Launch(s) ==
  /\ phase[s] = "init"
  /\ phase' = [phase EXCEPT ![s] = "live"]
  /\ global' = Append(global, s)
  /\ UNCHANGED <<ring, in_global, pc, q, nq, msg, left, sleep, sent, handled>>

(* Mutant of ContextPush: the flag is set but the queue is not pushed.     *)
ContextPushQuiet(s) ==
  /\ phase[s] # "absent"
  /\ sent < MaxSend
  /\ sent' = sent + 1
  /\ ring' = [ring EXCEPT ![s] = Push(ring[s], sent + 1)]
  /\ in_global' = [in_global EXCEPT ![s] = TRUE]
  /\ UNCHANGED <<phase, sched, msg, handled>>

(* skynet_app::context_push: mq_push on the queue of s, and the queue into *)
(* the global queue when it was in nobody's hands.  Callbacks, inits, the  *)
(* timer thread and the socket thread all call it, at any moment.          *)
ContextPush(s) ==
  /\ phase[s] # "absent"
  /\ sent < MaxSend
  /\ sent' = sent + 1
  /\ ring' = [ring EXCEPT ![s] = Push(ring[s], sent + 1)]
  /\ in_global' = [in_global EXCEPT ![s] = TRUE]
  /\ global' = IF in_global[s] THEN global ELSE Append(global, s)
  /\ UNCHANGED <<phase, pc, q, nq, msg, left, sleep, handled>>

-----------------------------------------------------------------------------
(* context_message_dispatch with q = nullptr, and the return global.pop()  *)
(* of a round that found its queue empty: take a queue or go to sleep.     *)
PopGlobal(w) ==
  /\ pc[w] = "start"
  /\ IF global = << >>
       THEN /\ pc' = [pc EXCEPT ![w] = "park"]
            /\ UNCHANGED <<global, q>>
       ELSE /\ pc' = [pc EXCEPT ![w] = "first"]
            /\ q' = [q EXCEPT ![w] = Head(global)]
            /\ global' = Tail(global)
  /\ UNCHANGED <<phase, ring, in_global, nq, msg, left, sleep, sent, handled>>

(* Mutant of MqPopMessage: the message is copied out and left in the ring. *)
MqPopMessageCopies(w) ==
  LET s == q[w] IN
  /\ pc[w] \in {"first", "next"}
  /\ ~ IsEmpty(ring[s])
  /\ msg' = [msg EXCEPT ![w] = First(ring[s])]
  /\ pc' = [pc EXCEPT ![w] =
              IF pc[w] = "first" /\ Weight[w] >= 0 THEN "length" ELSE "call"]
  /\ left' = IF pc[w] = "first" THEN [left EXCEPT ![w] = 0] ELSE left
  /\ UNCHANGED <<phase, ring, in_global, global, q, nq, sleep, sent, handled>>

(* mq_pop returns a message.  The batch size is read after the first one,  *)
(* by workers whose weight is not negative; the others keep n = 1.         *)
MqPopMessage(w) ==
  LET s == q[w] IN
  /\ pc[w] \in {"first", "next"}
  /\ ~ IsEmpty(ring[s])
  /\ msg' = [msg EXCEPT ![w] = First(ring[s])]
  /\ ring' = [ring EXCEPT ![s] = Pop(ring[s])]
  /\ pc' = [pc EXCEPT ![w] =
              IF pc[w] = "first" /\ Weight[w] >= 0 THEN "length" ELSE "call"]
  /\ left' = IF pc[w] = "first" THEN [left EXCEPT ![w] = 0] ELSE left
  /\ UNCHANGED <<phase, in_global, global, q, nq, sleep, sent, handled>>

(* Mutant of MqPopEmpty: in_global stays true.                             *)
MqPopEmptyKeepsFlag(w) ==
  LET s == q[w] IN
  /\ pc[w] \in {"first", "next"}
  /\ IsEmpty(ring[s])
  /\ q' = [q EXCEPT ![w] = None]
  /\ pc' = [pc EXCEPT ![w] = "start"]
  /\ UNCHANGED <<phase, ring, in_global, global, nq, msg, left, sleep, sent,
                 handled>>

(* Mutant of MqPopEmpty: the worker keeps the queue and tries again.       *)
MqPopEmptyKeepsQueue(w) ==
  LET s == q[w] IN
  /\ pc[w] \in {"first", "next"}
  /\ IsEmpty(ring[s])
  /\ in_global' = [in_global EXCEPT ![s] = FALSE]
  /\ pc' = [pc EXCEPT ![w] = "first"]
  /\ UNCHANGED <<phase, ring, global, q, nq, msg, left, sleep, sent, handled>>

(* mq_pop returns nothing: in the same critical section it clears          *)
(* in_global, and the worker lets go of the queue.                         *)
MqPopEmpty(w) ==
  LET s == q[w] IN
  /\ pc[w] \in {"first", "next"}
  /\ IsEmpty(ring[s])
  /\ in_global' = [in_global EXCEPT ![s] = FALSE]
  /\ q' = [q EXCEPT ![w] = None]
  /\ pc' = [pc EXCEPT ![w] = "start"]
  /\ UNCHANGED <<phase, ring, global, nq, msg, left, sleep, sent, handled>>

(* n >> k for the weights of the table.                                    *)
ShiftRight(n, k) == n \div <<1, 2, 4, 8>>[k + 1]

(* n = q->length() >> weight, in a critical section of its own.            *)
ReadLength(w) ==
  /\ pc[w] = "length"
  /\ left' = [left EXCEPT ![w] = ShiftRight(Length(ring[q[w]]), Weight[w]) - 1]
  /\ pc' = [pc EXCEPT ![w] = "call"]
  /\ UNCHANGED <<phase, ring, in_global, global, q, nq, msg, sleep,
                 sent, handled>>

(* The callback returns (dispatch), and the loop goes on or ends.          *)
Return(w) ==
  /\ pc[w] = "call"
  /\ handled' = handled \cup {msg[w]}
  /\ msg' = [msg EXCEPT ![w] = NoMsg]
  /\ IF left[w] > 0
       THEN /\ left' = [left EXCEPT ![w] = @ - 1]
            /\ pc' = [pc EXCEPT ![w] = "next"]
       ELSE /\ pc' = [pc EXCEPT ![w] = "yield"]
            /\ UNCHANGED left
  /\ UNCHANGED <<phase, ring, in_global, global, q, nq, sleep, sent>>

(* End of the round: with no other queue to serve the worker keeps q.      *)
Yield(w) ==
  /\ pc[w] = "yield"
  /\ IF global = << >>
       THEN /\ pc' = [pc EXCEPT ![w] = "first"]
            /\ UNCHANGED <<global, nq>>
       ELSE /\ pc' = [pc EXCEPT ![w] = "requeue"]
            /\ nq' = [nq EXCEPT ![w] = Head(global)]
            /\ global' = Tail(global)
  /\ UNCHANGED <<phase, ring, in_global, q, msg, left, sleep, sent, handled>>

(* ... and with another one in hand it pushes q back.                      *)
Requeue(w) ==
  /\ pc[w] = "requeue"
  /\ global' = Append(global, q[w])
  /\ q' = [q EXCEPT ![w] = nq[w]]
  /\ nq' = [nq EXCEPT ![w] = None]
  /\ pc' = [pc EXCEPT ![w] = "first"]
  /\ UNCHANGED <<phase, ring, in_global, msg, left, sleep, sent, handled>>

-----------------------------------------------------------------------------
(* Sleeping: start_worker under monitor::mutex.  The mutex is held exactly *)
(* from the moment a worker counts itself until cond.wait releases it.     *)
MutexFree == \A w \in Worker : pc[w] # "enter"

asleep == <<phase, ring, in_global, global, q, nq, msg, left, sent, handled>>

EnterSleep(w) ==
  /\ pc[w] = "park"
  /\ MutexFree
  /\ sleep' = sleep + 1
  /\ pc' = [pc EXCEPT ![w] = "enter"]
  /\ UNCHANGED asleep

CondWait(w) ==
  /\ pc[w] = "enter"
  /\ pc' = [pc EXCEPT ![w] = "wait"]
  /\ UNCHANGED <<asleep, sleep>>

LeaveSleep(w) ==
  /\ pc[w] = "woken"
  /\ MutexFree
  /\ sleep' = sleep - 1
  /\ pc' = [pc EXCEPT ![w] = "start"]
  /\ UNCHANGED asleep

Waiting == {w \in Worker : pc[w] = "wait"}

(* Mutant of TimerWakeup: sleep > count - busy.                            *)
TimerWakeupStrict ==
  /\ sleep > 1
  /\ IF Waiting = {}
       THEN UNCHANGED pc
       ELSE \E w \in Waiting : pc' = [pc EXCEPT ![w] = "woken"]
  /\ UNCHANGED <<asleep, sleep>>

(* start_timer's monitor::wakeup, with no lock held: sleep >= count - busy *)
(* where busy = count - 1.  notify_one finds a worker that waits, or none. *)
TimerWakeup ==
  /\ sleep >= 1
  /\ IF Waiting = {}
       THEN UNCHANGED pc
       ELSE \E w \in Waiting : pc' = [pc EXCEPT ![w] = "woken"]
  /\ UNCHANGED <<asleep, sleep>>

-----------------------------------------------------------------------------
WorkerStep(w) ==
  \/ PopGlobal(w) \/ MqPopMessage(w) \/ MqPopEmpty(w) \/ ReadLength(w)
  \/ Yield(w) \/ Requeue(w)
  \/ EnterSleep(w) \/ CondWait(w) \/ LeaveSleep(w)

Next ==
  \/ \E s \in Service : Create(s) \/ Launch(s) \/ ContextPush(s)
  \/ \E w \in Worker : WorkerStep(w) \/ Return(w)
  \/ TimerWakeup

Spec == Init /\ [][Next]_vars

(* The operating system runs every thread; the timer thread calls wakeup   *)
(* again and again; inits return, and so do the callbacks of services that *)
(* are not stuck.  Nobody has to send anything.                            *)
Fairness ==
  /\ \A w \in Worker : WF_vars(WorkerStep(w))
  /\ \A w \in Worker : WF_vars(q[w] \notin Stuck /\ Return(w))
  /\ \A s \in Service : WF_vars(Launch(s))
  /\ WF_vars(TimerWakeup)

FairSpec == Spec /\ Fairness

-----------------------------------------------------------------------------
(* What a worker's variables hold at each point of its loop.               *)
WorkerState ==
  \A w \in Worker :
    /\ q[w] = None <=> pc[w] \in {"start", "park", "enter", "wait", "woken"}
    /\ nq[w] # None <=> pc[w] = "requeue"
    /\ msg[w] # NoMsg <=> pc[w] \in {"length", "call"}
    /\ pc[w] = "length" => Weight[w] >= 0

(* Types; in addition, a worker has a queue, a second queue and a message   *)
(* exactly at the points of its loop where the code does.                  *)
TypeOK ==
  /\ phase \in [Service -> Phases]
  /\ DOMAIN ring = Service
  /\ \A s \in Service : RingOK(ring[s], Msg)
  /\ in_global \in [Service -> BOOLEAN]
  /\ global \in Seq(Service)
  /\ pc \in [Worker -> Labels]
  /\ q \in [Worker -> Service \cup {None}]
  /\ nq \in [Worker -> Service \cup {None}]
  /\ msg \in [Worker -> Msg \cup {NoMsg}]
  /\ left \in [Worker -> Int]
  /\ sleep \in Int
  /\ sent \in Nat
  /\ handled \in SUBSET Msg
  /\ WorkerState

(* The queues a worker has in its hands.                                   *)
Held(w) == {q[w], nq[w]} \ {None}

(* A queue is linked into the global queue at most once: the assertion     *)
(* queue->next == nullptr of global_queue::push (cpp_sk.cpp:111).          *)
NoDoublePush == \A i, j \in 1 .. Len(global) : global[i] = global[j] => i = j

(* Two workers never have the same service in their hands, and a service   *)
(* in a worker's hands is not in the global queue for another to take:     *)
(* callbacks of one service never run concurrently, which is why           *)
(* module_mid_t needs no locks for its tables.                             *)
ExclusiveOwner ==
  /\ \A w, v \in Worker : w # v => Held(w) \cap Held(v) = {}
  /\ \A w \in Worker : q[w] # None => q[w] # nq[w]
  /\ \A w \in Worker : \A i \in 1 .. Len(global) : global[i] \notin Held(w)

(* in_global tells the truth: it is false exactly when the queue of a live *)
(* service is neither in the global queue nor in a worker's hands.         *)
InGlobalMeansOwned ==
  \A s \in Service :
    phase[s] = "live" =>
      ( in_global[s] <=> \/ \E i \in 1 .. Len(global) : global[i] = s
                         \/ \E w \in Worker : s \in Held(w) )

(* A queue only enters the scheduler when init has returned true.          *)
NotBeforeInit ==
  \A s \in Service :
    phase[s] # "live" =>
      /\ in_global[s]
      /\ \A i \in 1 .. Len(global) : global[i] # s
      /\ \A w \in Worker : s \notin Held(w)

(* No wake-up is lost: the queue of a live service that has messages is    *)
(* in the global queue or in a worker's hands (mq_push and mq_pop change   *)
(* in_global under the same lock as the ring).                             *)
NothingStranded ==
  \A s \in Service :
    phase[s] = "live" /\ ~ IsEmpty(ring[s]) =>
      \/ \E i \in 1 .. Len(global) : global[i] = s
      \/ \E w \in Worker : s \in Held(w)

(* The refinement: the box of a service is what its ring holds, and the    *)
(* message being handled is the one in the hands of a worker that serves   *)
(* the service.                                                            *)
Abstract == INSTANCE Mailboxes WITH
  box     <- [s \in Service |-> {ring[s].buf[i] : i \in Occupied(ring[s])}],
  running <- [s \in Service |-> {msg[w] : w \in {v \in Worker :
                                   q[v] = s /\ pc[v] \in {"length", "call"}}}]

(* Every message pushed is handed over exactly once, one at a time per     *)
(* service, and never before init has returned.                            *)
ImplementsMailboxes == Abstract!Spec

(* A message pushed to a service that exists is handled in the end, even   *)
(* if the callback of some other service never returns, as long as the     *)
(* stuck services are fewer than the workers.                              *)
Delivered ==
  \A s \in Service \ Stuck : \A m \in 1 .. MaxSend :
    (\E i \in Occupied(ring[s]) : ring[s].buf[i] = m) ~> m \in handled
=============================================================================
