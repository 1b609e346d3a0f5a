------------------------------- MODULE Monitor ------------------------------
(***************************************************************************)
(* The endless-loop monitor of cpp_sk (cpp_sk.h: skynet_monitor;           *)
(* cpp_sk.cpp: start_monitor, context_message_dispatch).  A worker writes  *)
(* down which message it works on, without a lock; every five seconds the  *)
(* monitor thread compares a counter with what it was, and marks the       *)
(* service of a message that has not moved.                                *)
(*                                                                         *)
(* Messages are numbered, for each worker from 1; a handle written to      *)
(* destination is the number of its message.  source is only logged and is *)
(* left out.  Each read and each write of a shared field is a step.        *)
(***************************************************************************)
EXTENDS Integers

CONSTANTS
  Workers,     (* number of workers                                         *)
  MaxMessage   (* bound: messages each worker handles                       *)

ASSUME WorkersAssumption    == Workers \in Nat \ {0}
ASSUME MaxMessageAssumption == MaxMessage \in Nat

VARIABLES
  version, check_version, destination,   (* each worker's skynet_monitor    *)
  wpc,       (* where a worker is, see WorkerLabels                         *)
  arg,       (* the argument of the trigger under way, or the message       *)
  last,      (* the last message a worker has begun                         *)
  at, mpc,   (* the worker being checked, 0 while the thread sleeps; where  *)
  endless,   (* the messages whose service has been marked                  *)
  (* History.                                                               *)
  caught,    (* the message in its callback when this check compared        *)
  seen       (* ... when the last check read the version                    *)

mon_vars == <<version, check_version, destination, wpc, arg, last, at, mpc,
              endless, caught, seen>>

Worker       == 1 .. Workers
WorkerLabels == {"idle", "write", "bump", "call"}
CheckLabels  == {"compare", "store", "test", "mark"}

MonInit ==
  /\ version = [w \in Worker |-> 0]
  /\ check_version = [w \in Worker |-> 0]
  /\ destination = [w \in Worker |-> 0]
  /\ wpc = [w \in Worker |-> "idle"]
  /\ arg = [w \in Worker |-> 0]
  /\ last = [w \in Worker |-> 0]
  /\ at = 0
  /\ mpc = "compare"
  /\ endless = {}
  /\ caught = 0
  /\ seen = [w \in Worker |-> 0]

-----------------------------------------------------------------------------
(* A worker: trigger(source, handle), the callback, trigger(0, 0).         *)
Begin(w) ==
  /\ wpc[w] = "idle"
  /\ last[w] < MaxMessage
  /\ last' = [last EXCEPT ![w] = @ + 1]
  /\ arg' = [arg EXCEPT ![w] = last[w] + 1]
  /\ wpc' = [wpc EXCEPT ![w] = "write"]
  /\ UNCHANGED <<version, check_version, destination, at, mpc, endless,
                 caught, seen>>

TriggerWrite(w) ==
  /\ wpc[w] = "write"
  /\ destination' = [destination EXCEPT ![w] = arg[w]]
  /\ wpc' = [wpc EXCEPT ![w] = "bump"]
  /\ UNCHANGED <<version, check_version, arg, last, at, mpc, endless,
                 caught, seen>>

TriggerBump(w) ==
  /\ wpc[w] = "bump"
  /\ version' = [version EXCEPT ![w] = @ + 1]
  /\ wpc' = [wpc EXCEPT ![w] = IF arg[w] = 0 THEN "idle" ELSE "call"]
  /\ UNCHANGED <<check_version, destination, arg, last, at, mpc, endless,
                 caught, seen>>

Return(w) ==
  /\ wpc[w] = "call"
  /\ arg' = [arg EXCEPT ![w] = 0]
  /\ wpc' = [wpc EXCEPT ![w] = "write"]
  /\ UNCHANGED <<version, check_version, destination, last, at, mpc, endless,
                 caught, seen>>

-----------------------------------------------------------------------------
(* The message in its callback, 0 for none.                                *)
Running(w) == IF wpc[w] = "call" THEN arg[w] ELSE 0

(* The monitor thread goes to the next worker, or to sleep.                *)
NextWorker == at' = (at + 1) % (Workers + 1) /\ mpc' = "compare"

Wake ==
  /\ at = 0
  /\ at' = 1
  /\ UNCHANGED <<version, check_version, destination, wpc, arg, last, mpc,
                 endless, caught, seen>>

(* Mutant of Unmoved: the version is not looked at.                        *)
UnmovedAlways(w) == TRUE

Unmoved(w) == version[w] = check_version[w]

(* check: the first read of version ...                                    *)
Compare(w) ==
  /\ at = w /\ mpc = "compare"
  /\ mpc' = IF Unmoved(w) THEN "test" ELSE "store"
  /\ caught' = Running(w)
  /\ UNCHANGED <<version, check_version, destination, wpc, arg, last, at,
                 endless, seen>>

(* Mutant of NewVersion: one message is thought to be one version.         *)
NewVersionNext(w) == check_version[w] + 1

NewVersion(w) == version[w]

(* ... the second one, when it has moved ...                               *)
Store(w) ==
  /\ at = w /\ mpc = "store"
  /\ check_version' = [check_version EXCEPT ![w] = NewVersion(w)]
  /\ seen' = [seen EXCEPT ![w] = Running(w)]
  /\ NextWorker
  /\ UNCHANGED <<version, destination, wpc, arg, last, endless, caught>>

(* ... and, when it has not, the two reads of destination.                 *)
Test(w) ==
  /\ at = w /\ mpc = "test"
  /\ IF destination[w] = 0
       THEN NextWorker /\ seen' = [seen EXCEPT ![w] = caught]
       ELSE mpc' = "mark" /\ UNCHANGED <<at, seen>>
  /\ UNCHANGED <<version, check_version, destination, wpc, arg, last, endless,
                 caught>>

(* context_endless, which finds no context for the handle 0.               *)
Mark(w) ==
  /\ at = w /\ mpc = "mark"
  /\ endless' = endless \cup ({<<w, destination[w]>>} \ {<<w, 0>>})
  /\ seen' = [seen EXCEPT ![w] = caught]
  /\ NextWorker
  /\ UNCHANGED <<version, check_version, destination, wpc, arg, last, caught>>

MonNext ==
  \/ Wake
  \/ \E w \in Worker :
       \/ Begin(w) \/ TriggerWrite(w) \/ TriggerBump(w) \/ Return(w)
       \/ Compare(w) \/ Store(w) \/ Test(w) \/ Mark(w)

MonSpec == MonInit /\ [][MonNext]_mon_vars

-----------------------------------------------------------------------------
MonTypeOK ==
  /\ version \in [Worker -> Nat]
  /\ check_version \in [Worker -> Nat]
  /\ destination \in [Worker -> 0 .. MaxMessage]
  /\ wpc \in [Worker -> WorkerLabels]
  /\ arg \in [Worker -> 0 .. MaxMessage]
  /\ last \in [Worker -> 0 .. MaxMessage]
  /\ at \in 0 .. Workers
  /\ mpc \in CheckLabels
  /\ endless \in SUBSET (Worker \X (1 .. MaxMessage))
  /\ caught \in 0 .. MaxMessage
  /\ seen \in [Worker -> 0 .. MaxMessage]

(* A callback that is running at two checks in a row, and still runs at    *)
(* the end of the second, has its service marked by then, whatever steps   *)
(* of trigger the first check fell between.                                *)
AlarmInTime ==
  [][ \A w \in Worker :
        at = w /\ at' # w /\ caught # 0 /\ caught = seen[w] /\ Running(w) = caught =>
          <<w, caught>> \in endless' ]_mon_vars

(* A message that was in its callback when a check compared the versions   *)
(* is only marked by that check if it was in it at the check before: work  *)
(* that moves on between two checks is not blamed.                         *)
NotBlamed ==
  [][ \A w \in Worker :
        <<w, caught>> \in endless' \ endless /\ caught # 0 => seen[w] = caught ]_mon_vars

(* A message is only marked if it was in its callback at the check before. *)
(* It is not so: trigger writes destination before it moves the version    *)
(* (cpp_sk.cpp:310-314), and check reads destination once more after it    *)
(* has compared (cpp_sk.cpp:297-299).                                      *)
MarkedWasSeen ==
  [][ \A w \in Worker, m \in 1 .. MaxMessage :
        <<w, m>> \in endless' \ endless => seen[w] = m ]_mon_vars
=============================================================================
