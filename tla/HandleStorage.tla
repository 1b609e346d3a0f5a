---------------------------- MODULE HandleStorage ---------------------------
(***************************************************************************)
(* cpp_sk::handle_storage_t (cpp_sk.h, cpp_sk.cpp) driven by its only      *)
(* callers: context_t::create, which registers a context, gives it its     *)
(* handle and its queue in separate unlocked steps and retires it when     *)
(* init fails, and the services, which register names and look contexts    *)
(* up by handle.  Creates of several threads interleave.                   *)
(*                                                                         *)
(* The harbor bits above HANDLE_MASK are the same for every handle of the  *)
(* process and are left out.  handle_retireall has no caller.              *)
(***************************************************************************)
EXTENDS Naturals, FiniteSets

CONSTANTS
  HANDLE_MASK,    (* largest handle: 0xffffff in the code                   *)
  INITIAL_SLOTS,  (* slots of a new table: 4 in the code                    *)
  Context,        (* the contexts ever created                              *)
  Name,
  Nil             (* an empty slot                                          *)

ASSUME SlotAssumption ==
  /\ HANDLE_MASK \in Nat \ {0}
  /\ INITIAL_SLOTS \in Nat \ {0}
  /\ INITIAL_SLOTS - 1 <= HANDLE_MASK
ASSUME NilAssumption == Nil \notin Context

VARIABLES
  slot, size,    (* the vector and its size()                               *)
  handle_index,  (* where the next search starts                            *)
  name,          (* the names in use and the handle each stands for         *)
  stage,         (* how far the create of a context has come                *)
  number,        (* the handle handle_register returned for a context       *)
  (* History.                                                               *)
  era,           (* size of the table when a context was registered, or 0   *)
  order,         (* their place in the order of registration, 0 for none    *)
  named,         (* names given to a context's handle until it was retired  *)
  late           (* names given to it afterwards                            *)

vars == <<slot, size, handle_index, name, stage, number, era, order, named,
          late>>

(* registered: in the table, ctx->handle still 0; numbered: handle set,    *)
(* queue still null; init: inside init; failed: init has returned false.   *)
Stages == {"none", "registered", "numbered", "init", "live", "failed",
           "retired"}

Handle == 1 .. HANDLE_MASK

(* A set of pairs: a name is the first component of at most one of them.   *)
Names == Name \X Handle

Init ==
  /\ slot = [i \in 0 .. INITIAL_SLOTS - 1 |-> Nil]
  /\ size = INITIAL_SLOTS
  /\ handle_index = 1
  /\ name = {}
  /\ stage = [c \in Context |-> "none"]
  /\ number = [c \in Context |-> 0]
  /\ era = [c \in Context |-> 0]
  /\ order = [c \in Context |-> 0]
  /\ named = [c \in Context |-> {}]
  /\ late = [c \in Context |-> {}]

-----------------------------------------------------------------------------
(* The sizes are powers of two, so handle & (size - 1) is the remainder.   *)
Hash(h, n) == h % n

(* Mutants of Candidate: wrapping to 0; starting the search at the first   *)
(* handle each time.                                                       *)
CandidateFromZero(i)  == (handle_index + i) % (HANDLE_MASK + 1)
CandidateFirst(i)     == (i % HANDLE_MASK) + 1

(* The i-th handle the search tries: 0 is skipped at the wrap-around.      *)
Candidate(i) == ((handle_index - 1 + i) % HANDLE_MASK) + 1

(* slot.resize(n): the contexts stay where they are.                       *)
Resized(n) == [j \in 0 .. n - 1 |-> IF j < size THEN slot[j] ELSE Nil]

(* Mutant of FreeAt: a slot in use is taken for free.                      *)
FreeAtAny(n) == 0 .. n - 1

(* The steps at which a search of a table of n slots meets a free one.     *)
FreeAt(n) ==
  { i \in 0 .. n - 1 : Resized(n)[Hash(Candidate(i), n)] = Nil }

(* handle_register, in one critical section: the table doubles when the    *)
(* search finds no free slot, which the assertion allows up to HANDLE_MASK.*)
HandleRegister(c) ==
  /\ stage[c] = "none"
  /\ \E n \in {size, 2 * size} :
       /\ n # size => FreeAt(size) = {} /\ n - 1 <= HANDLE_MASK
       /\ \E i \in FreeAt(n) :
            /\ \A j \in FreeAt(n) : i <= j
            /\ number' = [number EXCEPT ![c] = Candidate(i)]
            /\ slot' = [Resized(n) EXCEPT ![Hash(Candidate(i), n)] = c]
            /\ handle_index' = Candidate(i) + 1
       /\ size' = n
       /\ era' = [era EXCEPT ![c] = n]
  /\ stage' = [stage EXCEPT ![c] = "registered"]
  /\ order' = [order EXCEPT ![c] = 1 + Cardinality({d \in Context : order[d] > 0})]
  /\ UNCHANGED <<name, named, late>>

(* What ctx->handle holds.                                                 *)
HandleOf(c) == IF stage[c] = "registered" THEN 0 ELSE number[c]

(* handle_grab.                                                            *)
HandleGrab(h) ==
  LET c == slot[Hash(h, size)]
  IN  IF c # Nil /\ HandleOf(c) = h THEN c ELSE Nil

table == <<slot, size, handle_index, name, number, era, order, named, late>>

(* create assigns the handle, then the queue, then runs init.              *)
SetHandle(c) ==
  /\ stage[c] = "registered"
  /\ stage' = [stage EXCEPT ![c] = "numbered"]
  /\ UNCHANGED table

SetQueue(c) ==
  /\ stage[c] = "numbered"
  /\ stage' = [stage EXCEPT ![c] = "init"]
  /\ UNCHANGED table

InitReturns(c) ==
  /\ stage[c] = "init"
  /\ \E result \in {"live", "failed"} : stage' = [stage EXCEPT ![c] = result]
  /\ UNCHANGED table

(* handle_namehandle of a handle that was c's, by c in its init or by      *)
(* anyone who was told it, also when create has given c up: start() names  *)
(* the logger whatever its init returned.  The first to take a name keeps  *)
(* it.                                                                     *)
HandleNamehandle(c, n) ==
  /\ stage[c] \in {"init", "live", "failed", "retired"}
  /\ \A pair \in name : pair[1] # n
  /\ name' = name \cup {<<n, number[c]>>}
  /\ IF stage[c] = "retired"
       THEN late' = [late EXCEPT ![c] = @ \cup {n}] /\ UNCHANGED named
       ELSE named' = [named EXCEPT ![c] = @ \cup {n}] /\ UNCHANGED late
  /\ UNCHANGED <<slot, size, handle_index, stage, number, era, order>>

(* Mutant of HandleRetire: the context is not moved out of its slot.       *)
HandleRetireKeepsSlot(c) ==
  /\ stage[c] = "failed"
  /\ name' = { pair \in name : pair[2] # number[c] }
  /\ stage' = [stage EXCEPT ![c] = "retired"]
  /\ UNCHANGED <<slot, size, handle_index, number, era, order, named,
                 late>>

(* Mutant of HandleRetire: the names are left alone.                       *)
HandleRetireKeepsNames(c) ==
  LET h == number[c] IN
  /\ stage[c] = "failed"
  /\ slot' = IF HandleGrab(h) # Nil
               THEN [slot EXCEPT ![Hash(h, size)] = Nil] ELSE slot
  /\ stage' = [stage EXCEPT ![c] = "retired"]
  /\ UNCHANGED <<size, handle_index, name, number, era, order, named, late>>

(* handle_retire when create gives up: the context leaves the slot its     *)
(* handle leads to, if it is there, and the first of its names that the    *)
(* iteration meets is erased.                                              *)
HandleRetire(c) ==
  LET h    == number[c]
      mine == { pair \in name : pair[2] = h }
  IN
  /\ stage[c] = "failed"
  /\ IF HandleGrab(h) # Nil
       THEN /\ slot' = [slot EXCEPT ![Hash(h, size)] = Nil]
            /\ IF mine = {}
                 THEN UNCHANGED name
                 ELSE \E pair \in mine : name' = name \ {pair}
       ELSE UNCHANGED <<slot, name>>
  /\ stage' = [stage EXCEPT ![c] = "retired"]
  /\ UNCHANGED <<size, handle_index, number, era, order, named, late>>

Next ==
  \E c \in Context :
    \/ HandleRegister(c) \/ SetHandle(c) \/ SetQueue(c) \/ InitReturns(c)
    \/ \E n \in Name : HandleNamehandle(c, n)
    \/ HandleRetire(c)

Spec == Init /\ [][Next]_vars

-----------------------------------------------------------------------------
TypeOK ==
  /\ size \in Nat \ {0}
  /\ slot \in [0 .. size - 1 -> Context \cup {Nil}]
  /\ handle_index \in 1 .. HANDLE_MASK + 1
  /\ name \in SUBSET Names
  /\ stage \in [Context -> Stages]
  /\ number \in [Context -> {0} \cup Handle]
  /\ era \in [Context -> Nat]
  /\ order \in [Context -> Nat]
  /\ named \in [Context -> SUBSET Name]
  /\ late \in [Context -> SUBSET Name]

Registered == { c \in Context : stage[c] \notin {"none", "retired"} }

(* Nobody carries the handle of c since before the table grew to the size  *)
(* it had when c was registered.                                           *)
Sole(c) ==
  \A d \in Context : 0 < era[d] /\ era[d] < era[c] => number[d] # number[c]

(* A context that create has registered is in the table exactly once, and  *)
(* one that is not there is not: neither the search nor the growth         *)
(* overwrites a slot in use (cpp_sk.cpp:143-156).  Only a context that     *)
(* carries the same handle since before a growth can drive it out.         *)
InOneSlot ==
  \A c \in Context :
    /\ c \in Registered /\ Sole(c) => \E i \in 0 .. size - 1 : slot[i] = c
    /\ stage[c] = "none" => \A i \in 0 .. size - 1 : slot[i] # c
    /\ \A i, j \in 0 .. size - 1 : slot[i] = c /\ slot[j] = c => i = j

(* A context registered since the table last grew, whose handle nobody has *)
(* from before the growth, is found by its handle until it is retired,     *)
(* also after handles have wrapped around, and it is out of the table once *)
(* it is retired.                                                          *)
FoundSinceGrowth ==
  \A c \in Context :
    era[c] = size /\ Sole(c) =>
      /\ c \in Registered => slot[Hash(number[c], size)] = c
      /\ stage[c] = "retired" => \A i \in 0 .. size - 1 : slot[i] # c

(* Every registered context is found by its handle.  The growth does not   *)
(* move contexts to the slots their handles lead to, so this fails as soon *)
(* as the table has grown (cpp_sk.cpp:156).                                *)
Found ==
  \A c \in Registered : stage[c] # "registered" => HandleGrab(HandleOf(c)) = c

(* Messages addressed to no service (handle 0, what handle_finename        *)
(* returns for an unknown name) reach at most a context that create has    *)
(* not numbered yet: no service ever gets the handle 0, nor one beyond the *)
(* harbor bits, at the wrap-around.                                        *)
ZeroIsNoService ==
  HandleGrab(0) # Nil => stage[HandleGrab(0)] = "registered"

(* A handle is not handed out again soon: as many registrations lie        *)
(* between two uses as the handles hold tables, so a message to a service  *)
(* that is gone does not reach the next service that is created.           *)
NotReusedSoon ==
  \A c, d \in Context :
    0 < order[c] /\ order[c] < order[d] /\ number[c] = number[d] =>
      (order[d] - order[c]) * size >= HANDLE_MASK

(* The names the handle of a context was ever given.                       *)
Given(c) == named[c] \cup late[c]

(* No handle was ever given two.                                           *)
OneName ==
  \A c, d \in Context : number[c] = number[d] =>
    \A m \in Given(c), n \in Given(d) : m = n

(* As long as that is so, a context that fails in init leaves no name      *)
(* behind (handle_retire erases one, cpp_sk.cpp:168-173): a name that      *)
(* leads to its handle was given when it had been retired, or to another   *)
(* context with that handle.                                               *)
NoStaleName ==
  OneName =>
    \A c \in Context : era[c] = size /\ Sole(c) /\ stage[c] = "retired" =>
      \A pair \in name : pair[2] = number[c] =>
        \/ pair[1] \in late[c]
        \/ \E d \in Context \ {c} :
             number[d] = number[c] /\ pair[1] \in Given(d)
=============================================================================
