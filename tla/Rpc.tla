--------------------------------- MODULE Rpc --------------------------------
(***************************************************************************)
(* Sessions: how a service of cpp_sk waits for answers.  module_mid_t      *)
(* (cpp_sk.h) keeps a callback for every timeout it has set and every      *)
(* request it has sent, under a session number of the context;             *)
(* cpp_rpc_service (cpp_rpc.h) sends the requests and answers them.        *)
(*                                                                         *)
(* A service runs on one worker at a time (Dispatch!ExclusiveOwner), and a *)
(* message that is pushed is handled in the end (Dispatch!Delivered), in   *)
(* no particular order (Mailbox!Fifo fails).  A timer fires at most once,  *)
(* at some time (Timer!Punctual), and may be passed over for good          *)
(* (Timer!NonePassedOver fails).  Calls are numbered: what a callback is   *)
(* called with is told apart by the call it belongs to.                    *)
(***************************************************************************)
EXTENDS Integers, Sequences

CONSTANTS
  Service,
  Rpc,          (* the services that are cpp_rpc_services                   *)
  Kind,         (* the requests that are made: see Answer                   *)
  MAX_SESSION,  (* largest session number: 2^31 - 1 in the code             *)
  MayLose,      (* services the growth of the handle table may hide         *)
  MaxCall,      (* bound: timeouts and requests in one behaviour            *)
  Late          (* the calls whose timer the wheel may pass over            *)

ASSUME SessionAssumption == MAX_SESSION \in Nat \ {0}
ASSUME ServiceAssumption == Rpc \subseteq Service /\ MayLose \subseteq Service
ASSUME KindAssumption    == Kind \subseteq {"value", "void", "unknown", "params"}
ASSUME MaxCallAssumption == MaxCall \in Nat
ASSUME LateAssumption    == Late \subseteq 1 .. MaxCall

VARIABLES
  session_id,     (* context_t::session_id                                  *)
  response_cbs,   (* by service and session: the call, 0 for no entry       *)
  timeout_nodes,
  setting,        (* the timeout a service is inside of, 0 for none         *)
  timers,         (* the messages the timer will push                       *)
  box,            (* the messages pushed and not yet handled                *)
  lost,           (* the services handle_grab no longer finds               *)
  broken,         (* a null pointer has been dereferenced                   *)
  (* History.                                                               *)
  call,           (* the calls made: owner, whom it asked, what             *)
  ran,            (* the requests whose function was run                    *)
  got,            (* what the callback of each call was called with         *)
  clash           (* a session was given out that was still waited for      *)

vars == <<session_id, response_cbs, timeout_nodes, setting, timers, box,
          lost, broken, call, ran, got, clash>>

Session == 1 .. MAX_SESSION
Call    == 1 .. MaxCall

(* The fields of rpc_result_t: the status, and whether bytes follow.       *)
Result == [status : {0, -2, -3}, len : {0, 1}]
Silent == [status |-> 0, len |-> -1]   (* no string at all: a timer's      *)

Request(t, s, n, k, c) ==
  [t |-> "cpp", to |-> t, source |-> s, session |-> n, data |-> k, call |-> c]

Response(s, n, d, c) ==
  [t |-> "response", to |-> s, source |-> s, session |-> n, data |-> d, call |-> c]

Init ==
  /\ session_id = [s \in Service |-> 0]
  /\ response_cbs = [s \in Service |-> [n \in Session |-> 0]]
  /\ timeout_nodes = [s \in Service |-> [n \in Session |-> 0]]
  /\ setting = [s \in Service |-> 0]
  /\ timers = {}
  /\ box = {}
  /\ lost = {}
  /\ broken = FALSE
  /\ call = << >>
  /\ ran = {}
  /\ got = [c \in Call |-> << >>]
  /\ clash = FALSE

-----------------------------------------------------------------------------
(* newsession: after the largest int the next number would be negative,    *)
(* and 1 is taken instead.                                                 *)
NextSession(n) == IF n = MAX_SESSION THEN 1 ELSE n + 1

(* Service s makes a call: its number and session are taken.  A service    *)
(* that has been lost goes on with the callback it was in.                 *)
Open(s, n, target, k) ==
  /\ Len(call) < MaxCall
  /\ setting[s] = 0
  /\ n = NextSession(session_id[s])
  /\ session_id' = [session_id EXCEPT ![s] = n]
  /\ clash' = (clash \/ response_cbs[s][n] # 0 \/ timeout_nodes[s][n] # 0)
  /\ call' = Append(call, [owner |-> s, target |-> target, kind |-> k])

(* module_mid_t::timeout up to timer::timeout, which adds a timer or, when *)
(* the time is not positive, pushes the answer at once.  If the service is *)
(* lost nothing is pushed, and timeout returns -1 and stores nothing.      *)
Timeout(s) ==
  \E n \in Session :
    LET m == Response(s, n, Silent, Len(call) + 1) IN
    /\ Open(s, n, s, "timeout")
    /\ \/ /\ timers' = timers \cup {m}
          /\ setting' = [setting EXCEPT ![s] = Len(call')]
          /\ UNCHANGED box
       \/ /\ s \notin lost
          /\ box' = box \cup {m}
          /\ setting' = [setting EXCEPT ![s] = Len(call')]
          /\ UNCHANGED timers
       \/ /\ s \in lost
          /\ UNCHANGED <<setting, timers, box>>
    /\ UNCHANGED <<response_cbs, timeout_nodes, lost, broken, ran, got>>

(* ... and its end: only now the callback is stored.                       *)
StoreTimeout(s) ==
  /\ setting[s] # 0
  /\ timeout_nodes' = [timeout_nodes EXCEPT ![s][session_id[s]] = setting[s]]
  /\ setting' = [setting EXCEPT ![s] = 0]
  /\ UNCHANGED <<session_id, response_cbs, timers, box, lost, broken, call,
                 ran, got, clash>>

(* The handle table may grow and no longer lead to s (HandleStorage!Found).*)
(* A service with messages is not lost but breaks the process: module      *)
(* ContextLife.                                                            *)
CanLose(s) ==
  s \in MayLose \ lost /\ \A m \in box : m.to # s

(* cpp_rpc_service::send_request to a service that handle_grab finds; else *)
(* it returns false and changes nothing.  context_push looks the service   *)
(* up once more, and may not find it again.                                *)
SendRequest(s, t, k) ==
  \E n \in Session :
    /\ t \notin lost
    /\ Open(s, n, t, k)
    /\ response_cbs' = [response_cbs EXCEPT ![s][n] = Len(call')]
    /\ \/ /\ box' = box \cup {Request(t, s, n, k, Len(call'))}
          /\ UNCHANGED lost
       \/ /\ CanLose(t)
          /\ lost' = lost \cup {t}
          /\ UNCHANGED box
    /\ UNCHANGED <<timeout_nodes, setting, timers, broken, ran, got>>

(* Mutant of TimerDispatch: the node stays in the wheel.                   *)
TimerDispatchAgain(m) ==
  /\ box' = IF m.to \in lost THEN box ELSE box \cup {m}
  /\ UNCHANGED <<session_id, response_cbs, timeout_nodes, setting, timers,
                 lost, broken, call, ran, got, clash>>

(* timer::dispatch.                                                        *)
TimerDispatch(m) ==
  /\ timers' = timers \ {m}
  /\ box' = IF m.to \in lost THEN box ELSE box \cup {m}
  /\ UNCHANGED <<session_id, response_cbs, timeout_nodes, setting, lost,
                 broken, call, ran, got, clash>>

-----------------------------------------------------------------------------
(* Mutant of Answer: rpc_call_func forgets that the parameters were bad.   *)
AnswerOptimist(k) ==
  [ status |-> IF k = "unknown" THEN -2 ELSE 0,
    len    |-> IF k = "value" THEN 1 ELSE 0 ]

(* on_rpc_call and rpc_call_func on what rpc_encode produces: the function *)
(* returns a value or nothing, is not in the router (-2), or does not get  *)
(* the parameters it can parse (-3).  A header that does not parse would   *)
(* be answered by an empty string; rpc_encode makes none.                  *)
Answer(k) ==
  [ status |-> CASE k = "unknown" -> -2 [] k = "params" -> -3 [] OTHER -> 0,
    len    |-> IF k = "value" THEN 1 ELSE 0 ]

Runs(k) == k \in {"value", "void"}

(* rpc_result as the caller reads it.                                      *)
has_error(r) == r.status # 0
has_value(r) == r.len > 0

(* Mutant of Responds: only calls that ran are answered.                   *)
RespondsIfRun(m) == m.to \in Rpc /\ m.source \notin lost /\ Runs(m.data)

(* The response is context_pushed to the caller, if it is found.           *)
Responds(m) == m.to \in Rpc /\ m.source \notin lost

(* on_rpc_cpp: a cpp_rpc_service answers, any other service does nothing.  *)
OnRpcCpp(m) ==
  /\ m.t = "cpp"
  /\ ran' = IF m.to \in Rpc /\ Runs(m.data) THEN ran \cup {m.call} ELSE ran
  /\ box' = (box \ {m}) \cup
              {r \in {Response(m.source, m.session, Answer(m.data), m.call)} :
                 Responds(m)}
  /\ UNCHANGED <<response_cbs, timeout_nodes, got, broken>>

(* Callback c is called because of m.                                      *)
CallBack(c, m) ==
  got' = [got EXCEPT ![c] = Append(@, [call |-> m.call, data |-> m.data])]

(* Mutant of Erase: the callback stays in the table.                       *)
EraseNot(cbs, s, n) == cbs

Erase(cbs, s, n) == [cbs EXCEPT ![s][n] = 0]

(* on_response: a request's callback first, else a timeout's, else         *)
(* nothing.  The entry goes before the callback is called.  A request's    *)
(* callback reads a string that a timer's message does not have.           *)
OnResponse(m) ==
  LET s == m.to
      n == m.session
  IN
  /\ m.t = "response"
  /\ box' = box \ {m}
  /\ IF response_cbs[s][n] # 0
       THEN /\ CallBack(response_cbs[s][n], m)
            /\ response_cbs' = Erase(response_cbs, s, n)
            /\ broken' = (m.data = Silent)
            /\ UNCHANGED timeout_nodes
       ELSE IF timeout_nodes[s][n] # 0
       THEN /\ CallBack(timeout_nodes[s][n], m)
            /\ timeout_nodes' = Erase(timeout_nodes, s, n)
            /\ UNCHANGED <<response_cbs, broken>>
       ELSE UNCHANGED <<response_cbs, timeout_nodes, got, broken>>
  /\ UNCHANGED ran

(* module_mid_t::cb, on a worker that serves the service.                  *)
Handle(m) ==
  /\ setting[m.to] = 0
  /\ OnRpcCpp(m) \/ OnResponse(m)
  /\ UNCHANGED <<session_id, setting, timers, lost, call, clash>>

Lose(s) ==
  /\ CanLose(s)
  /\ lost' = lost \cup {s}
  /\ UNCHANGED <<session_id, response_cbs, timeout_nodes, setting, timers,
                 box, broken, call, ran, got, clash>>

Next ==
  /\ ~ broken
  /\ \/ \E s \in Service : Timeout(s) \/ StoreTimeout(s) \/ Lose(s)
     \/ \E s, t \in Service, k \in Kind : SendRequest(s, t, k)
     \/ \E m \in timers : TimerDispatch(m)
     \/ \E m \in box : Handle(m)

Spec == Init /\ [][Next]_vars

(* What becomes of a call's messages is up to the workers, which serve     *)
(* every service, and to the timer thread: it dispatches a timer that is   *)
(* due in the first TIME_NEAR * TIME_LEVEL ticks or in the window it was   *)
(* set in (Timer!OnTime); the others it may pass over.                     *)
Progress(c) ==
  \/ c \notin Late /\ \E m \in timers : m.call = c /\ TimerDispatch(m)
  \/ \E m \in box : m.call = c /\ Handle(m)

Fairness ==
  /\ \A s \in Service : WF_vars(~ broken /\ StoreTimeout(s))
  /\ \A c \in Call : WF_vars(~ broken /\ Progress(c))

FairSpec == Spec /\ Fairness

-----------------------------------------------------------------------------
Message ==
  [ t : {"cpp"}, to : Service, source : Service, session : Session,
    data : Kind, call : Call ]
  \cup
  [ t : {"response"}, to : Service, source : Service, session : Session,
    data : Result \cup {Silent}, call : Call ]

TypeOK ==
  /\ session_id \in [Service -> 0 .. MAX_SESSION]
  /\ response_cbs \in [Service -> [Session -> 0 .. MaxCall]]
  /\ timeout_nodes \in [Service -> [Session -> 0 .. MaxCall]]
  /\ setting \in [Service -> 0 .. MaxCall]
  /\ timers \in SUBSET Message
  /\ box \in SUBSET Message
  /\ lost \in SUBSET Service
  /\ broken \in BOOLEAN
  /\ call \in Seq([owner : Service, target : Service, kind : Kind \cup {"timeout"}])
  /\ Len(call) <= MaxCall
  /\ ran \in SUBSET Call
  /\ got \in [Call -> Seq([call : Call, data : Result \cup {Silent}])]
  /\ clash \in BOOLEAN

Calls == 1 .. Len(call)
InFlight == box \cup timers

(* The table a call waits in.                                              *)
Table(c) == IF call[c].kind = "timeout" THEN timeout_nodes ELSE response_cbs

Waiting(c) == \E n \in Session : Table(c)[call[c].owner][n] = c

Answerable(c) == call[c].kind = "timeout" \/ call[c].target \in Rpc

Cut(c) == c \in Calls /\ {call[c].owner, call[c].target} \cap lost # {}

(* Whoever calls is called back at most once, and with the answer to this  *)
(* very call, although requests and timeouts share one counter that wraps  *)
(* around, and answers overtake one another -- as long as no session is    *)
(* given out again that is still waited for (newsession does not look).    *)
OwnAnswer ==
  ~ clash =>
    /\ ~ broken
    /\ \A c \in Calls : /\ Len(got[c]) <= 1
                        /\ got[c] # << >> => got[c][1].call = c

(* A caller is told of an error exactly when its function was not run, and *)
(* sees a value only of a function that returns one.                       *)
ErrorIffNotRun ==
  \A c \in Calls :
    (* The answer has reached its own callback.                            *)
    Len(got[c]) = 1 /\ got[c][1].call = c /\ call[c].kind # "timeout" =>
      /\ has_error(got[c][1].data) <=> c \notin ran
      /\ has_value(got[c][1].data) => call[c].kind = "value"

(* Nothing leaks and nothing is dropped: a callback that waits has its     *)
(* request, its answer or its timer under way, unless nobody answers; and  *)
(* an answer under way has its callback, also when the timer fires before  *)
(* timeout() has stored it (cpp_sk.h:577-586).                             *)
WaitsForSomething ==
  ~ clash =>
    /\ \A c \in Calls :
         Waiting(c) /\ Answerable(c) /\ ~ Cut(c) =>
           \E m \in InFlight : m.call = c
    /\ \A m \in InFlight :
         m.t = "response" => \/ setting[m.to] = m.call
                             \/ Table(m.call)[m.to][m.session] = m.call

(* The timer of the call lies in the wheel, and timer_shift may pass it    *)
(* over (cpp_sk.cpp:522-531, Timer!NonePassedOver).                        *)
PassedOver(c) == c \in Late /\ \E m \in timers : m.call = c

(* Every call is called back in the end: each timeout whose timer the      *)
(* wheel does not pass over, and each request to a cpp_rpc_service --      *)
(* unless the table has lost one of the two, or a session was given out    *)
(* twice.                                                                  *)
Answered ==
  \A c \in Call :
    (c \in Calls /\ Answerable(c)) ~>
      (got[c] # << >> \/ PassedOver(c) \/ Cut(c) \/ clash)
=============================================================================
