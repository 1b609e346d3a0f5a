------------------------------ MODULE RpcProofs -----------------------------
(***************************************************************************)
(* Theorems about what waits for an answer, the clock by which a timeout   *)
(* is answered, the wheel that holds it and the thread that looks for      *)
(* callbacks that never return: modules Rpc, Clock, Timer and Monitor.     *)
(*                                                                         *)
(* For any number of services, sessions and calls: whoever calls is called *)
(* back with the answer to its own call, an error means that the function  *)
(* was not run, and no callback waits for nothing.                         *)
(*                                                                         *)
(* For every unit of the clock, whatever the bounds of the runs: timers    *)
(* fire early at most by the wheel's lag when they were set, and the drift *)
(* is bounded.                                                             *)
(*                                                                         *)
(* For every size of the wheel and any timers and timeouts: each waiting   *)
(* timer is filed once, fires at the tick its node expires at and, if it   *)
(* is due early enough, is not passed over.                                *)
(*                                                                         *)
(* For any number of workers and messages: a callback that hangs is marked *)
(* by the second check that finds it, and none is that moved in between.   *)
(***************************************************************************)
EXTENDS Rpc, Clock, Timer, Monitor, WellFoundedInduction, TLAPS

IsTimeout(c) == call[c].kind = "timeout"

(* What the answer to call c carries.                                      *)
Reply(c) == IF IsTimeout(c) THEN Silent ELSE Answer(call[c].kind)

(* No request of call c is on its way any more, and it was run or not.     *)
Decided(c) ==
  /\ \A m \in InFlight : m.t = "cpp" => m.call # c
  /\ c \in ran <=> Runs(call[c].kind)

(* A message is what its call makes it, and there is one for each call.    *)
Flight ==
  /\ \A m \in InFlight :
       /\ m.call \in Calls
       /\ m.source = call[m.call].owner
       /\ m.t = "cpp" => /\ m \notin timers /\ ~ IsTimeout(m.call)
                         /\ m.to = call[m.call].target
                         /\ m.data = call[m.call].kind
                         /\ m.call \notin ran
       /\ m.t = "response" => /\ m.to = call[m.call].owner
                              /\ m.data = Reply(m.call)
                              /\ ~ IsTimeout(m.call) => Decided(m.call)
  /\ \A m, o \in InFlight : m.call = o.call => m = o
  /\ box \cap timers = {}

(* What has been handed to callbacks is the answer to some call.           *)
Past ==
  /\ ran \subseteq Calls
  /\ \A c \in Call \ Calls : got[c] = << >>
  /\ \A c \in Call : \A i \in 1 .. Len(got[c]) :
       LET d == got[c][i].call IN
       /\ d \in Calls
       /\ got[c][i].data = Reply(d)
       /\ ~ IsTimeout(d) => Decided(d)

(* An entry of a table is a call of that service and that kind.            *)
Entries ==
  /\ \A s \in Service, n \in Session :
       /\ response_cbs[s][n] # 0 =>
            LET c == response_cbs[s][n] IN
            c \in Calls /\ call[c].owner = s /\ ~ IsTimeout(c)
       /\ timeout_nodes[s][n] # 0 =>
            LET c == timeout_nodes[s][n] IN
            c \in Calls /\ call[c].owner = s /\ IsTimeout(c)
  /\ \A s \in Service : setting[s] # 0 =>
       /\ setting[s] \in Calls /\ IsTimeout(setting[s])
       /\ call[setting[s]].owner = s
       /\ session_id[s] \in Session

(* While no session has been given out twice ...                           *)
(* a session leads to one call, and that call has not been called back;    *)
OneCall ==
  \A s \in Service, n \in Session :
    /\ response_cbs[s][n] = 0 \/ timeout_nodes[s][n] = 0
    /\ response_cbs[s][n] # 0 => got[response_cbs[s][n]] = << >>
    /\ timeout_nodes[s][n] # 0 => got[timeout_nodes[s][n]] = << >>

(* a call has one session;                                                 *)
OneSession ==
  \A s \in Service, n, o \in Session :
    /\ response_cbs[s][n] # 0 /\ response_cbs[s][n] = response_cbs[s][o] => n = o
    /\ timeout_nodes[s][n] # 0 /\ timeout_nodes[s][n] = timeout_nodes[s][o] => n = o

(* the session of a timeout being set is free, and its timer carries it;   *)
Setting ==
  \A s \in Service : setting[s] # 0 =>
    /\ got[setting[s]] = << >>
    /\ response_cbs[s][session_id[s]] = 0
    /\ timeout_nodes[s][session_id[s]] = 0
    /\ \A n \in Session : timeout_nodes[s][n] # setting[s]
    /\ \A m \in InFlight : m.call = setting[s] => m.session = session_id[s]
    /\ s \in lost \/ \E m \in InFlight : m.call = setting[s]

(* a message leads to the entry of its call;                               *)
Belongs ==
  \A m \in InFlight :
    IF IsTimeout(m.call)
      THEN setting[m.to] = m.call \/ timeout_nodes[m.to][m.session] = m.call
      ELSE response_cbs[m.source][m.session] = m.call

(* a call is called back once, with its own answer;                        *)
Once ==
  \A c \in Calls : /\ Len(got[c]) <= 1
                   /\ got[c] # << >> => got[c][1].call = c

(* and what waits has something to wait for.                               *)
Fed ==
  \A c \in Calls :
    Waiting(c) /\ Answerable(c) /\ ~ Cut(c) => \E m \in InFlight : m.call = c

Apart == ~ broken /\ OneCall /\ OneSession /\ Setting /\ Belongs /\ Once /\ Fed

IInv == TypeOK /\ Flight /\ Past /\ Entries /\ (~ clash => Apart)

-----------------------------------------------------------------------------
LEMMA InitInv == Init => IInv
<1> SUFFICES ASSUME Init PROVE IInv
  OBVIOUS
<1>1. InFlight = {} /\ Calls = {}
  BY DEF Init, InFlight, Calls
<1>2. TypeOK
  <2>1. 0 \in 0 .. MAX_SESSION /\ 0 \in 0 .. MaxCall /\ 0 <= MaxCall
    BY SessionAssumption, MaxCallAssumption
  <2>2. /\ session_id \in [Service -> 0 .. MAX_SESSION]
        /\ response_cbs \in [Service -> [Session -> 0 .. MaxCall]]
        /\ timeout_nodes \in [Service -> [Session -> 0 .. MaxCall]]
        /\ setting \in [Service -> 0 .. MaxCall]
    BY <2>1 DEF Init
  <2>3. /\ timers \in SUBSET Message /\ box \in SUBSET Message
        /\ lost \in SUBSET Service /\ ran \in SUBSET Call
        /\ broken \in BOOLEAN /\ clash \in BOOLEAN
    BY DEF Init
  <2>4. /\ call \in Seq([owner : Service, target : Service,
                         kind : Kind \cup {"timeout"}])
        /\ Len(call) <= MaxCall
    BY <2>1 DEF Init
  <2>5. got \in [Call -> Seq([call : Call, data : Result \cup {Silent}])]
    BY DEF Init
  <2> QED BY <2>2, <2>3, <2>4, <2>5 DEF TypeOK
<1>3. Flight
  BY <1>1 DEF Flight, Init
<1>4. Past /\ Entries
  BY <1>1 DEF Past, Entries, Init
<1>5. Apart
  BY <1>1 DEF Apart, OneCall, OneSession, Setting, Belongs, Once, Fed, Init
<1> QED BY <1>2, <1>3, <1>4, <1>5 DEF IInv

(* The fields of a message on its way.                                     *)
LEMMA Fields ==
  ASSUME TypeOK, NEW m \in InFlight
  PROVE  /\ m \in Message
         /\ m.t \in {"cpp", "response"} /\ m.to \in Service /\ m.source \in Service
         /\ m.session \in Session /\ m.call \in Call /\ m.call # 0
         /\ m.t = "response" => m.data \in Result \cup {Silent}
<1>1. m \in Message
  BY DEF TypeOK, InFlight
<1>2. CASE m \in [ t : {"cpp"}, to : Service, source : Service, session : Session,
                  data : Kind, call : Call ]
  BY <1>1, <1>2 DEF Call
<1>3. CASE m \in [ t : {"response"}, to : Service, source : Service,
                  session : Session, data : Result \cup {Silent}, call : Call ]
  BY <1>1, <1>3 DEF Call
<1> QED BY <1>1, <1>2, <1>3 DEF Message

LEMMA CallFields ==
  ASSUME TypeOK, NEW d \in Calls
  PROVE  /\ call[d].owner \in Service /\ call[d].target \in Service
         /\ call[d].kind \in Kind \cup {"timeout"}
         /\ d \in Call
<1> DEFINE R == [owner : Service, target : Service, kind : Kind \cup {"timeout"}]
<1>1. call \in Seq(R) /\ Len(call) <= MaxCall /\ Len(call) \in Nat
  BY DEF TypeOK
<1>2. call[d] \in R
  <2> HIDE DEF R
  <2> QED BY <1>1 DEF Calls
<1>3. d \in Call
  BY <1>1, MaxCallAssumption DEF Calls, Call
<1> QED BY <1>2, <1>3

(* What Open does: call c is new, and nothing else has changed.            *)
Opens(c, s, n, t, k) ==
  /\ c \in Call /\ c \notin Calls /\ c # 0
  /\ Calls' = Calls \cup {c} /\ Len(call') = c /\ Len(call') <= MaxCall
  /\ call'[c] = [owner |-> s, target |-> t, kind |-> k]
  /\ \A d \in Calls : call'[d] = call[d]
  /\ call' \in Seq([owner : Service, target : Service,
                    kind : Kind \cup {"timeout"}])
  /\ session_id' \in [Service -> 0 .. MAX_SESSION]
  /\ session_id'[s] = n
  /\ \A r \in Service \ {s} : session_id'[r] = session_id[r]
  /\ clash' \in BOOLEAN
  /\ ~ clash' => /\ ~ clash
                 /\ response_cbs[s][n] = 0 /\ timeout_nodes[s][n] = 0

LEMMA Opened ==
  ASSUME TypeOK, NEW s \in Service, NEW n \in Session, NEW t \in Service,
         NEW k \in Kind \cup {"timeout"}, Open(s, n, t, k)
  PROVE  Opens(Len(call) + 1, s, n, t, k)
<1> DEFINE c == Len(call) + 1
<1>1. /\ Len(call) \in Nat /\ Len(call) < MaxCall /\ MaxCall \in Nat
      /\ call' = Append(call, [owner |-> s, target |-> t, kind |-> k])
  BY MaxCallAssumption DEF Open, TypeOK
<1>2. /\ c \in Call /\ c \notin Calls /\ c # 0
      /\ Calls' = Calls \cup {c} /\ Len(call') = c /\ Len(call') <= MaxCall
      /\ call'[c] = [owner |-> s, target |-> t, kind |-> k]
      /\ \A d \in Calls : call'[d] = call[d]
      /\ call' \in Seq([owner : Service, target : Service,
                        kind : Kind \cup {"timeout"}])
  BY <1>1 DEF Call, Calls, TypeOK
<1>3. /\ session_id' \in [Service -> 0 .. MAX_SESSION]
      /\ session_id'[s] = n
      /\ \A r \in Service \ {s} : session_id'[r] = session_id[r]
  <2>1. /\ session_id' = [session_id EXCEPT ![s] = n]
        /\ session_id \in [Service -> 0 .. MAX_SESSION]
    BY DEF Open, TypeOK
  <2>2. n \in 0 .. MAX_SESSION
    BY SessionAssumption DEF Session
  <2> QED BY <2>1, <2>2
<1>4. /\ clash' \in BOOLEAN
      /\ ~ clash' => /\ ~ clash
                     /\ response_cbs[s][n] = 0 /\ timeout_nodes[s][n] = 0
  BY DEF Open, TypeOK
<1> QED BY <1>2, <1>3, <1>4 DEF Opens

(* What was decided stays so when calls and answers are added.             *)
LEMMA DecidedKept ==
  ASSUME NEW c \in Calls, Decided(c), call'[c] = call[c], ran' = ran,
         \A m \in InFlight' : m.t = "cpp" /\ m.call = c => m \in InFlight
  PROVE  Decided(c)'
  BY DEF Decided

(* timeout() when nothing is pushed: the call is numbered, and that is all. *)
LEMMA TimeoutFailsInv ==
  ASSUME IInv, NEW s \in Service, NEW n \in Session, Open(s, n, s, "timeout"),
         UNCHANGED <<setting, timers, box, response_cbs, timeout_nodes, lost,
                     broken, ran, got>>
  PROVE  IInv'
<1>1. PICK c : c = Len(call) + 1
  OBVIOUS
<1>2. Opens(c, s, n, s, "timeout")
  <2>1. TypeOK /\ "timeout" \in Kind \cup {"timeout"}
    BY DEF IInv
  <2> QED BY <1>1, <2>1, Opened
<1>3. InFlight' = InFlight /\ setting[s] = 0
  BY DEF InFlight, Open
<1>4. \A o \in InFlight : o.call # c /\ o.call \in Calls
  BY <1>2 DEF IInv, Flight, Opens
<1>5. TypeOK'
  BY <1>2 DEF IInv, TypeOK, Opens
<1>6. IsTimeout(c)' /\ \A d \in Calls : /\ IsTimeout(d)' <=> IsTimeout(d)
                                        /\ Reply(d)' = Reply(d)
  BY <1>2 DEF IsTimeout, Reply, Opens
<1>7. \A d \in Calls : Decided(d) => Decided(d)'
  BY <1>2, <1>3, DecidedKept DEF Opens
<1>8. Flight'
  BY <1>2, <1>3, <1>4, <1>6, <1>7 DEF IInv, Flight, Opens
<1>9. Past'
  BY <1>2, <1>6, <1>7 DEF IInv, Past, Opens
<1>10. Entries'
  <2>1. \A r \in Service, o \in Session :
          /\ response_cbs[r][o] # 0 =>
               LET d == response_cbs[r][o] IN
               d \in Calls' /\ call'[d].owner = r /\ ~ IsTimeout(d)'
          /\ timeout_nodes[r][o] # 0 =>
               LET d == timeout_nodes[r][o] IN
               d \in Calls' /\ call'[d].owner = r /\ IsTimeout(d)'
    BY <1>2, <1>6 DEF IInv, Entries, Opens
  <2>2. \A r \in Service : setting[r] # 0 =>
          /\ r # s /\ setting[r] \in Calls' /\ IsTimeout(setting[r])'
          /\ call'[setting[r]].owner = r
          /\ session_id'[r] \in Session
    BY <1>2, <1>3, <1>6 DEF IInv, Entries, Opens
  <2> QED BY <2>1, <2>2 DEF Entries
<1>11. ASSUME ~ clash' PROVE Apart'
  <2>1. Apart
    BY <1>2, <1>11 DEF IInv, Opens
  <2>2. got[c] = << >> /\ \A r \in Service, o \in Session :
                            response_cbs[r][o] # c /\ timeout_nodes[r][o] # c
    BY <1>2 DEF IInv, Past, Entries, Opens
  <2>3. OneCall' /\ OneSession'
    BY <2>1 DEF Apart, OneCall, OneSession
  <2>4. Setting'
    BY <1>2, <1>3, <2>1 DEF Apart, Setting, Opens
  <2>5. Belongs'
    BY <1>3, <1>4, <1>6, <2>1 DEF Apart, Belongs
  <2>6. Once'
    BY <1>2, <2>1, <2>2 DEF Apart, Once, Opens
  <2>7. Fed'
    <3> SUFFICES ASSUME NEW d \in Calls', Waiting(d)', Answerable(d)', ~ Cut(d)'
                 PROVE  \E o \in InFlight' : o.call = d
      BY DEF Fed
    <3>1. d # c
      BY <1>2, <2>2 DEF Waiting, Table, Opens
    <3>2. d \in Calls /\ Waiting(d) /\ Answerable(d) /\ ~ Cut(d)
      BY <1>2, <3>1 DEF Waiting, Table, Answerable, Cut, Opens
    <3> QED BY <1>3, <2>1, <3>2 DEF Apart, Fed
  <2> QED BY <2>1, <2>3, <2>4, <2>5, <2>6, <2>7 DEF Apart
<1> QED BY <1>5, <1>8, <1>9, <1>10, <1>11 DEF IInv

(* timeout() as far as it adds the timer or pushes its message.            *)
LEMMA TimeoutSetInv ==
  ASSUME IInv, NEW s \in Service, NEW n \in Session, Open(s, n, s, "timeout"),
         LET m == Response(s, n, Silent, Len(call) + 1) IN
           \/ timers' = timers \cup {m} /\ UNCHANGED box
           \/ box' = box \cup {m} /\ UNCHANGED timers,
         setting' = [setting EXCEPT ![s] = Len(call')],
         UNCHANGED <<response_cbs, timeout_nodes, lost, broken, ran, got>>
  PROVE  IInv'
<1>2. PICK c : c = Len(call) + 1
  OBVIOUS
<1>3. PICK m : m = Response(s, n, Silent, c)
  OBVIOUS
<1>4. Opens(c, s, n, s, "timeout")
  <2>1. TypeOK /\ "timeout" \in Kind \cup {"timeout"}
    BY DEF IInv
  <2> QED BY <1>2, <2>1, Opened
<1>5. /\ m.t = "response" /\ m.to = s /\ m.source = s /\ m.session = n
      /\ m.data = Silent /\ m.call = c /\ m \in Message
  BY <1>3, <1>4 DEF Response, Message, Opens
<1>6. /\ \/ timers' = timers \cup {m} /\ UNCHANGED box
         \/ box' = box \cup {m} /\ UNCHANGED timers
      /\ InFlight' = InFlight \cup {m}
      /\ setting[s] = 0 /\ setting' = [setting EXCEPT ![s] = c]
      /\ setting'[s] = c /\ \A r \in Service \ {s} : setting'[r] = setting[r]
      /\ UNCHANGED <<response_cbs, timeout_nodes, lost, broken, ran, got>>
  BY <1>2, <1>3, <1>4 DEF InFlight, Open, IInv, TypeOK, Opens
<1>7. \A o \in InFlight : o.call # c /\ o.call \in Calls /\ o # m
  BY <1>4, <1>5 DEF IInv, Flight, Opens
<1>8. TypeOK'
  <2>1. setting' \in [Service -> 0 .. MaxCall]
    BY <1>4, <1>6, MaxCallAssumption DEF IInv, TypeOK, Call, Opens
  <2>2. timers' \in SUBSET Message /\ box' \in SUBSET Message
    BY <1>5, <1>6 DEF IInv, TypeOK
  <2> QED BY <1>4, <1>6, <2>1, <2>2 DEF IInv, TypeOK, Opens
<1>9. IsTimeout(c)' /\ \A d \in Calls : /\ IsTimeout(d)' <=> IsTimeout(d)
                                        /\ Reply(d)' = Reply(d)
  BY <1>4 DEF IsTimeout, Reply, Opens
<1>10. \A d \in Calls : Decided(d) => Decided(d)'
  BY <1>4, <1>5, <1>6, DecidedKept DEF Opens
<1>11. Flight'
  <2>1. ASSUME NEW o \in InFlight
        PROVE  /\ o.call \in Calls'
               /\ o.source = call'[o.call].owner
               /\ o.t = "cpp" => /\ o \notin timers' /\ ~ IsTimeout(o.call)'
                                 /\ o.to = call'[o.call].target
                                 /\ o.data = call'[o.call].kind
                                 /\ o.call \notin ran'
               /\ o.t = "response" => /\ o.to = call'[o.call].owner
                                      /\ o.data = Reply(o.call)'
                                      /\ ~ IsTimeout(o.call)' => Decided(o.call)'
    BY <1>4, <1>6, <1>7, <1>9, <1>10 DEF IInv, Flight, Opens
  <2>2. /\ m.call \in Calls' /\ m.source = call'[m.call].owner
        /\ m.to = call'[m.call].owner /\ m.data = Reply(m.call)'
        /\ IsTimeout(m.call)' /\ m.t # "cpp"
    BY <1>4, <1>5, <1>9 DEF Reply, Opens
  <2>3. \A x, o \in InFlight' : x.call = o.call => x = o
    BY <1>5, <1>6, <1>7 DEF IInv, Flight
  <2>4. box' \cap timers' = {}
    BY <1>6, <1>7 DEF IInv, Flight, InFlight
  <2> QED BY <1>6, <2>1, <2>2, <2>3, <2>4 DEF Flight
<1>12. Past'
  BY <1>4, <1>6, <1>9, <1>10 DEF IInv, Past, Opens
<1>13. Entries'
  <2>1. \A r \in Service, o \in Session :
          /\ response_cbs[r][o] # 0 =>
               LET d == response_cbs[r][o] IN
               d \in Calls' /\ call'[d].owner = r /\ ~ IsTimeout(d)'
          /\ timeout_nodes[r][o] # 0 =>
               LET d == timeout_nodes[r][o] IN
               d \in Calls' /\ call'[d].owner = r /\ IsTimeout(d)'
    BY <1>4, <1>6, <1>9 DEF IInv, Entries, Opens
  <2>2. /\ c \in Calls' /\ IsTimeout(c)' /\ call'[c].owner = s
        /\ session_id'[s] \in Session
    BY <1>4, <1>9 DEF Opens
  <2>3. \A r \in Service \ {s} : setting[r] # 0 =>
          /\ setting[r] \in Calls' /\ IsTimeout(setting[r])'
          /\ call'[setting[r]].owner = r
          /\ session_id'[r] \in Session
    BY <1>4, <1>6, <1>9 DEF IInv, Entries, Opens
  <2> QED BY <1>6, <2>1, <2>2, <2>3 DEF Entries
<1>14. ASSUME ~ clash' PROVE Apart'
  <2>1. Apart /\ response_cbs[s][n] = 0 /\ timeout_nodes[s][n] = 0
    BY <1>4, <1>14 DEF IInv, Opens
  <2>2. got[c] = << >> /\ \A r \in Service, o \in Session :
                            response_cbs[r][o] # c /\ timeout_nodes[r][o] # c
    BY <1>4 DEF IInv, Past, Entries, Opens
  <2>3. OneCall' /\ OneSession'
    BY <1>6, <2>1 DEF Apart, OneCall, OneSession
  <2>4. Setting'
    BY <1>4, <1>5, <1>6, <1>7, <2>1, <2>2 DEF Apart, Setting, IInv, Entries, Opens
  <2>5. Belongs'
    <3>1. \A o \in InFlight : setting[o.to] = o.call => setting'[o.to] = o.call
      BY <1>6, <1>7, Fields DEF IInv
    <3> QED BY <1>5, <1>6, <1>7, <1>9, <2>1, <3>1 DEF Apart, Belongs
  <2>6. Once'
    BY <1>4, <1>6, <2>1, <2>2 DEF Apart, Once, Opens
  <2>7. Fed'
    <3> SUFFICES ASSUME NEW d \in Calls', Waiting(d)', Answerable(d)', ~ Cut(d)'
                 PROVE  \E o \in InFlight' : o.call = d
      BY DEF Fed
    <3>1. d # c
      BY <1>4, <1>6, <2>2 DEF Waiting, Table, Opens
    <3>2. d \in Calls /\ Waiting(d) /\ Answerable(d) /\ ~ Cut(d)
      BY <1>4, <1>6, <3>1 DEF Waiting, Table, Answerable, Cut, Opens
    <3> QED BY <1>6, <2>1, <3>2 DEF Apart, Fed
  <2> QED BY <1>6, <2>1, <2>3, <2>4, <2>5, <2>6, <2>7 DEF Apart
<1> QED BY <1>8, <1>11, <1>12, <1>13, <1>14 DEF IInv

LEMMA TimeoutInv ==
  ASSUME IInv, NEW s \in Service, Timeout(s)
  PROVE  IInv'
<1>1. PICK n \in Session :
        LET m == Response(s, n, Silent, Len(call) + 1) IN
        /\ Open(s, n, s, "timeout")
        /\ \/ /\ \/ timers' = timers \cup {m} /\ UNCHANGED box
                 \/ box' = box \cup {m} /\ UNCHANGED timers
              /\ setting' = [setting EXCEPT ![s] = Len(call')]
           \/ UNCHANGED <<setting, timers, box>>
        /\ UNCHANGED <<response_cbs, timeout_nodes, lost, broken, ran, got>>
  BY DEF Timeout
<1>2. CASE UNCHANGED <<setting, timers, box>>
  BY <1>1, <1>2, TimeoutFailsInv
<1>3. CASE ~ UNCHANGED <<setting, timers, box>>
  BY <1>1, <1>3, TimeoutSetInv
<1> QED BY <1>2, <1>3

(* timeout() when it returns: the callback is in the table.                *)
LEMMA StoreTimeoutInv ==
  ASSUME IInv, NEW s \in Service, StoreTimeout(s)
  PROVE  IInv'
<1>1. PICK c : c = setting[s]
  OBVIOUS
<1>2. PICK n : n = session_id[s]
  OBVIOUS
<1>3. /\ c # 0 /\ c \in Calls /\ IsTimeout(c) /\ call[c].owner = s
      /\ n \in Session /\ c \in 0 .. MaxCall
  BY <1>1, <1>2 DEF StoreTimeout, IInv, Entries, TypeOK
<1>4. /\ UNCHANGED <<session_id, response_cbs, timers, box, lost, broken, call,
                     ran, got, clash>>
      /\ InFlight' = InFlight /\ Calls' = Calls
      /\ setting' = [setting EXCEPT ![s] = 0]
      /\ timeout_nodes' = [timeout_nodes EXCEPT ![s][n] = c]
  BY <1>1, <1>2 DEF StoreTimeout, InFlight, Calls
<1>5. /\ setting'[s] = 0 /\ \A r \in Service \ {s} : setting'[r] = setting[r]
      /\ \A r \in Service, o \in Session :
           timeout_nodes'[r][o] = IF r = s /\ o = n THEN c ELSE timeout_nodes[r][o]
  BY <1>3, <1>4 DEF IInv, TypeOK
<1>6. TypeOK'
  <2>1. setting' \in [Service -> 0 .. MaxCall]
    BY <1>4, MaxCallAssumption DEF IInv, TypeOK
  <2>2. timeout_nodes' \in [Service -> [Session -> 0 .. MaxCall]]
    BY <1>3, <1>4 DEF IInv, TypeOK
  <2> QED BY <1>4, <2>1, <2>2 DEF IInv, TypeOK
<1>7. \A d : /\ IsTimeout(d)' <=> IsTimeout(d)
             /\ Reply(d)' = Reply(d)
             /\ Decided(d)' <=> Decided(d)
  BY <1>4 DEF IsTimeout, Reply, Decided
<1>8. Flight' /\ Past'
  <2>1. Flight'
    BY <1>4, <1>7 DEF IInv, Flight
  <2>2. Past'
    BY <1>4, <1>7 DEF IInv, Past
  <2> QED BY <2>1, <2>2
<1>9. Entries'
  BY <1>3, <1>4, <1>5, <1>7 DEF IInv, Entries
<1>10. ASSUME ~ clash' PROVE Apart'
  <2>1. Apart /\ response_cbs[s][n] = 0 /\ timeout_nodes[s][n] = 0 /\ got[c] = << >>
    BY <1>1, <1>2, <1>3, <1>4, <1>10 DEF IInv, Apart, Setting
  <2>2. \A o \in Session : timeout_nodes[s][o] # c
    BY <1>1, <1>3, <2>1 DEF Apart, Setting
  <2>3. OneCall' /\ OneSession'
    BY <1>4, <1>5, <2>1, <2>2 DEF Apart, OneCall, OneSession
  <2>4. Setting'
    BY <1>4, <1>5, <2>1 DEF Apart, Setting
  <2>5. Belongs'
    <3> SUFFICES ASSUME NEW m \in InFlight
                 PROVE  IF IsTimeout(m.call)
                          THEN \/ setting'[m.to] = m.call
                               \/ timeout_nodes'[m.to][m.session] = m.call
                          ELSE response_cbs[m.source][m.session] = m.call
      BY <1>4, <1>7 DEF Belongs
    <3>1. m.to \in Service /\ m.session \in Session /\ m.call # 0
      BY Fields DEF IInv
    <3>2. CASE m.to = s /\ m.call = c
      BY <1>1, <1>2, <1>3, <1>5, <2>1, <3>1, <3>2 DEF Apart, Setting
    <3>3. CASE ~ (m.to = s /\ m.call = c)
      BY <1>1, <1>5, <2>1, <3>1, <3>3 DEF Apart, Belongs
    <3> QED BY <3>2, <3>3
  <2>6. Fed'
    <3> SUFFICES ASSUME NEW d \in Calls, Waiting(d)', Answerable(d)', ~ Cut(d)'
                 PROVE  \E m \in InFlight : m.call = d
      BY <1>4 DEF Fed
    <3>1. Answerable(d) /\ ~ Cut(d)
      BY <1>4 DEF Answerable, Cut, Calls
    <3>2. CASE d = c
      BY <1>1, <1>3, <2>1, <3>1, <3>2 DEF Apart, Setting, Cut
    <3>3. CASE d # c
      <4>1. call[d].owner \in Service
        BY CallFields DEF IInv
      <4>2. Waiting(d)
        BY <1>4, <1>5, <3>3, <4>1 DEF Waiting, Table
      <4> QED BY <2>1, <3>1, <4>2 DEF Apart, Fed
    <3> QED BY <3>2, <3>3
  <2> QED BY <1>4, <2>1, <2>3, <2>4, <2>5, <2>6 DEF Apart, Once
<1> QED BY <1>6, <1>8, <1>9, <1>10 DEF IInv

(* send_request: the request is on its way, or its target is lost.         *)
LEMMA SendRequestInv ==
  ASSUME IInv, NEW s \in Service, NEW t \in Service, NEW k \in Kind,
         SendRequest(s, t, k)
  PROVE  IInv'
<1>1. PICK n \in Session :
        /\ Open(s, n, t, k)
        /\ response_cbs' = [response_cbs EXCEPT ![s][n] = Len(call')]
        /\ \/ /\ box' = box \cup {Request(t, s, n, k, Len(call'))}
              /\ UNCHANGED lost
           \/ /\ CanLose(t)
              /\ lost' = lost \cup {t}
              /\ UNCHANGED box
        /\ UNCHANGED <<timeout_nodes, setting, timers, broken, ran, got>>
  BY DEF SendRequest
<1>2. PICK c : c = Len(call) + 1
  OBVIOUS
<1>3. PICK m : m = Request(t, s, n, k, c)
  OBVIOUS
<1>4. Opens(c, s, n, t, k)
  BY <1>1, <1>2, Opened DEF IInv
<1>5. /\ m.t = "cpp" /\ m.to = t /\ m.source = s /\ m.session = n
      /\ m.data = k /\ m.call = c /\ m \in Message
  BY <1>3, <1>4 DEF Request, Message, Opens
<1>6. /\ \/ box' = box \cup {m} /\ lost' = lost
         \/ box' = box /\ lost' = lost \cup {t}
      /\ InFlight \subseteq InFlight' /\ InFlight' \subseteq InFlight \cup {m}
      /\ m \in InFlight' \/ t \in lost'
      /\ lost \subseteq lost'
      /\ setting[s] = 0
      /\ UNCHANGED <<timeout_nodes, setting, timers, broken, ran, got>>
  BY <1>1, <1>3, <1>4 DEF InFlight, Open, Opens
<1>7. \A o \in InFlight : o.call # c /\ o.call \in Calls /\ o # m
  BY <1>4, <1>5 DEF IInv, Flight, Opens
<1>8. TypeOK'
  <2>1. response_cbs' \in [Service -> [Session -> 0 .. MaxCall]]
    <3>1. response_cbs' = [response_cbs EXCEPT ![s][n] = c] /\ c \in 0 .. MaxCall
      BY <1>1, <1>4, MaxCallAssumption DEF Opens, Call
    <3> QED BY <3>1 DEF IInv, TypeOK
  <2>2. box' \in SUBSET Message /\ lost' \in SUBSET Service
    BY <1>5, <1>6 DEF IInv, TypeOK
  <2> QED BY <1>4, <1>6, <2>1, <2>2 DEF IInv, TypeOK, Opens
<1>9. \A r \in Service, o \in Session :
        response_cbs'[r][o] = IF r = s /\ o = n THEN c ELSE response_cbs[r][o]
  BY <1>1, <1>4 DEF IInv, TypeOK, Opens
<1>10. /\ ~ IsTimeout(c)'
       /\ \A d \in Calls : /\ IsTimeout(d)' <=> IsTimeout(d)
                           /\ Reply(d)' = Reply(d)
  <2>1. k # "timeout"
    BY KindAssumption
  <2> QED BY <1>4, <2>1 DEF IsTimeout, Reply, Opens
<1>11. \A d \in Calls : Decided(d) => Decided(d)'
  BY <1>4, <1>5, <1>6, DecidedKept DEF Opens
<1>12. Flight'
  <2>1. ASSUME NEW o \in InFlight
        PROVE  /\ o.call \in Calls'
               /\ o.source = call'[o.call].owner
               /\ o.t = "cpp" => /\ o \notin timers' /\ ~ IsTimeout(o.call)'
                                 /\ o.to = call'[o.call].target
                                 /\ o.data = call'[o.call].kind
                                 /\ o.call \notin ran'
               /\ o.t = "response" => /\ o.to = call'[o.call].owner
                                      /\ o.data = Reply(o.call)'
                                      /\ ~ IsTimeout(o.call)' => Decided(o.call)'
    BY <1>4, <1>6, <1>7, <1>10, <1>11 DEF IInv, Flight, Opens
  <2>2. /\ m.call \in Calls' /\ m.source = call'[m.call].owner
        /\ m \notin timers' /\ ~ IsTimeout(m.call)'
        /\ m.to = call'[m.call].target /\ m.data = call'[m.call].kind
        /\ m.call \notin ran' /\ m.t # "response"
    BY <1>4, <1>5, <1>6, <1>7, <1>10 DEF Opens, IInv, Past, InFlight
  <2>3. \A x, o \in InFlight' : x.call = o.call => x = o
    BY <1>5, <1>6, <1>7 DEF IInv, Flight
  <2>4. box' \cap timers' = {}
    BY <1>6, <1>7 DEF IInv, Flight, InFlight
  <2> QED BY <1>6, <2>1, <2>2, <2>3, <2>4 DEF Flight
<1>13. Past'
  BY <1>4, <1>6, <1>10, <1>11 DEF IInv, Past, Opens
<1>14. Entries'
  <2>1. ASSUME NEW r \in Service, NEW o \in Session, timeout_nodes'[r][o] # 0
        PROVE  LET d == timeout_nodes[r][o] IN
               (d \in Calls /\ call[d].owner = r /\ IsTimeout(d))'
    BY <1>4, <1>6, <1>10, <2>1 DEF IInv, Entries, Opens
  <2>2. ASSUME NEW r \in Service, NEW o \in Session, response_cbs'[r][o] # 0
        PROVE  LET d == response_cbs[r][o] IN
               (d \in Calls /\ call[d].owner = r /\ ~ IsTimeout(d))'
    <3>1. CASE r = s /\ o = n
      BY <1>4, <1>9, <1>10, <3>1 DEF Opens
    <3>2. CASE ~ (r = s /\ o = n)
      <4>1. response_cbs'[r][o] = response_cbs[r][o]
        BY <1>9, <3>2
      <4> QED BY <1>4, <1>10, <2>2, <4>1 DEF IInv, Entries, Opens
    <3> QED BY <3>1, <3>2
  <2>3. ASSUME NEW r \in Service, setting'[r] # 0
        PROVE  /\ (setting[r] \in Calls /\ IsTimeout(setting[r]))'
               /\ call'[setting'[r]].owner = r
               /\ session_id'[r] \in Session
    BY <1>4, <1>6, <1>10, <2>3 DEF IInv, Entries, Opens
  <2> QED BY <2>1, <2>2, <2>3 DEF Entries
<1>15. ASSUME ~ clash' PROVE Apart'
  <2>1. Apart /\ response_cbs[s][n] = 0 /\ timeout_nodes[s][n] = 0
    BY <1>4, <1>15 DEF IInv, Opens
  <2>2. got[c] = << >> /\ \A r \in Service, o \in Session :
                            response_cbs[r][o] # c /\ timeout_nodes[r][o] # c
    BY <1>4 DEF IInv, Past, Entries, Opens
  <2>3. OneCall' /\ OneSession'
    <3>1. OneCall'
      BY <1>6, <1>9, <2>1, <2>2 DEF Apart, OneCall
    <3>2. OneSession'
      BY <1>6, <1>9, <2>1, <2>2 DEF Apart, OneSession
    <3> QED BY <3>1, <3>2
  <2>4. Setting'
    <3> SUFFICES ASSUME NEW r \in Service, setting[r] # 0
                 PROVE  /\ got[setting[r]] = << >>
                        /\ response_cbs'[r][session_id'[r]] = 0
                        /\ timeout_nodes[r][session_id'[r]] = 0
                        /\ \A o \in Session : timeout_nodes[r][o] # setting[r]
                        /\ \A o \in InFlight' : o.call = setting[r] =>
                             o.session = session_id'[r]
                        /\ r \in lost' \/ \E o \in InFlight' : o.call = setting[r]
      BY <1>6 DEF Setting
    <3>1. /\ r # s /\ session_id'[r] = session_id[r] /\ setting[r] # c
          /\ session_id[r] \in Session
      BY <1>4, <1>6 DEF IInv, Entries, Opens
    <3> QED BY <1>5, <1>6, <1>9, <2>1, <3>1 DEF Apart, Setting
  <2>5. Belongs'
    <3> SUFFICES ASSUME NEW o \in InFlight'
                 PROVE  IF IsTimeout(o.call)'
                          THEN \/ setting[o.to] = o.call
                               \/ timeout_nodes[o.to][o.session] = o.call
                          ELSE response_cbs'[o.source][o.session] = o.call
      BY <1>6 DEF Belongs
    <3>1. CASE o = m
      BY <1>5, <1>9, <1>10, <3>1
    <3>2. CASE o # m
      <4>1. o \in InFlight /\ o.source \in Service /\ o.session \in Session
            /\ o.call # 0 /\ o.call \in Calls
        BY <1>6, <1>7, <3>2, Fields DEF IInv
      <4> QED BY <1>9, <1>10, <2>1, <4>1 DEF Apart, Belongs
    <3> QED BY <3>1, <3>2
  <2>6. Once'
    BY <1>4, <1>6, <2>1, <2>2 DEF Apart, Once, Opens
  <2>7. Fed'
    <3> SUFFICES ASSUME NEW d \in Calls', Waiting(d)', Answerable(d)', ~ Cut(d)'
                 PROVE  \E o \in InFlight' : o.call = d
      BY DEF Fed
    <3>1. CASE d = c
      BY <1>4, <1>5, <1>6, <3>1 DEF Cut, Opens
    <3>2. CASE d # c
      <4>1. d \in Calls /\ call'[d] = call[d] /\ call[d].owner \in Service
        BY <1>4, <3>2, CallFields DEF IInv, Opens
      <4>2. Waiting(d) /\ Answerable(d) /\ ~ Cut(d)
        BY <1>4, <1>6, <1>9, <3>2, <4>1 DEF Waiting, Table, Answerable, Cut
      <4> QED BY <1>6, <2>1, <4>1, <4>2 DEF Apart, Fed
    <3> QED BY <3>1, <3>2
  <2> QED BY <1>6, <2>1, <2>3, <2>4, <2>5, <2>6, <2>7 DEF Apart
<1> QED BY <1>8, <1>12, <1>13, <1>14, <1>15 DEF IInv

(* The timer pushes its message, or drops it when the service is lost.     *)
LEMMA TimerDispatchInv ==
  ASSUME IInv, NEW m \in timers, TimerDispatch(m)
  PROVE  IInv'
<1>1. /\ timers' = timers \ {m}
      /\ box' = IF m.to \in lost THEN box ELSE box \cup {m}
      /\ UNCHANGED <<session_id, response_cbs, timeout_nodes, setting, lost,
                     broken, call, ran, got, clash>>
  BY DEF TimerDispatch
<1>2. /\ m \in InFlight /\ m \in Message /\ m.t = "response"
      /\ m.call \in Calls /\ m.to = call[m.call].owner
  BY Fields DEF InFlight, IInv, Flight
<1>3. /\ InFlight' \subseteq InFlight
      /\ \A o \in InFlight : o \in InFlight' \/ (o = m /\ m.to \in lost)
  BY <1>1 DEF InFlight
<1>4. TypeOK'
  BY <1>1, <1>2 DEF IInv, TypeOK
<1>5. /\ Calls' = Calls
      /\ \A d : /\ IsTimeout(d)' <=> IsTimeout(d)
                /\ Reply(d)' = Reply(d)
                /\ Decided(d) => Decided(d)'
  BY <1>1, <1>3 DEF IsTimeout, Reply, Decided, Calls
<1>6. Flight'
  <2>1. ASSUME NEW o \in InFlight'
        PROVE  /\ o.call \in Calls
               /\ o.source = call[o.call].owner
               /\ o.t = "cpp" => /\ o \notin timers' /\ ~ IsTimeout(o.call)
                                 /\ o.to = call[o.call].target
                                 /\ o.data = call[o.call].kind
                                 /\ o.call \notin ran
               /\ o.t = "response" => /\ o.to = call[o.call].owner
                                      /\ o.data = Reply(o.call)
                                      /\ ~ IsTimeout(o.call) => Decided(o.call)'
    BY <1>1, <1>3, <1>5 DEF IInv, Flight
  <2>2. \A x, o \in InFlight' : x.call = o.call => x = o
    BY <1>3 DEF IInv, Flight
  <2>3. box' \cap timers' = {}
    BY <1>1 DEF IInv, Flight
  <2> QED BY <1>1, <1>5, <2>1, <2>2, <2>3 DEF Flight
<1>7. Past' /\ Entries'
  <2>1. Past'
    BY <1>1, <1>5 DEF IInv, Past
  <2>2. Entries'
    BY <1>1, <1>5 DEF IInv, Entries
  <2> QED BY <2>1, <2>2
<1>8. ASSUME ~ clash' PROVE Apart'
  <2>1. Apart
    BY <1>1, <1>8 DEF IInv
  <2>2. OneCall' /\ OneSession' /\ Once'
    BY <1>1, <1>5, <2>1 DEF Apart, OneCall, OneSession, Once
  <2>3. Setting'
    <3> SUFFICES ASSUME NEW r \in Service, setting[r] # 0
                 PROVE  /\ got[setting[r]] = << >>
                        /\ response_cbs[r][session_id[r]] = 0
                        /\ timeout_nodes[r][session_id[r]] = 0
                        /\ \A o \in Session : timeout_nodes[r][o] # setting[r]
                        /\ \A o \in InFlight' : o.call = setting[r] =>
                             o.session = session_id[r]
                        /\ r \in lost \/ \E o \in InFlight' : o.call = setting[r]
      BY <1>1 DEF Setting
    <3>1. m.call = setting[r] => m.to = r
      BY <1>2 DEF IInv, Entries
    <3> QED BY <1>3, <2>1, <3>1 DEF Apart, Setting
  <2>4. Belongs'
    BY <1>1, <1>3, <1>5, <2>1 DEF Apart, Belongs
  <2>5. Fed'
    <3> SUFFICES ASSUME NEW d \in Calls, Waiting(d), Answerable(d), ~ Cut(d)
                 PROVE  \E o \in InFlight' : o.call = d
      BY <1>1, <1>5 DEF Fed, Waiting, Table, Answerable, Cut
    <3> QED BY <1>2, <1>3, <2>1 DEF Apart, Fed, Cut
  <2> QED BY <1>1, <2>1, <2>2, <2>3, <2>4, <2>5 DEF Apart
<1> QED BY <1>4, <1>6, <1>7, <1>8 DEF IInv

(* The table hides a service that has no messages.                         *)
LEMMA LoseInv ==
  ASSUME IInv, NEW s \in Service, Lose(s)
  PROVE  IInv'
<1>1. /\ lost' = lost \cup {s}
      /\ UNCHANGED <<session_id, response_cbs, timeout_nodes, setting, timers,
                     box, broken, call, ran, got, clash>>
      /\ InFlight' = InFlight /\ Calls' = Calls
  BY DEF Lose, InFlight, Calls
<1>2. TypeOK'
  BY <1>1 DEF IInv, TypeOK
<1>3. \A d : /\ IsTimeout(d)' <=> IsTimeout(d)
             /\ Reply(d)' = Reply(d)
             /\ Decided(d)' <=> Decided(d)
  BY <1>1 DEF IsTimeout, Reply, Decided
<1>4. Flight' /\ Past' /\ Entries'
  <2>1. Flight'
    BY <1>1, <1>3 DEF IInv, Flight
  <2>2. Past'
    BY <1>1, <1>3 DEF IInv, Past
  <2>3. Entries'
    BY <1>1, <1>3 DEF IInv, Entries
  <2> QED BY <2>1, <2>2, <2>3
<1>5. ASSUME ~ clash' PROVE Apart'
  <2>1. Apart
    BY <1>1, <1>5 DEF IInv
  <2>2. OneCall' /\ OneSession' /\ Once' /\ Setting'
    BY <1>1, <2>1 DEF Apart, OneCall, OneSession, Once, Setting
  <2>3. Belongs'
    BY <1>1, <1>3, <2>1 DEF Apart, Belongs
  <2>4. Fed'
    BY <1>1, <2>1 DEF Apart, Fed, Waiting, Table, Answerable, Cut
  <2> QED BY <1>1, <2>1, <2>2, <2>3, <2>4 DEF Apart
<1> QED BY <1>2, <1>4, <1>5 DEF IInv

LEMMA AnswerFits ==
  ASSUME NEW k \in Kind
  PROVE  /\ Answer(k) \in Result
         /\ Answer(k) # Silent
         /\ has_error(Answer(k)) <=> ~ Runs(k)
         /\ has_value(Answer(k)) => k = "value"
  BY KindAssumption DEF Answer, Result, Silent, has_error, has_value, Runs

(* A request is run and answered, or thrown away.                          *)
LEMMA OnRpcCppInv ==
  ASSUME IInv, NEW m \in box, Handle(m), OnRpcCpp(m)
  PROVE  IInv'
<1>1. PICK r : r = Response(m.source, m.session, Answer(m.data), m.call)
  OBVIOUS
<1>2. /\ m.t = "cpp"
      /\ ran' = IF m.to \in Rpc /\ Runs(m.data) THEN ran \cup {m.call} ELSE ran
      /\ box' = (box \ {m}) \cup {x \in {r} : Responds(m)}
      /\ UNCHANGED <<session_id, response_cbs, timeout_nodes, setting, timers,
                     lost, broken, call, got, clash>>
  BY <1>1 DEF OnRpcCpp, Handle
<1>3. /\ m \in InFlight /\ m \in Message /\ m.source \in Service
      /\ m.session \in Session /\ m.call \in Call /\ m.call \in Calls
      /\ m \notin timers /\ ~ IsTimeout(m.call) /\ m.source = call[m.call].owner
      /\ m.to = call[m.call].target /\ m.data = call[m.call].kind
      /\ m.call \notin ran /\ m.data \in Kind
  <2>1. m \in InFlight
    BY DEF InFlight
  <2>2. m.call \in Calls /\ ~ IsTimeout(m.call) /\ m.data = call[m.call].kind
    BY <1>2, <2>1 DEF IInv, Flight
  <2>3. m.data \in Kind
    BY <2>2, CallFields DEF IInv, IsTimeout
  <2> QED BY <1>2, <2>1, <2>2, <2>3, Fields DEF IInv, Flight
<1>4. /\ r.t = "response" /\ r.to = m.source /\ r.source = m.source
      /\ r.session = m.session /\ r.data = Answer(m.data) /\ r.call = m.call
      /\ r \in Message
  BY <1>1, <1>3, AnswerFits DEF Response, Message
<1>5. \A o \in InFlight : o.call = m.call => o = m
  BY <1>3 DEF IInv, Flight
<1>6. /\ InFlight' \subseteq (InFlight \ {m}) \cup {r}
      /\ InFlight \ {m} \subseteq InFlight'
      /\ r \in InFlight' <=> Responds(m)
      /\ r \notin timers
  BY <1>2, <1>3, <1>4, <1>5 DEF InFlight
<1>7. TypeOK'
  BY <1>2, <1>3, <1>4 DEF IInv, TypeOK
<1>8. /\ Calls' = Calls
      /\ \A d : /\ IsTimeout(d)' <=> IsTimeout(d)
                /\ Reply(d)' = Reply(d)
  BY <1>2 DEF IsTimeout, Reply, Calls
<1>9. \A d : Decided(d) => d # m.call /\ Decided(d)'
  BY <1>2, <1>3, <1>4, <1>6 DEF Decided
<1>10. Responds(m) => Decided(m.call)'
  <2>1. \A o \in InFlight' : o.t = "cpp" => o.call # m.call
    BY <1>4, <1>5, <1>6
  <2>2. Responds(m) => (m.call \in ran' <=> Runs(m.data))
    BY <1>2, <1>3 DEF Responds
  <2> QED BY <1>2, <1>3, <2>1, <2>2 DEF Decided
<1>11. Flight'
  <2>1. ASSUME NEW o \in InFlight'
        PROVE  /\ o.call \in Calls
               /\ o.source = call[o.call].owner
               /\ o.t = "cpp" => /\ o \notin timers /\ ~ IsTimeout(o.call)
                                 /\ o.to = call[o.call].target
                                 /\ o.data = call[o.call].kind
                                 /\ o.call \notin ran'
               /\ o.t = "response" => /\ o.to = call[o.call].owner
                                      /\ o.data = Reply(o.call)
                                      /\ ~ IsTimeout(o.call) => Decided(o.call)'
    <3>1. CASE o = r
      BY <1>3, <1>4, <1>6, <1>10, <2>1, <3>1 DEF Reply
    <3>2. CASE o # r
      <4>1. o \in InFlight /\ o.call # m.call
        BY <1>5, <1>6, <3>2
      <4>2. o.call \notin ran => o.call \notin ran'
        BY <1>2, <4>1
      <4> QED BY <1>9, <4>1, <4>2 DEF IInv, Flight
    <3> QED BY <3>1, <3>2
  <2>2. \A x, o \in InFlight' : x.call = o.call => x = o
    BY <1>4, <1>5, <1>6 DEF IInv, Flight
  <2>3. box' \cap timers' = {}
    BY <1>2, <1>6 DEF IInv, Flight
  <2> QED BY <1>2, <1>8, <2>1, <2>2, <2>3 DEF Flight
<1>12. Past'
  BY <1>2, <1>3, <1>8, <1>9 DEF IInv, Past
<1>13. Entries'
  BY <1>2, <1>8 DEF IInv, Entries
<1>14. ASSUME ~ clash' PROVE Apart'
  <2>1. Apart
    BY <1>2, <1>14 DEF IInv
  <2>2. OneCall' /\ OneSession' /\ Once'
    BY <1>2, <1>8, <2>1 DEF Apart, OneCall, OneSession, Once
  <2>3. Setting'
    <3> SUFFICES ASSUME NEW s \in Service, setting[s] # 0
                 PROVE  /\ got[setting[s]] = << >>
                        /\ response_cbs[s][session_id[s]] = 0
                        /\ timeout_nodes[s][session_id[s]] = 0
                        /\ \A o \in Session : timeout_nodes[s][o] # setting[s]
                        /\ \A o \in InFlight' : o.call = setting[s] =>
                             o.session = session_id[s]
                        /\ s \in lost \/ \E o \in InFlight' : o.call = setting[s]
      BY <1>2 DEF Setting
    <3>1. setting[s] # m.call
      BY <1>3 DEF IInv, Entries
    <3> QED BY <1>4, <1>6, <2>1, <3>1 DEF Apart, Setting
  <2>4. Belongs'
    <3> SUFFICES ASSUME NEW o \in InFlight'
                 PROVE  IF IsTimeout(o.call)
                          THEN \/ setting[o.to] = o.call
                               \/ timeout_nodes[o.to][o.session] = o.call
                          ELSE response_cbs[o.source][o.session] = o.call
      BY <1>2, <1>8 DEF Belongs
    <3> QED BY <1>3, <1>4, <1>6, <2>1 DEF Apart, Belongs
  <2>5. Fed'
    <3> SUFFICES ASSUME NEW d \in Calls, Waiting(d), Answerable(d), ~ Cut(d)
                 PROVE  \E o \in InFlight' : o.call = d
      BY <1>2, <1>8 DEF Fed, Waiting, Table, Answerable, Cut
    <3>1. CASE d = m.call
      BY <1>3, <1>4, <1>6, <3>1 DEF Answerable, Cut, Responds, IsTimeout
    <3>2. CASE d # m.call
      BY <1>6, <2>1, <3>2 DEF Apart, Fed
    <3> QED BY <3>1, <3>2
  <2> QED BY <1>2, <2>1, <2>2, <2>3, <2>4, <2>5 DEF Apart
<1> QED BY <1>7, <1>11, <1>12, <1>13, <1>14 DEF IInv

(* What an answer finds, while no session is given out twice: its own      *)
(* callback, and nobody has called it before.                              *)
LEMMA FindsItsOwn ==
  ASSUME IInv, ~ clash, NEW m \in box, m.t = "response", setting[m.to] = 0
  PROVE  IF IsTimeout(m.call)
           THEN /\ timeout_nodes[m.to][m.session] = m.call
                /\ response_cbs[m.to][m.session] = 0
                /\ got[m.call] = << >>
           ELSE /\ response_cbs[m.to][m.session] = m.call
                /\ timeout_nodes[m.to][m.session] = 0
                /\ got[m.call] = << >>
                /\ m.data # Silent
<1>1. /\ m \in InFlight /\ m.to \in Service /\ m.session \in Session
      /\ m.call # 0 /\ m.call \in Calls
      /\ m.source = m.to
  BY Fields DEF IInv, Flight, InFlight
<1>2. CASE IsTimeout(m.call)
  BY <1>1, <1>2 DEF IInv, Apart, Belongs, OneCall
<1>3. CASE ~ IsTimeout(m.call)
  <2>1. /\ response_cbs[m.to][m.session] = m.call
        /\ timeout_nodes[m.to][m.session] = 0
        /\ got[m.call] = << >>
    BY <1>1, <1>3 DEF IInv, Apart, Belongs, OneCall
  <2>2. m.data = Answer(call[m.call].kind) /\ call[m.call].kind \in Kind
    BY <1>1, <1>3, CallFields DEF IInv, Flight, Reply, IsTimeout
  <2> QED BY <1>3, <2>1, <2>2, AnswerFits
<1> QED BY <1>2, <1>3

(* An answer calls a callback, and takes it out of its table.              *)
LEMMA OnResponseInv ==
  ASSUME IInv, NEW m \in box, Handle(m), OnResponse(m)
  PROVE  IInv'
<1> DEFINE s == m.to
           n == m.session
<1>1. /\ m.t = "response"
      /\ setting[s] = 0
      /\ box' = box \ {m}
      /\ UNCHANGED <<session_id, setting, timers, lost, call, clash, ran>>
  BY DEF Handle, OnResponse
<1>2. /\ m \in InFlight /\ s \in Service /\ n \in Session /\ m.source = s
      /\ m.call \in Call /\ m.call \in Calls /\ m.data \in Result \cup {Silent}
      /\ s = call[m.call].owner /\ m.data = Reply(m.call) /\ m \notin timers
      /\ ~ IsTimeout(m.call) => Decided(m.call)
  BY <1>1, Fields DEF IInv, Flight, InFlight
<1>3. InFlight' = InFlight \ {m} /\ \A o \in InFlight' : o.call # m.call
  BY <1>1, <1>2 DEF InFlight, IInv, Flight
<1>4. PICK e : e = IF response_cbs[s][n] # 0 THEN response_cbs[s][n]
                                             ELSE timeout_nodes[s][n]
  OBVIOUS
<1>5. /\ e \in 0 .. MaxCall
      /\ e # 0 => e \in Calls /\ e \in Call
  <2>1. response_cbs[s][n] \in 0 .. MaxCall /\ timeout_nodes[s][n] \in 0 .. MaxCall
    BY <1>2 DEF IInv, TypeOK
  <2>2. e # 0 => e \in Calls
    BY <1>2, <1>4 DEF IInv, Entries
  <2> QED BY <1>4, <2>1, <2>2, CallFields DEF IInv
<1>6. /\ got' = IF e = 0 THEN got
                ELSE [got EXCEPT ![e] = Append(@, [call |-> m.call, data |-> m.data])]
      /\ response_cbs' = [response_cbs EXCEPT ![s][n] = 0]
      /\ timeout_nodes' = IF response_cbs[s][n] # 0 THEN timeout_nodes
                          ELSE [timeout_nodes EXCEPT ![s][n] = 0]
      /\ broken' = IF response_cbs[s][n] # 0 THEN m.data = Silent ELSE broken
  BY <1>2, <1>4 DEF OnResponse, CallBack, Erase, IInv, TypeOK
<1>7. \A r \in Service, o \in Session :
        /\ response_cbs'[r][o] = IF r = s /\ o = n THEN 0 ELSE response_cbs[r][o]
        /\ timeout_nodes'[r][o] = IF r = s /\ o = n /\ response_cbs[s][n] = 0
                                    THEN 0 ELSE timeout_nodes[r][o]
  BY <1>2, <1>6 DEF IInv, TypeOK
<1>8. TypeOK'
  <2>0. 0 \in 0 .. MaxCall
    BY MaxCallAssumption
  <2>1. response_cbs' \in [Service -> [Session -> 0 .. MaxCall]]
    BY <1>2, <1>6, <2>0 DEF IInv, TypeOK
  <2>2. timeout_nodes' \in [Service -> [Session -> 0 .. MaxCall]]
    BY <1>2, <1>6, <2>0 DEF IInv, TypeOK
  <2>3. got' \in [Call -> Seq([call : Call, data : Result \cup {Silent}])]
    <3> DEFINE R == [call : Call, data : Result \cup {Silent}]
               x == [call |-> m.call, data |-> m.data]
    <3>1. got \in [Call -> Seq(R)] /\ x \in R
      BY <1>2 DEF IInv, TypeOK
    <3>2. got' = IF e = 0 THEN got ELSE [got EXCEPT ![e] = Append(@, x)]
      BY <1>6
    <3>3. e # 0 => e \in Call
      BY <1>5
    <3> HIDE DEF R, x
    <3>4. got' \in [Call -> Seq(R)]
      BY <3>1, <3>2, <3>3
    <3> QED BY <3>4 DEF R
  <2>4. broken' \in BOOLEAN
    BY <1>6 DEF IInv, TypeOK
  <2> QED BY <1>1, <2>1, <2>2, <2>3, <2>4 DEF IInv, TypeOK
<1>9. /\ Calls' = Calls
      /\ \A d : /\ IsTimeout(d)' <=> IsTimeout(d)
                /\ Reply(d)' = Reply(d)
                /\ Decided(d) => Decided(d)'
  BY <1>1, <1>3 DEF IsTimeout, Reply, Decided, Calls
<1>10. Flight'
  <2>1. ASSUME NEW o \in InFlight'
        PROVE  /\ o.call \in Calls
               /\ o.source = call[o.call].owner
               /\ o.t = "cpp" => /\ o \notin timers /\ ~ IsTimeout(o.call)
                                 /\ o.to = call[o.call].target
                                 /\ o.data = call[o.call].kind
                                 /\ o.call \notin ran
               /\ o.t = "response" => /\ o.to = call[o.call].owner
                                      /\ o.data = Reply(o.call)
                                      /\ ~ IsTimeout(o.call) => Decided(o.call)'
    BY <1>3, <1>9 DEF IInv, Flight
  <2>2. \A x, o \in InFlight' : x.call = o.call => x = o
    BY <1>3 DEF IInv, Flight
  <2>3. box' \cap timers' = {}
    BY <1>1 DEF IInv, Flight
  <2> QED BY <1>1, <1>9, <2>1, <2>2, <2>3 DEF Flight
<1>11. Past'
  <2>1. ran' \subseteq Calls' /\ \A c \in Call \ Calls : got'[c] = << >>
    BY <1>1, <1>5, <1>6, <1>9 DEF IInv, Past, TypeOK
  <2>2. ASSUME NEW c \in Call, NEW i \in 1 .. Len(got'[c])
        PROVE  \/ got'[c][i] = [call |-> m.call, data |-> m.data]
               \/ i \in 1 .. Len(got[c]) /\ got'[c][i] = got[c][i]
    <3>1. CASE c # e \/ e = 0
      BY <1>5, <1>6, <2>2, <3>1 DEF IInv, TypeOK
    <3>2. CASE c = e /\ e # 0
      <4>1. /\ got[c] \in Seq([call : Call, data : Result \cup {Silent}])
            /\ got'[c] = Append(got[c], [call |-> m.call, data |-> m.data])
        BY <1>5, <1>6, <3>2 DEF IInv, TypeOK
      <4> QED BY <2>2, <4>1
    <3> QED BY <3>1, <3>2
  <2>3. ASSUME NEW c \in Call, NEW i \in 1 .. Len(got'[c])
        PROVE  /\ got'[c][i].call \in Calls
               /\ got'[c][i].data = Reply(got'[c][i].call)
               /\ ~ IsTimeout(got'[c][i].call) => Decided(got'[c][i].call)
    BY <1>2, <2>2 DEF IInv, Past
  <2> QED BY <1>9, <2>1, <2>3 DEF Past
<1>12. Entries'
  <2>1. ASSUME NEW r \in Service, NEW o \in Session, response_cbs'[r][o] # 0
        PROVE  LET d == response_cbs[r][o] IN
               (d \in Calls /\ call[d].owner = r /\ ~ IsTimeout(d))'
    BY <1>1, <1>7, <1>9, <2>1 DEF IInv, Entries
  <2>2. ASSUME NEW r \in Service, NEW o \in Session, timeout_nodes'[r][o] # 0
        PROVE  LET d == timeout_nodes[r][o] IN
               (d \in Calls /\ call[d].owner = r /\ IsTimeout(d))'
    BY <1>1, <1>7, <1>9, <2>2 DEF IInv, Entries
  <2> QED BY <1>1, <1>9, <2>1, <2>2 DEF IInv, Entries
<1>13. ASSUME ~ clash' PROVE Apart'
  <2>1. ~ clash /\ Apart
    BY <1>1, <1>13 DEF IInv
  <2>2. /\ e = m.call /\ e # 0 /\ got[e] = << >>
        /\ response_cbs[s][n] # 0 => m.data # Silent /\ ~ IsTimeout(e)
        /\ response_cbs[s][n] = 0 => IsTimeout(e)
    <3>1. m.call # 0
      BY <1>2, Fields DEF IInv
    <3> QED BY <1>1, <1>4, <2>1, <3>1, FindsItsOwn
  <2>3. ~ broken'
    BY <1>6, <2>1, <2>2 DEF Apart
  <2>4. /\ \A c \in Call \ {e} : got'[c] = got[c]
        /\ got'[e] = << [call |-> e, data |-> m.data] >>
    BY <1>5, <1>6, <2>2 DEF IInv, TypeOK
  <2>5. \A r \in Service, o \in Session :
          response_cbs'[r][o] # e /\ timeout_nodes'[r][o] # e
    <3> SUFFICES ASSUME NEW r \in Service, NEW o \in Session,
                        response_cbs'[r][o] = e \/ timeout_nodes'[r][o] = e
                 PROVE  FALSE
      OBVIOUS
    <3>1. r = s
      BY <1>2, <1>7, <2>2 DEF IInv, Entries
    <3>2. CASE response_cbs[s][n] # 0
      BY <1>2, <1>4, <1>7, <2>1, <2>2, <3>1, <3>2 DEF Apart, OneSession, IInv, Entries
    <3>3. CASE response_cbs[s][n] = 0
      BY <1>2, <1>4, <1>7, <2>1, <2>2, <3>1, <3>3 DEF Apart, OneSession, IInv, Entries
    <3> QED BY <3>2, <3>3
  <2>6. OneCall'
    <3> SUFFICES ASSUME NEW r \in Service, NEW o \in Session
                 PROVE  /\ response_cbs'[r][o] = 0 \/ timeout_nodes'[r][o] = 0
                        /\ response_cbs'[r][o] # 0 => got'[response_cbs'[r][o]] = << >>
                        /\ timeout_nodes'[r][o] # 0 => got'[timeout_nodes'[r][o]] = << >>
      BY DEF OneCall
    <3>1. /\ response_cbs'[r][o] # 0 => /\ response_cbs'[r][o] = response_cbs[r][o]
                                        /\ response_cbs[r][o] \in Call \ {e}
          /\ timeout_nodes'[r][o] # 0 => /\ timeout_nodes'[r][o] = timeout_nodes[r][o]
                                         /\ timeout_nodes[r][o] \in Call \ {e}
      BY <1>7, <2>5, CallFields DEF IInv, Entries
    <3> QED BY <2>1, <2>4, <3>1 DEF Apart, OneCall
  <2>7. OneSession'
    BY <1>7, <2>1 DEF Apart, OneSession
  <2>8. Setting'
    <3> SUFFICES ASSUME NEW r \in Service, setting[r] # 0
                 PROVE  /\ got'[setting[r]] = << >>
                        /\ response_cbs'[r][session_id[r]] = 0
                        /\ timeout_nodes'[r][session_id[r]] = 0
                        /\ \A o \in Session : timeout_nodes'[r][o] # setting[r]
                        /\ \A o \in InFlight' : o.call = setting[r] =>
                             o.session = session_id[r]
                        /\ r \in lost \/ \E o \in InFlight' : o.call = setting[r]
      BY <1>1 DEF Setting
    <3>1. /\ r # s /\ session_id[r] \in Session
          /\ setting[r] \in Call /\ setting[r] # e
      BY <1>1, <1>2, <2>2, CallFields DEF IInv, Entries
    <3> QED BY <1>3, <1>7, <2>1, <2>2, <2>4, <3>1 DEF Apart, Setting
  <2>9. Belongs'
    <3> SUFFICES ASSUME NEW o \in InFlight'
                 PROVE  IF IsTimeout(o.call)
                          THEN \/ setting[o.to] = o.call
                               \/ timeout_nodes'[o.to][o.session] = o.call
                          ELSE response_cbs'[o.source][o.session] = o.call
      BY <1>1, <1>9 DEF Belongs
    <3>1. o \in InFlight /\ o.call # e
      BY <1>3, <2>2
    <3>2. /\ o.to \in Service /\ o.source \in Service /\ o.session \in Session
          /\ o.call # 0
      BY <3>1, Fields DEF IInv
    <3> QED BY <1>4, <1>7, <2>1, <2>2, <3>1, <3>2 DEF Apart, Belongs, OneCall
  <2>10. Once'
    <3> SUFFICES ASSUME NEW c \in Calls
                 PROVE  /\ Len(got'[c]) <= 1
                        /\ got'[c] # << >> => got'[c][1].call = c
      BY <1>9 DEF Once
    <3>1. CASE c = e
      <4>1. got'[c] = << [call |-> c, data |-> m.data] >>
        BY <2>4, <3>1
      <4> QED BY <4>1
    <3>2. CASE c # e
      BY <2>1, <2>4, <3>2, CallFields DEF IInv, Apart, Once
    <3> QED BY <3>1, <3>2
  <2>11. Fed'
    <3> SUFFICES ASSUME NEW d \in Calls, Waiting(d)', Answerable(d), ~ Cut(d)
                 PROVE  \E o \in InFlight' : o.call = d
      BY <1>1, <1>9 DEF Fed, Answerable, Cut
    <3>1. call[d].owner \in Service /\ d # 0
      BY CallFields DEF IInv, Calls
    <3>2. Waiting(d) /\ d # e
      BY <1>1, <1>7, <2>5, <3>1 DEF Waiting, Table
    <3> QED BY <1>3, <2>1, <2>2, <3>2 DEF Apart, Fed
  <2> QED BY <2>3, <2>6, <2>7, <2>8, <2>9, <2>10, <2>11 DEF Apart
<1> QED BY <1>8, <1>10, <1>11, <1>12, <1>13 DEF IInv

LEMMA StutterInv ==
  ASSUME IInv, UNCHANGED vars
  PROVE  IInv'
<1>1. InFlight' = InFlight /\ Calls' = Calls
  BY DEF vars, InFlight, Calls
<1>2. \A d : /\ IsTimeout(d)' <=> IsTimeout(d)
             /\ Reply(d)' = Reply(d)
             /\ Decided(d)' <=> Decided(d)
  BY <1>1 DEF vars, IsTimeout, Reply, Decided
<1>3. TypeOK' /\ Entries'
  <2>1. TypeOK'
    BY DEF vars, IInv, TypeOK
  <2>2. Entries'
    BY <1>1, <1>2 DEF vars, IInv, Entries
  <2> QED BY <2>1, <2>2
<1>4. Flight' /\ Past'
  <2>1. Flight'
    BY <1>1, <1>2 DEF vars, IInv, Flight
  <2>2. Past'
    BY <1>1, <1>2 DEF vars, IInv, Past
  <2> QED BY <2>1, <2>2
<1>5. ASSUME ~ clash' PROVE Apart'
  <2>1. Apart
    BY <1>5 DEF vars, IInv
  <2>2. OneCall' /\ OneSession' /\ Once' /\ Setting'
    BY <1>1, <2>1 DEF vars, Apart, OneCall, OneSession, Once, Setting
  <2>3. Belongs'
    BY <1>1, <1>2, <2>1 DEF vars, Apart, Belongs
  <2>4. Fed'
    BY <1>1, <2>1 DEF vars, Apart, Fed, Waiting, Table, Answerable, Cut
  <2> QED BY <2>1, <2>2, <2>3, <2>4 DEF vars, Apart
<1> QED BY <1>3, <1>4, <1>5 DEF IInv

LEMMA StepInv == IInv /\ [Next]_vars => IInv'
<1> SUFFICES ASSUME IInv, [Next]_vars PROVE IInv'
  OBVIOUS
<1>1. ASSUME NEW s \in Service, Timeout(s) PROVE IInv'
  BY <1>1, TimeoutInv
<1>2. ASSUME NEW s \in Service, StoreTimeout(s) PROVE IInv'
  BY <1>2, StoreTimeoutInv
<1>3. ASSUME NEW s \in Service, Lose(s) PROVE IInv'
  BY <1>3, LoseInv
<1>4. ASSUME NEW s \in Service, NEW t \in Service, NEW k \in Kind,
             SendRequest(s, t, k)
      PROVE  IInv'
  BY <1>4, SendRequestInv
<1>5. ASSUME NEW m \in timers, TimerDispatch(m) PROVE IInv'
  BY <1>5, TimerDispatchInv
<1>6. ASSUME NEW m \in box, Handle(m) PROVE IInv'
  <2>1. CASE OnRpcCpp(m)
    BY <1>6, <2>1, OnRpcCppInv
  <2>2. CASE OnResponse(m)
    BY <1>6, <2>2, OnResponseInv
  <2> QED BY <1>6, <2>1, <2>2 DEF Handle
<1> QED BY <1>1, <1>2, <1>3, <1>4, <1>5, <1>6, StutterInv DEF Next

LEMMA InvAlways == Spec => []IInv
  BY InitInv, StepInv, PTL DEF Spec

-----------------------------------------------------------------------------
(* Whoever calls is called back at most once, and with the answer to this  *)
(* very call, as long as newsession gives out no session that is still     *)
(* waited for.                                                             *)
THEOREM OwnAnswerOnly == Spec => [](TypeOK /\ OwnAnswer)
<1>1. IInv => TypeOK /\ OwnAnswer
  BY DEF IInv, Apart, Once, OwnAnswer
<1> QED BY <1>1, InvAlways, PTL

(* A caller is told of an error exactly when its function was not run, and *)
(* is handed a value only by a function that returns one.                  *)
THEOREM ErrorsAreTrue == Spec => []ErrorIffNotRun
<1>1. IInv => ErrorIffNotRun
  <2> SUFFICES ASSUME IInv, NEW c \in Calls, Len(got[c]) = 1,
                      got[c][1].call = c, ~ IsTimeout(c)
               PROVE  /\ has_error(got[c][1].data) <=> c \notin ran
                      /\ has_value(got[c][1].data) => call[c].kind = "value"
    BY DEF ErrorIffNotRun, IsTimeout
  <2>1. c \in Call /\ call[c].kind \in Kind
    BY CallFields DEF IInv, IsTimeout
  <2>2. 1 \in 1 .. Len(got[c])
    OBVIOUS
  <2>3. got[c][1].data = Answer(call[c].kind) /\ Decided(c)
    BY <2>1, <2>2 DEF IInv, Past, Reply
  <2> QED BY <2>1, <2>3, AnswerFits DEF Decided
<1> QED BY <1>1, InvAlways, PTL

(* No callback waits for nothing, and no answer comes for nobody.          *)
THEOREM NothingLeaks == Spec => []WaitsForSomething
<1>1. IInv => WaitsForSomething
  <2> SUFFICES ASSUME IInv, ~ clash
               PROVE  /\ Fed
                      /\ \A m \in InFlight : m.t = "response" =>
                           \/ setting[m.to] = m.call
                           \/ Table(m.call)[m.to][m.session] = m.call
    BY DEF WaitsForSomething, Fed
  <2>1. Fed
    BY DEF IInv, Apart
  <2>2. ASSUME NEW m \in InFlight, m.t = "response"
        PROVE  \/ setting[m.to] = m.call
               \/ Table(m.call)[m.to][m.session] = m.call
    BY <2>2 DEF IInv, Flight, Apart, Belongs, Table, IsTimeout
  <2> QED BY <2>1, <2>2
<1> QED BY <1>1, InvAlways, PTL

-----------------------------------------------------------------------------
(* Module Clock.                                                           *)

(* What the wheel is behind for good, as a timer sees it.  It never        *)
(* shrinks; so a timer that was set when it was need - U * due fires no    *)
(* earlier than need.                                                      *)
Behind == forward - U * current - Unread

NeverShrinks == alarm # None => Behind >= alarm.need - U * alarm.due

ClockInv == ClockTypeOK /\ NeverShrinks /\ DriftBounded

-----------------------------------------------------------------------------
(* duration_cast from the unit of the clock to centiseconds rounds         *)
(* towards zero and loses less than a centisecond.                         *)
LEMMA TicksBounds ==
  ASSUME NEW d \in Int, d >= 0
  PROVE  /\ Ticks(d) \in Nat
         /\ U * Ticks(d) <= d
         /\ d - U * Ticks(d) <= U - 1
  BY UnitAssumption, SMT DEF Ticks

LEMMA ClockInitInv == ClockInit => ClockInv
  BY UnitAssumption, SMT DEF ClockInit, ClockInv, ClockTypeOK, NeverShrinks,
     DriftBounded

(* An alarm that is set is a record of two integers.                       *)
LEMMA AlarmFields ==
  ASSUME ClockTypeOK, alarm # None
  PROVE  alarm.due \in Int /\ alarm.need \in Int
  BY DEF ClockTypeOK

LEMMA AdvanceInv ==
  ASSUME ClockInv, NEW d \in 1 .. MaxForward - forward, Advance(d)
  PROVE  ClockInv'
<1>1. d \in Nat /\ forward \in Nat /\ wall \in Int
  BY BoundAssumption DEF ClockInv, ClockTypeOK
<1>2. ClockTypeOK'
  BY <1>1 DEF ClockInv, ClockTypeOK, Advance
<1>3. NeverShrinks'
  <2>1. SUFFICES ASSUME alarm # None
                 PROVE  Behind' >= alarm.need - U * alarm.due
    BY DEF NeverShrinks, Advance
  <2>2. Unread' <= Unread + d
    BY <1>1 DEF Unread, Advance, ClockInv, ClockTypeOK
  <2>3. U * current \in Int /\ U * alarm.due \in Int /\ alarm.need \in Int
        /\ Unread \in Int /\ Unread' \in Int
    BY <1>1, <1>2, <2>1, AlarmFields, UnitAssumption
    DEF ClockInv, ClockTypeOK, Unread
  <2>4. Behind' = forward + d - U * current - Unread'
    BY <1>1, <2>3 DEF Behind, Advance
  <2>5. Behind >= alarm.need - U * alarm.due
    BY <2>1 DEF ClockInv, NeverShrinks
  <2> QED
    BY <1>1, <2>2, <2>3, <2>4, <2>5 DEF Behind
<1>4. DriftBounded'
  BY <1>1, UnitAssumption DEF ClockInv, ClockTypeOK, DriftBounded, Advance
<1> QED
  BY <1>2, <1>3, <1>4 DEF ClockInv

LEMMA SetBackInv ==
  ASSUME ClockInv, NEW d \in 1 .. MaxBack - back, SetBack(d)
  PROVE  ClockInv'
<1>1. d \in Nat /\ back \in Nat /\ wall \in Int
  BY BoundAssumption DEF ClockInv, ClockTypeOK
<1>2. ClockTypeOK'
  BY <1>1 DEF ClockInv, ClockTypeOK, SetBack
<1>3. NeverShrinks'
  <2>1. SUFFICES ASSUME alarm # None
                 PROVE  Behind' >= alarm.need - U * alarm.due
    BY DEF NeverShrinks, SetBack
  <2>2. Unread' <= Unread
    BY <1>1 DEF Unread, SetBack, ClockInv, ClockTypeOK
  <2>3. U * current \in Int /\ U * alarm.due \in Int /\ alarm.need \in Int
        /\ Unread \in Int /\ Unread' \in Int /\ forward \in Int
    BY <1>1, <1>2, <2>1, AlarmFields, UnitAssumption
    DEF ClockInv, ClockTypeOK, Unread
  <2>4. Behind' = forward - U * current - Unread'
    BY DEF Behind, SetBack
  <2>5. Behind >= alarm.need - U * alarm.due
    BY <2>1 DEF ClockInv, NeverShrinks
  <2> QED
    BY <2>2, <2>3, <2>4, <2>5 DEF Behind
<1>4. DriftBounded'
  BY <1>1, UnitAssumption DEF ClockInv, ClockTypeOK, DriftBounded, SetBack
<1> QED
  BY <1>2, <1>3, <1>4 DEF ClockInv

(* The clock is behind current_point_: current_point_ follows it.          *)
LEMMA UpdateAfterSetBack ==
  ASSUME ClockInv, Update, wall < point
  PROVE  ClockInv'
<1>1. /\ point' = wall /\ current' = current /\ effective' = effective
      /\ UNCHANGED <<wall, ticked, forward, back, alarm>>
  BY DEF Update, Refreshes, Ticks, ClockInv, ClockTypeOK
<1>2. ClockTypeOK'
  BY <1>1 DEF ClockInv, ClockTypeOK
<1>3. NeverShrinks'
  <2>1. Unread' = 0 /\ Unread = 0
    BY <1>1 DEF Unread, ClockInv, ClockTypeOK
  <2>2. Behind' = Behind
    BY <1>1, <2>1 DEF Behind
  <2> QED
    BY <1>1, <2>2 DEF ClockInv, NeverShrinks
<1>4. DriftBounded'
  <2>1. U * current \in Int /\ (U - 1) * effective \in Int
    BY UnitAssumption DEF ClockInv, ClockTypeOK
  <2>2. forward - U * current - (wall - point) <= (U - 1) * effective + back
    BY DEF ClockInv, DriftBounded
  <2>3. forward - U * current - (wall - wall) <= (U - 1) * effective + back
    BY <2>1, <2>2 DEF ClockInv, ClockTypeOK
  <2> QED
    BY <1>1, <2>3 DEF DriftBounded
<1> QED
  BY <1>2, <1>3, <1>4 DEF ClockInv

(* The clock is past current_point_: full centiseconds are counted, and    *)
(* what is left is dropped or kept.                                        *)
LEMMA UpdateForward ==
  ASSUME ClockInv, Update, wall >= point
  PROVE  ClockInv'
<1> DEFINE d == wall - point
           k == Ticks(d)
<1>1. d \in Int /\ d >= 0
  BY DEF ClockInv, ClockTypeOK
<1>2. k \in Nat /\ U * k <= d /\ d - U * k <= U - 1
  BY <1>1, TicksBounds
<1> HIDE DEF k
<1>3. /\ current' = current + k
      /\ effective' = IF k > 0 THEN effective + 1 ELSE effective
      /\ UNCHANGED <<wall, ticked, forward, back, alarm>>
      /\ point' = IF k > 0 THEN wall ELSE point
  BY <1>1 DEF Update, Refreshes, k
<1>4. ClockTypeOK'
  BY <1>2, <1>3 DEF ClockInv, ClockTypeOK
<1>5. CASE k = 0
  <2>1. /\ current' = current /\ effective' = effective /\ point' = point
        /\ UNCHANGED <<wall, ticked, forward, back, alarm>>
    BY <1>3, <1>5 DEF ClockInv, ClockTypeOK
  <2> QED
    BY <1>4, <2>1 DEF ClockInv, NeverShrinks, DriftBounded, Behind, Unread
<1>6. CASE k > 0
  <2>1. /\ point' = wall /\ effective' = effective + 1
        /\ UNCHANGED <<wall, ticked, forward, back, alarm>>
    BY <1>3, <1>6
  <2>2. /\ U * (current + k) = U * current + U * k
        /\ U * current \in Int /\ U * k \in Int
    BY <1>2, UnitAssumption DEF ClockInv, ClockTypeOK
  <2>3. NeverShrinks'
    <3>1. SUFFICES ASSUME alarm # None
                   PROVE  Behind' >= alarm.need - U * alarm.due
      BY <2>1 DEF NeverShrinks
    <3>2. Behind' = forward - (U * current + U * k)
      <4>1. Unread' = 0
        BY <2>1 DEF Unread, ClockInv, ClockTypeOK
      <4> QED
        BY <1>3, <2>1, <2>2, <4>1 DEF Behind, ClockInv, ClockTypeOK
    <3>3. Behind = forward - U * current - d
      BY DEF Behind, Unread, ClockInv, ClockTypeOK
    <3>4. Behind >= alarm.need - U * alarm.due
      BY <3>1 DEF ClockInv, NeverShrinks
    <3>5. U * alarm.due \in Int /\ alarm.need \in Int /\ forward \in Int
      BY <3>1, AlarmFields, UnitAssumption DEF ClockInv, ClockTypeOK
    <3> QED
      BY <1>1, <1>2, <2>2, <3>2, <3>3, <3>4, <3>5
  <2>4. DriftBounded'
    <3>1. /\ (U - 1) * (effective + 1) = (U - 1) * effective + (U - 1)
          /\ (U - 1) * effective \in Int
      BY UnitAssumption DEF ClockInv, ClockTypeOK
    <3>2. forward - U * current - d <= (U - 1) * effective + back
      BY DEF ClockInv, DriftBounded
    <3>3. forward - (U * current + U * k) - (wall - wall)
            <= (U - 1) * effective + (U - 1) + back
      BY <1>1, <1>2, <2>2, <3>1, <3>2, UnitAssumption DEF ClockInv, ClockTypeOK
    <3> QED
      BY <1>3, <2>1, <2>2, <3>1, <3>3 DEF DriftBounded
  <2> QED
    BY <1>4, <2>3, <2>4 DEF ClockInv
<1> QED
  BY <1>2, <1>5, <1>6

(* What a timer that is set now should not fire before is just what the    *)
(* wheel is behind for good.                                               *)
LEMMA SetTimerInv ==
  ASSUME ClockInv, NEW t \in 1 .. MaxTimeout, SetTimer(t)
  PROVE  ClockInv'
<1>1. t \in Nat /\ U * t \in Int /\ Lag \in Int /\ Unread \in Int
      /\ U * current \in Int /\ U * ticked \in Int /\ U * (ticked + t) \in Int
  BY UnitAssumption, BoundAssumption DEF ClockInv, ClockTypeOK, Lag, Unread
<1>2. alarm' = [due |-> ticked + t, need |-> forward + U * t - Lag]
  BY DEF SetTimer
<1>3. ClockTypeOK'
  BY <1>1, <1>2 DEF ClockInv, ClockTypeOK, SetTimer
<1>4. Behind' = Behind
  BY DEF Behind, Unread, SetTimer
<1>5. Behind = alarm'.need - U * alarm'.due
  <2>1. alarm'.need = forward + U * t - Lag /\ alarm'.due = ticked + t
    BY <1>2
  <2>2. U * (ticked + t) = U * ticked + U * t
    BY <1>1, UnitAssumption DEF ClockInv, ClockTypeOK
  <2>3. Lag = U * current - U * ticked + Unread
    BY <1>1, UnitAssumption DEF Lag, ClockInv, ClockTypeOK
  <2> QED
    BY <1>1, <2>1, <2>2, <2>3 DEF Behind, ClockInv, ClockTypeOK
<1>6. NeverShrinks'
  <2>1. Behind \in Int
    BY <1>1 DEF Behind, ClockInv, ClockTypeOK
  <2> QED
    BY <1>4, <1>5, <2>1 DEF NeverShrinks
<1>7. DriftBounded'
  BY DEF ClockInv, DriftBounded, SetTimer
<1> QED
  BY <1>3, <1>6, <1>7 DEF ClockInv

LEMMA ClockNextInv == ClockInv /\ [ClockNext]_clock_vars => ClockInv'
<1> SUFFICES ASSUME ClockInv, [ClockNext]_clock_vars
             PROVE  ClockInv'
  OBVIOUS
<1>1. ASSUME NEW d \in 1 .. MaxForward - forward, Advance(d)
      PROVE  ClockInv'
  BY <1>1, AdvanceInv
<1>2. ASSUME NEW d \in 1 .. MaxBack - back, SetBack(d)
      PROVE  ClockInv'
  BY <1>2, SetBackInv
<1>3. CASE Update
  <2>1. wall < point \/ wall >= point
    BY DEF ClockInv, ClockTypeOK
  <2> QED
    BY <1>3, <2>1, UpdateAfterSetBack, UpdateForward
<1>4. CASE RunTick
  BY <1>4 DEF RunTick, ClockInv, ClockTypeOK, NeverShrinks, DriftBounded,
     Behind, Unread
<1>5. ASSUME NEW t \in 1 .. MaxTimeout, SetTimer(t)
      PROVE  ClockInv'
  BY <1>5, SetTimerInv
<1>6. CASE UNCHANGED clock_vars
  BY <1>6 DEF clock_vars, ClockInv, ClockTypeOK, NeverShrinks, DriftBounded,
     Behind, Unread
<1> QED
  BY <1>1, <1>2, <1>3, <1>4, <1>5, <1>6 DEF ClockNext

LEMMA ClockInvariant == ClockSpec => []ClockInv
  BY ClockInitInv, ClockNextInv, PTL DEF ClockSpec

-----------------------------------------------------------------------------
(* Ticks that have run were counted, and what was counted has passed: so   *)
(* the invariant bounds the moment at which the timer's tick comes.        *)
LEMMA NeverEarlyInv == ClockInv => NotTooEarly
<1> SUFFICES ASSUME ClockInv, alarm # None, ticked >= alarm.due
             PROVE  forward >= alarm.need
  BY DEF NotTooEarly
<1>1. alarm.due \in Int /\ alarm.need \in Int
  BY AlarmFields DEF ClockInv
<1>2. U * current >= U * alarm.due
  BY <1>1, UnitAssumption DEF ClockInv, ClockTypeOK
<1>3. Behind >= alarm.need - U * alarm.due
  BY DEF ClockInv, NeverShrinks
<1>4. Unread \in Nat /\ U * current \in Int /\ U * alarm.due \in Int
  BY <1>1, UnitAssumption DEF ClockInv, ClockTypeOK, Unread
<1> QED
  BY <1>1, <1>2, <1>3, <1>4 DEF Behind, ClockInv, ClockTypeOK

(* No timer fires earlier than it was set for by more than what the wheel  *)
(* was behind the wall clock then, however long the timer thread slept,    *)
(* wherever in a burst of ticks the timer was set, and however often the   *)
(* clock was set back (timer::update, timer::timer_add).                   *)
THEOREM NeverTooEarly == ClockSpec => []NotTooEarly
  BY ClockInvariant, NeverEarlyInv, PTL

(* The wheel loses less than a centisecond at each update that counts one, *)
(* and nothing at those that do not (timer::update).                       *)
THEOREM DriftIsBounded == ClockSpec => []DriftBounded
<1>1. ClockInv => DriftBounded
  BY DEF ClockInv
<1> QED
  BY <1>1, ClockInvariant, PTL

(* The clock's types; ticked never runs past current (timer::update).       *)
THEOREM ClockTypeCorrect == ClockSpec => []ClockTypeOK
<1>1. ClockInv => ClockTypeOK
  BY DEF ClockInv
<1> QED
  BY <1>1, ClockInvariant, PTL

-----------------------------------------------------------------------------
(* Module Timer.                                                           *)

(* Induction on the natural numbers, for a set of them: they are well      *)
(* ordered.                                                                *)
LEMMA InductionBySet ==
  ASSUME NEW S, 0 \in S, \A n \in Nat : n \in S => n + 1 \in S
  PROVE  Nat \subseteq S
<1> DEFINE T == Nat \ S
           R == OpToRel(<, Nat)
<1>1. IsWellFoundedOn(R, Nat)
  BY NatLessThanWellFounded
<1>2. \A x, y \in Nat : x < y => <<x, y>> \in R
  BY DEF OpToRel
<1> HIDE DEF R
<1>3. SUFFICES ASSUME T # {} PROVE FALSE
  OBVIOUS
<1>4. PICK x \in T : \A y \in T : ~ <<y, x>> \in R
  <2>1. T \subseteq Nat
    OBVIOUS
  <2> HIDE DEF T
  <2> QED BY <1>1, <1>3, <2>1, WFMin
<1>5. x \in Nat /\ x # 0
  OBVIOUS
<1>6. x - 1 \in Nat /\ x - 1 < x /\ (x - 1) + 1 = x
  BY <1>5
<1> QED BY <1>2, <1>4, <1>5, <1>6

-----------------------------------------------------------------------------
LEMMA DivMod ==
  ASSUME NEW a \in Nat, NEW n \in Nat \ {0}
  PROVE  /\ a \div n \in Nat
         /\ a % n \in 0 .. n - 1
         /\ a = n * (a \div n) + (a % n)
OBVIOUS

LEMMA DivModOf ==
  ASSUME NEW n \in Nat \ {0}, NEW q \in Nat, NEW r \in 0 .. n - 1
  PROVE  (n * q + r) \div n = q /\ (n * q + r) % n = r
OBVIOUS

LEMMA DivModUnique ==
  ASSUME NEW n \in Nat \ {0}, NEW a \in Nat, NEW b \in Nat,
         a \div n = b \div n, a % n = b % n
  PROVE  a = b
BY DivMod

LEMMA Sizes ==
  /\ TIME_LEVEL \in Nat /\ TIME_LEVEL >= 2
  /\ TIME_NEAR \in Nat \ {0} /\ TIME_NEAR = 4 * TIME_LEVEL
BY SizeAssumption

LEMMA Spans ==
  /\ Span[0] = TIME_NEAR
  /\ \A i \in 1 .. 4 : Span[i] = TIME_LEVEL * Span[i - 1]
<1> DEFINE a == TIME_NEAR
           b == TIME_LEVEL * a
           c == TIME_LEVEL * b
           d == TIME_LEVEL * c
           f == TIME_LEVEL * d
           g == [i \in 0 .. 4 |-> IF i = 0 THEN a ELSE IF i = 1 THEN b
                   ELSE IF i = 2 THEN c ELSE IF i = 3 THEN d ELSE f]
<1> HIDE DEF a
<1>1. g = [i \in 0 .. 4 |-> IF i = 0 THEN a ELSE TIME_LEVEL * g[i - 1]]
  OBVIOUS
<1> HIDE DEF g
<1>2. \E h : h = [i \in 0 .. 4 |-> IF i = 0 THEN a ELSE TIME_LEVEL * h[i - 1]]
  BY <1>1
<1>3. Span = [i \in 0 .. 4 |-> IF i = 0 THEN a ELSE TIME_LEVEL * Span[i - 1]]
  BY <1>2 DEF Span, a
<1> QED BY <1>3 DEF a

LEMMA Strides ==
  /\ Stride[0] = TIME_NEAR
  /\ \A i \in 1 .. 2 : Stride[i] = TIME_NEAR * Stride[i - 1]
<1> DEFINE b == TIME_NEAR * TIME_NEAR
           c == TIME_NEAR * b
           g == [i \in 0 .. 2 |-> IF i = 0 THEN TIME_NEAR ELSE IF i = 1 THEN b ELSE c]
<1>1. g = [i \in 0 .. 2 |-> IF i = 0 THEN TIME_NEAR ELSE TIME_NEAR * g[i - 1]]
  OBVIOUS
<1> HIDE DEF g
<1>2. \E h : h = [i \in 0 .. 2 |-> IF i = 0 THEN TIME_NEAR ELSE TIME_NEAR * h[i - 1]]
  BY <1>1
<1>3. Stride = [i \in 0 .. 2 |-> IF i = 0 THEN TIME_NEAR ELSE TIME_NEAR * Stride[i - 1]]
  BY <1>2 DEF Stride
<1> QED BY <1>3

LEMMA SpanFacts ==
  /\ \A i \in 0 .. 4 : Span[i] \in Nat \ {0}
  /\ Span[1] = TIME_LEVEL * TIME_NEAR
  /\ Wrap \in Nat \ {0} /\ Wrap >= 2 * TIME_LEVEL * TIME_NEAR
  /\ \E q \in Nat \ {0} : Wrap = TIME_NEAR * q
<1> DEFINE l == TIME_LEVEL
           n == TIME_NEAR
<1>1. l \in Nat /\ l >= 2 /\ n \in Nat /\ n > 0
  BY Sizes
<1>2. /\ Span[0] = n /\ Span[1] = l * Span[0] /\ Span[2] = l * Span[1]
      /\ Span[3] = l * Span[2] /\ Span[4] = l * Span[3]
  BY Spans
<1> HIDE DEF l, n
<1>3. /\ Span[1] \in Nat /\ Span[1] > 0 /\ Span[1] = l * n
  BY <1>1, <1>2
<1>4. Span[2] \in Nat /\ Span[2] > 0 /\ Span[2] >= 2 * (l * n) /\ Span[2] = n * (l * l)
  BY <1>1, <1>2, <1>3
<1>5. Span[3] \in Nat /\ Span[3] > 0 /\ Span[3] >= 2 * (l * n) /\ Span[3] = n * (l * l * l)
  BY <1>1, <1>2, <1>4
<1>6. Span[4] \in Nat /\ Span[4] > 0 /\ Span[4] >= 2 * (l * n) /\ Span[4] = n * (l * l * l * l)
  BY <1>1, <1>2, <1>5
<1>7. l * l * l * l \in Nat \ {0}
  <2>1. l * l \in Nat /\ l * l > 0
    BY <1>1
  <2>2. l * l * l \in Nat /\ l * l * l > 0
    BY <1>1, <2>1
  <2> QED BY <1>1, <2>2
<1>8. 2 * l * n = 2 * (l * n)
  BY <1>1
<1>9. \A i \in 0 .. 4 : Span[i] \in Nat \ {0}
  BY <1>1, <1>2, <1>3, <1>4, <1>5, <1>6
<1> QED BY <1>1, <1>3, <1>6, <1>7, <1>8, <1>9 DEF Wrap, l, n

-----------------------------------------------------------------------------
(* The list add_node chooses, as a place: see List.                        *)
Where(e, now) == IF SameBlock(e, now, TIME_NEAR) THEN e % TIME_NEAR
                 ELSE TIME_NEAR + FarIndex(e, now)

WheelType == [near : [0 .. TIME_NEAR - 1 -> Seq(TimerId)],
              far  : [0 .. 4 * TIME_LEVEL - 1 -> Seq(TimerId)]]

(* All lists of a wheel and the list that is being dispatched.             *)
Lists(w, b) ==
  [p \in Place |-> IF p < TIME_NEAR THEN w.near[p]
                   ELSE IF p < 2 * TIME_NEAR THEN w.far[p - TIME_NEAR]
                   ELSE b]

(* L with another list at p.                                               *)
Put(L, p, l) == [L EXCEPT ![p] = l]

LEMMA LevelBound ==
  ASSUME NEW e, NEW now
  PROVE  Level(e, now) \in 0 .. 3
<1> DEFINE fits == {i \in 0 .. 2 : SameBlock(e, now, Span[i + 1])}
<1>1. CASE fits = {}
  BY <1>1 DEF Level
<1>2. CASE fits # {}
  <2>1. \E i \in fits : \A j \in fits : i <= j
    <3>1. CASE 0 \in fits
      BY <3>1
    <3>2. CASE 0 \notin fits /\ 1 \in fits
      BY <3>2
    <3>3. CASE 0 \notin fits /\ 1 \notin fits
      BY <3>3, <1>2
    <3> QED BY <3>1, <3>2, <3>3
  <2>2. (CHOOSE i \in fits : \A j \in fits : i <= j) \in fits
    BY <2>1
  <2>3. Level(e, now) \in fits
    BY <1>2, <2>2 DEF Level
  <2> QED BY <2>3
<1> QED BY <1>1, <1>2

LEMMA FarIndexBound ==
  ASSUME NEW e \in Nat, NEW now \in Nat
  PROVE  FarIndex(e, now) \in 0 .. 4 * TIME_LEVEL - 1
<1> DEFINE i == Level(e, now)
           x == (e \div Span[i]) % TIME_LEVEL
<1>1. i \in 0 .. 3
  BY LevelBound
<1> HIDE DEF i
<1>2. Span[i] \in Nat \ {0}
  BY <1>1, SpanFacts
<1>3. e \div Span[i] \in Nat
  BY <1>2, DivMod
<1>4. x \in 0 .. TIME_LEVEL - 1
  BY <1>3, Sizes, DivMod
<1>5. FarIndex(e, now) = i * TIME_LEVEL + x
  BY DEF FarIndex, i
<1> HIDE DEF x
<1>6. i = 0 \/ i = 1 \/ i = 2 \/ i = 3
  BY <1>1
<1>7. i * TIME_LEVEL + x \in 0 .. 4 * TIME_LEVEL - 1
  BY <1>4, <1>6, Sizes
<1> QED BY <1>5, <1>7

(* add_node appends the node to the list that Where names.                 *)
LEMMA AddNodeFacts ==
  ASSUME NEW w \in WheelType, NEW b \in Seq(TimerId), NEW t \in TimerId,
         NEW e \in Nat, NEW now \in Nat
  PROVE  /\ Where(e, now) \in 0 .. 2 * TIME_NEAR - 1
         /\ AddNode(w, t, e, now) \in WheelType
         /\ Lists(AddNode(w, t, e, now), b) =
              Put(Lists(w, b), Where(e, now), Append(Lists(w, b)[Where(e, now)], t))
<1>1. CASE SameBlock(e, now, TIME_NEAR)
  <2> DEFINE p == e % TIME_NEAR
             v == [w EXCEPT !.near[p] = Append(@, t)]
  <2>1. Where(e, now) = p /\ AddNode(w, t, e, now) = v
    BY <1>1 DEF Where, AddNode
  <2>2. p \in 0 .. TIME_NEAR - 1
    BY Sizes, DivMod
  <2> HIDE DEF p
  <2>3. /\ v \in WheelType
        /\ v.far = w.far
        /\ v.near = [w.near EXCEPT ![p] = Append(@, t)]
    <3> DEFINE l == [w.near EXCEPT ![p] = Append(@, t)]
    <3>1. w.near \in [0 .. TIME_NEAR - 1 -> Seq(TimerId)]
      BY DEF WheelType
    <3>2. l \in [0 .. TIME_NEAR - 1 -> Seq(TimerId)]
      <4>1. w.near[p] \in Seq(TimerId)
        BY <2>2, <3>1
      <4>2. Append(w.near[p], t) \in Seq(TimerId)
        BY <4>1
      <4> QED BY <2>2, <3>1, <4>2
    <3>3. v = [w EXCEPT !.near = l]
      OBVIOUS
    <3> HIDE DEF l, v
    <3>4. v \in WheelType /\ v.far = w.far /\ v.near = l
      BY <3>2, <3>3 DEF WheelType
    <3> QED BY <3>4 DEF l
  <2> HIDE DEF v
  <2>4. ASSUME NEW q \in Place
        PROVE  Lists(v, b)[q] = [Lists(w, b) EXCEPT ![p] = Append(@, t)][q]
    <3>1. w.near \in [0 .. TIME_NEAR - 1 -> Seq(TimerId)]
      BY DEF WheelType
    <3>2. [Lists(w, b) EXCEPT ![p] = Append(@, t)][q]
            = IF q = p THEN Append(Lists(w, b)[p], t) ELSE Lists(w, b)[q]
      BY DEF Lists
    <3>3. p \in Place /\ p < TIME_NEAR
      BY <2>2, Sizes DEF Place
    <3>4. Lists(w, b)[p] = w.near[p] /\ Lists(v, b)[p] = Append(w.near[p], t)
      BY <2>2, <2>3, <3>1, <3>3 DEF Lists
    <3>5. CASE q = p
      BY <3>2, <3>4, <3>5
    <3>6. CASE q # p
      <4>1. q < TIME_NEAR => q \in 0 .. TIME_NEAR - 1
        BY Sizes DEF Place
      <4> QED BY <2>2, <2>3, <3>1, <3>2, <3>6, <4>1 DEF Lists
    <3> QED BY <3>5, <3>6
  <2>5. Lists(v, b) = [Lists(w, b) EXCEPT ![p] = Append(@, t)]
    BY <2>4 DEF Lists
  <2> QED BY <2>1, <2>2, <2>3, <2>5, Sizes DEF Put
<1>2. CASE ~ SameBlock(e, now, TIME_NEAR)
  <2> DEFINE f == FarIndex(e, now)
             v == [w EXCEPT !.far[f] = Append(@, t)]
             p == TIME_NEAR + f
  <2>1. Where(e, now) = p /\ AddNode(w, t, e, now) = v
    BY <1>2 DEF Where, AddNode
  <2>2. f \in 0 .. 4 * TIME_LEVEL - 1
    BY FarIndexBound
  <2> HIDE DEF f
  <2>3. /\ v \in WheelType
        /\ v.near = w.near
        /\ v.far = [w.far EXCEPT ![f] = Append(@, t)]
    <3> DEFINE l == [w.far EXCEPT ![f] = Append(@, t)]
    <3>1. w.far \in [0 .. 4 * TIME_LEVEL - 1 -> Seq(TimerId)]
      BY DEF WheelType
    <3>2. l \in [0 .. 4 * TIME_LEVEL - 1 -> Seq(TimerId)]
      <4>1. w.far[f] \in Seq(TimerId)
        BY <2>2, <3>1
      <4>2. Append(w.far[f], t) \in Seq(TimerId)
        BY <4>1
      <4> QED BY <2>2, <3>1, <4>2
    <3>3. v = [w EXCEPT !.far = l]
      OBVIOUS
    <3> HIDE DEF l, v
    <3>4. v \in WheelType /\ v.near = w.near /\ v.far = l
      BY <3>2, <3>3 DEF WheelType
    <3> QED BY <3>4 DEF l
  <2> HIDE DEF v
  <2>4. p \in 0 .. 2 * TIME_NEAR - 1 /\ p >= TIME_NEAR /\ p - TIME_NEAR = f
    BY <2>2, Sizes
  <2> HIDE DEF p
  <2>5. ASSUME NEW q \in Place
        PROVE  Lists(v, b)[q] = [Lists(w, b) EXCEPT ![p] = Append(@, t)][q]
    <3>1. q - TIME_NEAR = f <=> q = p
      BY <2>4, Sizes DEF Place
    <3>2. q >= TIME_NEAR /\ q < 2 * TIME_NEAR => q - TIME_NEAR \in 0 .. 4 * TIME_LEVEL - 1
      BY Sizes DEF Place
    <3>3. w.far \in [0 .. 4 * TIME_LEVEL - 1 -> Seq(TimerId)]
      BY DEF WheelType
    <3>4. [Lists(w, b) EXCEPT ![p] = Append(@, t)][q]
            = IF q = p THEN Append(Lists(w, b)[p], t) ELSE Lists(w, b)[q]
      BY DEF Lists
    <3>5. p \in Place /\ p >= TIME_NEAR /\ p < 2 * TIME_NEAR
      BY <2>4, Sizes DEF Place
    <3>6. Lists(w, b)[p] = w.far[f] /\ Lists(v, b)[p] = Append(w.far[f], t)
      <4>1. v.far[f] = Append(w.far[f], t)
        BY <2>2, <2>3, <3>3
      <4>2. ~ (p < TIME_NEAR)
        BY <3>5, Sizes, <2>4
      <4> QED BY <2>4, <3>5, <4>1, <4>2 DEF Lists
    <3>7. CASE q = p
      BY <3>4, <3>6, <3>7
    <3>8. CASE q # p
      BY <2>2, <2>3, <3>1, <3>2, <3>3, <3>4, <3>8 DEF Lists
    <3> QED BY <3>7, <3>8
  <2>6. Lists(v, b) = [Lists(w, b) EXCEPT ![p] = Append(@, t)]
    BY <2>5 DEF Lists
  <2> QED BY <2>1, <2>3, <2>4, <2>6 DEF Put
<1> QED BY <1>1, <1>2

-----------------------------------------------------------------------------
(* Families of lists, one for each place.                                  *)
Family == [Place -> Seq(TimerId)]

At(L, p, t) == \E k \in 1 .. Len(L[p]) : L[p][k] = t

(* No timer is in two lists or in one of them twice.                       *)
Unique(L) ==
  \A p, q \in Place : \A j \in 1 .. Len(L[p]), k \in 1 .. Len(L[q]) :
    L[p][j] = L[q][k] => p = q /\ j = k

LEMMA ListsFamily ==
  ASSUME NEW w \in WheelType, NEW b \in Seq(TimerId)
  PROVE  /\ Lists(w, b) \in Family
         /\ \A p \in 0 .. TIME_NEAR - 1 : Lists(w, b)[p] = w.near[p]
         /\ \A p \in 0 .. 4 * TIME_LEVEL - 1 : Lists(w, b)[TIME_NEAR + p] = w.far[p]
         /\ Lists(w, b)[2 * TIME_NEAR] = b
<1>1. /\ w.near \in [0 .. TIME_NEAR - 1 -> Seq(TimerId)]
      /\ w.far \in [0 .. 4 * TIME_LEVEL - 1 -> Seq(TimerId)]
  BY DEF WheelType
<1>2. \A p \in 0 .. TIME_NEAR - 1 : Lists(w, b)[p] = w.near[p]
  BY Sizes DEF Lists, Place
<1>3. \A p \in 0 .. 4 * TIME_LEVEL - 1 : Lists(w, b)[TIME_NEAR + p] = w.far[p]
  <2> TAKE p \in 0 .. 4 * TIME_LEVEL - 1
  <2> DEFINE q == TIME_NEAR + p
  <2>1. q \in Place /\ ~ (q < TIME_NEAR) /\ q < 2 * TIME_NEAR /\ q - TIME_NEAR = p
    BY Sizes DEF Place
  <2> HIDE DEF q
  <2>2. Lists(w, b)[q] = w.far[p]
    BY <2>1 DEF Lists
  <2> QED BY <2>2 DEF q
<1>4. Lists(w, b)[2 * TIME_NEAR] = b
  BY Sizes DEF Lists, Place
<1>5. ASSUME NEW p \in Place PROVE Lists(w, b)[p] \in Seq(TimerId)
  <2>1. CASE p < TIME_NEAR
    <3>1. p \in 0 .. TIME_NEAR - 1
      BY <2>1, Sizes DEF Place
    <3> QED BY <1>1, <1>2, <3>1
  <2>2. CASE ~ (p < TIME_NEAR) /\ p < 2 * TIME_NEAR
    <3>1. p - TIME_NEAR \in 0 .. 4 * TIME_LEVEL - 1
      BY <2>2, Sizes DEF Place
    <3> QED BY <1>1, <2>2, <3>1 DEF Lists
  <2>3. CASE ~ (p < TIME_NEAR) /\ ~ (p < 2 * TIME_NEAR)
    BY <2>3 DEF Lists
  <2> QED BY <2>1, <2>2, <2>3
<1> QED BY <1>2, <1>3, <1>4, <1>5 DEF Family, Lists

LEMMA AppendFamily ==
  ASSUME NEW L \in Family, Unique(L), NEW p \in Place, NEW t \in TimerId,
         \A q \in Place : ~ At(L, q, t), NEW M, M = Put(L, p, Append(L[p], t))
  PROVE  /\ M \in Family /\ Unique(M)
         /\ \A q \in Place, u \in TimerId :
              At(M, q, u) <=> At(L, q, u) \/ (q = p /\ u = t)
<1>1. \A q \in Place : L[q] \in Seq(TimerId) /\ Len(L[q]) \in Nat
  BY DEF Family
<1>2. /\ \A q \in Place : M[q] = IF q = p THEN Append(L[p], t) ELSE L[q]
      /\ M \in Family
  <2>1. Append(L[p], t) \in Seq(TimerId)
    BY <1>1
  <2> QED BY <2>1 DEF Family, Put
<1>3. /\ Len(M[p]) = Len(L[p]) + 1
      /\ M[p][Len(L[p]) + 1] = t
      /\ \A k \in 1 .. Len(L[p]) : M[p][k] = L[p][k]
  <2> DEFINE l == L[p]
  <2>1. l \in Seq(TimerId) /\ M[p] = Append(l, t)
    BY <1>1, <1>2
  <2> HIDE DEF l
  <2>2. /\ Len(Append(l, t)) = Len(l) + 1
        /\ Append(l, t)[Len(l) + 1] = t
        /\ \A k \in 1 .. Len(l) : Append(l, t)[k] = l[k]
    BY <2>1
  <2> QED BY <2>1, <2>2 DEF l
<1>4. ASSUME NEW q \in Place, NEW k \in 1 .. Len(M[q])
      PROVE  \/ k \in 1 .. Len(L[q]) /\ M[q][k] = L[q][k]
             \/ q = p /\ k = Len(L[p]) + 1 /\ M[q][k] = t
  <2>1. CASE q # p
    BY <1>2, <2>1
  <2>2. CASE q = p
    BY <1>1, <1>3, <2>2
  <2> QED BY <2>1, <2>2
<1>5. ASSUME NEW q \in Place, NEW k \in 1 .. Len(L[q])
      PROVE  k \in 1 .. Len(M[q]) /\ M[q][k] = L[q][k] /\ L[q][k] # t
  BY <1>1, <1>2, <1>3 DEF At
<1>6. Unique(M)
  BY <1>4, <1>5 DEF Unique
<1>7. ASSUME NEW q \in Place, NEW u \in TimerId
      PROVE  At(M, q, u) <=> At(L, q, u) \/ (q = p /\ u = t)
  <2>1. Len(L[p]) + 1 \in 1 .. Len(M[p])
    BY <1>1, <1>3
  <2> QED BY <1>3, <1>4, <1>5, <2>1 DEF At
<1> QED BY <1>2, <1>6, <1>7

LEMMA ClearFamily ==
  ASSUME NEW L \in Family, Unique(L), NEW p \in Place,
         NEW M, M = [L EXCEPT ![p] = << >>]
  PROVE  /\ M \in Family /\ Unique(M)
         /\ \A q \in Place, u \in TimerId : At(M, q, u) <=> At(L, q, u) /\ q # p
<1>1. /\ \A q \in Place : M[q] = IF q = p THEN << >> ELSE L[q]
      /\ M \in Family
  BY DEF Family
<1>2. Len(M[p]) = 0 /\ \A q \in Place : q # p => M[q] = L[q]
  BY <1>1
<1>3. \A q \in Place : \A k \in 1 .. Len(M[q]) : q # p /\ M[q] = L[q]
  BY <1>2
<1>4. Unique(M)
  BY <1>3 DEF Unique
<1> QED BY <1>1, <1>2, <1>3, <1>4 DEF At

LEMMA TailFamily ==
  ASSUME NEW L \in Family, Unique(L), NEW p \in Place, L[p] # << >>,
         NEW M, M = Put(L, p, Tail(L[p]))
  PROVE  /\ M \in Family /\ Unique(M)
         /\ Head(L[p]) \in TimerId /\ At(L, p, Head(L[p]))
         /\ \A q \in Place, u \in TimerId :
              At(M, q, u) <=> At(L, q, u) /\ u # Head(L[p])
<1> DEFINE s == L[p]
<1>1. s \in Seq(TimerId) /\ s # << >>
  BY DEF Family
<1>2. /\ \A q \in Place : M[q] = IF q = p THEN Tail(s) ELSE L[q]
      /\ M \in Family
  BY <1>1 DEF Family, Put
<1>3. /\ Len(s) \in Nat /\ Len(s) > 0
      /\ Len(Tail(s)) = Len(s) - 1
      /\ \A k \in 1 .. Len(s) - 1 : Tail(s)[k] = s[k + 1]
      /\ Head(s) = s[1] /\ Head(s) \in TimerId
  BY <1>1
<1>4. ASSUME NEW q \in Place, NEW k \in 1 .. Len(M[q])
      PROVE  \E j \in 1 .. Len(L[q]) :
               /\ M[q][k] = L[q][j]
               /\ j = IF q = p THEN k + 1 ELSE k
  <2>1. CASE q # p
    BY <1>2, <2>1
  <2>2. CASE q = p
    <3>1. k + 1 \in 1 .. Len(s) /\ M[q][k] = s[k + 1]
      <4>1. M[q] = Tail(s)
        BY <1>2, <2>2
      <4>2. k \in 1 .. Len(s) - 1
        BY <1>3, <4>1
      <4>3. k + 1 \in 1 .. Len(s)
        BY <1>3, <4>2
      <4> HIDE DEF s
      <4> QED BY <1>3, <4>1, <4>2, <4>3
    <3> QED BY <2>2, <3>1
  <2> QED BY <2>1, <2>2
<1>5. 1 \in 1 .. Len(L[p]) /\ L[p][1] = Head(L[p])
  BY <1>3
<1>6. Unique(M)
  <2> SUFFICES ASSUME NEW q \in Place, NEW r \in Place, NEW j \in 1 .. Len(M[q]),
                      NEW k \in 1 .. Len(M[r]), M[q][j] = M[r][k]
               PROVE  q = r /\ j = k
    BY DEF Unique
  <2>1. PICK a \in 1 .. Len(L[q]) : M[q][j] = L[q][a] /\ a = IF q = p THEN j + 1 ELSE j
    BY <1>4
  <2>2. PICK c \in 1 .. Len(L[r]) : M[r][k] = L[r][c] /\ c = IF r = p THEN k + 1 ELSE k
    BY <1>4
  <2>3. q = r /\ a = c
    BY <2>1, <2>2 DEF Unique
  <2>4. j \in Int /\ k \in Int
    OBVIOUS
  <2> QED BY <2>1, <2>2, <2>3, <2>4
<1>7. ASSUME NEW q \in Place, NEW u \in TimerId, At(M, q, u)
      PROVE  At(L, q, u) /\ u # Head(L[p])
  <2>1. PICK k \in 1 .. Len(M[q]) : M[q][k] = u
    BY <1>7 DEF At
  <2>2. PICK j \in 1 .. Len(L[q]) : u = L[q][j] /\ j = IF q = p THEN k + 1 ELSE k
    BY <1>4, <2>1
  <2>3. q = p => j # 1
    BY <2>2
  <2> QED BY <1>5, <2>2, <2>3 DEF At, Unique
<1>8. ASSUME NEW q \in Place, NEW u \in TimerId, At(L, q, u), u # Head(L[p])
      PROVE  At(M, q, u)
  <2>1. PICK k \in 1 .. Len(L[q]) : L[q][k] = u
    BY <1>8 DEF At
  <2>2. CASE q # p
    BY <1>2, <2>1, <2>2 DEF At
  <2>3. CASE q = p
    <3>1. k - 1 \in 1 .. Len(M[q]) /\ M[q][k - 1] = s[k]
      <4>1. k # 1
        BY <1>5, <1>8, <2>1, <2>3
      <4>2. k - 1 \in 1 .. Len(s) - 1 /\ (k - 1) + 1 = k
        BY <1>3, <2>1, <2>3, <4>1
      <4>3. M[q] = Tail(s)
        BY <1>2, <2>3
      <4> QED BY <1>3, <4>2, <4>3
    <3> QED BY <2>1, <2>3, <3>1 DEF At
  <2> QED BY <2>2, <2>3
<1>9. At(L, p, Head(L[p]))
  BY <1>5 DEF At
<1> QED BY <1>2, <1>3, <1>6, <1>7, <1>8, <1>9

(* A whole list changes its place.                                         *)
LEMMA TakeFamily ==
  ASSUME NEW L \in Family, Unique(L), NEW p \in Place, NEW r \in Place, p # r,
         L[r] = << >>, NEW M, M = Put(Put(L, p, << >>), r, L[p])
  PROVE  /\ M \in Family /\ Unique(M)
         /\ \A q \in Place, u \in TimerId :
              At(M, q, u) <=> q # p /\ At(L, IF q = r THEN p ELSE q, u)
<1>1. /\ \A q \in Place : M[q] = IF q = r THEN L[p] ELSE IF q = p THEN << >> ELSE L[q]
      /\ M \in Family
  BY DEF Family, Put
<1>2. Len(M[p]) = 0
  <2>1. M[p] = << >>
    BY <1>1
  <2> QED BY <2>1
<1>3. \A q \in Place : q # p => M[q] = L[IF q = r THEN p ELSE q]
  BY <1>1
<1>4. \A q \in Place : \A k \in 1 .. Len(M[q]) : q # p
  BY <1>2
<1>5. Unique(M)
  <2> SUFFICES ASSUME NEW q \in Place, NEW o \in Place, NEW j \in 1 .. Len(M[q]),
                      NEW k \in 1 .. Len(M[o]), M[q][j] = M[o][k]
               PROVE  q = o /\ j = k
    BY DEF Unique
  <2> DEFINE a == IF q = r THEN p ELSE q
             c == IF o = r THEN p ELSE o
  <2>1. q # p /\ o # p /\ M[q] = L[a] /\ M[o] = L[c] /\ a \in Place /\ c \in Place
    BY <1>3, <1>4
  <2>2. a = c => q = o
    BY <2>1
  <2> HIDE DEF a, c
  <2> QED BY <2>1, <2>2 DEF Unique
<1> QED BY <1>1, <1>2, <1>3, <1>4, <1>5 DEF At

-----------------------------------------------------------------------------
(* move_list.                                                              *)
Cleared(w, index) == [w EXCEPT !.far[index] = << >>]

(* f is the wheel after each node of the list.                             *)
Moves(f, w, index, now, n) ==
  f = [k \in 0 .. n |->
         IF k = 0 THEN Cleared(w, index)
         ELSE AddNode(f[k - 1], w.far[index][k], expire[w.far[index][k]], now)]

LEMMA MoveListIsLoop ==
  ASSUME NEW w, NEW index, NEW now, \E f : Moves(f, w, index, now, Len(w.far[index]))
  PROVE  \E f : /\ Moves(f, w, index, now, Len(w.far[index]))
                /\ MoveList(w, index, now) = f[Len(w.far[index])]
BY DEF MoveList, Moves, Cleared

LEMMA MovesExist ==
  ASSUME NEW w, NEW index, NEW now
  PROVE  \A n \in Nat : \E f : Moves(f, w, index, now, n)
<1> DEFINE S == {n \in Nat : \E f : Moves(f, w, index, now, n)}
           N(v, k) == AddNode(v, w.far[index][k], expire[w.far[index][k]], now)
<1>1. 0 \in S
  <2> DEFINE f == [k \in 0 .. 0 |-> Cleared(w, index)]
  <2>1. f = [k \in 0 .. 0 |-> IF k = 0 THEN Cleared(w, index) ELSE N(f[k - 1], k)]
    OBVIOUS
  <2> HIDE DEF f, N
  <2>2. \E g : g = [k \in 0 .. 0 |-> IF k = 0 THEN Cleared(w, index) ELSE N(g[k - 1], k)]
    BY <2>1
  <2> QED BY <2>2 DEF Moves, N
<1>2. ASSUME NEW n \in Nat, n \in S PROVE n + 1 \in S
  <2>1. PICK f : f = [k \in 0 .. n |-> IF k = 0 THEN Cleared(w, index) ELSE N(f[k - 1], k)]
    BY <1>2 DEF Moves
  <2> HIDE DEF N
  <2> DEFINE g == [k \in 0 .. n + 1 |-> IF k <= n THEN f[k] ELSE N(f[n], k)]
  <2>2. \A k \in 0 .. n : g[k] = f[k]
    OBVIOUS
  <2>3. g[n + 1] = N(f[n], n + 1)
    OBVIOUS
  <2>4. ASSUME NEW k \in 0 .. n + 1
        PROVE  g[k] = IF k = 0 THEN Cleared(w, index) ELSE N(g[k - 1], k)
    <3>1. CASE k = n + 1
      <4>1. n \in 0 .. n /\ k - 1 = n /\ k # 0
        BY <3>1
      <4> QED BY <2>2, <2>3, <3>1, <4>1
    <3>2. CASE k # n + 1 /\ k # 0
      <4>1. k \in 0 .. n /\ k - 1 \in 0 .. n
        BY <3>2
      <4>2. f[k] = N(f[k - 1], k)
        BY <2>1, <3>2, <4>1
      <4> QED BY <2>2, <3>2, <4>1, <4>2
    <3>3. CASE k = 0
      <4>1. 0 \in 0 .. n
        OBVIOUS
      <4> QED BY <2>1, <2>2, <3>3, <4>1
    <3> QED BY <3>1, <3>2, <3>3
  <2>5. g = [k \in 0 .. n + 1 |-> IF k = 0 THEN Cleared(w, index) ELSE N(g[k - 1], k)]
    <3>1. DOMAIN g = 0 .. n + 1 /\ g = [k \in 0 .. n + 1 |-> g[k]]
      OBVIOUS
    <3> HIDE DEF g
    <3> QED BY <2>4, <3>1
  <2> HIDE DEF g
  <2>6. Moves(g, w, index, now, n + 1)
    BY ONLY <2>5 DEF Moves, N
  <2>7. \E h : Moves(h, w, index, now, n + 1)
    BY <2>6
  <2>8. n + 1 \in Nat
    OBVIOUS
  <2> QED BY ONLY <2>7, <2>8
<1>3. Nat \subseteq S
  <2> HIDE DEF S
  <2> QED BY <1>1, <1>2, InductionBySet
<1> QED BY <1>3

(* Every node of the list ends up in the list that add_node chooses for    *)
(* it, and the others stay where they are.                                 *)
LEMMA MoveListFacts ==
  ASSUME NEW w \in WheelType, NEW b \in Seq(TimerId), Unique(Lists(w, b)),
         NEW index \in 0 .. 4 * TIME_LEVEL - 1, NEW now \in Nat,
         expire \in [TimerId -> Nat]
  PROVE  /\ MoveList(w, index, now) \in WheelType
         /\ Unique(Lists(MoveList(w, index, now), b))
         /\ \A q \in Place, u \in TimerId :
              At(Lists(MoveList(w, index, now), b), q, u) <=>
                \/ q # TIME_NEAR + index /\ At(Lists(w, b), q, u)
                \/ /\ q = Where(expire[u], now)
                   /\ At(Lists(w, b), TIME_NEAR + index, u)
<1> DEFINE L == Lists(w, b)
           p == TIME_NEAR + index
           l == w.far[index]
           n == Len(l)
           Shape(v, k) ==
             /\ v \in WheelType
             /\ Unique(Lists(v, b))
             /\ \A q \in Place, u \in TimerId :
                  At(Lists(v, b), q, u) <=>
                    \/ q # p /\ At(L, q, u)
                    \/ q = Where(expire[u], now) /\ \E j \in 1 .. k : l[j] = u
<1>1. l \in Seq(TimerId) /\ l = L[p] /\ L \in Family
  BY ListsFamily DEF WheelType
<1>2. p \in Place /\ n \in Nat
  BY <1>1, Sizes DEF Place
<1>3. \A k \in 1 .. n : l[k] \in TimerId
  BY <1>1
<1>4. PICK f : Moves(f, w, index, now, n) /\ MoveList(w, index, now) = f[n]
  BY <1>2, MovesExist, MoveListIsLoop
<1>5. /\ f[0] = Cleared(w, index)
      /\ \A k \in 1 .. n : f[k] = AddNode(f[k - 1], l[k], expire[l[k]], now)
  <2>1. f = [k \in 0 .. n |->
               IF k = 0 THEN Cleared(w, index)
               ELSE AddNode(f[k - 1], l[k], expire[l[k]], now)]
    BY <1>4 DEF Moves
  <2>2. 0 \in 0 .. n /\ \A k \in 1 .. n : k \in 0 .. n /\ k # 0
    BY <1>2
  <2> HIDE DEF l, n
  <2> QED BY <2>1, <2>2
<1>6. Shape(f[0], 0)
  <2> DEFINE v == Cleared(w, index)
  <2>1. w.far \in [0 .. 4 * TIME_LEVEL - 1 -> Seq(TimerId)]
    BY DEF WheelType
  <2> DEFINE g == [w.far EXCEPT ![index] = << >>]
  <2>2. g \in [0 .. 4 * TIME_LEVEL - 1 -> Seq(TimerId)]
    BY <2>1
  <2>3. v = [w EXCEPT !.far = g]
    BY DEF Cleared
  <2> HIDE DEF v, g
  <2>4. v \in WheelType /\ v.near = w.near /\ v.far = g
    BY <2>2, <2>3 DEF WheelType
  <2>5. Lists(v, b) = [L EXCEPT ![p] = << >>]
    <3>1. ASSUME NEW q \in Place
          PROVE  Lists(v, b)[q] = [L EXCEPT ![p] = << >>][q]
      <4>1. [L EXCEPT ![p] = << >>][q] = IF q = p THEN << >> ELSE L[q]
        BY <1>1 DEF Family
      <4>2. CASE q = p
        <5>1. Lists(v, b)[p] = v.far[index] /\ v.far[index] = << >>
          BY <2>1, <2>4, ListsFamily DEF g
        <5> QED BY <4>1, <4>2, <5>1
      <4>3. CASE q # p
        <5>1. q - TIME_NEAR # index
          BY <4>3, Sizes DEF Place
        <5>2. q >= TIME_NEAR /\ q < 2 * TIME_NEAR => q - TIME_NEAR \in 0 .. 4 * TIME_LEVEL - 1
          BY Sizes DEF Place
        <5>3. q >= TIME_NEAR /\ q < 2 * TIME_NEAR => v.far[q - TIME_NEAR] = w.far[q - TIME_NEAR]
          BY <2>1, <2>4, <5>1, <5>2 DEF g
        <5>4. q \in Nat /\ TIME_NEAR \in Nat
          BY Sizes DEF Place
        <5> QED BY <2>4, <4>1, <4>3, <5>3, <5>4 DEF Lists
      <4> QED BY <4>2, <4>3
    <3> QED BY <3>1 DEF Lists
  <2>6. /\ Unique(Lists(v, b))
        /\ \A q \in Place, u \in TimerId : At(Lists(v, b), q, u) <=> At(L, q, u) /\ q # p
    <3> HIDE DEF L, p
    <3> QED BY <1>1, <1>2, <2>5, ClearFamily DEF L
  <2>7. \A u : ~ \E j \in 1 .. 0 : l[j] = u
    OBVIOUS
  <2>8. f[0] = v
    BY <1>5 DEF v
  <2> HIDE DEF L, p, l
  <2> QED BY <2>4, <2>6, <2>7, <2>8
<1>7. ASSUME NEW k \in Nat, k + 1 <= n, Shape(f[k], k)
      PROVE  Shape(f[k + 1], k + 1)
  <2> DEFINE v == f[k]
             t == l[k + 1]
             x == f[k + 1]
             M == Lists(v, b)
  <2>1. k + 1 \in 1 .. n /\ (k + 1) - 1 = k /\ t \in TimerId
    BY <1>2, <1>3, <1>7
  <2>2. x = AddNode(v, t, expire[t], now)
    BY <1>5, <2>1
  <2>3. v \in WheelType /\ Unique(M) /\ M \in Family
    BY <1>7, ListsFamily
  <2>4. expire[t] \in Nat
    BY <2>1
  <2> DEFINE place == Where(expire[t], now)
  <2>5. /\ x \in WheelType
        /\ place \in 0 .. 2 * TIME_NEAR - 1
        /\ Lists(x, b) = Put(M, place, Append(M[place], t))
    <3> DEFINE e == expire[t]
    <3>1. e \in Nat /\ x = AddNode(v, t, e, now) /\ place = Where(e, now)
      BY <2>2, <2>4
    <3>2. v \in WheelType /\ t \in TimerId
      BY <2>1, <2>3
    <3> HIDE DEF v, t, x, e, place
    <3>3. /\ Where(e, now) \in 0 .. 2 * TIME_NEAR - 1
          /\ AddNode(v, t, e, now) \in WheelType
          /\ Lists(AddNode(v, t, e, now), b) =
               Put(Lists(v, b), Where(e, now), Append(Lists(v, b)[Where(e, now)], t))
      BY <3>1, <3>2, AddNodeFacts
    <3> QED BY <3>1, <3>3 DEF M
  <2>6. place \in Place
    BY <2>5, Sizes DEF Place
  <2>7. \A q \in Place, u \in TimerId :
          At(M, q, u) <=> \/ q # p /\ At(L, q, u)
                          \/ q = Where(expire[u], now) /\ \E j \in 1 .. k : l[j] = u
    BY <1>7
  <2>8. \A q \in Place : ~ At(M, q, t)
    <3> SUFFICES ASSUME NEW q \in Place, At(M, q, t) PROVE FALSE
      OBVIOUS
    <3>1. CASE q # p /\ At(L, q, t)
      <4>1. k + 1 \in 1 .. Len(L[p]) /\ L[p][k + 1] = t
        BY <1>1, <2>1
      <4> HIDE DEF L, p, t
      <4> QED BY <1>2, <3>1, <4>1 DEF Unique, At, L
    <3>2. CASE \E j \in 1 .. k : l[j] = t
      <4>1. PICK j \in 1 .. k : l[j] = t
        BY <3>2
      <4>2. j \in 1 .. Len(L[p]) /\ k + 1 \in 1 .. Len(L[p]) /\ j # k + 1
        BY <1>1, <1>2, <2>1
      <4>3. L[p][j] = L[p][k + 1]
        BY <1>1, <4>1
      <4> HIDE DEF L, p, t
      <4> QED BY <1>2, <4>2, <4>3 DEF Unique, L
    <3> HIDE DEF M, L, p, t, l
    <3> QED BY <2>1, <2>7, <3>1, <3>2
  <2>9. /\ Unique(Lists(x, b))
        /\ \A q \in Place, u \in TimerId :
             At(Lists(x, b), q, u) <=> At(M, q, u) \/ (q = place /\ u = t)
    <3> DEFINE Y == Lists(x, b)
    <3>1. Y = Put(M, place, Append(M[place], t)) /\ t \in TimerId
      BY <2>1, <2>5
    <3> HIDE DEF M, t, place, Y
    <3>2. /\ Unique(Y)
          /\ \A q \in Place, u \in TimerId :
               At(Y, q, u) <=> At(M, q, u) \/ (q = place /\ u = t)
      BY <2>3, <2>6, <2>8, <3>1, AppendFamily
    <3> QED BY <3>2 DEF Y
  <2>10. ASSUME NEW u
         PROVE  (\E j \in 1 .. k + 1 : l[j] = u) <=> (\E j \in 1 .. k : l[j] = u) \/ u = t
    <3>1. \A j \in 1 .. k + 1 : j \in 1 .. k \/ j = k + 1
      OBVIOUS
    <3>2. k + 1 \in 1 .. k + 1 /\ \A j \in 1 .. k : j \in 1 .. k + 1
      OBVIOUS
    <3> HIDE DEF l
    <3> QED BY <3>1, <3>2
  <2>11. \A q \in Place, u \in TimerId :
           At(Lists(x, b), q, u) <=>
             \/ q # p /\ At(L, q, u)
             \/ q = Where(expire[u], now) /\ \E j \in 1 .. k + 1 : l[j] = u
    <3> SUFFICES ASSUME NEW q \in Place, NEW u \in TimerId
                 PROVE  At(Lists(x, b), q, u) <=>
                          \/ q # p /\ At(L, q, u)
                          \/ q = Where(expire[u], now) /\ \E j \in 1 .. k + 1 : l[j] = u
      OBVIOUS
    <3>1. At(Lists(x, b), q, u) <=> At(M, q, u) \/ (q = place /\ u = t)
      BY <2>9
    <3>2. At(M, q, u) <=> \/ q # p /\ At(L, q, u)
                          \/ q = Where(expire[u], now) /\ \E j \in 1 .. k : l[j] = u
      BY <2>7
    <3>3. (\E j \in 1 .. k + 1 : l[j] = u) <=> (\E j \in 1 .. k : l[j] = u) \/ u = t
      BY <2>10
    <3>4. u = t => (q = place <=> q = Where(expire[u], now))
      OBVIOUS
    <3> HIDE DEF M, L, p, t, l, x, place
    <3> QED BY <3>1, <3>2, <3>3, <3>4
  <2> QED BY <2>5, <2>9, <2>11
<1>8. Shape(f[n], n)
  <2> DEFINE S == {k \in Nat : k <= n => Shape(f[k], k)}
  <2> HIDE DEF Shape
  <2>1. 0 \in S
    BY <1>6
  <2>2. ASSUME NEW k \in Nat, k \in S PROVE k + 1 \in S
    <3>1. CASE k + 1 <= n
      <4>1. k <= n
        BY <1>2, <3>1
      <4>2. Shape(f[k], k)
        BY <2>2, <4>1
      <4>3. Shape(f[k + 1], k + 1)
        BY <1>7, <3>1, <4>2
      <4> QED BY <4>3
    <3>2. CASE ~ (k + 1 <= n)
      BY <3>2
    <3> QED BY <3>1, <3>2
  <2>3. Nat \subseteq S
    <3> HIDE DEF S
    <3> QED BY <2>1, <2>2, InductionBySet
  <2>4. n \in S
    BY <1>2, <2>3
  <2> QED BY <1>2, <2>4
<1>9. ASSUME NEW u PROVE (\E j \in 1 .. n : l[j] = u) <=> At(L, p, u)
  BY <1>1 DEF At
<1> HIDE DEF L, p, l, n
<1> QED BY <1>4, <1>8, <1>9 DEF L, p

-----------------------------------------------------------------------------
(* Blocks of n ticks.                                                      *)
LEMMA DivBound ==
  ASSUME NEW a \in Nat, NEW n \in Nat \ {0}, NEW c \in Nat
  PROVE  a < n * c <=> a \div n < c
<1> DEFINE q == a \div n
           r == a % n
<1>1. q \in Nat /\ r \in 0 .. n - 1 /\ a = n * q + r
  BY DivMod
<1> HIDE DEF q, r
<1>2. ASSUME q < c PROVE a < n * c
  <2>1. n * (q + 1) <= n * c
    BY <1>1, <1>2
  <2>2. n * (q + 1) = n * q + n
    BY <1>1
  <2> QED BY <1>1, <2>1, <2>2
<1>3. ASSUME q >= c PROVE a >= n * c
  <2>1. n * c <= n * q
    BY <1>1, <1>3
  <2> QED BY <1>1, <2>1
<1>4. n * c \in Nat
  OBVIOUS
<1> QED BY <1>1, <1>2, <1>3, <1>4 DEF q

LEMMA BlockClose ==
  ASSUME NEW a \in Nat, NEW b \in Nat, NEW n \in Nat \ {0}, a \div n = b \div n
  PROVE  b - a < n /\ b - a = (b % n) - (a % n)
<1> DEFINE q == a \div n
           r == a % n
           o == b % n
<1>1. q \in Nat /\ r \in 0 .. n - 1 /\ a = n * q + r
  BY DivMod
<1>2. o \in 0 .. n - 1 /\ b = n * q + o
  BY DivMod
<1>3. n * q \in Nat
  BY <1>1
<1> HIDE DEF q, r, o
<1>4. b - a < n /\ b - a = o - r
  BY <1>1, <1>2, <1>3
<1> QED BY <1>4 DEF r, o

LEMMA ModOfMultiple ==
  ASSUME NEW a \in Nat, NEW n \in Nat \ {0}, NEW q \in Nat \ {0}
  PROVE  (a % (n * q)) % n = a % n
<1> DEFINE m == n * q
           A == a \div m
           R == a % m
           B == R \div n
           r == R % n
<1>1. m \in Nat \ {0}
  OBVIOUS
<1>2. A \in Nat /\ R \in 0 .. m - 1 /\ a = m * A + R
  <2> HIDE DEF m
  <2> QED BY <1>1, DivMod
<1>3. B \in Nat /\ r \in 0 .. n - 1 /\ R = n * B + r
  <2>1. R \in Nat
    BY <1>1, <1>2
  <2> HIDE DEF R
  <2> QED BY <2>1, DivMod
<1>4. m * A = n * (q * A)
  <2> HIDE DEF A
  <2> QED BY <1>2
<1>5. a = n * (q * A + B) + r /\ q * A + B \in Nat
  <2> HIDE DEF A, B, r, R, m
  <2>1. q * A \in Nat
    BY <1>2
  <2>2. n * (q * A + B) = n * (q * A) + n * B
    BY <1>2, <1>3, <2>1
  <2> QED BY <1>2, <1>3, <1>4, <2>1, <2>2
<1> HIDE DEF A, B
<1>6. (n * (q * A + B) + r) % n = r
  <2> HIDE DEF r
  <2> QED BY <1>3, <1>5, DivModOf
<1> QED BY <1>5, <1>6

(* The next tick is in the same block, or it is the first one of the next. *)
LEMMA NextBlock ==
  ASSUME NEW a \in Nat, NEW n \in Nat \ {0, 1}
  PROVE  /\ (a + 1) % n # 0 => (a + 1) \div n = a \div n
         /\ (a + 1) % n = 0 => /\ a % n = n - 1
                               /\ (a + 1) \div n = a \div n + 1
<1> DEFINE q == a \div n
           r == a % n
<1>1. q \in Nat /\ r \in 0 .. n - 1 /\ a = n * q + r
  BY DivMod
<1> HIDE DEF q, r
<1>2. CASE r < n - 1
  <2>1. r + 1 \in 0 .. n - 1 /\ a + 1 = n * q + (r + 1)
    BY <1>1, <1>2
  <2>2. (a + 1) \div n = q /\ (a + 1) % n = r + 1
    BY <1>1, <2>1, DivModOf
  <2> QED BY <1>1, <2>2 DEF q
<1>3. CASE r = n - 1
  <2>1. 0 \in 0 .. n - 1 /\ q + 1 \in Nat /\ a + 1 = n * (q + 1) + 0
    BY <1>1, <1>3
  <2>2. (a + 1) \div n = q + 1 /\ (a + 1) % n = 0
    <3> DEFINE Q == q + 1
    <3>1. 0 \in 0 .. n - 1 /\ Q \in Nat /\ a + 1 = n * Q + 0 /\ n \in Nat \ {0}
      BY <2>1
    <3> HIDE DEF Q
    <3>2. (n * Q + 0) \div n = Q /\ (n * Q + 0) % n = 0
      BY <3>1, DivModOf
    <3> QED BY <3>1, <3>2 DEF Q
  <2> QED BY <1>1, <1>3, <2>2 DEF q, r
<1> QED BY <1>1, <1>2, <1>3

LEMMA Monotone ==
  ASSUME NEW a \in Nat, NEW b \in Nat, a <= b, NEW n \in Nat \ {0}
  PROVE  a \div n <= b \div n
<1> DEFINE q == b \div n
<1>1. q \in Nat /\ b < n * (q + 1)
  <2>1. q \in Nat /\ b = n * q + (b % n) /\ b % n \in 0 .. n - 1
    BY DivMod
  <2> HIDE DEF q
  <2>2. n * (q + 1) = n * q + n
    BY <2>1
  <2> QED BY <2>1, <2>2
<1> HIDE DEF q
<1>2. a < n * (q + 1) /\ q + 1 \in Nat /\ n * (q + 1) \in Nat
  BY <1>1
<1>3. a \div n < q + 1 /\ a \div n \in Nat
  BY <1>2, DivBound, DivMod
<1> QED BY <1>1, <1>3 DEF q

(* The wheel's time and the true one agree on the window's tick, and below *)
(* Wrap altogether.                                                        *)
LEMMA TimeMod ==
  ASSUME NEW a \in Nat
  PROVE  /\ a % Wrap \in 0 .. Wrap - 1
         /\ (a % Wrap) % TIME_NEAR = a % TIME_NEAR
         /\ a < Wrap => a % Wrap = a
<1>1. PICK q \in Nat \ {0} : Wrap = TIME_NEAR * q
  BY SpanFacts
<1>2. a < Wrap => a % Wrap = a
  <2> SUFFICES ASSUME a < Wrap PROVE a % Wrap = a
    OBVIOUS
  <2>1. a = Wrap * 0 + a /\ a \in 0 .. Wrap - 1 /\ Wrap \in Nat \ {0}
    BY SpanFacts
  <2>2. (Wrap * 0 + a) % Wrap = a
    BY <2>1, DivModOf
  <2> QED BY <2>1, <2>2
<1>3. a % Wrap \in 0 .. Wrap - 1
  BY SpanFacts, DivMod
<1> QED BY <1>1, <1>2, <1>3, ModOfMultiple, Sizes

(* What is due in the first TIME_NEAR * TIME_LEVEL ticks is filed at level *)
(* 0, in the list of its window.                                           *)
LEMMA EarlyWhere ==
  ASSUME NEW e \in Nat, NEW now \in Nat, now <= e, e < TIME_NEAR * TIME_LEVEL,
         e \div TIME_NEAR # now \div TIME_NEAR
  PROVE  /\ Where(e, now) = TIME_NEAR + (e \div TIME_NEAR)
         /\ e \div TIME_NEAR < TIME_LEVEL
<1>1. e \div TIME_NEAR < TIME_LEVEL /\ e \div TIME_NEAR \in Nat
  BY Sizes, DivBound, DivMod
<1>2. SameBlock(e, now, Span[1])
  <2>1. Span[1] \in Nat \ {0} /\ Span[1] = TIME_LEVEL * TIME_NEAR
    BY SpanFacts
  <2>2. TIME_LEVEL * TIME_NEAR = TIME_NEAR * TIME_LEVEL
    BY Sizes
  <2>3. e < Span[1] * 1 /\ now < Span[1] * 1
    <3>1. Span[1] * 1 = Span[1]
      BY <2>1
    <3> QED BY <2>1, <2>2, <3>1, Sizes
  <2>4. e \div Span[1] < 1 /\ now \div Span[1] < 1
    BY <2>1, <2>3, DivBound
  <2>5. e \div Span[1] \in Nat /\ now \div Span[1] \in Nat
    BY <2>1, DivMod
  <2> QED BY <2>4, <2>5 DEF SameBlock
<1>3. Level(e, now) = 0
  <2> DEFINE fits == {i \in 0 .. 2 : SameBlock(e, now, Span[i + 1])}
  <2>1. 0 \in fits /\ fits \subseteq 0 .. 2
    BY <1>2
  <2>2. Level(e, now) = CHOOSE i \in fits : \A j \in fits : i <= j
    BY <2>1 DEF Level
  <2> HIDE DEF fits
  <2>3. \A j \in fits : 0 <= j
    BY <2>1
  <2>4. \A i \in fits : (\A j \in fits : i <= j) => i = 0
    BY <2>1
  <2> QED BY <2>1, <2>2, <2>3, <2>4
<1>4. FarIndex(e, now) = 0 * TIME_LEVEL + ((e \div TIME_NEAR) % TIME_LEVEL)
  BY <1>3, Spans DEF FarIndex
<1>5. (e \div TIME_NEAR) % TIME_LEVEL = e \div TIME_NEAR
  <2> DEFINE x == e \div TIME_NEAR
  <2> HIDE DEF x
  <2>1. x = TIME_LEVEL * 0 + x /\ x \in 0 .. TIME_LEVEL - 1 /\ TIME_LEVEL \in Nat \ {0}
    BY <1>1, Sizes DEF x
  <2>2. (TIME_LEVEL * 0 + x) % TIME_LEVEL = x
    BY <2>1, DivModOf
  <2> QED BY <2>1, <2>2 DEF x
<1>6. 0 * TIME_LEVEL = 0
  BY Sizes
<1>7. ~ SameBlock(e, now, TIME_NEAR)
  BY DEF SameBlock
<1> QED BY <1>1, <1>4, <1>5, <1>6, <1>7 DEF Where

-----------------------------------------------------------------------------
(* timer_shift moves at most one list, at the first tick of a window; in   *)
(* the first TIME_LEVEL windows it is the list of the window that begins.  *)
Wheel == [near |-> near, far |-> far]

LEMMA StrideFacts ==
  /\ Stride[0] = TIME_NEAR
  /\ \A i \in 0 .. 2 : \E q \in Nat \ {0} : Stride[i] = TIME_NEAR * q
  /\ Stride[1] = TIME_NEAR * TIME_NEAR
  /\ Stride[2] = (TIME_NEAR * TIME_NEAR) * (4 * TIME_LEVEL)
<1> DEFINE n == TIME_NEAR
<1>1. n \in Nat \ {0} /\ n = 4 * TIME_LEVEL
  BY Sizes
<1>2. Stride[0] = n /\ Stride[1] = n * Stride[0] /\ Stride[2] = n * Stride[1]
  BY Strides
<1> HIDE DEF n
<1>3. Stride[0] = n * 1 /\ Stride[1] = n * n /\ Stride[2] = n * (n * n)
  BY <1>1, <1>2
<1>4. n * n \in Nat \ {0}
  BY <1>1
<1>5. n * (n * n) = (n * n) * n
  BY <1>4, <1>1
<1>6. \A i \in 0 .. 2 : \E q \in Nat \ {0} : Stride[i] = n * q
  BY <1>1, <1>3, <1>4
<1> QED BY <1>1, <1>2, <1>3, <1>5, <1>6 DEF n

LEMMA ZeroMod ==
  ASSUME NEW n \in Nat \ {0}
  PROVE  0 % n = 0 /\ 0 \div n = 0
<1>1. 0 = n * 0 + 0 /\ 0 \in 0 .. n - 1
  OBVIOUS
<1>2. (n * 0 + 0) % n = 0 /\ (n * 0 + 0) \div n = 0
  BY <1>1, DivModOf
<1> QED BY <1>1, <1>2

LEMMA ShiftLevelAligned ==
  ASSUME NEW ct \in Nat, NEW i \in 0 .. 2, ct % Stride[i] = 0
  PROVE  ct % TIME_NEAR = 0
<1>1. PICK q \in Nat \ {0} : Stride[i] = TIME_NEAR * q
  BY StrideFacts
<1>2. (ct % (TIME_NEAR * q)) % TIME_NEAR = ct % TIME_NEAR
  BY Sizes, ModOfMultiple
<1> QED BY <1>1, <1>2, Sizes, ZeroMod

LEMMA ShiftIndexBound ==
  ASSUME NEW ct \in Nat, ct < 3 * TIME_LEVEL * TIME_NEAR * TIME_NEAR,
         NEW i \in ShiftLevels(ct)
  PROVE  i * TIME_LEVEL + ShiftIndex(ct, i) \in 0 .. 4 * TIME_LEVEL - 1
<1> DEFINE x == ct \div Stride[i]
<1>1. i \in 0 .. 2 /\ ct % Stride[i] = 0 /\ x % TIME_NEAR # 0
  BY DEF ShiftLevels
<1>2. Stride[i] \in Nat \ {0}
  <2>1. PICK q \in Nat \ {0} : Stride[i] = TIME_NEAR * q
    BY <1>1, StrideFacts
  <2> QED BY <2>1, Sizes
<1>3. x \in Nat
  BY <1>2, DivMod
<1>4. ShiftIndex(ct, i) = x % TIME_NEAR
  BY DEF ShiftIndex
<1> HIDE DEF x
<1>5. x % TIME_NEAR \in 0 .. 4 * TIME_LEVEL - 1
  BY <1>3, Sizes, DivMod
<1>6. CASE i = 0
  <2>1. 0 * TIME_LEVEL = 0
    BY Sizes
  <2> QED BY <1>4, <1>5, <1>6, <2>1
<1>7. TIME_NEAR * TIME_NEAR \in Nat \ {0} /\ ct < (TIME_NEAR * TIME_NEAR) * (3 * TIME_LEVEL)
  <2> DEFINE m == TIME_NEAR * TIME_NEAR
             l == TIME_LEVEL
  <2>1. l \in Nat /\ TIME_NEAR \in Nat \ {0}
    BY Sizes
  <2>2. m \in Nat \ {0} /\ 3 * l * TIME_NEAR * TIME_NEAR = (3 * l) * m
    BY <2>1
  <2> HIDE DEF m, l
  <2>3. (3 * l) * m = m * (3 * l)
    BY <2>1, <2>2
  <2> QED BY <2>2, <2>3 DEF m, l
<1>8. CASE i = 1
  <2>1. x < 3 * TIME_LEVEL
    <3> DEFINE m == TIME_NEAR * TIME_NEAR
               c == 3 * TIME_LEVEL
    <3>1. m \in Nat \ {0} /\ c \in Nat /\ ct < m * c /\ x = ct \div m
      BY <1>7, <1>8, StrideFacts, Sizes DEF x
    <3> HIDE DEF m, c
    <3>2. ct \div m < c
      BY <3>1, DivBound
    <3> QED BY <3>1, <3>2 DEF c
  <2>2. x = TIME_NEAR * 0 + x /\ x \in 0 .. TIME_NEAR - 1
    BY <1>3, <2>1, Sizes
  <2>3. (TIME_NEAR * 0 + x) % TIME_NEAR = x
    BY <2>2, Sizes, DivModOf
  <2> QED BY <1>3, <1>4, <1>8, <2>1, <2>2, <2>3, Sizes
<1>9. CASE i = 2
  <2> DEFINE m == TIME_NEAR * TIME_NEAR
  <2>1. Stride[2] = m * (4 * TIME_LEVEL) /\ m \in Nat \ {0} /\ ct < m * (3 * TIME_LEVEL)
    BY <1>7, StrideFacts
  <2> HIDE DEF m
  <2>2. ct < Stride[2]
    <3>1. m * (3 * TIME_LEVEL) <= m * (4 * TIME_LEVEL)
      BY <2>1, Sizes
    <3>2. m * (3 * TIME_LEVEL) \in Nat /\ m * (4 * TIME_LEVEL) \in Nat
      BY <2>1, Sizes
    <3> QED BY <2>1, <3>1, <3>2
  <2>3. ct < Stride[2] * 1
    BY <1>2, <1>9, <2>2
  <2>4. x < 1
    BY <1>2, <1>9, <2>3, DivBound DEF x
  <2>5. x % TIME_NEAR = 0
    <3>1. x = 0
      BY <1>3, <2>4
    <3> QED BY <3>1, Sizes, ZeroMod
  <2> QED BY <1>1, <2>5 DEF x
<1> QED BY <1>1, <1>6, <1>8, <1>9

LEMMA ShiftedIs ==
  ASSUME NEW ct \in Nat, ct < 3 * TIME_LEVEL * TIME_NEAR * TIME_NEAR
  PROVE  \/ Shifted(ct) = Wheel /\ ~ (ct % TIME_NEAR = 0 /\ ct \div TIME_NEAR \in 1 .. TIME_LEVEL - 1)
         \/ /\ ct % TIME_NEAR = 0
            /\ \E index \in 0 .. 4 * TIME_LEVEL - 1 :
                 /\ Shifted(ct) = MoveList(Wheel, index, ct)
                 /\ ct \div TIME_NEAR \in 1 .. TIME_LEVEL - 1 => index = ct \div TIME_NEAR
<1> DEFINE x == ct \div TIME_NEAR
<1>1. x \in Nat
  BY Sizes, DivMod
<1>2. ct % TIME_NEAR = 0 /\ x \in 1 .. TIME_LEVEL - 1 =>
        0 \in ShiftLevels(ct) /\ ShiftIndex(ct, 0) = x
  <2> SUFFICES ASSUME ct % TIME_NEAR = 0, x \in 1 .. TIME_LEVEL - 1
               PROVE  0 \in ShiftLevels(ct) /\ ShiftIndex(ct, 0) = x
    OBVIOUS
  <2>1. x % TIME_NEAR = x
    <3> HIDE DEF x
    <3>1. x = TIME_NEAR * 0 + x /\ x \in 0 .. TIME_NEAR - 1
      BY Sizes
    <3>2. (TIME_NEAR * 0 + x) % TIME_NEAR = x
      BY <3>1, Sizes, DivModOf
    <3> QED BY <3>1, <3>2
  <2> QED BY <2>1, StrideFacts DEF ShiftLevels, ShiftIndex
<1>3. CASE ct = 0
  <2>1. Shifted(ct) = MoveList(Wheel, 3 * TIME_LEVEL, ct)
    BY <1>3 DEF Shifted, Wheel
  <2>2. ct % TIME_NEAR = 0 /\ x = 0
    BY <1>3, Sizes, ZeroMod
  <2>3. 3 * TIME_LEVEL \in 0 .. 4 * TIME_LEVEL - 1
    BY Sizes
  <2>4. x \notin 1 .. TIME_LEVEL - 1
    BY <2>2
  <2> QED BY <2>1, <2>2, <2>3, <2>4
<1>4. CASE ct # 0 /\ ShiftLevels(ct) = {}
  <2>1. Shifted(ct) = Wheel
    BY <1>4 DEF Shifted, Wheel
  <2> HIDE DEF x
  <2> QED BY <1>2, <1>4, <2>1 DEF x
<1>5. CASE ct # 0 /\ ShiftLevels(ct) # {}
  <2> DEFINE S == ShiftLevels(ct)
             first == CHOOSE i \in S : \A j \in S : i <= j
             index == first * TIME_LEVEL + ShiftIndex(ct, first)
  <2>1. Shifted(ct) = MoveList(Wheel, index, ct)
    BY <1>5 DEF Shifted, Wheel
  <2>2. S \subseteq 0 .. 2 /\ S # {}
    BY <1>5 DEF ShiftLevels
  <2> HIDE DEF S
  <2>3. \E i \in S : \A j \in S : i <= j
    <3>1. CASE 0 \in S
      BY <2>2, <3>1
    <3>2. CASE 0 \notin S /\ 1 \in S
      BY <2>2, <3>2
    <3>3. CASE 0 \notin S /\ 1 \notin S
      <4>1. \A j \in S : j = 2
        BY <2>2, <3>3
      <4>2. PICK j \in S : TRUE
        BY <2>2
      <4> QED BY <4>1, <4>2
    <3> QED BY <3>1, <3>2, <3>3
  <2>4. first \in S /\ \A j \in S : first <= j
    BY <2>3
  <2> HIDE DEF first
  <2>5. index \in 0 .. 4 * TIME_LEVEL - 1
    BY <2>4, ShiftIndexBound DEF S
  <2>6. ct % TIME_NEAR = 0
    BY <2>4, ShiftLevelAligned DEF S, ShiftLevels
  <2>7. x \in 1 .. TIME_LEVEL - 1 => index = x
    <3> SUFFICES ASSUME x \in 1 .. TIME_LEVEL - 1 PROVE index = x
      OBVIOUS
    <3>1. 0 \in S /\ ShiftIndex(ct, 0) = x
      BY <1>2, <2>6 DEF S
    <3>2. first = 0
      BY <2>2, <2>4, <3>1
    <3>3. 0 * TIME_LEVEL = 0
      BY Sizes
    <3> HIDE DEF x
    <3> QED BY <1>1, <3>1, <3>2, <3>3
  <2> HIDE DEF index
  <2> QED BY <2>1, <2>5, <2>6, <2>7
<1> QED BY <1>3, <1>4, <1>5

-----------------------------------------------------------------------------
(* The inductive invariant.                                                *)
Typed ==
  /\ TimerTypeOK
  /\ ticks <= MaxTicks
  /\ \A t \in TimerId : due[t] >= -1

All == Lists(Wheel, batch)

(* What timer t, filed at place p, satisfies when time_ is now and tk      *)
(* ticks have passed: in near_ it belongs to the window of now and has not *)
(* been passed; in a batch its tick is now.  If it is due early it is in   *)
(* near_ or in the list of level 0 whose turn is at its window; if it is   *)
(* due in the window it was set in, it never was in t_.                    *)
InFar(p) == TIME_NEAR <= p /\ p < 2 * TIME_NEAR

Early(t) ==
  due[t] < TIME_NEAR * TIME_LEVEL

Filed(t, p, now, tk) ==
  /\ p < TIME_NEAR => /\ expire[t] \div TIME_NEAR = now \div TIME_NEAR
                      /\ expire[t] % TIME_NEAR = p
                      /\ expire[t] >= now
  /\ p = 2 * TIME_NEAR => expire[t] = now
  /\ Early(t) =>
       /\ expire[t] = due[t] /\ tk <= due[t]
       /\ InFar(p) => /\ p = TIME_NEAR + due[t] \div TIME_NEAR
                      /\ due[t] \div TIME_NEAR # tk \div TIME_NEAR
  /\ due[t] \div TIME_NEAR = window[t] =>
       ~ InFar(p) /\ due[t] - tk = expire[t] - now

SortedAt(L, now, tk) ==
  /\ Unique(L)
  /\ \A t \in TimerId : due[t] # -1 <=> \E p \in Place : At(L, p, t)
  /\ \A p \in Place, t \in TimerId : At(L, p, t) => Filed(t, p, now, tk)

Sorted == SortedAt(All, time, ticks)

TimerInv == Typed /\ Sorted

LEMMA TypedFacts ==
  ASSUME Typed
  PROVE  /\ Wheel \in WheelType /\ Wheel.near = near /\ Wheel.far = far
         /\ batch \in Seq(TimerId)
         /\ All \in Family
         /\ ticks \in Nat /\ time \in 0 .. Wrap - 1 /\ time \in Nat
         /\ time = ticks % Wrap
         /\ expire \in [TimerId -> Nat]
         /\ due \in [TimerId -> Int] /\ window \in [TimerId -> Int]
<1>1. /\ near \in [0 .. TIME_NEAR - 1 -> Seq(TimerId)]
      /\ far \in [0 .. 4 * TIME_LEVEL - 1 -> Seq(TimerId)]
      /\ batch \in Seq(TimerId) /\ ticks \in Nat /\ time = ticks % Wrap
      /\ expire \in [TimerId -> 0 .. Wrap - 1]
      /\ due \in [TimerId -> Int] /\ window \in [TimerId -> Int]
  BY DEF Typed, TimerTypeOK
<1>2. Wheel \in WheelType /\ Wheel.near = near /\ Wheel.far = far
  BY <1>1 DEF Wheel, WheelType
<1>3. All \in Family
  BY <1>1, <1>2, ListsFamily DEF All
<1>4. time \in 0 .. Wrap - 1 /\ Wrap \in Nat
  BY <1>1, TimeMod, SpanFacts
<1> QED BY <1>1, <1>2, <1>3, <1>4

LEMMA TimerInitInv == TimerInit => TimerInv
<1> SUFFICES ASSUME TimerInit PROVE TimerInv
  OBVIOUS
<1>1. Wrap \in Nat \ {0} /\ 0 % Wrap = 0
  BY SpanFacts, ZeroMod
<1>2. << >> \in Seq(TimerId)
  OBVIOUS
<1>3. Typed
  BY <1>1, <1>2, TicksAssumption DEF TimerInit, Typed, TimerTypeOK
<1>4. \A p \in Place : All[p] = << >>
  <2> TAKE p \in Place
  <2>1. CASE p < TIME_NEAR
    <3>1. p \in 0 .. TIME_NEAR - 1
      BY <2>1, Sizes DEF Place
    <3> QED BY <2>1, <3>1 DEF TimerInit, All, Lists, Wheel
  <2>2. CASE ~ (p < TIME_NEAR) /\ p < 2 * TIME_NEAR
    <3>1. p - TIME_NEAR \in 0 .. 4 * TIME_LEVEL - 1
      BY <2>2, Sizes DEF Place
    <3> QED BY <2>2, <3>1 DEF TimerInit, All, Lists, Wheel
  <2>3. CASE ~ (p < TIME_NEAR) /\ ~ (p < 2 * TIME_NEAR)
    BY <2>3 DEF TimerInit, All, Lists, Wheel
  <2> QED BY <2>1, <2>2, <2>3
<1>5. \A p \in Place : Len(All[p]) = 0
  <2>1. Len(<< >>) = 0
    OBVIOUS
  <2> QED BY <1>4, <2>1
<1>6. Unique(All) /\ \A p \in Place, t \in TimerId : ~ At(All, p, t)
  BY <1>5 DEF Unique, At
<1>7. \A t \in TimerId : due[t] = -1
  BY DEF TimerInit
<1> QED BY <1>3, <1>6, <1>7 DEF TimerInv, Sorted, SortedAt

-----------------------------------------------------------------------------
(* Where a timer that is set now goes, and when its turn is.               *)
(* e is the expire field of a timer that is set at tick tk, when time_ is *)
(* now, to fire after d ticks, and p the place add_node gives it.          *)
Placed(tk, now, d, e, p) ==
  /\ e \in 0 .. Wrap - 1
  /\ p \in 0 .. 2 * TIME_NEAR - 1
  /\ p < TIME_NEAR => /\ e \div TIME_NEAR = now \div TIME_NEAR
                      /\ e % TIME_NEAR = p /\ e >= now
  /\ tk + d < TIME_NEAR * TIME_LEVEL =>
       /\ e = tk + d
       /\ TIME_NEAR <= p => /\ p = TIME_NEAR + (tk + d) \div TIME_NEAR
                            /\ (tk + d) \div TIME_NEAR # tk \div TIME_NEAR
  /\ (tk + d) \div TIME_NEAR = tk \div TIME_NEAR => p < TIME_NEAR /\ e = now + d

LEMMA AddedFiled ==
  ASSUME NEW tk \in Nat, NEW now, now = tk % Wrap, NEW d \in Int, d > 0, d < Wrap \div 2,
         NEW e, e = (now + d) % Wrap, NEW p, p = Where(e, now)
  PROVE  Placed(tk, now, d, e, p)
<1>1. /\ Wrap \in Nat \ {0} /\ TIME_NEAR \in Nat \ {0, 1} /\ TIME_LEVEL \in Nat
      /\ Wrap >= 4 * TIME_NEAR /\ Wrap >= TIME_NEAR * TIME_LEVEL
      /\ TIME_NEAR * TIME_LEVEL \in Nat
  <2> DEFINE m == TIME_NEAR * TIME_LEVEL
             n == TIME_NEAR
             l == TIME_LEVEL
  <2>1. l \in Nat /\ l >= 2 /\ n = 4 * l /\ n \in Nat
    BY Sizes
  <2>2. Wrap \in Nat \ {0} /\ Wrap >= 2 * l * n
    BY SpanFacts
  <2> HIDE DEF n, l
  <2>3. 2 * l * n = 2 * (n * l) /\ n * l >= 2 * n /\ n * l \in Nat
    BY <2>1
  <2>4. Wrap >= 4 * n /\ Wrap >= n * l /\ n \in Nat \ {0, 1}
    BY <2>1, <2>2, <2>3
  <2> QED BY <2>1, <2>2, <2>3, <2>4 DEF n, l
<1>2. now \in 0 .. Wrap - 1 /\ now % TIME_NEAR = tk % TIME_NEAR /\ (tk < Wrap => now = tk)
  BY TimeMod
<1>3. 2 * d < Wrap
  <2>1. 2 * (Wrap \div 2) <= Wrap /\ Wrap \div 2 \in Nat
    BY <1>1
  <2> QED BY <1>1, <2>1
<1> DEFINE s == now + d
<1>4. e \in 0 .. Wrap - 1 /\ s \in Nat
  <2>1. s \in Nat /\ e = s % Wrap
    BY <1>1, <1>2
  <2> HIDE DEF s
  <2> QED BY <1>1, <2>1, DivMod
<1>5. (now + d < Wrap => e = now + d) /\ (now + d >= Wrap => e = now + d - Wrap)
  <2>1. CASE now + d < Wrap
    <3>1. s \in Nat /\ s < Wrap /\ e = s % Wrap
      BY <1>4, <2>1
    <3> HIDE DEF s
    <3>2. e = s
      BY <3>1, TimeMod
    <3> QED BY <1>1, <1>2, <2>1, <3>2 DEF s
  <2>2. CASE now + d >= Wrap
    <3> DEFINE r == now + d - Wrap
    <3>1. now + d = Wrap * 1 + r /\ r \in 0 .. Wrap - 1
      BY <1>1, <1>2, <1>3, <2>2
    <3> HIDE DEF r
    <3>2. (Wrap * 1 + r) % Wrap = r
      BY <1>1, <3>1, DivModOf
    <3>3. e = r
      BY <3>1, <3>2
    <3> QED BY <1>1, <1>2, <2>2, <3>3 DEF r
  <2> QED BY <1>1, <1>2, <2>1, <2>2
<1>6. /\ e \in Nat /\ now \in Nat
      /\ p < TIME_NEAR <=> SameBlock(e, now, TIME_NEAR)
      /\ SameBlock(e, now, TIME_NEAR) => p = e % TIME_NEAR
      /\ p \in 0 .. 2 * TIME_NEAR - 1
  <2>1. e \in Nat /\ now \in Nat
    BY <1>1, <1>2, <1>4
  <2>2. e % TIME_NEAR \in 0 .. TIME_NEAR - 1
    BY <1>1, <2>1, DivMod
  <2>3. FarIndex(e, now) \in 0 .. 4 * TIME_LEVEL - 1
    BY <2>1, FarIndexBound
  <2> QED BY <2>1, <2>2, <2>3, <1>1, Sizes DEF Where
<1>7. SameBlock(e, now, TIME_NEAR) => e >= now
  <2> SUFFICES ASSUME SameBlock(e, now, TIME_NEAR) PROVE e >= now
    OBVIOUS
  <2>1. now - e < TIME_NEAR
    BY <1>1, <1>6, BlockClose DEF SameBlock
  <2>2. CASE now + d < Wrap
    BY <1>1, <1>2, <1>5, <2>2
  <2>3. CASE now + d >= Wrap
    <3>1. now - e = Wrap - d
      BY <1>1, <1>2, <1>5, <2>3
    <3> QED BY <1>1, <1>3, <2>1, <3>1
  <2> QED BY <1>1, <1>2, <2>2, <2>3
<1>8. ASSUME tk + d < TIME_NEAR * TIME_LEVEL
      PROVE  /\ e = tk + d
             /\ TIME_NEAR <= p => /\ p = TIME_NEAR + (tk + d) \div TIME_NEAR
                                  /\ (tk + d) \div TIME_NEAR # tk \div TIME_NEAR
  <2>1. now = tk /\ e = tk + d
    BY <1>1, <1>2, <1>5, <1>8
  <2>2. ASSUME TIME_NEAR <= p
        PROVE  /\ p = TIME_NEAR + (tk + d) \div TIME_NEAR
               /\ (tk + d) \div TIME_NEAR # tk \div TIME_NEAR
    <3>1. ~ SameBlock(e, now, TIME_NEAR)
      BY <1>1, <1>6, <2>2
    <3>2. e \div TIME_NEAR # now \div TIME_NEAR
      BY <3>1 DEF SameBlock
    <3>3. now <= e /\ e < TIME_NEAR * TIME_LEVEL
      BY <2>1, <1>8
    <3> QED BY <1>6, <2>1, <3>2, <3>3, EarlyWhere
  <2> QED BY <2>1, <2>2
<1>9. ASSUME (tk + d) \div TIME_NEAR = tk \div TIME_NEAR
      PROVE  p < TIME_NEAR /\ e = now + d
  <2> DEFINE n == TIME_NEAR
             q == now \div n
             r == now % n
  <2>1. q \in Nat /\ r \in 0 .. n - 1 /\ now = n * q + r
    BY <1>1, <1>6, DivMod
  <2>2. (tk + d) - tk = ((tk + d) % n) - (tk % n) /\ (tk + d) % n \in 0 .. n - 1
    <3> DEFINE u == tk + d
    <3>1. u \in Nat /\ u \div n = tk \div n /\ n \in Nat \ {0}
      BY <1>1, <1>9
    <3> HIDE DEF u, n
    <3>2. u - tk = (u % n) - (tk % n) /\ u % n \in 0 .. n - 1
      BY <3>1, BlockClose, DivMod
    <3> QED BY <3>2 DEF u
  <2>3. r = tk % n
    BY <1>2
  <2> DEFINE o == (tk + d) % n
  <2>4. o \in 0 .. n - 1 /\ d = o - r
    BY <2>2, <2>3
  <2>5. n \in Nat \ {0} /\ n \in Nat
    BY <1>1
  <2> HIDE DEF o, r, q
  <2>6. now + d = n * q + o
    BY <2>1, <2>4, <2>5
  <2>7. PICK c \in Nat \ {0} : Wrap = n * c
    BY SpanFacts
  <2>8. q < c
    <3>1. now < n * c
      BY <1>2, <1>1, <2>7
    <3> QED BY <1>6, <2>5, <2>7, <3>1, DivBound DEF q
  <2>9. n * q + n <= n * c
    <3>1. n * (q + 1) <= n * c
      BY <2>1, <2>5, <2>7, <2>8
    <3>2. n * (q + 1) = n * q + n
      BY <2>1, <2>5
    <3> QED BY <3>1, <3>2
  <2>10. now + d < Wrap
    BY <2>1, <2>4, <2>5, <2>6, <2>7, <2>9
  <2>11. e = now + d
    BY <1>5, <2>10
  <2>12. e \div n = q
    <3>1. e = n * q + o
      BY <2>6, <2>11
    <3> HIDE DEF n
    <3>2. (n * q + o) \div n = q
      BY <2>1, <2>4, <2>5, DivModOf
    <3> QED BY <3>1, <3>2
  <2>13. SameBlock(e, now, TIME_NEAR)
    BY <2>12 DEF SameBlock, q
  <2> QED BY <1>6, <2>11, <2>13
<1> QED BY <1>4, <1>6, <1>7, <1>8, <1>9 DEF SameBlock, Placed

LEMMA TimerAddInv ==
  ASSUME TimerInv, NEW t \in TimerId, NEW timeout \in Timeouts, TimerAdd(t, timeout)
  PROVE  TimerInv'
<1> DEFINE e == (time + timeout) % Wrap
           w == AddNode(Wheel, t, e, time)
           p == Where(e, time)
<1>1. /\ Typed /\ Sorted
      /\ due[t] = -1 /\ timeout \in Int /\ timeout > 0 /\ timeout < Wrap \div 2
      /\ expire' = [expire EXCEPT ![t] = e]
      /\ near' = w.near /\ far' = w.far
      /\ window' = [window EXCEPT ![t] = ticks \div TIME_NEAR]
      /\ due' = [due EXCEPT ![t] = ticks + timeout]
      /\ UNCHANGED <<time, pc, batch, ticks>>
  BY TimeoutAssumption DEF TimerInv, TimerAdd, Wheel
<1>2. /\ Wheel \in WheelType /\ batch \in Seq(TimerId) /\ All \in Family
      /\ ticks \in Nat /\ time \in Nat /\ time = ticks % Wrap
      /\ expire \in [TimerId -> Nat]
      /\ due \in [TimerId -> Int] /\ window \in [TimerId -> Int]
  BY <1>1, TypedFacts
<1>3. /\ e \in 0 .. Wrap - 1
      /\ p \in 0 .. 2 * TIME_NEAR - 1
      /\ p < TIME_NEAR => /\ e \div TIME_NEAR = time \div TIME_NEAR
                          /\ e % TIME_NEAR = p /\ e >= time
      /\ ticks + timeout < TIME_NEAR * TIME_LEVEL =>
           /\ e = ticks + timeout
           /\ TIME_NEAR <= p => /\ p = TIME_NEAR + (ticks + timeout) \div TIME_NEAR
                                /\ (ticks + timeout) \div TIME_NEAR # ticks \div TIME_NEAR
      /\ (ticks + timeout) \div TIME_NEAR = ticks \div TIME_NEAR =>
           p < TIME_NEAR /\ e = time + timeout
  <2>1. e = (time + timeout) % Wrap /\ p = Where(e, time)
    OBVIOUS
  <2> HIDE DEF e, p
  <2>2. Placed(ticks, time, timeout, e, p)
    BY <1>1, <1>2, <2>1, AddedFiled
  <2> QED BY <2>2 DEF Placed
<1> HIDE DEF e
<1>4. /\ w \in WheelType
      /\ Lists(w, batch) = Put(All, p, Append(All[p], t))
  <2>1. e \in Nat
    BY <1>3, SpanFacts
  <2> QED BY <1>2, <2>1, AddNodeFacts DEF All
<1> HIDE DEF w, p
<1>5. Wheel' = w /\ All' = Put(All, p, Append(All[p], t))
  <2>1. Wheel' = [near |-> w.near, far |-> w.far]
    BY <1>1 DEF Wheel
  <2>2. Wheel' = w
    BY <1>4, <2>1 DEF WheelType
  <2> QED BY <1>1, <1>4, <2>2 DEF All
<1>6. Typed'
  <2>1. near' \in [0 .. TIME_NEAR - 1 -> Seq(TimerId)]
    BY <1>1, <1>4 DEF WheelType
  <2>2. far' \in [0 .. 4 * TIME_LEVEL - 1 -> Seq(TimerId)]
    BY <1>1, <1>4 DEF WheelType
  <2>3. expire' \in [TimerId -> 0 .. Wrap - 1]
    BY <1>1, <1>3 DEF Typed, TimerTypeOK
  <2>4. ticks \div TIME_NEAR \in Int
    BY <1>2, Sizes, DivMod
  <2>5. window' \in [TimerId -> Int] /\ due' \in [TimerId -> Int]
    BY <1>1, <1>2, <2>4
  <2>6. \A u \in TimerId : due'[u] >= -1
    BY <1>1, <1>2 DEF Typed
  <2> QED BY <1>1, <2>1, <2>2, <2>3, <2>5, <2>6 DEF Typed, TimerTypeOK
<1>7. p \in Place
  BY <1>3, Sizes DEF Place
<1>8. \A q \in Place : ~ At(All, q, t)
  BY <1>1 DEF Sorted, SortedAt
<1>9. Unique(All)
  BY <1>1 DEF Sorted, SortedAt
<1>10. /\ Unique(All')
       /\ \A q \in Place, u \in TimerId :
            At(All', q, u) <=> At(All, q, u) \/ (q = p /\ u = t)
  <2> DEFINE M == Put(All, p, Append(All[p], t))
  <2> HIDE DEF M
  <2>1. /\ Unique(M)
        /\ \A q \in Place, u \in TimerId :
             At(M, q, u) <=> At(All, q, u) \/ (q = p /\ u = t)
    BY <1>2, <1>7, <1>8, <1>9, AppendFamily DEF M
  <2> QED BY <1>5, <2>1 DEF M
<1>11. \A u \in TimerId : due'[u] # -1 <=> \E q \in Place : At(All', q, u)
  <2>1. due'[t] # -1 /\ At(All', p, t)
    BY <1>1, <1>2, <1>7, <1>10
  <2>2. \A u \in TimerId : u # t => due'[u] = due[u]
    BY <1>1, <1>2
  <2> QED BY <1>1, <1>7, <1>10, <2>1, <2>2 DEF Sorted, SortedAt
<1>12. ASSUME NEW q \in Place, NEW u \in TimerId, At(All', q, u)
       PROVE  Filed(u, q, time, ticks)'
  <2>1. CASE u # t
    <3>1. Filed(u, q, time, ticks)
      BY <1>1, <1>10, <1>12, <2>1 DEF Sorted, SortedAt
    <3>2. expire'[u] = expire[u] /\ due'[u] = due[u] /\ window'[u] = window[u]
      BY <1>1, <2>1, <1>2
    <3> QED BY <1>1, <3>1, <3>2 DEF Filed, Early
  <2>2. CASE u = t
    <3>1. q = p
      BY <1>8, <1>10, <1>12, <2>2
    <3>2. expire'[u] = e /\ due'[u] = ticks + timeout /\ window'[u] = ticks \div TIME_NEAR
      BY <1>1, <2>2, <1>2
    <3>3. p # 2 * TIME_NEAR /\ ticks <= ticks + timeout
      BY <1>1, <1>2, <1>3, Sizes
    <3>4. p < TIME_NEAR => ~ InFar(p)
      BY <1>3, Sizes DEF InFar
    <3>5. InFar(p) => TIME_NEAR <= p
      BY DEF InFar
    <3>6. (ticks + timeout) - ticks = timeout /\ (time + timeout) - time = timeout
      BY <1>1, <1>2
    <3> QED BY <1>1, <1>3, <3>1, <3>2, <3>3, <3>4, <3>5, <3>6 DEF Filed, Early
  <2> QED BY <2>1, <2>2
<1>13. Sorted'
  BY <1>10, <1>11, <1>12 DEF Sorted, SortedAt
<1> QED BY <1>6, <1>13 DEF TimerInv

LEMMA DispatchInv ==
  ASSUME TimerInv, Dispatch
  PROVE  TimerInv'
<1> DEFINE t == Head(batch)
           b == 2 * TIME_NEAR
<1>1. /\ Typed /\ Sorted
      /\ batch # << >> /\ batch' = Tail(batch)
      /\ window' = [window EXCEPT ![t] = -1]
      /\ due' = [due EXCEPT ![t] = -1]
      /\ UNCHANGED <<near, far, time, expire, pc, ticks>>
  BY DEF TimerInv, Dispatch
<1>2. /\ Wheel \in WheelType /\ batch \in Seq(TimerId) /\ All \in Family
      /\ due \in [TimerId -> Int] /\ window \in [TimerId -> Int]
  BY <1>1, TypedFacts
<1>3. b \in Place /\ All[b] = batch
  BY <1>2, Sizes, ListsFamily DEF All, Place
<1>4. Wheel' = Wheel /\ batch' \in Seq(TimerId)
  BY <1>1, <1>2 DEF Wheel
<1>5. All' = [All EXCEPT ![b] = Tail(@)]
  <2>1. All' = Lists(Wheel, Tail(batch))
    BY <1>1, <1>4 DEF All
  <2>2. ASSUME NEW q \in Place
        PROVE  Lists(Wheel, Tail(batch))[q] = [All EXCEPT ![b] = Tail(@)][q]
    <3>1. [All EXCEPT ![b] = Tail(@)][q] = IF q = b THEN Tail(batch) ELSE All[q]
      BY <1>2, <1>3 DEF Family
    <3>2. q # b => q < 2 * TIME_NEAR
      BY Sizes DEF Place
    <3>3. q = b => ~ (q < TIME_NEAR) /\ ~ (q < 2 * TIME_NEAR)
      BY Sizes
    <3> QED BY <3>1, <3>2, <3>3 DEF Lists, All
  <2> QED BY <2>1, <2>2, <1>2 DEF Lists, Family
<1>6. Typed'
  <2>1. batch' \in Seq(TimerId) /\ (pc = "idle" => batch = << >>)
    BY <1>1, <1>4 DEF Typed, TimerTypeOK
  <2>2. window' \in [TimerId -> Int] /\ due' \in [TimerId -> Int]
    BY <1>1, <1>2
  <2>3. \A u \in TimerId : due'[u] >= -1
    BY <1>1, <1>2 DEF Typed
  <2> QED BY <1>1, <2>1, <2>2, <2>3 DEF Typed, TimerTypeOK
<1>7. Unique(All) /\ All[b] # << >>
  BY <1>1, <1>3 DEF Sorted, SortedAt
<1> HIDE DEF b
<1>8. /\ Unique(All')
      /\ t \in TimerId /\ At(All, b, t)
      /\ \A q \in Place, u \in TimerId : At(All', q, u) <=> At(All, q, u) /\ u # t
  <2> DEFINE M == Put(All, b, Tail(All[b]))
  <2>1. /\ Unique(M)
        /\ Head(All[b]) \in TimerId /\ At(All, b, Head(All[b]))
        /\ \A q \in Place, u \in TimerId :
             At(M, q, u) <=> At(All, q, u) /\ u # Head(All[b])
    <3>1. M = Put(All, b, Tail(All[b]))
      OBVIOUS
    <3> HIDE DEF M
    <3> QED BY <1>2, <1>3, <1>7, <3>1, TailFamily
  <2> QED BY <1>3, <1>5, <2>1 DEF Put
<1> HIDE DEF t
<1>9. \A u \in TimerId : u # t => due'[u] = due[u] /\ window'[u] = window[u]
  BY <1>1, <1>2
<1>10. due'[t] = -1
  BY <1>1, <1>2, <1>8
<1>11. \A u \in TimerId : due'[u] # -1 <=> \E q \in Place : At(All', q, u)
  BY <1>1, <1>8, <1>9, <1>10 DEF Sorted, SortedAt
<1>12. ASSUME NEW q \in Place, NEW u \in TimerId, At(All', q, u)
       PROVE  Filed(u, q, time, ticks)'
  <2>1. At(All, q, u) /\ u # t
    BY <1>8, <1>12
  <2>2. Filed(u, q, time, ticks)
    BY <1>1, <2>1 DEF Sorted, SortedAt
  <2> QED BY <1>1, <1>9, <2>1, <2>2 DEF Filed, Early
<1>13. Sorted'
  BY <1>8, <1>11, <1>12 DEF Sorted, SortedAt
<1> QED BY <1>6, <1>13 DEF TimerInv

(* timer_execute takes the list of the current tick: its nodes expire at   *)
(* this very tick.                                                         *)
LEMMA Taken ==
  ASSUME NEW w \in WheelType, NEW now \in Nat, NEW tk, NEW place,
         SortedAt(Lists(w, << >>), now, tk), expire \in [TimerId -> Nat],
         Take(w, now, place), time' = now, ticks' = tk, UNCHANGED <<expire, window, due>>
  PROVE  /\ near' \in [0 .. TIME_NEAR - 1 -> Seq(TimerId)]
         /\ far' \in [0 .. 4 * TIME_LEVEL - 1 -> Seq(TimerId)]
         /\ batch' \in Seq(TimerId)
         /\ Sorted'
<1> DEFINE L == Lists(w, << >>)
           p == now % TIME_NEAR
           b == 2 * TIME_NEAR
<1>1. /\ w.near \in [0 .. TIME_NEAR - 1 -> Seq(TimerId)]
      /\ w.far \in [0 .. 4 * TIME_LEVEL - 1 -> Seq(TimerId)]
      /\ << >> \in Seq(TimerId)
  BY DEF WheelType
<1>2. p \in 0 .. TIME_NEAR - 1 /\ p \in Place /\ b \in Place /\ p # b /\ p < TIME_NEAR
  <2>1. p \in 0 .. TIME_NEAR - 1
    BY Sizes, DivMod
  <2> HIDE DEF p
  <2> QED BY <2>1, Sizes DEF Place
<1>3. /\ near' = [w.near EXCEPT ![p] = << >>] /\ far' = w.far
      /\ batch' = w.near[p]
  BY DEF Take
<1>4. now = now /\ p = now % TIME_NEAR
  OBVIOUS
<1> HIDE DEF p
<1>5. /\ near' \in [0 .. TIME_NEAR - 1 -> Seq(TimerId)]
      /\ far' \in [0 .. 4 * TIME_LEVEL - 1 -> Seq(TimerId)]
      /\ batch' \in Seq(TimerId)
  BY <1>1, <1>2, <1>3
<1>6. L \in Family /\ L[p] = w.near[p] /\ L[b] = << >> /\ Unique(L)
  BY <1>1, <1>2, ListsFamily DEF SortedAt
<1>7. All' = Put(Put(L, p, << >>), b, L[p])
  <2> DEFINE M == Put(Put(L, p, << >>), b, L[p])
  <2>1. M \in [Place -> Seq(TimerId)]
    BY <1>1, <1>2, <1>6 DEF Family, Put
  <2>2. All' = Lists(Wheel', batch') /\ Wheel' = [near |-> near', far |-> far']
    BY DEF All, Wheel
  <2>3. ASSUME NEW q \in Place
        PROVE  Lists(Wheel', batch')[q] = M[q]
    <3>1. M[q] = IF q = b THEN L[p] ELSE IF q = p THEN << >> ELSE L[q]
      BY <1>2, <1>6 DEF Family, Put
    <3>2. CASE q < TIME_NEAR
      <4>1. q \in 0 .. TIME_NEAR - 1 /\ q # b
        BY <3>2, Sizes DEF Place
      <4>2. Lists(Wheel', batch')[q] = near'[q] /\ L[q] = w.near[q]
        BY <2>2, <3>2 DEF Lists
      <4>3. near'[q] = IF q = p THEN << >> ELSE w.near[q]
        BY <1>1, <1>3, <4>1
      <4> QED BY <3>1, <4>1, <4>2, <4>3
    <3>3. CASE ~ (q < TIME_NEAR) /\ q < 2 * TIME_NEAR
      <4>1. q # p /\ q # b
        BY <1>2, <3>3
      <4>2. Lists(Wheel', batch')[q] = far'[q - TIME_NEAR] /\ L[q] = w.far[q - TIME_NEAR]
        BY <2>2, <3>3 DEF Lists
      <4> QED BY <1>3, <3>1, <4>1, <4>2
    <3>4. CASE ~ (q < TIME_NEAR) /\ ~ (q < 2 * TIME_NEAR)
      <4>1. q = b
        BY <3>4, Sizes DEF Place
      <4>2. Lists(Wheel', batch')[q] = batch'
        BY <3>4 DEF Lists
      <4> QED BY <1>3, <1>6, <3>1, <4>1, <4>2
    <3> QED BY <3>2, <3>3, <3>4
  <2>4. Lists(Wheel', batch') = [q \in Place |-> Lists(Wheel', batch')[q]]
    BY DEF Lists
  <2> HIDE DEF M
  <2>5. Lists(Wheel', batch') = M
    BY <2>1, <2>3, <2>4
  <2> QED BY <2>2, <2>5 DEF M
<1> HIDE DEF b
<1>8. /\ Unique(All')
      /\ \A q \in Place, u \in TimerId :
           At(All', q, u) <=> q # p /\ At(L, IF q = b THEN p ELSE q, u)
  <2> DEFINE M == Put(Put(L, p, << >>), b, L[p])
  <2>1. M = Put(Put(L, p, << >>), b, L[p])
    OBVIOUS
  <2> HIDE DEF L, M
  <2>2. /\ Unique(M)
        /\ \A q \in Place, u \in TimerId :
             At(M, q, u) <=> q # p /\ At(L, IF q = b THEN p ELSE q, u)
    BY <1>2, <1>6, <2>1, TakeFamily
  <2> QED BY <1>7, <2>1, <2>2
<1> HIDE DEF L
<1>9. /\ \A t \in TimerId : due[t] # -1 <=> \E q \in Place : At(L, q, t)
      /\ \A q \in Place, t \in TimerId : At(L, q, t) => Filed(t, q, now, tk)
  BY DEF SortedAt, L
<1>10. \A t \in TimerId : ~ At(L, b, t)
  <2>1. Len(L[b]) = 0
    BY <1>6
  <2> QED BY <2>1 DEF At
<1>11. \A t \in TimerId : due'[t] # -1 <=> \E q \in Place : At(All', q, t)
  BY <1>2, <1>8, <1>9, <1>10
<1>12. ASSUME NEW q \in Place, NEW t \in TimerId, At(All', q, t)
       PROVE  Filed(t, q, time, ticks)'
  <2>1. CASE q = b
    <3>1. At(L, p, t) /\ Filed(t, p, now, tk)
      BY <1>2, <1>8, <1>9, <1>12, <2>1
    <3>2. /\ expire[t] \div TIME_NEAR = now \div TIME_NEAR
          /\ expire[t] % TIME_NEAR = now % TIME_NEAR
      BY <1>2, <1>4, <3>1 DEF Filed
    <3>3. expire[t] = now
      BY <3>2, Sizes, DivModUnique
    <3>4. ~ (q < TIME_NEAR) /\ ~ InFar(q)
      BY <2>1, Sizes DEF b, InFar
    <3> QED BY <3>1, <3>3, <3>4 DEF Filed, Early
  <2>2. CASE q # b
    <3>1. Filed(t, q, now, tk)
      BY <1>8, <1>9, <1>12, <2>2
    <3> QED BY <3>1 DEF Filed, Early
  <2> QED BY <2>1, <2>2
<1>13. Sorted'
  BY <1>8, <1>11, <1>12 DEF Sorted, SortedAt
<1> QED BY <1>5, <1>13

-----------------------------------------------------------------------------
(* The next tick.                                                          *)
LEMMA NextMod ==
  ASSUME NEW a \in Nat, NEW n \in Nat \ {0}
  PROVE  /\ ((a % n) + 1) % n = (a + 1) % n
         /\ (a % n) + 1 < n => (a + 1) % n = (a % n) + 1
<1> DEFINE q == a \div n
           r == a % n
           s == r + 1
<1>1. q \in Nat /\ r \in 0 .. n - 1 /\ a = n * q + r
  BY DivMod
<1> HIDE DEF q, r
<1>2. CASE s < n
  <2>1. s \in 0 .. n - 1 /\ a + 1 = n * q + s /\ s = n * 0 + s
    BY <1>1, <1>2
  <2> HIDE DEF s
  <2>2. (n * q + s) % n = s /\ (n * 0 + s) % n = s
    BY <1>1, <2>1, DivModOf
  <2> QED BY <2>1, <2>2 DEF s, r
<1>3. CASE ~ (s < n)
  <2>1. s = n
    BY <1>1, <1>3
  <2>2. n * (q + 1) = n * q + n /\ q + 1 \in Nat /\ 0 \in 0 .. n - 1
    BY <1>1
  <2>3. a + 1 = n * (q + 1) + 0 /\ s = n * 1 + 0
    BY <1>1, <2>1, <2>2
  <2>4. (n * (q + 1) + 0) % n = 0 /\ (n * 1 + 0) % n = 0
    BY <2>2, DivModOf
  <2> QED BY <1>3, <2>3, <2>4 DEF s, r
<1> QED BY <1>2, <1>3

LEMMA NextTick ==
  ASSUME NEW tk \in Nat, NEW now, now = tk % Wrap, NEW ct, ct = (now + 1) % Wrap
  PROVE  /\ now \in Nat /\ now < Wrap
         /\ ct = (tk + 1) % Wrap /\ ct \in Nat /\ ct <= tk + 1
         /\ ct % TIME_NEAR = (tk + 1) % TIME_NEAR
         /\ ct % TIME_NEAR = (now + 1) % TIME_NEAR
         /\ now + 1 < Wrap => ct = now + 1
         /\ tk + 1 < Wrap => now = tk /\ ct = tk + 1
<1> DEFINE u == tk + 1
           m == now + 1
<1>1. Wrap \in Nat \ {0} /\ u \in Nat /\ tk <= u
  BY SpanFacts
<1>2. now \in 0 .. Wrap - 1
  BY TimeMod
<1>3. m \in Nat
  BY <1>1, <1>2
<1>4. ct = u % Wrap /\ (m < Wrap => ct = m)
  BY <1>1, NextMod
<1>5. ct = m % Wrap
  OBVIOUS
<1> HIDE DEF u, m
<1>6. ct \in 0 .. Wrap - 1 /\ ct % TIME_NEAR = u % TIME_NEAR /\ (u < Wrap => ct = u)
  BY <1>1, <1>4, TimeMod
<1>7. ct % TIME_NEAR = m % TIME_NEAR
  BY <1>3, <1>5, TimeMod
<1>8. ct <= u
  <2>1. CASE u < Wrap
    BY <1>1, <1>6, <2>1
  <2>2. CASE ~ (u < Wrap)
    BY <1>1, <1>6, <2>2
  <2> QED BY <2>1, <2>2
<1>9. u < Wrap => now = tk
  <2>1. u < Wrap => tk < Wrap
    BY <1>1
  <2> QED BY <2>1, TimeMod
<1> QED BY <1>1, <1>2, <1>4, <1>6, <1>7, <1>8, <1>9 DEF u, m

(* When the list of this tick is empty, what is left in near_ expires      *)
(* later, in the same window: then the next tick does not begin a window.  *)
LEMMA NearAhead ==
  ASSUME TimerInv, near[time % TIME_NEAR] = << >>,
         NEW q \in Place, q < TIME_NEAR, NEW u \in TimerId, At(All, q, u)
  PROVE  /\ expire[u] >= time + 1 /\ time + 1 < Wrap
         /\ (time + 1) % TIME_NEAR # 0
         /\ (time + 1) \div TIME_NEAR = time \div TIME_NEAR
<1>1. /\ Wheel \in WheelType /\ Wheel.near = near /\ batch \in Seq(TimerId)
      /\ time \in Nat
      /\ expire[u] \in 0 .. Wrap - 1 /\ expire[u] \in Nat /\ Wrap \in Nat
      /\ TIME_NEAR \in Nat \ {0, 1}
  <2>1. /\ Wheel \in WheelType /\ Wheel.near = near /\ batch \in Seq(TimerId)
        /\ time \in Nat
    BY TypedFacts DEF TimerInv
  <2>2. expire \in [TimerId -> 0 .. Wrap - 1] /\ Wrap \in Nat
    BY SpanFacts DEF TimerInv, Typed, TimerTypeOK
  <2>3. TIME_NEAR \in Nat \ {0, 1}
    BY Sizes
  <2>4. expire[u] \in 0 .. Wrap - 1
    BY <2>2
  <2> QED BY <2>1, <2>2, <2>3, <2>4
<1>2. /\ expire[u] \div TIME_NEAR = time \div TIME_NEAR
      /\ expire[u] % TIME_NEAR = q
      /\ expire[u] >= time
  BY DEF TimerInv, Sorted, SortedAt, Filed
<1>3. expire[u] # time
  <2> SUFFICES ASSUME expire[u] = time PROVE FALSE
    OBVIOUS
  <2>1. q = time % TIME_NEAR /\ q \in 0 .. TIME_NEAR - 1
    BY <1>1, <1>2 DEF Place
  <2>2. All[q] = << >>
    BY <1>1, <2>1, ListsFamily DEF All
  <2>3. Len(All[q]) = 0
    BY <2>2
  <2> QED BY <2>3 DEF At
<1> DEFINE e == expire[u]
           n == TIME_NEAR
           s == time + 1
<1>4. s \in Nat /\ time <= s /\ s <= e /\ e \in Nat /\ n \in Nat \ {0, 1} /\ s < Wrap
  BY <1>1, <1>2, <1>3
<1>5. e \div n = time \div n
  BY <1>2
<1>6. (s % n # 0 => s \div n = time \div n) /\ (s % n = 0 => s \div n = time \div n + 1)
  BY <1>1, NextBlock
<1>7. time \div n \in Nat
  BY <1>1, DivMod
<1> HIDE DEF e, n, s
<1>8. s \div n <= e \div n
  BY <1>4, Monotone
<1>9. s % n # 0 /\ s \div n = time \div n
  BY <1>5, <1>6, <1>7, <1>8
<1> QED BY <1>4, <1>9 DEF e, n, s

LEMMA EmptyBatch ==
  ASSUME TimerInv, batch = << >>
  PROVE  \A u \in TimerId : ~ At(All, 2 * TIME_NEAR, u)
<1>1. Wheel \in WheelType /\ batch \in Seq(TimerId)
  BY TypedFacts DEF TimerInv
<1>2. All[2 * TIME_NEAR] = << >>
  BY <1>1, ListsFamily DEF All
<1>3. Len(All[2 * TIME_NEAR]) = 0
  BY <1>2
<1> QED BY <1>3 DEF At

(* A tick within a window leaves the wheel as it is.                       *)
(* A tick within a window leaves the wheel as it is.                       *)
LEMMA SameWindow ==
  ASSUME TimerInv, batch = << >>, near[time % TIME_NEAR] = << >>,
         NEW ct, ct = (time + 1) % Wrap, ct % TIME_NEAR # 0
  PROVE  SortedAt(All, ct, ticks + 1)
<1>1. /\ ticks \in Nat /\ time = ticks % Wrap /\ time \in Nat
      /\ due \in [TimerId -> Int]
  BY TypedFacts DEF TimerInv
<1>2. /\ ct \in Nat /\ ct % TIME_NEAR = (ticks + 1) % TIME_NEAR
      /\ time + 1 < Wrap => ct = time + 1
  BY <1>1, NextTick
<1>3. Sorted
  BY DEF TimerInv
<1>4. (ticks + 1) \div TIME_NEAR = ticks \div TIME_NEAR
  <2>1. TIME_NEAR \in Nat \ {0, 1}
    BY Sizes
  <2> QED BY <1>1, <1>2, <2>1, NextBlock
<1>5. ASSUME NEW q \in Place, NEW u \in TimerId, At(All, q, u), q # 2 * TIME_NEAR
      PROVE  Filed(u, q, ct, ticks + 1)
  <2>1. Filed(u, q, time, ticks)
    BY <1>3, <1>5 DEF Sorted, SortedAt
  <2>2. due[u] \in Int
    BY <1>1
  <2>3. CASE q < TIME_NEAR
    <3>1. /\ expire[u] >= time + 1 /\ ct = time + 1
          /\ ct \div TIME_NEAR = time \div TIME_NEAR
      BY <1>2, <1>5, <2>3, NearAhead
    <3>2. /\ expire[u] \div TIME_NEAR = time \div TIME_NEAR
          /\ expire[u] % TIME_NEAR = q
          /\ ~ InFar(q)
      <4>1. ~ InFar(q)
        BY <2>3, Sizes DEF InFar, Place
      <4> QED BY <2>1, <2>3, <4>1 DEF Filed
    <3>3. Early(u) => expire[u] = due[u] /\ ticks + 1 <= due[u]
      <4> SUFFICES ASSUME Early(u) PROVE expire[u] = due[u] /\ ticks + 1 <= due[u]
        OBVIOUS
      <4>1. expire[u] = due[u] /\ ticks <= due[u] /\ due[u] < TIME_NEAR * TIME_LEVEL
        BY <2>1 DEF Filed, Early
      <4>2. ticks < Wrap
        <5> DEFINE m == TIME_NEAR * TIME_LEVEL
        <5>1. m \in Nat /\ 2 * TIME_LEVEL * TIME_NEAR = 2 * m
          BY Sizes
        <5>2. Wrap \in Nat /\ Wrap >= 2 * TIME_LEVEL * TIME_NEAR
          BY SpanFacts
        <5>3. due[u] < m
          BY <4>1
        <5> HIDE DEF m
        <5> QED BY <1>1, <2>2, <4>1, <5>1, <5>2, <5>3
      <4>3. time = ticks
        BY <1>1, <4>2, TimeMod
      <4> QED BY <1>1, <2>2, <3>1, <4>1, <4>3
    <3>4. due[u] \div TIME_NEAR = window[u] => due[u] - (ticks + 1) = expire[u] - ct
      <4>1. due[u] \div TIME_NEAR = window[u] => due[u] - ticks = expire[u] - time
        BY <2>1 DEF Filed
      <4>2. expire[u] \in Int
        BY TypedFacts DEF TimerInv
      <4> QED BY <1>1, <2>2, <3>1, <4>1, <4>2
    <3> QED BY <1>5, <3>1, <3>2, <3>3, <3>4 DEF Filed
  <2>4. CASE ~ (q < TIME_NEAR)
    <3>1. InFar(q)
      BY <1>5, <2>4, Sizes DEF InFar, Place
    <3>2. due[u] \div TIME_NEAR # window[u]
      BY <2>1, <3>1 DEF Filed
    <3>3. Early(u) =>
            /\ expire[u] = due[u] /\ ticks + 1 <= due[u]
            /\ q = TIME_NEAR + due[u] \div TIME_NEAR
            /\ due[u] \div TIME_NEAR # (ticks + 1) \div TIME_NEAR
      <4> SUFFICES ASSUME Early(u)
                   PROVE  /\ expire[u] = due[u] /\ ticks + 1 <= due[u]
                          /\ q = TIME_NEAR + due[u] \div TIME_NEAR
                          /\ due[u] \div TIME_NEAR # (ticks + 1) \div TIME_NEAR
        OBVIOUS
      <4>1. /\ expire[u] = due[u] /\ ticks <= due[u]
            /\ q = TIME_NEAR + due[u] \div TIME_NEAR
            /\ due[u] \div TIME_NEAR # ticks \div TIME_NEAR
        BY <2>1, <3>1 DEF Filed
      <4>2. ticks # due[u]
        BY <4>1
      <4> QED BY <1>1, <1>4, <2>2, <4>1, <4>2
    <3> QED BY <1>5, <2>4, <3>2, <3>3 DEF Filed
  <2> QED BY <2>3, <2>4
<1>6. \A u \in TimerId : ~ At(All, 2 * TIME_NEAR, u)
  BY EmptyBatch
<1>7. ASSUME NEW q \in Place, NEW u \in TimerId, At(All, q, u)
      PROVE  Filed(u, q, ct, ticks + 1)
  BY <1>5, <1>6, <1>7
<1> QED BY <1>3, <1>7 DEF Sorted, SortedAt

(* Who waits in t_ when a window begins: no timer due in the window it was *)
(* set in; and one that is due early and now has its turn is in the list   *)
(* that timer_shift moves.                                                 *)
LEMMA WaitsInFar ==
  ASSUME TimerInv, batch = << >>, near[time % TIME_NEAR] = << >>,
         NEW ct, ct = (time + 1) % Wrap, ct % TIME_NEAR = 0,
         NEW q \in Place, NEW u \in TimerId, At(All, q, u)
  PROVE  /\ InFar(q) /\ due[u] \div TIME_NEAR # window[u]
         /\ Early(u) =>
              /\ expire[u] = due[u] /\ ticks + 1 <= due[u]
              /\ ct = ticks + 1
              /\ ct \div TIME_NEAR \in 1 .. TIME_LEVEL - 1
              /\ q = TIME_NEAR + due[u] \div TIME_NEAR
<1>1. /\ ticks \in Nat /\ time = ticks % Wrap /\ time \in Nat
      /\ due[u] \in Int
  BY TypedFacts DEF TimerInv
<1>2. /\ ct \in Nat /\ ct % TIME_NEAR = (ticks + 1) % TIME_NEAR
      /\ ct % TIME_NEAR = (time + 1) % TIME_NEAR
      /\ ticks + 1 < Wrap => ct = ticks + 1
  BY <1>1, NextTick
<1>3. InFar(q)
  <2>1. ~ (q < TIME_NEAR)
    BY <1>2, NearAhead
  <2>2. q # 2 * TIME_NEAR
    BY EmptyBatch
  <2> QED BY <2>1, <2>2, Sizes DEF InFar, Place
<1>4. Filed(u, q, time, ticks)
  BY DEF TimerInv, Sorted, SortedAt
<1>5. due[u] \div TIME_NEAR # window[u]
  BY <1>3, <1>4 DEF Filed
<1>6. ASSUME Early(u)
      PROVE  /\ expire[u] = due[u] /\ ticks + 1 <= due[u]
             /\ ct = ticks + 1
             /\ ct \div TIME_NEAR \in 1 .. TIME_LEVEL - 1
             /\ q = TIME_NEAR + due[u] \div TIME_NEAR
  <2>1. /\ expire[u] = due[u] /\ ticks <= due[u]
        /\ q = TIME_NEAR + due[u] \div TIME_NEAR
        /\ due[u] \div TIME_NEAR # ticks \div TIME_NEAR
        /\ due[u] < TIME_NEAR * TIME_LEVEL
    BY <1>3, <1>4, <1>6 DEF Filed, Early
  <2>2. ticks # due[u]
    BY <2>1
  <2>3. ticks + 1 <= due[u] /\ ticks + 1 < TIME_NEAR * TIME_LEVEL /\ ticks + 1 < Wrap
    <3> DEFINE m == TIME_NEAR * TIME_LEVEL
    <3>1. m \in Nat /\ 2 * TIME_LEVEL * TIME_NEAR = 2 * m
      BY Sizes
    <3>2. Wrap \in Nat /\ Wrap >= 2 * TIME_LEVEL * TIME_NEAR
      BY SpanFacts
    <3>3. due[u] < m
      BY <2>1
    <3> HIDE DEF m
    <3>4. ticks + 1 < m
      BY <1>1, <2>1, <2>2, <3>1, <3>3
    <3> QED BY <1>1, <2>1, <2>2, <3>1, <3>2, <3>4 DEF m
  <2>4. ct = ticks + 1
    BY <1>2, <2>3
  <2> DEFINE s == ticks + 1
  <2>5. s \in Nat /\ s < TIME_NEAR * TIME_LEVEL /\ s % TIME_NEAR = 0
    BY <1>1, <1>2, <2>3, <2>4
  <2>6. s \div TIME_NEAR = ticks \div TIME_NEAR + 1
    <3>1. TIME_NEAR \in Nat \ {0, 1}
      BY Sizes
    <3> QED BY <1>1, <2>5, <3>1, NextBlock
  <2>7. ticks \div TIME_NEAR \in Nat
    BY <1>1, Sizes, DivMod
  <2>8. s \div TIME_NEAR < TIME_LEVEL
    <3> HIDE DEF s
    <3> QED BY <2>5, Sizes, DivBound
  <2>9. s \div TIME_NEAR \in 1 .. TIME_LEVEL - 1
    <3> DEFINE y == ticks \div TIME_NEAR
               z == s \div TIME_NEAR
    <3>1. y \in Nat /\ z = y + 1 /\ z < TIME_LEVEL
      BY <2>6, <2>7, <2>8
    <3> HIDE DEF y, z
    <3>2. z \in 1 .. TIME_LEVEL - 1
      BY <3>1, Sizes
    <3> QED BY <3>2 DEF z
  <2> QED BY <2>1, <2>3, <2>4, <2>9
<1> QED BY <1>3, <1>5, <1>6

(* A timer that stays in t_ when a window begins is filed for a later one. *)
LEMMA StaysFiled ==
  ASSUME TimerInv, batch = << >>, near[time % TIME_NEAR] = << >>,
         NEW ct, ct = (time + 1) % Wrap, ct % TIME_NEAR = 0,
         NEW q \in Place, NEW u \in TimerId, At(All, q, u),
         ct \div TIME_NEAR \in 1 .. TIME_LEVEL - 1 => q # TIME_NEAR + ct \div TIME_NEAR
  PROVE  Filed(u, q, ct, ticks + 1)
<1>1. InFar(q) /\ due[u] \div TIME_NEAR # window[u]
  BY WaitsInFar
<1>2. Early(u) =>
        /\ expire[u] = due[u] /\ ticks + 1 <= due[u]
        /\ ct = ticks + 1
        /\ ct \div TIME_NEAR \in 1 .. TIME_LEVEL - 1
        /\ q = TIME_NEAR + due[u] \div TIME_NEAR
  BY WaitsInFar
<1>3. ~ (q < TIME_NEAR) /\ q # 2 * TIME_NEAR
  BY <1>1, Sizes DEF InFar, Place
<1> QED BY <1>1, <1>2, <1>3 DEF Filed

(* A timer that is moved when a window begins is filed for this window or  *)
(* for a later one.                                                        *)
LEMMA MovedFiled ==
  ASSUME TimerInv, batch = << >>, near[time % TIME_NEAR] = << >>,
         NEW ct, ct = (time + 1) % Wrap, ct % TIME_NEAR = 0,
         NEW p \in Place, NEW u \in TimerId, At(All, p, u),
         NEW q, q = Where(expire[u], ct)
  PROVE  Filed(u, q, ct, ticks + 1)
<1> DEFINE e == expire[u]
<1>1. /\ ticks \in Nat /\ time = ticks % Wrap /\ e \in Nat
      /\ TIME_NEAR \in Nat \ {0}
  BY TypedFacts, Sizes DEF TimerInv
<1>2. ct \in Nat
  BY <1>1, NextTick
<1>3. due[u] \div TIME_NEAR # window[u]
  BY WaitsInFar
<1>4. Early(u) =>
        /\ e = due[u] /\ ticks + 1 <= due[u] /\ ct = ticks + 1
  BY WaitsInFar
<1>5. q = Where(e, ct)
  OBVIOUS
<1> HIDE DEF e
<1>6. /\ q < TIME_NEAR <=> SameBlock(e, ct, TIME_NEAR)
      /\ SameBlock(e, ct, TIME_NEAR) => q = e % TIME_NEAR
      /\ q < 2 * TIME_NEAR /\ q \in Nat
  <2>1. e % TIME_NEAR \in 0 .. TIME_NEAR - 1
    BY <1>1, DivMod
  <2>2. FarIndex(e, ct) \in 0 .. 4 * TIME_LEVEL - 1
    BY <1>1, <1>2, FarIndexBound
  <2>3. CASE SameBlock(e, ct, TIME_NEAR)
    <3>1. q = e % TIME_NEAR
      BY <1>5, <2>3 DEF Where
    <3> HIDE DEF SameBlock
    <3> QED BY <2>1, <2>3, <3>1, <1>1
  <2>4. CASE ~ SameBlock(e, ct, TIME_NEAR)
    <3>1. q = TIME_NEAR + FarIndex(e, ct)
      BY <1>5, <2>4 DEF Where
    <3> HIDE DEF SameBlock
    <3> QED BY <2>2, <2>4, <3>1, <1>1, Sizes
  <2> QED BY <2>3, <2>4
<1>7. SameBlock(e, ct, TIME_NEAR) => e >= ct
  <2> DEFINE n == TIME_NEAR
             y == ct \div n
             r == e % n
  <2>1. y \in Nat /\ ct = n * y
    <3> DEFINE o == ct % n
    <3>1. y \in Nat /\ ct = n * y + o /\ o = 0
      BY <1>1, <1>2, DivMod
    <3> HIDE DEF y, o, n
    <3>2. n * y \in Nat
      BY <1>1, <3>1 DEF n
    <3> QED BY <3>1, <3>2
  <2>2. SameBlock(e, ct, TIME_NEAR) => e = n * y + r
    <3>1. e = n * (e \div n) + r
      BY <1>1, DivMod
    <3> QED BY <3>1 DEF SameBlock
  <2>3. r \in Nat
    BY <1>1, DivMod
  <2>4. n \in Nat
    BY <1>1
  <2> HIDE DEF y, r, n
  <2>5. n * y \in Nat
    BY <2>1, <2>4
  <2> QED BY <2>1, <2>2, <2>3, <2>5
<1>8. ASSUME Early(u), InFar(q)
      PROVE  /\ q = TIME_NEAR + due[u] \div TIME_NEAR
             /\ due[u] \div TIME_NEAR # (ticks + 1) \div TIME_NEAR
  <2>1. ~ SameBlock(e, ct, TIME_NEAR)
    BY <1>1, <1>6, <1>8 DEF InFar
  <2>2. e \div TIME_NEAR # ct \div TIME_NEAR /\ ct <= e /\ e < TIME_NEAR * TIME_LEVEL
    BY <1>4, <1>8, <2>1 DEF SameBlock, Early
  <2> QED BY <1>1, <1>2, <1>4, <1>5, <1>8, <2>2, EarlyWhere
<1>9. q # 2 * TIME_NEAR
  BY <1>1, <1>6
<1> QED BY <1>3, <1>4, <1>6, <1>7, <1>8, <1>9 DEF Filed, SameBlock, e

(* The next tick, with whatever timer_shift moves.                         *)
LEMMA ShiftKeeps ==
  ASSUME TimerInv, batch = << >>, near[time % TIME_NEAR] = << >>, ticks < MaxTicks,
         NEW ct, ct = (time + 1) % Wrap
  PROVE  /\ ct = (ticks + 1) % Wrap /\ ct \in Nat
         /\ Shifted(ct) \in WheelType
         /\ SortedAt(Lists(Shifted(ct), << >>), ct, ticks + 1)
<1>1. /\ ticks \in Nat /\ time = ticks % Wrap
      /\ Wheel \in WheelType /\ expire \in [TimerId -> Nat]
      /\ All = Lists(Wheel, << >>)
  BY TypedFacts DEF TimerInv, All
<1>2. ct = (ticks + 1) % Wrap /\ ct \in Nat /\ ct <= ticks + 1
  BY <1>1, NextTick
<1>3. Sorted /\ Unique(All)
      /\ \A t \in TimerId : due[t] # -1 <=> \E p \in Place : At(All, p, t)
  BY DEF TimerInv, Sorted, SortedAt
<1>4. ct < 3 * TIME_LEVEL * TIME_NEAR * TIME_NEAR
  <2> DEFINE m == 3 * TIME_LEVEL * TIME_NEAR * TIME_NEAR
  <2>1. m \in Nat /\ MaxTicks \in 0 .. m - 1
    BY Sizes, TicksAssumption
  <2> HIDE DEF m
  <2>2. ct < m
    BY <1>1, <1>2, <2>1
  <2> QED BY <2>2 DEF m
<1>5. CASE Shifted(ct) = Wheel /\ ~ (ct % TIME_NEAR = 0 /\ ct \div TIME_NEAR \in 1 .. TIME_LEVEL - 1)
  <2>1. SortedAt(All, ct, ticks + 1)
    <3>1. CASE ct % TIME_NEAR # 0
      BY <3>1, SameWindow
    <3>2. CASE ct % TIME_NEAR = 0
      <4>1. \A p \in Place, t \in TimerId : At(All, p, t) => Filed(t, p, ct, ticks + 1)
        BY <1>5, <3>2, StaysFiled
      <4> QED BY <1>3, <4>1 DEF SortedAt
    <3> QED BY <3>1, <3>2
  <2> QED BY <1>1, <1>2, <1>5, <2>1
<1>6. ASSUME ct % TIME_NEAR = 0, NEW index \in 0 .. 4 * TIME_LEVEL - 1,
             Shifted(ct) = MoveList(Wheel, index, ct),
             ct \div TIME_NEAR \in 1 .. TIME_LEVEL - 1 => index = ct \div TIME_NEAR
      PROVE  /\ Shifted(ct) \in WheelType
             /\ SortedAt(Lists(Shifted(ct), << >>), ct, ticks + 1)
  <2> DEFINE w == MoveList(Wheel, index, ct)
             M == Lists(w, << >>)
             p == TIME_NEAR + index
  <2>1. /\ w \in WheelType /\ Unique(M)
        /\ \A q \in Place, u \in TimerId :
             At(M, q, u) <=> \/ q # p /\ At(All, q, u)
                             \/ q = Where(expire[u], ct) /\ At(All, p, u)
    <3>1. << >> \in Seq(TimerId)
      OBVIOUS
    <3>2. Unique(Lists(Wheel, << >>))
      BY <1>1, <1>3
    <3>3. /\ w \in WheelType /\ Unique(M)
          /\ \A q \in Place, u \in TimerId :
               At(M, q, u) <=> \/ q # p /\ At(Lists(Wheel, << >>), q, u)
                               \/ q = Where(expire[u], ct) /\ At(Lists(Wheel, << >>), p, u)
      <4> DEFINE v == Wheel
                 b == << >>
      <4>1. v \in WheelType /\ b \in Seq(TimerId) /\ Unique(Lists(v, b))
        BY <1>1, <3>1, <3>2
      <4> HIDE DEF v, b
      <4>2. /\ MoveList(v, index, ct) \in WheelType
            /\ Unique(Lists(MoveList(v, index, ct), b))
            /\ \A q \in Place, u \in TimerId :
                 At(Lists(MoveList(v, index, ct), b), q, u) <=>
                   \/ q # TIME_NEAR + index /\ At(Lists(v, b), q, u)
                   \/ /\ q = Where(expire[u], ct)
                      /\ At(Lists(v, b), TIME_NEAR + index, u)
        BY <1>1, <1>2, <4>1, MoveListFacts
      <4> QED BY <4>2 DEF v, b
    <3> QED BY <1>1, <3>3
  <2>2. p \in Place
    BY <1>6, Sizes DEF Place
  <2> HIDE DEF M, w, p
  <2>3. \A u \in TimerId : Where(expire[u], ct) \in Place
    <3> TAKE u \in TimerId
    <3>1. expire[u] \in Nat /\ << >> \in Seq(TimerId)
      BY <1>1
    <3>2. Where(expire[u], ct) \in 0 .. 2 * TIME_NEAR - 1
      BY <1>1, <1>2, <3>1, AddNodeFacts
    <3> QED BY <3>2, Sizes DEF Place
  <2>4. \A t \in TimerId : due[t] # -1 <=> \E q \in Place : At(M, q, t)
    BY <1>3, <2>1, <2>2, <2>3
  <2>5. ASSUME NEW q \in Place, NEW u \in TimerId, At(M, q, u)
        PROVE  Filed(u, q, ct, ticks + 1)
    <3>1. CASE q # p /\ At(All, q, u)
      <4>1. ct \div TIME_NEAR \in 1 .. TIME_LEVEL - 1 => q # TIME_NEAR + ct \div TIME_NEAR
        BY <1>6, <3>1 DEF p
      <4> QED BY <1>6, <3>1, <4>1, StaysFiled
    <3>2. CASE q = Where(expire[u], ct) /\ At(All, p, u)
      BY <1>6, <2>2, <3>2, MovedFiled
    <3> QED BY <2>1, <2>5, <3>1, <3>2
  <2>6. SortedAt(M, ct, ticks + 1)
    BY <2>1, <2>4, <2>5 DEF SortedAt
  <2> QED BY <1>6, <2>1, <2>6 DEF M, w
<1> QED BY <1>2, <1>4, <1>5, <1>6, ShiftedIs

-----------------------------------------------------------------------------
LEMMA TimerUpdateInv ==
  ASSUME TimerInv, TimerUpdate
  PROVE  TimerInv'
<1>1. /\ Typed /\ Sorted
      /\ batch = << >> /\ ticks < MaxTicks
      /\ UNCHANGED <<expire, window, due>>
  BY DEF TimerInv, TimerUpdate
<1>2. /\ ticks \in Nat /\ time = ticks % Wrap /\ time \in Nat
      /\ Wheel \in WheelType /\ Wheel.near = near /\ Wheel.far = far
      /\ expire \in [TimerId -> Nat]
      /\ All = Lists(Wheel, << >>) /\ MaxTicks \in Nat
  BY <1>1, TypedFacts, TicksAssumption DEF All
<1>3. ASSUME NEW now, now = ticks' % Wrap, time' = now,
             ticks' \in Nat, ticks' <= MaxTicks,
             near' \in [0 .. TIME_NEAR - 1 -> Seq(TimerId)],
             far' \in [0 .. 4 * TIME_LEVEL - 1 -> Seq(TimerId)],
             batch' \in Seq(TimerId), pc' \in {"idle", "before", "after"},
             pc' = "idle" => batch' = << >>
      PROVE  Typed'
  BY <1>1, <1>3 DEF Typed, TimerTypeOK
<1>4. CASE near[time % TIME_NEAR] # << >>
  <2>1. Take(Wheel, time, "before") /\ time' = time /\ ticks' = ticks
    BY <1>4 DEF TimerUpdate, Wheel
  <2>2. SortedAt(Lists(Wheel, << >>), time, ticks)
    BY <1>1, <1>2 DEF Sorted
  <2>3. /\ near' \in [0 .. TIME_NEAR - 1 -> Seq(TimerId)]
        /\ far' \in [0 .. 4 * TIME_LEVEL - 1 -> Seq(TimerId)]
        /\ batch' \in Seq(TimerId)
        /\ Sorted'
    BY <1>1, <1>2, <2>1, <2>2, Taken
  <2>4. pc' = "before"
    BY <2>1 DEF Take
  <2> QED BY <1>1, <1>2, <1>3, <2>1, <2>3, <2>4 DEF TimerInv
<1>5. CASE near[time % TIME_NEAR] = << >>
  <2> DEFINE ct == (time + 1) % Wrap
             w == Shifted(ct)
  <2>1. /\ ct = (ticks + 1) % Wrap /\ ct \in Nat
        /\ w \in WheelType
        /\ SortedAt(Lists(w, << >>), ct, ticks + 1)
    <3> DEFINE c == ct
    <3>1. c = (time + 1) % Wrap
      OBVIOUS
    <3> HIDE DEF c, ct
    <3>2. /\ c = (ticks + 1) % Wrap /\ c \in Nat
          /\ Shifted(c) \in WheelType
          /\ SortedAt(Lists(Shifted(c), << >>), c, ticks + 1)
      BY <1>1, <1>5, <3>1, ShiftKeeps
    <3> QED BY <3>2 DEF c
  <2>2. /\ time' = ct /\ ticks' = ticks + 1
        /\ IF w.near[ct % TIME_NEAR] # << >>
             THEN Take(w, ct, "after")
             ELSE /\ near' = w.near
                  /\ far' = w.far
                  /\ pc' = "idle"
                  /\ UNCHANGED batch
    BY <1>5 DEF TimerUpdate
  <2> HIDE DEF w, ct
  <2>3. ticks' \in Nat /\ ticks' <= MaxTicks
    BY <1>1, <1>2, <2>2
  <2>4. CASE w.near[ct % TIME_NEAR] # << >>
    <3>1. Take(w, ct, "after")
      BY <2>2, <2>4
    <3>2. /\ near' \in [0 .. TIME_NEAR - 1 -> Seq(TimerId)]
          /\ far' \in [0 .. 4 * TIME_LEVEL - 1 -> Seq(TimerId)]
          /\ batch' \in Seq(TimerId)
          /\ Sorted'
      <4> DEFINE tk == ticks + 1
      <4>1. SortedAt(Lists(w, << >>), ct, tk) /\ ticks' = tk
        BY <2>1, <2>2
      <4> HIDE DEF tk
      <4> QED BY <1>1, <1>2, <2>1, <2>2, <3>1, <4>1, Taken
    <3>3. pc' = "after"
      BY <3>1 DEF Take
    <3> QED BY <1>3, <2>1, <2>2, <2>3, <3>2, <3>3 DEF TimerInv
  <2>5. CASE ~ (w.near[ct % TIME_NEAR] # << >>)
    <3>1. near' = w.near /\ far' = w.far /\ pc' = "idle" /\ batch' = << >>
      BY <1>1, <2>2, <2>5
    <3>2. Wheel' = w
      BY <2>1, <3>1 DEF Wheel, WheelType
    <3>3. All' = Lists(w, << >>)
      BY <3>1, <3>2 DEF All
    <3>4. SortedAt(All', time', ticks')
      BY <2>1, <2>2, <3>3
    <3>5. Sorted'
      BY <1>1, <3>4 DEF Sorted, SortedAt, Filed, Early
    <3>6. /\ near' \in [0 .. TIME_NEAR - 1 -> Seq(TimerId)]
          /\ far' \in [0 .. 4 * TIME_LEVEL - 1 -> Seq(TimerId)]
          /\ batch' \in Seq(TimerId)
      BY <2>1, <3>1 DEF WheelType
    <3> QED BY <1>3, <2>1, <2>2, <2>3, <3>1, <3>5, <3>6 DEF TimerInv
  <2> QED BY <2>4, <2>5
<1> QED BY <1>4, <1>5

LEMMA FinishUpdateInv ==
  ASSUME TimerInv, FinishUpdate
  PROVE  TimerInv'
<1>1. /\ Typed /\ Sorted /\ batch = << >>
      /\ UNCHANGED <<time, expire, ticks, window, due>>
  BY DEF TimerInv, FinishUpdate
<1>2. /\ time \in Nat /\ Wheel \in WheelType /\ expire \in [TimerId -> Nat]
      /\ All = Lists(Wheel, << >>)
  BY <1>1, TypedFacts DEF All
<1>3. CASE near[time % TIME_NEAR] # << >>
  <2>1. Take(Wheel, time, "after")
    BY <1>3 DEF FinishUpdate, Wheel
  <2>2. SortedAt(Lists(Wheel, << >>), time, ticks)
    BY <1>1, <1>2 DEF Sorted
  <2>3. /\ near' \in [0 .. TIME_NEAR - 1 -> Seq(TimerId)]
        /\ far' \in [0 .. 4 * TIME_LEVEL - 1 -> Seq(TimerId)]
        /\ batch' \in Seq(TimerId)
        /\ Sorted'
    BY <1>1, <1>2, <2>1, <2>2, Taken
  <2>4. pc' = "after"
    BY <2>1 DEF Take
  <2> QED BY <1>1, <2>3, <2>4 DEF TimerInv, Typed, TimerTypeOK
<1>4. CASE ~ (near[time % TIME_NEAR] # << >>)
  <2>1. pc' = "idle" /\ UNCHANGED <<near, far, batch>>
    BY <1>4 DEF FinishUpdate
  <2>2. Typed'
    BY <1>1, <2>1 DEF Typed, TimerTypeOK
  <2>3. All' = All
    BY <2>1 DEF All, Wheel
  <2>4. Sorted'
    BY <1>1, <2>3 DEF Sorted, SortedAt, Filed, Early
  <2> QED BY <2>2, <2>4 DEF TimerInv
<1> QED BY <1>3, <1>4

LEMMA TimerStepInv == TimerInv /\ [TimerNext]_timer_vars => TimerInv'
<1> SUFFICES ASSUME TimerInv, [TimerNext]_timer_vars PROVE TimerInv'
  OBVIOUS
<1>1. ASSUME NEW t \in TimerId, NEW timeout \in Timeouts, TimerAdd(t, timeout)
      PROVE  TimerInv'
  BY <1>1, TimerAddInv
<1>2. CASE TimerUpdate
  BY <1>2, TimerUpdateInv
<1>3. CASE Dispatch
  BY <1>3, DispatchInv
<1>4. CASE FinishUpdate
  BY <1>4, FinishUpdateInv
<1>5. CASE UNCHANGED timer_vars
  <2>1. Typed'
    BY <1>5 DEF TimerInv, Typed, TimerTypeOK, timer_vars
  <2>2. All' = All
    BY <1>5 DEF All, Wheel, timer_vars
  <2>3. Sorted'
    BY <1>5, <2>2 DEF TimerInv, Sorted, SortedAt, Filed, Early, timer_vars
  <2> QED BY <2>1, <2>3 DEF TimerInv
<1> QED BY <1>1, <1>2, <1>3, <1>4, <1>5 DEF TimerNext

LEMMA TimerInvAlways == TimerSpec => []TimerInv
BY TimerInitInv, TimerStepInv, PTL DEF TimerSpec

-----------------------------------------------------------------------------
(* The state of the wheel has its types throughout: add_node and           *)
(* timer_shift never index near_ or t_ outside their lists while the       *)
(* process has run for fewer than 3 * TIME_LEVEL * TIME_NEAR^2 ticks.      *)
THEOREM TimerTypes == TimerSpec => []TimerTypeOK
<1>1. TimerInv => TimerTypeOK
  BY DEF TimerInv, Typed
<1> QED BY <1>1, TimerInvAlways, PTL

LEMMA ListsAreAll ==
  ASSUME TimerInv
  PROVE  \A p \in Place : List(p) = All[p] /\ Len(List(p)) \in Nat
<1>1. Wheel.near = near /\ Wheel.far = far /\ All \in Family
  BY TypedFacts DEF TimerInv
<1>2. \A p \in Place : List(p) = All[p]
  BY <1>1 DEF List, All, Lists
<1>3. \A p \in Place : All[p] \in Seq(TimerId)
  BY <1>1 DEF Family
<1> QED BY <1>2, <1>3

(* A waiting timer is in exactly one list of the wheel, once: whatever is  *)
(* added while timer_execute has released the lock, and whatever           *)
(* timer_shift moves between levels, no node is lost or linked twice.      *)
THEOREM EveryTimerFiled == TimerSpec => []InOneList
<1>1. ASSUME TimerInv PROVE InOneList
  <2>1. \A p \in Place : List(p) = All[p] /\ Len(List(p)) \in Nat
    BY <1>1, ListsAreAll
  <2>2. /\ Unique(All)
        /\ \A t \in TimerId : due[t] # -1 <=> \E p \in Place : At(All, p, t)
    BY <1>1 DEF TimerInv, Sorted, SortedAt
  <2>3. \A n : n \in Node <=> \E p \in Place : \E k \in 1 .. Len(All[p]) : n = <<p, k>>
    BY <2>1 DEF Node
  <2>4. \A p \in Place, k \in Nat : Held(<<p, k>>) = All[p][k]
    BY <2>1 DEF Held
  <2>5. \A p \in Place : All[p] \in Seq(TimerId)
    BY <1>1, TypedFacts DEF TimerInv, Family
  <2>6. ASSUME NEW t PROVE t \in {Held(n) : n \in Node} <=> t \in TimerId /\ due[t] # -1
    <3>1. ASSUME NEW n \in Node, t = Held(n) PROVE t \in TimerId /\ due[t] # -1
      <4>1. PICK p \in Place : \E i \in 1 .. Len(All[p]) : n = <<p, i>>
        BY <2>3
      <4>2. PICK k \in 1 .. Len(All[p]) : n = <<p, k>>
        BY <4>1
      <4>3. t = All[p][k] /\ t \in TimerId
        BY <2>4, <2>5, <3>1, <4>2
      <4> QED BY <2>2, <4>3 DEF At
    <3>2. ASSUME t \in TimerId, due[t] # -1 PROVE \E n \in Node : t = Held(n)
      <4>1. PICK p \in Place : At(All, p, t)
        BY <2>2, <3>2
      <4>2. PICK k \in 1 .. Len(All[p]) : All[p][k] = t
        BY <4>1 DEF At
      <4>3. <<p, k>> \in Node /\ Held(<<p, k>>) = t
        BY <2>3, <2>4, <4>2
      <4> QED BY <4>3
    <3> QED BY <3>1, <3>2
  <2>7. ASSUME NEW m \in Node, NEW n \in Node, Held(m) = Held(n) PROVE m = n
    <3>1. PICK p \in Place : \E i \in 1 .. Len(All[p]) : m = <<p, i>>
      BY <2>3
    <3>2. PICK j \in 1 .. Len(All[p]) : m = <<p, j>>
      BY <3>1
    <3>3. PICK q \in Place : \E i \in 1 .. Len(All[q]) : n = <<q, i>>
      BY <2>3
    <3>4. PICK k \in 1 .. Len(All[q]) : n = <<q, k>>
      BY <3>3
    <3>5. All[p][j] = All[q][k]
      BY <2>1, <2>4, <2>7, <3>2, <3>4
    <3>6. p = q /\ j = k
      BY <2>2, <3>5 DEF Unique
    <3> QED BY <3>6, <3>2, <3>4
  <2> QED BY <2>6, <2>7 DEF InOneList
<1> QED BY <1>1, TimerInvAlways, PTL

(* Every node timer_execute dispatches expires at this very tick, through  *)
(* whichever levels add_node and timer_shift have taken it: for every size *)
(* of the wheel and for as many ticks as timer_shift stays inside t_       *)
(* (TicksAssumption), with the code's sizes 35 hours.                      *)
THEOREM FiresAtItsTick == TimerSpec => []Punctual
<1>1. ASSUME TimerInv PROVE Punctual
  <2> SUFFICES ASSUME NEW k \in 1 .. Len(batch) PROVE expire[batch[k]] = time
    BY DEF Punctual
  <2>1. Wheel \in WheelType /\ batch \in Seq(TimerId)
    BY <1>1, TypedFacts DEF TimerInv
  <2>2. All[2 * TIME_NEAR] = batch
    BY <2>1, ListsFamily DEF All
  <2>3. batch[k] \in TimerId /\ At(All, 2 * TIME_NEAR, batch[k]) /\ 2 * TIME_NEAR \in Place
    BY <2>1, <2>2, Sizes DEF At, Place
  <2>4. Filed(batch[k], 2 * TIME_NEAR, time, ticks)
    BY <1>1, <2>3 DEF TimerInv, Sorted, SortedAt
  <2> QED BY <2>4 DEF Filed
<1> QED BY <1>1, TimerInvAlways, PTL

(* The wheel does not pass over a timer that is due before level 0 has     *)
(* gone round once, or in the window it was set in.                        *)
THEOREM EarlyTurnsKept == TimerSpec => []OnTime
<1>1. ASSUME TimerInv PROVE OnTime
  <2> SUFFICES ASSUME NEW t \in TimerId, due[t] # -1,
                      \/ due[t] < TIME_NEAR * TIME_LEVEL
                      \/ due[t] \div TIME_NEAR = window[t]
               PROVE  ticks <= due[t]
    BY DEF OnTime
  <2>1. PICK p \in Place : At(All, p, t)
    BY <1>1 DEF TimerInv, Sorted, SortedAt
  <2>2. Filed(t, p, time, ticks)
    BY <1>1, <2>1 DEF TimerInv, Sorted, SortedAt
  <2>3. CASE due[t] < TIME_NEAR * TIME_LEVEL
    BY <2>2, <2>3 DEF Filed, Early
  <2>4. CASE due[t] \div TIME_NEAR = window[t]
    <3>1. ~ InFar(p) /\ due[t] - ticks = expire[t] - time
      BY <2>2, <2>4 DEF Filed
    <3>2. p < TIME_NEAR \/ p = 2 * TIME_NEAR
      BY <3>1, Sizes DEF InFar, Place
    <3>3. expire[t] >= time
      <4>1. expire[t] \in Nat /\ time \in Nat
        BY <1>1, TypedFacts DEF TimerInv
      <4> QED BY <2>2, <3>2, <4>1 DEF Filed
    <3>4. due[t] \in Int /\ ticks \in Nat /\ time \in Nat /\ expire[t] \in Nat
      BY <1>1, TypedFacts DEF TimerInv
    <3> QED BY <3>1, <3>3, <3>4
  <2> QED BY <2>3, <2>4
<1> QED BY <1>1, TimerInvAlways, PTL
-----------------------------------------------------------------------------
(* Module Monitor.                                                         *)

(* What a worker's own fields say: destination holds the message in its    *)
(* callback, and a message in a callback is the last one begun.            *)
Told(w) ==
  /\ wpc[w] \in {"bump", "call"} => destination[w] = arg[w]
  /\ wpc[w] = "call" => arg[w] # 0
  /\ wpc[w] # "idle" => arg[w] \in {0, last[w]}

(* A worker's version has not moved since the last check read it exactly   *)
(* if the message in the callback is the one that was there then.          *)
Compared(w) ==
  /\ check_version[w] <= version[w]
  /\ seen[w] <= last[w]
  /\ wpc[w] \in {"write", "bump"} /\ arg[w] # 0 => seen[w] < last[w]
  /\ wpc[w] = "call" => (version[w] = check_version[w] <=> seen[w] = arg[w])

(* ... and the same of the check under way, from its first read on.        *)
Checking(w) ==
  /\ caught <= last[w]
  /\ wpc[w] \in {"write", "bump"} /\ arg[w] # 0 => caught < last[w]
  /\ mpc = "store" => caught = 0 \/ caught # seen[w]
  /\ mpc \in {"test", "mark"} =>
       /\ wpc[w] = "call" => (version[w] = check_version[w] <=> caught = arg[w])
       /\ caught # 0 => seen[w] = caught

Fits(w) ==
  /\ Told(w) /\ Compared(w)
  /\ at = w /\ mpc # "compare" => Checking(w)

MonInv ==
  /\ MonTypeOK
  /\ at = 0 => mpc = "compare"
  /\ \A w \in Worker : Fits(w)

LEMMA MonInitInv == MonInit => MonInv
BY WorkersAssumption, MaxMessageAssumption
   DEF MonInit, MonInv, MonTypeOK, Told, Compared, Worker, WorkerLabels, CheckLabels, Fits

LEMMA Worked ==
  ASSUME MonInv, NEW w \in Worker,
         Begin(w) \/ TriggerWrite(w) \/ TriggerBump(w) \/ Return(w)
  PROVE  MonInv'
<1>1. UNCHANGED <<check_version, at, mpc, endless, caught, seen>>
  BY DEF Begin, TriggerWrite, TriggerBump, Return
<1>2. MonTypeOK'
  BY MaxMessageAssumption
     DEF MonInv, MonTypeOK, Begin, TriggerWrite, TriggerBump, Return, WorkerLabels
<1>3. ASSUME NEW u \in Worker, u # w
      PROVE  Fits(u)'
  <2>1. /\ version'[u] = version[u] /\ destination'[u] = destination[u]
        /\ wpc'[u] = wpc[u] /\ arg'[u] = arg[u] /\ last'[u] = last[u]
    BY <1>3 DEF MonInv, MonTypeOK, Begin, TriggerWrite, TriggerBump, Return
  <2>2. Fits(u)
    BY DEF MonInv
  <2> QED BY <1>1, <2>1, <2>2 DEF Fits, Told, Compared, Checking
<1>4. /\ version[w] \in Nat /\ check_version[w] \in Nat /\ last[w] \in Nat
      /\ arg[w] \in Nat /\ seen[w] \in Nat /\ caught \in Nat
  BY MaxMessageAssumption DEF MonInv, MonTypeOK
<1>5. Fits(w)
  BY DEF MonInv
<1>6. CASE Begin(w)
  <2>1. /\ wpc[w] = "idle" /\ wpc'[w] = "write"
        /\ last'[w] = last[w] + 1 /\ arg'[w] = last[w] + 1
        /\ version'[w] = version[w] /\ destination'[w] = destination[w]
    BY <1>6 DEF MonInv, MonTypeOK, Begin
  <2>2. Fits(w)'
    BY ONLY <1>1, <1>4, <1>5, <2>1 DEF Fits, Told, Compared, Checking
  <2> QED BY <1>1, <1>2, <1>3, <2>2 DEF MonInv
<1>7. CASE TriggerWrite(w)
  <2>1. /\ wpc[w] = "write" /\ wpc'[w] = "bump"
        /\ last'[w] = last[w] /\ arg'[w] = arg[w]
        /\ version'[w] = version[w] /\ destination'[w] = arg[w]
    BY <1>7 DEF MonInv, MonTypeOK, TriggerWrite
  <2>2. Fits(w)'
    BY ONLY <1>1, <1>4, <1>5, <2>1 DEF Fits, Told, Compared, Checking
  <2> QED BY <1>1, <1>2, <1>3, <2>2 DEF MonInv
<1>8. CASE TriggerBump(w)
  <2>1. /\ wpc[w] = "bump" /\ wpc'[w] = IF arg[w] = 0 THEN "idle" ELSE "call"
        /\ last'[w] = last[w] /\ arg'[w] = arg[w]
        /\ version'[w] = version[w] + 1 /\ destination'[w] = destination[w]
    BY <1>8 DEF MonInv, MonTypeOK, TriggerBump
  <2>2. Fits(w)'
    BY ONLY <1>1, <1>4, <1>5, <2>1 DEF Fits, Told, Compared, Checking
  <2> QED BY <1>1, <1>2, <1>3, <2>2 DEF MonInv
<1>9. CASE Return(w)
  <2>1. /\ wpc[w] = "call" /\ wpc'[w] = "write"
        /\ last'[w] = last[w] /\ arg'[w] = 0
        /\ version'[w] = version[w] /\ destination'[w] = destination[w]
    BY <1>9 DEF MonInv, MonTypeOK, Return
  <2>2. Fits(w)'
    BY ONLY <1>1, <1>4, <1>5, <2>1 DEF Fits, Told, Compared, Checking
  <2> QED BY <1>1, <1>2, <1>3, <2>2 DEF MonInv
<1> QED BY <1>6, <1>7, <1>8, <1>9

LEMMA NextWorkerFacts ==
  ASSUME at \in Worker, NextWorker
  PROVE  at' \in 0 .. Workers /\ at' # at /\ mpc' = "compare"
<1>1. at + 1 = Workers + 1 => (at + 1) % (Workers + 1) = 0
  BY WorkersAssumption DEF Worker
<1>2. at + 1 # Workers + 1 => (at + 1) % (Workers + 1) = at + 1
  BY WorkersAssumption DEF Worker
<1> QED BY <1>1, <1>2, WorkersAssumption DEF Worker, NextWorker

LEMMA Checked ==
  ASSUME MonInv, NEW w \in Worker, Compare(w) \/ Store(w) \/ Test(w) \/ Mark(w)
  PROVE  MonInv'
<1>1. /\ at = w /\ w # 0 /\ at \in Worker
      /\ UNCHANGED <<version, destination, wpc, arg, last>>
  BY WorkersAssumption DEF Compare, Store, Test, Mark, Worker
<1>2. /\ Running(w) \in 0 .. MaxMessage /\ Running(w) <= last[w]
      /\ wpc[w] \in {"write", "bump"} /\ arg[w] # 0 => Running(w) < last[w]
      /\ wpc[w] = "call" => Running(w) = arg[w] /\ arg[w] # 0
      /\ wpc[w] # "call" => Running(w) = 0
  BY MaxMessageAssumption DEF MonInv, MonTypeOK, Fits, Told, Running
<1>3. \A u \in Worker : Told(u)'
  BY <1>1 DEF MonInv, Fits, Told
<1>4. CASE Compare(w)
  <2>1. /\ mpc = "compare"
        /\ mpc' = IF version[w] = check_version[w] THEN "test" ELSE "store"
        /\ caught' = Running(w)
        /\ UNCHANGED <<check_version, at, endless, seen>>
    BY <1>4 DEF Compare, Unmoved
  <2>2. MonTypeOK'
    BY <1>1, <1>2, <2>1 DEF MonInv, MonTypeOK, CheckLabels
  <2>3. \A u \in Worker : Compared(u)'
    BY <1>1, <2>1 DEF MonInv, Fits, Compared
  <2>4. Checking(w)'
    BY <1>1, <1>2, <2>1 DEF MonInv, Fits, Compared, Checking
  <2> QED BY <1>1, <1>3, <2>1, <2>2, <2>3, <2>4 DEF MonInv, Fits
<1>5. CASE Store(w)
  <2>1. /\ check_version' = [check_version EXCEPT ![w] = version[w]]
        /\ seen' = [seen EXCEPT ![w] = Running(w)]
        /\ NextWorker
        /\ UNCHANGED <<endless, caught>>
    BY <1>5 DEF Store, NewVersion
  <2>2. at' \in 0 .. Workers /\ mpc' = "compare"
    BY <1>1, <2>1, NextWorkerFacts
  <2>3. MonTypeOK'
    BY <1>1, <1>2, <2>1, <2>2 DEF MonInv, MonTypeOK, CheckLabels
  <2>4. ASSUME NEW u \in Worker PROVE Compared(u)'
    BY <1>1, <1>2, <2>1 DEF MonInv, MonTypeOK, Fits, Compared
  <2> QED BY <1>3, <2>2, <2>3, <2>4 DEF MonInv, Fits
<1>6. ASSUME mpc \in {"test", "mark"}, NextWorker,
             seen' = [seen EXCEPT ![w] = caught],
             UNCHANGED <<check_version, caught>>,
             endless' \in SUBSET (Worker \X (1 .. MaxMessage))
      PROVE  MonInv'
  <2>1. at' \in 0 .. Workers /\ mpc' = "compare"
    BY <1>1, <1>6, NextWorkerFacts
  <2>2. MonTypeOK'
    BY <1>1, <1>6, <2>1 DEF MonInv, MonTypeOK, CheckLabels
  <2>3. Checking(w)
    BY <1>1, <1>6 DEF MonInv, Fits
  <2>4. ASSUME NEW u \in Worker PROVE Compared(u)'
    BY <1>1, <1>6, <2>3 DEF MonInv, MonTypeOK, Fits, Compared, Checking
  <2> QED BY <1>3, <2>1, <2>2, <2>4 DEF MonInv, Fits
<1>7. CASE Test(w)
  <2>1. mpc = "test" /\ UNCHANGED <<check_version, endless, caught>>
    BY <1>7 DEF Test
  <2>2. CASE destination[w] = 0
    <3>1. NextWorker /\ seen' = [seen EXCEPT ![w] = caught]
      BY <1>7, <2>2 DEF Test
    <3>2. endless' \in SUBSET (Worker \X (1 .. MaxMessage))
      BY <2>1 DEF MonInv, MonTypeOK
    <3> QED BY <1>6, <2>1, <3>1, <3>2
  <2>3. CASE destination[w] # 0
    <3>1. mpc' = "mark" /\ UNCHANGED <<at, seen>>
      BY <1>7, <2>3 DEF Test
    <3>2. MonTypeOK'
      BY <1>1, <2>1, <3>1 DEF MonInv, MonTypeOK, CheckLabels
    <3>3. \A u \in Worker : Compared(u)'
      BY <1>1, <2>1, <3>1 DEF MonInv, Fits, Compared
    <3>4. Checking(w)'
      BY <1>1, <2>1, <3>1 DEF MonInv, Fits, Checking
    <3> QED BY <1>1, <1>3, <3>1, <3>2, <3>3, <3>4 DEF MonInv, Fits
  <2> QED BY <2>2, <2>3
<1>8. CASE Mark(w)
  <2>1. /\ mpc = "mark" /\ NextWorker /\ seen' = [seen EXCEPT ![w] = caught]
        /\ UNCHANGED <<check_version, caught>>
        /\ endless' = endless \cup ({<<w, destination[w]>>} \ {<<w, 0>>})
    BY <1>8 DEF Mark
  <2>2. endless' \in SUBSET (Worker \X (1 .. MaxMessage))
    BY <2>1, MaxMessageAssumption DEF MonInv, MonTypeOK
  <2> QED BY <1>6, <2>1, <2>2
<1> QED BY <1>4, <1>5, <1>7, <1>8

LEMMA MonNextInv == MonInv /\ [MonNext]_mon_vars => MonInv'
<1> SUFFICES ASSUME MonInv, [MonNext]_mon_vars PROVE MonInv'
  OBVIOUS
<1>1. CASE Wake
  <2>1. /\ at = 0 /\ at' = 1 /\ mpc = "compare" /\ mpc' = "compare"
        /\ UNCHANGED <<version, check_version, destination, wpc, arg, last,
                       endless, caught, seen>>
    BY <1>1 DEF Wake, MonInv
  <2>2. MonTypeOK'
    BY <2>1, WorkersAssumption DEF MonInv, MonTypeOK
  <2>3. ASSUME NEW w \in Worker PROVE Told(w)' /\ Compared(w)'
    BY <2>1 DEF MonInv, Fits, Told, Compared
  <2> QED BY <2>1, <2>2, <2>3 DEF MonInv, Fits
<1>2. ASSUME NEW w \in Worker,
             Begin(w) \/ TriggerWrite(w) \/ TriggerBump(w) \/ Return(w)
      PROVE  MonInv'
  BY <1>2, Worked
<1>3. ASSUME NEW w \in Worker, Compare(w) \/ Store(w) \/ Test(w) \/ Mark(w)
      PROVE  MonInv'
  BY <1>3, Checked
<1>4. CASE UNCHANGED mon_vars
  BY <1>4 DEF mon_vars, MonInv, MonTypeOK, Fits, Told, Compared, Checking
<1> QED BY <1>1, <1>2, <1>3, <1>4 DEF MonNext

(* The monitor's types.                                                    *)
THEOREM MonitorTypes == MonSpec => []MonTypeOK
<1>1. MonInv => MonTypeOK
  BY DEF MonInv
<1> QED BY <1>1, MonInitInv, MonNextInv, PTL DEF MonSpec

(* A callback that is found running by two checks in a row, and does not   *)
(* return before the second one ends, has had its service marked.          *)
THEOREM HangIsReported == MonSpec => AlarmInTime
<1>1. ASSUME MonInv, [MonNext]_mon_vars, NEW w \in Worker,
             at = w, at' # w, caught # 0, caught = seen[w], Running(w) = caught
      PROVE  <<w, caught>> \in endless'
  <2>1. wpc[w] = "call" /\ arg[w] = caught /\ destination[w] = caught
    BY <1>1 DEF MonInv, Fits, Told, Running
  <2>2. mpc # "compare" => Checking(w)
    BY <1>1, WorkersAssumption DEF MonInv, Fits, Worker
  <2>3. \/ Store(w) /\ mpc = "store"
        \/ Test(w) /\ destination[w] = 0
        \/ Mark(w)
    BY <1>1, WorkersAssumption
       DEF MonNext, mon_vars, Wake, Begin, TriggerWrite, TriggerBump, Return,
           Compare, Store, Test, Mark, Worker
  <2>4. ~ (Store(w) /\ mpc = "store")
    BY <1>1, <2>2 DEF Checking
  <2>5. Mark(w)
    BY <1>1, <2>1, <2>3, <2>4
  <2> QED BY <1>1, <2>1, <2>5 DEF Mark
<1>2. MonInv /\ [MonNext]_mon_vars
        => [\A w \in Worker :
              at = w /\ at' # w /\ caught # 0 /\ caught = seen[w]
              /\ Running(w) = caught => <<w, caught>> \in endless']_mon_vars
  BY <1>1
<1> QED BY <1>2, MonInitInv, MonNextInv, PTL DEF MonSpec, AlarmInTime

(* A callback that a check finds running is marked by that check only if   *)
(* the check before found it running too.                                  *)
THEOREM MovingNotBlamed == MonSpec => NotBlamed
<1>1. ASSUME MonInv, [MonNext]_mon_vars, NEW w \in Worker,
             <<w, caught>> \in endless' \ endless, caught # 0
      PROVE  seen[w] = caught
  <2>1. endless' # endless
    BY <1>1
  <2>2. PICK u \in Worker : Mark(u)
    BY <1>1, <2>1
       DEF MonNext, mon_vars, Wake, Begin, TriggerWrite, TriggerBump, Return,
           Compare, Store, Test
  <2>3. u = w
    BY <1>1, <2>2 DEF Mark
  <2>4. at = w /\ at # 0 /\ mpc = "mark"
    BY <2>2, <2>3, WorkersAssumption DEF Mark, Worker
  <2> QED BY <1>1, <2>4 DEF MonInv, Fits, Checking
<1>2. MonInv /\ [MonNext]_mon_vars
        => [\A w \in Worker :
              <<w, caught>> \in endless' \ endless /\ caught # 0
                => seen[w] = caught]_mon_vars
  BY <1>1
<1> QED BY <1>2, MonInitInv, MonNextInv, PTL DEF MonSpec, NotBlamed
=============================================================================
