----------------------------- MODULE SocketSlots -----------------------------
(***************************************************************************)
(* The slots of cpp_sk's socket server (sk_socket.h, sk_socket.cpp): how   *)
(* server::new_fd finds one, how listen, connect, accept and start fill it *)
(* and close empties it, and the coroutines of the poll thread that refer  *)
(* to it while they wait.  Writing is module SocketWrite: here wlist is    *)
(* empty and its lock free, so a TCP socket is closed at once.             *)
(*                                                                         *)
(* Services call from worker threads; the poll thread runs posted handlers *)
(* in order, and resumes a coroutine whenever what it waits for is over.   *)
(* An operation that is pending on a socket fails when the socket is       *)
(* closed or destroyed, one that is already over keeps its result (asio).  *)
(*                                                                         *)
(* Every id of a connect has one connect coroutine.  Every start of an id  *)
(* spawns a loop (server::start), which accepts or reads; a connection may *)
(* be started again, by any service, and then has several loops.           *)
(***************************************************************************)
EXTENDS Naturals, Sequences, FiniteSets

CONSTANTS
  Slots,     (* number of slots: 65535 in the code                          *)
  MaxId,     (* bound: ids drawn from alloc                                 *)
  MaxStart,  (* bound: starts of an id that take effect                     *)
  MaxPosted, (* bound: handlers posted before another is asked for          *)
  Service,
  Poll,      (* the poll thread, which calls new_fd when it accepts         *)
  NoOne      (* slot.opaque of an empty slot                                *)

ASSUME SlotsAssumption == Slots \in Nat \ {0}
ASSUME MaxIdAssumption == MaxId \in Nat
ASSUME BoundsAssumption == MaxStart \in Nat /\ MaxPosted \in Nat
ASSUME NamesAssumption == Poll \notin Service /\ NoOne \notin Service

Id == 1 .. MaxId

(* The loop of the nth start of an id.                                     *)
Reader == Id \X (1 .. MaxStart)

NoReader == <<0, 0>>

VARIABLES
  slot,     (* slots, by index                                              *)
  alloc,
  call,     (* of each thread: where it is in new_fd and its caller         *)
  posted,   (* handlers the poll thread will run                            *)
  conn,     (* the connect coroutine of each id                             *)
  loop,     (* each loop                                                    *)
  to,       (* result.opaque of each loop that reads                        *)
  (* History.                                                               *)
  kind,     (* what an id was handed out for                                *)
  starts,   (* the starts of an id that took effect                         *)
  owner,    (* the service whose start of an id was the last to succeed     *)
  due,      (* of each loop: the owner when it began to read                *)
  asked,    (* the ids that close_socket was called for                     *)
  told,     (* close messages about an id                                   *)
  answers,  (* connect and error messages that answer a connect             *)
  stray     (* the ids whose data went to another service than it was due   *)

vars == <<slot, alloc, call, posted, conn, loop, to,
          kind, starts, owner, due, asked, told, answers, stray>>

Thread == Service \cup {Poll}

Types == {"invalid", "reserve", "plisten", "listen", "connecting",
          "connected", "paccept"}

(* A slot after clear() and type.store(invalid).                           *)
Empty == [type |-> "invalid", id |-> 0, sock |-> "none", opaque |-> NoOne,
          close |-> FALSE]

Idle == [pc |-> "idle", kind |-> "none", expect |-> "invalid", tries |-> 0,
         id |-> 0, parent |-> NoReader]

Init ==
  /\ slot = [i \in 0 .. Slots - 1 |-> Empty]
  /\ alloc = 1
  /\ call = [c \in Thread |-> Idle]
  /\ posted = << >>
  /\ conn = [d \in Id |-> "none"]
  /\ loop = [r \in Reader |-> "none"]
  /\ to = [r \in Reader |-> NoOne]
  /\ kind = [d \in Id |-> "none"]
  /\ starts = [d \in Id |-> 0]
  /\ owner = [d \in Id |-> NoOne]
  /\ due = [r \in Reader |-> NoOne]
  /\ asked = {}
  /\ told = [d \in Id |-> 0]
  /\ answers = [d \in Id |-> 0]
  /\ stray = {}

-----------------------------------------------------------------------------
(* get_slot.                                                               *)
Index(d) == d % Slots

At(d) == slot[Index(d)]

(* Mutant of AbortLoop: the socket is left open.                           *)
AbortLoopNever(i) == loop

(* Pending operations on the socket in a slot fail when it goes away.      *)
AbortConn(i) ==
  [d \in Id |-> IF Index(d) = i /\ conn[d] \in {"connecting", "last"}
                  THEN "failed" ELSE conn[d]]
AbortLoop(i) ==
  [r \in Reader |-> IF Index(r[1]) = i /\ loop[r] = "waiting"
                      THEN "failed" ELSE loop[r]]

history == <<kind, starts, owner, due, asked, told, answers, stray>>

(* A null pointer or a failed assertion ends the process.                  *)
Running ==
  /\ \A d \in Id : conn[d] # "crash"
  /\ \A c \in Thread : call[c].pc # "abort"

Free(c) == call[c].pc = "idle" /\ Running

PollFree == Free(Poll)

-----------------------------------------------------------------------------
(* socket_listen and socket_connect up to new_fd; the acceptor has been    *)
(* opened and bound.  Nobody begins when the bound on ids is reached.      *)
Open(s, k) ==
  /\ Free(s)
  /\ k \in {"listen", "connect"}
  /\ alloc <= MaxId
  /\ call' = [call EXCEPT ![s] = [Idle EXCEPT !.pc = "draw", !.kind = k,
                                              !.tries = Slots]]
  /\ UNCHANGED <<slot, alloc, posted, conn, loop, to, history>>

(* One round of new_fd's loop: an id is drawn ...                          *)
Draw(c) ==
  /\ call[c].pc = "draw"
  /\ Running
  /\ alloc <= MaxId
  /\ alloc' = alloc + 1
  /\ call' = [call EXCEPT ![c].pc = "probe", ![c].id = alloc]
  /\ UNCHANGED <<slot, posted, conn, loop, to, history>>

(* ... and its slot tried.  A compare-and-exchange that fails stores the   *)
(* type it has found in t, which the next round compares with.  When the   *)
(* loop ends the assertion ends the process.                               *)
Probe(c) ==
  LET i == Index(call[c].id) IN
  /\ call[c].pc = "probe"
  /\ Running
  /\ IF slot[i].type = call[c].expect
       THEN /\ slot' = [slot EXCEPT ![i].type = "reserve"]
            /\ call' = [call EXCEPT ![c].pc = "fill"]
       ELSE /\ call' = [call EXCEPT ![c].pc = IF call[c].tries = 1
                                                THEN "abort" ELSE "draw",
                                    ![c].expect = slot[i].type,
                                    ![c].tries = @ - 1]
            /\ UNCHANGED slot
  /\ UNCHANGED <<alloc, posted, conn, loop, to, history>>

(* The slot as its new user fills it.  close keeps what it was.            *)
Filled(c, d, k) ==
  [ type   |-> (CASE k = "listen"  -> "plisten"
                  [] k = "connect" -> "connecting"
                  [] k = "accept"  -> "paccept"),
    id     |-> d,
    sock   |-> IF k = "listen" THEN "acceptor" ELSE "tcp",
    opaque |-> IF k = "accept" THEN At(call[c].parent[1]).opaque ELSE c,
    close  |-> At(d).close ]

(* The accept loop goes on while the slot is its own and listening.        *)
Accepting(table, d) ==
  table[Index(d)].id = d /\ table[Index(d)].type = "listen"

(* What follows new_fd: the slot is filled, and the handler posted; the    *)
(* accept loop tells the service and goes back to accepting.               *)
Fill(c) ==
  LET d == call[c].id
      k == call[c].kind
      p == call[c].parent
  IN
  /\ call[c].pc = "fill"
  /\ Running
  /\ slot' = [slot EXCEPT ![Index(d)] = Filled(c, d, k)]
  /\ kind' = [kind EXCEPT ![d] = k]
  /\ call' = [call EXCEPT ![c] = Idle]
  /\ conn' = AbortConn(Index(d))
  /\ IF k = "accept"
       THEN /\ loop' = [AbortLoop(Index(d)) EXCEPT ![p] =
                          IF Accepting(slot', p[1]) THEN "waiting" ELSE "over"]
            /\ UNCHANGED posted
       ELSE /\ loop' = AbortLoop(Index(d))
            /\ posted' = Append(posted, [op |-> k, id |-> d, n |-> 0, from |-> c])
  /\ UNCHANGED <<alloc, to, starts, owner, due, asked, told, answers, stray>>

(* socket_start and close_socket, on ids a service knows.                  *)
SocketStart(s, d) ==
  /\ Free(s)
  /\ Len(posted) < MaxPosted
  /\ kind[d] # "none"
  /\ posted' = Append(posted, [op |-> "start", id |-> d, n |-> 0, from |-> s])
  /\ UNCHANGED <<slot, alloc, call, conn, loop, to, history>>

CloseSocket(s, d) ==
  /\ Free(s)
  /\ Len(posted) < MaxPosted
  /\ kind[d] # "none"
  /\ asked' = asked \cup {d}
  /\ posted' = Append(posted, [op |-> "close", id |-> d, n |-> 0, from |-> s])
  /\ UNCHANGED <<slot, alloc, call, conn, loop, to, kind, starts, owner, due, told,
                 answers, stray>>

-----------------------------------------------------------------------------
(* The poll thread.                                                        *)
NextHandler(op, d) ==
  /\ posted # << >>
  /\ Head(posted).op = op
  /\ Head(posted).id = d
  /\ PollFree

(* The handler of socket_listen only tells the service.                    *)
RunListen(d) ==
  /\ NextHandler("listen", d)
  /\ posted' = Tail(posted)
  /\ UNCHANGED <<slot, alloc, call, conn, loop, to, history>>

(* The connect coroutine: it starts to resolve, unless it was closed ...   *)
RunConnect(d) ==
  /\ NextHandler("connect", d)
  /\ posted' = Tail(posted)
  /\ conn' = [conn EXCEPT ![d] = IF At(d).type = "connecting" /\ At(d).id = d
                                   THEN "resolving" ELSE "over"]
  /\ UNCHANGED <<slot, alloc, call, loop, to, history>>

(* ... resolves, and goes on with the TCP socket that is in the slot then; *)
(* if there is none it dereferences a null pointer.  async_connect closes  *)
(* that socket before it opens it for an endpoint, whosever it is.         *)
Resolve(d) ==
  /\ conn[d] = "resolving"
  /\ PollFree
  /\ \/ /\ At(d).sock = "tcp"
        /\ conn' = [AbortConn(Index(d)) EXCEPT ![d] = "connecting"]
        /\ loop' = AbortLoop(Index(d))
        /\ UNCHANGED answers
     \/ /\ At(d).sock # "tcp"
        /\ conn' = [conn EXCEPT ![d] = "crash"]
        /\ UNCHANGED <<loop, answers>>
     \/ /\ conn' = [conn EXCEPT ![d] = "over"]
        /\ answers' = [answers EXCEPT ![d] = @ + 1]
        /\ UNCHANGED loop
  /\ UNCHANGED <<slot, alloc, call, posted, to, kind, starts, owner, due, asked,
                 told, stray>>

(* A name resolves to two endpoints at most.                               *)
ConnectOp(d) ==
  /\ conn[d] \in {"connecting", "last"}
  /\ Running
  /\ \E result \in {"connected", "failed", "refused"} :
       /\ result = "refused" => conn[d] = "connecting"
       /\ conn' = [conn EXCEPT ![d] = result]
  /\ UNCHANGED <<slot, alloc, call, posted, loop, to, history>>

(* The next endpoint is tried on the socket that is open at this address   *)
(* now; the attempt is over if it has been closed (asio).                  *)
ConnectNext(d) ==
  /\ conn[d] = "refused"
  /\ PollFree
  /\ \/ /\ At(d).sock # "none"
        /\ conn' = [AbortConn(Index(d)) EXCEPT ![d] = "last"]
        /\ loop' = AbortLoop(Index(d))
     \/ /\ At(d).id # d
        /\ conn' = [conn EXCEPT ![d] = "failed"]
        /\ UNCHANGED loop
  /\ UNCHANGED <<slot, alloc, call, posted, to, history>>

(* Mutant of ConnectResume: only a connection is reported.                 *)
ConnectResumeQuiet(d) ==
  /\ conn[d] \in {"connected", "failed"}
  /\ PollFree
  /\ IF conn[d] = "connected"
       THEN /\ slot' = [slot EXCEPT ![Index(d)].type = "connected"]
            /\ answers' = [answers EXCEPT ![d] = @ + 1]
       ELSE UNCHANGED <<slot, answers>>
  /\ conn' = [conn EXCEPT ![d] = "over"]
  /\ UNCHANGED <<alloc, call, posted, loop, to, kind, starts, owner, due, asked,
                 told, stray>>

(* ... and marks the slot connected, whosever it is, or reports the error. *)
ConnectResume(d) ==
  /\ conn[d] \in {"connected", "failed"}
  /\ PollFree
  /\ slot' = IF conn[d] = "connected"
               THEN [slot EXCEPT ![Index(d)].type = "connected"] ELSE slot
  /\ conn' = [conn EXCEPT ![d] = "over"]
  /\ answers' = [answers EXCEPT ![d] = @ + 1]
  /\ UNCHANGED <<alloc, call, posted, loop, to, kind, starts, owner, due, asked,
                 told, stray>>

(* The handler of socket_start; co_spawn posts the loop.                   *)
CheckPstart(d) ==
  /\ At(d).id = d
  /\ ~ At(d).close
  /\ At(d).type \in {"paccept", "plisten", "connected"}

StartBound(d) == CheckPstart(d) /\ starts[d] = MaxStart

RunStart(d) ==
  /\ NextHandler("start", d)
  /\ ~ StartBound(d)
  /\ IF CheckPstart(d)
       THEN LET s == Head(posted).from
                n == starts[d] + 1
            IN
            /\ starts' = [starts EXCEPT ![d] = n]
            /\ slot' = [slot EXCEPT
                 ![Index(d)].type = IF @ = "plisten" THEN "listen" ELSE "connected",
                 ![Index(d)].opaque = s]
            /\ owner' = [owner EXCEPT ![d] = s]
            /\ loop' = [loop EXCEPT ![<<d, n>>] = "spawned"]
            /\ posted' = Append(Tail(posted), [op |-> "loop", id |-> d, n |-> n,
                                              from |-> Poll])
       ELSE /\ posted' = Tail(posted)
            /\ UNCHANGED <<slot, starts, owner, loop>>
  /\ UNCHANGED <<alloc, call, conn, to, kind, due, asked, told, answers, stray>>

(* The read loop goes on while the slot is its own and connected.          *)
Reading(table, d) ==
  table[Index(d)].id = d /\ table[Index(d)].type = "connected"

(* The read loop's next turn.                                              *)
ReadAgain(r) ==
  LET d == r[1] IN
  IF Reading(slot, d)
    THEN /\ loop' = [loop EXCEPT ![r] = "waiting"]
         /\ to' = [to EXCEPT ![r] = At(d).opaque]
         /\ due' = [due EXCEPT ![r] = owner[d]]
    ELSE /\ loop' = [loop EXCEPT ![r] = "over"]
         /\ to' = [to EXCEPT ![r] = NoOne]
         /\ due' = [due EXCEPT ![r] = NoOne]

(* server::start, with the socket that is in the slot.                     *)
RunLoop(d) ==
  LET r == <<d, Head(posted).n>> IN
  /\ NextHandler("loop", d)
  /\ posted' = Tail(posted)
  /\ IF At(d).sock = "acceptor"
       THEN /\ loop' = [loop EXCEPT ![r] = IF Accepting(slot, d)
                                             THEN "waiting" ELSE "over"]
            /\ UNCHANGED <<to, due>>
       ELSE ReadAgain(r)
  /\ UNCHANGED <<slot, alloc, call, conn, kind, starts, owner, asked, told, answers,
                 stray>>

LoopOp(r) ==
  /\ loop[r] = "waiting"
  /\ Running
  /\ \E result \in {"done", "failed"} : loop' = [loop EXCEPT ![r] = result]
  /\ UNCHANGED <<slot, alloc, call, posted, conn, to, history>>

Accepts(r) == kind[r[1]] = "listen"

(* Mutant of ReadResume: the data goes to the service in the slot now.     *)
ReadResumeNow(r) ==
  /\ loop[r] = "done"
  /\ ~ Accepts(r)
  /\ PollFree
  /\ stray' = IF At(r[1]).opaque = due[r] THEN stray ELSE stray \cup {r[1]}
  /\ ReadAgain(r)
  /\ UNCHANGED <<slot, alloc, call, posted, conn, kind, starts, owner, asked, told,
                 answers>>

(* The loop of a connection: data is forwarded to the service that was in  *)
(* the slot when the read began.                                           *)
ReadResume(r) ==
  /\ loop[r] = "done"
  /\ ~ Accepts(r)
  /\ PollFree
  /\ stray' = IF to[r] = due[r] THEN stray ELSE stray \cup {r[1]}
  /\ ReadAgain(r)
  /\ UNCHANGED <<slot, alloc, call, posted, conn, kind, starts, owner, asked, told,
                 answers>>

(* Its error is reported and it ends.                                      *)
ReadFail(r) ==
  /\ loop[r] = "failed"
  /\ ~ Accepts(r)
  /\ PollFree
  /\ loop' = [loop EXCEPT ![r] = "over"]
  /\ to' = [to EXCEPT ![r] = NoOne]
  /\ due' = [due EXCEPT ![r] = NoOne]
  /\ UNCHANGED <<slot, alloc, call, posted, conn, kind, starts, owner, asked, told,
                 answers, stray>>

(* The loop of an acceptor: the poll thread goes into new_fd ...           *)
AcceptResume(r) ==
  /\ loop[r] = "done"
  /\ Accepts(r)
  /\ PollFree
  /\ loop' = [loop EXCEPT ![r] = "accepted"]
  /\ call' = [call EXCEPT ![Poll] = [Idle EXCEPT !.pc = "draw", !.kind = "accept",
                                        !.tries = Slots, !.parent = r]]
  /\ UNCHANGED <<slot, alloc, posted, conn, to, history>>

(* A slot is emptied, and what is pending on its socket fails.             *)
Clear(i) ==
  /\ slot' = [slot EXCEPT ![i] = Empty]
  /\ conn' = AbortConn(i)

(* Mutant of AcceptFail: the branches are swapped.                         *)
AcceptFailFrees(r) ==
  LET i == Index(r[1]) IN
  /\ loop[r] = "failed"
  /\ Accepts(r)
  /\ PollFree
  /\ IF slot[i].close
       THEN /\ loop' = [loop EXCEPT ![r] = "over"]
            /\ UNCHANGED <<slot, conn>>
       ELSE /\ Clear(i)
            /\ loop' = [AbortLoop(i) EXCEPT ![r] = "over"]
  /\ UNCHANGED <<alloc, call, posted, to, history>>

(* ... and on an error it closes the slot, or clears it if that has been   *)
(* done, whosever it is by now.                                            *)
AcceptFail(r) ==
  LET i == Index(r[1]) IN
  /\ loop[r] = "failed"
  /\ Accepts(r)
  /\ PollFree
  /\ IF slot[i].close
       THEN /\ Clear(i)
            /\ loop' = [AbortLoop(i) EXCEPT ![r] = "over"]
       ELSE /\ slot' = [slot EXCEPT ![i].close = TRUE]
            /\ loop' = [loop EXCEPT ![r] = "over"]
            /\ UNCHANGED conn
  /\ UNCHANGED <<alloc, call, posted, to, history>>

(* Mutant of RunClose: the id in the slot is not compared.                 *)
RunCloseAny(d) ==
  /\ NextHandler("close", d)
  /\ posted' = Tail(posted)
  /\ IF At(d).type = "invalid" \/ At(d).close
       THEN UNCHANGED <<slot, conn, loop, told>>
       ELSE /\ Clear(Index(d))
            /\ loop' = AbortLoop(Index(d))
            /\ told' = [told EXCEPT ![At(d).id] = @ + 1]
  /\ UNCHANGED <<alloc, call, to, kind, starts, owner, due, asked, answers, stray>>

(* The handler of close_socket.  A TCP socket is told and freed; of the    *)
(* acceptors it is the listening one that is freed here, under its loop,   *)
(* and the one that was never started that is left to a loop.              *)
RunClose(d) ==
  LET i == Index(d) IN
  /\ NextHandler("close", d)
  /\ posted' = Tail(posted)
  /\ IF At(d).id # d \/ At(d).type = "invalid" \/ At(d).close
       THEN UNCHANGED <<slot, conn, loop, told>>
       ELSE /\ loop' = AbortLoop(i)
            /\ IF At(d).sock = "tcp" \/ At(d).type = "listen"
                 THEN Clear(i)
                 ELSE /\ slot' = [slot EXCEPT ![i].close = TRUE]
                      /\ conn' = AbortConn(i)
            /\ told' = IF At(d).sock = "tcp"
                         THEN [told EXCEPT ![d] = @ + 1] ELSE told
  /\ UNCHANGED <<alloc, call, to, kind, starts, owner, due, asked, answers, stray>>

-----------------------------------------------------------------------------
RunHandler(d) ==
  \/ RunListen(d) \/ RunConnect(d) \/ RunStart(d) \/ RunLoop(d) \/ RunClose(d)

ConnectStep(d) == Resolve(d) \/ ConnectNext(d) \/ ConnectResume(d)

LoopStep(r) == ReadResume(r) \/ ReadFail(r) \/ AcceptResume(r) \/ AcceptFail(r)

Next ==
  \/ \E s \in Service :
       \/ \E k \in {"listen", "connect"} : Open(s, k)
       \/ \E d \in Id : SocketStart(s, d) \/ CloseSocket(s, d)
  \/ \E c \in Thread : Draw(c) \/ Probe(c) \/ Fill(c)
  \/ \E d \in Id : RunHandler(d) \/ ConnectStep(d) \/ ConnectOp(d)
  \/ \E r \in Reader : LoopStep(r) \/ LoopOp(r)

Spec == Init /\ [][Next]_vars

(* Every thread runs, the poll thread gets to every handler and coroutine  *)
(* that is ready, and an attempt to connect ends in some way.              *)
Fairness ==
  /\ \A c \in Thread : WF_vars((Draw(c) \/ Probe(c) \/ Fill(c)))
  /\ WF_vars(\E d \in Id : RunHandler(d))
  /\ \A d \in Id : WF_vars(ConnectStep(d)) /\ WF_vars(ConnectOp(d))
  /\ \A r \in Reader : WF_vars(LoopStep(r))

FairSpec == Spec /\ Fairness

-----------------------------------------------------------------------------
(* A slot holds the socket of one of its ids, or none.                     *)
SlotOK(i) ==
  /\ slot[i].type \in Types
  /\ slot[i].id \in {0} \cup Id
  /\ slot[i].sock \in {"none", "tcp", "acceptor"}
  /\ slot[i].sock = "none" <=> slot[i].id = 0
  /\ slot[i].opaque \in Service \cup {NoOne}
  /\ slot[i].close \in BOOLEAN
  /\ slot[i].id # 0 => Index(slot[i].id) = i

TypeOK ==
  /\ DOMAIN slot = 0 .. Slots - 1
  /\ \A i \in 0 .. Slots - 1 : SlotOK(i)
  /\ alloc \in 1 .. MaxId + 1
  /\ \A r \in Reader : loop[r] = "accepted" <=> call[Poll].parent = r
  /\ \A d \in Id : kind[d] = "listen" => conn[d] = "none"

(* A close is reported of an id that was asked to close and of no other,   *)
(* and at most once, as a connect is answered, in whatever order the       *)
(* answers of the network, the closes and the reuse of the slot come.      *)
ToldOnce ==
  \A d \in Id : /\ told[d] <= (IF d \in asked THEN 1 ELSE 0)
               /\ answers[d] <= (IF kind[d] = "connect" THEN 1 ELSE 0)

(* What is read from a connection goes to the service that was the last to *)
(* start it when the read began, and to no other, even if the connection   *)
(* has been started by another service or the slot has changed hands while *)
(* the read was pending (result.opaque is taken before the co_await).      *)
OwnData == stray = {}

(* Once another service has started a connection ("connected->connected",  *)
(* sk_socket.h:89) its data goes there.  A read that was pending then      *)
(* still delivers to the service that gave it away.                        *)
DataToOwner ==
  [][\A r \in Reader : ReadResume(r) => to[r] = owner[r[1]]]_vars

(* Until alloc comes round, no step of another thread or coroutine takes   *)
(* or frees the slot of an id before its close is asked: neither an accept *)
(* or a connection that fails nor the close of another socket.             *)
KeepsSlotFirstRound ==
  alloc <= Slots + 1 =>
    \A d \in Id \ asked : kind[d] # "none" => At(d).id = d

(* An id keeps its slot until its close is asked: new_fd takes slots that  *)
(* are invalid ("invalid get-> reserve", sk_socket.h:27), and no other.    *)
(* t is not reset, so the second of two slots in use of one type is taken. *)
KeepsSlot == \A d \in Id \ asked : kind[d] # "none" => At(d).id = d

(* A slot that is free is as good as new: the loop of an acceptor that is  *)
(* closed leaves it to close_socket or clears it ("listen is doing, let it *)
(* clear", sk_socket.cpp:343).  The branches are the wrong way round, and  *)
(* the loop marks the slot closed after it has been freed.                 *)
FreeIsClean ==
  \A i \in 0 .. Slots - 1 : slot[i].type = "invalid" => slot[i] = Empty

(* A slot becomes connected from connecting, when the poll thread has      *)
(* connected it, or from paccept (sk_socket.h:29-39).  The coroutine of a  *)
(* connect does not look again before it stores the type, though the slot  *)
(* may have been closed, and freed, while it waited.                       *)
ConnectedFromConnecting ==
  [][\A i \in 0 .. Slots - 1 :
       slot'[i].type = "connected" =>
         slot[i].type \in {"connecting", "paccept", "connected"}]_vars

(* The process has ended, or the poll thread is at the bound on ids or on  *)
(* starts.                                                                 *)
Stopped ==
  \/ ~ Running
  \/ call[Poll].pc = "draw" /\ alloc > MaxId
  \/ \E d \in Id : NextHandler("start", d) /\ StartBound(d)

(* A connect is answered, unless it is closed before.                      *)
Answered ==
  \A d \in Id : kind[d] = "connect" ~> answers[d] = 1 \/ d \in asked \/ Stopped

(* Once a close has been reported the loop of the connection ends for      *)
(* good, wherever the close finds it: still to be started, in a read, or   *)
(* with data to forward.                                                   *)
ReaderEnds ==
  \A r \in Reader :
    told[r[1]] = 1 ~> [](loop[r] \in {"none", "over"}) \/ Stopped
=============================================================================
