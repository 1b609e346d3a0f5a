----------------------------- MODULE SocketWrite -----------------------------
(***************************************************************************)
(* The writing side of one TCP connection of cpp_sk's socket server        *)
(* (sk_socket.cpp): server::socket_send, called by worker threads, writes  *)
(* at once if it can and hands the rest to the poll thread's coroutines;   *)
(* server::close_socket lets a write that is under way finish first.       *)
(*                                                                         *)
(* The connection is established; how it came about and what is read from  *)
(* it is module SocketSlots.  The poll thread runs one handler at a time,  *)
(* in the order they were posted, and resumes a suspended write whenever   *)
(* that has completed.                                                     *)
(*                                                                         *)
(* A worker's pc:                                                          *)
(*   idle     not in socket_send                                           *)
(*   try      has passed the first check, about to try the lock            *)
(*   check    holds the lock, has compared slot.id in the second check     *)
(*   write    holds the lock, about to write_some                          *)
(*   post     about to post its coroutine                                  *)
(***************************************************************************)
EXTENDS Naturals, Sequences, FiniteSets

CONSTANTS
  Worker,     (* worker threads, each inside some service's callback        *)
  Size,       (* bytes of a buffer                                          *)
  MaxSend,    (* bound: calls of socket_send                                *)
  MaxClose,   (* bound: calls of close_socket                               *)
  Poll, Free  (* the poll thread, nobody: the other holders of wlist_lock   *)

ASSUME HolderAssumption == Poll \notin Worker /\ Free \notin Worker /\ Poll # Free
ASSUME SizeAssumption == Size \in Nat \ {0}
ASSUME BoundAssumption == MaxSend \in Nat /\ MaxClose \in Nat

VARIABLES
  (* The slot.                                                              *)
  type,        (* socket_type                                               *)
  here,        (* slot.id is the connection's id, and slot.sock its socket  *)
  close,
  wlist,       (* a sequence of byte sequences                              *)
  wlist_lock,  (* who holds it                                              *)
  broken,      (* the peer is gone or the sending side is shut down         *)
  (* The threads.                                                           *)
  pc, buf, offset,  (* of each worker: where it is, the buffer it sends,    *)
                    (* how much of it has been written                      *)
  posted,      (* handlers the poll thread will run                         *)
  poll,        (* "idle", or inside a handler: "try" about to try the lock, *)
               (* "end" has released it, "clear" has cleared the slot and   *)
               (* is about to store its type                                *)
  writing,     (* a coroutine is suspended in async_write of wlist's front  *)
  (* History.                                                               *)
  sent,        (* buffers are numbered 1 .. sent                            *)
  asked,       (* close_socket calls                                        *)
  handed,      (* buffers whose coroutine has run its first part            *)
  after,       (* for each buffer, the set handed when it was sent          *)
  stream,      (* the bytes that went out                                   *)
  told, freed  (* close messages sent to the service, times slot was freed  *)

slot  == <<type, here, close, wlist, wlist_lock, broken>>
vars  == <<slot, pc, buf, offset, posted, poll, writing,
           sent, asked, handed, after, stream, told, freed>>

Buffer == 1 .. MaxSend

(* Bytes i + 1 .. Size of buffer m.                                        *)
Rest(m, i) == [k \in 1 .. Size - i |-> <<m, i + k>>]

Init ==
  /\ type = "connected"
  /\ here = TRUE
  /\ close = FALSE
  /\ wlist = << >>
  /\ wlist_lock = Free
  /\ broken = FALSE
  /\ pc = [w \in Worker |-> "idle"]
  /\ buf = [w \in Worker |-> 0]
  /\ offset = [w \in Worker |-> 0]
  /\ posted = << >>
  /\ poll = "idle"
  /\ writing = FALSE
  /\ sent = 0
  /\ asked = 0
  /\ handed = {}
  /\ after = [m \in Buffer |-> {}]
  /\ stream = << >>
  /\ told = 0
  /\ freed = 0

-----------------------------------------------------------------------------
(* socket_t::check_can_write, its reads of type and close ...              *)
Writable == ~ close /\ type \in {"connected", "halfclose_read"}

(* ... and all of it.                                                      *)
CheckCanWrite == here /\ Writable

history == <<sent, asked, handed, after, stream, told, freed>>

(* socket_send up to the first check.                                      *)
SocketSend(w) ==
  /\ pc[w] = "idle"
  /\ CheckCanWrite
  /\ sent < MaxSend
  /\ sent' = sent + 1
  /\ after' = [after EXCEPT ![sent + 1] = handed]
  /\ buf' = [buf EXCEPT ![w] = sent + 1]
  /\ offset' = [offset EXCEPT ![w] = 0]
  /\ pc' = [pc EXCEPT ![w] = "try"]
  /\ UNCHANGED <<slot, posted, poll, writing, asked, handed, stream, told, freed>>

(* wlist_lock.trylock(), and the comparison of ids of the second check,    *)
(* which reads the fields of the slot one after the other.                 *)
TryLock(w) ==
  /\ pc[w] = "try"
  /\ IF wlist_lock = Free /\ here
       THEN /\ wlist_lock' = w
            /\ pc' = [pc EXCEPT ![w] = "check"]
       ELSE /\ pc' = [pc EXCEPT ![w] = "post"]
            /\ UNCHANGED wlist_lock
  /\ UNCHANGED <<type, here, close, wlist, broken, buf, offset, posted, poll,
                 writing, history>>

(* Mutant of CheckList: buffers that are waiting are not looked at.        *)
CheckListNever(w) ==
  /\ pc[w] = "check"
  /\ IF Writable
       THEN /\ pc' = [pc EXCEPT ![w] = "write"]
            /\ UNCHANGED wlist_lock
       ELSE /\ pc' = [pc EXCEPT ![w] = "post"]
            /\ wlist_lock' = Free
  /\ UNCHANGED <<type, here, close, wlist, broken, buf, offset, posted, poll,
                 writing, history>>

(* The rest of the second check, and wlist.empty().                        *)
CheckList(w) ==
  /\ pc[w] = "check"
  /\ IF Writable /\ wlist = << >>
       THEN /\ pc' = [pc EXCEPT ![w] = "write"]
            /\ UNCHANGED wlist_lock
       ELSE /\ pc' = [pc EXCEPT ![w] = "post"]
            /\ wlist_lock' = Free
  /\ UNCHANGED <<type, here, close, wlist, broken, buf, offset, posted, poll,
                 writing, history>>

(* write_some takes any number of bytes, and none if the socket is broken; *)
(* its error is ignored.  Without a socket the assertion ends the process. *)
WriteSome(w) ==
  /\ pc[w] = "write"
  /\ here
  /\ \E n \in IF broken THEN {0} ELSE 0 .. Size :
       /\ offset' = [offset EXCEPT ![w] = n]
       /\ stream' = stream \o SubSeq(Rest(buf[w], 0), 1, n)
  /\ wlist_lock' = Free
  /\ pc' = [pc EXCEPT ![w] = "post"]
  /\ UNCHANGED <<type, here, close, wlist, broken, buf, posted, poll, writing,
                 sent, asked, handed, after, told, freed>>

(* Mutant of PostSend: nothing is posted for a buffer that is all written. *)
PostSendIfNeeded(w) ==
  /\ pc[w] = "post"
  /\ posted' = IF offset[w] = Size THEN posted
               ELSE Append(posted, [op |-> "send", m |-> buf[w], offset |-> offset[w]])
  /\ pc' = [pc EXCEPT ![w] = "idle"]
  /\ UNCHANGED <<slot, buf, offset, poll, writing, history>>

(* co_spawn.                                                               *)
PostSend(w) ==
  /\ pc[w] = "post"
  /\ posted' = Append(posted, [op |-> "send", m |-> buf[w], offset |-> offset[w]])
  /\ pc' = [pc EXCEPT ![w] = "idle"]
  /\ UNCHANGED <<slot, buf, offset, poll, writing, history>>

(* close_socket, by any service at any time.                               *)
CloseSocket(w) ==
  /\ pc[w] = "idle"
  /\ asked < MaxClose
  /\ asked' = asked + 1
  /\ posted' = Append(posted, [op |-> "close"])
  /\ UNCHANGED <<slot, pc, buf, offset, poll, writing, sent, handed, after,
                 stream, told, freed>>

-----------------------------------------------------------------------------
NextHandler(op) ==
  /\ poll = "idle"
  /\ posted # << >>
  /\ Head(posted).op = op
  /\ posted' = Tail(posted)

(* Mutant of Queued: the whole buffer is queued after a partial write.     *)
QueuedWhole(m, i) == IF i < Size THEN Append(wlist, Rest(m, 0)) ELSE wlist

(* wlist with what write_some has left of the buffer.                      *)
Queued(m, i) == IF i < Size THEN Append(wlist, Rest(m, i)) ELSE wlist

(* The coroutine of socket_send up to trylock.                             *)
RunSend ==
  /\ NextHandler("send")
  /\ LET m == Head(posted).m
         i == Head(posted).offset
     IN  /\ handed' = handed \cup {m}
         /\ IF CheckCanWrite
              THEN /\ wlist' = Queued(m, i)
                   /\ poll' = "try"
              ELSE UNCHANGED <<wlist, poll>>
  /\ UNCHANGED <<type, here, close, wlist_lock, broken, pc, buf, offset,
                 writing, sent, asked, after, stream, told, freed>>

(* The end of the write loop: the lock is released.                        *)
EndWriting(list) ==
  /\ wlist' = list
  /\ wlist_lock' = Free
  /\ writing' = FALSE
  /\ poll' = "end"

(* trylock and the start of the write loop.                                *)
StartWriting ==
  /\ poll = "try"
  /\ IF wlist_lock # Free
       THEN /\ poll' = "idle"
            /\ UNCHANGED <<wlist, wlist_lock, writing>>
       ELSE IF wlist # << >>
       THEN /\ wlist_lock' = Poll
            /\ writing' = TRUE
            /\ poll' = "idle"
            /\ UNCHANGED wlist
       ELSE EndWriting(wlist)
  /\ UNCHANGED <<type, here, close, broken, pc, buf, offset, posted, history>>

(* async_write has written the front: the loop goes on or ends.            *)
WriteDone ==
  /\ writing
  /\ poll = "idle"
  /\ ~ broken
  /\ stream' = stream \o Head(wlist)
  /\ IF Len(wlist) > 1
       THEN /\ wlist' = Tail(wlist)
            /\ UNCHANGED <<wlist_lock, writing, poll>>
       ELSE EndWriting(<< >>)
  /\ UNCHANGED <<type, here, close, broken, pc, buf, offset, posted, sent,
                 asked, handed, after, told, freed>>

(* async_write fails, after part of the front: the sending side is shut    *)
(* down and the loop ends, with the front still in the list.               *)
WriteFail ==
  /\ writing
  /\ poll = "idle"
  /\ \E n \in IF broken THEN {0} ELSE 0 .. Len(Head(wlist)) - 1 :
       stream' = stream \o SubSeq(Head(wlist), 1, n)
  /\ broken' = TRUE
  /\ EndWriting(wlist)
  /\ UNCHANGED <<type, here, close, pc, buf, offset, posted, sent, asked,
                 handed, after, told, freed>>

(* The end of the coroutine, the lock no longer held: clear() if the slot  *)
(* was closed in the meantime.  ec is never assigned (the inner ec shadows *)
(* it), so the branch for halfclose_write is never taken.                  *)
ClearClosed ==
  /\ poll = "end"
  /\ IF type = "halfclose_read" \/ close
       THEN /\ here' = FALSE
            /\ close' = FALSE
            /\ wlist' = << >>
            /\ freed' = freed + 1
            /\ poll' = "clear"
       ELSE /\ poll' = "idle"
            /\ UNCHANGED <<here, close, wlist, freed>>
  /\ UNCHANGED <<type, wlist_lock, broken, pc, buf, offset, posted, writing,
                 sent, asked, handed, after, stream, told>>

(* type.store(invalid) after clear().                                      *)
StoreInvalid ==
  /\ poll = "clear"
  /\ type' = "invalid"
  /\ poll' = "idle"
  /\ UNCHANGED <<here, close, wlist, wlist_lock, broken, pc, buf, offset,
                 posted, writing, history>>

(* The peer goes away.                                                     *)
PeerGone ==
  /\ ~ broken
  /\ here
  /\ broken' = TRUE
  /\ UNCHANGED <<type, here, close, wlist, wlist_lock, pc, buf, offset, posted,
                 poll, writing, history>>

(* Mutant of RunClose: the handler does not look whether the slot is still *)
(* the connection's.                                                       *)
RunCloseAny ==
  /\ NextHandler("close")
  /\ IF close
       THEN UNCHANGED <<type, here, close, wlist, told, freed>>
       ELSE /\ type' = "halfclose_read"
            /\ told' = told + IF type = "halfclose_read" THEN 0 ELSE 1
            /\ IF wlist = << >> /\ wlist_lock = Free
                 THEN /\ here' = FALSE
                      /\ freed' = freed + 1
                      /\ UNCHANGED <<close, wlist>>
                 ELSE /\ close' = TRUE
                      /\ UNCHANGED <<here, wlist, freed>>
  /\ UNCHANGED <<wlist_lock, broken, pc, buf, offset, poll, writing,
                 sent, asked, handed, after, stream>>

(* The handler of close_socket: the service is told, and the slot is freed *)
(* now or left to the coroutine that is writing.                           *)
RunClose ==
  /\ NextHandler("close")
  /\ IF ~ here \/ type = "invalid" \/ close
       THEN UNCHANGED <<type, here, close, wlist, told, freed>>
       ELSE /\ told' = told + IF type = "halfclose_read" THEN 0 ELSE 1
            /\ IF wlist = << >> /\ wlist_lock = Free
                 THEN /\ here' = FALSE
                      /\ type' = "invalid"
                      /\ freed' = freed + 1
                      /\ UNCHANGED <<close, wlist>>
                 ELSE /\ type' = "halfclose_read"
                      /\ close' = TRUE
                      /\ UNCHANGED <<here, wlist, freed>>
  /\ UNCHANGED <<wlist_lock, broken, pc, buf, offset, poll, writing,
                 sent, asked, handed, after, stream>>

-----------------------------------------------------------------------------
WorkerStep(w) == TryLock(w) \/ CheckList(w) \/ WriteSome(w) \/ PostSend(w)

PollStep ==
  RunSend \/ StartWriting \/ ClearClosed \/ StoreInvalid \/ RunClose

WriteStep == WriteDone \/ WriteFail

Next ==
  \/ \E w \in Worker : SocketSend(w) \/ CloseSocket(w) \/ WorkerStep(w)
  \/ PollStep
  \/ WriteStep
  \/ PeerGone

Spec == Init /\ [][Next]_vars

(* The threads run, and TCP ends every write in one way or the other: the  *)
(* peer reads or the connection breaks.                                    *)
Fairness ==
  /\ \A w \in Worker : WF_vars(WorkerStep(w))
  /\ WF_vars(PollStep)
  /\ WF_vars(WriteStep)

FairSpec == Spec /\ Fairness

-----------------------------------------------------------------------------
(* Types; in addition the lock is held exactly by the worker that is       *)
(* between trylock and the end of its guard, or by a suspended write, and  *)
(* a write only waits while there is something to write.                   *)
TypeOK ==
  /\ type \in {"connected", "halfclose_read", "invalid"}
  /\ here \in BOOLEAN /\ close \in BOOLEAN /\ broken \in BOOLEAN
  /\ \A i \in 1 .. Len(wlist) : wlist[i] # << >>
  /\ wlist_lock \in Worker \cup {Poll, Free}
  /\ \A w \in Worker : wlist_lock = w <=> pc[w] \in {"check", "write"}
  /\ wlist_lock = Poll <=> writing
  /\ writing => here /\ wlist # << >>
  /\ pc \in [Worker -> {"idle", "try", "check", "write", "post"}]
  /\ offset \in [Worker -> 0 .. Size]
  /\ poll \in {"idle", "try", "end", "clear"}
  /\ handed \in SUBSET Buffer

(* What goes out is what was sent: of each buffer an initial part, every   *)
(* byte once and after the one before it, whoever wrote it, also across    *)
(* partial writes and failures (a failed coroutine shuts the socket down   *)
(* before another one finds the same buffer at the front).                 *)
BytesOnce ==
  \A j \in 1 .. Len(stream) :
    /\ \A i \in 1 .. j - 1 : stream[i] # stream[j]
    /\ stream[j][2] > 1 =>
         \E i \in 1 .. j - 1 : stream[i] = <<stream[j][1], stream[j][2] - 1>>

(* A buffer that is sent after the coroutine of an earlier one has run     *)
(* does not overtake it: a worker only writes directly when nothing waits. *)
(* Before that it may: the rest of the earlier one is in nobody's list.    *)
InOrder ==
  \A i, j \in 1 .. Len(stream) :
    i < j => stream[j][1] \notin after[stream[i][1]] \ {stream[i][1]}

(* What is sent goes out in the order of the calls, where these come one   *)
(* after the other (a single worker).  It fails: the rest of a buffer that *)
(* was written in part is in a posted handler, wlist still empty, when the *)
(* next one is written directly (sk_socket.cpp:185-200).                   *)
SentOrder ==
  \A i, j \in 1 .. Len(stream) : i < j => stream[i][1] <= stream[j][1]

(* Buffers that wait are not forgotten: while the connection can be        *)
(* written, somebody is writing, or a coroutine that will is on its way.   *)
(* A worker that holds the lock makes the poll thread's trylock fail, but  *)
(* then its own coroutine is still to come.                                *)
NoStall ==
  CheckCanWrite /\ wlist # << >> /\ ~ broken =>
    \/ writing
    \/ poll = "try"
    \/ \E k \in 1 .. Len(posted) : posted[k].op = "send"
    \/ \E w \in Worker : pc[w] # "idle"

(* The slot is freed once and the service is told once, whoever of         *)
(* close_socket and the writing coroutine is last: a second time would     *)
(* hit the next connection in the slot.                                    *)
ClosedOnce == told <= 1 /\ freed <= 1

(* A close is not lost: as long as the slot is marked to be closed, there  *)
(* is a write under way that will free it ("when write buff not empty;     *)
(* shutdown read first and close later", sk_socket.h:76).  It fails when a *)
(* worker holds the lock at that moment, or after a failed write.          *)
CloseHasFinisher == close => writing

(* The assertion of sk_socket.cpp:198: a worker about to write finds a     *)
(* socket in the slot.  The coroutine clears the slot after releasing the  *)
(* lock, between a worker's reads of id and close.                         *)
WriterFindsSocket == \A w \in Worker : pc[w] = "write" => here

(* "this list just read and write in poll thread" (sk_socket.h:204): the   *)
(* poll thread does not change wlist while a worker, under the lock that   *)
(* guards it, reads it.                                                    *)
ListLeftAlone ==
  [][ \A w \in Worker : pc[w] = "check" => wlist' = wlist ]_vars

(* What is sent goes out, unless the connection breaks or is closed.       *)
Flushed ==
  \A m \in Buffer :
    m <= sent ~> \/ \E k \in 1 .. Len(stream) : stream[k] = <<m, Size>>
                 \/ broken \/ close \/ ~ here
=============================================================================
