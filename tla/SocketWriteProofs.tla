-------------------------- MODULE SocketWriteProofs -------------------------
(***************************************************************************)
(* Theorems about module SocketWrite, for any set of workers, any size of  *)
(* the buffers and any number of sends and closes: what is queued is never *)
(* forgotten, the slot is freed once, every byte goes out once and in its  *)
(* place, and no buffer overtakes one that had been handed over.           *)
(***************************************************************************)
EXTENDS SocketWrite, TLAPS

Chunk == Seq(Buffer \X (1 .. Size)) \ {<< >>}

SendHandler  == [op : {"send"}, m : Buffer, offset : 0 .. Size]
CloseHandler == [op : {"close"}]
Handler == SendHandler \cup CloseHandler

(* The types of the variables the other invariants speak of.               *)
Typed ==
  /\ type \in {"connected", "halfclose_read", "invalid"}
  /\ here \in BOOLEAN /\ close \in BOOLEAN /\ broken \in BOOLEAN
  /\ wlist \in Seq(Chunk)
  /\ wlist_lock \in Worker \cup {Poll, Free}
  /\ pc \in [Worker -> {"idle", "try", "check", "write", "post"}]
  /\ buf \in [Worker -> 0 .. MaxSend]
  /\ offset \in [Worker -> 0 .. Size]
  /\ posted \in Seq(Handler)
  /\ poll \in {"idle", "try", "end", "clear"}
  /\ writing \in BOOLEAN
  /\ sent \in 0 .. MaxSend
  /\ handed \in SUBSET Buffer
  /\ told \in Nat /\ freed \in Nat
  /\ \A w \in Worker : pc[w] # "idle" => buf[w] \in Buffer

(* Who holds the lock, and what a suspended write relies on.               *)
LockHeld ==
  /\ \A w \in Worker : wlist_lock = w <=> pc[w] \in {"check", "write"}
  /\ wlist_lock = Poll <=> writing
  /\ writing => here /\ wlist # << >>

(* What holds while the poll thread is inside the coroutine of a send.     *)
Handling ==
  /\ poll \in {"try", "end"} => here
  /\ poll \in {"end", "clear"} => ~ writing
  /\ poll = "end" => wlist = << >> \/ broken
  /\ poll = "clear" => ~ here

(* The history of closing, told by the slot.                               *)
Counted ==
  /\ freed = IF here THEN 0 ELSE 1
  /\ type = "connected" => told = 0
  /\ told <= 1

IInv == Typed /\ LockHeld /\ Handling /\ Counted /\ NoStall

-----------------------------------------------------------------------------
(* The handler of a send is among those posted.                            *)
SendPosted(q) == \E k \in 1 .. Len(q) : q[k].op = "send"

LEMMA AppendSend ==
  ASSUME NEW q \in Seq(Handler), NEW x \in Handler
  PROVE  /\ Append(q, x) \in Seq(Handler)
         /\ SendPosted(q) => SendPosted(Append(q, x))
         /\ x.op = "send" => SendPosted(Append(q, x))
<1>1. /\ Append(q, x) \in Seq(Handler)
      /\ Len(Append(q, x)) = Len(q) + 1
      /\ \A k \in 1 .. Len(q) : Append(q, x)[k] = q[k]
      /\ Append(q, x)[Len(q) + 1] = x
      /\ Len(q) \in Nat
  OBVIOUS
<1>2. SendPosted(q) => SendPosted(Append(q, x))
  BY <1>1 DEF SendPosted
<1>3. x.op = "send" => SendPosted(Append(q, x))
  BY <1>1 DEF SendPosted
<1> QED BY <1>1, <1>2, <1>3

LEMMA TailSend ==
  ASSUME NEW q \in Seq(Handler), q # << >>
  PROVE  /\ Head(q) \in Handler
         /\ Tail(q) \in Seq(Handler)
         /\ SendPosted(q) /\ Head(q).op # "send" => SendPosted(Tail(q))
<1>1. /\ Head(q) \in Handler
      /\ Head(q) = q[1]
      /\ Tail(q) \in Seq(Handler)
      /\ Len(Tail(q)) = Len(q) - 1
      /\ \A k \in 1 .. Len(q) - 1 : Tail(q)[k] = q[k + 1]
      /\ Len(q) \in Nat \ {0}
  OBVIOUS
<1>2. ASSUME SendPosted(q), Head(q).op # "send"
      PROVE  SendPosted(Tail(q))
  <2>1. PICK k \in 1 .. Len(q) : q[k].op = "send"
    BY <1>2 DEF SendPosted
  <2>2. k - 1 \in 1 .. Len(q) - 1 /\ Tail(q)[k - 1] = q[k]
    BY <1>1, <1>2, <2>1
  <2> QED BY <1>1, <2>1, <2>2 DEF SendPosted
<1> QED BY <1>1, <1>2

LEMMA RestIsChunk ==
  ASSUME NEW m \in Buffer, NEW i \in 0 .. Size, i < Size
  PROVE  Rest(m, i) \in Chunk
<1>1. Size - i \in Nat \ {0}
  BY SizeAssumption
<1>2. \A k \in 1 .. Size - i : <<m, i + k>> \in Buffer \X (1 .. Size)
  BY SizeAssumption
<1>3. Rest(m, i) \in [1 .. Size - i -> Buffer \X (1 .. Size)]
  BY <1>2 DEF Rest
<1>4. Rest(m, i) \in Seq(Buffer \X (1 .. Size))
  BY <1>1, <1>3
<1>5. Rest(m, i) # << >>
  BY <1>1, <1>3
<1> QED BY <1>4, <1>5 DEF Chunk

(* A list with an element more is a list, and not an empty one.            *)
LEMMA AppendIsList ==
  ASSUME NEW S, NEW l \in Seq(S), NEW e \in S
  PROVE  Append(l, e) \in Seq(S) /\ Append(l, e) # << >>
<1>1. Append(l, e) \in Seq(S)
  OBVIOUS
<1>2. Len(Append(l, e)) = Len(l) + 1 /\ Len(l) \in Nat
  OBVIOUS
<1>3. Len(<< >>) = 0
  OBVIOUS
<1>4. Append(l, e) # << >>
  BY <1>2, <1>3
<1> QED BY <1>1, <1>4

LEMMA QueuedIsList ==
  ASSUME Typed, NEW m \in Buffer, NEW i \in 0 .. Size
  PROVE  /\ Queued(m, i) \in Seq(Chunk)
         /\ wlist # << >> => Queued(m, i) # << >>
<1>1. CASE i < Size
  <2>1. Rest(m, i) \in Chunk
    BY <1>1, RestIsChunk
  <2>2. wlist \in Seq(Chunk)
    BY DEF Typed
  <2>3. Queued(m, i) = Append(wlist, Rest(m, i))
    BY <1>1 DEF Queued
  <2> QED BY <2>1, <2>2, <2>3, AppendIsList
<1>2. CASE ~ i < Size
  <2>1. wlist \in Seq(Chunk)
    BY DEF Typed
  <2>2. Queued(m, i) = wlist
    BY <1>2 DEF Queued
  <2> QED BY <2>1, <2>2
<1> QED BY <1>1, <1>2

-----------------------------------------------------------------------------
LEMMA InitIInv == Init => IInv
<1> SUFFICES ASSUME Init PROVE IInv
  OBVIOUS
<1>1. Typed
  <2>1. wlist \in Seq(Chunk) /\ posted \in Seq(Handler)
    BY DEF Init
  <2>2. /\ pc \in [Worker -> {"idle", "try", "check", "write", "post"}]
        /\ \A w \in Worker : pc[w] = "idle"
    BY DEF Init
  <2>3. buf \in [Worker -> 0 .. MaxSend] /\ offset \in [Worker -> 0 .. Size]
    BY SizeAssumption, BoundAssumption DEF Init
  <2>4. /\ sent \in 0 .. MaxSend
        /\ handed \in SUBSET Buffer
        /\ told \in Nat /\ freed \in Nat
    BY BoundAssumption DEF Init
  <2> QED BY <2>1, <2>2, <2>3, <2>4 DEF Init, Typed
<1>2. LockHeld
  BY HolderAssumption DEF Init, LockHeld
<1>3. Handling /\ Counted /\ NoStall
  BY DEF Init, Handling, Counted, NoStall
<1> QED BY <1>1, <1>2, <1>3 DEF IInv

LEMMA SocketSendStep ==
  ASSUME IInv, NEW w \in Worker, SocketSend(w)
  PROVE  IInv'
<1>1. Typed'
  BY SizeAssumption, BoundAssumption DEF IInv, Typed, slot, history, SocketSend, Buffer
<1>2. LockHeld'
  BY HolderAssumption DEF IInv, Typed, slot, history, SocketSend, LockHeld
<1>3. Handling'
  BY HolderAssumption DEF IInv, Typed, slot, history, SocketSend, LockHeld, Handling
<1>4. Counted'
  BY DEF IInv, Typed, slot, history, SocketSend, Handling, Counted
<1>5. NoStall'
  BY DEF IInv, Typed, slot, history, SocketSend, NoStall, CheckCanWrite, Writable
<1> QED BY <1>1, <1>2, <1>3, <1>4, <1>5 DEF IInv

LEMMA TryLockStep ==
  ASSUME IInv, NEW w \in Worker, TryLock(w)
  PROVE  IInv'
<1>1. Typed'
  BY DEF IInv, Typed, slot, history, TryLock
<1>2. LockHeld'
  BY HolderAssumption DEF IInv, Typed, slot, history, TryLock, LockHeld
<1>3. Handling'
  BY HolderAssumption DEF IInv, Typed, slot, history, TryLock, LockHeld, Handling
<1>4. Counted'
  BY DEF IInv, Typed, slot, history, TryLock, Handling, Counted
<1>5. NoStall'
  BY DEF IInv, Typed, slot, history, TryLock, NoStall, CheckCanWrite, Writable
<1> QED BY <1>1, <1>2, <1>3, <1>4, <1>5 DEF IInv

LEMMA CheckListStep ==
  ASSUME IInv, NEW w \in Worker, CheckList(w)
  PROVE  IInv'
<1>1. Typed'
  BY DEF IInv, Typed, slot, history, CheckList
<1>2. LockHeld'
  BY HolderAssumption DEF IInv, Typed, slot, history, CheckList, LockHeld
<1>3. Handling'
  BY HolderAssumption DEF IInv, Typed, slot, history, CheckList, LockHeld, Handling
<1>4. Counted'
  BY DEF IInv, Typed, slot, history, CheckList, Handling, Counted
<1>5. NoStall'
  BY DEF IInv, Typed, slot, history, CheckList, NoStall, CheckCanWrite, Writable
<1> QED BY <1>1, <1>2, <1>3, <1>4, <1>5 DEF IInv

LEMMA WriteSomeStep ==
  ASSUME IInv, NEW w \in Worker, WriteSome(w)
  PROVE  IInv'
<1>1. Typed'
  BY SizeAssumption DEF IInv, Typed, slot, history, WriteSome
<1>2. LockHeld'
  BY HolderAssumption DEF IInv, Typed, slot, history, WriteSome, LockHeld
<1>3. Handling'
  BY HolderAssumption DEF IInv, Typed, slot, history, WriteSome, LockHeld, Handling
<1>4. Counted'
  BY DEF IInv, Typed, slot, history, WriteSome, Handling, Counted
<1>5. NoStall'
  BY DEF IInv, Typed, slot, history, WriteSome, NoStall, CheckCanWrite, Writable
<1> QED BY <1>1, <1>2, <1>3, <1>4, <1>5 DEF IInv

LEMMA PostSendStep ==
  ASSUME IInv, NEW w \in Worker, PostSend(w)
  PROVE  IInv'
<1>0. [op |-> "send", m |-> buf[w], offset |-> offset[w]] \in SendHandler
  BY DEF IInv, Typed, PostSend, SendHandler
<1>p. posted' \in Seq(Handler) /\ SendPosted(posted')
  BY <1>0, AppendSend DEF IInv, Typed, PostSend, SendHandler, Handler
<1>1. Typed'
  BY <1>p DEF IInv, Typed, slot, history, PostSend
<1>2. LockHeld'
  BY HolderAssumption DEF IInv, Typed, slot, history, PostSend, LockHeld
<1>3. Handling'
  BY DEF IInv, Typed, slot, history, PostSend, LockHeld, Handling
<1>4. Counted'
  BY DEF IInv, Typed, slot, history, PostSend, Handling, Counted
<1>5. NoStall'
  BY <1>p DEF IInv, Typed, slot, history, PostSend, NoStall, SendPosted, CheckCanWrite, Writable
<1> QED BY <1>1, <1>2, <1>3, <1>4, <1>5 DEF IInv

LEMMA CloseSocketStep ==
  ASSUME IInv, NEW w \in Worker, CloseSocket(w)
  PROVE  IInv'
<1>p. posted' \in Seq(Handler) /\ (SendPosted(posted) => SendPosted(posted'))
  BY AppendSend DEF IInv, Typed, CloseSocket, CloseHandler, Handler
<1>1. Typed'
  BY <1>p DEF IInv, Typed, slot, CloseSocket
<1>2. LockHeld'
  BY DEF IInv, Typed, slot, history, CloseSocket, LockHeld
<1>3. Handling'
  BY DEF IInv, Typed, slot, history, CloseSocket, LockHeld, Handling
<1>4. Counted'
  BY DEF IInv, Typed, slot, history, CloseSocket, Handling, Counted
<1>5. NoStall'
  BY <1>p DEF IInv, Typed, slot, history, CloseSocket, NoStall, SendPosted, CheckCanWrite, Writable
<1> QED BY <1>1, <1>2, <1>3, <1>4, <1>5 DEF IInv

-----------------------------------------------------------------------------
LEMMA RunSendStep ==
  ASSUME IInv, RunSend
  PROVE  IInv'
<1> DEFINE m == Head(posted).m
           i == Head(posted).offset
<1>0. /\ posted # << >>
      /\ Head(posted) \in Handler
      /\ Head(posted).op = "send"
      /\ posted' = Tail(posted)
      /\ posted' \in Seq(Handler)
  BY TailSend DEF IInv, Typed, RunSend, NextHandler
<1>m. m \in Buffer /\ i \in 0 .. Size
  BY <1>0 DEF Handler, SendHandler, CloseHandler
<1>q. /\ Queued(m, i) \in Seq(Chunk)
      /\ wlist # << >> => Queued(m, i) # << >>
  BY <1>m, QueuedIsList DEF IInv
<1>r. /\ CheckCanWrite => wlist' = Queued(m, i) /\ poll' = "try"
      /\ ~ CheckCanWrite => wlist' = wlist /\ poll' = poll
      /\ handed' = handed \cup {m}
      /\ poll = "idle"
  BY DEF RunSend, NextHandler
<1> HIDE DEF m, i
<1>1. Typed'
  BY <1>0, <1>m, <1>q, <1>r DEF IInv, Typed, RunSend
<1>2. LockHeld'
  BY <1>q, <1>r DEF IInv, RunSend, LockHeld
<1>3. Handling'
  BY <1>r DEF IInv, RunSend, Handling, CheckCanWrite
<1>4. Counted'
  BY DEF IInv, RunSend, Counted
<1>5. NoStall'
  BY <1>r DEF RunSend, NoStall, CheckCanWrite, Writable
<1> QED BY <1>1, <1>2, <1>3, <1>4, <1>5 DEF IInv

LEMMA RunCloseStep ==
  ASSUME IInv, RunClose
  PROVE  IInv'
<1>0. /\ posted # << >>
      /\ Head(posted).op # "send"
      /\ posted' = Tail(posted)
      /\ posted' \in Seq(Handler)
      /\ SendPosted(posted) => SendPosted(posted')
  BY TailSend DEF IInv, Typed, RunClose, NextHandler
<1>e. <<told', freed', here', close', type', wlist'>>
        = <<told, freed, here, close, type, wlist>>
      \/ /\ told' = told \/ told' = told + 1
         /\ \/ freed' = freed + 1 /\ here' = FALSE /\ type' = "invalid" /\ close' = close
            \/ freed' = freed /\ here' = here /\ type' = "halfclose_read" /\ close' = TRUE
         /\ wlist' = wlist
  BY DEF RunClose, IInv, Typed
<1>u. UNCHANGED <<wlist_lock, broken, pc, buf, offset, poll, writing, sent, handed>>
  BY DEF RunClose
<1>1. Typed'
  <2>1. /\ type' \in {"connected", "halfclose_read", "invalid"}
        /\ here' \in BOOLEAN /\ close' \in BOOLEAN
        /\ wlist' \in Seq(Chunk)
    BY <1>e DEF IInv, Typed
  <2>2. told' \in Nat /\ freed' \in Nat
    BY <1>e DEF IInv, Typed
  <2> QED BY <1>0, <1>u, <2>1, <2>2 DEF IInv, Typed
<1>2. LockHeld'
  BY HolderAssumption DEF IInv, Typed, RunClose, LockHeld
<1>3. Handling'
  BY DEF IInv, Typed, RunClose, NextHandler, Handling
<1>4. Counted'
  BY DEF IInv, Typed, RunClose, Counted
<1>5. NoStall'
  BY <1>0 DEF IInv, Typed, RunClose, NoStall, SendPosted, CheckCanWrite, Writable
<1> QED BY <1>1, <1>2, <1>3, <1>4, <1>5 DEF IInv

LEMMA StartWritingStep ==
  ASSUME IInv, StartWriting
  PROVE  IInv'
<1>1. Typed'
  BY DEF IInv, Typed, slot, history, StartWriting, EndWriting
<1>2. LockHeld'
  <2>1. UNCHANGED <<pc, here>> /\ poll = "try"
    BY DEF StartWriting
  <2>2. CASE wlist_lock # Free
    BY <2>1, <2>2 DEF IInv, StartWriting, LockHeld
  <2>3. CASE wlist_lock = Free /\ wlist # << >>
    <3>1. wlist_lock' = Poll /\ writing' = TRUE /\ wlist' = wlist
      BY <2>3 DEF StartWriting
    <3>2. here
      BY <2>1 DEF IInv, Handling
    <3> QED BY <2>1, <2>3, <3>1, <3>2, HolderAssumption DEF IInv, LockHeld
  <2>4. CASE wlist_lock = Free /\ wlist = << >>
    <3>1. wlist_lock' = Free /\ writing' = FALSE
      BY <2>4 DEF StartWriting, EndWriting
    <3> QED BY <2>1, <2>4, <3>1, HolderAssumption DEF IInv, LockHeld
  <2> QED BY <2>2, <2>3, <2>4
<1>3. Handling'
  BY DEF IInv, Typed, slot, history, StartWriting, EndWriting, LockHeld, Handling
<1>4. Counted'
  BY DEF IInv, Typed, slot, history, StartWriting, EndWriting, Handling, Counted
<1>5. NoStall'
  BY DEF IInv, Typed, slot, history, StartWriting, EndWriting, NoStall, LockHeld, CheckCanWrite, Writable
<1> QED BY <1>1, <1>2, <1>3, <1>4, <1>5 DEF IInv

LEMMA WriteFailStep ==
  ASSUME IInv, WriteFail
  PROVE  IInv'
<1>1. Typed'
  BY DEF IInv, Typed, slot, history, WriteFail, EndWriting
<1>2. LockHeld'
  BY HolderAssumption DEF IInv, Typed, slot, history, WriteFail, EndWriting, LockHeld
<1>3. Handling'
  BY DEF IInv, Typed, slot, history, WriteFail, EndWriting, LockHeld, Handling
<1>4. Counted'
  BY DEF IInv, Typed, slot, history, WriteFail, EndWriting, Handling, Counted
<1>5. NoStall'
  BY DEF IInv, Typed, slot, history, WriteFail, EndWriting, NoStall, CheckCanWrite, Writable
<1> QED BY <1>1, <1>2, <1>3, <1>4, <1>5 DEF IInv

LEMMA ClearClosedStep ==
  ASSUME IInv, ClearClosed
  PROVE  IInv'
<1>0. /\ poll = "end" /\ here = TRUE /\ writing = FALSE /\ freed = 0
      /\ UNCHANGED <<type, wlist_lock, broken, pc, buf, offset, posted, writing,
                     sent, handed, told>>
  BY DEF IInv, Typed, ClearClosed, Handling, Counted
<1>c. CASE type = "halfclose_read" \/ close
  <2>0. here' = FALSE /\ close' = FALSE /\ wlist' = << >> /\ freed' = 1 /\ poll' = "clear"
    <3>1. /\ here' = FALSE /\ close' = FALSE /\ wlist' = << >>
          /\ freed' = freed + 1 /\ poll' = "clear"
      BY <1>c, Zenon DEF ClearClosed
    <3> QED BY <1>0, <3>1
  <2>1. Typed'
    <3>1. wlist' \in Seq(Chunk)
      BY <2>0
    <3> QED BY <1>0, <2>0, <3>1 DEF IInv, Typed
  <2>2. LockHeld'
    BY <1>0 DEF IInv, LockHeld
  <2>3. Handling' /\ Counted' /\ NoStall'
    BY <1>0, <2>0 DEF IInv, Handling, Counted, NoStall, CheckCanWrite
  <2> QED BY <2>1, <2>2, <2>3 DEF IInv
<1>d. CASE ~ (type = "halfclose_read" \/ close)
  <2>0. UNCHANGED <<here, close, wlist, freed>> /\ poll' = "idle"
    BY <1>d DEF ClearClosed
  <2>1. Typed' /\ LockHeld'
    BY <1>0, <2>0 DEF IInv, Typed, LockHeld
  <2>2. Handling' /\ Counted'
    BY <1>0, <2>0 DEF IInv, Handling, Counted
  <2>3. NoStall'
    BY <1>0, <2>0 DEF IInv, Handling, NoStall, CheckCanWrite, Writable
  <2> QED BY <2>1, <2>2, <2>3 DEF IInv
<1> QED BY <1>c, <1>d

LEMMA StoreInvalidStep ==
  ASSUME IInv, StoreInvalid
  PROVE  IInv'
<1>1. Typed'
  BY DEF IInv, Typed, slot, history, StoreInvalid
<1>2. LockHeld'
  BY HolderAssumption DEF IInv, Typed, slot, history, StoreInvalid, LockHeld
<1>3. Handling'
  BY DEF IInv, Typed, slot, history, StoreInvalid, LockHeld, Handling
<1>4. Counted'
  BY DEF IInv, Typed, slot, history, StoreInvalid, Handling, Counted
<1>5. NoStall'
  BY DEF IInv, Typed, slot, history, StoreInvalid, NoStall, CheckCanWrite, Writable
<1> QED BY <1>1, <1>2, <1>3, <1>4, <1>5 DEF IInv

LEMMA PeerGoneStep ==
  ASSUME IInv, PeerGone
  PROVE  IInv'
<1>1. Typed'
  BY DEF IInv, Typed, slot, history, PeerGone
<1>2. LockHeld'
  BY HolderAssumption DEF IInv, Typed, slot, history, PeerGone, LockHeld
<1>3. Handling'
  BY DEF IInv, Typed, slot, history, PeerGone, LockHeld, Handling
<1>4. Counted'
  BY DEF IInv, Typed, slot, history, PeerGone, Handling, Counted
<1>5. NoStall'
  BY DEF IInv, Typed, slot, history, PeerGone, NoStall, CheckCanWrite, Writable
<1> QED BY <1>1, <1>2, <1>3, <1>4, <1>5 DEF IInv

LEMMA WriteDoneStep ==
  ASSUME IInv, WriteDone
  PROVE  IInv'
<1>0. /\ wlist # << >> /\ wlist \in Seq(Chunk)
      /\ writing /\ poll = "idle" /\ ~ broken /\ here
      /\ wlist_lock = Poll
      /\ UNCHANGED <<type, here, close, broken, pc, buf, offset, posted, sent,
                     handed, told, freed>>
  BY DEF IInv, Typed, LockHeld, WriteDone
<1>c. CASE Len(wlist) > 1
  <2>0. UNCHANGED <<wlist_lock, writing, poll>> /\ wlist' = Tail(wlist)
    BY <1>c DEF WriteDone
  <2>1. Len(Tail(wlist)) = Len(wlist) - 1 /\ Tail(wlist) \in Seq(Chunk)
    BY <1>0
  <2>2. wlist' # << >>
    <3>1. Len(wlist) \in Nat /\ Len(wlist') > 0
      BY <1>0, <1>c, <2>0, <2>1
    <3> QED BY <3>1
  <2>3. Typed'
    BY <1>0, <2>0, <2>1 DEF IInv, Typed
  <2>4. LockHeld' /\ Handling' /\ Counted' /\ NoStall'
    BY <1>0, <2>0, <2>2 DEF IInv, LockHeld, Handling, Counted, NoStall
  <2> QED BY <2>3, <2>4 DEF IInv
<1>d. CASE ~ Len(wlist) > 1
  <2>0. wlist' = << >> /\ wlist_lock' = Free /\ writing' = FALSE /\ poll' = "end"
    BY <1>d DEF WriteDone, EndWriting
  <2>1. Typed'
    <3>1. wlist' \in Seq(Chunk)
      BY <2>0
    <3> QED BY <1>0, <2>0, <3>1 DEF IInv, Typed
  <2>2. LockHeld'
    BY <1>0, <2>0, HolderAssumption DEF IInv, LockHeld
  <2>3. Handling' /\ Counted' /\ NoStall'
    BY <1>0, <2>0 DEF IInv, Handling, Counted, NoStall
  <2> QED BY <2>1, <2>2, <2>3 DEF IInv
<1> QED BY <1>c, <1>d

LEMMA StutterStep ==
  ASSUME IInv, UNCHANGED vars
  PROVE  IInv'
BY DEF IInv, vars, slot, Typed, LockHeld, Handling, Counted, NoStall, CheckCanWrite,
       Writable

-----------------------------------------------------------------------------
THEOREM WritingInvariant == Spec => []IInv
<1>1. Init => IInv
  BY InitIInv
<1>2. IInv /\ [Next]_vars => IInv'
  <2> SUFFICES ASSUME IInv, [Next]_vars
               PROVE  IInv'
    OBVIOUS
  <2>1. ASSUME NEW w \in Worker, SocketSend(w) \/ CloseSocket(w) \/ WorkerStep(w)
        PROVE  IInv'
    BY <2>1, SocketSendStep, CloseSocketStep, TryLockStep, CheckListStep,
       WriteSomeStep, PostSendStep DEF WorkerStep
  <2>2. CASE PollStep
    BY <2>2, RunSendStep, StartWritingStep, ClearClosedStep, StoreInvalidStep,
       RunCloseStep DEF PollStep
  <2>3. CASE WriteStep
    BY <2>3, WriteDoneStep, WriteFailStep DEF WriteStep
  <2>4. CASE PeerGone
    BY <2>4, PeerGoneStep
  <2>5. CASE UNCHANGED vars
    BY <2>5, StutterStep
  <2> QED BY <2>1, <2>2, <2>3, <2>4, <2>5 DEF Next
<1> QED BY <1>1, <1>2, PTL DEF Spec

(* The types, and that wlist_lock is held exactly by the worker between    *)
(* trylock and the end of its guard, or by the write that is under way.    *)
THEOREM TypeCorrect == Spec => []TypeOK
<1>1. IInv => TypeOK
  BY DEF IInv, Typed, LockHeld, TypeOK, Chunk
<1> QED BY <1>1, WritingInvariant, PTL

(* Buffers that wait in wlist are never forgotten, however many services   *)
(* send on a connection and close it: a trylock only fails while a write   *)
(* is under way or while a sender's own coroutine is still to come.        *)
THEOREM NothingStalls == Spec => []NoStall
<1>1. IInv => NoStall
  BY DEF IInv
<1> QED BY <1>1, WritingInvariant, PTL

(* The slot is freed once and the service is told once, though close_socket *)
(* and the write coroutine both free it and closes may be repeated.         *)
THEOREM FreedOnce == Spec => []ClosedOnce
<1>1. IInv => ClosedOnce
  BY DEF IInv, Typed, Counted, ClosedOnce
<1> QED BY <1>1, WritingInvariant, PTL

-----------------------------------------------------------------------------
(* The order of the bytes.  A buffer that is not all written is in one     *)
(* place: with the worker that sends it, in a posted handler or in wlist;  *)
(* and that place knows how much of it has gone out, until the connection  *)
(* breaks, after which nothing goes out any more.                          *)
Byte == Buffer \X (1 .. Size)

Elements(q) == {q[k] : k \in 1 .. Len(q)}

(* Bytes 1 .. i of buffer m have gone out.                                 *)
Done(m, i) == \A k \in 1 .. Size : <<m, k>> \in Elements(stream) <=> k <= i

Owner(c) == c[1][1]

(* Buffer m had been handed when x was sent: no byte of x comes before one *)
(* of m.                                                                   *)
Follows(m, x) == m \in after[x] \ {x}

Streamed ==
  /\ stream \in Seq(Byte)
  /\ \A b \in Elements(stream) : b[1] <= sent
  /\ after \in [Buffer -> SUBSET Buffer]
  /\ \A m \in Buffer : after[m] \subseteq handed
  /\ \A m \in handed : m <= sent

Held ==
  /\ \A w \in Worker : pc[w] # "idle" =>
       buf[w] <= sent /\ buf[w] \notin handed /\ (~ broken => Done(buf[w], offset[w]))
  /\ \A w \in Worker : pc[w] \in {"try", "check", "write"} => offset[w] = 0
  /\ \A v, w \in Worker :
       pc[v] # "idle" /\ pc[w] # "idle" /\ buf[v] = buf[w] => v = w

Coming(e) ==
  e.op = "send" => /\ e.m <= sent /\ e.m \notin handed
                   /\ \A w \in Worker : pc[w] # "idle" => buf[w] # e.m
                   /\ ~ broken => Done(e.m, e.offset)

SameBuffer(e, f) == e.op = "send" /\ f.op = "send" /\ e.m = f.m

Apart(q) == \A k, l \in 1 .. Len(q) : SameBuffer(q[k], q[l]) => k = l

Posted == (\A e \in Elements(posted) : Coming(e)) /\ Apart(posted)

(* A worker that is about to write has found the list empty: what has come *)
(* into it since had not been handed when the worker's buffer was sent.    *)
Waits(c) ==
  /\ Owner(c) \in handed
  /\ Len(c) <= Size /\ c = Rest(Owner(c), Size - Len(c))
  /\ ~ broken =>
       /\ Done(Owner(c), Size - Len(c))
       /\ \A b \in Elements(stream) : ~ Follows(Owner(c), b[1])
       /\ \A w \in Worker : pc[w] = "write" => ~ Follows(Owner(c), buf[w])

Ordered(l) ==
  \A a, b \in 1 .. Len(l) : a < b => /\ Owner(l[a]) # Owner(l[b])
                                    /\ ~ Follows(Owner(l[b]), Owner(l[a]))

Waiting == (\A c \in Elements(wlist) : Waits(c)) /\ Ordered(wlist)

OrderInv ==
  IInv /\ Streamed /\ Held /\ Posted /\ Waiting /\ BytesOnce /\ InOrder

-----------------------------------------------------------------------------
(* BytesOnce and InOrder of any stream.                                    *)
OnceIn(s) ==
  \A j \in 1 .. Len(s) :
    /\ \A i \in 1 .. j - 1 : s[i] # s[j]
    /\ s[j][2] > 1 => \E i \in 1 .. j - 1 : s[i] = <<s[j][1], s[j][2] - 1>>

InOrderIn(s) ==
  \A i, j \in 1 .. Len(s) : i < j => ~ Follows(s[j][1], s[i][1])

(* What the next bytes of a buffer do to the stream.                       *)
ExtendFacts(s, c, m, i) ==
  /\ s \o c \in Seq(Byte)
  /\ \A b \in Elements(s) : b \in Elements(s \o c)
  /\ \A b \in Elements(s \o c) : b \in Elements(s) \/ b[1] = m
  /\ \A k \in 1 .. Size : <<m, k>> \in Elements(s \o c) <=> k <= i + Len(c)
  /\ OnceIn(s) => OnceIn(s \o c)
  /\ InOrderIn(s) /\ (\A b \in Elements(s) : ~ Follows(m, b[1])) => InOrderIn(s \o c)

LEMMA Extend ==
  ASSUME NEW s \in Seq(Byte), NEW c \in Seq(Byte), NEW m \in Buffer, NEW i \in Nat,
         \A k \in 1 .. Len(c) : c[k] = <<m, i + k>>,
         \A k \in 1 .. Size : <<m, k>> \in Elements(s) <=> k <= i
  PROVE  ExtendFacts(s, c, m, i)
<1> DEFINE B == Byte
           t == s \o c
<1>1. s \in Seq(B) /\ c \in Seq(B)
  OBVIOUS
<1>2. \A b \in B : b[1] \in Buffer /\ b[2] \in 1 .. Size /\ b = <<b[1], b[2]>>
  BY DEF Byte
<1> HIDE DEF B
<1>3. /\ t \in Seq(B)
      /\ Len(s) \in Nat /\ Len(c) \in Nat
      /\ Len(t) = Len(s) + Len(c)
      /\ \A k \in 1 .. Len(s) : t[k] = s[k] /\ s[k] \in B
      /\ \A k \in 1 .. Len(c) : t[Len(s) + k] = c[k] /\ c[k] \in B
  BY <1>1
<1> HIDE DEF t
<1>4. \A j \in 1 .. Len(t) :
        \/ j \in 1 .. Len(s) /\ t[j] = s[j] /\ s[j] \in Elements(s)
        \/ /\ j - Len(s) \in 1 .. Len(c)
           /\ t[j] = <<m, i + (j - Len(s))>>
           /\ i + (j - Len(s)) \in 1 .. Size
  <2> SUFFICES ASSUME NEW j \in 1 .. Len(t)
               PROVE  \/ j \in 1 .. Len(s) /\ t[j] = s[j] /\ s[j] \in Elements(s)
                      \/ /\ j - Len(s) \in 1 .. Len(c)
                         /\ t[j] = <<m, i + (j - Len(s))>>
                         /\ i + (j - Len(s)) \in 1 .. Size
    OBVIOUS
  <2>1. CASE j <= Len(s)
    BY <1>3, <2>1 DEF Elements
  <2>2. CASE j > Len(s)
    <3> DEFINE k == j - Len(s)
    <3>1. k \in 1 .. Len(c) /\ j = Len(s) + k
      BY <1>3, <2>2
    <3> HIDE DEF k
    <3>2. t[j] = c[k] /\ c[k] \in B /\ c[k] = <<m, i + k>>
      BY <1>3, <3>1
    <3>3. c[k][2] = i + k
      BY <3>2
    <3> QED BY <1>2, <3>1, <3>2, <3>3 DEF k
  <2> QED BY <1>3, <2>1, <2>2
<1>5. \A b \in Elements(s) : b \in Elements(t)
  <2>1. \A k \in 1 .. Len(s) : k \in 1 .. Len(t)
    BY <1>3
  <2> QED BY <1>3, <2>1 DEF Elements
<1>6. \A b \in Elements(t) : b \in Elements(s) \/ b[1] = m
  BY <1>4 DEF Elements
<1>7. ASSUME NEW k \in 1 .. Size
      PROVE  <<m, k>> \in Elements(t) <=> k <= i + Len(c)
  <2>1. CASE k <= i
    BY <1>3, <1>5, <2>1
  <2>2. CASE k > i /\ k <= i + Len(c)
    <3>1. k - i \in 1 .. Len(c) /\ Len(s) + (k - i) \in 1 .. Len(t)
      BY <1>3, <2>2
    <3>2. t[Len(s) + (k - i)] = <<m, i + (k - i)>>
      BY <1>3, <3>1
    <3>3. i + (k - i) = k
      OBVIOUS
    <3> QED BY <2>2, <3>1, <3>2, <3>3 DEF Elements
  <2>3. CASE k > i + Len(c)
    <3>1. ~ k <= i /\ ~ k <= i + Len(c)
      BY <1>3, <2>3
    <3>2. <<m, k>> \notin Elements(s)
      BY <3>1
    <3>3. ASSUME NEW j \in 1 .. Len(t), t[j] = <<m, k>> PROVE FALSE
      <4>1. PICK l \in 1 .. Len(c) : t[j] = <<m, i + l>>
        BY <1>4, <3>2, <3>3
      <4>2. i + l = k
        BY <3>3, <4>1
      <4> QED BY <1>3, <3>1, <4>2
    <3>4. <<m, k>> \notin Elements(t)
      BY <3>3 DEF Elements
    <3> QED BY <3>1, <3>4
  <2> QED BY <1>3, <2>1, <2>2, <2>3
<1>8. ASSUME OnceIn(s) PROVE OnceIn(t)
  <2> SUFFICES ASSUME NEW j \in 1 .. Len(t)
               PROVE  /\ \A h \in 1 .. j - 1 : t[h] # t[j]
                      /\ t[j][2] > 1 =>
                           \E h \in 1 .. j - 1 : t[h] = <<t[j][1], t[j][2] - 1>>
    BY DEF OnceIn
  <2>1. CASE j \in 1 .. Len(s)
    <3>1. \A h \in 1 .. j - 1 : h \in 1 .. Len(s) /\ t[h] = s[h]
      BY <1>3, <2>1
    <3>2. t[j] = s[j]
      BY <1>3, <2>1
    <3> QED BY <1>8, <2>1, <3>1, <3>2 DEF OnceIn
  <2>2. CASE j \notin 1 .. Len(s)
    <3> DEFINE k == i + (j - Len(s))
    <3>1. j - Len(s) \in 1 .. Len(c) /\ t[j] = <<m, k>> /\ k \in 1 .. Size /\ k > i
      BY <1>3, <1>4, <2>2
    <3>2. \A h \in 1 .. j - 1 : t[h] # t[j]
      <4> SUFFICES ASSUME NEW h \in 1 .. j - 1, t[h] = t[j] PROVE FALSE
        OBVIOUS
      <4>1. h \in 1 .. Len(t)
        BY <1>3
      <4>2. CASE t[h] \in Elements(s)
        BY <3>1, <4>2
      <4>3. CASE t[h] = <<m, i + (h - Len(s))>>
        <5>1. <<m, i + (h - Len(s))>>[2] = i + (h - Len(s)) /\ <<m, k>>[2] = k
          OBVIOUS
        <5> QED BY <1>3, <3>1, <4>3, <5>1
      <4> QED BY <1>4, <4>1, <4>2, <4>3
    <3>3. ASSUME k > 1 PROVE \E h \in 1 .. j - 1 : t[h] = <<m, k - 1>>
      <4>1. CASE j - Len(s) = 1
        <5>1. k - 1 = i /\ i \in 1 .. Size
          <6>1. k = i + 1
            BY <4>1
          <6>2. k \in 1 .. Size
            BY <3>1
          <6>3. i >= 1 /\ k - 1 = i
            BY <3>3, <6>1
          <6> HIDE DEF k
          <6>4. i <= Size
            BY <6>1, <6>2, SizeAssumption
          <6> QED BY <6>3, <6>4, SizeAssumption
        <5>2. PICK h \in 1 .. Len(s) : s[h] = <<m, k - 1>>
          <6>1. <<m, k - 1>> \in Elements(s)
            BY <5>1
          <6> QED BY <6>1 DEF Elements
        <5>3. h \in 1 .. j - 1 /\ t[h] = s[h]
          BY <1>3, <2>2, <5>2
        <5> QED BY <5>2, <5>3
      <4>2. CASE j - Len(s) # 1
        <5>1. j - 1 \in 1 .. Len(t) /\ j - 1 \notin 1 .. Len(s)
          BY <1>3, <3>1, <4>2
        <5>2. t[j - 1] = <<m, i + ((j - 1) - Len(s))>>
          BY <1>4, <5>1
        <5>3. i + ((j - 1) - Len(s)) = k - 1 /\ j - 1 \in 1 .. j - 1
          BY <1>3, <5>1
        <5> QED BY <5>2, <5>3
      <4> QED BY <4>1, <4>2
    <3>4. t[j][1] = m /\ t[j][2] = k
      BY <3>1
    <3> HIDE DEF k
    <3> QED BY <3>2, <3>3, <3>4
  <2> QED BY <2>1, <2>2
<1>9. ASSUME InOrderIn(s), \A b \in Elements(s) : ~ Follows(m, b[1])
      PROVE  InOrderIn(t)
  <2> SUFFICES ASSUME NEW g \in 1 .. Len(t), NEW h \in 1 .. Len(t), g < h
               PROVE  ~ Follows(t[h][1], t[g][1])
    BY DEF InOrderIn
  <2>1. CASE h \in 1 .. Len(s)
    <3>1. g \in 1 .. Len(s) /\ t[g] = s[g] /\ t[h] = s[h]
      BY <1>3, <2>1
    <3> QED BY <1>9, <2>1, <3>1 DEF InOrderIn
  <2>2. CASE h \notin 1 .. Len(s)
    <3>1. t[h][1] = m
      BY <1>4, <2>2
    <3>2. CASE t[g] \in Elements(s)
      BY <1>9, <3>1, <3>2
    <3>3. CASE t[g][1] = m
      BY <3>1, <3>3 DEF Follows
    <3>4. t[g] \in Elements(t)
      BY DEF Elements
    <3> QED BY <1>6, <3>2, <3>3, <3>4
  <2> QED BY <2>1, <2>2
<1> QED BY <1>3, <1>5, <1>6, <1>7, <1>8, <1>9 DEF ExtendFacts, t, B

-----------------------------------------------------------------------------
LEMMA AppendElements ==
  ASSUME NEW S, NEW l \in Seq(S), NEW e \in S
  PROVE  /\ Elements(Append(l, e)) = Elements(l) \cup {e}
         /\ \A k \in 1 .. Len(Append(l, e)) :
              \/ k \in 1 .. Len(l) /\ Append(l, e)[k] = l[k] /\ l[k] \in Elements(l)
              \/ k = Len(l) + 1 /\ Append(l, e)[k] = e
<1>1. /\ Len(l) \in Nat
      /\ Len(Append(l, e)) = Len(l) + 1
      /\ \A k \in 1 .. Len(l) : Append(l, e)[k] = l[k]
      /\ Append(l, e)[Len(l) + 1] = e
  OBVIOUS
<1>2. \A k \in 1 .. Len(Append(l, e)) :
        \/ k \in 1 .. Len(l) /\ Append(l, e)[k] = l[k] /\ l[k] \in Elements(l)
        \/ k = Len(l) + 1 /\ Append(l, e)[k] = e
  BY <1>1 DEF Elements
<1>3. Len(l) + 1 \in 1 .. Len(Append(l, e))
      /\ \A k \in 1 .. Len(l) : k \in 1 .. Len(Append(l, e))
  BY <1>1
<1>4. Elements(Append(l, e)) = Elements(l) \cup {e}
  BY <1>1, <1>2, <1>3 DEF Elements
<1> QED BY <1>2, <1>4

LEMMA TailElements ==
  ASSUME NEW S, NEW l \in Seq(S), l # << >>
  PROVE  /\ Head(l) \in Elements(l) /\ Head(l) = l[1] /\ 1 \in 1 .. Len(l)
         /\ Elements(Tail(l)) \subseteq Elements(l)
         /\ Len(Tail(l)) = Len(l) - 1
         /\ \A k \in 1 .. Len(Tail(l)) : k + 1 \in 1 .. Len(l) /\ Tail(l)[k] = l[k + 1]
<1>1. /\ Len(l) \in Nat \ {0}
      /\ Head(l) = l[1]
      /\ Len(Tail(l)) = Len(l) - 1
      /\ \A k \in 1 .. Len(l) - 1 : Tail(l)[k] = l[k + 1]
  OBVIOUS
<1>2. 1 \in 1 .. Len(l)
  BY <1>1
<1>3. \A k \in 1 .. Len(Tail(l)) : k + 1 \in 1 .. Len(l) /\ Tail(l)[k] = l[k + 1]
  BY <1>1
<1> QED BY <1>1, <1>2, <1>3 DEF Elements

LEMMA AppendApart ==
  ASSUME NEW q \in Seq(Handler), NEW x \in Handler, Apart(q),
         \A e \in Elements(q) : ~ SameBuffer(e, x)
  PROVE  Apart(Append(q, x))
<1> DEFINE H == Handler
           t == Append(q, x)
<1>1. q \in Seq(H) /\ x \in H
  OBVIOUS
<1> HIDE DEF H
<1>2. \A k \in 1 .. Len(t) :
        \/ k \in 1 .. Len(q) /\ t[k] = q[k] /\ q[k] \in Elements(q)
        \/ k = Len(q) + 1 /\ t[k] = x
  BY <1>1, AppendElements
<1> HIDE DEF t
<1>3. ASSUME NEW k \in 1 .. Len(t), NEW l \in 1 .. Len(t), SameBuffer(t[k], t[l])
      PROVE  k = l
  <2>1. SameBuffer(t[l], t[k])
    BY <1>3 DEF SameBuffer
  <2>2. CASE k \in 1 .. Len(q) /\ t[k] = q[k] /\ q[k] \in Elements(q)
    <3>1. ~ t[l] = x
      BY <1>3, <2>2
    <3>2. l \in 1 .. Len(q) /\ t[l] = q[l]
      BY <1>2, <3>1
    <3> QED BY <1>3, <2>2, <3>2 DEF Apart
  <2>3. CASE k = Len(q) + 1 /\ t[k] = x
    <3>1. ~ t[l] \in Elements(q)
      BY <2>1, <2>3
    <3>2. l = Len(q) + 1
      BY <1>2, <3>1
    <3> QED BY <2>3, <3>2
  <2> QED BY <1>2, <2>2, <2>3
<1> QED BY <1>3 DEF Apart, t

LEMMA TailApart ==
  ASSUME NEW q \in Seq(Handler), q # << >>, Apart(q)
  PROVE  /\ Apart(Tail(q))
         /\ \A e \in Elements(Tail(q)) : ~ SameBuffer(Head(q), e)
<1> DEFINE H == Handler
           t == Tail(q)
<1>1. q \in Seq(H)
  OBVIOUS
<1> HIDE DEF H
<1>2. /\ Head(q) = q[1] /\ 1 \in 1 .. Len(q)
      /\ \A k \in 1 .. Len(t) : k + 1 \in 1 .. Len(q) /\ t[k] = q[k + 1]
  BY <1>1, TailElements
<1> HIDE DEF t
<1>3. ASSUME NEW k \in 1 .. Len(t), NEW l \in 1 .. Len(t), SameBuffer(t[k], t[l])
      PROVE  k = l
  <2>1. k + 1 = l + 1
    BY <1>2, <1>3 DEF Apart
  <2> QED BY <2>1
<1>4. ASSUME NEW k \in 1 .. Len(t), SameBuffer(Head(q), t[k])
      PROVE  FALSE
  <2>1. 1 = k + 1
    BY <1>2, <1>4 DEF Apart
  <2> QED BY <2>1
<1>5. Apart(t)
  BY <1>3 DEF Apart
<1>6. \A e \in Elements(t) : ~ SameBuffer(Head(q), e)
  BY <1>4 DEF Elements
<1> QED BY <1>5, <1>6 DEF t

LEMMA AppendOrdered ==
  ASSUME NEW l \in Seq(Chunk), NEW d \in Chunk, Ordered(l),
         \A c \in Elements(l) : Owner(c) # Owner(d) /\ ~ Follows(Owner(d), Owner(c))
  PROVE  Ordered(Append(l, d))
<1> DEFINE C == Chunk
           t == Append(l, d)
<1>1. l \in Seq(C) /\ d \in C
  OBVIOUS
<1> HIDE DEF C
<1>2. /\ \A k \in 1 .. Len(t) :
           \/ k \in 1 .. Len(l) /\ t[k] = l[k] /\ l[k] \in Elements(l)
           \/ k = Len(l) + 1 /\ t[k] = d
      /\ Len(t) = Len(l) + 1 /\ Len(l) \in Nat
  BY <1>1, AppendElements
<1> HIDE DEF t
<1>3. ASSUME NEW a \in 1 .. Len(t), NEW b \in 1 .. Len(t), a < b
      PROVE  Owner(t[a]) # Owner(t[b]) /\ ~ Follows(Owner(t[b]), Owner(t[a]))
  <2>1. a \in 1 .. Len(l) /\ t[a] = l[a] /\ l[a] \in Elements(l)
    BY <1>2, <1>3
  <2>2. CASE b \in 1 .. Len(l) /\ t[b] = l[b]
    BY <1>3, <2>1, <2>2 DEF Ordered
  <2>3. CASE t[b] = d
    BY <2>1, <2>3
  <2> QED BY <1>2, <2>2, <2>3
<1> QED BY <1>3 DEF Ordered, t

LEMMA TailOrdered ==
  ASSUME NEW l \in Seq(Chunk), l # << >>, Ordered(l)
  PROVE  /\ Ordered(Tail(l))
         /\ \A c \in Elements(Tail(l)) :
              Owner(Head(l)) # Owner(c) /\ ~ Follows(Owner(c), Owner(Head(l)))
<1> DEFINE C == Chunk
           t == Tail(l)
<1>1. l \in Seq(C)
  OBVIOUS
<1> HIDE DEF C
<1>2. /\ Head(l) = l[1] /\ 1 \in 1 .. Len(l)
      /\ \A k \in 1 .. Len(t) : k + 1 \in 1 .. Len(l) /\ t[k] = l[k + 1]
  BY <1>1, TailElements
<1> HIDE DEF t
<1>3. ASSUME NEW a \in 1 .. Len(t), NEW b \in 1 .. Len(t), a < b
      PROVE  Owner(t[a]) # Owner(t[b]) /\ ~ Follows(Owner(t[b]), Owner(t[a]))
  <2>1. a + 1 < b + 1
    BY <1>3
  <2> QED BY <1>2, <2>1 DEF Ordered
<1>4. ASSUME NEW k \in 1 .. Len(t)
      PROVE  Owner(Head(l)) # Owner(t[k]) /\ ~ Follows(Owner(t[k]), Owner(Head(l)))
  <2>1. 1 < k + 1
    OBVIOUS
  <2> QED BY <1>2, <2>1 DEF Ordered
<1>5. Ordered(t)
  BY <1>3 DEF Ordered
<1> QED BY <1>4, <1>5 DEF Elements, t

-----------------------------------------------------------------------------
LEMMA RestFacts ==
  ASSUME NEW m \in Buffer, NEW i \in 0 .. Size
  PROVE  /\ Rest(m, i) \in Seq(Byte)
         /\ Len(Rest(m, i)) = Size - i
         /\ \A k \in 1 .. Size - i : Rest(m, i)[k] = <<m, i + k>>
         /\ i < Size => Owner(Rest(m, i)) = m
<1>1. Size - i \in Nat
  BY SizeAssumption
<1>2. \A k \in 1 .. Size - i : <<m, i + k>> \in Byte
  BY SizeAssumption DEF Byte
<1>3. Rest(m, i) \in [1 .. Size - i -> Byte]
  BY <1>2 DEF Rest
<1>4. Rest(m, i) \in Seq(Byte) /\ Len(Rest(m, i)) = Size - i
  BY <1>1, <1>3
<1>5. \A k \in 1 .. Size - i : Rest(m, i)[k] = <<m, i + k>>
  BY DEF Rest
<1>6. ASSUME i < Size PROVE Owner(Rest(m, i)) = m
  <2>1. 1 \in 1 .. Size - i
    BY <1>6, SizeAssumption
  <2>2. Rest(m, i)[1] = <<m, i + 1>>
    BY <1>5, <2>1
  <2> QED BY <2>2 DEF Owner
<1> QED BY <1>4, <1>5, <1>6

(* An initial part of a sequence of bytes.                                 *)
LEMMA InitialPart ==
  ASSUME NEW c \in Seq(Byte), NEW n \in 0 .. Len(c)
  PROVE  /\ SubSeq(c, 1, n) \in Seq(Byte)
         /\ Len(SubSeq(c, 1, n)) = n
         /\ \A k \in 1 .. n : SubSeq(c, 1, n)[k] = c[k]
<1> DEFINE B == Byte
<1>1. c \in Seq(B)
  OBVIOUS
<1> HIDE DEF B
<1>2. /\ SubSeq(c, 1, n) \in Seq(B)
      /\ Len(SubSeq(c, 1, n)) = n
      /\ \A k \in 1 .. n : SubSeq(c, 1, n)[k] = c[k]
  BY <1>1
<1> QED BY <1>2 DEF B

(* What an element of wlist is: the rest of a buffer.                      *)
LEMMA WaitsFacts ==
  ASSUME Typed, NEW c \in Elements(wlist), Waits(c)
  PROVE  /\ c \in Seq(Byte) /\ Len(c) \in 1 .. Size
         /\ Owner(c) \in Buffer
         /\ \A k \in 1 .. Len(c) : c[k] = <<Owner(c), (Size - Len(c)) + k>>
<1>1. c \in Chunk
  BY DEF Typed, Elements
<1>2. c \in Seq(Byte) /\ c # << >>
  BY <1>1 DEF Chunk, Byte
<1> DEFINE B == Byte
           i == Size - Len(c)
<1>3. Len(c) \in Nat \ {0}
  <2>1. c \in Seq(B)
    BY <1>2
  <2> HIDE DEF B
  <2> QED BY <1>2, <2>1
<1>4. Len(c) <= Size /\ c = Rest(Owner(c), i)
  BY DEF Waits
<1>5. i \in 0 .. Size /\ Size - i = Len(c)
  BY <1>3, <1>4, SizeAssumption
<1>6. Owner(c) \in Buffer
  BY DEF Waits, Typed
<1> HIDE DEF i
<1>7. \A k \in 1 .. Size - i : Rest(Owner(c), i)[k] = <<Owner(c), i + k>>
  BY <1>5, <1>6, RestFacts
<1>8. \A k \in 1 .. Len(c) : c[k] = <<Owner(c), i + k>>
  BY <1>4, <1>5, <1>7
<1>9. Len(c) \in 1 .. Size
  BY <1>3, <1>4, SizeAssumption
<1> QED BY <1>2, <1>6, <1>8, <1>9 DEF i

-----------------------------------------------------------------------------
(* What a step that sends the next bytes of buffer m does to the invariant.*)
SentOn(m, i) ==
  /\ Streamed' /\ BytesOnce' /\ InOrder'
  /\ \A b \in Elements(stream') : b \in Elements(stream) \/ b[1] = m
  /\ \A k \in 1 .. Size : <<m, k>> \in Elements(stream') <=> k <= i
  /\ \A x \in Buffer \ {m} : \A k \in 1 .. Size :
       <<x, k>> \in Elements(stream') <=> <<x, k>> \in Elements(stream)

LEMMA StreamStep ==
  ASSUME OrderInv, NEW m \in Buffer, NEW i \in Nat, NEW c \in Seq(Byte),
         \A k \in 1 .. Len(c) : c[k] = <<m, i + k>>,
         Done(m, i), m <= sent,
         \A b \in Elements(stream) : ~ Follows(m, b[1]),
         stream' = stream \o c,
         UNCHANGED <<after, handed, sent>>
  PROVE  SentOn(m, i + Len(c))
<1>1. stream \in Seq(Byte)
  BY DEF OrderInv, Streamed
<1>2. \A k \in 1 .. Size : <<m, k>> \in Elements(stream) <=> k <= i
  BY DEF Done
<1>3. ExtendFacts(stream, c, m, i)
  BY <1>1, <1>2, Extend
<1>4. /\ stream' \in Seq(Byte)
      /\ \A b \in Elements(stream) : b \in Elements(stream')
      /\ \A b \in Elements(stream') : b \in Elements(stream) \/ b[1] = m
      /\ \A k \in 1 .. Size : <<m, k>> \in Elements(stream') <=> k <= i + Len(c)
      /\ OnceIn(stream')
      /\ InOrderIn(stream')
  <2>1. OnceIn(stream) /\ InOrderIn(stream)
    BY DEF OrderInv, BytesOnce, OnceIn, InOrder, InOrderIn, Follows
  <2> QED BY <1>3, <2>1 DEF ExtendFacts
<1>5. BytesOnce'
  BY <1>4 DEF OnceIn, BytesOnce
<1>6. InOrder'
  BY <1>4 DEF InOrderIn, InOrder, Follows
<1>7. Streamed'
  <2>1. \A b \in Elements(stream') : b[1] <= sent
    BY <1>4 DEF OrderInv, Streamed
  <2>2. Elements(stream)' = Elements(stream')
    BY DEF Elements
  <2> QED BY <1>4, <2>1, <2>2 DEF OrderInv, Streamed
<1>8. ASSUME NEW x \in Buffer \ {m}, NEW k \in 1 .. Size
      PROVE  <<x, k>> \in Elements(stream') <=> <<x, k>> \in Elements(stream)
  <2>1. <<x, k>>[1] # m
    OBVIOUS
  <2> QED BY <1>4, <2>1
<1> QED BY <1>4, <1>5, <1>6, <1>7, <1>8 DEF SentOn

-----------------------------------------------------------------------------
LEMMA InitOrder == Init => OrderInv
<1> SUFFICES ASSUME Init PROVE OrderInv
  OBVIOUS
<1>1. IInv
  BY InitIInv
<1>2. stream = << >> /\ posted = << >> /\ wlist = << >> /\ handed = {}
      /\ after = [m \in Buffer |-> {}]
      /\ \A w \in Worker : pc[w] = "idle"
  BY DEF Init
<1>3. Elements(<< >>) = {} /\ << >> \in Seq(Byte)
  BY DEF Elements
<1>4. Streamed
  BY <1>2, <1>3 DEF Streamed
<1>5. Held
  BY <1>2 DEF Held
<1>6. Posted
  BY <1>2, <1>3 DEF Posted, Apart
<1>7. Waiting
  BY <1>2, <1>3 DEF Waiting, Ordered
<1>8. BytesOnce /\ InOrder
  BY <1>2 DEF BytesOnce, InOrder
<1> QED BY <1>1, <1>4, <1>5, <1>6, <1>7, <1>8 DEF OrderInv

LEMMA StreamSame ==
  ASSUME UNCHANGED <<stream, after, handed, sent>>
  PROVE  /\ Streamed => Streamed'
         /\ BytesOnce => BytesOnce'
         /\ InOrder => InOrder'
<1>1. Streamed => Streamed'
  BY DEF Streamed, Elements
<1>2. BytesOnce => BytesOnce'
  BY DEF BytesOnce
<1>3. InOrder => InOrder'
  BY DEF InOrder
<1> QED BY <1>1, <1>2, <1>3

(* The steps that send nothing, hand nothing over and queue nothing.       *)
LEMMA CalmStep ==
  ASSUME OrderInv, IInv',
         UNCHANGED <<stream, after, handed, sent, buf, offset>>,
         broken => broken',
         wlist' = wlist \/ wlist' = << >>,
         \A w \in Worker : pc'[w] # "idle" => pc[w] # "idle",
         \A w \in Worker : pc'[w] \in {"try", "check", "write"} =>
                            pc[w] \in {"try", "check", "write"},
         \A w \in Worker : pc'[w] = "write" => pc[w] = "write" \/ wlist' = << >>,
         \A e \in Elements(posted') : e \in Elements(posted) \/ e.op # "send",
         Apart(posted')
  PROVE  OrderInv'
<1>1. Streamed' /\ BytesOnce' /\ InOrder'
  BY StreamSame DEF OrderInv
<1>d. \A m, i : Done(m, i) => Done(m, i)'
  BY DEF Done, Elements
<1>2. Held'
  <2>1. ASSUME NEW w \in Worker, pc'[w] # "idle"
        PROVE  buf[w] <= sent /\ buf[w] \notin handed
               /\ (~ broken' => Done(buf[w], offset[w])')
    <3>1. buf[w] <= sent /\ buf[w] \notin handed /\ (~ broken => Done(buf[w], offset[w]))
      BY <2>1 DEF OrderInv, Held
    <3> QED BY <1>d, <3>1
  <2> QED BY <2>1 DEF OrderInv, Held
<1>3. Posted'
  <2>1. ASSUME NEW e \in Elements(posted') PROVE Coming(e)'
    <3>1. CASE e.op # "send"
      BY <3>1 DEF Coming
    <3>2. CASE e \in Elements(posted)
      <4>1. Coming(e)
        BY <3>2 DEF OrderInv, Posted
      <4> QED BY <1>d, <4>1 DEF Coming
    <3> QED BY <3>1, <3>2
  <2>2. Elements(posted)' = Elements(posted') /\ (Apart(posted)' <=> Apart(posted'))
    BY DEF Elements, Apart
  <2> QED BY <2>1, <2>2 DEF Posted
<1>4. Waiting'
  <2>1. CASE wlist' = << >>
    BY <2>1 DEF Waiting, Ordered, Elements
  <2>2. CASE wlist' = wlist /\ wlist' # << >>
    <3>1. ASSUME NEW c \in Elements(wlist) PROVE Waits(c)'
      <4>1. Waits(c)
        BY DEF OrderInv, Waiting
      <4>2. Elements(stream)' = Elements(stream)
        BY DEF Elements
      <4>3. \A x : Follows(Owner(c), x)' <=> Follows(Owner(c), x)
        BY DEF Follows, Owner
      <4>4. ~ broken' => /\ Done(Owner(c), Size - Len(c))'
                         /\ \A b \in Elements(stream) : ~ Follows(Owner(c), b[1])
                         /\ \A w \in Worker : pc[w] = "write" => ~ Follows(Owner(c), buf[w])
        BY <1>d, <4>1 DEF Waits
      <4>5. ~ broken' => \A w \in Worker : pc'[w] = "write" => ~ Follows(Owner(c), buf'[w])
        BY <2>2, <4>4
      <4>6. ~ broken' => \A w \in Worker : pc'[w] = "write" => ~ Follows(Owner(c), buf[w])'
        BY <4>3, <4>5 DEF Follows
      <4>7. \A b \in Elements(stream)' :
              ~ Follows(Owner(c), b[1]) => ~ Follows(Owner(c), b[1])'
        BY <4>3
      <4> QED BY <4>1, <4>2, <4>4, <4>6, <4>7 DEF Waits
    <3>2. Ordered(wlist)'
      BY <2>2 DEF OrderInv, Waiting, Ordered, Follows
    <3> QED BY <2>2, <3>1, <3>2 DEF Waiting, Elements
  <2> QED BY <2>1, <2>2
<1> QED BY <1>1, <1>2, <1>3, <1>4 DEF OrderInv

LEMMA TryLockOrder ==
  ASSUME OrderInv, NEW w \in Worker, TryLock(w)
  PROVE  OrderInv'
<1>1. IInv'
  BY TryLockStep DEF OrderInv
<1>2. /\ UNCHANGED <<stream, after, handed, sent, buf, offset, broken, wlist, posted>>
      /\ Apart(posted)
      /\ pc[w] = "try"
      /\ \E p \in {"check", "post"} : pc' = [pc EXCEPT ![w] = p]
  BY DEF OrderInv, Posted, TryLock, history
<1>3. \A v \in Worker : pc'[v] = pc[v] \/ (v = w /\ pc'[v] \in {"check", "post"})
  BY <1>2 DEF OrderInv, IInv, Typed
<1> QED BY <1>1, <1>2, <1>3, CalmStep

LEMMA CheckListOrder ==
  ASSUME OrderInv, NEW w \in Worker, CheckList(w)
  PROVE  OrderInv'
<1>1. IInv'
  BY CheckListStep DEF OrderInv
<1>2. /\ UNCHANGED <<stream, after, handed, sent, buf, offset, broken, wlist, posted>>
      /\ Apart(posted)
      /\ pc[w] = "check"
      /\ \/ pc' = [pc EXCEPT ![w] = "write"] /\ wlist = << >>
         \/ pc' = [pc EXCEPT ![w] = "post"]
  BY DEF OrderInv, Posted, CheckList, history
<1>3. \A v \in Worker : \/ pc'[v] = pc[v]
                        \/ v = w /\ pc'[v] = "post"
                        \/ v = w /\ pc'[v] = "write" /\ wlist' = << >>
  BY <1>2 DEF OrderInv, IInv, Typed
<1> QED BY <1>1, <1>2, <1>3, CalmStep

LEMMA CloseSocketOrder ==
  ASSUME OrderInv, NEW w \in Worker, CloseSocket(w)
  PROVE  OrderInv'
<1> DEFINE x == [op |-> "close"]
           H == Handler
<1>1. IInv'
  BY CloseSocketStep DEF OrderInv
<1>2. /\ UNCHANGED <<stream, after, handed, sent, buf, offset, broken, wlist, pc>>
      /\ posted' = Append(posted, x)
  BY DEF CloseSocket, slot
<1>3. posted \in Seq(H) /\ x \in H /\ Apart(posted) /\ x.op # "send"
  BY DEF OrderInv, IInv, Typed, Posted, Handler, CloseHandler
<1>4. \A e \in Elements(posted) : ~ SameBuffer(e, x)
  BY <1>3 DEF SameBuffer
<1> HIDE DEF x
<1>5. Apart(posted')
  BY <1>2, <1>3, <1>4, AppendApart
<1> HIDE DEF H
<1>6. \A e \in Elements(posted') : e \in Elements(posted) \/ e.op # "send"
  BY <1>2, <1>3, AppendElements
<1> QED BY <1>1, <1>2, <1>5, <1>6, CalmStep

LEMMA RunCloseOrder ==
  ASSUME OrderInv, RunClose
  PROVE  OrderInv'
<1> DEFINE H == Handler
<1>1. IInv'
  BY RunCloseStep DEF OrderInv
<1>2. /\ UNCHANGED <<stream, after, handed, sent, buf, offset, broken, pc>>
      /\ posted # << >> /\ posted' = Tail(posted)
  BY DEF RunClose, NextHandler
<1>3. wlist' = wlist
  BY DEF RunClose
<1>4. posted \in Seq(H) /\ Apart(posted)
  BY DEF OrderInv, IInv, Typed, Posted
<1>5. Apart(posted')
  BY <1>2, <1>4, TailApart
<1> HIDE DEF H
<1>6. \A e \in Elements(posted') : e \in Elements(posted)
  BY <1>2, <1>4, TailElements
<1> QED BY <1>1, <1>2, <1>3, <1>5, <1>6, CalmStep

LEMMA PollOrder ==
  ASSUME OrderInv, StartWriting \/ ClearClosed \/ StoreInvalid
  PROVE  OrderInv'
<1>1. IInv'
  BY StartWritingStep, ClearClosedStep, StoreInvalidStep DEF OrderInv
<1>2. /\ UNCHANGED <<stream, after, handed, sent, buf, offset, broken, pc, posted>>
      /\ Apart(posted)
  BY DEF OrderInv, Posted, StartWriting, ClearClosed, StoreInvalid, history
<1>3. wlist' = wlist \/ wlist' = << >>
  BY DEF StartWriting, EndWriting, ClearClosed, StoreInvalid
<1> QED BY <1>1, <1>2, <1>3, CalmStep

LEMMA PeerGoneOrder ==
  ASSUME OrderInv, PeerGone \/ UNCHANGED vars
  PROVE  OrderInv'
<1>1. IInv'
  BY PeerGoneStep, StutterStep DEF OrderInv
<1>2. /\ UNCHANGED <<stream, after, handed, sent, buf, offset, wlist, pc, posted>>
      /\ broken => broken'
      /\ Apart(posted)
  BY DEF OrderInv, Posted, PeerGone, history, vars, slot
<1> QED BY <1>1, <1>2, CalmStep

-----------------------------------------------------------------------------
(* A new buffer: nobody has it, none of its bytes is out, and it follows    *)
(* what has been handed over.                                              *)
LEMMA SocketSendOrder ==
  ASSUME OrderInv, NEW w \in Worker, SocketSend(w)
  PROVE  OrderInv'
<1>0. IInv'
  BY SocketSendStep DEF OrderInv
<1>1. PICK n : n = sent + 1
  OBVIOUS
<1>2. /\ n \in Buffer /\ sent \in Nat /\ sent' = n
      /\ n \notin handed
      /\ \A b \in Elements(stream) : b[1] \in Buffer /\ b[1] # n
      /\ after \in [Buffer -> SUBSET Buffer]
      /\ after' = [after EXCEPT ![n] = handed]
  <2>1. n \in Buffer /\ sent \in Nat /\ sent' = n
    BY <1>1, BoundAssumption DEF OrderInv, IInv, Typed, SocketSend, Buffer
  <2>2. \A m \in handed : m <= sent
    BY DEF OrderInv, Streamed
  <2>3. ~ n <= sent
    BY <1>1, <2>1
  <2>4. \A b \in Elements(stream) : b \in Byte /\ b[1] <= sent
    BY DEF OrderInv, Streamed, Elements
  <2> QED BY <1>1, <2>1, <2>2, <2>3, <2>4 DEF Byte, OrderInv, Streamed, SocketSend
<1>3. \A x \in Buffer \ {n} : after'[x] = after[x]
  BY <1>2
<1>4. after'[n] = handed
  BY <1>2
<1>5. UNCHANGED <<stream, handed, posted, wlist, broken>>
  BY DEF SocketSend, slot
<1>6. /\ pc' = [pc EXCEPT ![w] = "try"] /\ buf' = [buf EXCEPT ![w] = n]
      /\ offset' = [offset EXCEPT ![w] = 0] /\ pc[w] = "idle"
      /\ Typed
  BY <1>1 DEF SocketSend, OrderInv, IInv
<1>7. /\ pc'[w] = "try" /\ buf'[w] = n /\ offset'[w] = 0
      /\ \A v \in Worker \ {w} : pc'[v] = pc[v] /\ buf'[v] = buf[v] /\ offset'[v] = offset[v]
  BY <1>6 DEF Typed
<1>8. Elements(stream)' = Elements(stream)
  BY <1>5 DEF Elements
<1>9. \A m, i : Done(m, i) => Done(m, i)'
  BY <1>5 DEF Done, Elements
<1>a. Streamed'
  <2>1. after' \in [Buffer -> SUBSET Buffer]
    BY <1>2 DEF OrderInv, IInv, Typed
  <2>2. \A m \in Buffer : after'[m] \subseteq handed
    BY <1>3, <1>4 DEF OrderInv, Streamed
  <2>3. \A b \in Elements(stream) : b[1] <= n
    <3>1. \A b \in Elements(stream) : b[1] \in Nat /\ b[1] <= sent
      BY <1>2 DEF OrderInv, Streamed, Buffer
    <3> QED BY <1>1, <1>2, <3>1
  <2>4. \A m \in handed : m <= n
    <3>1. \A m \in handed : m \in Nat /\ m <= sent
      BY DEF OrderInv, Streamed, IInv, Typed, Buffer
    <3> QED BY <1>1, <1>2, <3>1
  <2> QED BY <1>2, <1>5, <1>8, <2>1, <2>2, <2>3, <2>4 DEF OrderInv, Streamed
<1>b. BytesOnce'
  BY <1>5 DEF OrderInv, BytesOnce
<1>c. InOrder'
  <2> SUFFICES ASSUME NEW i \in 1 .. Len(stream), NEW j \in 1 .. Len(stream), i < j
               PROVE  stream[j][1] \notin after'[stream[i][1]] \ {stream[i][1]}
    BY <1>5 DEF InOrder
  <2>1. stream[i][1] \in Buffer \ {n}
    BY <1>2 DEF Elements
  <2> QED BY <1>3, <2>1 DEF OrderInv, InOrder
<1>d. Held'
  <2>1. \A v \in Worker \ {w} : pc[v] # "idle" =>
          /\ buf[v] <= sent /\ buf[v] <= n /\ buf[v] # n
          /\ buf[v] \notin handed /\ (~ broken => Done(buf[v], offset[v]))
    <3> SUFFICES ASSUME NEW v \in Worker \ {w}, pc[v] # "idle"
                 PROVE  /\ buf[v] <= sent /\ buf[v] <= n /\ buf[v] # n
                        /\ buf[v] \notin handed /\ (~ broken => Done(buf[v], offset[v]))
      OBVIOUS
    <3>1. /\ buf[v] <= sent /\ buf[v] \in Buffer
          /\ buf[v] \notin handed /\ (~ broken => Done(buf[v], offset[v]))
      BY DEF OrderInv, IInv, Typed, Held
    <3> QED BY <1>1, <1>2, <3>1 DEF Buffer
  <2>2. Done(n, 0)'
    <3>1. \A k \in 1 .. Size : <<n, k>> \notin Elements(stream)
      <4>1. \A k : <<n, k>>[1] = n
        OBVIOUS
      <4> QED BY <1>2, <4>1
    <3> QED BY <1>8, <3>1, SizeAssumption DEF Done
  <2>3. ASSUME NEW v \in Worker, pc'[v] # "idle"
        PROVE  buf'[v] <= n /\ buf'[v] \notin handed
               /\ (~ broken => Done(buf[v], offset[v])')
    <3>1. CASE v = w
      <4>1. n <= n
        BY <1>1, <1>2
      <4> QED BY <1>2, <1>7, <2>2, <3>1, <4>1 DEF Done
    <3>2. CASE v # w
      <4>1. /\ buf[v] <= n /\ buf[v] \notin handed
            /\ ~ broken => Done(buf[v], offset[v])
            /\ buf'[v] = buf[v] /\ offset'[v] = offset[v]
        BY <1>7, <2>1, <2>3, <3>2
      <4> QED BY <1>8, <4>1 DEF Done
    <3> QED BY <3>1, <3>2
  <2>4. \A v \in Worker : pc'[v] \in {"try", "check", "write"} => offset'[v] = 0
    BY <1>7 DEF OrderInv, Held
  <2>5. \A u, v \in Worker :
          pc'[u] # "idle" /\ pc'[v] # "idle" /\ buf'[u] = buf'[v] => u = v
    BY <1>7, <2>1 DEF OrderInv, Held
  <2> QED BY <1>2, <1>5, <2>3, <2>4, <2>5 DEF Held
<1>e. Posted'
  <2>1. ASSUME NEW e \in Elements(posted), e.op = "send"
        PROVE  /\ e.m <= n /\ e.m \notin handed
               /\ \A v \in Worker : pc'[v] # "idle" => buf'[v] # e.m
               /\ ~ broken => Done(e.m, e.offset)'
    <3>1. /\ e.m <= sent /\ e.m \notin handed
          /\ \A v \in Worker : pc[v] # "idle" => buf[v] # e.m
          /\ ~ broken => Done(e.m, e.offset)
      BY <2>1 DEF OrderInv, Posted, Coming
    <3>2. e.m \in Nat
      BY <2>1 DEF OrderInv, IInv, Typed, Elements, Handler, SendHandler, CloseHandler, Buffer
    <3>3. e.m <= n /\ e.m # n
      BY <1>1, <1>2, <3>1, <3>2
    <3> QED BY <1>7, <1>9, <3>1, <3>3
  <2>2. \A e \in Elements(posted) : Coming(e)'
    BY <1>2, <1>5, <2>1 DEF Coming
  <2>3. Elements(posted)' = Elements(posted) /\ Apart(posted)'
    BY <1>5 DEF OrderInv, Posted, Elements, Apart, SameBuffer
  <2> QED BY <2>2, <2>3 DEF Posted
<1>f. Waiting'
  <2>1. \A m \in handed : \A x \in Buffer \ {n} : Follows(m, x)' <=> Follows(m, x)
    BY <1>3 DEF Follows
  <2>2. ASSUME NEW c \in Elements(wlist)
        PROVE  Waits(c)'
    <3>1. Waits(c) /\ Owner(c) \in handed /\ Owner(c)' = Owner(c)
      BY DEF OrderInv, Waiting, Waits, Owner
    <3>2. ASSUME ~ broken
          PROVE  /\ Done(Owner(c), Size - Len(c))'
                 /\ \A b \in Elements(stream) : ~ Follows(Owner(c), b[1])'
                 /\ \A v \in Worker : pc'[v] = "write" => ~ Follows(Owner(c), buf[v])'
      <4>1. Done(Owner(c), Size - Len(c))'
        BY <1>9, <3>1, <3>2 DEF Waits
      <4>2. \A b \in Elements(stream) : ~ Follows(Owner(c), b[1])'
        BY <1>2, <2>1, <3>1, <3>2 DEF Waits
      <4>3. ASSUME NEW v \in Worker, pc'[v] = "write"
            PROVE  ~ Follows(Owner(c), buf[v])'
        <5>1. v # w /\ pc[v] = "write" /\ buf'[v] = buf[v]
          BY <1>7, <4>3
        <5>2. buf[v] \in Buffer /\ buf[v] <= sent
          BY <5>1 DEF OrderInv, IInv, Typed, Held
        <5>3. buf[v] # n
          BY <1>1, <1>2, <5>2 DEF Buffer
        <5>4. ~ Follows(Owner(c), buf[v])
          BY <3>1, <3>2, <5>1 DEF Waits
        <5>5. after'[buf[v]] = after[buf[v]]
          BY <1>3, <5>2, <5>3
        <5> QED BY <5>1, <5>4, <5>5 DEF Follows
      <4> QED BY <4>1, <4>2, <4>3
    <3> QED BY <1>5, <1>8, <3>1, <3>2 DEF Waits
  <2>3. Ordered(wlist)'
    <3> SUFFICES ASSUME NEW a \in 1 .. Len(wlist), NEW b \in 1 .. Len(wlist), a < b
                 PROVE  Owner(wlist[a]) # Owner(wlist[b])
                        /\ ~ Follows(Owner(wlist[b]), Owner(wlist[a]))'
      BY <1>5 DEF Ordered, Owner, Follows
    <3>1. Owner(wlist[a]) \in handed /\ Owner(wlist[b]) \in handed
      BY DEF OrderInv, Waiting, Waits, Elements
    <3>2. Owner(wlist[a]) \in Buffer \ {n}
      BY <1>2, <3>1 DEF OrderInv, IInv, Typed
    <3>3. Owner(wlist[a]) # Owner(wlist[b]) /\ ~ Follows(Owner(wlist[b]), Owner(wlist[a]))
      BY DEF OrderInv, Waiting, Ordered
    <3>4. after'[Owner(wlist[a])] = after[Owner(wlist[a])] /\ wlist' = wlist
      BY <1>3, <1>5, <3>2
    <3> QED BY <3>3, <3>4 DEF Follows, Owner
  <2> QED BY <1>5, <2>2, <2>3 DEF Waiting, Elements
<1> QED BY <1>0, <1>a, <1>b, <1>c, <1>d, <1>e, <1>f DEF OrderInv

(* The worker's buffer, and what it knows of it, moves to a handler.       *)
LEMMA PostSendOrder ==
  ASSUME OrderInv, NEW w \in Worker, PostSend(w)
  PROVE  OrderInv'
<1> DEFINE x == [op |-> "send", m |-> buf[w], offset |-> offset[w]]
           H == Handler
<1>0. IInv'
  BY PostSendStep DEF OrderInv
<1>1. /\ pc[w] = "post" /\ pc' = [pc EXCEPT ![w] = "idle"]
      /\ posted' = Append(posted, x)
      /\ UNCHANGED <<stream, after, handed, sent, buf, offset, broken, wlist>>
  BY DEF PostSend, slot, history
<1>2. pc'[w] = "idle" /\ \A v \in Worker \ {w} : pc'[v] = pc[v]
  BY <1>1 DEF OrderInv, IInv, Typed
<1>3. Streamed' /\ BytesOnce' /\ InOrder'
  BY <1>1, StreamSame DEF OrderInv
<1>4. Elements(stream)' = Elements(stream)
  BY <1>1 DEF Elements
<1>5. \A m, i : Done(m, i) => Done(m, i)'
  BY <1>4 DEF Done
<1>6. Held'
  <2>1. ASSUME NEW v \in Worker, pc'[v] # "idle"
        PROVE  buf[v] <= sent /\ buf[v] \notin handed
               /\ (~ broken => Done(buf[v], offset[v])')
    <3>1. buf[v] <= sent /\ buf[v] \notin handed /\ (~ broken => Done(buf[v], offset[v]))
      BY <1>2, <2>1 DEF OrderInv, Held
    <3> QED BY <1>1, <1>4, <3>1 DEF Done
  <2> QED BY <1>1, <1>2, <2>1 DEF OrderInv, Held
<1>7. /\ x \in H /\ posted \in Seq(H) /\ Apart(posted)
      /\ x.op = "send" /\ x.m = buf[w] /\ x.offset = offset[w]
  BY <1>1 DEF OrderInv, IInv, Typed, Posted, Handler, SendHandler
<1>8. /\ buf[w] <= sent /\ buf[w] \notin handed /\ (~ broken => Done(buf[w], offset[w]))
      /\ \A v \in Worker \ {w} : pc[v] # "idle" => buf[v] # buf[w]
  BY <1>1 DEF OrderInv, Held
<1>9. PICK y : y = x
  OBVIOUS
<1>a. y.op = "send" /\ y.m = buf[w] /\ y.offset = offset[w]
  BY <1>7, <1>9
<1>b. \A e \in Elements(posted) : ~ SameBuffer(e, x)
  BY <1>1, <1>7 DEF OrderInv, Posted, Coming, SameBuffer
<1> HIDE DEF x
<1>c. Coming(y)'
  BY <1>1, <1>2, <1>5, <1>8, <1>a DEF Coming
<1>d. \A e \in Elements(posted) : Coming(e)'
  <2> SUFFICES ASSUME NEW e \in Elements(posted) PROVE Coming(e)'
    OBVIOUS
  <2>1. Coming(e)
    BY DEF OrderInv, Posted
  <2> QED BY <1>1, <1>2, <1>5, <2>1 DEF Coming
<1>e. Apart(posted')
  BY <1>1, <1>7, <1>b, AppendApart
<1> HIDE DEF H
<1>f. Elements(posted') = Elements(posted) \cup {x}
  BY <1>1, <1>7, AppendElements
<1>g. Posted'
  <2>1. \A e \in Elements(posted') : Coming(e)'
    BY <1>9, <1>c, <1>d, <1>f
  <2>2. Elements(posted)' = Elements(posted') /\ (Apart(posted)' <=> Apart(posted'))
    BY DEF Elements, Apart
  <2> QED BY <1>e, <2>1, <2>2 DEF Posted
<1>h. Waiting'
  <2>1. \A m, y2 : Follows(m, y2)' <=> Follows(m, y2)
    BY <1>1 DEF Follows
  <2>2. ASSUME NEW c \in Elements(wlist) PROVE Waits(c)'
    <3>1. Waits(c)
      BY DEF OrderInv, Waiting
    <3>2. \A v \in Worker : pc'[v] = "write" => pc[v] = "write"
      BY <1>2
    <3>3. \A v \in Worker : Follows(Owner(c), buf[v])' <=> Follows(Owner(c), buf[v])
      BY <1>1 DEF Follows
    <3> QED BY <1>1, <1>4, <1>5, <2>1, <3>1, <3>2, <3>3 DEF Waits, Owner
  <2>3. Ordered(wlist)'
    BY <1>1 DEF OrderInv, Waiting, Ordered, Follows, Owner
  <2> QED BY <1>1, <2>2, <2>3 DEF Waiting, Elements
<1> QED BY <1>0, <1>3, <1>6, <1>g, <1>h DEF OrderInv

(* The first part of a coroutine: the buffer is handed over, its rest goes *)
(* to the end of the list.  No buffer was sent after it has been handed.   *)
LEMMA RunSendOrder ==
  ASSUME OrderInv, RunSend
  PROVE  OrderInv'
<1> DEFINE H == Handler
<1>0. IInv'
  BY RunSendStep DEF OrderInv
<1>1. PICK m, i : m = Head(posted).m /\ i = Head(posted).offset
  OBVIOUS
<1>2. /\ posted # << >> /\ posted' = Tail(posted) /\ Head(posted).op = "send"
      /\ handed' = handed \cup {m}
      /\ wlist' = wlist \/ wlist' = Queued(m, i)
      /\ UNCHANGED <<stream, after, sent, buf, offset, broken, pc>>
  BY <1>1 DEF RunSend, NextHandler
<1>3. posted \in Seq(H) /\ Apart(posted) /\ \A e \in Elements(posted) : Coming(e)
  BY DEF OrderInv, IInv, Typed, Posted
<1>4. Apart(posted') /\ \A e \in Elements(posted') : ~ SameBuffer(Head(posted), e)
  BY <1>2, <1>3, TailApart
<1> HIDE DEF H
<1>5. Head(posted) \in Elements(posted) /\ Elements(posted') \subseteq Elements(posted)
  BY <1>2, <1>3, TailElements
<1>6. m \in Buffer /\ i \in 0 .. Size
  BY <1>1, <1>2, <1>3, <1>5 DEF H, Elements, Handler, SendHandler, CloseHandler
<1>7. /\ m <= sent /\ m \notin handed
      /\ \A w \in Worker : pc[w] # "idle" => buf[w] # m
      /\ ~ broken => Done(m, i)
  BY <1>1, <1>2, <1>3, <1>5 DEF Coming
<1>8. Elements(stream)' = Elements(stream)
  BY <1>2 DEF Elements
<1>9. \A n, k : Done(n, k) => Done(n, k)'
  BY <1>8 DEF Done
<1>a. Streamed' /\ BytesOnce' /\ InOrder'
  <2>1. Streamed'
    BY <1>2, <1>6, <1>7, <1>8 DEF OrderInv, Streamed
  <2>2. BytesOnce'
    BY <1>2 DEF OrderInv, BytesOnce
  <2>3. InOrder'
    BY <1>2 DEF OrderInv, InOrder
  <2> QED BY <2>1, <2>2, <2>3
<1>b. Held'
  <2>1. ASSUME NEW v \in Worker, pc'[v] # "idle"
        PROVE  buf[v] <= sent /\ buf[v] \notin handed'
               /\ (~ broken => Done(buf[v], offset[v])')
    <3>1. /\ buf[v] <= sent /\ buf[v] \notin handed /\ buf[v] # m
          /\ ~ broken => Done(buf[v], offset[v])
      BY <1>2, <1>7, <2>1 DEF OrderInv, Held
    <3> QED BY <1>2, <1>8, <3>1 DEF Done
  <2> QED BY <1>2, <2>1 DEF OrderInv, Held
<1>c. Posted'
  <2>1. ASSUME NEW e \in Elements(posted') PROVE Coming(e)'
    <3>1. Coming(e) /\ ~ SameBuffer(Head(posted), e)
      BY <1>3, <1>4, <1>5
    <3>2. e.op = "send" => e.m # m
      BY <1>1, <1>2, <3>1 DEF SameBuffer
    <3> QED BY <1>2, <1>9, <3>1, <3>2 DEF Coming
  <2>2. Elements(posted)' = Elements(posted') /\ (Apart(posted)' <=> Apart(posted'))
    BY DEF Elements, Apart
  <2> QED BY <1>4, <2>1, <2>2 DEF Posted
<1>d. ASSUME NEW c \in Elements(wlist) PROVE Waits(c)'
  <2>1. Waits(c)
    BY DEF OrderInv, Waiting
  <2>2. \A x : Follows(Owner(c), x)' <=> Follows(Owner(c), x)
    BY <1>2 DEF Follows, Owner
  <2>3. \A v \in Worker : Follows(Owner(c), buf[v])' <=> Follows(Owner(c), buf[v])
    BY <1>2 DEF Follows, Owner
  <2> QED BY <1>2, <1>8, <1>9, <2>1, <2>2, <2>3 DEF Waits
<1>e. CASE wlist' = wlist
  <2>1. Ordered(wlist)'
    BY <1>2, <1>e DEF OrderInv, Waiting, Ordered, Follows, Owner
  <2> QED BY <1>0, <1>a, <1>b, <1>c, <1>d, <1>e, <2>1 DEF OrderInv, Waiting, Elements
<1>f. CASE wlist' # wlist
  <2>1. i < Size /\ wlist' = Append(wlist, Rest(m, i))
    BY <1>2, <1>f DEF Queued
  <2>2. PICK d : d = Rest(m, i)
    OBVIOUS
  <2>3. d \in Chunk /\ Len(d) = Size - i /\ Owner(d) = m
    BY <1>6, <2>1, <2>2, RestFacts, RestIsChunk
  <2>4. Size - Len(d) = i /\ Len(d) <= Size
    BY <1>6, <2>3, SizeAssumption
  <2>5. \A x \in Buffer : ~ Follows(m, x)
    BY <1>7 DEF OrderInv, Streamed, Follows
  <2>6. \A x \in Buffer : ~ Follows(m, x)'
    BY <1>2, <2>5 DEF Follows
  <2>7. Waits(d)'
    <3>1. \A b \in Elements(stream) : b[1] \in Buffer
      BY DEF OrderInv, Streamed, Elements, Byte
    <3>2. \A v \in Worker : pc'[v] = "write" => ~ Follows(m, buf[v])'
      <4> SUFFICES ASSUME NEW v \in Worker, pc'[v] = "write"
                   PROVE  ~ Follows(m, buf[v])'
        OBVIOUS
      <4>1. buf[v] \in Buffer
        BY <1>2 DEF OrderInv, IInv, Typed
      <4> QED BY <1>2, <2>5, <4>1 DEF Follows
    <3>3. Owner(d)' = m /\ Owner(d) = m
      BY <2>3 DEF Owner
    <3>4. ~ broken' => Done(m, i)'
      BY <1>2, <1>7, <1>9
    <3>5. \A b \in Elements(stream)' : ~ Follows(m, b[1])'
      BY <1>8, <2>6, <3>1
    <3>6. m \in handed' /\ d = Rest(m, i)
      BY <1>2, <2>2
    <3> QED BY <2>4, <3>2, <3>3, <3>4, <3>5, <3>6 DEF Waits
  <2> DEFINE C == Chunk
  <2>8. wlist \in Seq(C) /\ d \in C /\ Ordered(wlist)
    BY <2>3 DEF OrderInv, IInv, Typed, Waiting
  <2>9. \A c \in Elements(wlist) : Owner(c) # Owner(d) /\ ~ Follows(Owner(d), Owner(c))
    <3>1. \A c \in Elements(wlist) : Owner(c) \in handed
      BY DEF OrderInv, Waiting, Waits
    <3> QED BY <1>7, <2>3, <2>5, <3>1 DEF OrderInv, IInv, Typed
  <2>10. Ordered(wlist')
    BY <2>1, <2>2, <2>8, <2>9, AppendOrdered
  <2> HIDE DEF C
  <2>11. Elements(wlist') = Elements(wlist) \cup {d}
    BY <2>1, <2>2, <2>8, AppendElements
  <2>12. Waiting'
    <3>1. Ordered(wlist)' <=> Ordered(wlist')
      BY <1>2 DEF Ordered, Follows, Owner
    <3>2. Elements(wlist)' = Elements(wlist')
      BY DEF Elements
    <3> QED BY <1>d, <2>7, <2>10, <2>11, <3>1, <3>2 DEF Waiting
  <2> QED BY <1>0, <1>a, <1>b, <1>c, <2>12 DEF OrderInv
<1> QED BY <1>e, <1>f

-----------------------------------------------------------------------------
(* Sending the next bytes of m leaves alone what the places of the other   *)
(* buffers know.                                                           *)
LEMMA SentOnDone ==
  ASSUME NEW m, NEW j, SentOn(m, j)
  PROVE  /\ Done(m, j)'
         /\ \A x \in Buffer \ {m} : \A i : Done(x, i) => Done(x, i)'
<1>1. Elements(stream)' = Elements(stream')
  BY DEF Elements
<1>2. Done(m, j)'
  BY <1>1 DEF SentOn, Done
<1>3. ASSUME NEW x \in Buffer \ {m}, NEW i, Done(x, i)
      PROVE  Done(x, i)'
  BY <1>1, <1>3 DEF SentOn, Done
<1> QED BY <1>2, <1>3

LEMMA SentOnPosted ==
  ASSUME OrderInv, NEW m, NEW j, SentOn(m, j),
         UNCHANGED <<posted, sent, handed, buf>>,
         broken => broken',
         \A w \in Worker : pc'[w] # "idle" => pc[w] # "idle",
         \/ m \in handed
         \/ \E w \in Worker : pc[w] # "idle" /\ buf[w] = m
  PROVE  Posted'
<1>1. ASSUME NEW e \in Elements(posted) PROVE Coming(e)'
  <2>1. Coming(e)
    BY DEF OrderInv, Posted
  <2>2. CASE e.op # "send"
    BY <2>2 DEF Coming
  <2>3. CASE e.op = "send"
    <3>1. e.m \in Buffer /\ e.m # m
      BY <2>1, <2>3 DEF Coming, OrderInv, IInv, Typed, Elements, Handler, SendHandler,
                        CloseHandler
    <3>2. ~ broken' => Done(e.m, e.offset)'
      BY <2>1, <2>3, <3>1, SentOnDone DEF Coming
    <3> QED BY <2>1, <2>3, <3>2 DEF Coming
  <2> QED BY <2>2, <2>3
<1>2. Elements(posted)' = Elements(posted) /\ Apart(posted)'
  BY DEF OrderInv, Posted, Elements, Apart, SameBuffer
<1> QED BY <1>1, <1>2 DEF Posted

(* A worker writes directly.                                               *)
LEMMA WriteSomeOrder ==
  ASSUME OrderInv, NEW w \in Worker, WriteSome(w)
  PROVE  OrderInv'
<1>0. IInv'
  BY WriteSomeStep DEF OrderInv
<1>1. PICK m : m = buf[w]
  OBVIOUS
<1>n. PICK n \in IF broken THEN {0} ELSE 0 .. Size :
        /\ offset' = [offset EXCEPT ![w] = n]
        /\ stream' = stream \o SubSeq(Rest(m, 0), 1, n)
  BY <1>1, Zenon DEF WriteSome
<1>2. /\ n \in 0 .. Size /\ (broken => n = 0)
      /\ offset' = [offset EXCEPT ![w] = n]
      /\ stream' = stream \o SubSeq(Rest(m, 0), 1, n)
  BY <1>n, SizeAssumption
<1>3. /\ pc[w] = "write" /\ pc' = [pc EXCEPT ![w] = "post"]
      /\ UNCHANGED <<after, handed, sent, buf, broken, wlist, posted>>
  BY DEF WriteSome
<1>4. pc'[w] = "post" /\ \A v \in Worker \ {w} : pc'[v] = pc[v]
  BY <1>3 DEF OrderInv, IInv, Typed
<1>5. /\ m \in Buffer /\ m <= sent /\ m \notin handed
      /\ offset[w] = 0 /\ offset \in [Worker -> 0 .. Size]
      /\ ~ broken => Done(m, 0)
  BY <1>1, <1>3 DEF OrderInv, IInv, Typed, Held
<1> DEFINE B == Byte
           r == Rest(m, 0)
           c == SubSeq(r, 1, n)
<1>6. /\ r \in Seq(B) /\ Len(r) = Size
      /\ \A k \in 1 .. Size : r[k] = <<m, 0 + k>>
  <2>1. 0 \in 0 .. Size /\ Size - 0 = Size
    BY SizeAssumption
  <2> QED BY <1>5, <2>1, RestFacts
<1> HIDE DEF r
<1>7. /\ c \in Seq(B) /\ Len(c) = n
      /\ \A k \in 1 .. n : c[k] = r[k]
  BY <1>6, InitialPart
<1> HIDE DEF c
<1>8. CASE broken
  <2>1. Len(c) = 0
    BY <1>2, <1>7, <1>8
  <2>2. stream' = stream
    <3>1. stream \in Seq(B)
      BY DEF OrderInv, Streamed
    <3> HIDE DEF B
    <3>2. stream \o c = stream
      BY <1>7, <2>1, <3>1
    <3> QED BY <1>2, <3>2 DEF c, r
  <2>3. offset' = offset
    BY <1>2, <1>5, <1>8
  <2>4. \A v \in Worker : pc'[v] = pc[v] \/ (v = w /\ pc'[v] = "post")
    BY <1>4
  <2>5. Apart(posted) /\ posted' = posted
    BY <1>3 DEF OrderInv, Posted
  <2> QED BY <1>0, <1>3, <2>2, <2>3, <2>4, <2>5, CalmStep
<1>9. CASE ~ broken
  <2>1. SentOn(m, n)
    <3>1. \A k \in 1 .. Len(c) : c[k] = <<m, 0 + k>>
      BY <1>6, <1>7
    <3>2. \A b \in Elements(stream) : ~ Follows(m, b[1])
      <4>1. \A b \in Elements(stream) : b[1] \in Buffer
        BY DEF OrderInv, Streamed, Elements, Byte
      <4> QED BY <1>5, <4>1 DEF OrderInv, Streamed, Follows
    <3>3. stream' = stream \o c /\ 0 + Len(c) = n /\ 0 \in Nat
      BY <1>2, <1>7 DEF c, r
    <3> HIDE DEF B
    <3>4. SentOn(m, 0 + Len(c))
      BY <1>3, <1>5, <1>7, <1>9, <3>1, <3>2, <3>3, StreamStep DEF B
    <3> QED BY <3>3, <3>4
  <2>2. Streamed' /\ BytesOnce' /\ InOrder'
    BY <2>1 DEF SentOn
  <2>3. Done(m, n)' /\ \A x \in Buffer \ {m} : \A i : Done(x, i) => Done(x, i)'
    BY <2>1, SentOnDone
  <2>4. Elements(stream)' = Elements(stream')
    BY DEF Elements
  <2>5. \A v \in Worker \ {w} : offset'[v] = offset[v]
    BY <1>2, <1>5
  <2>6. Held'
    <3>1. ASSUME NEW v \in Worker, pc'[v] # "idle"
          PROVE  buf[v] <= sent /\ buf[v] \notin handed
                 /\ (~ broken' => Done(buf[v], offset[v])')
      <4>1. CASE v = w
        <5>1. buf'[v] = m /\ offset'[v] = n
          BY <1>1, <1>2, <1>3, <1>5, <4>1
        <5> QED BY <1>1, <1>5, <2>3, <4>1, <5>1 DEF Done
      <4>2. CASE v # w
        <5>1. /\ buf[v] <= sent /\ buf[v] \notin handed
              /\ buf[v] \in Buffer \ {m} /\ Done(buf[v], offset[v])
          BY <1>1, <1>3, <1>4, <1>9, <3>1, <4>2 DEF OrderInv, IInv, Typed, Held
        <5>2. PICK x, i : x = buf[v] /\ i = offset[v]
          OBVIOUS
        <5>3. Done(x, i)' /\ buf'[v] = x /\ offset'[v] = i
          BY <1>3, <2>3, <2>5, <4>2, <5>1, <5>2
        <5> QED BY <5>1, <5>3 DEF Done
      <4> QED BY <4>1, <4>2
    <3>2. \A v \in Worker : pc'[v] \in {"try", "check", "write"} => offset'[v] = 0
      BY <1>4, <2>5 DEF OrderInv, Held
    <3>3. \A u, v \in Worker :
            pc'[u] # "idle" /\ pc'[v] # "idle" /\ buf'[u] = buf'[v] => u = v
      BY <1>3, <1>4 DEF OrderInv, Held
    <3> QED BY <1>3, <3>1, <3>2, <3>3 DEF Held
  <2>7. Posted'
    <3>1. \A v \in Worker : pc'[v] # "idle" => pc[v] # "idle"
      BY <1>3, <1>4
    <3>2. \E v \in Worker : pc[v] # "idle" /\ buf[v] = m
      BY <1>1, <1>3
    <3> QED BY <1>3, <2>1, <3>1, <3>2, SentOnPosted
  <2>8. Waiting'
    <3>1. ASSUME NEW d \in Elements(wlist) PROVE Waits(d)'
      <4>1. Waits(d) /\ Owner(d) \in Buffer \ {m}
        BY <1>5 DEF OrderInv, IInv, Typed, Waiting, Waits
      <4>2. Done(Owner(d), Size - Len(d))'
        <5>1. PICK x, i : x = Owner(d) /\ i = Size - Len(d)
          OBVIOUS
        <5>2. Done(x, i)'
          BY <1>9, <2>3, <4>1, <5>1 DEF Waits
        <5> QED BY <5>1, <5>2
      <4>3. \A x : Follows(Owner(d), x)' <=> Follows(Owner(d), x)
        BY <1>3 DEF Follows
      <4>4. \A v \in Worker : Follows(Owner(d), buf[v])' <=> Follows(Owner(d), buf[v])
        BY <1>3 DEF Follows
      <4>5. ~ Follows(Owner(d), m)
        BY <1>1, <1>3, <1>9, <4>1 DEF Waits
      <4>6. \A b \in Elements(stream') : ~ Follows(Owner(d), b[1])
        BY <1>9, <2>1, <4>1, <4>5 DEF SentOn, Waits
      <4> QED BY <1>3, <1>4, <1>9, <2>4, <4>1, <4>2, <4>3, <4>4, <4>6 DEF Waits
    <3>2. Ordered(wlist)'
      BY <1>3 DEF OrderInv, Waiting, Ordered, Follows
    <3> QED BY <1>3, <3>1, <3>2 DEF Waiting, Elements
  <2> QED BY <1>0, <2>2, <2>6, <2>7, <2>8 DEF OrderInv
<1> QED BY <1>8, <1>9

(* The front of the list: its buffer is handed over, and nothing that is   *)
(* out follows it.                                                         *)
LEMMA FrontFacts ==
  ASSUME OrderInv, writing
  PROVE  /\ Head(wlist) \in Elements(wlist) /\ Waits(Head(wlist))
         /\ Head(wlist) \in Seq(Byte) /\ Len(Head(wlist)) \in 1 .. Size
         /\ Owner(Head(wlist)) \in Buffer /\ Owner(Head(wlist)) \in handed
         /\ Owner(Head(wlist)) <= sent
         /\ \A k \in 1 .. Len(Head(wlist)) :
              Head(wlist)[k] = <<Owner(Head(wlist)), (Size - Len(Head(wlist))) + k>>
<1> DEFINE C == Chunk
<1>1. wlist \in Seq(C) /\ wlist # << >>
  BY DEF OrderInv, IInv, Typed, LockHeld
<1> HIDE DEF C
<1>2. Head(wlist) \in Elements(wlist)
  BY <1>1, TailElements
<1>3. Waits(Head(wlist)) /\ Typed
  BY <1>2 DEF OrderInv, IInv, Waiting
<1>4. Owner(Head(wlist)) \in handed
  BY <1>3 DEF Waits
<1>5. Owner(Head(wlist)) <= sent
  BY <1>4 DEF OrderInv, Streamed
<1> QED BY <1>2, <1>3, <1>4, <1>5, WaitsFacts

(* The workers' buffers are not in the list.                               *)
LEMMA SentOnHeld ==
  ASSUME OrderInv, NEW m \in handed, NEW j, SentOn(m, j),
         UNCHANGED <<pc, buf, offset, sent, handed>>, broken => broken'
  PROVE  Held'
<1>1. ASSUME NEW v \in Worker, pc'[v] # "idle"
      PROVE  buf[v] <= sent /\ buf[v] \notin handed
             /\ (~ broken' => Done(buf[v], offset[v])')
  <2>1. /\ buf[v] <= sent /\ buf[v] \notin handed
        /\ buf[v] \in Buffer \ {m} /\ (~ broken => Done(buf[v], offset[v]))
    BY <1>1 DEF OrderInv, IInv, Typed, Held
  <2>2. PICK x, i : x = buf[v] /\ i = offset[v]
    OBVIOUS
  <2>3. (~ broken' => Done(x, i)') /\ buf'[v] = x /\ offset'[v] = i
    BY <2>1, <2>2, SentOnDone
  <2> QED BY <2>1, <2>3 DEF Done
<1> QED BY <1>1 DEF OrderInv, Held

(* The poll thread writes the rest of a buffer that waited.                *)
LEMMA WriteDoneOrder ==
  ASSUME OrderInv, WriteDone
  PROVE  OrderInv'
<1>0. IInv'
  BY WriteDoneStep DEF OrderInv
<1>1. PICK c : c = Head(wlist)
  OBVIOUS
<1>2. PICK m : m = Owner(c)
  OBVIOUS
<1>3. PICK i : i = Size - Len(c)
  OBVIOUS
<1>4. /\ writing /\ ~ broken /\ stream' = stream \o c
      /\ UNCHANGED <<broken, pc, buf, offset, posted, sent, handed, after>>
  BY <1>1 DEF WriteDone
<1>5. /\ c \in Elements(wlist) /\ Waits(c)
      /\ c \in Seq(Byte) /\ Len(c) \in 1 .. Size
      /\ m \in Buffer /\ m \in handed /\ m <= sent
      /\ \A k \in 1 .. Len(c) : c[k] = <<m, i + k>>
  BY <1>1, <1>2, <1>3, <1>4, FrontFacts
<1>6. i \in Nat /\ i + Len(c) = Size
  BY <1>3, <1>5, SizeAssumption
<1>7. SentOn(m, Size)
  <2>1. Done(m, i) /\ \A b \in Elements(stream) : ~ Follows(m, b[1])
    BY <1>2, <1>3, <1>4, <1>5 DEF Waits
  <2>2. SentOn(m, i + Len(c))
    BY <1>4, <1>5, <1>6, <2>1, StreamStep
  <2> QED BY <1>6, <2>2
<1>8. Streamed' /\ BytesOnce' /\ InOrder'
  BY <1>7 DEF SentOn
<1>9. Held'
  BY <1>4, <1>5, <1>7, SentOnHeld
<1>a. Posted'
  BY <1>4, <1>5, <1>7, SentOnPosted
<1>b. Waiting'
  <2>1. CASE wlist' = << >>
    BY <2>1 DEF Waiting, Ordered, Elements
  <2>2. CASE wlist' = Tail(wlist)
    <3> DEFINE C == Chunk
    <3>1. wlist \in Seq(C) /\ wlist # << >> /\ Ordered(wlist)
      BY <1>4 DEF OrderInv, IInv, Typed, LockHeld, Waiting
    <3>2. /\ Ordered(wlist')
          /\ \A d \in Elements(wlist') : m # Owner(d) /\ ~ Follows(Owner(d), m)
      BY <1>1, <1>2, <2>2, <3>1, TailOrdered
    <3> HIDE DEF C
    <3>3. Elements(wlist') \subseteq Elements(wlist)
      BY <2>2, <3>1, TailElements
    <3>4. Elements(stream)' = Elements(stream')
      BY DEF Elements
    <3>5. \A x \in Buffer \ {m} : \A k : Done(x, k) => Done(x, k)'
      BY <1>7, SentOnDone
    <3>6. ASSUME NEW d \in Elements(wlist') PROVE Waits(d)'
      <4>1. Waits(d) /\ Owner(d) \in Buffer \ {m} /\ ~ Follows(Owner(d), m)
        BY <3>2, <3>3 DEF OrderInv, IInv, Typed, Waiting, Waits
      <4>2. Done(Owner(d), Size - Len(d))'
        <5>1. PICK x, k : x = Owner(d) /\ k = Size - Len(d)
          OBVIOUS
        <5>2. Done(x, k)'
          BY <1>4, <3>5, <4>1, <5>1 DEF Waits
        <5> QED BY <5>1, <5>2
      <4>3. \A x : Follows(Owner(d), x)' <=> Follows(Owner(d), x)
        BY <1>4 DEF Follows
      <4>4. \A v \in Worker : Follows(Owner(d), buf[v])' <=> Follows(Owner(d), buf[v])
        BY <1>4 DEF Follows
      <4>5. \A b \in Elements(stream') : ~ Follows(Owner(d), b[1])
        BY <1>4, <1>7, <4>1 DEF SentOn, Waits
      <4> QED BY <1>4, <3>4, <4>1, <4>2, <4>3, <4>4, <4>5 DEF Waits
    <3>7. (Ordered(wlist)' <=> Ordered(wlist')) /\ Elements(wlist)' = Elements(wlist')
      BY <1>4 DEF Ordered, Follows, Elements
    <3> QED BY <3>2, <3>6, <3>7 DEF Waiting
  <2> QED BY <2>1, <2>2 DEF WriteDone, EndWriting
<1> QED BY <1>0, <1>8, <1>9, <1>a, <1>b DEF OrderInv

(* A write that fails may have sent part of the front; what the places     *)
(* know need not be right any more, and nothing goes out after it.         *)
LEMMA WriteFailOrder ==
  ASSUME OrderInv, WriteFail
  PROVE  OrderInv'
<1>0. IInv'
  BY WriteFailStep DEF OrderInv
<1>1. PICK c : c = Head(wlist)
  OBVIOUS
<1>2. PICK m : m = Owner(c)
  OBVIOUS
<1>3. PICK i : i = Size - Len(c)
  OBVIOUS
<1>4. /\ writing /\ broken' = TRUE
      /\ UNCHANGED <<wlist, pc, buf, offset, posted, sent, handed, after>>
  BY DEF WriteFail, EndWriting
<1>5. /\ c \in Elements(wlist) /\ Waits(c)
      /\ c \in Seq(Byte) /\ Len(c) \in 1 .. Size
      /\ m \in Buffer /\ m \in handed /\ m <= sent
      /\ \A k \in 1 .. Len(c) : c[k] = <<m, i + k>>
  BY <1>1, <1>2, <1>3, <1>4, FrontFacts
<1>6. PICK n \in IF broken THEN {0} ELSE 0 .. Len(c) - 1 :
        stream' = stream \o SubSeq(c, 1, n)
  BY <1>1, Zenon DEF WriteFail
<1>7. n \in 0 .. Len(c) /\ (broken => n = 0)
  BY <1>5, <1>6, SizeAssumption
<1> DEFINE B == Byte
           p == SubSeq(c, 1, n)
<1>8. /\ p \in Seq(B) /\ Len(p) = n
      /\ \A k \in 1 .. n : p[k] = c[k]
  BY <1>5, <1>7, InitialPart
<1>9. stream' = stream \o p
  BY <1>6
<1> HIDE DEF p
<1>a. CASE broken
  <2>1. stream' = stream
    <3>1. stream \in Seq(B)
      BY DEF OrderInv, Streamed
    <3> HIDE DEF B
    <3>2. stream \o p = stream
      BY <1>7, <1>8, <1>a, <3>1
    <3> QED BY <1>9, <3>2
  <2>2. Apart(posted')
    BY <1>4 DEF OrderInv, Posted
  <2> QED BY <1>0, <1>4, <2>1, <2>2, CalmStep
<1>b. CASE ~ broken
  <2>1. SentOn(m, i + Len(p))
    <3>1. Done(m, i) /\ \A b \in Elements(stream) : ~ Follows(m, b[1])
      BY <1>2, <1>3, <1>5, <1>b DEF Waits
    <3>2. i \in Nat
      BY <1>3, <1>5, SizeAssumption
    <3>3. \A k \in 1 .. Len(p) : p[k] = <<m, i + k>>
      <4>1. \A k \in 1 .. n : k \in 1 .. Len(c)
        BY <1>5, <1>7
      <4> QED BY <1>5, <1>8, <4>1
    <3> QED BY <1>4, <1>5, <1>8, <1>9, <3>1, <3>2, <3>3, StreamStep
  <2>2. Streamed' /\ BytesOnce' /\ InOrder'
    BY <2>1 DEF SentOn
  <2>3. Held'
    BY <1>4, <1>5, <2>1, SentOnHeld
  <2>4. Posted'
    BY <1>4, <1>5, <2>1, SentOnPosted
  <2>5. Waiting'
    <3>1. \A d \in Elements(wlist) : Waits(d)'
      BY <1>4 DEF OrderInv, Waiting, Waits
    <3>2. Ordered(wlist)'
      BY <1>4 DEF OrderInv, Waiting, Ordered, Follows
    <3> QED BY <1>4, <3>1, <3>2 DEF Waiting, Elements
  <2> QED BY <1>0, <2>2, <2>3, <2>4, <2>5 DEF OrderInv
<1> QED BY <1>a, <1>b

-----------------------------------------------------------------------------
THEOREM OrderInvariant == Spec => []OrderInv
<1>1. Init => OrderInv
  BY InitOrder
<1>2. OrderInv /\ [Next]_vars => OrderInv'
  <2> SUFFICES ASSUME OrderInv, [Next]_vars
               PROVE  OrderInv'
    OBVIOUS
  <2>1. ASSUME NEW w \in Worker, SocketSend(w) \/ CloseSocket(w) \/ WorkerStep(w)
        PROVE  OrderInv'
    BY <2>1, SocketSendOrder, CloseSocketOrder, TryLockOrder, CheckListOrder,
       WriteSomeOrder, PostSendOrder DEF WorkerStep
  <2>2. CASE PollStep
    BY <2>2, RunSendOrder, PollOrder, RunCloseOrder DEF PollStep
  <2>3. CASE WriteStep
    BY <2>3, WriteDoneOrder, WriteFailOrder DEF WriteStep
  <2>4. CASE PeerGone \/ UNCHANGED vars
    BY <2>4, PeerGoneOrder
  <2> QED BY <2>1, <2>2, <2>3, <2>4 DEF Next
<1> QED BY <1>1, <1>2, PTL DEF Spec

(* What goes out of a connection is, of every buffer, an initial part, each *)
(* byte once and after the one before it, though a buffer may be written by *)
(* a worker in part and by the poll thread for the rest, and a write may    *)
(* fail half way.                                                          *)
THEOREM EveryByteOnce == Spec => []BytesOnce
<1>1. OrderInv => BytesOnce
  BY DEF OrderInv
<1> QED BY <1>1, OrderInvariant, PTL

(* No buffer overtakes one whose coroutine had run when it was sent: the    *)
(* list is empty when a worker writes directly, and what is put in it       *)
(* later had not been handed over when that worker's buffer was sent.       *)
THEOREM NoOvertaking == Spec => []InOrder
<1>1. OrderInv => InOrder
  BY DEF OrderInv
<1> QED BY <1>1, OrderInvariant, PTL

=============================================================================
