-------------------------- MODULE SocketSlotsProofs -------------------------
(***************************************************************************)
(* Theorems about module SocketSlots, for any number of slots, ids and     *)
(* services, and any number of starts: a close is reported and a connect   *)
(* answered once, data goes to the service that had started the connection *)
(* last when the read began, and in the first round of alloc a slot stays  *)
(* with its id until a close is asked.                                     *)
(***************************************************************************)
EXTENDS SocketSlots, TLAPS

Operations == {"listen", "connect", "start", "loop", "close"}

Entry == [op : Operations, id : Id, n : 0 .. MaxStart, from : Thread]

SlotRecord ==
  [ type : Types, id : {0} \cup Id, sock : {"none", "tcp", "acceptor"},
    opaque : Service \cup {NoOne}, close : BOOLEAN ]

CallRecord ==
  [ pc : {"idle", "draw", "probe", "fill", "abort"},
    kind : {"none", "listen", "connect", "accept"},
    expect : Types, tries : Nat, id : {0} \cup Id,
    parent : {NoReader} \cup Reader ]

Kinds == {"none", "listen", "connect", "accept"}

ConnStates == {"none", "resolving", "connecting", "refused", "last", "connected",
               "failed", "over", "crash"}

LoopStates == {"none", "spawned", "waiting", "done", "failed", "accepted", "over"}

(* The types of the variables.                                             *)
Typed ==
  /\ slot \in [0 .. Slots - 1 -> SlotRecord]
  /\ alloc \in 1 .. MaxId + 1
  /\ call \in [Thread -> CallRecord]
  /\ posted \in Seq(Entry)
  /\ conn \in [Id -> ConnStates]
  /\ loop \in [Reader -> LoopStates]
  /\ to \in [Reader -> Service \cup {NoOne}]
  /\ due \in [Reader -> Service \cup {NoOne}]
  /\ kind \in [Id -> Kinds]
  /\ starts \in [Id -> 0 .. MaxStart]
  /\ owner \in [Id -> Service \cup {NoOne}]
  /\ asked \in SUBSET Id
  /\ told \in [Id -> Nat] /\ answers \in [Id -> Nat]

(* Who is in new_fd and for whom, and that an id is drawn once.            *)
Drawn(c) == call[c].pc \in {"probe", "fill"}

Calling ==
  /\ \A c \in Thread :
       /\ call[c].pc = "idle" => call[c] = Idle
       /\ call[c].pc \in {"draw", "probe"} => call[c].tries > 0
       /\ Drawn(c) => /\ call[c].id \in Id
                      /\ call[c].id < alloc
                      /\ kind[call[c].id] = "none"
  /\ \A c \in Service : call[c].pc # "idle" => /\ call[c].kind \in {"listen", "connect"}
                                                /\ call[c].parent = NoReader
  /\ call[Poll].pc # "idle" => call[Poll].kind = "accept" /\ call[Poll].parent \in Reader
  /\ \A r \in Reader : loop[r] = "accepted" <=> call[Poll].parent = r
  /\ \A b, c \in Thread : Drawn(b) /\ Drawn(c) /\ call[b].id = call[c].id => b = c

(* Nothing is known of an id before it is handed out, and its coroutines   *)
(* are of its kind and were started.                                       *)
Known ==
  /\ \A d \in Id :
       /\ kind[d] # "none" => d < alloc
       /\ kind[d] = "none" => /\ owner[d] = NoOne /\ d \notin asked
                              /\ told[d] = 0 /\ answers[d] = 0
       /\ conn[d] # "none" => kind[d] = "connect"
       /\ answers[d] > 0 => conn[d] = "over" /\ answers[d] = 1
  /\ \A r \in Reader :
       /\ loop[r] # "none" => owner[r[1]] # NoOne /\ r[2] <= starts[r[1]]
       /\ loop[r] = "accepted" => kind[r[1]] = "listen"

(* What is in a slot is an id of that slot.                                *)
Placed ==
  \A i \in 0 .. Slots - 1 :
    /\ slot[i].sock = "none" <=> slot[i].id = 0
    /\ slot[i].id # 0 => Index(slot[i].id) = i /\ kind[slot[i].id] # "none"

(* An id whose close has been reported has left its slot.                  *)
Left ==
  \A d \in Id : told[d] > 0 => told[d] = 1 /\ d \in asked /\ At(d).id # d

(* What a posted handler relies on when it runs.                           *)
EntryOK(e) ==
  /\ kind[e.id] # "none"
  /\ e.op = "connect" => kind[e.id] = "connect" /\ conn[e.id] = "none"
  /\ e.op = "start" => e.from \in Service
  /\ e.op = "loop" => e.n # 0 /\ loop[<<e.id, e.n>>] = "spawned"
  /\ e.op = "close" => e.id \in asked

(* Two handlers of which there is one at most.                             *)
SameWork(e, f) ==
  /\ e.id = f.id
  /\ \/ e.op = "connect" /\ f.op = "connect"
     \/ e.op = "loop" /\ f.op = "loop" /\ e.n = f.n

Elements(q) == {q[m] : m \in 1 .. Len(q)}

Apart(q) == \A m, n \in 1 .. Len(q) : SameWork(q[m], q[n]) => m = n

Queued == (\A e \in Elements(posted) : EntryOK(e)) /\ Apart(posted)

(* A read goes to the service it is due, which is the one in the slot when *)
(* it begins: as long as the slot is the connection's, its service is the  *)
(* one that started the connection last.                                   *)
Owned ==
  /\ stray = {}
  /\ \A r \in Reader : to[r] = due[r]
  /\ \A d \in Id : owner[d] # NoOne /\ At(d).id = d => At(d).opaque = owner[d]

(* An acceptor that is not stolen is started once, and it is its own loop  *)
(* that marks it closed, when it ends.                                     *)
Solo(d) ==
  /\ At(d).type \in {"plisten", "listen"}
  /\ \A r \in Reader : At(d).type = "plisten" /\ r[1] = d => loop[r] = "none"
  /\ \A q, r \in Reader : q[1] = d /\ r[1] = d /\ loop[q] # "none" /\ loop[r] # "none"
                           => q = r
  /\ At(d).close => \E r \in Reader : r[1] = d /\ loop[r] = "over"

(* As long as alloc has not come round no slot is reused.                  *)
FirstOK(d) ==
  /\ kind[d] # "none" /\ d \notin asked =>
       /\ At(d).id = d
       /\ IF kind[d] = "listen" THEN Solo(d) ELSE ~ At(d).close
  /\ kind[d] = "none" /\ d <= Slots => ~ At(d).close

FirstRound == alloc <= Slots + 1 => \A d \in Id : FirstOK(d)

IInv ==
  Typed /\ Calling /\ Known /\ Placed /\ Left /\ Queued /\ Owned /\ FirstRound

-----------------------------------------------------------------------------
LEMMA IndexIn == ASSUME NEW d \in Id PROVE Index(d) \in 0 .. Slots - 1
BY SlotsAssumption, MaxIdAssumption DEF Id, Index

LEMMA Readers ==
  /\ \A d \in Id, n \in 1 .. MaxStart :
       <<d, n>> \in Reader /\ <<d, n>>[1] = d /\ <<d, n>>[2] = n
  /\ \A r \in Reader : r[1] \in Id /\ r[2] \in 1 .. MaxStart /\ r = <<r[1], r[2]>>
  /\ NoReader \notin Reader
<1>1. 0 \notin Id
  BY MaxIdAssumption DEF Id
<1>2. \A r \in Reader : r[1] \in Id
  BY DEF Reader
<1>3. NoReader[1] = 0
  BY DEF NoReader
<1>4. NoReader \notin Reader
  BY <1>1, <1>2, <1>3
<1> QED BY <1>4 DEF Reader

LEMMA FirstIndex ==
  ASSUME NEW d \in Id, NEW e \in Id, d <= Slots, e <= Slots, Index(d) = Index(e)
  PROVE  d = e
<1>1. \A x \in 1 .. Slots : x % Slots = IF x = Slots THEN 0 ELSE x
  BY SlotsAssumption
<1>2. d \in 1 .. Slots /\ e \in 1 .. Slots
  BY SlotsAssumption, MaxIdAssumption DEF Id
<1> QED BY <1>1, <1>2 DEF Index

LEMMA ElementsType ==
  ASSUME NEW q \in Seq(Entry)
  PROVE  \A e \in Elements(q) : e \in Entry
<1> DEFINE R == Entry
<1>1. q \in Seq(R)
  OBVIOUS
<1> HIDE DEF R
<1>2. \A m \in 1 .. Len(q) : q[m] \in R
  BY <1>1
<1> QED BY <1>2 DEF Elements, R

AppendFacts(q, e) ==
  /\ Append(q, e) \in Seq(Entry)
  /\ Elements(Append(q, e)) = Elements(q) \cup {e}
  /\ Apart(q) /\ (\A f \in Elements(q) : ~ SameWork(f, e)) => Apart(Append(q, e))

LEMMA AppendEntry ==
  ASSUME NEW q \in Seq(Entry), NEW e \in Entry
  PROVE  AppendFacts(q, e)
<1> DEFINE R == Entry
<1>1. q \in Seq(R) /\ e \in R
  OBVIOUS
<1> HIDE DEF R
<1>2. /\ Append(q, e) \in Seq(R)
      /\ Len(q) \in Nat
      /\ Len(Append(q, e)) = Len(q) + 1
      /\ \A m \in 1 .. Len(q) : Append(q, e)[m] = q[m]
      /\ Append(q, e)[Len(q) + 1] = e
  BY <1>1
<1>3. Elements(Append(q, e)) = Elements(q) \cup {e}
  <2>1. \A x \in Elements(Append(q, e)) : x \in Elements(q) \cup {e}
    BY <1>2 DEF Elements
  <2>2. \A x \in Elements(q) \cup {e} : x \in Elements(Append(q, e))
    BY <1>2 DEF Elements
  <2> QED BY <2>1, <2>2
<1>4. ASSUME Apart(q), \A f \in Elements(q) : ~ SameWork(f, e)
      PROVE  Apart(Append(q, e))
  <2> SUFFICES ASSUME NEW m \in 1 .. Len(q) + 1, NEW n \in 1 .. Len(q) + 1,
                      SameWork(Append(q, e)[m], Append(q, e)[n])
               PROVE  m = n
    BY <1>2 DEF Apart
  <2>1. \A k \in 1 .. Len(q) : ~ SameWork(q[k], e) /\ ~ SameWork(e, q[k])
    BY <1>4 DEF Elements, SameWork
  <2> QED BY <1>2, <1>4, <2>1 DEF Apart
<1> QED BY <1>2, <1>3, <1>4 DEF AppendFacts, R

TailFacts(q) ==
  /\ Head(q) \in Entry
  /\ Head(q) \in Elements(q)
  /\ Tail(q) \in Seq(Entry)
  /\ Elements(Tail(q)) \subseteq Elements(q)
  /\ Apart(q) => /\ Apart(Tail(q))
                 /\ \A f \in Elements(Tail(q)) : ~ SameWork(f, Head(q))

LEMMA TailEntry ==
  ASSUME NEW q \in Seq(Entry), q # << >>
  PROVE  TailFacts(q)
<1> DEFINE R == Entry
<1>1. q \in Seq(R)
  OBVIOUS
<1> HIDE DEF R
<1>2. /\ Head(q) \in R
      /\ Head(q) = q[1]
      /\ Tail(q) \in Seq(R)
      /\ Len(q) \in Nat \ {0}
      /\ Len(Tail(q)) = Len(q) - 1
      /\ \A m \in 1 .. Len(q) - 1 : Tail(q)[m] = q[m + 1]
  BY <1>1
<1>3. Head(q) \in Elements(q) /\ Elements(Tail(q)) \subseteq Elements(q)
  BY <1>2 DEF Elements
<1>4. ASSUME Apart(q)
      PROVE  /\ Apart(Tail(q))
             /\ \A f \in Elements(Tail(q)) : ~ SameWork(f, Head(q))
  <2>1. Apart(Tail(q))
    BY <1>2, <1>4 DEF Apart
  <2>2. ASSUME NEW m \in 1 .. Len(q) - 1 PROVE ~ SameWork(q[m + 1], q[1])
    BY <1>2, <1>4 DEF Apart
  <2>3. \A f \in Elements(Tail(q)) : ~ SameWork(f, Head(q))
    BY <1>2, <2>2 DEF Elements
  <2> QED BY <2>1, <2>3
<1> QED BY <1>2, <1>3, <1>4 DEF TailFacts, R

LEMMA InitIInv == Init => IInv
<1> SUFFICES ASSUME Init PROVE IInv
  OBVIOUS
<1>1. \A i \in 0 .. Slots - 1 : slot[i] = Empty
  BY DEF Init
<1>2. \A d \in Id : At(d) = Empty
  BY <1>1, IndexIn DEF At
<1>3. Idle \in CallRecord /\ Empty \in SlotRecord
  BY DEF Idle, CallRecord, Empty, SlotRecord, Types
<1>4. Typed
  BY <1>3, MaxIdAssumption, BoundsAssumption
     DEF Init, Typed, ConnStates, LoopStates, Kinds
<1>5. Calling
  BY Readers DEF Init, Calling, Drawn, Idle, Thread
<1>6. Known
  BY DEF Init, Known
<1>7. Placed
  BY <1>1 DEF Placed, Empty
<1>8. Left /\ Owned /\ FirstRound
  BY <1>2 DEF Init, Left, Owned, FirstRound, FirstOK, Empty
<1>9. Queued
  BY DEF Init, Queued, Elements, Apart
<1> QED BY <1>4, <1>5, <1>6, <1>7, <1>8, <1>9 DEF IInv

(* In the first round an id has its slot to itself.                        *)
LEMMA OtherSlot ==
  ASSUME IInv, alloc <= Slots + 1, NEW d \in Id, d < alloc,
         NEW e \in Id, e # d, e <= Slots \/ kind[e] # "none"
  PROVE  Index(e) # Index(d) /\ Index(e) \in 0 .. Slots - 1
<1>1. d <= Slots /\ e <= Slots
  BY SlotsAssumption DEF IInv, Known, Typed, Id
<1> QED BY <1>1, FirstIndex, IndexIn

(* A loop that has begun stays begun, and one that is over, over.          *)
GoesOn(r) ==
  /\ loop'[r] = "none" <=> loop[r] = "none"
  /\ loop[r] = "over" => loop'[r] = "over"

SameSlot(d) ==
  /\ slot'[Index(d)].id = slot[Index(d)].id
  /\ slot'[Index(d)].type = slot[Index(d)].type
  /\ slot'[Index(d)].close = slot[Index(d)].close

(* FirstOK of an id whose slot and loops are left alone.                   *)
LEMMA StillFirst ==
  ASSUME NEW d \in Id, FirstOK(d), kind'[d] = kind[d],
         d \in asked => d \in asked',
         SameSlot(d), \A r \in Reader : r[1] = d => GoesOn(r)
  PROVE  FirstOK(d)'
<1>1. Solo(d) => Solo(d)'
  BY DEF Solo, SameSlot, GoesOn, At
<1> QED BY <1>1 DEF FirstOK, SameSlot, At

(* FirstRound after a step that may change the slot of one id only.        *)
LEMMA FirstRoundStep ==
  ASSUME IInv, NEW d \in Id, d < alloc, alloc' = alloc,
         \A e \in Id : e # d => kind'[e] = kind[e],
         \A e \in Id : e \in asked => e \in asked',
         \A j \in 0 .. Slots - 1 : j # Index(d) => slot'[j] = slot[j],
         \A r \in Reader : r[1] # d => GoesOn(r),
         alloc <= Slots + 1 => FirstOK(d)'
  PROVE  FirstRound'
<1> SUFFICES ASSUME alloc <= Slots + 1, NEW e \in Id, e # d PROVE FirstOK(e)'
  BY DEF FirstRound
<1>1. CASE e <= Slots \/ kind[e] # "none"
  <2>1. Index(e) # Index(d) /\ Index(e) \in 0 .. Slots - 1
    BY <1>1, OtherSlot
  <2> QED BY <2>1, StillFirst DEF IInv, FirstRound, SameSlot
<1>2. CASE ~ (e <= Slots \/ kind[e] # "none")
  BY <1>2 DEF FirstOK
<1> QED BY <1>1, <1>2

(* FirstRound after a step that leaves the slots as they are.              *)
LEMMA FirstRoundSame ==
  ASSUME IInv, alloc' \in Nat, alloc' >= alloc, kind' = kind,
         \A e \in Id : e \in asked => e \in asked',
         slot' = slot,
         \A r \in Reader : GoesOn(r)
  PROVE  FirstRound'
<1> SUFFICES ASSUME alloc' <= Slots + 1, NEW e \in Id PROVE FirstOK(e)'
  BY DEF FirstRound
<1>1. alloc <= Slots + 1
  BY SlotsAssumption DEF IInv, Typed
<1> QED BY <1>1, StillFirst DEF IInv, FirstRound, SameSlot

-----------------------------------------------------------------------------
(* new_fd and its callers.                                                 *)
LEMMA OpenStep ==
  ASSUME IInv, NEW s \in Service, NEW k \in {"listen", "connect"}, Open(s, k)
  PROVE  IInv'
<1> DEFINE r == [Idle EXCEPT !.pc = "draw", !.kind = k, !.tries = Slots]
<1>1. /\ call' = [call EXCEPT ![s] = r]
      /\ UNCHANGED <<slot, alloc, posted, conn, loop, to, kind, starts, owner, due,
                     asked, told, answers, stray>>
      /\ call[s].pc = "idle"
      /\ s \in Thread /\ s # Poll
  BY NamesAssumption DEF Open, history, Free, Thread
<1>2. /\ r \in CallRecord
      /\ r.pc = "draw" /\ r.kind = k /\ r.tries = Slots /\ r.parent = NoReader
  BY SlotsAssumption DEF Idle, CallRecord, Types
<1> HIDE DEF r
<1>3. Typed'
  <2> DEFINE R == CallRecord
  <2>1. call \in [Thread -> R] /\ r \in R
    BY <1>2 DEF IInv, Typed
  <2> HIDE DEF R
  <2>2. call' \in [Thread -> R]
    BY <1>1, <2>1
  <2> QED BY <1>1, <2>2 DEF IInv, Typed, R
<1>4. Calling'
  <2>1. /\ call'[s] = r
        /\ \A c \in Thread \ {s} : call'[c] = call[c]
    BY <1>1 DEF IInv, Typed
  <2> QED BY <1>1, <1>2, <2>1, SlotsAssumption, NamesAssumption
          DEF IInv, Calling, Drawn, Thread
<1>5. FirstRound'
  BY <1>1, FirstRoundSame DEF IInv, Typed, GoesOn
<1> QED BY <1>1, <1>3, <1>4, <1>5
        DEF IInv, Known, Placed, Left, Queued, EntryOK, Owned, At

LEMMA DrawStep ==
  ASSUME IInv, NEW c \in Thread, Draw(c)
  PROVE  IInv'
<1> DEFINE r == [call[c] EXCEPT !.pc = "probe", !.id = alloc]
<1>1. /\ call[c].pc = "draw" /\ call[c].tries > 0
      /\ alloc \in Id /\ alloc' = alloc + 1
      /\ call' = [call EXCEPT ![c] = r]
      /\ UNCHANGED <<slot, posted, conn, loop, to, kind, starts, owner, due, asked,
                     told, answers, stray>>
  <2>1. alloc \in Id
    BY MaxIdAssumption DEF Draw, IInv, Typed, Id
  <2> QED BY <2>1 DEF Draw, IInv, Calling, history
<1>2. /\ r \in CallRecord /\ r.pc = "probe" /\ r.id = alloc
      /\ r.kind = call[c].kind /\ r.parent = call[c].parent /\ r.tries = call[c].tries
  BY <1>1 DEF IInv, Typed, CallRecord
<1> HIDE DEF r
<1>3. call'[c] = r /\ \A b \in Thread \ {c} : call'[b] = call[b]
  BY <1>1 DEF IInv, Typed
<1>4. Typed'
  <2>1. call' \in [Thread -> CallRecord]
    BY <1>1, <1>2 DEF IInv, Typed
  <2>2. alloc' \in 1 .. MaxId + 1
    BY <1>1, MaxIdAssumption DEF Id
  <2> QED BY <1>1, <2>1, <2>2 DEF IInv, Typed
<1>5. Calling'
  <2>1. kind[alloc] = "none"
    BY <1>1 DEF IInv, Known, Id
  <2>2. \A b \in Thread : Drawn(b) => call[b].id # alloc
    BY <1>1 DEF IInv, Calling, Id
  <2>3. \A b \in Thread :
          /\ call'[b].pc = "idle" => call'[b] = Idle
          /\ call'[b].pc \in {"draw", "probe"} => call'[b].tries > 0
          /\ Drawn(b)' => /\ call'[b].id \in Id
                          /\ call'[b].id < alloc'
                          /\ kind'[call'[b].id] = "none"
    BY <1>1, <1>2, <1>3, <2>1 DEF IInv, Calling, Drawn, Id
  <2>4. /\ \A b \in Service :
             call'[b].pc # "idle" => /\ call'[b].kind \in {"listen", "connect"}
                                     /\ call'[b].parent = NoReader
        /\ call'[Poll].pc # "idle" =>
             call'[Poll].kind = "accept" /\ call'[Poll].parent \in Reader
        /\ \A q \in Reader : loop'[q] = "accepted" <=> call'[Poll].parent = q
    BY <1>1, <1>2, <1>3 DEF IInv, Calling, Thread
  <2>5. \A a, b \in Thread :
          Drawn(a)' /\ Drawn(b)' /\ call'[a].id = call'[b].id => a = b
    BY <1>2, <1>3, <2>2 DEF IInv, Calling, Drawn
  <2> QED BY <2>3, <2>4, <2>5 DEF Calling
<1>6. FirstRound'
  BY <1>1, FirstRoundSame DEF IInv, Typed, GoesOn, Id
<1>7. Known'
  BY <1>1 DEF IInv, Known, Id
<1> QED BY <1>1, <1>4, <1>5, <1>6, <1>7
        DEF IInv, Placed, Left, Queued, EntryOK, Owned, At

LEMMA ProbeStep ==
  ASSUME IInv, NEW c \in Thread, Probe(c)
  PROVE  IInv'
<1>0. PICK d \in Id : d = call[c].id
  BY DEF Probe, IInv, Calling, Drawn
<1> DEFINE i == Index(d)
<1>1. /\ call[c].pc = "probe" /\ call[c].tries \in Nat \ {0}
      /\ d < alloc /\ kind[d] = "none"
      /\ i \in 0 .. Slots - 1
      /\ UNCHANGED <<alloc, posted, conn, loop, to, kind, starts, owner, due, asked,
                     told, answers, stray>>
  <2>1. call[c].tries \in Nat /\ call[c].pc = "probe"
    BY DEF IInv, Typed, CallRecord, Probe
  <2>2. d < alloc /\ kind[d] = "none" /\ call[c].tries > 0
    BY <1>0, <2>1 DEF IInv, Calling, Drawn
  <2> QED BY <2>1, <2>2, IndexIn DEF Probe, history
<1>2. PICK r \in CallRecord :
        /\ call' = [call EXCEPT ![c] = r]
        /\ r.kind = call[c].kind /\ r.parent = call[c].parent
        /\ \/ r.pc = "abort"
           \/ r.pc = "draw" /\ r.tries > 0
           \/ r.pc = "fill" /\ r.id = d
  <2>1. call[c] \in CallRecord /\ slot[i].type \in Types
    BY <1>1 DEF IInv, Typed, SlotRecord
  <2>2. CASE slot[i].type = call[c].expect
    <3> DEFINE r == [call[c] EXCEPT !.pc = "fill"]
    <3>1. r \in CallRecord /\ r.kind = call[c].kind /\ r.parent = call[c].parent
          /\ r.pc = "fill" /\ r.id = d
      BY <1>0, <1>1, <2>1 DEF CallRecord
    <3>2. call' = [call EXCEPT ![c] = r]
      BY <1>0, <2>2 DEF Probe
    <3> HIDE DEF r
    <3> QED BY <3>1, <3>2
  <2>3. CASE slot[i].type # call[c].expect
    <3> DEFINE p == IF call[c].tries = 1 THEN "abort" ELSE "draw"
               t == call[c].tries - 1
               r == [call[c] EXCEPT !.pc = p, !.expect = slot[i].type, !.tries = t]
    <3>1. call' = [call EXCEPT ![c] = r]
      BY <1>0, <2>3 DEF Probe
    <3>2. t \in Nat /\ (p = "abort" \/ (p = "draw" /\ t > 0))
      BY <1>1
    <3> HIDE DEF p, t
    <3>3. r \in CallRecord /\ r.kind = call[c].kind /\ r.parent = call[c].parent
          /\ r.pc = p /\ r.tries = t
      BY <2>1, <3>2 DEF CallRecord
    <3> HIDE DEF r
    <3> QED BY <3>1, <3>2, <3>3
  <2> QED BY <2>2, <2>3
<1>3. /\ call'[c] = r
      /\ \A b \in Thread \ {c} : call'[b] = call[b]
  BY <1>2 DEF IInv, Typed
<1>4. /\ slot' \in [0 .. Slots - 1 -> SlotRecord]
      /\ \A j \in 0 .. Slots - 1 :
           /\ slot'[j].id = slot[j].id /\ slot'[j].sock = slot[j].sock
           /\ slot'[j].opaque = slot[j].opaque /\ slot'[j].close = slot[j].close
           /\ j # i => slot'[j] = slot[j]
  <2>1. \/ slot' = slot
        \/ slot' = [slot EXCEPT ![i].type = "reserve"]
    BY <1>0 DEF Probe
  <2>2. slot \in [0 .. Slots - 1 -> SlotRecord]
    BY DEF IInv, Typed
  <2>3. CASE slot' = slot
    BY <2>2, <2>3
  <2>4. CASE slot' = [slot EXCEPT ![i].type = "reserve"]
    <3> DEFINE taken == [slot[i] EXCEPT !.type = "reserve"]
    <3>1. slot[i] \in SlotRecord
      BY <1>1, <2>2
    <3>2. /\ taken \in SlotRecord
          /\ taken.id = slot[i].id /\ taken.sock = slot[i].sock
          /\ taken.opaque = slot[i].opaque /\ taken.close = slot[i].close
      BY <3>1 DEF SlotRecord, Types
    <3>3. slot' = [slot EXCEPT ![i] = taken]
      BY <2>4
    <3> HIDE DEF taken
    <3> QED BY <1>1, <2>2, <3>2, <3>3
  <2> QED BY <2>1, <2>3, <2>4
<1>5. Typed'
  <2>1. call' \in [Thread -> CallRecord]
    BY <1>2 DEF IInv, Typed
  <2> QED BY <1>1, <1>4, <2>1 DEF IInv, Typed
<1>6. Calling'
  <2>1. \A b \in Thread :
          /\ call'[b].pc = "idle" => call'[b] = Idle
          /\ call'[b].pc \in {"draw", "probe"} => call'[b].tries > 0
          /\ Drawn(b)' => /\ call'[b].id \in Id
                          /\ call'[b].id < alloc'
                          /\ kind'[call'[b].id] = "none"
    BY <1>0, <1>1, <1>2, <1>3 DEF IInv, Calling, Drawn
  <2>2. /\ \A b \in Service :
             call'[b].pc # "idle" => /\ call'[b].kind \in {"listen", "connect"}
                                     /\ call'[b].parent = NoReader
        /\ call'[Poll].pc # "idle" =>
             call'[Poll].kind = "accept" /\ call'[Poll].parent \in Reader
        /\ \A q \in Reader : loop'[q] = "accepted" <=> call'[Poll].parent = q
    BY <1>1, <1>2, <1>3 DEF IInv, Calling, Thread
  <2>3. \A a, b \in Thread :
          Drawn(a)' /\ Drawn(b)' /\ call'[a].id = call'[b].id => a = b
    <3>1. \A b \in Thread : Drawn(b)' => Drawn(b) /\ call'[b].id = call[b].id
      BY <1>0, <1>1, <1>2, <1>3 DEF Drawn
    <3> QED BY <3>1 DEF IInv, Calling
  <2> QED BY <2>1, <2>2, <2>3 DEF Calling
<1>7. \A e \in Id : /\ At(e)'.id = At(e).id /\ At(e)'.opaque = At(e).opaque
                    /\ At(e)'.close = At(e).close
  BY <1>4, IndexIn DEF At
<1>8. Known' /\ Left' /\ Owned'
  BY <1>1, <1>7 DEF IInv, Known, Left, Owned
<1>9. Placed'
  BY <1>1, <1>4 DEF IInv, Placed
<1>10. Queued'
  BY <1>1 DEF IInv, Queued, EntryOK
<1>11. FirstRound'
  <2>1. alloc <= Slots + 1 => FirstOK(d)'
    BY <1>1, <1>7 DEF IInv, FirstRound, FirstOK
  <2> QED BY <1>1, <1>4, <2>1, FirstRoundStep DEF GoesOn
<1> QED BY <1>5, <1>6, <1>8, <1>9, <1>10, <1>11 DEF IInv

(* What the pending operations on a slot do when its socket goes away.     *)
ConnFails(e) ==
  \/ conn'[e] = conn[e]
  \/ conn[e] \in {"connecting", "last"} /\ conn'[e] = "failed"

LoopFails(r) ==
  \/ loop'[r] = loop[r]
  \/ loop[r] = "waiting" /\ loop'[r] = "failed"

AbortFacts(i) ==
  /\ AbortConn(i) \in [Id -> ConnStates]
  /\ AbortLoop(i) \in [Reader -> LoopStates]
  /\ \A d \in Id :
       \/ AbortConn(i)[d] = conn[d]
       \/ conn[d] \in {"connecting", "last"} /\ AbortConn(i)[d] = "failed"
  /\ \A r \in Reader :
       \/ AbortLoop(i)[r] = loop[r]
       \/ loop[r] = "waiting" /\ AbortLoop(i)[r] = "failed"

LEMMA Abort == ASSUME Typed, NEW i \in 0 .. Slots - 1 PROVE AbortFacts(i)
BY DEF Typed, AbortFacts, AbortConn, AbortLoop, ConnStates, LoopStates

LEMMA FillStep ==
  ASSUME IInv, NEW c \in Thread, Fill(c)
  PROVE  IInv'
<1>0. PICK d, k, p : d = call[c].id /\ k = call[c].kind /\ p = call[c].parent
  OBVIOUS
<1>00. d \in Id
  BY <1>0 DEF Fill, IInv, Calling, Drawn
<1> USE <1>00
<1> DEFINE i == Index(d)
           f == Filled(c, d, k)
<1>1. /\ d < alloc /\ kind[d] = "none" /\ owner[d] = NoOne
      /\ i \in 0 .. Slots - 1
      /\ c = Poll \/ c \in Service
      /\ c = Poll => /\ k = "accept" /\ p \in Reader /\ p[1] \in Id /\ p[1] # d
                     /\ loop[p] = "accepted" /\ kind[p[1]] = "listen"
      /\ c \in Service => k \in {"listen", "connect"}
  <2>1. d < alloc /\ kind[d] = "none" /\ call[c].pc = "fill"
    BY <1>0 DEF Fill, IInv, Calling, Drawn
  <2>2. c = Poll => /\ k = "accept" /\ p \in Reader
                    /\ loop[p] = "accepted" /\ kind[p[1]] = "listen"
    BY <1>0, <2>1 DEF IInv, Calling, Known
  <2> QED BY <1>0, <2>1, <2>2, IndexIn, Readers DEF Thread, IInv, Calling, Known
<1>2. /\ slot' = [slot EXCEPT ![i] = f]
      /\ kind' = [kind EXCEPT ![d] = k]
      /\ call' = [call EXCEPT ![c] = Idle]
      /\ conn' = AbortConn(i)
      /\ UNCHANGED <<alloc, to, starts, owner, due, asked, told, answers, stray>>
  BY <1>0 DEF Fill
<1>3. /\ f \in SlotRecord /\ f.id = d /\ f.sock # "none"
      /\ f.close = slot[i].close
      /\ k = "listen" => f.type = "plisten"
  <2>1. At(d) \in SlotRecord
    BY <1>1 DEF At, IInv, Typed
  <2>2. k = "accept" => At(p[1]) \in SlotRecord
    BY <1>1, IndexIn, NamesAssumption DEF At, IInv, Typed
  <2>3. f.opaque \in Service \cup {NoOne}
    BY <1>0, <1>1, <2>2 DEF Filled, SlotRecord
  <2> QED BY <1>1, <2>1, <2>3 DEF Filled, SlotRecord, Types, At
<1> HIDE DEF f
<1>4. /\ slot'[i] = f
      /\ \A j \in 0 .. Slots - 1 : j # i => slot'[j] = slot[j]
  BY <1>1, <1>2 DEF IInv, Typed
<1>5. /\ kind' \in [Id -> Kinds] /\ kind'[d] = k
      /\ \A e \in Id : e # d => kind'[e] = kind[e]
  BY <1>1, <1>2 DEF IInv, Typed, Kinds
<1>6. call'[c] = Idle /\ \A b \in Thread : b # c => call'[b] = call[b]
  BY <1>2 DEF IInv, Typed
<1>7. conn' \in [Id -> ConnStates] /\ \A e \in Id : ConnFails(e)
  BY <1>1, <1>2, Abort DEF AbortFacts, IInv, ConnFails
<1>8. /\ loop' \in [Reader -> LoopStates]
      /\ c = Poll => loop'[p] \in {"waiting", "over"}
      /\ \A r \in Reader : (c = Poll => r # p) => LoopFails(r)
  <2>1. AbortFacts(i)
    BY <1>1, Abort DEF IInv
  <2>2. CASE c = Poll
    <3>1. PICK x \in {"waiting", "over"} :
            loop' = [AbortLoop(i) EXCEPT ![p] = x]
      BY <1>0, <1>1, <2>2 DEF Fill
    <3> QED BY <1>1, <2>1, <2>2, <3>1 DEF AbortFacts, LoopStates, LoopFails
  <2>3. CASE c \in Service
    <3>1. loop' = AbortLoop(i) /\ c # Poll
      BY <1>0, <1>1, <2>3, NamesAssumption DEF Fill
    <3> QED BY <2>1, <3>1 DEF AbortFacts, LoopFails
  <2> QED BY <1>1, <2>2, <2>3
<1>9. \/ posted' = posted
      \/ /\ posted' = Append(posted, [op |-> k, id |-> d, n |-> 0, from |-> c])
         /\ k \in {"listen", "connect"}
  BY <1>0, <1>1, NamesAssumption DEF Fill
<1>10. Typed'
  <2>1. slot' \in [0 .. Slots - 1 -> SlotRecord]
    BY <1>1, <1>2, <1>3 DEF IInv, Typed
  <2>2. Idle \in CallRecord
    BY DEF Idle, CallRecord, Types
  <2>3. call' \in [Thread -> CallRecord]
    BY <1>2, <2>2 DEF IInv, Typed
  <2>4. posted' \in Seq(Entry)
    <3>1. CASE posted' = posted
      BY <3>1 DEF IInv, Typed
    <3>2. CASE posted' # posted
      <4> DEFINE e == [op |-> k, id |-> d, n |-> 0, from |-> c]
      <4>1. e \in Entry
        BY <1>1, <1>9, <3>2, BoundsAssumption DEF Entry, Operations
      <4> HIDE DEF e
      <4>2. AppendFacts(posted, e)
        BY <4>1, AppendEntry DEF IInv, Typed
      <4> QED BY <1>9, <3>2, <4>2 DEF e, AppendFacts
    <3> QED BY <3>1, <3>2
  <2> QED BY <1>2, <1>5, <1>7, <1>8, <2>1, <2>3, <2>4 DEF IInv, Typed
<1>11. Calling'
  <2>1. \A b \in Thread :
          /\ call'[b].pc = "idle" => call'[b] = Idle
          /\ call'[b].pc \in {"draw", "probe"} => call'[b].tries > 0
          /\ Drawn(b)' => /\ call'[b].id \in Id
                          /\ call'[b].id < alloc'
                          /\ kind'[call'[b].id] = "none"
    <3> SUFFICES ASSUME NEW b \in Thread, b # c
                 PROVE  /\ call[b].pc = "idle" => call[b] = Idle
                        /\ call[b].pc \in {"draw", "probe"} => call[b].tries > 0
                        /\ Drawn(b) => /\ call[b].id \in Id
                                       /\ call[b].id < alloc
                                       /\ kind'[call[b].id] = "none"
      BY <1>2, <1>6 DEF Idle, Drawn
    <3>1. Drawn(b) => call[b].id # d
      BY <1>0 DEF IInv, Calling, Fill, Drawn
    <3> QED BY <1>5, <3>1 DEF IInv, Calling
  <2>2. \A b \in Service :
          call'[b].pc # "idle" => /\ call'[b].kind \in {"listen", "connect"}
                                  /\ call'[b].parent = NoReader
    BY <1>6 DEF IInv, Calling, Idle, Thread
  <2>3. call'[Poll].pc # "idle" =>
          call'[Poll].kind = "accept" /\ call'[Poll].parent \in Reader
    BY <1>6 DEF IInv, Calling, Idle, Thread
  <2>4. \A r \in Reader : loop'[r] = "accepted" <=> call'[Poll].parent = r
    <3>1. CASE c = Poll
      <4>1. call'[Poll].parent = NoReader
        BY <1>6, <3>1 DEF Idle
      <4>2. \A r \in Reader : r # p => loop[r] # "accepted"
        BY <1>0, <3>1 DEF IInv, Calling
      <4> QED BY <1>8, <3>1, <4>1, <4>2, Readers DEF LoopFails
    <3>2. CASE c # Poll
      <4>1. call'[Poll] = call[Poll]
        BY <1>6, <3>2 DEF Thread
      <4> QED BY <1>8, <3>2, <4>1 DEF IInv, Calling, LoopFails
    <3> QED BY <3>1, <3>2
  <2>5. \A a, b \in Thread :
          Drawn(a)' /\ Drawn(b)' /\ call'[a].id = call'[b].id => a = b
    BY <1>6 DEF IInv, Calling, Idle, Drawn
  <2> QED BY <2>1, <2>2, <2>3, <2>4, <2>5 DEF Calling
<1>12. Known'
  <2>1. ASSUME NEW e \in Id
        PROVE  /\ kind'[e] # "none" => e < alloc
               /\ kind'[e] = "none" => /\ owner[e] = NoOne /\ e \notin asked
                                      /\ told[e] = 0 /\ answers[e] = 0
               /\ conn'[e] # "none" => kind'[e] = "connect"
               /\ answers[e] > 0 => conn'[e] = "over" /\ answers[e] = 1
    <3>1. CASE e = d
      <4>1. conn[e] = "none" /\ answers[e] = 0
        BY <1>1, <3>1 DEF IInv, Known
      <4> QED BY <1>1, <1>5, <1>7, <3>1, <4>1 DEF ConnFails
    <3>2. CASE e # d
      BY <1>5, <1>7, <3>2 DEF IInv, Known, ConnFails
    <3> QED BY <3>1, <3>2
  <2>2. ASSUME NEW r \in Reader
        PROVE  /\ loop'[r] # "none" => owner[r[1]] # NoOne /\ r[2] <= starts[r[1]]
               /\ loop'[r] = "accepted" => kind'[r[1]] = "listen"
    <3>1. r[1] \in Id /\ (r[1] = d => loop[r] = "none")
      BY <1>1, Readers DEF IInv, Known
    <3>2. CASE c = Poll /\ r = p
      BY <1>1, <1>8, <3>2 DEF IInv, Known
    <3>3. CASE c = Poll => r # p
      BY <1>5, <1>8, <3>1, <3>3 DEF IInv, Known, LoopFails
    <3> QED BY <3>2, <3>3
  <2> QED BY <1>2, <2>1, <2>2 DEF Known
<1>13. Placed'
  <2> SUFFICES ASSUME NEW j \in 0 .. Slots - 1
               PROVE  /\ slot'[j].sock = "none" <=> slot'[j].id = 0
                      /\ slot'[j].id # 0 => /\ Index(slot'[j].id) = j
                                            /\ kind'[slot'[j].id] # "none"
    BY DEF Placed
  <2>1. CASE j = i
    BY <1>1, <1>3, <1>4, <1>5, <2>1, MaxIdAssumption DEF Id
  <2>2. CASE j # i
    <3>1. slot[j].id # 0 => slot[j].id \in Id /\ slot[j].id # d
      BY <1>1, <2>2 DEF IInv, Typed, SlotRecord, Placed
    <3> QED BY <1>4, <1>5, <2>2, <3>1 DEF IInv, Placed
  <2> QED BY <2>1, <2>2
<1>14. ASSUME NEW e \in Id, e # d
       PROVE  \/ Index(e) # i /\ slot'[Index(e)] = slot[Index(e)]
              \/ Index(e) = i /\ slot'[Index(e)].id # e
  <2>1. Index(e) \in 0 .. Slots - 1
    BY IndexIn
  <2>2. CASE Index(e) = i
    BY <1>3, <1>4, <1>14, <2>2
  <2>3. CASE Index(e) # i
    BY <1>4, <2>1, <2>3
  <2> QED BY <2>2, <2>3
<1>15. Left'
  BY <1>1, <1>2, <1>14 DEF IInv, Left, Known, At
<1>16. Queued'
  <2>1. ASSUME NEW e \in Elements(posted) PROVE EntryOK(e)'
    <3>1. EntryOK(e) /\ e \in Entry
      BY ElementsType DEF IInv, Queued, Typed
    <3>2. e.id \in Id /\ e.n \in 0 .. MaxStart /\ e.id # d
      BY <1>1, <3>1 DEF EntryOK, Entry
    <3>3. ASSUME e.op = "loop" PROVE loop'[<<e.id, e.n>>] = "spawned"
      <4>1. <<e.id, e.n>> \in Reader /\ loop[<<e.id, e.n>>] = "spawned"
        BY <3>1, <3>2, <3>3, Readers, BoundsAssumption DEF EntryOK
      <4> QED BY <1>1, <1>8, <4>1 DEF LoopFails
    <3> QED BY <1>2, <1>5, <1>7, <3>1, <3>2, <3>3 DEF EntryOK, ConnFails
  <2>2. CASE posted' = posted
    BY <2>1, <2>2 DEF IInv, Queued
  <2>3. CASE posted' # posted
    <3>1. PICK g \in Entry : /\ posted' = Append(posted, g)
                             /\ g.id = d /\ g.op \in {"listen", "connect"} /\ g.op = k
      <4> DEFINE h == [op |-> k, id |-> d, n |-> 0, from |-> c]
      <4>1. h \in Entry /\ h.id = d /\ h.op = k /\ k \in {"listen", "connect"}
        BY <1>1, <1>9, <2>3, BoundsAssumption DEF Entry, Operations
      <4>2. posted' = Append(posted, h)
        BY <1>9, <2>3
      <4> HIDE DEF h
      <4> QED BY <4>1, <4>2
    <3>2. AppendFacts(posted, g)
      BY AppendEntry DEF IInv, Typed
    <3>3. conn'[d] = "none"
      BY <1>1, <1>7 DEF IInv, Known, ConnFails
    <3>4. EntryOK(g)'
      BY <1>5, <3>1, <3>3 DEF EntryOK
    <3>5. \A e \in Elements(posted) : ~ SameWork(e, g)
      BY <1>1, <3>1 DEF IInv, Queued, EntryOK, SameWork
    <3> QED BY <2>1, <3>1, <3>2, <3>4, <3>5 DEF IInv, Queued, AppendFacts
  <2> QED BY <2>2, <2>3
<1>17. Owned'
  BY <1>1, <1>2, <1>14 DEF IInv, Owned, At
<1>18. FirstRound'
  <2>1. ASSUME alloc <= Slots + 1 PROVE FirstOK(d)'
    <3>1. ~ slot[i].close
      BY <1>1, <2>1, SlotsAssumption DEF IInv, FirstRound, FirstOK, At, Typed, Id
    <3>2. /\ slot'[Index(d)].id = d /\ ~ slot'[Index(d)].close
          /\ k = "listen" => slot'[Index(d)].type = "plisten"
      BY <1>3, <1>4, <3>1
    <3>3. \A r \in Reader : r[1] = d => loop'[r] = "none"
      <4>1. \A r \in Reader : r[1] = d => loop[r] = "none"
        BY <1>1 DEF IInv, Known
      <4> QED BY <1>1, <1>8, <4>1 DEF LoopFails
    <3>4. k = "listen" => Solo(d)'
      BY <3>2, <3>3 DEF Solo, At
    <3> QED BY <1>1, <1>5, <3>2, <3>4 DEF FirstOK, At
  <2>2. \A r \in Reader : r[1] # d => GoesOn(r)
    BY <1>1, <1>8 DEF LoopFails, GoesOn
  <2> QED BY <1>1, <1>2, <1>4, <1>5, <2>1, <2>2, FirstRoundStep
<1> QED BY <1>10, <1>11, <1>12, <1>13, <1>15, <1>16, <1>17, <1>18 DEF IInv

(* socket_start and close_socket.                                          *)
LEMMA SocketStartStep ==
  ASSUME IInv, NEW s \in Service, NEW d \in Id, SocketStart(s, d)
  PROVE  IInv'
<1>1. /\ kind[d] # "none"
      /\ UNCHANGED <<slot, alloc, call, conn, loop, to, kind, starts, owner, due,
                     asked, told, answers, stray>>
  BY DEF SocketStart, history
<1>2. PICK g \in Entry : /\ posted' = Append(posted, g)
                         /\ g.op = "start" /\ g.id = d /\ g.from = s
  <2> DEFINE h == [op |-> "start", id |-> d, n |-> 0, from |-> s]
  <2>1. h \in Entry /\ h.op = "start" /\ h.id = d /\ h.from = s
    BY BoundsAssumption DEF Entry, Operations, Thread
  <2>2. posted' = Append(posted, h)
    BY DEF SocketStart
  <2> HIDE DEF h
  <2> QED BY <2>1, <2>2
<1>3. AppendFacts(posted, g)
  BY AppendEntry DEF IInv, Typed
<1>4. Typed'
  BY <1>1, <1>2, <1>3 DEF IInv, Typed, AppendFacts
<1>5. Queued'
  <2>1. ASSUME NEW e \in Elements(posted) PROVE EntryOK(e)'
    BY <1>1 DEF IInv, Queued, EntryOK
  <2>2. EntryOK(g)'
    BY <1>1, <1>2 DEF EntryOK
  <2>3. \A e \in Elements(posted) : ~ SameWork(e, g)
    BY <1>2 DEF SameWork
  <2> QED BY <1>2, <1>3, <2>1, <2>2, <2>3 DEF IInv, Queued, AppendFacts
<1>6. FirstRound'
  BY <1>1, FirstRoundSame DEF IInv, Typed, GoesOn
<1> QED BY <1>1, <1>4, <1>5, <1>6
        DEF IInv, Calling, Drawn, Known, Placed, Left, Owned, At

LEMMA CloseSocketStep ==
  ASSUME IInv, NEW s \in Service, NEW d \in Id, CloseSocket(s, d)
  PROVE  IInv'
<1>1. /\ kind[d] # "none"
      /\ asked' = asked \cup {d}
      /\ UNCHANGED <<slot, alloc, call, conn, loop, to, kind, starts, owner, due,
                     told, answers, stray>>
  BY DEF CloseSocket
<1>2. PICK g \in Entry : /\ posted' = Append(posted, g)
                         /\ g.op = "close" /\ g.id = d
  <2> DEFINE h == [op |-> "close", id |-> d, n |-> 0, from |-> s]
  <2>1. h \in Entry /\ h.op = "close" /\ h.id = d
    BY BoundsAssumption DEF Entry, Operations, Thread
  <2>2. posted' = Append(posted, h)
    BY DEF CloseSocket
  <2> HIDE DEF h
  <2> QED BY <2>1, <2>2
<1>3. AppendFacts(posted, g)
  BY AppendEntry DEF IInv, Typed
<1>4. Typed'
  BY <1>1, <1>2, <1>3 DEF IInv, Typed, AppendFacts
<1>5. Known' /\ Left'
  BY <1>1 DEF IInv, Known, Left, At
<1>6. Queued'
  <2>1. ASSUME NEW e \in Elements(posted) PROVE EntryOK(e)'
    BY <1>1 DEF IInv, Queued, EntryOK
  <2>2. EntryOK(g)'
    BY <1>1, <1>2 DEF EntryOK
  <2>3. \A e \in Elements(posted) : ~ SameWork(e, g)
    BY <1>2 DEF SameWork
  <2> QED BY <1>2, <1>3, <2>1, <2>2, <2>3 DEF IInv, Queued, AppendFacts
<1>7. FirstRound'
  BY <1>1, FirstRoundSame DEF IInv, Typed, GoesOn
<1> QED BY <1>1, <1>4, <1>5, <1>6, <1>7
        DEF IInv, Calling, Drawn, Placed, Owned, At

(* The handler that runs is taken from those posted; what it relies on     *)
(* holds, and no other does its work.                                      *)
HandlerFacts(d) ==
  /\ Tail(posted) \in Seq(Entry)
  /\ Elements(Tail(posted)) \subseteq Elements(posted)
  /\ Apart(Tail(posted))
  /\ \A e \in Elements(Tail(posted)) :
       /\ e \in Entry /\ e.id \in Id /\ e.n \in 0 .. MaxStart
       /\ EntryOK(e)
       /\ ~ SameWork(e, Head(posted))
  /\ Head(posted) \in Entry
  /\ Head(posted).id = d /\ Head(posted).n \in 0 .. MaxStart
  /\ EntryOK(Head(posted))
  /\ d \in Id

LEMMA Handler ==
  ASSUME IInv, posted # << >>
  PROVE  HandlerFacts(Head(posted).id)
<1>1. TailFacts(posted)
  BY TailEntry DEF IInv, Typed
<1>2. \A e \in Elements(Tail(posted)) : e \in Entry /\ e.id \in Id /\ e.n \in 0 .. MaxStart
  BY <1>1, ElementsType DEF TailFacts, Entry
<1>3. Head(posted).id \in Id /\ Head(posted).n \in 0 .. MaxStart
  BY <1>1 DEF TailFacts, Entry
<1> QED BY <1>1, <1>2, <1>3 DEF HandlerFacts, TailFacts, IInv, Queued

LEMMA RunListenStep ==
  ASSUME IInv, NEW d \in Id, RunListen(d)
  PROVE  IInv'
<1>1. /\ posted' = Tail(posted)
      /\ UNCHANGED <<slot, alloc, call, conn, loop, to, kind, starts, owner, due,
                     asked, told, answers, stray>>
      /\ HandlerFacts(d)
  BY Handler DEF RunListen, NextHandler, history
<1>2. Typed'
  BY <1>1 DEF IInv, Typed, HandlerFacts
<1>3. Queued'
  <2>1. ASSUME NEW e \in Elements(Tail(posted)) PROVE EntryOK(e)'
    BY <1>1 DEF HandlerFacts, EntryOK
  <2> QED BY <1>1, <2>1 DEF Queued, HandlerFacts
<1>4. FirstRound'
  BY <1>1, FirstRoundSame DEF IInv, Typed, GoesOn
<1> QED BY <1>1, <1>2, <1>3, <1>4
        DEF IInv, Calling, Drawn, Known, Placed, Left, Owned, At

LEMMA RunConnectStep ==
  ASSUME IInv, NEW d \in Id, RunConnect(d)
  PROVE  IInv'
<1>1. /\ posted' = Tail(posted)
      /\ Head(posted).op = "connect" /\ Head(posted).id = d
      /\ UNCHANGED <<slot, alloc, call, loop, to, kind, starts, owner, due, asked,
                     told, answers, stray>>
      /\ HandlerFacts(d)
  BY Handler DEF RunConnect, NextHandler, history
<1>2. kind[d] = "connect" /\ conn[d] = "none"
  BY <1>1 DEF HandlerFacts, EntryOK
<1>3. /\ conn' \in [Id -> ConnStates]
      /\ \A e \in Id : e # d => conn'[e] = conn[e]
  BY DEF RunConnect, IInv, Typed, ConnStates
<1>4. Typed'
  BY <1>1, <1>3 DEF IInv, Typed, HandlerFacts
<1>5. Known'
  BY <1>1, <1>2, <1>3 DEF IInv, Known
<1>6. Queued'
  <2>1. ASSUME NEW e \in Elements(Tail(posted)) PROVE EntryOK(e)'
    <3>1. e.id \in Id /\ EntryOK(e) /\ ~ SameWork(e, Head(posted))
      BY <1>1 DEF HandlerFacts
    <3>2. e.op = "connect" => e.id # d
      BY <1>1, <3>1 DEF SameWork
    <3> QED BY <1>1, <1>3, <3>1, <3>2 DEF EntryOK
  <2> QED BY <1>1, <2>1 DEF Queued, HandlerFacts
<1>7. FirstRound'
  BY <1>1, FirstRoundSame DEF IInv, Typed, GoesOn
<1> QED BY <1>1, <1>4, <1>5, <1>6, <1>7
        DEF IInv, Calling, Drawn, Placed, Left, Owned, At

(* The connect coroutine, once it has begun; it is over when it answers.   *)
(* It may close the socket that others in its slot wait for.               *)
ConnectMoves(d) ==
  /\ conn[d] \notin {"none", "over"}
  /\ conn' \in [Id -> ConnStates]
  /\ \A e \in Id : e # d => ConnFails(e)
  /\ loop' \in [Reader -> LoopStates]
  /\ \A r \in Reader : LoopFails(r)
  /\ \/ answers' = answers
     \/ answers' = [answers EXCEPT ![d] = answers[d] + 1] /\ conn'[d] = "over"
  /\ UNCHANGED <<alloc, call, posted, to, kind, starts, owner, due, asked, told,
                 stray>>

LEMMA ConnectMove ==
  ASSUME IInv, NEW d \in Id, ConnectMoves(d)
  PROVE  /\ Known' /\ Calling' /\ Queued'
         /\ answers' \in [Id -> Nat]
         /\ d < alloc /\ kind[d] = "connect"
         /\ \A r \in Reader : GoesOn(r)
<1>1. answers[d] = 0 /\ kind[d] = "connect" /\ d < alloc
  BY DEF IInv, Typed, Known, ConnectMoves
<1>2. /\ answers' \in [Id -> Nat]
      /\ answers'[d] > 0 => conn'[d] = "over" /\ answers'[d] = 1
      /\ \A e \in Id : e # d => answers'[e] = answers[e]
  <2>1. answers \in [Id -> Nat]
    BY DEF IInv, Typed
  <2>2. CASE answers' = answers
    BY <1>1, <2>1, <2>2
  <2>3. CASE answers' = [answers EXCEPT ![d] = answers[d] + 1] /\ conn'[d] = "over"
    <3>1. answers' = [answers EXCEPT ![d] = 1]
      BY <1>1, <2>3
    <3> QED BY <2>1, <2>3, <3>1
  <2> QED BY <2>2, <2>3 DEF ConnectMoves
<1>3. \A r \in Reader : GoesOn(r)
  BY DEF ConnectMoves, LoopFails, GoesOn
<1>4. Known'
  BY <1>1, <1>2 DEF IInv, Known, ConnectMoves, ConnFails, LoopFails
<1>5. Calling'
  BY DEF IInv, Calling, Drawn, ConnectMoves, LoopFails
<1>6. Queued'
  <2>1. ASSUME NEW e \in Elements(posted) PROVE EntryOK(e)'
    <3>1. e.id \in Id /\ e.n \in 0 .. MaxStart /\ EntryOK(e)
      BY ElementsType DEF IInv, Typed, Entry, Queued
    <3>2. conn[e.id] = "none" => conn'[e.id] = "none"
      BY <3>1 DEF ConnectMoves, ConnFails
    <3>3. ASSUME e.op = "loop" PROVE loop'[<<e.id, e.n>>] = "spawned"
      BY <3>1, <3>3, Readers, BoundsAssumption DEF EntryOK, ConnectMoves, LoopFails
    <3> QED BY <3>1, <3>2, <3>3 DEF EntryOK, ConnectMoves
  <2> QED BY <2>1 DEF IInv, Queued, ConnectMoves
<1> QED BY <1>1, <1>2, <1>3, <1>4, <1>5, <1>6

LEMMA ConnectStill ==
  ASSUME IInv, NEW d \in Id, ConnectMoves(d), slot' = slot
  PROVE  IInv'
<1>1. /\ Known' /\ Calling' /\ Queued'
      /\ answers' \in [Id -> Nat]
      /\ \A r \in Reader : GoesOn(r)
  BY ConnectMove
<1>2. Typed'
  BY <1>1 DEF IInv, Typed, ConnectMoves
<1>3. FirstRound'
  BY <1>1, FirstRoundSame DEF IInv, Typed, ConnectMoves
<1> QED BY <1>1, <1>2, <1>3 DEF IInv, Placed, Left, Owned, At, ConnectMoves

LEMMA ResolveStep ==
  ASSUME IInv, NEW d \in Id, Resolve(d)
  PROVE  IInv'
<1>1. AbortFacts(Index(d))
  BY IndexIn, Abort DEF IInv
<1>2. PICK x \in {"connecting", "crash", "over"} :
        /\ \/ conn' = [AbortConn(Index(d)) EXCEPT ![d] = x]
           \/ conn' = [conn EXCEPT ![d] = x]
        /\ loop' \in {loop, AbortLoop(Index(d))}
        /\ \/ answers' = answers
           \/ answers' = [answers EXCEPT ![d] = answers[d] + 1] /\ x = "over"
  BY DEF Resolve
<1>3. conn' \in [Id -> ConnStates] /\ conn'[d] = x /\ \A e \in Id : e # d => ConnFails(e)
  <2>1. x \in ConnStates /\ conn \in [Id -> ConnStates]
    BY <1>2 DEF ConnStates, IInv, Typed
  <2>2. CASE conn' = [AbortConn(Index(d)) EXCEPT ![d] = x]
    BY <1>1, <2>1, <2>2 DEF AbortFacts, ConnFails
  <2>3. CASE conn' = [conn EXCEPT ![d] = x]
    BY <2>1, <2>3 DEF ConnFails
  <2> QED BY <1>2, <2>2, <2>3
<1>4. loop' \in [Reader -> LoopStates] /\ \A r \in Reader : LoopFails(r)
  BY <1>1, <1>2 DEF AbortFacts, LoopFails, IInv, Typed
<1>5. ConnectMoves(d) /\ slot' = slot
  BY <1>2, <1>3, <1>4 DEF Resolve, ConnectMoves
<1> QED BY <1>5, ConnectStill

LEMMA ConnectOpStep ==
  ASSUME IInv, NEW d \in Id, ConnectOp(d)
  PROVE  IInv'
<1>1. conn' \in [Id -> ConnStates] /\ \A e \in Id : e # d => ConnFails(e)
  BY DEF ConnectOp, IInv, Typed, ConnStates, ConnFails
<1>2. ConnectMoves(d) /\ slot' = slot
  BY <1>1 DEF ConnectOp, ConnectMoves, history, IInv, Typed, LoopFails
<1> QED BY <1>2, ConnectStill

LEMMA ConnectNextStep ==
  ASSUME IInv, NEW d \in Id, ConnectNext(d)
  PROVE  IInv'
<1>1. AbortFacts(Index(d))
  BY IndexIn, Abort DEF IInv
<1>2. PICK x \in {"last", "failed"} :
        /\ \/ conn' = [AbortConn(Index(d)) EXCEPT ![d] = x]
           \/ conn' = [conn EXCEPT ![d] = x]
        /\ loop' \in {loop, AbortLoop(Index(d))}
  BY DEF ConnectNext
<1>3. conn' \in [Id -> ConnStates] /\ conn'[d] = x /\ \A e \in Id : e # d => ConnFails(e)
  <2>1. x \in ConnStates /\ conn \in [Id -> ConnStates]
    BY <1>2 DEF ConnStates, IInv, Typed
  <2>2. CASE conn' = [AbortConn(Index(d)) EXCEPT ![d] = x]
    BY <1>1, <2>1, <2>2 DEF AbortFacts, ConnFails
  <2>3. CASE conn' = [conn EXCEPT ![d] = x]
    BY <2>1, <2>3 DEF ConnFails
  <2> QED BY <1>2, <2>2, <2>3
<1>4. loop' \in [Reader -> LoopStates] /\ \A r \in Reader : LoopFails(r)
  BY <1>1, <1>2 DEF AbortFacts, LoopFails, IInv, Typed
<1>5. ConnectMoves(d) /\ slot' = slot
  BY <1>3, <1>4 DEF ConnectNext, ConnectMoves, history
<1> QED BY <1>5, ConnectStill

LEMMA ConnectResumeStep ==
  ASSUME IInv, NEW d \in Id, ConnectResume(d)
  PROVE  IInv'
<1>0. PICK i \in 0 .. Slots - 1 : i = Index(d)
  BY IndexIn
<1>1. conn' \in [Id -> ConnStates] /\ \A e \in Id : e # d => ConnFails(e)
  BY DEF ConnectResume, IInv, Typed, ConnStates, ConnFails
<1>2. answers' = [answers EXCEPT ![d] = answers[d] + 1] /\ conn'[d] = "over"
  BY DEF ConnectResume, IInv, Typed
<1>3. ConnectMoves(d)
  BY <1>1, <1>2 DEF ConnectResume, ConnectMoves, IInv, Typed, LoopFails
<1>4. CASE slot' = slot
  BY <1>3, <1>4, ConnectStill
<1>5. CASE slot' # slot
  <2> DEFINE x == [slot[i] EXCEPT !.type = "connected"]
  <2>1. slot[i] \in SlotRecord
    BY DEF IInv, Typed
  <2>2. slot' = [slot EXCEPT ![i] = x]
    BY <1>0, <1>5 DEF ConnectResume
  <2>3. /\ x \in SlotRecord
        /\ x.id = slot[i].id /\ x.sock = slot[i].sock
        /\ x.opaque = slot[i].opaque /\ x.close = slot[i].close
    BY <2>1 DEF SlotRecord, Types
  <2> HIDE DEF x
  <2>4. /\ slot' \in [0 .. Slots - 1 -> SlotRecord]
        /\ \A j \in 0 .. Slots - 1 :
             /\ slot'[j].id = slot[j].id /\ slot'[j].sock = slot[j].sock
             /\ slot'[j].opaque = slot[j].opaque /\ slot'[j].close = slot[j].close
             /\ j # i => slot'[j] = slot[j]
    BY <2>2, <2>3 DEF IInv, Typed
  <2>5. /\ Known' /\ Calling' /\ Queued'
        /\ answers' \in [Id -> Nat]
        /\ d < alloc /\ kind[d] = "connect"
        /\ \A r \in Reader : GoesOn(r)
    BY <1>3, ConnectMove
  <2>6. Typed'
    BY <1>3, <2>4, <2>5 DEF IInv, Typed, ConnectMoves
  <2>7. \A e \in Id : /\ At(e)'.id = At(e).id /\ At(e)'.opaque = At(e).opaque
                      /\ At(e)'.close = At(e).close
    BY <2>4, IndexIn DEF At
  <2>8. Placed'
    BY <1>3, <2>4 DEF IInv, Placed, ConnectMoves
  <2>9. Left' /\ Owned'
    BY <1>3, <2>7 DEF IInv, Left, Owned, ConnectMoves
  <2>10. alloc <= Slots + 1 => FirstOK(d)'
    BY <1>3, <2>5, <2>7 DEF IInv, FirstRound, FirstOK, ConnectMoves
  <2>11. FirstRound'
    BY <1>0, <1>3, <2>4, <2>5, <2>10, FirstRoundStep DEF ConnectMoves
  <2> QED BY <2>5, <2>6, <2>8, <2>9, <2>11 DEF IInv
<1> QED BY <1>4, <1>5

(* The loop of a socket, once it has been spawned; what it reads goes to   *)
(* the service it is due.                                                  *)
LoopMoves(r) ==
  /\ loop[r] \in {"spawned", "waiting", "done", "failed"}
  /\ loop' \in [Reader -> LoopStates]
  /\ loop'[r] \notin {"none", "spawned", "accepted"}
  /\ \A q \in Reader : q # r => loop'[q] = loop[q]
  /\ to' \in [Reader -> Service \cup {NoOne}]
  /\ due' \in [Reader -> Service \cup {NoOne}]
  /\ \A q \in Reader : to'[q] = due'[q]
  /\ stray' = {}
  /\ UNCHANGED <<slot, alloc, call, conn, kind, starts, owner, asked, told, answers>>

LEMMA LoopMove ==
  ASSUME IInv, NEW r \in Reader, LoopMoves(r)
  PROVE  /\ Calling' /\ Known' /\ Owned' /\ FirstRound'
         /\ posted' \in Seq(Entry) => Typed'
<1>1. posted' \in Seq(Entry) => Typed'
  BY DEF IInv, Typed, LoopMoves
<1>2. Calling'
  BY DEF IInv, Calling, Drawn, LoopMoves
<1>3. Known'
  BY DEF IInv, Known, LoopMoves
<1>4. Owned'
  BY DEF IInv, Owned, At, LoopMoves
<1>5. FirstRound'
  BY FirstRoundSame DEF IInv, Typed, LoopMoves, GoesOn
<1> QED BY <1>1, <1>2, <1>3, <1>4, <1>5

LEMMA LoopStill ==
  ASSUME IInv, NEW r \in Reader, LoopMoves(r), posted' = posted, loop[r] # "spawned"
  PROVE  IInv'
<1>1. Calling' /\ Known' /\ Owned' /\ FirstRound' /\ Typed'
  BY LoopMove DEF IInv, Typed
<1>2. Queued'
  <2>1. ASSUME NEW e \in Elements(posted) PROVE EntryOK(e)'
    <3>1. e.id \in Id /\ e.n \in 0 .. MaxStart /\ EntryOK(e)
      BY ElementsType DEF IInv, Typed, Entry, Queued
    <3>2. ASSUME e.op = "loop" PROVE loop'[<<e.id, e.n>>] = "spawned"
      BY <3>1, <3>2, Readers, BoundsAssumption DEF EntryOK, LoopMoves
    <3> QED BY <3>1, <3>2 DEF EntryOK, LoopMoves
  <2> QED BY <2>1 DEF IInv, Queued
<1> QED BY <1>1, <1>2 DEF IInv, Placed, Left, At, LoopMoves

LEMMA LoopOpStep ==
  ASSUME IInv, NEW r \in Reader, LoopOp(r)
  PROVE  IInv'
<1>1. /\ loop' \in [Reader -> LoopStates]
      /\ \A q \in Reader : q # r => loop'[q] = loop[q]
      /\ loop'[r] \in {"done", "failed"} /\ loop[r] = "waiting"
  BY DEF LoopOp, IInv, Typed, LoopStates
<1>2. LoopMoves(r) /\ posted' = posted
  BY <1>1 DEF LoopOp, LoopMoves, history, IInv, Typed, Owned
<1> QED BY <1>1, <1>2, LoopStill

(* A turn of a read loop begins with the service in the slot, which is the *)
(* one that started the connection last.                                   *)
LEMMA AgainMoves ==
  ASSUME IInv, NEW r \in Reader, loop[r] \in {"spawned", "done"}, ReadAgain(r)
  PROVE  /\ loop' \in [Reader -> LoopStates]
         /\ loop'[r] \notin {"none", "spawned", "accepted"}
         /\ \A q \in Reader : q # r => loop'[q] = loop[q]
         /\ to' \in [Reader -> Service \cup {NoOne}]
         /\ due' \in [Reader -> Service \cup {NoOne}]
         /\ \A q \in Reader : to'[q] = due'[q]
<1>1. PICK d \in Id : d = r[1] /\ owner[d] # NoOne
  BY Readers DEF IInv, Known
<1>2. Reading(slot, d) => At(d).opaque = owner[d]
  BY <1>1 DEF IInv, Owned, Reading, At
<1>3. PICK x \in {"waiting", "over"}, y \in Service \cup {NoOne} :
        /\ loop' = [loop EXCEPT ![r] = x]
        /\ to' = [to EXCEPT ![r] = y]
        /\ due' = [due EXCEPT ![r] = y]
  <2>1. owner[d] \in Service \cup {NoOne}
    BY DEF IInv, Typed
  <2> QED BY <1>1, <1>2, <2>1 DEF ReadAgain
<1> QED BY <1>3 DEF IInv, Typed, Owned, LoopStates

LEMMA ReadResumeStep ==
  ASSUME IInv, NEW r \in Reader, ReadResume(r)
  PROVE  IInv'
<1>1. loop[r] = "done" /\ ReadAgain(r) /\ posted' = posted
  BY DEF ReadResume
<1>2. stray' = {}
  BY DEF ReadResume, IInv, Owned
<1>3. LoopMoves(r)
  BY <1>1, <1>2, AgainMoves DEF ReadResume, LoopMoves
<1> QED BY <1>1, <1>3, LoopStill

LEMMA ReadFailStep ==
  ASSUME IInv, NEW r \in Reader, ReadFail(r)
  PROVE  IInv'
<1>1. /\ loop' \in [Reader -> LoopStates] /\ loop'[r] = "over"
      /\ \A q \in Reader : q # r => loop'[q] = loop[q]
      /\ to' \in [Reader -> Service \cup {NoOne}]
      /\ due' \in [Reader -> Service \cup {NoOne}]
      /\ \A q \in Reader : to'[q] = due'[q]
  BY DEF ReadFail, IInv, Typed, Owned, LoopStates
<1>2. LoopMoves(r) /\ posted' = posted /\ loop[r] = "failed"
  BY <1>1 DEF ReadFail, LoopMoves, IInv, Owned
<1> QED BY <1>2, LoopStill

LEMMA AcceptResumeStep ==
  ASSUME IInv, NEW r \in Reader, AcceptResume(r)
  PROVE  IInv'
<1> DEFINE x == [Idle EXCEPT !.pc = "draw", !.kind = "accept", !.tries = Slots,
                             !.parent = r]
<1>1. /\ call' = [call EXCEPT ![Poll] = x]
      /\ loop' = [loop EXCEPT ![r] = "accepted"]
      /\ loop[r] = "done" /\ kind[r[1]] = "listen" /\ call[Poll] = Idle
      /\ UNCHANGED <<slot, alloc, posted, conn, to, kind, starts, owner, due, asked,
                     told, answers, stray>>
  BY DEF AcceptResume, Accepts, history, PollFree, Free, IInv, Calling, Thread
<1>2. /\ x \in CallRecord
      /\ x.pc = "draw" /\ x.kind = "accept" /\ x.tries = Slots /\ x.parent = r
  BY SlotsAssumption DEF Idle, CallRecord, Types
<1> HIDE DEF x
<1>3. /\ loop' \in [Reader -> LoopStates] /\ loop'[r] = "accepted"
      /\ \A q \in Reader : q # r => loop'[q] = loop[q]
  BY <1>1 DEF IInv, Typed, LoopStates
<1>4. /\ call'[Poll] = x
      /\ \A c \in Thread : c # Poll => call'[c] = call[c]
  BY <1>1 DEF IInv, Typed, Thread
<1>5. Typed'
  <2>1. call' \in [Thread -> CallRecord]
    BY <1>1, <1>2 DEF IInv, Typed
  <2> QED BY <1>1, <1>3, <2>1 DEF IInv, Typed
<1>6. Calling'
  <2>1. \A c \in Service : c # Poll /\ c \in Thread
    BY NamesAssumption DEF Thread
  <2>2. \A q \in Reader : loop[q] # "accepted"
    BY <1>1, Readers DEF IInv, Calling, Idle
  <2>3. \A c \in Thread :
          /\ call'[c].pc = "idle" => call'[c] = Idle
          /\ call'[c].pc \in {"draw", "probe"} => call'[c].tries > 0
          /\ Drawn(c)' => /\ call'[c].id \in Id
                          /\ call'[c].id < alloc'
                          /\ kind'[call'[c].id] = "none"
    BY <1>1, <1>2, <1>4, SlotsAssumption DEF IInv, Calling, Drawn
  <2>4. \A c \in Service :
          call'[c].pc # "idle" => /\ call'[c].kind \in {"listen", "connect"}
                                  /\ call'[c].parent = NoReader
    BY <1>4, <2>1 DEF IInv, Calling
  <2>5. \A q \in Reader : loop'[q] = "accepted" <=> call'[Poll].parent = q
    BY <1>2, <1>3, <1>4, <2>2
  <2>6. \A b, c \in Thread :
          Drawn(b)' /\ Drawn(c)' /\ call'[b].id = call'[c].id => b = c
    BY <1>2, <1>4 DEF IInv, Calling, Drawn
  <2> QED BY <1>2, <1>4, <2>3, <2>4, <2>5, <2>6 DEF Calling
<1>7. Known'
  BY <1>1, <1>3 DEF IInv, Known
<1>8. Queued'
  <2>1. ASSUME NEW e \in Elements(posted) PROVE EntryOK(e)'
    <3>1. e.id \in Id /\ e.n \in 0 .. MaxStart /\ EntryOK(e)
      BY ElementsType DEF IInv, Typed, Entry, Queued
    <3>2. ASSUME e.op = "loop" PROVE loop'[<<e.id, e.n>>] = "spawned"
      BY <1>1, <1>3, <3>1, <3>2, Readers, BoundsAssumption DEF EntryOK
    <3> QED BY <1>1, <3>1, <3>2 DEF EntryOK
  <2> QED BY <1>1, <2>1 DEF IInv, Queued
<1>9. FirstRound'
  BY <1>1, <1>3, FirstRoundSame DEF IInv, Typed, GoesOn
<1> QED BY <1>1, <1>5, <1>6, <1>7, <1>8, <1>9 DEF IInv, Placed, Left, Owned, At

LEMMA RunLoopStep ==
  ASSUME IInv, NEW d \in Id, RunLoop(d)
  PROVE  IInv'
<1>1. /\ posted' = Tail(posted)
      /\ Head(posted).op = "loop" /\ Head(posted).id = d
      /\ UNCHANGED <<slot, alloc, call, conn, kind, starts, owner, asked, told,
                     answers, stray>>
      /\ HandlerFacts(d)
  BY Handler DEF RunLoop, NextHandler
<1>2. PICK r \in Reader : r = <<d, Head(posted).n>> /\ loop[r] = "spawned"
  BY <1>1, Readers, BoundsAssumption DEF HandlerFacts, EntryOK
<1>3. LoopMoves(r)
  <2>1. CASE At(d).sock = "acceptor"
    <3>1. PICK x \in {"waiting", "over"} : loop' = [loop EXCEPT ![r] = x]
      BY <1>2, <2>1 DEF RunLoop
    <3>2. to' = to /\ due' = due
      BY <2>1 DEF RunLoop
    <3> QED BY <1>1, <1>2, <3>1, <3>2 DEF LoopMoves, IInv, Typed, Owned, LoopStates
  <2>2. CASE At(d).sock # "acceptor"
    <3>1. ReadAgain(r)
      BY <1>2, <2>2 DEF RunLoop
    <3> QED BY <1>1, <1>2, <3>1, AgainMoves DEF LoopMoves, IInv, Owned
  <2> QED BY <2>1, <2>2
<1>4. Calling' /\ Known' /\ Owned' /\ FirstRound' /\ Typed'
  BY <1>1, <1>3, LoopMove DEF HandlerFacts
<1>5. Queued'
  <2>1. ASSUME NEW e \in Elements(Tail(posted)) PROVE EntryOK(e)'
    <3>1. /\ e.id \in Id /\ e.n \in 0 .. MaxStart /\ EntryOK(e)
          /\ ~ SameWork(e, Head(posted))
      BY <1>1 DEF HandlerFacts
    <3>2. ASSUME e.op = "loop" PROVE loop'[<<e.id, e.n>>] = "spawned"
      <4>1. <<e.id, e.n>> \in Reader /\ loop[<<e.id, e.n>>] = "spawned"
        BY <3>1, <3>2, Readers, BoundsAssumption DEF EntryOK
      <4>2. <<e.id, e.n>> # r
        BY <1>1, <1>2, <3>1, <3>2 DEF SameWork
      <4> QED BY <1>3, <4>1, <4>2 DEF LoopMoves
    <3> QED BY <1>1, <3>1, <3>2 DEF EntryOK
  <2> QED BY <1>1, <2>1 DEF Queued, HandlerFacts
<1> QED BY <1>1, <1>4, <1>5 DEF IInv, Placed, Left, At

LEMMA RunStartStep ==
  ASSUME IInv, NEW d \in Id, RunStart(d)
  PROVE  IInv'
<1>0. PICK i, s : i = Index(d) /\ s = Head(posted).from
  OBVIOUS
<1>00. i \in 0 .. Slots - 1
  BY <1>0, IndexIn
<1> USE <1>00
<1>1. /\ Head(posted).op = "start" /\ Head(posted).id = d
      /\ UNCHANGED <<alloc, call, conn, to, kind, due, asked, told, answers, stray>>
      /\ HandlerFacts(d)
      /\ s \in Service
  BY <1>0, Handler DEF RunStart, NextHandler, HandlerFacts, EntryOK
<1>2. kind[d] # "none" /\ d < alloc /\ slot[i] \in SlotRecord /\ s # NoOne
  BY <1>1, NamesAssumption DEF HandlerFacts, EntryOK, IInv, Known, Typed
<1>3. CASE ~ CheckPstart(d)
  <2>1. posted' = Tail(posted) /\ UNCHANGED <<slot, starts, owner, loop>>
    BY <1>3 DEF RunStart
  <2>2. Typed'
    BY <1>1, <2>1 DEF IInv, Typed, HandlerFacts
  <2>3. Queued'
    <3>1. ASSUME NEW e \in Elements(Tail(posted)) PROVE EntryOK(e)'
      BY <1>1, <2>1 DEF HandlerFacts, EntryOK
    <3> QED BY <1>1, <2>1, <3>1 DEF Queued, HandlerFacts
  <2>4. FirstRound'
    BY <1>1, <2>1, FirstRoundSame DEF IInv, Typed, GoesOn
  <2> QED BY <1>1, <2>1, <2>2, <2>3, <2>4
          DEF IInv, Calling, Drawn, Known, Placed, Left, Owned, At
<1>4. CASE CheckPstart(d)
  <2>0. PICK n \in 1 .. MaxStart : n = starts[d] + 1
    BY <1>4, BoundsAssumption DEF RunStart, StartBound, IInv, Typed
  <2>1. PICK r \in Reader : /\ r = <<d, n>> /\ r[1] = d /\ r[2] = n
                            /\ loop[r] = "none"
    <3>1. PICK q \in Reader : q = <<d, n>> /\ q[1] = d /\ q[2] = n
      BY Readers
    <3>2. loop[q] # "none" => n <= starts[d]
      BY <3>1 DEF IInv, Known
    <3>3. starts[d] \in Nat
      BY BoundsAssumption DEF IInv, Typed
    <3>4. loop[q] = "none"
      BY <2>0, <3>2, <3>3
    <3> QED BY <3>1, <3>4
  <2>2. /\ slot[i].id = d /\ ~ slot[i].close
        /\ slot[i].type \in {"paccept", "plisten", "connected"}
    BY <1>0, <1>4 DEF CheckPstart, At
  <2>3. PICK t \in {"listen", "connected"} :
          /\ slot' = [slot EXCEPT ![i].type = t, ![i].opaque = s]
          /\ slot[i].type = "plisten" => t = "listen"
    BY <1>0, <1>4 DEF RunStart
  <2> DEFINE x == [slot[i] EXCEPT !.type = t, !.opaque = s]
  <2>4. slot' = [slot EXCEPT ![i] = x]
    BY <2>3 DEF IInv, Typed
  <2>5. /\ x \in SlotRecord
        /\ x.id = d /\ x.sock = slot[i].sock /\ ~ x.close
        /\ x.type = t /\ x.opaque = s
    BY <1>1, <1>2, <2>2 DEF SlotRecord, Types
  <2> HIDE DEF x
  <2>6. /\ slot' \in [0 .. Slots - 1 -> SlotRecord]
        /\ slot'[i] = x
        /\ \A j \in 0 .. Slots - 1 : j # i => slot'[j] = slot[j]
    BY <2>4, <2>5 DEF IInv, Typed
  <2>7. /\ loop' \in [Reader -> LoopStates] /\ loop'[r] = "spawned"
        /\ \A q \in Reader : q # r => loop'[q] = loop[q]
    BY <1>0, <1>4, <2>0, <2>1 DEF RunStart, IInv, Typed, LoopStates
  <2>8. /\ starts' \in [Id -> 0 .. MaxStart] /\ starts'[d] = n
        /\ \A e \in Id : e # d => starts'[e] = starts[e]
        /\ owner' \in [Id -> Service \cup {NoOne}] /\ owner'[d] = s
        /\ \A e \in Id : e # d => owner'[e] = owner[e]
    BY <1>0, <1>1, <1>4, <2>0, BoundsAssumption DEF RunStart, IInv, Typed
  <2>9. PICK g \in Entry : /\ posted' = Append(Tail(posted), g)
                           /\ g.op = "loop" /\ g.id = d /\ g.n = n
    <3> DEFINE h == [op |-> "loop", id |-> d, n |-> n, from |-> Poll]
    <3>1. h \in Entry /\ h.op = "loop" /\ h.id = d /\ h.n = n
      BY BoundsAssumption DEF Entry, Operations, Thread
    <3>2. posted' = Append(Tail(posted), h)
      BY <1>4, <2>0 DEF RunStart
    <3> HIDE DEF h
    <3> QED BY <3>1, <3>2
  <2>10. AppendFacts(Tail(posted), g)
    BY <1>1, AppendEntry DEF HandlerFacts
  <2>11. Typed'
    BY <1>1, <2>6, <2>7, <2>8, <2>9, <2>10 DEF IInv, Typed, AppendFacts
  <2>12. Calling'
    BY <1>1, <2>1, <2>7 DEF IInv, Calling, Drawn
  <2>13. Known'
    <3>1. ASSUME NEW e \in Id, kind[e] = "none" PROVE owner'[e] = NoOne
      BY <1>2, <2>8, <3>1 DEF IInv, Known
    <3>2. ASSUME NEW q \in Reader, loop'[q] # "none"
          PROVE  owner'[q[1]] # NoOne /\ q[2] <= starts'[q[1]]
      <4>1. q[1] \in Id /\ q[2] \in Nat
        BY Readers, BoundsAssumption
      <4>2. CASE q = r
        BY <1>2, <2>1, <2>8, <4>2, BoundsAssumption
      <4>3. CASE q # r
        <5>1. owner[q[1]] # NoOne /\ q[2] <= starts[q[1]]
          BY <2>7, <3>2, <4>3 DEF IInv, Known
        <5>2. starts[d] \in Nat /\ starts[d] <= starts'[d]
          BY <2>0, <2>8, BoundsAssumption DEF IInv, Typed
        <5>3. CASE q[1] = d
          <6>1. q[2] <= starts[d] /\ starts[d] \in Nat /\ n = starts[d] + 1
            BY <2>0, <5>1, <5>2, <5>3
          <6>2. q[2] <= n
            BY <4>1, <6>1
          <6> QED BY <1>2, <2>8, <5>3, <6>2
        <5>4. CASE q[1] # d
          BY <2>8, <4>1, <5>1, <5>4
        <5> QED BY <5>3, <5>4
      <4> QED BY <4>2, <4>3
    <3> QED BY <1>1, <2>7, <3>1, <3>2 DEF IInv, Known
  <2>14. Placed'
    BY <1>1, <2>2, <2>5, <2>6 DEF IInv, Placed
  <2>15. ASSUME NEW e \in Id
         PROVE  /\ slot'[Index(e)].id = slot[Index(e)].id
                /\ e = d => slot'[Index(e)].opaque = s
                /\ e # d /\ slot'[Index(e)].id = e =>
                     slot'[Index(e)].opaque = slot[Index(e)].opaque
    <3>1. Index(e) \in 0 .. Slots - 1
      BY IndexIn
    <3>2. CASE Index(e) = i
      BY <1>0, <2>2, <2>5, <2>6, <3>2
    <3>3. CASE Index(e) # i
      BY <1>0, <2>6, <3>1, <3>3
    <3> QED BY <3>2, <3>3
  <2>16. Left'
    BY <1>1, <2>15 DEF IInv, Left, At
  <2>17. Owned'
    BY <1>1, <2>8, <2>15 DEF IInv, Owned, At
  <2>18. Queued'
    <3>1. ASSUME NEW e \in Elements(Tail(posted)) PROVE EntryOK(e)' /\ ~ SameWork(e, g)
      <4>1. e.id \in Id /\ e.n \in 0 .. MaxStart /\ EntryOK(e)
        BY <1>1 DEF HandlerFacts
      <4>2. ASSUME e.op = "loop"
            PROVE  loop'[<<e.id, e.n>>] = "spawned" /\ <<e.id, e.n>> # r
        BY <2>1, <2>7, <4>1, <4>2, Readers, BoundsAssumption DEF EntryOK
      <4> QED BY <1>1, <2>1, <2>9, <4>1, <4>2 DEF EntryOK, SameWork
    <3>2. EntryOK(g)'
      BY <1>1, <1>2, <2>1, <2>7, <2>9, BoundsAssumption DEF EntryOK
    <3> QED BY <1>1, <2>9, <2>10, <3>1, <3>2 DEF Queued, AppendFacts, HandlerFacts
  <2>19. FirstRound'
    <3>1. ASSUME alloc <= Slots + 1 PROVE FirstOK(d)'
      <4>1. FirstOK(d)
        BY <3>1 DEF IInv, FirstRound
      <4>2. ASSUME Solo(d) PROVE Solo(d)'
        <5>1. slot[i].type = "plisten"
          BY <1>0, <2>2, <4>2 DEF Solo, At
        <5>2. \A q \in Reader : q[1] = d => loop[q] = "none"
          BY <1>0, <4>2, <5>1 DEF Solo, At
        <5>3. slot'[Index(d)].type = "listen" /\ ~ slot'[Index(d)].close
          BY <1>0, <2>3, <2>5, <2>6, <5>1
        <5> QED BY <2>7, <5>2, <5>3 DEF Solo, At
      <4>3. slot'[Index(d)].id = d /\ ~ slot'[Index(d)].close
        BY <1>0, <2>5, <2>6
      <4> QED BY <1>1, <1>2, <4>1, <4>2, <4>3 DEF FirstOK, At
    <3>2. \A q \in Reader : q[1] # d => GoesOn(q)
      BY <2>1, <2>7 DEF GoesOn
    <3> QED BY <1>0, <1>1, <1>2, <2>6, <3>1, <3>2, FirstRoundStep
  <2> QED BY <2>11, <2>12, <2>13, <2>14, <2>16, <2>17, <2>18, <2>19 DEF IInv
<1> QED BY <1>3, <1>4

(* A slot is emptied, or marked closed.                                    *)
Frees(i) ==
  \/ slot' = [slot EXCEPT ![i] = Empty]
  \/ slot' = [slot EXCEPT ![i] = [slot[i] EXCEPT !.close = TRUE]]

FreesFacts(i) ==
  /\ slot' \in [0 .. Slots - 1 -> SlotRecord]
  /\ \A j \in 0 .. Slots - 1 : j # i => slot'[j] = slot[j]
  /\ \/ slot'[i] = Empty
     \/ /\ slot'[i].id = slot[i].id /\ slot'[i].sock = slot[i].sock
        /\ slot'[i].opaque = slot[i].opaque /\ slot'[i].type = slot[i].type
  /\ \A e \in Id : slot'[Index(e)].id = e =>
       /\ slot[Index(e)].id = e
       /\ slot'[Index(e)].opaque = slot[Index(e)].opaque

LEMMA FreeSlot ==
  ASSUME Typed, NEW i \in 0 .. Slots - 1, Frees(i)
  PROVE  FreesFacts(i)
<1> DEFINE r == [slot[i] EXCEPT !.close = TRUE]
<1>1. slot[i] \in SlotRecord /\ Empty \in SlotRecord /\ Empty.id = 0
  BY DEF Typed, Empty, SlotRecord, Types
<1>2. /\ r \in SlotRecord
      /\ r.id = slot[i].id /\ r.sock = slot[i].sock
      /\ r.opaque = slot[i].opaque /\ r.type = slot[i].type
  BY <1>1 DEF SlotRecord
<1>3. PICK x \in {Empty, r} : slot' = [slot EXCEPT ![i] = x]
  BY DEF Frees
<1> HIDE DEF r
<1>4. /\ slot' \in [0 .. Slots - 1 -> SlotRecord]
      /\ slot'[i] = x
      /\ \A j \in 0 .. Slots - 1 : j # i => slot'[j] = slot[j]
  BY <1>1, <1>2, <1>3 DEF Typed
<1>5. ASSUME NEW e \in Id, slot'[Index(e)].id = e
      PROVE  /\ slot[Index(e)].id = e
             /\ slot'[Index(e)].opaque = slot[Index(e)].opaque
  <2>1. Index(e) \in 0 .. Slots - 1 /\ e # 0
    BY IndexIn, MaxIdAssumption DEF Id
  <2>2. CASE Index(e) = i
    BY <1>1, <1>2, <1>4, <1>5, <2>1, <2>2
  <2>3. CASE Index(e) # i
    BY <1>4, <1>5, <2>1, <2>3
  <2> QED BY <2>2, <2>3
<1> QED BY <1>2, <1>4, <1>5 DEF FreesFacts

LEMMA FreesPlaced ==
  ASSUME IInv, NEW i \in 0 .. Slots - 1, FreesFacts(i), UNCHANGED kind
  PROVE  Placed'
BY DEF IInv, Placed, FreesFacts, Empty

(* In the first round the loop that fails is the only one of the acceptor, *)
(* which is not closed yet.                                                *)
LEMMA AcceptFailFirst ==
  ASSUME IInv, NEW r \in Reader, AcceptFail(r), alloc <= Slots + 1
  PROVE  FirstOK(r[1])'
<1>1. PICK d \in Id, i \in 0 .. Slots - 1 : d = r[1] /\ i = Index(d)
  BY Readers, IndexIn
<1>2. /\ loop[r] = "failed" /\ kind[d] = "listen"
      /\ kind' = kind /\ asked' = asked
  BY <1>1 DEF AcceptFail, Accepts, history
<1>3. ASSUME d \notin asked
      PROVE  slot'[i].id = d /\ Solo(d)'
  <2>1. slot[i].id = d /\ Solo(d)
    BY <1>1, <1>2, <1>3 DEF IInv, FirstRound, FirstOK, At
  <2>2. ~ slot[i].close
    BY <1>1, <1>2, <2>1 DEF Solo, At
  <2>3. /\ slot' = [slot EXCEPT ![i].close = TRUE]
        /\ loop' = [loop EXCEPT ![r] = "over"]
    BY <1>1, <2>2 DEF AcceptFail
  <2>4. slot'[i].id = d /\ slot'[i].type = slot[i].type
    BY <2>1, <2>3 DEF IInv, Typed, SlotRecord
  <2>5. /\ loop'[r] = "over"
        /\ \A q \in Reader : loop'[q] = "none" <=> loop[q] = "none"
    BY <1>2, <2>3 DEF IInv, Typed
  <2> QED BY <1>1, <2>1, <2>4, <2>5 DEF Solo, At
<1> QED BY <1>1, <1>2, <1>3 DEF FirstOK, At

LEMMA AcceptFailStep ==
  ASSUME IInv, NEW r \in Reader, AcceptFail(r)
  PROVE  IInv'
<1>0. PICK d \in Id, i \in 0 .. Slots - 1 : d = r[1] /\ i = Index(d)
  BY Readers, IndexIn
<1>1. /\ loop[r] = "failed" /\ kind[d] = "listen" /\ d < alloc
      /\ UNCHANGED <<alloc, call, posted, to, kind, starts, owner, due, asked, told,
                     answers, stray>>
  BY <1>0 DEF AcceptFail, Accepts, history, IInv, Known
<1>2. FreesFacts(i)
  BY <1>0, FreeSlot DEF AcceptFail, Clear, Frees, IInv
<1>3. AbortFacts(i)
  BY Abort DEF IInv
<1>4. conn' \in [Id -> ConnStates] /\ \A e \in Id : ConnFails(e)
  <2>1. conn' \in {conn, AbortConn(i)}
    BY <1>0 DEF AcceptFail, Clear
  <2> QED BY <1>3, <2>1 DEF AbortFacts, ConnFails, IInv, Typed
<1>5. /\ loop' \in [Reader -> LoopStates] /\ loop'[r] = "over"
      /\ \A q \in Reader : q # r => LoopFails(q)
  <2>1. CASE loop' = [AbortLoop(i) EXCEPT ![r] = "over"]
    BY <1>3, <2>1 DEF AbortFacts, LoopFails, LoopStates
  <2>2. CASE loop' = [loop EXCEPT ![r] = "over"]
    BY <2>2 DEF LoopFails, LoopStates, IInv, Typed
  <2> QED BY <1>0, <2>1, <2>2 DEF AcceptFail
<1>6. Typed'
  BY <1>1, <1>2, <1>4, <1>5 DEF IInv, Typed, FreesFacts
<1>7. Calling'
  BY <1>1, <1>5 DEF IInv, Calling, Drawn, LoopFails
<1>8. Known'
  BY <1>1, <1>4, <1>5 DEF IInv, Known, ConnFails, LoopFails
<1>9. Placed'
  BY <1>1, <1>2, FreesPlaced
<1>10. Left' /\ Owned'
  BY <1>1, <1>2 DEF IInv, Left, Owned, At, FreesFacts
<1>11. Queued'
  <2>1. ASSUME NEW e \in Elements(posted) PROVE EntryOK(e)'
    <3>1. e.id \in Id /\ e.n \in 0 .. MaxStart /\ EntryOK(e)
      BY ElementsType DEF IInv, Typed, Entry, Queued
    <3>2. ASSUME e.op = "loop" PROVE loop'[<<e.id, e.n>>] = "spawned"
      BY <1>1, <1>5, <3>1, <3>2, Readers, BoundsAssumption DEF EntryOK, LoopFails
    <3>3. conn[e.id] = "none" => conn'[e.id] = "none"
      BY <1>4, <3>1 DEF ConnFails
    <3> QED BY <1>1, <3>1, <3>2, <3>3 DEF EntryOK
  <2> QED BY <1>1, <2>1 DEF IInv, Queued
<1>12. FirstRound'
  <2>1. \A q \in Reader : q[1] # d => GoesOn(q)
    BY <1>0, <1>5 DEF LoopFails, GoesOn
  <2>2. alloc <= Slots + 1 => FirstOK(d)'
    BY <1>0, AcceptFailFirst
  <2> QED BY <1>0, <1>1, <1>2, <2>1, <2>2, FirstRoundStep DEF FreesFacts
<1> QED BY <1>6, <1>7, <1>8, <1>9, <1>10, <1>11, <1>12 DEF IInv

LEMMA RunCloseStep ==
  ASSUME IInv, NEW d \in Id, RunClose(d)
  PROVE  IInv'
<1>0. PICK i \in 0 .. Slots - 1 : i = Index(d)
  BY IndexIn
<1>1. /\ posted' = Tail(posted)
      /\ Head(posted).op = "close" /\ Head(posted).id = d
      /\ UNCHANGED <<alloc, call, to, kind, starts, owner, due, asked, answers, stray>>
      /\ HandlerFacts(d)
  BY Handler DEF RunClose, NextHandler
<1>2. d \in asked /\ kind[d] # "none" /\ d < alloc
  BY <1>1 DEF HandlerFacts, EntryOK, IInv, Known
<1>3. CASE At(d).id # d \/ At(d).type = "invalid" \/ At(d).close
  <2>1. UNCHANGED <<slot, conn, loop, told>>
    BY <1>3 DEF RunClose
  <2>2. Typed'
    BY <1>1, <2>1 DEF IInv, Typed, HandlerFacts
  <2>3. Queued'
    <3>1. ASSUME NEW e \in Elements(Tail(posted)) PROVE EntryOK(e)'
      BY <1>1, <2>1 DEF HandlerFacts, EntryOK
    <3> QED BY <1>1, <3>1 DEF Queued, HandlerFacts
  <2>4. FirstRound'
    BY <1>1, <2>1, FirstRoundSame DEF IInv, Typed, GoesOn
  <2> QED BY <1>1, <2>1, <2>2, <2>3, <2>4
          DEF IInv, Calling, Drawn, Known, Placed, Left, Owned, At
<1>4. CASE ~ (At(d).id # d \/ At(d).type = "invalid" \/ At(d).close)
  <2>1. /\ conn' = AbortConn(i) /\ loop' = AbortLoop(i)
        /\ slot[i].id = d
        /\ \/ told' = told
           \/ told' = [told EXCEPT ![d] = told[d] + 1] /\ slot' = [slot EXCEPT ![i] = Empty]
        /\ Frees(i)
    BY <1>0, <1>4 DEF RunClose, Clear, At, Frees
  <2>2. AbortFacts(i)
    BY Abort DEF IInv
  <2>3. FreesFacts(i)
    BY <2>1, FreeSlot DEF IInv
  <2>4. told[d] = 0
    BY <1>0, <2>1 DEF IInv, Typed, Left, At
  <2>5. /\ told' \in [Id -> Nat]
        /\ \A e \in Id : e # d => told'[e] = told[e]
        /\ told'[d] > 0 => told'[d] = 1 /\ slot'[i].id # d
    <3>1. told \in [Id -> Nat]
      BY DEF IInv, Typed
    <3>2. CASE told' = told
      BY <2>4, <3>1, <3>2
    <3>3. CASE told' # told
      <4>1. told' = [told EXCEPT ![d] = 1] /\ slot' = [slot EXCEPT ![i] = Empty]
        BY <2>1, <2>4, <3>3
      <4>2. slot'[i].id = 0 /\ d # 0
        BY <4>1, MaxIdAssumption DEF IInv, Typed, Empty, Id
      <4> QED BY <3>1, <4>1, <4>2
    <3> QED BY <3>2, <3>3
  <2>6. /\ conn' \in [Id -> ConnStates] /\ \A e \in Id : ConnFails(e)
        /\ loop' \in [Reader -> LoopStates] /\ \A q \in Reader : LoopFails(q)
    BY <2>1, <2>2 DEF AbortFacts, ConnFails, LoopFails
  <2>7. Typed'
    BY <1>1, <2>3, <2>5, <2>6 DEF IInv, Typed, HandlerFacts, FreesFacts
  <2>8. Calling'
    BY <1>1, <2>6 DEF IInv, Calling, Drawn, LoopFails
  <2>9. Known'
    BY <1>1, <1>2, <2>5, <2>6 DEF IInv, Known, ConnFails, LoopFails
  <2>10. Placed'
    BY <1>1, <2>3, FreesPlaced
  <2>11. Left'
    BY <1>0, <1>1, <1>2, <2>3, <2>5 DEF IInv, Left, At, FreesFacts
  <2>12. Owned'
    BY <1>1, <2>3 DEF IInv, Owned, At, FreesFacts
  <2>13. Queued'
    <3>1. ASSUME NEW e \in Elements(Tail(posted)) PROVE EntryOK(e)'
      <4>1. e.id \in Id /\ e.n \in 0 .. MaxStart /\ EntryOK(e)
        BY <1>1 DEF HandlerFacts
      <4>2. ASSUME e.op = "loop" PROVE loop'[<<e.id, e.n>>] = "spawned"
        BY <2>6, <4>1, <4>2, Readers, BoundsAssumption DEF EntryOK, LoopFails
      <4>3. conn[e.id] = "none" => conn'[e.id] = "none"
        BY <2>6, <4>1 DEF ConnFails
      <4> QED BY <1>1, <4>1, <4>2, <4>3 DEF EntryOK
    <3> QED BY <1>1, <3>1 DEF Queued, HandlerFacts
  <2>14. FirstRound'
    <3>1. FirstOK(d)'
      BY <1>1, <1>2 DEF FirstOK
    <3>2. \A q \in Reader : GoesOn(q)
      BY <2>6 DEF LoopFails, GoesOn
    <3> QED BY <1>0, <1>1, <1>2, <2>3, <3>1, <3>2, FirstRoundStep DEF FreesFacts
  <2> QED BY <2>7, <2>8, <2>9, <2>10, <2>11, <2>12, <2>13, <2>14 DEF IInv
<1> QED BY <1>3, <1>4

-----------------------------------------------------------------------------
LEMMA NextIInv == IInv /\ [Next]_vars => IInv'
<1> SUFFICES ASSUME IInv, [Next]_vars PROVE IInv'
  OBVIOUS
<1>1. CASE UNCHANGED vars
  <2>1. Queued'
    BY <1>1 DEF vars, IInv, Queued, EntryOK
  <2>2. FirstRound'
    BY <1>1, FirstRoundSame DEF vars, IInv, Typed, GoesOn
  <2> QED BY <1>1, <2>1, <2>2
          DEF vars, IInv, Typed, Calling, Drawn, Known, Placed, Left, Owned, At
<1>2. ASSUME NEW s \in Service, NEW k \in {"listen", "connect"}, Open(s, k)
      PROVE  IInv'
  BY <1>2, OpenStep
<1>3. ASSUME NEW s \in Service, NEW d \in Id, SocketStart(s, d) \/ CloseSocket(s, d)
      PROVE  IInv'
  BY <1>3, SocketStartStep, CloseSocketStep
<1>4. ASSUME NEW c \in Thread, Draw(c) \/ Probe(c) \/ Fill(c) PROVE IInv'
  BY <1>4, DrawStep, ProbeStep, FillStep
<1>5. ASSUME NEW d \in Id, RunHandler(d) PROVE IInv'
  BY <1>5, RunListenStep, RunConnectStep, RunStartStep, RunLoopStep, RunCloseStep
     DEF RunHandler
<1>6. ASSUME NEW d \in Id, ConnectStep(d) \/ ConnectOp(d) PROVE IInv'
  BY <1>6, ResolveStep, ConnectNextStep, ConnectResumeStep, ConnectOpStep
     DEF ConnectStep
<1>7. ASSUME NEW r \in Reader, LoopStep(r) \/ LoopOp(r) PROVE IInv'
  BY <1>7, ReadResumeStep, ReadFailStep, AcceptResumeStep, AcceptFailStep, LoopOpStep
     DEF LoopStep
<1> QED BY <1>1, <1>2, <1>3, <1>4, <1>5, <1>6, <1>7 DEF Next

(* The types, and that an id in a slot is one of that slot.                *)
THEOREM SlotTypes == Spec => []TypeOK
<1>1. IInv => TypeOK
  <2> SUFFICES ASSUME IInv PROVE TypeOK
    OBVIOUS
  <2>1. ASSUME NEW i \in 0 .. Slots - 1 PROVE SlotOK(i)
    <3>1. slot[i] \in SlotRecord
      BY DEF IInv, Typed
    <3>2. /\ slot[i].sock = "none" <=> slot[i].id = 0
          /\ slot[i].id # 0 => Index(slot[i].id) = i
      BY DEF IInv, Placed
    <3> QED BY <3>1, <3>2 DEF SlotRecord, SlotOK
  <2>2. DOMAIN slot = 0 .. Slots - 1 /\ alloc \in 1 .. MaxId + 1
    BY DEF IInv, Typed
  <2>3. /\ \A r \in Reader : loop[r] = "accepted" <=> call[Poll].parent = r
        /\ \A d \in Id : kind[d] = "listen" => conn[d] = "none"
    BY DEF IInv, Calling, Known
  <2> QED BY <2>1, <2>2, <2>3 DEF TypeOK
<1> QED BY <1>1, InitIInv, NextIInv, PTL DEF Spec

(* A close is reported at most once, of an id that was asked to close, and *)
(* a connect is answered at most once, whoever reuses the slot meanwhile.  *)
THEOREM ReportedOnce == Spec => []ToldOnce
<1>1. IInv => ToldOnce
  <2> SUFFICES ASSUME IInv, NEW d \in Id
               PROVE  /\ told[d] <= (IF d \in asked THEN 1 ELSE 0)
                      /\ answers[d] <= (IF kind[d] = "connect" THEN 1 ELSE 0)
    BY DEF ToldOnce
  <2>1. told[d] \in Nat /\ answers[d] \in Nat
    BY DEF IInv, Typed
  <2>2. told[d] > 0 => told[d] = 1 /\ d \in asked
    BY DEF IInv, Left
  <2>3. answers[d] > 0 => answers[d] = 1 /\ kind[d] = "connect"
    BY DEF IInv, Known
  <2> QED BY <2>1, <2>2, <2>3
<1> QED BY <1>1, InitIInv, NextIInv, PTL DEF Spec

(* What is read from a connection goes to the service that was the last to *)
(* start it when the read began, however often and by whomever it is       *)
(* started meanwhile, and whatever the slot has come to hold.              *)
THEOREM DataToStarter == Spec => []OwnData
<1>1. IInv => OwnData
  BY DEF IInv, Owned, OwnData
<1> QED BY <1>1, InitIInv, NextIInv, PTL DEF Spec

(* Until alloc comes round an id keeps its slot until its close is asked.  *)
THEOREM SlotKept == Spec => []KeepsSlotFirstRound
<1>1. IInv => KeepsSlotFirstRound
  BY DEF IInv, FirstRound, FirstOK, KeepsSlotFirstRound
<1> QED BY <1>1, InitIInv, NextIInv, PTL DEF Spec
=============================================================================
