------------------------- MODULE HandleStorageProofs ------------------------
(***************************************************************************)
(* A context registered since the handle table last grew is found by its   *)
(* handle, every registered context keeps its slot, no service has the     *)
(* handle 0, handles are not given out again soon and names do not         *)
(* outlive their services, for any number of contexts, handles, slots,     *)
(* names and growths.                                                      *)
(***************************************************************************)
EXTENDS HandleStorage, FiniteSetTheorems, TLAPS

(* A context occupies at most one slot, and none before it is registered.  *)
AtMostOneSlot ==
  \A c \in Context :
    /\ stage[c] = "none" => \A i \in 0 .. size - 1 : slot[i] # c
    /\ \A i, j \in 0 .. size - 1 : slot[i] = c /\ slot[j] = c => i = j

(* The part of TypeOK the proof needs, and how the history of sizes goes:  *)
(* the table only grows, and a context that has been registered has a      *)
(* handle other than 0.                                                    *)
TableOK ==
  /\ size \in Nat \ {0}
  /\ slot \in [0 .. size - 1 -> Context \cup {Nil}]
  /\ handle_index \in 1 .. HANDLE_MASK + 1
  /\ stage \in [Context -> Stages]
  /\ number \in [Context -> Nat]
  /\ era \in [Context -> Nat]
  /\ \A c \in Context :
       /\ era[c] <= size
       /\ stage[c] # "none" <=> era[c] # 0
       /\ stage[c] # "none" => number[c] # 0

TableInv == TableOK /\ AtMostOneSlot /\ FoundSinceGrowth

LEMMA HashInTable ==
  ASSUME NEW h \in Nat, NEW n \in Nat \ {0}
  PROVE  Hash(h, n) \in 0 .. n - 1
BY DEF Hash

LEMMA InitTable == Init => TableInv
<1> SUFFICES ASSUME Init PROVE TableInv
  OBVIOUS
<1>1. TableOK
  BY SlotAssumption DEF Init, TableOK, Stages
<1>2. AtMostOneSlot
  BY NilAssumption, SlotAssumption DEF Init, AtMostOneSlot
<1>3. FoundSinceGrowth
  BY SlotAssumption DEF Init, FoundSinceGrowth, Registered
<1> QED BY <1>1, <1>2, <1>3 DEF TableInv

(* handle_register.                                                        *)
LEMMA RegisterTable ==
  ASSUME TableInv, NEW c \in Context, HandleRegister(c)
  PROVE  TableInv'
<1>0. PICK n \in {size, 2 * size} : \E i \in FreeAt(n) :
        /\ number' = [number EXCEPT ![c] = Candidate(i)]
        /\ slot' = [Resized(n) EXCEPT ![Hash(Candidate(i), n)] = c]
        /\ handle_index' = Candidate(i) + 1
        /\ size' = n
        /\ era' = [era EXCEPT ![c] = n]
  BY DEF HandleRegister
<1>1. PICK i \in FreeAt(n) :
        /\ number' = [number EXCEPT ![c] = Candidate(i)]
        /\ slot' = [Resized(n) EXCEPT ![Hash(Candidate(i), n)] = c]
        /\ handle_index' = Candidate(i) + 1
        /\ size' = n
        /\ era' = [era EXCEPT ![c] = n]
  BY <1>0
<1> DEFINE h == Candidate(i)
           p == Hash(h, n)
<1>2. n \in Nat \ {0} /\ size \in Nat \ {0} /\ size <= n
  BY DEF TableInv, TableOK
<1>3. h \in 1 .. HANDLE_MASK
  <2>1. i \in Nat /\ handle_index - 1 + i \in Nat
    BY <1>2 DEF FreeAt, TableInv, TableOK
  <2>2. (handle_index - 1 + i) % HANDLE_MASK \in 0 .. HANDLE_MASK - 1
    BY <2>1, SlotAssumption
  <2> QED BY <2>2, SlotAssumption DEF Candidate
<1>4. p \in 0 .. n - 1
  BY <1>2, <1>3, HashInTable
<1>5. /\ Resized(n)[p] = Nil
      /\ Resized(n) \in [0 .. n - 1 -> Context \cup {Nil}]
      /\ \A j \in 0 .. n - 1 : Resized(n)[j] = IF j < size THEN slot[j] ELSE Nil
  <2>1. Resized(n)[p] = Nil
    BY DEF FreeAt
  <2>2. \A j \in 0 .. n - 1 : j < size => j \in 0 .. size - 1
    BY <1>2
  <2> QED BY <2>1, <2>2 DEF Resized, TableInv, TableOK
<1> HIDE DEF h, p
<1>6. /\ slot' \in [0 .. n - 1 -> Context \cup {Nil}]
      /\ slot'[p] = c
      /\ \A j \in 0 .. n - 1 : j # p => slot'[j] = Resized(n)[j]
  BY <1>1, <1>4, <1>5 DEF h, p
<1>7. /\ stage[c] = "none"
      /\ stage'[c] = "registered"
      /\ \A d \in Context \ {c} : /\ stage'[d] = stage[d]
                                  /\ number'[d] = number[d]
                                  /\ era'[d] = era[d]
      /\ number'[c] = h
      /\ era'[c] = n
      /\ stage' \in [Context -> Stages]
      /\ number' \in [Context -> Nat]
      /\ era' \in [Context -> Nat]
  BY <1>1, <1>2, <1>3 DEF HandleRegister, TableInv, TableOK, h, Stages
<1>8. TableOK'
  <2>1. handle_index' \in 1 .. HANDLE_MASK + 1
    BY <1>1, <1>3, SlotAssumption DEF h
  <2>2. \A d \in Context : /\ era'[d] <= size'
                           /\ stage'[d] # "none" <=> era'[d] # 0
                           /\ stage'[d] # "none" => number'[d] # 0
    BY <1>1, <1>2, <1>3, <1>7 DEF TableInv, TableOK
  <2> QED BY <1>1, <1>2, <1>6, <1>7, <2>1, <2>2 DEF TableOK
<1>9. ASSUME NEW d \in Context \ {c}, NEW j \in 0 .. n - 1, slot'[j] = d
      PROVE  j \in 0 .. size - 1 /\ slot[j] = d /\ j # p
  <2>1. j # p /\ Resized(n)[j] = d /\ d # Nil
    BY <1>6, <1>9, NilAssumption
  <2> QED BY <1>2, <1>5, <2>1
<1>10. AtMostOneSlot'
  <2>1. \A j \in 0 .. n - 1 : slot'[j] = c => j = p
    <3> SUFFICES ASSUME NEW j \in 0 .. n - 1, slot'[j] = c, j # p PROVE FALSE
      OBVIOUS
    <3>1. Resized(n)[j] = c /\ c # Nil
      BY <1>6, NilAssumption
    <3>2. j \in 0 .. size - 1 /\ slot[j] = c
      BY <1>2, <1>5, <3>1
    <3> QED BY <3>2, <1>7 DEF TableInv, AtMostOneSlot
  <2> QED BY <1>1, <1>7, <1>9, <2>1 DEF TableInv, AtMostOneSlot
<1>11. FoundSinceGrowth'
  <2> SUFFICES ASSUME NEW d \in Context, era'[d] = n, Sole(d)'
               PROVE  /\ d \in Registered' => slot'[Hash(number'[d], n)] = d
                      /\ stage'[d] = "retired" =>
                           \A j \in 0 .. n - 1 : slot'[j] # d
    BY <1>1 DEF FoundSinceGrowth
  <2>1. CASE d = c
    BY <2>1, <1>6, <1>7 DEF p
  <2>2. CASE d # c
    <3>1. era[d] = n /\ n = size
      BY <1>1, <1>2, <1>7, <2>2 DEF TableInv, TableOK
    <3>2. Sole(d)
      <4> SUFFICES ASSUME NEW e \in Context, 0 < era[e], era[e] < era[d]
                   PROVE  number[e] # number[d]
        BY DEF Sole
      <4>1. e # c
        BY <1>7 DEF TableInv, TableOK
      <4> QED BY <4>1, <1>7, <2>2 DEF Sole
    <3>3. ASSUME d \in Registered' PROVE slot'[Hash(number'[d], n)] = d
      <4>1. d \in Registered /\ number'[d] = number[d]
        BY <3>3, <1>7, <2>2 DEF Registered
      <4>2. slot[Hash(number[d], size)] = d
        BY <3>1, <3>2, <4>1 DEF TableInv, FoundSinceGrowth
      <4>3. Hash(number[d], size) \in 0 .. size - 1
        BY <1>2, HashInTable DEF TableInv, TableOK
      <4>4. /\ Hash(number'[d], n) \in 0 .. n - 1
            /\ Resized(n)[Hash(number'[d], n)] = d
        <5>1. Hash(number'[d], n) = Hash(number[d], size)
          BY <3>1, <4>1
        <5>2. \A j \in 0 .. size - 1 : j \in 0 .. n - 1 /\ Resized(n)[j] = slot[j]
          BY <1>2, <1>5
        <5> QED BY <5>1, <5>2, <4>2, <4>3
      <4>5. Hash(number'[d], n) # p
        BY <4>4, <1>5, NilAssumption
      <4> QED BY <4>4, <4>5, <1>6
    <3>4. ASSUME stage'[d] = "retired", NEW j \in 0 .. n - 1, slot'[j] = d
          PROVE  FALSE
      <4>1. stage[d] = "retired" /\ j \in 0 .. size - 1 /\ slot[j] = d
        BY <3>4, <1>7, <1>9, <2>2
      <4> QED BY <3>1, <3>2, <4>1 DEF TableInv, FoundSinceGrowth
    <3> QED BY <3>3, <3>4
  <2> QED BY <2>1, <2>2
<1> QED BY <1>8, <1>10, <1>11 DEF TableInv

(* handle_retire.                                                          *)
LEMMA RetireTable ==
  ASSUME TableInv, NEW c \in Context, HandleRetire(c)
  PROVE  TableInv'
<1> DEFINE h == number[c]
           p == Hash(h, size)
<1>1. /\ stage[c] = "failed" /\ stage'[c] = "retired"
      /\ \A d \in Context \ {c} : stage'[d] = stage[d]
      /\ stage' \in [Context -> Stages]
      /\ UNCHANGED <<size, handle_index, number, era>>
      /\ h \in Nat /\ h # 0 /\ era[c] # 0
      /\ size \in Nat \ {0}
  BY DEF HandleRetire, TableInv, TableOK, Stages
<1>2. p \in 0 .. size - 1
  BY <1>1, HashInTable
<1>3. /\ HandleGrab(h) # Nil => slot' = [slot EXCEPT ![p] = Nil]
      /\ HandleGrab(h) = Nil => slot' = slot
      /\ slot[p] = c => HandleGrab(h) # Nil
  BY <1>1, NilAssumption DEF HandleRetire, HandleGrab, HandleOf
<1>4. /\ slot' \in [0 .. size - 1 -> Context \cup {Nil}]
      /\ \A i \in 0 .. size - 1 : slot'[i] # Nil => slot'[i] = slot[i]
      /\ \A i \in 0 .. size - 1 : i # p => slot'[i] = slot[i]
      /\ slot[p] = c => slot'[p] = Nil
  BY <1>2, <1>3 DEF TableInv, TableOK
<1>5. TableOK'
  BY <1>1, <1>4 DEF TableInv, TableOK
<1>6. AtMostOneSlot'
  BY <1>1, <1>4, NilAssumption DEF TableInv, AtMostOneSlot
<1>7. FoundSinceGrowth'
  <2> SUFFICES ASSUME NEW d \in Context, era[d] = size, Sole(d)
               PROVE  /\ d \in Registered' => slot'[Hash(number[d], size)] = d
                      /\ stage'[d] = "retired" =>
                           \A i \in 0 .. size - 1 : slot'[i] # d
    BY <1>1 DEF FoundSinceGrowth, Sole
  <2>1. CASE d = c
    <3>1. slot[p] = c
      BY <1>1, <2>1 DEF TableInv, FoundSinceGrowth, Registered
    <3>2. \A i \in 0 .. size - 1 : slot'[i] # c
      BY <3>1, <1>2, <1>4, NilAssumption DEF TableInv, AtMostOneSlot
    <3> QED BY <2>1, <3>2, <1>1 DEF Registered
  <2>2. CASE d # c
    <3>1. ASSUME d \in Registered' PROVE slot'[Hash(number[d], size)] = d
      <4>1. d \in Registered
        BY <1>1, <2>2, <3>1 DEF Registered
      <4>2. slot[Hash(number[d], size)] = d
        BY <4>1 DEF TableInv, FoundSinceGrowth
      <4>3. Hash(number[d], size) \in 0 .. size - 1
        BY <1>1, HashInTable DEF TableInv, TableOK
      <4>4. CASE Hash(number[d], size) # p
        BY <4>2, <4>3, <4>4, <1>4
      <4>5. CASE Hash(number[d], size) = p /\ HandleGrab(h) = Nil
        BY <4>2, <4>5, <1>3
      <4>6. CASE Hash(number[d], size) = p /\ HandleGrab(h) # Nil
        <5>1. number[d] = h
          BY <4>2, <4>6, <1>1 DEF HandleGrab, HandleOf
        <5>2. era[c] = size
          <6>1. era[c] \in Nat /\ 0 < era[c] /\ era[c] <= size
            BY <1>1 DEF TableInv, TableOK
          <6>2. ~ (era[c] < size)
            BY <5>1, <6>1 DEF Sole
          <6> QED BY <6>1, <6>2, <1>1
        <5>3. Sole(c)
          BY <5>1, <5>2 DEF Sole
        <5>4. slot[p] = c
          BY <5>2, <5>3, <1>1 DEF TableInv, FoundSinceGrowth, Registered
        <5> QED BY <5>4, <4>2, <4>6, <2>2
      <4> QED BY <4>4, <4>5, <4>6
    <3>2. ASSUME stage'[d] = "retired", NEW i \in 0 .. size - 1, slot'[i] = d
          PROVE  FALSE
      <4>1. stage[d] = "retired" /\ slot[i] = d
        BY <3>2, <1>1, <1>4, <2>2, NilAssumption
      <4> QED BY <4>1 DEF TableInv, FoundSinceGrowth
    <3> QED BY <3>1, <3>2
  <2> QED BY <2>1, <2>2
<1> QED BY <1>5, <1>6, <1>7 DEF TableInv

(* The other steps leave the table alone.                                  *)
LEMMA StageTable ==
  ASSUME TableInv, NEW c \in Context,
         \/ SetHandle(c) \/ SetQueue(c) \/ InitReturns(c)
         \/ \E n \in Name : HandleNamehandle(c, n)
  PROVE  TableInv'
<1>1. /\ UNCHANGED <<slot, size, handle_index, number, era>>
      /\ stage' \in [Context -> Stages]
      /\ \A d \in Context :
           /\ stage'[d] # "none" <=> stage[d] # "none"
           /\ stage'[d] = "retired" <=> stage[d] = "retired"
  BY DEF SetHandle, SetQueue, InitReturns, HandleNamehandle, table,
         TableInv, TableOK, Stages
<1>2. TableOK'
  BY <1>1 DEF TableInv, TableOK
<1>3. AtMostOneSlot'
  BY <1>1 DEF TableInv, AtMostOneSlot
<1>4. FoundSinceGrowth'
  BY <1>1 DEF TableInv, FoundSinceGrowth, Sole, Registered
<1> QED BY <1>2, <1>3, <1>4 DEF TableInv

LEMMA NextTable == TableInv /\ [Next]_vars => TableInv'
<1> SUFFICES ASSUME TableInv, [Next]_vars PROVE TableInv'
  OBVIOUS
<1>1. CASE UNCHANGED vars
  BY <1>1 DEF vars, TableInv, TableOK, AtMostOneSlot, FoundSinceGrowth, Sole,
              Registered
<1>2. ASSUME NEW c \in Context, HandleRegister(c) PROVE TableInv'
  BY <1>2, RegisterTable
<1>3. ASSUME NEW c \in Context, HandleRetire(c) PROVE TableInv'
  BY <1>3, RetireTable
<1>4. ASSUME NEW c \in Context,
             \/ SetHandle(c) \/ SetQueue(c) \/ InitReturns(c)
             \/ \E n \in Name : HandleNamehandle(c, n)
      PROVE  TableInv'
  BY <1>4, StageTable
<1> QED BY <1>1, <1>2, <1>3, <1>4 DEF Next

(* Between two growths of the table a context is found by its handle from  *)
(* its registration until it is retired, and by nobody afterwards.         *)
THEOREM FoundUntilGrowth == Spec => []FoundSinceGrowth
<1>1. TableInv => FoundSinceGrowth
  BY DEF TableInv
<1> QED BY <1>1, InitTable, NextTable, PTL DEF Spec

(* The handle 0 leads at most to a context that has not been numbered.     *)
THEOREM ZeroFree == Spec => []ZeroIsNoService
<1>1. TableInv => ZeroIsNoService
  <2> SUFFICES ASSUME TableInv, HandleGrab(0) # Nil
               PROVE  stage[HandleGrab(0)] = "registered"
    BY DEF ZeroIsNoService
  <2> DEFINE p == Hash(0, size)
             c == slot[p]
  <2>1. p \in 0 .. size - 1
    BY HashInTable DEF TableInv, TableOK
  <2>2. c # Nil /\ HandleOf(c) = 0 /\ HandleGrab(0) = c
    BY DEF HandleGrab
  <2>3. c \in Context
    BY <2>1, <2>2 DEF TableInv, TableOK
  <2>4. stage[c] # "none" /\ number[c] # 0
    BY <2>1, <2>3 DEF TableInv, TableOK, AtMostOneSlot
  <2> QED BY <2>2, <2>4 DEF HandleOf
<1> QED BY <1>1, InitTable, NextTable, PTL DEF Spec

-----------------------------------------------------------------------------
(* The slot a context was given.                                           *)
Place(c) == Hash(number[c], era[c])

(* Every context is where it was put, however often the table has grown,   *)
(* and none that came after a growth with the same handle was put there.   *)
Placed ==
  \A c \in Context :
    c \in Registered /\ Sole(c) =>
      /\ slot[Place(c)] = c
      /\ \A d \in Context :
           era[c] < era[d] /\ number[c] = number[d] => Place(d) # Place(c)

(* The sizes the table has had divide the present one.                     *)
Divides ==
  \A c \in Context : era[c] # 0 => \E k \in Nat : size = k * era[c]

PlaceInv == TableInv /\ Divides /\ Placed

(* The slot a handle leads to in a table, if it is within a smaller table, *)
(* is the slot it led to in that one.                                      *)
LEMMA HashOfPart ==
  ASSUME NEW h \in Nat, NEW n \in Nat \ {0}, NEW k \in Nat, k * n # 0,
         Hash(h, k * n) < n
  PROVE  Hash(h, n) = Hash(h, k * n)
<1> DEFINE m == k * n
           a == h \div m
           r == h % m
<1>1. m \in Nat \ {0}
  OBVIOUS
<1>2. a \in Nat /\ r \in Nat /\ h = a * m + r /\ r < n
  <2> HIDE DEF m
  <2> QED BY <1>1 DEF Hash, m
<1>3. h = (a * k) * n + r /\ a * k \in Nat
  <2> HIDE DEF a, r
  <2> QED BY <1>2
<1>4. \A b \in Nat : (b * n + r) % n = r
  <2> HIDE DEF a, r, m
  <2> QED BY <1>2
<1> HIDE DEF a, r
<1>5. h % n = r
  BY <1>3, <1>4
<1> QED BY <1>5 DEF Hash, r

LEMMA PlaceInTable ==
  ASSUME TableInv, NEW c \in Context, era[c] # 0
  PROVE  Place(c) \in 0 .. era[c] - 1 /\ Place(c) \in 0 .. size - 1
<1>1. /\ era[c] \in Nat \ {0} /\ era[c] <= size /\ size \in Nat
      /\ number[c] \in Nat
  BY DEF TableInv, TableOK
<1>2. Place(c) \in 0 .. era[c] - 1
  BY <1>1, HashInTable DEF Place
<1> QED BY <1>1, <1>2

LEMMA RegisterPlace ==
  ASSUME PlaceInv, NEW c \in Context, HandleRegister(c)
  PROVE  Divides' /\ Placed'
<1>1. PICK n \in {size, 2 * size} : \E i \in FreeAt(n) :
        /\ number' = [number EXCEPT ![c] = Candidate(i)]
        /\ slot' = [Resized(n) EXCEPT ![Hash(Candidate(i), n)] = c]
        /\ size' = n
        /\ era' = [era EXCEPT ![c] = n]
  BY DEF HandleRegister
<1>2. PICK i \in FreeAt(n) :
        /\ number' = [number EXCEPT ![c] = Candidate(i)]
        /\ slot' = [Resized(n) EXCEPT ![Hash(Candidate(i), n)] = c]
        /\ size' = n
        /\ era' = [era EXCEPT ![c] = n]
  BY <1>1
<1> DEFINE p == Hash(Candidate(i), n)
<1>3. n \in Nat \ {0} /\ size \in Nat \ {0} /\ size <= n
  BY DEF PlaceInv, TableInv, TableOK
<1>4. /\ stage[c] = "none" /\ era[c] = 0
      /\ \A d \in Context \ {c} :
           /\ stage'[d] = stage[d] /\ number'[d] = number[d] /\ era'[d] = era[d]
           /\ Place(d)' = Place(d)
      /\ era'[c] = n /\ Place(c)' = p /\ stage'[c] = "registered"
      /\ \A d \in Context : era[d] \in Nat /\ era[d] <= size
  BY <1>2 DEF HandleRegister, PlaceInv, TableInv, TableOK, Place
<1>5. Candidate(i) \in Nat
  <2>1. TableInv'
    BY RegisterTable DEF PlaceInv
  <2>2. number'[c] = Candidate(i)
    BY <1>2 DEF PlaceInv, TableInv, TableOK
  <2> QED BY <2>1, <2>2 DEF TableInv, TableOK
<1>6. /\ p \in 0 .. n - 1 /\ Resized(n)[p] = Nil
      /\ slot'[p] = c
      /\ \A j \in 0 .. size - 1 : slot[j] # Nil => j # p /\ slot'[j] = slot[j]
  <2>1. p \in 0 .. n - 1
    BY <1>3, <1>5, HashInTable
  <2>2. Resized(n)[p] = Nil
    BY DEF FreeAt
  <2> HIDE DEF p
  <2>3. /\ \A j \in 0 .. n - 1 : Resized(n)[j] = IF j < size THEN slot[j] ELSE Nil
        /\ DOMAIN Resized(n) = 0 .. n - 1
    BY DEF Resized
  <2>4. slot'[p] = c /\ \A j \in 0 .. n - 1 : j # p => slot'[j] = Resized(n)[j]
    BY <1>2, <2>1, <2>3 DEF Resized, p
  <2>5. \A j \in 0 .. size - 1 : j \in 0 .. n - 1 /\ j < size
    BY <1>3
  <2> QED BY <2>1, <2>2, <2>3, <2>4, <2>5
<1> HIDE DEF p
<1>7. Divides'
  <2> SUFFICES ASSUME NEW d \in Context, era'[d] # 0
               PROVE  \E k \in Nat : n = k * era'[d]
    BY <1>2 DEF Divides
  <2>1. CASE d = c
    <3>1. n = 1 * era'[d]
      BY <1>3, <1>4, <2>1
    <3> QED BY <3>1
  <2>2. CASE d # c
    <3>1. PICK k \in Nat : size = k * era[d]
      BY <1>4, <2>2 DEF PlaceInv, Divides
    <3>2. n = k * era[d] \/ n = (2 * k) * era[d]
      BY <1>4, <3>1
    <3> QED BY <1>4, <2>2, <3>2
  <2> QED BY <2>1, <2>2
<1>8. Placed'
  <2> SUFFICES ASSUME NEW d \in Context, d \in Registered', Sole(d)'
               PROVE  /\ slot'[Place(d)'] = d
                      /\ \A e \in Context :
                           era'[d] < era'[e] /\ number'[d] = number'[e] =>
                             Place(e)' # Place(d)'
    BY DEF Placed
  <2>1. CASE d = c
    <3>1. \A e \in Context : ~ (era'[d] < era'[e])
      BY <1>3, <1>4, <2>1
    <3> QED BY <1>4, <1>6, <2>1, <3>1
  <2>2. CASE d # c
    <3>1. d \in Registered
      BY <1>4, <2>2 DEF Registered
    <3>2. Sole(d)
      <4> SUFFICES ASSUME NEW e \in Context, 0 < era[e], era[e] < era[d]
                   PROVE  number[e] # number[d]
        BY DEF Sole
      <4>1. e # c
        BY <1>4
      <4> QED BY <1>4, <2>2, <4>1 DEF Sole
    <3>3. /\ slot[Place(d)] = d
          /\ \A e \in Context : era[d] < era[e] /\ number[d] = number[e] =>
               Place(e) # Place(d)
      BY <3>1, <3>2 DEF PlaceInv, Placed
    <3>4. Place(d) \in 0 .. size - 1
      <4>1. era[d] # 0
        BY <3>1 DEF Registered, PlaceInv, TableInv, TableOK
      <4> QED BY <4>1, PlaceInTable DEF PlaceInv
    <3>5. Place(d) # p /\ slot'[Place(d)] = d
      BY <1>6, <3>3, <3>4, NilAssumption
    <3> QED BY <1>4, <2>2, <3>3, <3>5
  <2> QED BY <2>1, <2>2
<1> QED BY <1>7, <1>8

LEMMA RetirePlace ==
  ASSUME PlaceInv, NEW c \in Context, HandleRetire(c)
  PROVE  Divides' /\ Placed'
<1> DEFINE h == number[c]
           p == Hash(h, size)
<1>1. /\ stage[c] = "failed" /\ stage'[c] = "retired"
      /\ \A d \in Context \ {c} : stage'[d] = stage[d]
      /\ UNCHANGED <<size, number, era>>
      /\ h \in Nat /\ era[c] \in Nat \ {0} /\ era[c] <= size
      /\ size \in Nat \ {0} /\ p \in 0 .. size - 1
  BY HashInTable DEF HandleRetire, PlaceInv, TableInv, TableOK
<1>2. \A d \in Context : Place(d)' = Place(d)
  BY <1>1 DEF Place
<1>3. Divides'
  BY <1>1 DEF PlaceInv, Divides
<1>4. ASSUME NEW d \in Context, d \in Registered', Sole(d)'
      PROVE  slot'[Place(d)'] = d
  <2>1. d # c /\ d \in Registered /\ Sole(d)
    BY <1>1, <1>4 DEF Registered, Sole
  <2>2. /\ slot[Place(d)] = d
        /\ era[d] < era[c] /\ number[d] = number[c] => Place(c) # Place(d)
    BY <2>1 DEF PlaceInv, Placed
  <2>3. /\ era[d] \in Nat \ {0} /\ era[d] <= size
        /\ Place(d) \in 0 .. era[d] - 1 /\ Place(d) \in 0 .. size - 1
    <3>1. era[d] # 0
      BY <2>1 DEF Registered, PlaceInv, TableInv, TableOK
    <3> QED BY <3>1, PlaceInTable DEF PlaceInv, TableInv, TableOK
  <2>4. CASE HandleGrab(h) = Nil \/ Place(d) # p
    BY <1>1, <1>2, <2>2, <2>3, <2>4
    DEF HandleRetire, PlaceInv, TableInv, TableOK
  <2>5. CASE HandleGrab(h) # Nil /\ Place(d) = p
    <3>1. number[d] = h
      BY <2>1, <2>2, <2>5, <1>1, NilAssumption
      DEF HandleGrab, HandleOf, PlaceInv, TableInv, TableOK, Registered
    <3>2. era[d] <= era[c]
      BY <1>1, <2>1, <2>3, <3>1 DEF Sole
    <3>3. CASE era[d] = era[c]
      <4>1. Sole(c) /\ c \in Registered
        BY <1>1, <2>1, <3>1, <3>3 DEF Sole, Registered
      <4>2. slot[Place(c)] = c /\ Place(c) = Place(d)
        BY <4>1, <3>1, <3>3 DEF PlaceInv, Placed, Place
      <4> QED BY <4>2, <2>1, <2>2
    <3>4. CASE era[d] < era[c]
      <4>1. PICK k \in Nat : size = k * era[c]
        BY <1>1 DEF PlaceInv, Divides
      <4>2. p < era[c]
        BY <1>1, <2>3, <2>5, <3>4
      <4>3. Hash(h, era[c]) = p
        <5> HIDE DEF h
        <5> QED BY <4>1, <4>2, <1>1, HashOfPart
      <4> QED BY <2>2, <2>5, <3>1, <3>4, <4>3 DEF Place
    <3> QED BY <1>1, <2>3, <3>2, <3>3, <3>4
  <2> QED BY <2>4, <2>5
<1>5. Placed'
  <2> SUFFICES ASSUME NEW d \in Context, d \in Registered', Sole(d)'
               PROVE  \A e \in Context :
                        era[d] < era[e] /\ number[d] = number[e] =>
                          Place(e) # Place(d)
    BY <1>1, <1>2, <1>4 DEF Placed
  <2>1. d \in Registered /\ Sole(d)
    BY <1>1 DEF Registered, Sole
  <2> QED BY <2>1 DEF PlaceInv, Placed
<1> QED BY <1>3, <1>5

LEMMA StagePlace ==
  ASSUME PlaceInv, NEW c \in Context,
         \/ SetHandle(c) \/ SetQueue(c) \/ InitReturns(c)
         \/ \E n \in Name : HandleNamehandle(c, n)
  PROVE  Divides' /\ Placed'
<1>1. /\ UNCHANGED <<slot, size, number, era>>
      /\ \A d \in Context :
           stage'[d] \notin {"none", "retired"} =>
             stage[d] \notin {"none", "retired"}
  BY DEF SetHandle, SetQueue, InitReturns, HandleNamehandle, table,
         PlaceInv, TableInv, TableOK, Stages
<1>2. Registered' \subseteq Registered
  BY <1>1 DEF Registered
<1>3. Divides'
  BY <1>1 DEF PlaceInv, Divides
<1>4. Placed'
  BY <1>1, <1>2 DEF PlaceInv, Placed, Place, Sole
<1> QED BY <1>3, <1>4

(* A context is in the table exactly once from its registration until it   *)
(* is retired, through any number of growths and retirements of others.    *)
THEOREM OneSlotEach == Spec => []InOneSlot
<1>1. Init => PlaceInv
  <2> SUFFICES ASSUME Init PROVE PlaceInv
    OBVIOUS
  <2>1. Divides /\ Placed
    BY DEF Init, Divides, Placed, Registered
  <2> QED BY <2>1, InitTable DEF PlaceInv
<1>2. PlaceInv /\ [Next]_vars => PlaceInv'
  <2> SUFFICES ASSUME PlaceInv, [Next]_vars PROVE PlaceInv'
    OBVIOUS
  <2>1. TableInv'
    BY NextTable DEF PlaceInv
  <2>2. CASE UNCHANGED vars
    BY <2>1, <2>2 DEF vars, PlaceInv, Divides, Placed, Place, Sole, Registered
  <2>3. CASE Next
    <3>1. Divides' /\ Placed'
      BY <2>3, RegisterPlace, RetirePlace, StagePlace DEF Next
    <3> QED BY <2>1, <3>1 DEF PlaceInv
  <2> QED BY <2>2, <2>3
<1>3. PlaceInv => InOneSlot
  <2> SUFFICES ASSUME PlaceInv PROVE InOneSlot
    OBVIOUS
  <2>1. ASSUME NEW c \in Context, c \in Registered, Sole(c)
        PROVE  \E i \in 0 .. size - 1 : slot[i] = c
    <3>1. era[c] # 0
      BY <2>1 DEF Registered, PlaceInv, TableInv, TableOK
    <3>2. Place(c) \in 0 .. size - 1
      BY <3>1, PlaceInTable DEF PlaceInv
    <3> QED BY <2>1, <3>2 DEF PlaceInv, Placed
  <2> QED BY <2>1 DEF PlaceInv, TableInv, AtMostOneSlot, InOneSlot
<1> QED BY <1>1, <1>2, <1>3, PTL DEF Spec

-----------------------------------------------------------------------------
(* The handles go round: where the search ends up, counted from the handle *)
(* of an earlier context, is at most a table further per registration.     *)
Counted == {c \in Context : order[c] > 0}

(* The handle n places after h.                                            *)
Ahead(h, n) == ((h - 1 + n) % HANDLE_MASK) + 1

OrderOK ==
  /\ order \in [Context -> Nat]
  /\ IsFiniteSet(Counted)
  /\ \A c \in Context : /\ stage[c] = "none" <=> order[c] = 0
                        /\ order[c] <= Cardinality(Counted)
                        /\ order[c] # 0 => number[c] \in Handle

Spaced ==
  /\ \A c, d \in Counted : order[c] < order[d] =>
       \E n \in Nat \ {0} : /\ n <= (order[d] - order[c]) * size
                            /\ number[d] = Ahead(number[c], n)
  /\ \A c \in Counted :
       \E n \in Nat : /\ n <= (Cardinality(Counted) - order[c]) * size
                      /\ handle_index = Ahead(number[c], n) + 1

RoundInv == TableInv /\ OrderOK /\ Spaced

LEMMA SumMod ==
  ASSUME NEW a \in Nat, NEW b \in Nat, NEW m \in Nat \ {0}
  PROVE  ((a % m) + b) % m = (a + b) % m
<1> DEFINE q == a \div m
           r == a % m
           y == r + b
           k == y \div m
           z == y % m
<1>1. q \in Nat /\ r \in Nat /\ a = q * m + r
  OBVIOUS
<1>2. y \in Nat /\ a + b = q * m + y
  BY <1>1
<1> HIDE DEF q, r, y
<1>3. k \in Nat /\ z \in 0 .. m - 1 /\ y = k * m + z
  BY <1>2
<1> HIDE DEF k, z
<1>4. a + b = (q + k) * m + z /\ q + k \in Nat
  BY <1>1, <1>2, <1>3
<1>5. \A x \in Nat : (x * m + z) % m = z
  BY <1>3
<1> QED BY <1>4, <1>5 DEF z, y, r

LEMMA AheadTwice ==
  ASSUME NEW h \in Handle, NEW n \in Nat, NEW k \in Nat
  PROVE  /\ Ahead(h, n) \in Handle
         /\ Ahead(Ahead(h, n), k) = Ahead(h, n + k)
<1> DEFINE M == HANDLE_MASK
           a == h - 1 + n
<1>1. M \in Nat \ {0} /\ a \in Nat /\ a + k = h - 1 + (n + k)
  BY SlotAssumption DEF Handle
<1> HIDE DEF a, M
<1>m. ((a % M) + k) % M = (a + k) % M
  BY <1>1, SumMod
<1>2. a % M \in 0 .. M - 1 /\ ((a % M) + k) % M = (a + k) % M
  <2>1. a % M \in 0 .. M - 1
    BY <1>1
  <2> QED BY <1>m, <2>1
<1>3. ((a % M) + 1) - 1 + k = (a % M) + k
  BY <1>1, <1>2
<1>4. (a % M) + 1 \in 1 .. M
  BY <1>1, <1>2
<1> QED BY <1>1, <1>2, <1>3, <1>4 DEF Ahead, Handle, a, M

(* All the way round is HANDLE_MASK places.                                *)
LEMMA AheadRound ==
  ASSUME NEW h \in Handle, NEW n \in Nat \ {0}, Ahead(h, n) = h
  PROVE  HANDLE_MASK <= n
<1> DEFINE M == HANDLE_MASK
           x == h - 1
<1>1. M \in Nat \ {0} /\ x \in 0 .. M - 1
  BY SlotAssumption DEF Handle
<1>2. (x + n) % M = x
  BY <1>1 DEF Ahead
<1> HIDE DEF x, M
<1>3. SUFFICES ASSUME n < M PROVE FALSE
  BY <1>1 DEF M
<1>4. CASE x + n < M
  <2>1. (x + n) % M = x + n
    BY <1>1, <1>4
  <2> QED BY <1>1, <1>2, <2>1
<1>5. CASE x + n >= M
  <2>1. x + n - M \in 0 .. M - 1
    BY <1>1, <1>3, <1>5
  <2>2. (x + n) % M = x + n - M
    <3>1. x + n = 1 * M + (x + n - M)
      BY <1>1
    <3>2. \A z \in 0 .. M - 1 : (1 * M + z) % M = z
      BY <1>1
    <3> QED BY <2>1, <3>1, <3>2
  <2> QED BY <1>1, <1>2, <1>3, <2>2
<1> QED BY <1>1, <1>4, <1>5

LEMMA TimesMonotone ==
  ASSUME NEW a \in Nat, NEW x \in Nat, NEW y \in Nat, x <= y
  PROVE  a * x \in Nat /\ a * y \in Nat /\ a * x <= a * y /\ a * x + y <= (a + 1) * y
<1>1. PICK z \in Nat : y = x + z
  <2>1. y - x \in Nat /\ y = x + (y - x)
    OBVIOUS
  <2> QED BY <2>1
<1>2. a * z \in Nat /\ a * x \in Nat /\ a * y = a * x + a * z
  BY <1>1
<1>3. (a + 1) * y = a * y + y
  OBVIOUS
<1> QED BY <1>1, <1>2, <1>3

LEMMA RegisterRound ==
  ASSUME RoundInv, NEW c \in Context, HandleRegister(c)
  PROVE  RoundInv'
<1> DEFINE K == Cardinality(Counted)
<1>0. TableInv'
  BY RegisterTable DEF RoundInv
<1>1. PICK n \in {size, 2 * size} : \E i \in FreeAt(n) :
        /\ number' = [number EXCEPT ![c] = Candidate(i)]
        /\ handle_index' = Candidate(i) + 1
        /\ size' = n
  BY DEF HandleRegister
<1>2. PICK i \in FreeAt(n) :
        /\ number' = [number EXCEPT ![c] = Candidate(i)]
        /\ handle_index' = Candidate(i) + 1
        /\ size' = n
  BY <1>1
<1>3. /\ size \in Nat \ {0} /\ n \in Nat /\ size <= n
      /\ i \in Nat /\ i + 1 <= n
      /\ handle_index \in 1 .. HANDLE_MASK + 1
  BY DEF RoundInv, TableInv, TableOK, FreeAt
<1>4. PICK h : h = Candidate(i)
  OBVIOUS
<1>5. h \in Handle
  <2> DEFINE a == handle_index - 1 + i
             M == HANDLE_MASK
  <2>1. a \in Nat /\ M \in Nat \ {0}
    BY <1>3, SlotAssumption
  <2> HIDE DEF a, M
  <2>2. a % M \in 0 .. M - 1
    BY <2>1
  <2>3. (a % M) + 1 \in 1 .. M
    BY <2>1, <2>2
  <2> QED BY <1>4, <2>3 DEF Candidate, Handle, a, M
<1>6. /\ IsFiniteSet(Counted) /\ K \in Nat /\ c \notin Counted
      /\ order \in [Context -> Nat]
      /\ stage[c] = "none" /\ order' = [order EXCEPT ![c] = 1 + K]
      /\ \A d \in Counted : d \in Context /\ order[d] \in 1 .. K /\ number[d] \in Handle
  <2>1. IsFiniteSet(Counted) /\ K \in Nat
    BY FS_CardinalityType DEF RoundInv, OrderOK
  <2>2. order' = [order EXCEPT ![c] = 1 + K] /\ stage[c] = "none"
    BY DEF HandleRegister, Counted
  <2>3. /\ \A d \in Context : order[d] \in Nat /\ order[d] <= K
                             /\ (order[d] # 0 => number[d] \in Handle)
        /\ order[c] = 0 /\ order \in [Context -> Nat]
    BY <2>2 DEF RoundInv, OrderOK
  <2> HIDE DEF K
  <2> QED BY <2>1, <2>2, <2>3 DEF Counted
<1>7. /\ order'[c] = K + 1 /\ order' \in [Context -> Nat]
      /\ \A d \in Context \ {c} : order'[d] = order[d] /\ number'[d] = number[d]
                                 /\ stage'[d] = stage[d]
      /\ number'[c] = h /\ stage'[c] = "registered"
  <2>1. order'[c] = K + 1 /\ order' \in [Context -> Nat]
        /\ \A d \in Context \ {c} : order'[d] = order[d]
    <3> HIDE DEF K
    <3> QED BY <1>6
  <2>2. number'[c] = h /\ \A d \in Context \ {c} : number'[d] = number[d]
    BY <1>2, <1>4 DEF RoundInv, TableInv, TableOK
  <2>3. stage'[c] = "registered" /\ \A d \in Context \ {c} : stage'[d] = stage[d]
    BY DEF HandleRegister, RoundInv, TableInv, TableOK
  <2> QED BY <2>1, <2>2, <2>3
<1>8. Counted' = Counted \cup {c}
  <2> HIDE DEF K
  <2>1. \A d \in Context : order'[d] > 0 <=> order[d] > 0 \/ d = c
    BY <1>6, <1>7
  <2> QED BY <2>1 DEF Counted
<1>9. IsFiniteSet(Counted') /\ Cardinality(Counted') = K + 1
  BY <1>6, <1>8, FS_AddElement
<1> HIDE DEF K
<1>10. OrderOK'
  <2> SUFFICES ASSUME NEW d \in Context
               PROVE  /\ stage'[d] = "none" <=> order'[d] = 0
                      /\ order'[d] <= K + 1
                      /\ order'[d] # 0 => number'[d] \in Handle
    BY <1>7, <1>9 DEF OrderOK, Counted
  <2>1. CASE d = c
    BY <1>5, <1>6, <1>7, <2>1
  <2>2. CASE d # c
    <3>1. /\ stage[d] = "none" <=> order[d] = 0
          /\ order[d] <= K /\ order[d] \in Nat
          /\ order[d] # 0 => number[d] \in Handle
      BY DEF RoundInv, OrderOK, K
    <3> QED BY <1>6, <1>7, <2>2, <3>1
  <2> QED BY <2>1, <2>2
<1>11. ASSUME NEW e \in Counted
       PROVE  \E m \in Nat \ {0} : m <= ((K + 1) - order[e]) * n /\ h = Ahead(number[e], m)
  <2>1. PICK k \in Nat : /\ k <= (K - order[e]) * size
                         /\ handle_index = Ahead(number[e], k) + 1
    BY DEF RoundInv, Spaced, K
  <2>2. PICK a : a = K - order[e]
    OBVIOUS
  <2>3. a \in Nat /\ (K + 1) - order[e] = a + 1
    BY <1>6, <2>2
  <2>4. Ahead(number[e], k) \in Handle /\ Ahead(Ahead(number[e], k), i + 1) = Ahead(number[e], k + (i + 1))
    <3>1. i + 1 \in Nat /\ number[e] \in Handle
      BY <1>3, <1>6
    <3> QED BY <3>1, AheadTwice
  <2>5. h = Ahead(Ahead(number[e], k), i + 1)
    <3> DEFINE g == Ahead(number[e], k)
    <3>1. g \in Nat
      BY <2>4, SlotAssumption DEF Handle
    <3> HIDE DEF g
    <3>2. handle_index - 1 + i = g - 1 + (i + 1)
      BY <1>3, <2>1, <3>1 DEF g
    <3> QED BY <1>4, <3>2 DEF Candidate, Ahead, g
  <2>6. k + (i + 1) \in Nat \ {0} /\ k + (i + 1) <= (a + 1) * n
    <3>1. a * size \in Nat /\ a * n \in Nat /\ a * size <= a * n /\ a * n + n <= (a + 1) * n
      <4>1. a * size <= a * n /\ a * size \in Nat /\ a * n \in Nat
        BY <1>3, <2>3, TimesMonotone
      <4>2. a * n + n <= (a + 1) * n
        BY <1>3, <2>3, TimesMonotone
      <4> QED BY <4>1, <4>2
    <3> DEFINE x == a * size
               y == a * n
               z == (a + 1) * n
    <3>2. k <= x /\ x \in Nat /\ y \in Nat /\ x <= y /\ y + n <= z /\ z \in Nat
      BY <1>3, <2>1, <2>2, <2>3, <3>1
    <3> HIDE DEF x, y, z
    <3>3. k + (i + 1) <= z
      BY <1>3, <3>2
    <3> QED BY <1>3, <3>3 DEF z
  <2> QED BY <2>3, <2>4, <2>5, <2>6
<1>12. ASSUME NEW e \in Counted, NEW d \in Counted, order[e] < order[d]
       PROVE  \E m \in Nat \ {0} : /\ m <= (order[d] - order[e]) * n
                                   /\ number[d] = Ahead(number[e], m)
  <2>1. PICK m \in Nat \ {0} : /\ m <= (order[d] - order[e]) * size
                               /\ number[d] = Ahead(number[e], m)
    BY <1>12 DEF RoundInv, Spaced
  <2>2. PICK a : a = order[d] - order[e]
    OBVIOUS
  <2>3. a \in Nat
    BY <1>6, <1>12, <2>2
  <2>4. a * size \in Nat /\ a * n \in Nat /\ a * size <= a * n
    BY <1>3, <2>3, TimesMonotone
  <2> DEFINE x == a * size
             y == a * n
  <2>5. m <= x /\ x \in Nat /\ y \in Nat /\ x <= y
    BY <2>1, <2>2, <2>4
  <2> HIDE DEF x, y
  <2>6. m <= y
    BY <2>5
  <2> QED BY <2>1, <2>2, <2>6 DEF y
<1>13. Spaced'
  <2>1. ASSUME NEW e \in Counted', NEW d \in Counted', order'[e] < order'[d]
        PROVE  \E m \in Nat \ {0} : /\ m <= (order'[d] - order'[e]) * n
                                    /\ number'[d] = Ahead(number'[e], m)
    <3>1. e \in Counted
      <4>1. e # c
        <5>1. order'[d] <= K + 1 /\ order'[d] \in Nat
          BY <1>6, <1>7, <1>8
        <5> QED BY <1>6, <1>7, <2>1, <5>1
      <4> QED BY <1>8, <4>1
    <3>2. order'[e] = order[e] /\ number'[e] = number[e]
      BY <1>6, <1>7, <3>1
    <3>3. CASE d = c
      BY <1>7, <1>11, <3>1, <3>2, <3>3
    <3>4. CASE d # c
      <4>1. d \in Counted /\ order'[d] = order[d] /\ number'[d] = number[d]
        BY <1>6, <1>7, <1>8, <3>4
      <4> QED BY <1>12, <2>1, <3>1, <3>2, <4>1
    <3> QED BY <3>3, <3>4
  <2>2. ASSUME NEW e \in Counted'
        PROVE  \E m \in Nat : /\ m <= ((K + 1) - order'[e]) * n
                              /\ handle_index' = Ahead(number'[e], m) + 1
    <3>1. CASE e = c
      <4>1. Ahead(h, 0) = h
        <5> DEFINE M == HANDLE_MASK
        <5>1. M \in Nat \ {0} /\ h - 1 \in 0 .. M - 1 /\ h - 1 + 0 = h - 1 /\ h \in Nat
          BY <1>5, SlotAssumption DEF Handle
        <5> HIDE DEF M
        <5>2. (h - 1) % M = h - 1
          BY <5>1
        <5> QED BY <5>1, <5>2 DEF Ahead, M
      <4>2. 0 <= ((K + 1) - order'[e]) * n
        <5>1. (K + 1) - order'[e] = 0
          BY <1>6, <1>7, <3>1
        <5>2. 0 * n = 0
          BY <1>3
        <5> QED BY <5>1, <5>2
      <4> QED BY <1>2, <1>4, <1>7, <3>1, <4>1, <4>2
    <3>2. CASE e # c
      <4>1. e \in Counted /\ order'[e] = order[e] /\ number'[e] = number[e]
        BY <1>6, <1>7, <1>8, <3>2
      <4>2. PICK m \in Nat \ {0} : m <= ((K + 1) - order[e]) * n /\ h = Ahead(number[e], m)
        BY <1>11, <4>1
      <4> QED BY <1>2, <1>4, <4>1, <4>2
    <3> QED BY <3>1, <3>2
  <2>3. (Counted)' = Counted' /\ Cardinality(Counted)' = K + 1
    BY <1>9
  <2> QED BY <1>2, <2>1, <2>2, <2>3 DEF Spaced, Ahead
<1> QED BY <1>0, <1>10, <1>13 DEF RoundInv

LEMMA OtherRound ==
  ASSUME RoundInv, TableInv',
         UNCHANGED <<size, handle_index, number, order>>,
         \A c \in Context : stage'[c] = "none" <=> stage[c] = "none"
  PROVE  RoundInv'
<1>1. Counted' = Counted
  BY DEF Counted
<1>2. OrderOK'
  BY <1>1 DEF RoundInv, OrderOK
<1>3. Spaced'
  BY <1>1 DEF RoundInv, Spaced, Ahead
<1> QED BY <1>2, <1>3 DEF RoundInv

(* A handle is given out again only after HANDLE_MASK places of the search, *)
(* and a registration moves the search by at most the size of the table.    *)
THEOREM HandlesGoRound == Spec => []NotReusedSoon
<1>1. Init => RoundInv
  <2> SUFFICES ASSUME Init PROVE RoundInv
    OBVIOUS
  <2>1. Counted = {}
    BY DEF Init, Counted
  <2>2. IsFiniteSet(Counted) /\ Cardinality(Counted) = 0
    BY <2>1, FS_EmptySet
  <2>3. OrderOK
    BY <2>2 DEF Init, OrderOK
  <2>4. Spaced
    BY <2>1 DEF Spaced
  <2> QED BY <2>3, <2>4, InitTable DEF RoundInv
<1>2. RoundInv /\ [Next]_vars => RoundInv'
  <2> SUFFICES ASSUME RoundInv, [Next]_vars PROVE RoundInv'
    OBVIOUS
  <2>1. TableInv'
    BY NextTable DEF RoundInv
  <2>2. CASE UNCHANGED vars
    BY <2>1, <2>2, OtherRound DEF vars
  <2>3. ASSUME NEW c \in Context, HandleRegister(c) PROVE RoundInv'
    BY <2>3, RegisterRound
  <2>4. ASSUME NEW c \in Context,
               \/ SetHandle(c) \/ SetQueue(c) \/ InitReturns(c)
               \/ (\E n \in Name : HandleNamehandle(c, n)) \/ HandleRetire(c)
        PROVE  RoundInv'
    <3>1. /\ UNCHANGED <<size, handle_index, number, order>>
          /\ \A d \in Context : stage'[d] = "none" <=> stage[d] = "none"
      BY <2>4 DEF SetHandle, SetQueue, InitReturns, HandleNamehandle, HandleRetire,
                  table, RoundInv, TableInv, TableOK
    <3> QED BY <2>1, <3>1, OtherRound
  <2> QED BY <2>2, <2>3, <2>4 DEF Next
<1>3. RoundInv => NotReusedSoon
  <2> SUFFICES ASSUME RoundInv, NEW c \in Context, NEW d \in Context,
                      0 < order[c], order[c] < order[d], number[c] = number[d]
               PROVE  (order[d] - order[c]) * size >= HANDLE_MASK
    BY DEF NotReusedSoon
  <2>1. c \in Counted /\ d \in Counted /\ order[c] \in Nat /\ order[d] \in Nat
    BY DEF RoundInv, OrderOK, Counted
  <2>2. PICK n \in Nat \ {0} : /\ n <= (order[d] - order[c]) * size
                               /\ number[d] = Ahead(number[c], n)
    BY <2>1 DEF RoundInv, Spaced
  <2>3. number[c] \in Handle
    BY <2>1 DEF RoundInv, OrderOK
  <2>4. HANDLE_MASK <= n
    BY <2>2, <2>3, AheadRound
  <2>5. PICK a : a = order[d] - order[c]
    OBVIOUS
  <2> DEFINE x == a * size
  <2>6. x \in Nat
    BY <2>1, <2>5 DEF RoundInv, TableInv, TableOK
  <2>7. n <= x
    BY <2>2, <2>5
  <2> HIDE DEF x
  <2>8. x >= HANDLE_MASK
    BY <2>4, <2>6, <2>7, SlotAssumption
  <2> QED BY <2>5, <2>8 DEF x
<1> QED BY <1>1, <1>2, <1>3, PTL DEF Spec

-----------------------------------------------------------------------------
(* The names.                                                              *)

(* All contexts that have carried handle h are of the table's present size. *)
Recent(h) == \A d \in Context : era[d] # 0 /\ number[d] = h => era[d] = size

(* Context d carries handle h, and h was given name n by way of d.         *)
Bearer(d, n, h) == stage[d] # "none" /\ number[d] = h /\ n \in Given(d)

(* ... before d was retired, which it is not yet, or afterwards.           *)
Good(d, n, h) ==
  Bearer(d, n, h) /\ (n \in late[d] \/ stage[d] \notin {"none", "retired"})

(* A name in use was given to a context that carries its handle; as long   *)
(* as no handle is given a second one, not to one retired since.           *)
NamesOK ==
  /\ \A p \in name : p = <<p[1], p[2]>>
  /\ named \in [Context -> SUBSET Name] /\ late \in [Context -> SUBSET Name]
  /\ \A d \in Context : stage[d] = "none" => Given(d) = {}
  /\ \A p \in name : \E d \in Context : Bearer(d, p[1], p[2])
  /\ OneName =>
       \A p \in name : Recent(p[2]) => \E d \in Context : Good(d, p[1], p[2])

NameInv == TableInv /\ NamesOK

LEMMA RegisterNames ==
  ASSUME NameInv, NEW c \in Context, HandleRegister(c)
  PROVE  NamesOK'
<1>1. PICK n \in {size, 2 * size} : \E h : /\ number' = [number EXCEPT ![c] = h]
                                         /\ size' = n
                                         /\ era' = [era EXCEPT ![c] = n]
  BY DEF HandleRegister
<1>2. PICK h : number' = [number EXCEPT ![c] = h]
  BY <1>1
<1>3. /\ stage[c] = "none" /\ UNCHANGED <<name, named, late>>
      /\ \A d \in Context \ {c} : /\ stage'[d] = stage[d] /\ number'[d] = number[d]
                                  /\ era'[d] = era[d]
      /\ era'[c] = n /\ size' = n /\ n \in Nat /\ size \in Nat /\ size <= n
      /\ Given(c) = {}
  BY <1>1, <1>2 DEF HandleRegister, NameInv, TableInv, TableOK, NamesOK
<1>4. \A d \in Context : Given(d)' = Given(d)
  BY <1>3 DEF Given
<1>5. ASSUME NEW d \in Context, NEW x, NEW g, Bearer(d, x, g)
      PROVE  d # c /\ Bearer(d, x, g)'
  BY <1>3, <1>4, <1>5 DEF Bearer
<1>6. \A p \in name : \E d \in Context : Bearer(d, p[1], p[2])'
  BY <1>5 DEF NameInv, NamesOK
<1>7. OneName' => OneName
  BY <1>3, <1>4 DEF OneName
<1>8. ASSUME OneName, NEW p \in name, Recent(p[2])'
      PROVE  \E d \in Context : Good(d, p[1], p[2])'
  <2>1. PICK g, x : g = p[2] /\ x = p[1]
    OBVIOUS
  <2>2. Recent(g)' /\ (Recent(g) => Recent(p[2]))
    BY <1>3, <1>8, <2>1 DEF Recent
  <2>3. PICK d \in Context : Bearer(d, x, g)
    BY <2>1 DEF NameInv, NamesOK
  <2>4. n = size
    <3>1. era[d] # 0 /\ era[d] <= size /\ d # c /\ number[d] = g /\ era[d] \in Nat
      BY <1>5, <2>3 DEF Bearer, NameInv, TableInv, TableOK
    <3>2. era'[d] = n
      BY <1>3, <2>2, <3>1 DEF Recent
    <3> QED BY <1>3, <3>1, <3>2
  <2>5. Recent(g)
    BY <1>3, <2>2, <2>4 DEF Recent, NameInv, TableInv, TableOK
  <2>6. PICK e \in Context : Good(e, x, g)
    BY <1>8, <2>1, <2>2, <2>5 DEF NameInv, NamesOK
  <2>7. e # c /\ Bearer(e, x, g)'
    BY <1>5, <2>6 DEF Good
  <2>8. Good(e, x, g)'
    BY <1>3, <2>6, <2>7 DEF Good
  <2> QED BY <2>1, <2>8 DEF Good, Bearer
<1>9. \A d \in Context : stage'[d] = "none" => Given(d)' = {}
  BY <1>3, <1>4 DEF NameInv, NamesOK
<1>10. \A p \in name : p = <<p[1], p[2]>>
  BY DEF NameInv, NamesOK
<1> QED BY <1>3, <1>6, <1>7, <1>8, <1>9, <1>10 DEF NameInv, NamesOK

(* When a context is retired its handle is found, and the name that is     *)
(* erased is the only one that leads to it.                                *)
LEMMA RetireNames ==
  ASSUME NameInv, NEW c \in Context, HandleRetire(c)
  PROVE  NamesOK'
<1> DEFINE h == number[c]
           q == Hash(h, size)
           mine == {p \in name : p[2] = h}
<1>1. /\ stage[c] = "failed" /\ stage'[c] = "retired"
      /\ \A d \in Context \ {c} : stage'[d] = stage[d]
      /\ UNCHANGED <<size, number, era, named, late>>
      /\ name' \subseteq name
      /\ HandleGrab(h) # Nil /\ mine # {} => \E p \in mine : name' = name \ {p}
  BY DEF HandleRetire, NameInv, TableInv, TableOK
<1>2. \A d \in Context : Given(d)' = Given(d)
  BY <1>1 DEF Given
<1>3. \A d \in Context : \A x, g : Bearer(d, x, g) => Bearer(d, x, g)'
  BY <1>1, <1>2 DEF Bearer
<1>4. \A p \in name' : \E d \in Context : Bearer(d, p[1], p[2])'
  BY <1>1, <1>3 DEF NameInv, NamesOK
<1>5. OneName' => OneName
  BY <1>1, <1>2 DEF OneName
<1>6. ASSUME OneName, NEW p \in name', Recent(p[2])'
      PROVE  \E d \in Context : Good(d, p[1], p[2])'
  <2>1. p \in name /\ Recent(p[2])
    BY <1>1, <1>6 DEF Recent
  <2>2. PICK d \in Context : Good(d, p[1], p[2])
    BY <1>6, <2>1 DEF NameInv, NamesOK
  <2>3. CASE d # c \/ p[1] \in late[d]
    <3>1. Bearer(d, p[1], p[2])'
      BY <1>3, <2>2 DEF Good
    <3>2. Good(d, p[1], p[2])'
      BY <1>1, <2>2, <2>3, <3>1 DEF Good
    <3> QED BY <3>2
  <2>4. CASE d = c
    <3>1. p[2] = h /\ Recent(h) /\ p[1] \in Given(c)
      BY <2>1, <2>2, <2>4 DEF Good, Bearer
    <3>2. slot[q] = c
      <4>1. c \in Registered /\ era[c] # 0
        BY <1>1 DEF Registered, NameInv, TableInv, TableOK
      <4>2. era[c] = size
        BY <3>1, <4>1 DEF Recent
      <4>3. Sole(c)
        <5> SUFFICES ASSUME NEW f \in Context, 0 < era[f], era[f] < era[c]
                     PROVE  number[f] # number[c]
          BY DEF Sole
        <5>1. era[f] # 0 /\ era[f] # size
          BY <4>2 DEF NameInv, TableInv, TableOK
        <5> QED BY <3>1, <5>1 DEF Recent
      <4> QED BY <4>1, <4>2, <4>3 DEF NameInv, TableInv, FoundSinceGrowth
    <3>3. HandleGrab(h) # Nil
      BY <1>1, <3>2, NilAssumption DEF HandleGrab, HandleOf
    <3>4. p \in mine
      BY <2>1, <3>1
    <3>5. PICK r \in mine : name' = name \ {r}
      BY <1>1, <3>3, <3>4
    <3>6. r \in name /\ r[2] = h
      BY <3>5
    <3>7. PICK e \in Context : Bearer(e, r[1], h)
      BY <3>6 DEF NameInv, NamesOK
    <3>8. r[1] = p[1]
      BY <1>6, <3>1, <3>7 DEF Bearer, OneName
    <3>9. r = p
      BY <2>1, <3>1, <3>6, <3>8 DEF NameInv, NamesOK
    <3> QED BY <1>6, <3>5, <3>9
  <2> QED BY <2>3, <2>4
<1>7. \A d \in Context : stage'[d] = "none" => Given(d)' = {}
  BY <1>1, <1>2 DEF NameInv, NamesOK
<1>8. \A p \in name' : p = <<p[1], p[2]>>
  BY <1>1 DEF NameInv, NamesOK
<1> QED BY <1>1, <1>4, <1>5, <1>6, <1>7, <1>8 DEF NameInv, NamesOK

LEMMA NameNames ==
  ASSUME NameInv, NEW c \in Context, NEW n \in Name, HandleNamehandle(c, n)
  PROVE  NamesOK'
<1> DEFINE h == number[c]
           p == <<n, h>>
<1>1. /\ stage[c] \in {"init", "live", "failed", "retired"}
      /\ name' = name \cup {p}
      /\ UNCHANGED <<stage, size, number, era>>
      /\ named' \in [Context -> SUBSET Name] /\ late' \in [Context -> SUBSET Name]
      /\ n \in named'[c] \/ n \in late'[c]
      /\ stage[c] = "retired" => n \in late'[c]
      /\ \A d \in Context : named[d] \subseteq named'[d] /\ late[d] \subseteq late'[d]
      /\ \A d \in Context \ {c} : named'[d] = named[d] /\ late'[d] = late[d]
  BY DEF HandleNamehandle, NameInv, NamesOK
<1>2. \A d \in Context : Given(d) \subseteq Given(d)'
  BY <1>1 DEF Given
<1>3. \A d \in Context : \A x, g : Bearer(d, x, g) => Bearer(d, x, g)'
  BY <1>1, <1>2 DEF Bearer
<1>4. \A d \in Context : \A x, g : Good(d, x, g) => Good(d, x, g)'
  BY <1>1, <1>3 DEF Good
<1>5. PICK g : g = h
  OBVIOUS
<1>6. Bearer(c, n, g)' /\ Good(c, n, g)'
  BY <1>1, <1>5 DEF Bearer, Good, Given
<1>7. p[1] = n /\ p[2] = g
  BY <1>5
<1>8. \A r \in name' : r = <<r[1], r[2]>>
  BY <1>1 DEF NameInv, NamesOK
<1>9. ASSUME NEW r \in name' PROVE \E d \in Context : Bearer(d, r[1], r[2])'
  <2>1. CASE r \in name
    BY <1>3, <2>1 DEF NameInv, NamesOK
  <2>2. CASE r = p
    BY <1>6, <1>7, <2>2
  <2> QED BY <1>1, <2>1, <2>2
<1>10. OneName' => OneName
  BY <1>1, <1>2 DEF OneName
<1>11. ASSUME OneName, NEW r \in name', Recent(r[2])'
       PROVE  \E d \in Context : Good(d, r[1], r[2])'
  <2>1. Recent(r[2])
    BY <1>1, <1>11 DEF Recent
  <2>2. CASE r \in name
    BY <1>4, <1>11, <2>1, <2>2 DEF NameInv, NamesOK
  <2>3. CASE r = p
    BY <1>6, <1>7, <2>3
  <2> QED BY <1>1, <2>2, <2>3
<1>12. \A d \in Context : stage'[d] = "none" => Given(d)' = {}
  BY <1>1 DEF NameInv, NamesOK, Given
<1> QED BY <1>1, <1>8, <1>9, <1>10, <1>11, <1>12 DEF NamesOK

LEMMA StageNames ==
  ASSUME NameInv, NEW c \in Context, SetHandle(c) \/ SetQueue(c) \/ InitReturns(c)
  PROVE  NamesOK'
<1>1. /\ UNCHANGED <<size, number, era, name, named, late>>
      /\ \A d \in Context : /\ stage'[d] = "none" <=> stage[d] = "none"
                            /\ stage'[d] = "retired" <=> stage[d] = "retired"
  BY DEF SetHandle, SetQueue, InitReturns, table, NameInv, TableInv, TableOK
<1>2. \A d \in Context : Given(d)' = Given(d)
  BY <1>1 DEF Given
<1>3. \A d \in Context : \A x, g : Bearer(d, x, g)' <=> Bearer(d, x, g)
  BY <1>1, <1>2 DEF Bearer
<1>4. \A d \in Context : \A x, g : Good(d, x, g)' <=> Good(d, x, g)
  BY <1>1, <1>3 DEF Good
<1>5. \A g : Recent(g)' <=> Recent(g)
  BY <1>1 DEF Recent
<1>6. OneName' <=> OneName
  BY <1>1, <1>2 DEF OneName
<1> QED BY <1>1, <1>2, <1>3, <1>4, <1>5, <1>6 DEF NameInv, NamesOK

(* As long as no handle is given two names, a context that has been        *)
(* retired has left none: a name that still leads to its handle was given  *)
(* afterwards or to another context.                                       *)
THEOREM NoNameLeft == Spec => []NoStaleName
<1>1. Init => NameInv
  <2> SUFFICES ASSUME Init PROVE NameInv
    OBVIOUS
  <2>1. /\ name = {}
        /\ named = [d \in Context |-> {}] /\ late = [d \in Context |-> {}]
    BY DEF Init
  <2>2. NamesOK
    BY <2>1 DEF NamesOK, Given
  <2> QED BY <2>2, InitTable DEF NameInv
<1>2. NameInv /\ [Next]_vars => NameInv'
  <2> SUFFICES ASSUME NameInv, [Next]_vars PROVE NameInv'
    OBVIOUS
  <2>1. TableInv'
    BY NextTable DEF NameInv
  <2>2. CASE UNCHANGED vars
    <3>1. NamesOK'
      BY <2>2 DEF vars, NameInv, NamesOK, OneName, Given, Recent, Bearer, Good
    <3> QED BY <2>1, <3>1 DEF NameInv
  <2>3. CASE Next
    <3>1. NamesOK'
      BY <2>3, RegisterNames, RetireNames, NameNames, StageNames DEF Next
    <3> QED BY <2>1, <3>1 DEF NameInv
  <2> QED BY <2>2, <2>3
<1>3. NameInv => NoStaleName
  <2> SUFFICES ASSUME NameInv, OneName,
                      NEW c \in Context, era[c] = size, Sole(c), stage[c] = "retired",
                      NEW p \in name, p[2] = number[c]
               PROVE  \/ p[1] \in late[c]
                      \/ \E d \in Context \ {c} :
                           number[d] = number[c] /\ p[1] \in Given(d)
    BY DEF NoStaleName
  <2>1. Recent(number[c])
    <3> SUFFICES ASSUME NEW d \in Context, era[d] # 0, number[d] = number[c]
                 PROVE  era[d] = size
      BY DEF Recent
    <3>1. era[d] \in Nat /\ era[d] <= size /\ size \in Nat
      BY DEF NameInv, TableInv, TableOK
    <3>2. ~ (0 < era[d] /\ era[d] < size)
      BY DEF Sole
    <3> QED BY <3>1, <3>2
  <2>2. PICK d \in Context : Good(d, p[1], p[2])
    BY <2>1 DEF NameInv, NamesOK
  <2> QED BY <2>2 DEF Good, Bearer
<1> QED BY <1>1, <1>2, <1>3, PTL DEF Spec
=============================================================================
