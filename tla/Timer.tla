-------------------------------- MODULE Timer -------------------------------
(***************************************************************************)
(* The timer wheel of cpp_sk (struct timer, cpp_sk.h, cpp_sk.cpp): near_   *)
(* holds the timers of the current window of TIME_NEAR ticks, t_ four      *)
(* levels of TIME_LEVEL lists for the later ones.  The timer thread runs   *)
(* timer_update once a tick; any thread adds timers at any moment, also    *)
(* while the timer thread has released the lock to dispatch.               *)
(*                                                                         *)
(* t_[4][TIME_LEVEL] is one array, here indexed 0 .. 4 * TIME_LEVEL - 1:   *)
(* timer_shift reads t_[level][idx] with idx up to TIME_NEAR - 1, which is *)
(* undefined behaviour for idx >= TIME_LEVEL and, in the builds the README *)
(* names, the list at that distance in the array.                          *)
(***************************************************************************)
EXTENDS Integers, Sequences

CONSTANTS
  TIME_NEAR,         (* 256 in the code                                     *)
  TIME_LEVEL,        (* 64 in the code                                      *)
  TimerId,           (* the timers: a service and one of its sessions       *)
  Timeouts,          (* the timeouts that are asked for                     *)
  MaxTicks           (* bound: ticks in one behaviour                       *)

(* A level has a quarter of the lists of near_.  Both numbers are powers   *)
(* of two in the code, whose shifts and masks are \div and % here.         *)
ASSUME SizeAssumption ==
  TIME_LEVEL \in Nat \ {0, 1} /\ TIME_NEAR = 4 * TIME_LEVEL

(* mask of add_node: the ticks that level i - 1 reaches, which is what one *)
(* list of level i holds; Span[0] is the window of near_.                  *)
Span[i \in 0 .. 4] == IF i = 0 THEN TIME_NEAR ELSE TIME_LEVEL * Span[i - 1]

(* mask of timer_shift, which steps by TIME_NEAR_SHIFT.                    *)
Stride[i \in 0 .. 2] == IF i = 0 THEN TIME_NEAR ELSE TIME_NEAR * Stride[i - 1]

(* time_ is a uint32_t, exactly the bits the near list and the four levels *)
(* distinguish: 8 + 4 * 6.  A timeout is an int32_t, half of which.        *)
Wrap == Span[4]

ASSUME TimeoutAssumption ==
  \A timeout \in Timeouts : timeout \in Int /\ timeout < Wrap \div 2

(* The run ends before timer_shift reads past the end of t_ at level 1.    *)
ASSUME TicksAssumption ==
  MaxTicks \in 0 .. 3 * TIME_LEVEL * TIME_NEAR * TIME_NEAR - 1

VARIABLES
  near,     (* near_: a list of timers for each tick of a window            *)
  far,      (* t_                                                           *)
  time,     (* time_                                                        *)
  expire,   (* the expire field of a timer's node                           *)
  pc,       (* "idle", or dispatching "before" or "after" the shift         *)
  batch,    (* the list it has taken and not yet dispatched                 *)
  (* History.                                                               *)
  ticks,    (* number of shifts so far                                      *)
  window,   (* the window of ticks a waiting timer was set in, else -1      *)
  due       (* the tick it is to fire at, else -1                           *)

timer_vars == <<near, far, time, expire, pc, batch, ticks, window, due>>

TimerInit ==
  /\ near = [i \in 0 .. TIME_NEAR - 1 |-> << >>]
  /\ far = [i \in 0 .. 4 * TIME_LEVEL - 1 |-> << >>]
  /\ time = 0
  /\ expire = [t \in TimerId |-> 0]
  /\ pc = "idle"
  /\ batch = << >>
  /\ ticks = 0
  /\ window = [t \in TimerId |-> -1]
  /\ due = [t \in TimerId |-> -1]

-----------------------------------------------------------------------------
(* add_node: near_ for the current window, otherwise the first level at    *)
(* which the node and now lie in the same block, and level 3 in the end.   *)
SameBlock(e, now, span) == e \div span = now \div span

Level(e, now) ==
  LET fits == {i \in 0 .. 2 : SameBlock(e, now, Span[i + 1])}
  IN  IF fits = {} THEN 3 ELSE CHOOSE i \in fits : \A j \in fits : i <= j

FarIndex(e, now) ==
  LET i == Level(e, now)
  IN  i * TIME_LEVEL + ((e \div Span[i]) % TIME_LEVEL)

(* Mutant of AddNode: near lists are filed one tick late.                  *)
AddNodeLate(wheel, t, e, now) ==
  IF SameBlock(e, now, TIME_NEAR)
    THEN [wheel EXCEPT !.near[(e + 1) % TIME_NEAR] = Append(@, t)]
    ELSE [wheel EXCEPT !.far[FarIndex(e, now)] = Append(@, t)]

(* The wheel is handed around as [near, far] while lists move.             *)
AddNode(wheel, t, e, now) ==
  IF SameBlock(e, now, TIME_NEAR)
    THEN [wheel EXCEPT !.near[e % TIME_NEAR] = Append(@, t)]
    ELSE [wheel EXCEPT !.far[FarIndex(e, now)] = Append(@, t)]

(* Mutant of MoveList: the list is not cleared.                            *)
MoveListKeeps(wheel, index, now) ==
  LET list == wheel.far[index]
      Moved[k \in 0 .. Len(list)] ==
        IF k = 0 THEN wheel
        ELSE AddNode(Moved[k - 1], list[k], expire[list[k]], now)
  IN  Moved[Len(list)]

(* move_list: the list is cleared and its nodes are added again, in order. *)
MoveList(wheel, index, now) ==
  LET list == wheel.far[index]
      Moved[k \in 0 .. Len(list)] ==
        IF k = 0 THEN [wheel EXCEPT !.far[index] = << >>]
        ELSE AddNode(Moved[k - 1], list[k], expire[list[k]], now)
  IN  Moved[Len(list)]

(* The list timer_shift moves at tick ct, if any: level i is looked at     *)
(* when the tick is a multiple of the i-th mask, and the next lower ones   *)
(* had nothing for it.                                                     *)
ShiftLevels(ct) ==
  {i \in 0 .. 2 : ct % Stride[i] = 0 /\ (ct \div Stride[i]) % TIME_NEAR # 0}

(* Mutant of ShiftIndex: the list of the window that has just ended.       *)
ShiftIndexBehind(ct, i) == (ct \div Stride[i] - 1) % TIME_NEAR

(* idx of the loop at level i.                                             *)
ShiftIndex(ct, i) == (ct \div Stride[i]) % TIME_NEAR

Shifted(ct) ==
  LET wheel == [near |-> near, far |-> far]
      first == CHOOSE i \in ShiftLevels(ct) :
                 \A j \in ShiftLevels(ct) : i <= j
  IN  IF ct = 0 THEN MoveList(wheel, 3 * TIME_LEVEL, ct)
      ELSE IF ShiftLevels(ct) = {} THEN wheel
      ELSE MoveList(wheel, first * TIME_LEVEL + ShiftIndex(ct, first), ct)

-----------------------------------------------------------------------------
(* timer::timeout with a positive timeout: timer_add under the lock.       *)
TimerAdd(t, timeout) ==
  /\ due[t] = -1
  /\ timeout > 0
  /\ LET e     == (time + timeout) % Wrap
         wheel == AddNode([near |-> near, far |-> far], t, e, time)
     IN  /\ expire' = [expire EXCEPT ![t] = e]
         /\ near' = wheel.near
         /\ far' = wheel.far
  /\ window' = [window EXCEPT ![t] = ticks \div TIME_NEAR]
  /\ due' = [due EXCEPT ![t] = ticks + timeout]
  /\ UNCHANGED <<time, pc, batch, ticks>>

(* timer_execute takes the list of the current tick, with the lock held.   *)
Take(wheel, now, place) ==
  /\ batch' = wheel.near[now % TIME_NEAR]
  /\ near' = [wheel.near EXCEPT ![now % TIME_NEAR] = << >>]
  /\ far' = wheel.far
  /\ pc' = place

(* timer_update from a point where it has the lock and has not shifted     *)
(* yet: it executes once more, or shifts and executes the new tick.        *)
TimerUpdate ==
  /\ pc \in {"idle", "before"}
  /\ batch = << >>
  /\ ticks < MaxTicks
  /\ IF near[time % TIME_NEAR] # << >>
       THEN /\ Take([near |-> near, far |-> far], time, "before")
            /\ UNCHANGED <<time, ticks>>
       ELSE LET ct    == (time + 1) % Wrap
                wheel == Shifted(ct)
            IN  /\ time' = ct
                /\ ticks' = ticks + 1
                /\ IF wheel.near[ct % TIME_NEAR] # << >>
                     THEN Take(wheel, ct, "after")
                     ELSE /\ near' = wheel.near
                          /\ far' = wheel.far
                          /\ pc' = "idle"
                          /\ UNCHANGED batch
  /\ UNCHANGED <<expire, window, due>>

(* timer::dispatch, without the lock: one context_push after the other.    *)
Dispatch ==
  /\ batch # << >>
  /\ batch' = Tail(batch)
  /\ window' = [window EXCEPT ![Head(batch)] = -1]
  /\ due' = [due EXCEPT ![Head(batch)] = -1]
  /\ UNCHANGED <<near, far, time, expire, pc, ticks>>

(* Back in timer_execute after the shift: another list for the same tick,  *)
(* or the end of timer_update.                                             *)
FinishUpdate ==
  /\ pc = "after"
  /\ batch = << >>
  /\ IF near[time % TIME_NEAR] # << >>
       THEN Take([near |-> near, far |-> far], time, "after")
       ELSE /\ pc' = "idle"
            /\ UNCHANGED <<near, far, batch>>
  /\ UNCHANGED <<time, expire, ticks, window, due>>

TimerNext ==
  \/ \E t \in TimerId, timeout \in Timeouts : TimerAdd(t, timeout)
  \/ TimerUpdate
  \/ Dispatch
  \/ FinishUpdate

TimerSpec == TimerInit /\ [][TimerNext]_timer_vars

-----------------------------------------------------------------------------
TimerTypeOK ==
  /\ near \in [0 .. TIME_NEAR - 1 -> Seq(TimerId)]
  /\ far \in [0 .. 4 * TIME_LEVEL - 1 -> Seq(TimerId)]
  /\ time = ticks % Wrap
  /\ expire \in [TimerId -> 0 .. Wrap - 1]
  /\ pc \in {"idle", "before", "after"}
  /\ batch \in Seq(TimerId)
  /\ pc = "idle" => batch = << >>
  /\ ticks \in Nat
  /\ window \in [TimerId -> Int]
  /\ due \in [TimerId -> Int]

(* All lists: near_, then t_, then the one that is being dispatched.       *)
Place == 0 .. 2 * TIME_NEAR

List(p) == IF p < TIME_NEAR THEN near[p]
           ELSE IF p < 2 * TIME_NEAR THEN far[p - TIME_NEAR]
           ELSE batch

Node    == UNION {{p} \X (1 .. Len(List(p))) : p \in Place}
Held(n) == List(n[1])[n[2]]

(* A timer that is waiting is in one list, once, and one that has fired or *)
(* was never set is in none: moving lists between levels neither drops nor *)
(* duplicates a node, whatever is added while the lock is released.        *)
InOneList ==
  /\ {Held(n) : n \in Node} = {t \in TimerId : due[t] # -1}
  /\ \A m, n \in Node : Held(m) = Held(n) => m = n

(* A timer is only dispatched at the very tick its node expires at, never  *)
(* early and never a little late, whichever levels it has gone through.    *)
Punctual ==
  \A k \in 1 .. Len(batch) : expire[batch[k]] = time

(* A timer is not passed over if it is due within the first                *)
(* TIME_NEAR * TIME_LEVEL ticks of the process, or within the window of    *)
(* TIME_NEAR ticks it was set in.                                          *)
OnTime ==
  \A t \in TimerId :
    /\ due[t] # -1
    /\ \/ due[t] < TIME_NEAR * TIME_LEVEL
       \/ due[t] \div TIME_NEAR = window[t]
    => ticks <= due[t]

(* No timer is ever passed over.  timer_shift steps through the levels by  *)
(* TIME_NEAR_SHIFT where add_node files by TIME_LEVEL_SHIFT, so this fails *)
(* from tick TIME_NEAR * TIME_LEVEL on: 16384 ticks, 164 seconds.          *)
NonePassedOver ==
  \A t \in TimerId : due[t] # -1 => ticks <= due[t]
=============================================================================
