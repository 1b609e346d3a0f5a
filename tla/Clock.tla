-------------------------------- MODULE Clock -------------------------------
(***************************************************************************)
(* How the wall clock drives the timer wheel of cpp_sk (cpp_sk.cpp: timer, *)
(* timer::update, start_timer).  The timer thread looks at system_clock    *)
(* every 2.5 ms or later, and runs timer_update once for every centisecond *)
(* it finds.  Other threads add timers at any moment.  The wall clock may  *)
(* also be set back.                                                       *)
(*                                                                         *)
(* Times are in units of system_clock, U of them to a centisecond, and     *)
(* counts of centiseconds start at 0.  One timer is followed, any one: a   *)
(* timer fires at its tick (Timer!Punctual).                               *)
(***************************************************************************)
EXTENDS Integers

CONSTANTS
  U,            (* 10^7 in the code                                         *)
  MaxTimeout,   (* bound: the longest timeout                               *)
  MaxForward,   (* bound: how far the wall clock moves forward in all ...   *)
  MaxBack,      (* ... and is set back in all                               *)
  None

ASSUME UnitAssumption  == U \in Nat \ {0}
ASSUME BoundAssumption == MaxTimeout \in Nat /\ MaxForward \in Nat /\ MaxBack \in Nat
ASSUME NoneAssumption  == None \notin [due : Int, need : Int]

VARIABLES
  wall,        (* system_clock                                              *)
  point,       (* current_point_                                            *)
  current,     (* current_                                                  *)
  ticked,      (* time_: timer_updates that have run                        *)
  (* History.                                                               *)
  forward,     (* how far the wall clock has moved forward in all           *)
  back,        (* how far it has been set back in all                       *)
  effective,   (* updates that have found a centisecond                     *)
  alarm        (* the timer that is followed: its tick, and the value of    *)
               (* forward it should not fire before                         *)

clock_vars == <<wall, point, current, ticked, forward, back, effective, alarm>>

ClockInit ==
  /\ wall = 0 /\ point = 0
  /\ current = 0 /\ ticked = 0
  /\ forward = 0 /\ back = 0 /\ effective = 0
  /\ alarm = None

-----------------------------------------------------------------------------
Advance(d) ==
  /\ wall' = wall + d
  /\ forward' = forward + d
  /\ UNCHANGED <<point, current, ticked, back, effective, alarm>>

SetBack(d) ==
  /\ wall' = wall - d
  /\ back' = back + d
  /\ UNCHANGED <<point, current, ticked, forward, effective, alarm>>

(* Mutant of Ticks: a part of a centisecond counts as one.                 *)
TicksUp(d) == IF d < 0 THEN 0 ELSE (d + U - 1) \div U

(* duration_cast cuts the fraction off.                                    *)
Ticks(d) == IF d < 0 THEN 0 ELSE d \div U

(* Mutant of Refreshes: current_point_ is set whenever the clock is read.  *)
RefreshesAlways(d) == TRUE

(* now < current_point_, or diff.count() > 0.                              *)
Refreshes(d) == d < 0 \/ Ticks(d) > 0

(* update up to its loop: what of now is no full centisecond is dropped.   *)
Update ==
  LET d == wall - point IN
  /\ ticked = current
  /\ point' = IF Refreshes(d) THEN wall ELSE point
  /\ current' = current + Ticks(d)
  /\ effective' = IF Ticks(d) > 0 THEN effective + 1 ELSE effective
  /\ UNCHANGED <<wall, ticked, forward, back, alarm>>

(* One turn of timer::update's loop: timer_update.                         *)
RunTick ==
  /\ ticked < current
  /\ ticked' = ticked + 1
  /\ UNCHANGED <<wall, point, current, forward, back, effective, alarm>>

(* What has passed on the wall clock and not yet on the wheel.             *)
Unread == IF wall < point THEN 0 ELSE wall - point
Lag    == U * (current - ticked) + Unread

(* timer::timeout by some thread (timer_add), between two timer_updates.   *)
SetTimer(t) ==
  /\ alarm' = [due |-> ticked + t, need |-> forward + U * t - Lag]
  /\ UNCHANGED <<wall, point, current, ticked, forward, back, effective>>

ClockNext ==
  \/ \E d \in 1 .. MaxForward - forward : Advance(d)
  \/ \E d \in 1 .. MaxBack - back : SetBack(d)
  \/ Update \/ RunTick
  \/ alarm = None /\ \E t \in 1 .. MaxTimeout : SetTimer(t)

ClockSpec == ClockInit /\ [][ClockNext]_clock_vars

-----------------------------------------------------------------------------
ClockTypeOK ==
  /\ wall \in Int /\ point \in Int
  /\ current \in Nat /\ ticked \in Nat /\ ticked <= current
  /\ forward \in Nat /\ back \in Nat /\ effective \in Nat
  /\ alarm \in [due : Int, need : Int] \cup {None}

(* A timer fires early at most by what the wheel was behind the wall clock *)
(* when it was set -- a worker may set one while the timer thread is about *)
(* to run the ticks of a long pause in one go.                             *)
NotTooEarly == alarm # None /\ ticked >= alarm.due => forward >= alarm.need

(* What the wheel falls behind the wall clock for good is less than a      *)
(* centisecond for each update that found one, and what the clock was set  *)
(* back.                                                                   *)
DriftBounded ==
  forward - U * current - (wall - point) <= (U - 1) * effective + back

(* The wheel is never behind for good.  It is: update drops the fraction   *)
(* each time (cpp_sk.cpp:489-492).                                         *)
NoDrift == forward - U * current - (wall - point) <= back
=============================================================================
