------------------------------ MODULE MCWatch -------------------------------
(***************************************************************************)
(* The two threads that keep watch, the timer thread's clock and the       *)
(* monitor thread.  They share no state: a behaviour runs one of the two.  *)
(***************************************************************************)
EXTENDS Clock, Monitor

VARIABLE thread

WatchInit == ClockInit /\ MonInit /\ thread \in {"clock", "monitor"}

WatchNext ==
  /\ UNCHANGED thread
  /\ \/ thread = "clock" /\ ClockNext /\ UNCHANGED mon_vars
     \/ thread = "monitor" /\ MonNext /\ UNCHANGED clock_vars

WatchSpec == WatchInit /\ [][WatchNext]_<<clock_vars, mon_vars, thread>>
=============================================================================
