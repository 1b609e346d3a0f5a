------------------------------ MODULE Mailboxes -----------------------------
(***************************************************************************)
(* What the message core of cpp_sk promises its services: every message    *)
(* pushed to a service is handed to the service's callback exactly once,   *)
(* one message at a time, and none before the service's init has returned. *)
(* Nothing is said of queues, workers or wake-ups; module Dispatch is      *)
(* shown to implement this one.                                            *)
(***************************************************************************)
EXTENDS Naturals

CONSTANT Service

VARIABLES
  phase,    (* "absent", then "init" while init runs, then "live"           *)
  box,      (* the messages waiting for each service                        *)
  running,  (* the message its callback is working on: at most one          *)
  sent,     (* messages are numbered 1 .. sent                              *)
  handled   (* the messages whose callback has returned                     *)

vars == <<phase, box, running, sent, handled>>

Init ==
  /\ phase = [s \in Service |-> "absent"]
  /\ box = [s \in Service |-> {}]
  /\ running = [s \in Service |-> {}]
  /\ sent = 0
  /\ handled = {}

Create(s) ==
  /\ phase[s] = "absent"
  /\ phase' = [phase EXCEPT ![s] = "init"]
  /\ UNCHANGED <<box, running, sent, handled>>

Launch(s) ==
  /\ phase[s] = "init"
  /\ phase' = [phase EXCEPT ![s] = "live"]
  /\ UNCHANGED <<box, running, sent, handled>>

Send(s) ==
  /\ phase[s] # "absent"
  /\ sent' = sent + 1
  /\ box' = [box EXCEPT ![s] = @ \cup {sent + 1}]
  /\ UNCHANGED <<phase, running, handled>>

Begin(s) ==
  /\ phase[s] = "live"
  /\ running[s] = {}
  /\ \E m \in box[s] :
       /\ running' = [running EXCEPT ![s] = {m}]
       /\ box' = [box EXCEPT ![s] = @ \ {m}]
  /\ UNCHANGED <<phase, sent, handled>>

End(s) ==
  /\ running[s] # {}
  /\ handled' = handled \cup running[s]
  /\ running' = [running EXCEPT ![s] = {}]
  /\ UNCHANGED <<phase, box, sent>>

Next ==
  \E s \in Service : Create(s) \/ Launch(s) \/ Send(s) \/ Begin(s) \/ End(s)

Spec == Init /\ [][Next]_vars
=============================================================================
