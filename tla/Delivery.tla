------------------------------ MODULE Delivery ------------------------------
(***************************************************************************)
(* What a client that follows a session is promised, however often its     *)
(* connection breaks: "Clients can resume within the same service instance *)
(* using ordered event replay [...].  A replay gap is reported explicitly."*)
(* (app/fae/README.md)                                                     *)
(***************************************************************************)
EXTENDS Naturals

CONSTANT LastEvent \* bound: a round has the events 1 .. LastEvent

VARIABLES produced, \* events so far
          shown,    \* the event up to which the client is
          missed    \* events it was told that it will not see

delivery_vars == <<produced, shown, missed>>

Ahead == (shown + 1)..produced

Produce ==
  /\ produced < LastEvent
  /\ produced' = produced + 1
  /\ UNCHANGED <<shown, missed>>

\* One event, in order, once; only those before it may be passed over that the
\* client knows it misses.
Show ==
  /\ shown' \in Ahead
  /\ (shown + 1)..(shown' - 1) \subseteq missed
  /\ UNCHANGED <<produced, missed>>

Report ==
  /\ missed \subseteq missed' /\ missed' \subseteq missed \cup Ahead
  /\ \/ shown' = shown
     \/ shown' \in Ahead /\ (shown + 1)..shown' \subseteq missed'
  /\ UNCHANGED produced

DeliveryInit == produced = 0 /\ shown = 0 /\ missed = {}

DeliverySpec == DeliveryInit /\ [][Produce \/ Show \/ Report]_delivery_vars
=============================================================================
