----------------------------- MODULE AtLeastOnce ------------------------------
(***************************************************************************)
(* What the transactional outbox promises (libs/database/models/outbox.py  *)
(* 26-38, services/outbox_dispatcher/dispatcher.py 71): at-least-once      *)
(* delivery.  Only stored events are delivered, only delivered events are  *)
(* acknowledged, none of the three is ever taken back, and, under          *)
(* fairness, every stored event is delivered.                              *)
(***************************************************************************)
CONSTANT Event
VARIABLES stored, delivered, acknowledged

vars == <<stored, delivered, acknowledged>>

Init == stored = {} /\ delivered = {} /\ acknowledged = {}

Store(e) ==
  /\ stored' = stored \cup {e}
  /\ UNCHANGED <<delivered, acknowledged>>

\* Repeated deliveries of one event are allowed: they leave the state as it is.
Deliver(e) ==
  /\ e \in stored
  /\ delivered' = delivered \cup {e}
  /\ UNCHANGED <<stored, acknowledged>>

Acknowledge(e) ==
  /\ e \in delivered
  /\ acknowledged' = acknowledged \cup {e}
  /\ UNCHANGED <<stored, delivered>>

Next == \E e \in Event : Store(e) \/ Deliver(e) \/ Acknowledge(e)

Spec == Init /\ [][Next]_vars

FairSpec == Spec /\ \A e \in Event : WF_vars(Deliver(e))
=============================================================================
