-------------------------- MODULE MCOutboxDispatcher --------------------------
(* Instances of OutboxDispatcher for TLC.  Two delays: a second failure waits  *)
(* longer than the first and a third does not.                                 *)
EXTENDS OutboxDispatcher, TLC

MCRetryDelay == <<1, 2>>

Workers == Permutations(Worker)
=============================================================================
