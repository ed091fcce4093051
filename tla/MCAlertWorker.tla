---------------------------- MODULE MCAlertWorker -----------------------------
(* Instances of AlertWorker for TLC.  Messages are numbered; 1 and 2 carry the *)
(* same event, which EventBridge put into the queue twice.                     *)
EXTENDS AlertWorker

MCEventOf == [m \in Message |-> (m + 1) \div 2]
=============================================================================
