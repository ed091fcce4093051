----------------------------- MODULE AlertWorker ------------------------------
(***************************************************************************)
(* The alert worker: services/alert_worker.  A risk alert arrives as an SQS *)
(* message; a worker claims its event in a DynamoDB table, publishes an SNS *)
(* notification, marks the claim COMPLETED and deletes the message.         *)
(*                                                                         *)
(* Workers share the queue and the table and nothing else.  Each call to   *)
(* AWS is one step, may be cut short by an error or by the death of the    *)
(* process, and may take effect although the worker sees it fail.          *)
(*                                                                         *)
(* SQS may deliver any message that is not deleted to any worker at any    *)
(* time (visibility timeouts run out and standard queues repeat), and      *)
(* EventBridge may put one event into several messages.                    *)
(*                                                                         *)
(* Time.  expires_at is kept as `left' = expires_at - (present second).    *)
(* It ages with every Tick down to Past, which every worker sees expired.  *)
(* MaxHold bounds the time from claim() reading the clock to the end of    *)
(* the worker's work on the message.                                       *)
(***************************************************************************)
EXTENDS Integers, FiniteSets

CONSTANTS
  Event, Message, Worker,
  EventOf,      \* the event each message carries
  NoRecord,     \* no item with this event_id in the table
  NoMessage,    \* a worker between two polls
  Lease,        \* processing_lease_seconds
  Retention,    \* completed_retention_seconds
  MaxHold       \* longest time a worker works on one message, in seconds

Claims == [status : {"PROCESSING", "COMPLETED"}, claim : Worker, left : Int]

ASSUME AlertAssumption ==
  /\ EventOf \in [Message -> Event]
  /\ NoRecord \notin Claims
  /\ NoMessage \notin Message
  /\ Lease \in Nat \ {0}
  /\ Retention \in Nat \ {0}
  /\ MaxHold \in Nat

VARIABLES
  arrived,   \* messages EventBridge has put into the queue
  deleted,   \* messages acknowledged by deleting them
  record,    \* the idempotency table, by event_id.  A claim_id is the worker
             \* that drew it: a worker has one claim at a time, its latest.
  notified,  \* events SNS has accepted a notification for
  pc,        \* the call a worker makes next
  msg,       \* the message it works on
  age        \* time since its claim() read the clock

workerVars == <<pc, msg, age>>
vars == <<arrived, deleted, record, notified, workerVars>>

-----------------------------------------------------------------------------

PC   == {"idle", "claim", "status", "publish", "release", "complete", "ack"}
Past == -(MaxHold + 1)

TypeOK ==
  /\ arrived \in SUBSET Message
  /\ deleted \in SUBSET arrived
  /\ record \in [Event -> Claims \cup {NoRecord}]
  /\ notified \in SUBSET Event
  /\ pc \in [Worker -> PC]
  /\ msg \in [Worker -> arrived \cup {NoMessage}]
  /\ age \in [Worker -> 0 .. MaxHold]
  /\ \A w \in Worker : pc[w] = "idle" <=> msg[w] = NoMessage

Init ==
  /\ arrived = {}
  /\ deleted = {}
  /\ record = [e \in Event |-> NoRecord]
  /\ notified = {}
  /\ pc = [w \in Worker |-> "idle"]
  /\ msg = [w \in Worker |-> NoMessage]
  /\ age = [w \in Worker |-> 0]

Recorded(e)  == record[e] # NoRecord
Completed(e) == Recorded(e) /\ record[e].status = "COMPLETED"
Claimed(e)   == Recorded(e) /\ record[e].status = "PROCESSING"
Live(e)      == Recorded(e) /\ record[e].left >= 0

\* The event worker w works on.
Works(w, e) == pc[w] # "idle" /\ EventOf[msg[w]] = e

\* Between a successful claim and the end of the attempt.
Holds(w, e) == pc[w] \in {"publish", "release", "complete"} /\ Works(w, e)

-----------------------------------------------------------------------------
(* EventBridge and SQS, time, and DynamoDB's expiry of old items.           *)

Arrive(m) ==
  /\ m \notin arrived
  /\ arrived' = arrived \cup {m}
  /\ UNCHANGED <<deleted, record, notified, workerVars>>

Aged(r) == IF r # NoRecord /\ r.left > Past THEN [r EXCEPT !.left = @ - 1] ELSE r

Tick ==
  /\ \A w \in Worker : pc[w] # "idle" => age[w] < MaxHold
  /\ record' = [e \in Event |-> Aged(record[e])]
  /\ age' = [w \in Worker |-> IF pc[w] = "idle" THEN 0 ELSE age[w] + 1]
  /\ UNCHANGED <<arrived, deleted, notified, pc, msg>>

\* TimeToLive on expires_at removes an item some time after it has expired.
Expire(e) ==
  /\ Recorded(e) /\ ~Live(e)
  /\ record' = [record EXCEPT ![e] = NoRecord]
  /\ UNCHANGED <<arrived, deleted, notified, workerVars>>

-----------------------------------------------------------------------------
(* One poll of a worker.                                                    *)

Goto(w, place) == pc' = [pc EXCEPT ![w] = place] /\ UNCHANGED <<msg, age>>

Leave(w) ==
  /\ pc' = [pc EXCEPT ![w] = "idle"]
  /\ msg' = [msg EXCEPT ![w] = NoMessage]
  /\ age' = [age EXCEPT ![w] = 0]

\* receive_message with one message; claim() then reads the clock.
Receive(w, m) ==
  /\ pc[w] = "idle" /\ m \in arrived \ deleted
  /\ pc' = [pc EXCEPT ![w] = "claim"]
  /\ msg' = [msg EXCEPT ![w] = m]
  /\ UNCHANGED <<arrived, deleted, record, notified, age>>

\* Mutants of the condition: no test of the expiry, one second early, and never
\* for a recorded event.
ClaimableAlways(w, e) == TRUE
ClaimableOnce(w, e) == ~Recorded(e)
ClaimableAtExpiry(w, e) == Recorded(e) => record[e].left <= -age[w]

\* attribute_not_exists(event_id) OR expires_at < :now, at the claim's :now.
Claimable(w, e) == Recorded(e) => record[e].left < -age[w]

\* The conditional put_item.  When its answer is lost the record stands, and
\* the worker sees an error or, after botocore's retry, a refusal by itself.
ClaimEvent(w, e) ==
  /\ pc[w] = "claim" /\ Works(w, e) /\ Claimable(w, e)
  /\ record' = [record EXCEPT ![e] =
       [status |-> "PROCESSING", claim |-> w, left |-> Lease - age[w]]]
  /\ Goto(w, "publish") \/ Goto(w, "status") \/ Leave(w)
  /\ UNCHANGED <<arrived, deleted, notified>>

\* Mutant: the worker goes on without a claim.
ClaimRefusedIgnored(w, e) ==
  /\ pc[w] = "claim" /\ Works(w, e) /\ ~Claimable(w, e)
  /\ Goto(w, "publish")
  /\ UNCHANGED <<arrived, deleted, record, notified>>

ClaimRefused(w, e) ==
  /\ pc[w] = "claim" /\ Works(w, e) /\ ~Claimable(w, e)
  /\ Goto(w, "status")
  /\ UNCHANGED <<arrived, deleted, record, notified>>

\* Mutant: a message whose event is in progress is acknowledged too.
GetStatusAnyRecord(w, e) ==
  /\ pc[w] = "status" /\ Works(w, e)
  /\ IF Recorded(e) THEN Goto(w, "ack") ELSE Leave(w)
  /\ UNCHANGED <<arrived, deleted, record, notified>>

\* COMPLETED: a duplicate, to be acknowledged.  Anything else is in progress.
GetStatus(w, e) ==
  /\ pc[w] = "status" /\ Works(w, e)
  /\ IF Completed(e) THEN Goto(w, "ack") ELSE Leave(w)
  /\ UNCHANGED <<arrived, deleted, record, notified>>

\* The SNS call.  It may be accepted and still raise.
Publish(w, e, accepted, ok) ==
  /\ pc[w] = "publish" /\ Works(w, e)
  /\ ok => accepted
  /\ notified' = IF accepted THEN notified \cup {e} ELSE notified
  /\ Goto(w, IF ok THEN "complete" ELSE "release")
  /\ UNCHANGED <<arrived, deleted, record>>

\* Mutant: the condition names the status only.
OwnsAnyClaim(w, e) == Claimed(e)

\* claim_id = :claim_id AND status = PROCESSING
Owns(w, e) == Claimed(e) /\ record[e].claim = w

Release(w, e) ==
  /\ pc[w] = "release" /\ Works(w, e)
  /\ record' = IF Owns(w, e) THEN [record EXCEPT ![e] = NoRecord] ELSE record
  /\ Leave(w)
  /\ UNCHANGED <<arrived, deleted, notified>>

\* The conditional update_item; its clock was read up to age[w] ago.  When the
\* answer is lost the message is not acknowledged.
Complete(w, e) ==
  /\ pc[w] = "complete" /\ Works(w, e) /\ Owns(w, e)
  /\ \E read \in 0 .. age[w] : record' = [record EXCEPT ![e] =
        [@ EXCEPT !.status = "COMPLETED", !.left = Retention - read]]
  /\ Goto(w, "ack") \/ Leave(w)
  /\ UNCHANGED <<arrived, deleted, notified>>

\* ConditionalCheckFailedException: the claim was lost; no acknowledgement.
CompleteRefused(w, e) ==
  /\ pc[w] = "complete" /\ Works(w, e) /\ ~Owns(w, e)
  /\ Leave(w)
  /\ UNCHANGED <<arrived, deleted, record, notified>>

\* delete_message
Acknowledge(w) ==
  /\ pc[w] = "ack"
  /\ deleted' = deleted \cup {msg[w]}
  /\ Leave(w)
  /\ UNCHANGED <<arrived, record, notified>>

\* A call raises without having had an effect, or the process dies.
Abandon(w) ==
  /\ pc[w] # "idle"
  /\ Leave(w)
  /\ UNCHANGED <<arrived, deleted, record, notified>>

-----------------------------------------------------------------------------

PublishAny(w, e) == \E accepted, ok \in BOOLEAN : Publish(w, e, accepted, ok)

Process(w, e) ==
  \/ ClaimEvent(w, e) \/ ClaimRefused(w, e) \/ GetStatus(w, e) \/ PublishAny(w, e)
  \/ Release(w, e) \/ Complete(w, e) \/ CompleteRefused(w, e)

Next ==
  \/ \E m \in Message : Arrive(m)
  \/ Tick
  \/ \E e \in Event : Expire(e)
  \/ \E w \in Worker :
       \/ \E m \in Message : Receive(w, m)
       \/ \E e \in Event : Process(w, e)
       \/ Acknowledge(w) \/ Abandon(w)

Spec == Init /\ [][Next]_vars

(* Fairness.  Time passes; a worker that has a message does something with  *)
(* it; SQS delivers again what is not deleted; and a call that is tried     *)
(* again and again succeeds again and again.                               *)
ReceiveMessage(m) == \E w \in Worker : Receive(w, m)
Succeeds(m, Call(_, _), place) ==
  \E w \in Worker : msg[w] = m /\ Call(w, EventOf[m]) /\ pc'[w] = place
Granted(m)      == Succeeds(m, ClaimEvent, "publish")
Sent(m)         == Succeeds(m, PublishAny, "complete")
Recording(m)    == Succeeds(m, Complete, "ack")
Recognized(m)   == Succeeds(m, GetStatus, "ack")
Removed(m)      == \E w \in Worker : msg[w] = m /\ Acknowledge(w)

Fairness ==
  /\ WF_vars(Tick)
  /\ \A w \in Worker : WF_vars((\E e \in Event : Process(w, e)) \/ Acknowledge(w))
  /\ \A m \in Message :
       /\ SF_vars(ReceiveMessage(m)) /\ SF_vars(Granted(m)) /\ SF_vars(Sent(m))
       /\ SF_vars(Recording(m)) /\ SF_vars(Recognized(m)) /\ SF_vars(Removed(m))

FairSpec == Spec /\ Fairness

-----------------------------------------------------------------------------
(* Properties.  None assumes that a worker is quick.                        *)

\* Two workers are between claim and completion of one event only when one of
\* them has outlived its processing lease, whatever answers were lost, whoever
\* crashed, and although each compares expiry with a clock it read earlier.
LeaseExclusion ==
  \A u, v \in Worker, e \in Event :
    u # v /\ Holds(u, e) /\ Holds(v, e) => age[u] > Lease \/ age[v] > Lease

\* A claim that has not expired is settled or removed only by the worker that
\* made it: a late release() or complete() of a worker that lost its claim to
\* another one leaves the other's record alone (idempotency.py 293-296, 336-339).
LiveClaimRespected ==
  [][\A e \in Event : Claimed(e) /\ Live(e) =>
       \/ Claimed(e)' /\ record'[e].claim = record[e].claim
       \/ \E w \in Worker : w = record[e].claim /\ (Release(w, e) \/ Complete(w, e))]_vars

\* COMPLETED is remembered for as long as expires_at promises: no claim, late
\* release, second completion or expiry removes it before.
CompletionKept ==
  [][\A e \in Event : Completed(e) /\ Live(e) => Completed(e)']_vars

\* Alerts are delivered at least once: a message is deleted only when SNS has
\* accepted a notification of its event (consumer.py 28-35), also when another
\* worker sent it and this one only saw COMPLETED.
Abstract == INSTANCE AtLeastOnce
  WITH stored <- {EventOf[m] : m \in arrived},
       delivered <- notified,
       acknowledged <- {EventOf[m] : m \in deleted}

ImplementsAtLeastOnce == Abstract!Spec

\* A worker that publishes, releases or completes within its lease is still the
\* claimant: complete() is refused after a notification only to one that was slow.
HolderOwns ==
  \A w \in Worker, e \in Event : Holds(w, e) /\ age[w] <= Lease => Owns(w, e)

\* An event remembered as COMPLETED is notified again only by a worker that has
\* outlived its lease.
CompletedNotRepeated ==
  [][\A w \in Worker, e \in Event :
       PublishAny(w, e) /\ age[w] <= Lease => ~(Completed(e) /\ Live(e))]_vars

\* Every alert is notified in the end, by slow and crashing workers too; and every
\* message is deleted, unless workers outlive their leases for ever: again and
\* again everything that has arrived is notified and, if nobody is slow, deleted.
EventuallySettled ==
  []<>\A m \in arrived :
         /\ EventOf[m] \in notified
         /\ m \in deleted \/ \E w \in Worker : age[w] > Lease
=============================================================================
