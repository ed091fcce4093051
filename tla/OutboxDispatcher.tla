--------------------------- MODULE OutboxDispatcher ---------------------------
(***************************************************************************)
(* The transactional outbox dispatcher: services/outbox_dispatcher and     *)
(* libs/database/repositories/outbox.py.                                   *)
(*                                                                         *)
(* Several dispatcher processes poll one PostgreSQL table.  An iteration   *)
(* reads the clock once, claims a batch under a time-bounded lease, and    *)
(* for each claimed event makes one EventBridge call followed by one       *)
(* acknowledgement transaction.  The acknowledgement is a plain SELECT     *)
(* followed by an UPDATE by primary key under READ COMMITTED, hence two    *)
(* steps here; a database error or the death of the process may cut an     *)
(* iteration short anywhere.                                               *)
(*                                                                         *)
(* Time.  A timestamp t of the code is the integer t - (present time): it  *)
(* is negative once past and ages by one with every Tick.  MaxDispatch     *)
(* bounds how long one iteration may last; everything at least that old is *)
(* past for every running iteration, so timestamps stop ageing there.      *)
(***************************************************************************)
EXTENDS Integers, Sequences, FiniteSets

CONSTANTS
  Event,        \* events, numbered by their (occurred_at, id) order
  Worker,       \* dispatcher processes; each has its own worker id
  NoWorker,     \* locked_by IS NULL
  BatchSize,    \* rows one claim may take
  Lease,        \* lease_seconds, in ticks
  RetryDelay,   \* RETRY_DELAYS_SECONDS, in ticks
  MaxDispatch   \* longest duration of one iteration, in ticks

ASSUME OutboxAssumption ==
  /\ Event \subseteq Nat
  /\ NoWorker \notin Worker
  /\ BatchSize \in Nat \ {0}
  /\ Lease \in Nat \ {0}
  /\ RetryDelay \in Seq(Nat \ {0}) /\ RetryDelay # <<>>
  /\ MaxDispatch \in Nat

VARIABLES
  stored,           \* events whose row is committed
  published,        \* rows with published_at set
  attempts,         \* attempt_count, counted up to the last retry delay
  nextAttempt,      \* next_attempt_at
  lockedBy,         \* locked_by
  lockedUntil,      \* locked_until (Past when NULL)
  delivered,        \* events EventBridge has accepted at least once
  overwritten,      \* ghost: rows whose lease an acknowledgement of another
                    \* worker has overwritten
  pc,               \* where each worker's iteration stands
  age,              \* time since its dispatch_once() read the clock
  batch,            \* claimed events it has not finished
  claimedAttempts,  \* attempt_count in its ClaimedOutboxEvent snapshots
  loadedAttempts    \* attempt_count in the ORM row its acknowledgement read

rowVars    == <<stored, published, attempts, nextAttempt, lockedBy, lockedUntil>>
workerVars == <<pc, age, batch, claimedAttempts, loadedAttempts>>
vars == <<rowVars, workerVars, delivered, overwritten>>

-----------------------------------------------------------------------------

LastDelay == Len(RetryDelay) - 1
Attempts  == 0 .. LastDelay
Past      == -MaxDispatch
Time      == Int
AnOutcome == {"published", "failed"}
Loading   == {"loadPublished", "loadFailed"}
Writing   == {"writePublished", "writeFailed"}
PC        == {"idle", "claim", "publish"} \cup Loading \cup Writing

\* The delay before the next attempt, by the number of earlier failures.
RetryAfter(n) == RetryDelay[n + 1]

\* Mutant: the index into the delays is capped one too late.
OneMoreUncapped(n) == n + 1

\* One more failure; counts beyond the last delay are not told apart.
OneMore(n) == IF n < LastDelay THEN n + 1 ELSE n

Older(t) == IF t > Past THEN t - 1 ELSE t

\* The event worker w is processing: claims return rows in (occurred_at, id) order.
Current(w, e) == e \in batch[w] /\ \A f \in batch[w] : e <= f

TypeOK ==
  /\ stored \in SUBSET Event
  /\ published \in SUBSET stored
  /\ attempts \in [Event -> Attempts]
  /\ nextAttempt \in [Event -> Time]
  /\ lockedBy \in [Event -> Worker \cup {NoWorker}]
  /\ lockedUntil \in [Event -> Time]
  /\ delivered \in SUBSET stored
  /\ overwritten \in SUBSET stored
  /\ pc \in [Worker -> PC]
  /\ age \in [Worker -> 0 .. MaxDispatch]
  /\ batch \in [Worker -> SUBSET stored]
  /\ claimedAttempts \in [Worker -> [Event -> Attempts]]
  /\ loadedAttempts \in [Worker -> Attempts]

Init ==
  /\ stored = {}
  /\ published = {}
  /\ attempts = [e \in Event |-> 0]
  /\ nextAttempt = [e \in Event |-> Past]
  /\ lockedBy = [e \in Event |-> NoWorker]
  /\ lockedUntil = [e \in Event |-> Past]
  /\ delivered = {}
  /\ overwritten = {}
  /\ pc = [w \in Worker |-> "idle"]
  /\ age = [w \in Worker |-> 0]
  /\ batch = [w \in Worker |-> {}]
  /\ claimedAttempts = [w \in Worker |-> [e \in Event |-> 0]]
  /\ loadedAttempts = [w \in Worker |-> 0]

-----------------------------------------------------------------------------
(* The producer and the clock.                                             *)

\* A service commits its business change together with the event's row.
AddEvent(e) ==
  /\ e \notin stored
  /\ stored' = stored \cup {e}
  /\ nextAttempt' = [nextAttempt EXCEPT ![e] = 0]
  /\ UNCHANGED <<published, attempts, lockedBy, lockedUntil, delivered,
                 overwritten, workerVars>>

\* Time passes for the rows and for the iterations that run.
Tick ==
  /\ \A w \in Worker : pc[w] # "idle" => age[w] < MaxDispatch
  /\ nextAttempt' = [e \in Event |-> Older(nextAttempt[e])]
  /\ lockedUntil' = [e \in Event |-> Older(lockedUntil[e])]
  /\ age' = [w \in Worker |-> IF pc[w] = "idle" THEN 0 ELSE age[w] + 1]
  /\ UNCHANGED <<stored, published, attempts, lockedBy, delivered, overwritten,
                 pc, batch, claimedAttempts, loadedAttempts>>

-----------------------------------------------------------------------------
(* One iteration of a worker.                                              *)

\* Nothing of an iteration survives its end.
Finish(w) ==
  /\ pc' = [pc EXCEPT ![w] = "idle"]
  /\ age' = [age EXCEPT ![w] = 0]
  /\ batch' = [batch EXCEPT ![w] = {}]
  /\ claimedAttempts' = [claimedAttempts EXCEPT ![w] = [e \in Event |-> 0]]
  /\ loadedAttempts' = [loadedAttempts EXCEPT ![w] = 0]

\* dispatch_once() fixes effective_now before it opens the claim transaction.
BeginDispatch(w) ==
  /\ pc[w] = "idle"
  /\ pc' = [pc EXCEPT ![w] = "claim"]
  /\ UNCHANGED <<rowVars, delivered, overwritten, age, batch, claimedAttempts,
                 loadedAttempts>>

\* Mutants of the claim's WHERE clause: no lease test, no published_at test, and a
\* lease that never expires.
ClaimableIgnoringLease(w) == {e \in stored \ published : nextAttempt[e] <= -age[w]}

ClaimableEvenPublished(w) ==
  {e \in stored : nextAttempt[e] <= -age[w] /\ lockedUntil[e] <= -age[w]}

ClaimableOnlyUnlocked(w) ==
  {e \in stored \ published : nextAttempt[e] <= -age[w] /\ lockedBy[e] = NoWorker}

\* The claim's WHERE clause, at the iteration's effective_now.
Claimable(w) ==
  {e \in stored \ published :
     nextAttempt[e] <= -age[w] /\ lockedUntil[e] <= -age[w]}

\* Rows another transaction may hold a row lock on: those a worker is writing,
\* and any row while another claim is in progress (it may still roll back).
Contended(w) ==
  {e \in Event : \E v \in Worker \ {w} :
     pc[v] = "claim" \/ (pc[v] \in Writing /\ Current(v, e))}

\* got is what ORDER BY ... LIMIT BatchSize returns from the rows of avail.
FirstRows(avail, got) ==
  /\ got \subseteq avail
  /\ Cardinality(got) <= BatchSize
  /\ \A e \in got, f \in avail \ got : e <= f
  /\ got # avail => Cardinality(got) = BatchSize

\* The lease on every row of the batch, and its ClaimedOutboxEvent snapshots.
TakeBatch(w, got) ==
  /\ lockedBy' = [e \in Event |-> IF e \in got THEN w ELSE lockedBy[e]]
  /\ lockedUntil' = [e \in Event |-> IF e \in got THEN Lease - age[w] ELSE lockedUntil[e]]
  /\ pc' = [pc EXCEPT ![w] = "publish"]
  /\ batch' = [batch EXCEPT ![w] = got]
  /\ claimedAttempts' = [claimedAttempts EXCEPT ![w] =
                           [e \in Event |-> IF e \in got THEN attempts[e] ELSE 0]]
  /\ UNCHANGED <<age, loadedAttempts>>

\* SELECT ... FOR UPDATE SKIP LOCKED, the lease, commit.
Claim(w) ==
  /\ pc[w] = "claim"
  /\ \E skipped \in SUBSET Contended(w), got \in SUBSET Claimable(w) :
       /\ FirstRows(Claimable(w) \ skipped, got)
       /\ \/ got = {} /\ Finish(w) /\ UNCHANGED <<lockedBy, lockedUntil>>
          \/ got # {} /\ TakeBatch(w, got)
  /\ UNCHANGED <<stored, published, attempts, nextAttempt, delivered, overwritten>>

\* Mutant: FailedEntryCount is not looked at.
PublishUnchecked(w, e, accepted, outcome) ==
  /\ pc[w] = "publish" /\ Current(w, e)
  /\ delivered' = IF accepted THEN delivered \cup {e} ELSE delivered
  /\ pc' = [pc EXCEPT ![w] =
              IF outcome = "published" THEN "loadPublished" ELSE "loadFailed"]
  /\ UNCHANGED <<rowVars, overwritten, age, batch, claimedAttempts, loadedAttempts>>

\* The EventBridge call.  It may be accepted and still raise (a timeout, a lost
\* or malformed response): the worker then takes it for a failure.
Publish(w, e, accepted, outcome) ==
  /\ pc[w] = "publish" /\ Current(w, e)
  /\ outcome = "published" => accepted
  /\ delivered' = IF accepted THEN delivered \cup {e} ELSE delivered
  /\ pc' = [pc EXCEPT ![w] =
              IF outcome = "published" THEN "loadPublished" ELSE "loadFailed"]
  /\ UNCHANGED <<rowVars, overwritten, age, batch, claimedAttempts, loadedAttempts>>

\* _get_claimed_model(): a plain SELECT that tests locked_by and published_at
\* but not locked_until.  When it finds no row the acknowledgement is rejected
\* and the exception ends dispatch_once(): the rest of the batch stays leased.
LoadClaimed(w, e) ==
  /\ pc[w] \in Loading /\ Current(w, e)
  /\ IF lockedBy[e] = w /\ e \notin published
     THEN /\ loadedAttempts' = [loadedAttempts EXCEPT ![w] = attempts[e]]
          /\ pc' = [pc EXCEPT ![w] = IF pc[w] = "loadPublished"
                                     THEN "writePublished" ELSE "writeFailed"]
          /\ UNCHANGED <<age, batch, claimedAttempts>>
     ELSE Finish(w)
  /\ UNCHANGED <<rowVars, delivered, overwritten>>

\* The worker goes on with the next event of its batch.
NextEvent(w, e) ==
  /\ batch' = [batch EXCEPT ![w] = @ \ {e}]
  /\ pc' = [pc EXCEPT ![w] = "publish"]
  /\ claimedAttempts' = [claimedAttempts EXCEPT ![w][e] = 0]
  /\ loadedAttempts' = [loadedAttempts EXCEPT ![w] = 0]
  /\ UNCHANGED age

\* The UPDATE by primary key releases the lease of whoever holds it by now.
WriteRow(w, e) ==
  /\ lockedBy' = [lockedBy EXCEPT ![e] = NoWorker]
  /\ lockedUntil' = [lockedUntil EXCEPT ![e] = Past]
  /\ overwritten' = IF lockedBy[e] = w THEN overwritten ELSE overwritten \cup {e}
  /\ \/ batch[w] = {e} /\ Finish(w)
     \/ batch[w] # {e} /\ NextEvent(w, e)
  /\ UNCHANGED <<stored, delivered>>

WritePublished(w, e) ==
  /\ pc[w] = "writePublished" /\ Current(w, e)
  /\ published' = published \cup {e}
  /\ UNCHANGED <<attempts, nextAttempt>>
  /\ WriteRow(w, e)

\* Mutant: the UPDATE writes the whole loaded row, published_at NULL included.
WriteFailedWholeRow(w, e) ==
  /\ pc[w] = "writeFailed" /\ Current(w, e)
  /\ attempts' = [attempts EXCEPT ![e] = OneMore(loadedAttempts[w])]
  /\ nextAttempt' = [nextAttempt EXCEPT ![e] =
                       RetryAfter(claimedAttempts[w][e]) - age[w]]
  /\ published' = published \ {e}
  /\ WriteRow(w, e)

\* attempt_count is the loaded value plus one; the delay is chosen by the
\* claimed snapshot and counted from the iteration's start.
WriteFailed(w, e) ==
  /\ pc[w] = "writeFailed" /\ Current(w, e)
  /\ attempts' = [attempts EXCEPT ![e] = OneMore(loadedAttempts[w])]
  /\ nextAttempt' = [nextAttempt EXCEPT ![e] =
                       RetryAfter(claimedAttempts[w][e]) - age[w]]
  /\ UNCHANGED published
  /\ WriteRow(w, e)

\* A database exception ends the iteration and rolls its transaction back; so
\* does the death of the process, whose successor starts idle.  The leases stay.
Abandon(w) ==
  /\ pc[w] # "idle"
  /\ Finish(w)
  /\ UNCHANGED <<rowVars, delivered, overwritten>>

-----------------------------------------------------------------------------

PublishAny(w) ==
  \E e \in Event, accepted \in BOOLEAN, outcome \in AnOutcome :
    Publish(w, e, accepted, outcome)

Acknowledge(w) ==
  \E e \in Event : LoadClaimed(w, e) \/ WritePublished(w, e) \/ WriteFailed(w, e)

Step(w) == BeginDispatch(w) \/ Claim(w) \/ PublishAny(w) \/ Acknowledge(w)

Next ==
  \/ \E e \in Event : AddEvent(e)
  \/ Tick
  \/ \E w \in Worker : Step(w) \/ Abandon(w)

Spec == Init /\ [][Next]_vars

\* The runner loops forever and ECS restarts a dead worker; an EventBridge call,
\* a transaction and a claim that meets no row lock succeed again and again if
\* they are tried again and again.  Nothing forces an iteration to be quick.
Fairness ==
  /\ WF_vars(Tick)
  /\ \A w \in Worker :
       /\ WF_vars(Step(w))
       /\ SF_vars(Claim(w) /\ batch'[w] # {})
       /\ \A e \in Event :
            /\ SF_vars(Publish(w, e, TRUE, "published"))
            /\ SF_vars(pc[w] = "loadPublished" /\ LoadClaimed(w, e))
            /\ SF_vars(WritePublished(w, e))

FairSpec == Spec /\ Fairness

-----------------------------------------------------------------------------
(* Properties that hold however slow an iteration is.                      *)

\* A worker still protected by the lease it took when it claimed its batch.
LeaseLive(w) == pc[w] # "idle" /\ age[w] < Lease

\* published_at is set only on events EventBridge has accepted: however claims,
\* crashes, ambiguous responses and late acknowledgements interleave, no event is
\* marked published without having been delivered (dispatcher.py:166-187).
PublishedWasDelivered == published \subseteq delivered

\* Two workers process the same event while the leases of both are live only after
\* an acknowledgement overwrote a lease it did not own: the claim's SKIP LOCKED
\* and lease test (repositories/outbox.py:313-353) exclude every other way.
LeaseExclusion ==
  \A u, v \in Worker :
    u # v /\ LeaseLive(u) /\ LeaseLive(v) => batch[u] \cap batch[v] \subseteq overwritten

\* An event already marked published reaches EventBridge again only from a worker
\* whose lease has run out, or after its lease was overwritten.
RedeliveryNeedsExpiry ==
  [][\A w \in Worker, e \in published :
       PublishAny(w) /\ Current(w, e) => age[w] >= Lease \/ e \in overwritten]_vars

\* The dispatcher implements at-least-once delivery: the outbox row is the stored
\* event, published_at the acknowledgement.
Abstract == INSTANCE AtLeastOnce WITH acknowledged <- published

ImplementsAtLeastOnce == Abstract!Spec

-----------------------------------------------------------------------------
(* Properties that hold when every iteration ends before its lease does.   *)

\* mark_published() says that "only the worker currently owning the lease may
\* acknowledge the event" (repositories/outbox.py:394-395): a worker that writes
\* an acknowledgement is the one in locked_by at that moment.
OnlyOwnerAcknowledges ==
  [][\A w \in Worker, e \in Event :
       WritePublished(w, e) \/ WriteFailed(w, e) => lockedBy[e] = w]_vars

\* No acknowledgement is rejected, so no iteration is cut short and no batch is
\* left leased by the RuntimeError of dispatcher.py:271-275 and 330-334.
AcknowledgementAccepted ==
  \A w \in Worker, e \in Event :
    pc[w] \in Loading /\ Current(w, e) => lockedBy[e] = w /\ e \notin published

\* An event is in the hands of one worker at a time, and of none once published.
OneWorkerPerEvent ==
  \A u \in Worker :
    /\ batch[u] \cap published = {}
    /\ \A v \in Worker \ {u} : batch[u] \cap batch[v] = {}

\* No failure is lost: a worker that records one adds it to those in the row, and the
\* next attempt waits for as long as that number of failures asks for, although the
\* count is read when the event is claimed, read again by the acknowledgement, and
\* written last (repositories/outbox.py 481, dispatcher.py 300-311).
EveryFailureCounted ==
  [][\A w \in Worker, e \in Event : WriteFailed(w, e) =>
       /\ attempts'[e] = OneMore(attempts[e])
       /\ nextAttempt'[e] = RetryAfter(attempts[e]) - age[w]]_vars

\* Every committed event ends up marked published.
EventuallyPublished == \A e \in Event : (e \in stored) ~> (e \in published)

=============================================================================
