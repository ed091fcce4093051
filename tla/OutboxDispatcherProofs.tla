------------------------- MODULE OutboxDispatcherProofs ------------------------
(***************************************************************************)
(* Proofs about OutboxDispatcher for any events, workers, batch size,      *)
(* lease, retry delays and duration of an iteration.  The second part      *)
(* assumes that no iteration outlasts its lease.                           *)
(***************************************************************************)
EXTENDS OutboxDispatcher, TLAPS

-----------------------------------------------------------------------------
(* Type correctness.                                                       *)

\* The constants as the provers need them.
LEMMA Constants ==
  /\ LastDelay \in Nat
  /\ Past \in Int /\ Past <= 0
  /\ \A n \in Attempts : RetryAfter(n) \in Nat \ {0}
  /\ \A n \in Attempts : OneMore(n) \in Attempts
  /\ \A t \in Time : Older(t) \in Time
  /\ 0 \in Attempts /\ 0 \in 0 .. MaxDispatch
  BY OutboxAssumption
     DEF OutboxAssumption, LastDelay, Past, Attempts, RetryAfter, OneMore, Older, Time

\* Every variable stays in its type: in particular no count leaves the range of
\* the retry delays and no worker holds an event that is not in the table.
LEMMA TypeInductive == TypeOK /\ [Next]_vars => TypeOK'
  <1> SUFFICES ASSUME TypeOK, [Next]_vars PROVE TypeOK'
    OBVIOUS
  <1> USE DEF TypeOK, PC, Loading, Writing, Time, rowVars, workerVars
  <1>1. ASSUME NEW e \in Event, AddEvent(e) PROVE TypeOK'
    BY <1>1 DEF AddEvent
  <1>2. CASE Tick
    <2>1. /\ nextAttempt' \in [Event -> Time]
          /\ lockedUntil' \in [Event -> Time]
      BY <1>2, Constants DEF Tick
    <2>2. age' \in [Worker -> 0 .. MaxDispatch]
      BY <1>2, OutboxAssumption DEF Tick, OutboxAssumption
    <2>3. QED BY <1>2, <2>1, <2>2 DEF Tick
  <1>3. ASSUME NEW w \in Worker, BeginDispatch(w) PROVE TypeOK'
    BY <1>3 DEF BeginDispatch
  <1>4. ASSUME NEW w \in Worker, Finish(w),
               UNCHANGED <<rowVars, delivered, overwritten>>
        PROVE TypeOK'
    <2>1. /\ pc' \in [Worker -> PC]
          /\ age' \in [Worker -> 0 .. MaxDispatch]
          /\ batch' \in [Worker -> SUBSET stored]
          /\ loadedAttempts' \in [Worker -> Attempts]
      BY <1>4, Constants DEF Finish
    <2>2. claimedAttempts' \in [Worker -> [Event -> Attempts]]
      BY <1>4, Constants DEF Finish
    <2>3. QED BY <1>4, <2>1, <2>2
  <1>5. ASSUME NEW w \in Worker, Claim(w) PROVE TypeOK'
    <2>1. PICK got \in SUBSET Claimable(w) :
            \/ got = {} /\ Finish(w) /\ UNCHANGED <<lockedBy, lockedUntil>>
            \/ got # {} /\ TakeBatch(w, got)
      BY <1>5 DEF Claim
    <2>2. UNCHANGED <<stored, published, attempts, nextAttempt, delivered, overwritten>>
      BY <1>5 DEF Claim
    <2>3. CASE Finish(w) /\ UNCHANGED <<lockedBy, lockedUntil>>
      BY <2>2, <2>3, <1>4
    <2>4. CASE TakeBatch(w, got)
      <3> USE <2>4 DEF TakeBatch
      <3>1. got \subseteq stored
        BY DEF Claimable
      <3>2. /\ lockedBy' \in [Event -> Worker \cup {NoWorker}]
            /\ pc' \in [Worker -> PC]
            /\ age' = age /\ loadedAttempts' = loadedAttempts
        OBVIOUS
      <3>3. lockedUntil' \in [Event -> Time]
        <4>1. Lease - age[w] \in Int
          BY OutboxAssumption DEF OutboxAssumption
        <4>2. QED BY <4>1
      <3>4. batch' \in [Worker -> SUBSET stored]
        BY <3>1
      <3>5. claimedAttempts' \in [Worker -> [Event -> Attempts]]
        <4>1. [e \in Event |-> IF e \in got THEN attempts[e] ELSE 0] \in [Event -> Attempts]
          BY Constants
        <4>2. QED BY <4>1
      <3>6. QED BY <2>2, <3>2, <3>3, <3>4, <3>5
    <2>5. QED BY <2>1, <2>3, <2>4
  <1>6. ASSUME NEW w \in Worker, PublishAny(w) PROVE TypeOK'
    <2>1. PICK e \in Event, accepted \in BOOLEAN, outcome \in AnOutcome :
            Publish(w, e, accepted, outcome)
      BY <1>6 DEF PublishAny
    <2>2. e \in stored /\ delivered' \in SUBSET stored
      BY <2>1 DEF Publish, Current
    <2>3. pc' \in [Worker -> PC]
      BY <2>1 DEF Publish
    <2>4. QED BY <2>1, <2>2, <2>3 DEF Publish
  <1>7. ASSUME NEW w \in Worker, NEW e \in Event, LoadClaimed(w, e) PROVE TypeOK'
    <2>1. CASE lockedBy[e] = w /\ e \notin published
      BY <1>7, <2>1 DEF LoadClaimed
    <2>2. CASE ~(lockedBy[e] = w /\ e \notin published)
      BY <1>7, <2>2, <1>4 DEF LoadClaimed
    <2>3. QED BY <2>1, <2>2
  <1>8. ASSUME NEW w \in Worker, NEW e \in Event, WriteRow(w, e), e \in batch[w],
               published' \in {published, published \cup {e}},
               attempts' \in [Event -> Attempts], nextAttempt' \in [Event -> Time]
        PROVE TypeOK'
    <2>1. /\ lockedBy' \in [Event -> Worker \cup {NoWorker}]
          /\ lockedUntil' \in [Event -> Time]
          /\ overwritten' \in SUBSET stored
          /\ stored' = stored /\ delivered' = delivered
      BY <1>8, Constants DEF WriteRow
    <2>2. CASE Finish(w)
      <3>2. /\ pc' \in [Worker -> PC]
            /\ age' \in [Worker -> 0 .. MaxDispatch]
            /\ batch' \in [Worker -> SUBSET stored]
            /\ loadedAttempts' \in [Worker -> Attempts]
        BY <2>2, Constants DEF Finish
      <3>3. claimedAttempts' \in [Worker -> [Event -> Attempts]]
        BY <2>2, Constants DEF Finish
      <3>4. QED BY <1>8, <2>1, <3>2, <3>3
    <2>3. CASE NextEvent(w, e)
      <3>1. /\ pc' = [pc EXCEPT ![w] = "publish"]
            /\ age' = age
            /\ batch' = [batch EXCEPT ![w] = batch[w] \ {e}]
            /\ claimedAttempts' = [claimedAttempts EXCEPT ![w][e] = 0]
            /\ loadedAttempts' = [loadedAttempts EXCEPT ![w] = 0]
        BY <2>3 DEF NextEvent
      <3>2. pc' \in [Worker -> PC] /\ loadedAttempts' \in [Worker -> Attempts]
        BY <3>1, Constants
      <3>3. batch' \in [Worker -> SUBSET stored]
        BY <3>1
      <3>4. claimedAttempts' \in [Worker -> [Event -> Attempts]]
        BY <3>1, Constants
      <3>5. QED BY <1>8, <2>1, <3>1, <3>2, <3>3, <3>4
    <2>4. QED BY <1>8, <2>2, <2>3 DEF WriteRow
  <1>9. ASSUME NEW w \in Worker, NEW e \in Event, WritePublished(w, e) PROVE TypeOK'
    <2>1. /\ WriteRow(w, e) /\ e \in batch[w] /\ published' = published \cup {e}
          /\ attempts' = attempts /\ nextAttempt' = nextAttempt
      BY <1>9 DEF WritePublished, Current
    <2>2. QED BY <1>8, <2>1
  <1>10. ASSUME NEW w \in Worker, NEW e \in Event, WriteFailed(w, e) PROVE TypeOK'
    <2>1. attempts' \in [Event -> Attempts] /\ nextAttempt' \in [Event -> Time]
      BY <1>10, Constants DEF WriteFailed
    <2>2. QED BY <1>8, <1>10, <2>1 DEF WriteFailed, Current
  <1>11. ASSUME NEW w \in Worker, Abandon(w) PROVE TypeOK'
    BY <1>4, <1>11 DEF Abandon
  <1>12. CASE UNCHANGED vars
    BY <1>12 DEF vars
  <1>13. QED
    BY <1>1, <1>2, <1>3, <1>5, <1>6, <1>7, <1>9, <1>10, <1>11, <1>12
       DEF Next, Step, Acknowledge

\* The type invariant.
THEOREM TypeCorrect == Spec => []TypeOK
  <1>1. Init => TypeOK
    BY Constants, OutboxAssumption
       DEF Init, TypeOK, PC, Time, Attempts, OutboxAssumption
  <1>2. QED BY <1>1, TypeInductive, PTL DEF Spec

-----------------------------------------------------------------------------
(* What is marked published was delivered.                                 *)

\* Claimed events come in one order, so a worker has one current event.
LEMMA CurrentUnique ==
  ASSUME TypeOK, NEW w \in Worker, NEW e \in Event, NEW f \in Event,
         Current(w, e), Current(w, f)
  PROVE  e = f
  BY OutboxAssumption DEF Current, OutboxAssumption

\* PublishedWasDelivered is not inductive: a worker about to acknowledge a success
\* holds the evidence of the delivery in its program counter.
DeliveryInv ==
  /\ PublishedWasDelivered
  /\ \A w \in Worker, e \in Event :
       pc[w] \in {"loadPublished", "writePublished"} /\ Current(w, e) => e \in delivered

LEMMA DeliveryInductive == TypeOK /\ DeliveryInv /\ [Next]_vars => DeliveryInv'
  <1> SUFFICES ASSUME TypeOK, DeliveryInv, [Next]_vars PROVE DeliveryInv'
    OBVIOUS
  <1> USE DEF DeliveryInv, PublishedWasDelivered, Current
  <1>1. ASSUME NEW w \in Worker, Finish(w), published' = published, delivered' = delivered
        PROVE DeliveryInv'
    BY <1>1 DEF Finish, TypeOK
  <1>2. ASSUME NEW e \in Event, AddEvent(e) PROVE DeliveryInv'
    BY <1>2 DEF AddEvent, workerVars
  <1>3. CASE Tick
    BY <1>3 DEF Tick
  <1>4. ASSUME NEW w \in Worker, BeginDispatch(w) PROVE DeliveryInv'
    BY <1>4 DEF BeginDispatch, rowVars, TypeOK
  <1>5. ASSUME NEW w \in Worker, Claim(w) PROVE DeliveryInv'
    <2>1. published' = published /\ delivered' = delivered
      BY <1>5 DEF Claim
    <2>2. PICK got \in SUBSET Claimable(w) : Finish(w) \/ TakeBatch(w, got)
      BY <1>5 DEF Claim
    <2>3. CASE TakeBatch(w, got)
      BY <2>1, <2>3 DEF TakeBatch, TypeOK
    <2>4. QED BY <1>1, <2>1, <2>2, <2>3
  <1>6. ASSUME NEW w \in Worker, PublishAny(w) PROVE DeliveryInv'
    <2>1. PICK e \in Event, accepted \in BOOLEAN, outcome \in AnOutcome :
            Publish(w, e, accepted, outcome)
      BY <1>6 DEF PublishAny
    <2>2. published' = published /\ batch' = batch /\ delivered \subseteq delivered'
      BY <2>1 DEF Publish, rowVars
    <2>3. ASSUME NEW u \in Worker, NEW f \in Event, Current(u, f)',
                 pc'[u] \in {"loadPublished", "writePublished"}
          PROVE f \in delivered'
      <3>1. Current(u, f)
        BY <2>2, <2>3
      <3>2. CASE u # w
        <4>1. pc'[u] = pc[u]
          BY <2>1, <3>2 DEF Publish, TypeOK
        <4>2. QED BY <2>2, <2>3, <3>1, <4>1
      <3>3. CASE u = w
        <4>1. outcome = "published"
          BY <2>1, <2>3, <3>3 DEF Publish, TypeOK
        <4>2. e \in delivered'
          BY <2>1, <4>1 DEF Publish
        <4>3. Current(w, e)
          BY <2>1 DEF Publish
        <4>4. QED BY <3>1, <3>3, <4>2, <4>3, CurrentUnique
      <3>4. QED BY <3>2, <3>3
    <2>4. QED BY <2>2, <2>3
  <1>7. ASSUME NEW w \in Worker, NEW e \in Event, LoadClaimed(w, e) PROVE DeliveryInv'
    <2>1. published' = published /\ delivered' = delivered
      BY <1>7 DEF LoadClaimed, rowVars
    <2>2. CASE lockedBy[e] = w /\ e \notin published
      BY <1>7, <2>1, <2>2 DEF LoadClaimed, Loading, TypeOK
    <2>3. CASE ~(lockedBy[e] = w /\ e \notin published)
      BY <1>1, <1>7, <2>1, <2>3 DEF LoadClaimed
    <2>4. QED BY <2>2, <2>3
  <1>8. ASSUME NEW w \in Worker, NEW e \in Event, WriteRow(w, e),
               published' \subseteq delivered
        PROVE DeliveryInv'
    <2>1. delivered' = delivered
      BY <1>8 DEF WriteRow
    <2>2. ASSUME NEW u \in Worker, NEW f \in Event, Current(u, f)',
                 pc'[u] \in {"loadPublished", "writePublished"}
          PROVE f \in delivered'
      <3>1. CASE Finish(w)
        BY <2>1, <2>2, <3>1 DEF Finish, TypeOK
      <3>2. CASE NextEvent(w, e)
        BY <2>1, <2>2, <3>2 DEF NextEvent, TypeOK
      <3>3. QED BY <1>8, <3>1, <3>2 DEF WriteRow
    <2>3. QED BY <1>8, <2>1, <2>2
  <1>9. ASSUME NEW w \in Worker, NEW e \in Event, WritePublished(w, e) PROVE DeliveryInv'
    <2>1. e \in delivered
      BY <1>9 DEF WritePublished
    <2>2. published' \subseteq delivered /\ WriteRow(w, e)
      BY <1>9, <2>1 DEF WritePublished
    <2>3. QED BY <1>8, <2>2
  <1>10. ASSUME NEW w \in Worker, NEW e \in Event, WriteFailed(w, e) PROVE DeliveryInv'
    BY <1>8, <1>10 DEF WriteFailed
  <1>11. ASSUME NEW w \in Worker, Abandon(w) PROVE DeliveryInv'
    BY <1>1, <1>11 DEF Abandon, rowVars
  <1>12. CASE UNCHANGED vars
    BY <1>12 DEF vars, rowVars, workerVars
  <1>13. QED
    BY <1>2, <1>3, <1>4, <1>5, <1>6, <1>7, <1>9, <1>10, <1>11, <1>12
       DEF Next, Step, Acknowledge

LEMMA DeliveryInvariant == Spec => []DeliveryInv
  <1>1. Init => DeliveryInv
    BY DEF Init, DeliveryInv, PublishedWasDelivered
  <1>2. QED BY <1>1, DeliveryInductive, TypeCorrect, PTL DEF Spec

\* published_at is set only on events that EventBridge accepted.
THEOREM PublishedOnlyDelivered == Spec => []PublishedWasDelivered
  <1>1. DeliveryInv => PublishedWasDelivered
    BY DEF DeliveryInv
  <1>2. QED BY <1>1, DeliveryInvariant, PTL

\* The dispatcher's safety part of at-least-once delivery: every step of it is a
\* Store, a Deliver, an Acknowledge or a stuttering step of AtLeastOnce.
THEOREM AtLeastOnceRefined == Spec => ImplementsAtLeastOnce
  <1>1. Init => Abstract!Init
    BY DEF Init, Abstract!Init
  <1>2. TypeOK /\ DeliveryInv /\ [Next]_vars => [Abstract!Next]_Abstract!vars
    <2> SUFFICES ASSUME TypeOK, DeliveryInv, [Next]_vars
                 PROVE  Abstract!Next \/ UNCHANGED <<stored, delivered, published>>
      BY DEF Abstract!vars
    <2>1. ASSUME NEW e \in Event, AddEvent(e) PROVE Abstract!Next
      BY <2>1 DEF AddEvent, Abstract!Next, Abstract!Store
    <2>2. ASSUME NEW w \in Worker, PublishAny(w)
          PROVE  Abstract!Next \/ UNCHANGED <<stored, delivered, published>>
      BY <2>2 DEF PublishAny, Publish, Current, rowVars, TypeOK,
                  Abstract!Next, Abstract!Deliver
    <2>3. ASSUME NEW w \in Worker, NEW e \in Event, WritePublished(w, e)
          PROVE  Abstract!Next
      BY <2>3 DEF WritePublished, WriteRow, DeliveryInv,
                  Abstract!Next, Abstract!Acknowledge
    <2>4. ASSUME NEW w \in Worker, NEW e \in Event, WriteFailed(w, e)
          PROVE  UNCHANGED <<stored, delivered, published>>
      BY <2>4 DEF WriteFailed, WriteRow
    <2>5. ASSUME NEW w \in Worker,
                 BeginDispatch(w) \/ Claim(w) \/ Abandon(w)
                   \/ \E e \in Event : LoadClaimed(w, e)
          PROVE  UNCHANGED <<stored, delivered, published>>
      BY <2>5 DEF BeginDispatch, Claim, Abandon, LoadClaimed, rowVars
    <2>6. CASE Tick \/ UNCHANGED vars
      BY <2>6 DEF Tick, vars, rowVars
    <2>7. QED
      BY <2>1, <2>2, <2>3, <2>4, <2>5, <2>6 DEF Next, Step, Acknowledge
  <1>3. QED
    BY <1>1, <1>2, TypeCorrect, DeliveryInvariant, PTL
       DEF Spec, ImplementsAtLeastOnce, Abstract!Spec

-----------------------------------------------------------------------------
(* Leases.                                                                 *)

\* The row still carries the lease worker w took on event e.
Protected(w, e) ==
  /\ lockedBy[e] = w
  /\ lockedUntil[e] = Lease - age[w]
  /\ e \notin published

Unclaimed == \A w \in Worker : pc[w] \in {"idle", "claim"} => batch[w] = {}

\* LeaseExclusion relates two workers; what each step preserves relates a worker
\* to the row: the lease of a claimed event stays as it was taken until it runs
\* out, or until it is overwritten.
LeaseInv ==
  /\ Unclaimed
  /\ \A w \in Worker : \A e \in batch[w] :
       e \in overwritten \/ age[w] >= Lease \/ Protected(w, e)

\* When an iteration is always shorter than its lease, leases are never lost.
PromptInv ==
  /\ Unclaimed
  /\ \A w \in Worker : \A e \in batch[w] : Protected(w, e)

\* A worker holds events only while it processes a batch.
LEMMA UnclaimedInductive == TypeOK /\ Unclaimed /\ [Next]_vars => Unclaimed'
  <1> SUFFICES ASSUME TypeOK, Unclaimed, [Next]_vars PROVE Unclaimed'
    OBVIOUS
  <1> USE DEF TypeOK, Unclaimed
  <1>1. ASSUME NEW w \in Worker, Finish(w) PROVE Unclaimed'
    BY <1>1 DEF Finish
  <1>2. CASE UNCHANGED <<pc, batch>>
    BY <1>2
  <1>3. ASSUME NEW w \in Worker, BeginDispatch(w) PROVE Unclaimed'
    BY <1>3 DEF BeginDispatch
  <1>4. ASSUME NEW w \in Worker, Claim(w) PROVE Unclaimed'
    BY <1>1, <1>4 DEF Claim, TakeBatch
  <1>5. ASSUME NEW w \in Worker, PublishAny(w) PROVE Unclaimed'
    BY <1>5 DEF PublishAny, Publish
  <1>6. ASSUME NEW w \in Worker, NEW e \in Event, LoadClaimed(w, e) PROVE Unclaimed'
    BY <1>1, <1>6 DEF LoadClaimed
  <1>7. ASSUME NEW w \in Worker, NEW e \in Event, WriteRow(w, e) PROVE Unclaimed'
    BY <1>1, <1>7 DEF WriteRow, NextEvent
  <1>8. QED
    BY <1>1, <1>2, <1>3, <1>4, <1>5, <1>6, <1>7
       DEF Next, Step, Acknowledge, AddEvent, Tick, WritePublished, WriteFailed,
           Abandon, vars, workerVars

\* What one step does to a claimed event: it stays claimed by the same worker or is
\* newly claimed, and its lease ages, stays, or is cleared by a writing worker.
LEMMA ClaimedStep ==
  ASSUME TypeOK, Unclaimed, [Next]_vars,
         NEW u \in Worker, NEW f \in batch'[u]
  PROVE  \/ /\ f \in batch[u] /\ age'[u] = age[u]
            /\ lockedBy'[f] = lockedBy[f] /\ lockedUntil'[f] = lockedUntil[f]
            /\ (f \in published' <=> f \in published)
            /\ overwritten \subseteq overwritten'
         \/ /\ f \in batch[u] /\ age[u] < MaxDispatch /\ age'[u] = age[u] + 1
            /\ lockedBy'[f] = lockedBy[f] /\ lockedUntil'[f] = Older(lockedUntil[f])
            /\ published' = published /\ overwritten' = overwritten
         \/ Protected(u, f)'
         \/ /\ f \in batch[u] /\ age'[u] = age[u]
            /\ lockedUntil[f] <= 0
            /\ overwritten' = overwritten
         \/ \E w \in Worker \ {u} :
              /\ f \in batch[u] /\ f \in batch[w] /\ age'[u] = age[u]
              /\ overwritten \subseteq overwritten'
              /\ lockedBy[f] = w \/ f \in overwritten'
  <1> DEFINE Same == /\ f \in batch[u] /\ age'[u] = age[u]
                     /\ lockedBy'[f] = lockedBy[f] /\ lockedUntil'[f] = lockedUntil[f]
                     /\ (f \in published' <=> f \in published)
                     /\ overwritten \subseteq overwritten'
  <1>1. ASSUME NEW e \in Event, AddEvent(e) PROVE Same
    BY <1>1 DEF AddEvent, workerVars
  <1>2. CASE Tick
    <2>1. f \in batch[u] /\ f \in Event
      BY <1>2 DEF Tick, TypeOK
    <2>2. pc[u] # "idle"
      BY <2>1 DEF Unclaimed
    <2>3. QED BY <1>2, <2>1, <2>2 DEF Tick
  <1>3. ASSUME NEW w \in Worker, Finish(w), UNCHANGED rowVars, overwritten' = overwritten
        PROVE Same
    <2>1. u # w /\ batch'[u] = batch[u] /\ age'[u] = age[u]
      BY <1>3 DEF Finish, TypeOK
    <2>2. QED BY <1>3, <2>1 DEF rowVars
  <1>4. ASSUME NEW w \in Worker, BeginDispatch(w) \/ PublishAny(w) PROVE Same
    BY <1>4 DEF BeginDispatch, PublishAny, Publish, rowVars
  <1>5. ASSUME NEW w \in Worker, Claim(w)
        PROVE  \/ Same \/ Protected(u, f)'
               \/ /\ f \in batch[u] /\ age'[u] = age[u]
                  /\ lockedUntil[f] <= 0 /\ overwritten' = overwritten
    <2>1. UNCHANGED <<stored, published, attempts, nextAttempt, overwritten>>
      BY <1>5 DEF Claim
    <2>2. PICK got \in SUBSET Claimable(w) :
            \/ Finish(w) /\ UNCHANGED <<lockedBy, lockedUntil>>
            \/ TakeBatch(w, got)
      BY <1>5 DEF Claim
    <2>3. CASE Finish(w) /\ UNCHANGED <<lockedBy, lockedUntil>>
      BY <1>3, <2>1, <2>3 DEF rowVars
    <2>4. CASE TakeBatch(w, got)
      <3>1. f \in Event
        <4>1. got \subseteq stored
          BY DEF Claimable
        <4>2. QED BY <2>4, <4>1 DEF TakeBatch, TypeOK
      <3>2. age' = age
        BY <2>4 DEF TakeBatch
      <3>3. CASE u = w
        <4>1. f \in got /\ f \notin published
          BY <2>4, <3>3 DEF TakeBatch, TypeOK, Claimable
        <4>2. QED BY <2>1, <2>4, <3>1, <3>2, <3>3, <4>1 DEF TakeBatch, Protected
      <3>4. CASE u # w /\ f \in got
        <4>1. lockedUntil[f] <= -age[w] /\ age[w] \in Nat /\ lockedUntil[f] \in Int
          BY <3>1, <3>4, OutboxAssumption DEF Claimable, TypeOK, Time, OutboxAssumption
        <4>2. lockedUntil[f] <= 0
          BY <4>1
        <4>3. f \in batch[u]
          BY <2>4, <3>4 DEF TakeBatch, TypeOK
        <4>4. QED BY <2>1, <3>2, <4>2, <4>3
      <3>5. CASE u # w /\ f \notin got
        BY <2>1, <2>4, <3>1, <3>2, <3>5 DEF TakeBatch, TypeOK
      <3>6. QED BY <3>3, <3>4, <3>5
    <2>5. QED BY <2>2, <2>3, <2>4
  <1>6. ASSUME NEW w \in Worker, NEW e \in Event, LoadClaimed(w, e) PROVE Same
    <2>1. UNCHANGED rowVars /\ overwritten' = overwritten
      BY <1>6 DEF LoadClaimed
    <2>2. Finish(w) \/ (batch' = batch /\ age' = age)
      BY <1>6 DEF LoadClaimed
    <2>3. CASE batch' = batch /\ age' = age
      BY <2>1, <2>3 DEF rowVars
    <2>4. QED BY <1>3, <2>1, <2>2, <2>3
  <1>7. ASSUME NEW w \in Worker, NEW e \in Event, WriteRow(w, e), e \in batch[w],
               published' \in {published, published \cup {e}}
        PROVE  \/ Same
               \/ \E v \in Worker \ {u} :
                    /\ f \in batch[u] /\ f \in batch[v] /\ age'[u] = age[u]
                    /\ overwritten \subseteq overwritten'
                    /\ lockedBy[f] = v \/ f \in overwritten'
    <2>1. f \in batch[u] /\ age'[u] = age[u] /\ (u = w => f # e)
      <3>1. CASE Finish(w)
        BY <3>1 DEF Finish, TypeOK
      <3>2. CASE NextEvent(w, e)
        BY <3>2 DEF NextEvent, TypeOK
      <3>3. QED BY <1>7, <3>1, <3>2 DEF WriteRow
    <2>2. overwritten \subseteq overwritten' /\ f \in Event
      BY <1>7, <2>1 DEF WriteRow, TypeOK
    <2>3. CASE f # e
      BY <1>7, <2>1, <2>2, <2>3 DEF WriteRow, TypeOK
    <2>4. CASE f = e
      <3>1. u # w
        BY <2>1, <2>4
      <3>2. lockedBy[f] = w \/ f \in overwritten'
        BY <1>7, <2>4 DEF WriteRow
      <3>3. QED BY <1>7, <2>1, <2>2, <2>4, <3>1, <3>2
    <2>5. QED BY <2>3, <2>4
  <1>8. ASSUME NEW w \in Worker, NEW e \in Event, WritePublished(w, e) \/ WriteFailed(w, e)
        PROVE  /\ WriteRow(w, e) /\ e \in batch[w]
               /\ published' \in {published, published \cup {e}}
    BY <1>8 DEF WritePublished, WriteFailed, Current
  <1>9. ASSUME NEW w \in Worker, Abandon(w) PROVE Same
    BY <1>3, <1>9 DEF Abandon
  <1>10. CASE UNCHANGED vars
    BY <1>10 DEF vars, rowVars, workerVars
  <1>11. QED
    BY <1>1, <1>2, <1>4, <1>5, <1>6, <1>7, <1>8, <1>9, <1>10
       DEF Next, Step, Acknowledge

LEMMA LeaseInductive == TypeOK /\ LeaseInv /\ [Next]_vars => LeaseInv'
  <1> SUFFICES ASSUME TypeOK, LeaseInv, [Next]_vars PROVE LeaseInv'
    OBVIOUS
  <1>1. Unclaimed /\ Unclaimed'
    BY UnclaimedInductive DEF LeaseInv
  <1>2. TypeOK'
    BY TypeInductive
  <1>3. ASSUME NEW u \in Worker, NEW f \in batch'[u]
        PROVE  f \in overwritten' \/ age'[u] >= Lease \/ Protected(u, f)'
    <2>1. f \in batch[u] => f \in overwritten \/ age[u] >= Lease \/ Protected(u, f)
      BY DEF LeaseInv
    <2>2. /\ age[u] \in Int /\ age[u] >= 0 /\ Lease \in Int /\ MaxDispatch \in Nat
          /\ age'[u] \in Int
      BY <1>2, OutboxAssumption DEF TypeOK, OutboxAssumption
    <2>3. ASSUME f \in batch[u], age[u] < MaxDispatch, age'[u] = age[u] + 1,
                 lockedBy'[f] = lockedBy[f], lockedUntil'[f] = Older(lockedUntil[f]),
                 published' = published, overwritten' = overwritten
          PROVE  f \in overwritten' \/ age'[u] >= Lease \/ Protected(u, f)'
      <3>1. CASE age[u] + 1 >= Lease
        BY <2>2, <2>3, <3>1
      <3>2. CASE age[u] + 1 < Lease /\ Protected(u, f)
        <4>1. Older(Lease - age[u]) = Lease - age[u] - 1
          BY <2>2, <3>2 DEF Older, Past
        <4>2. QED BY <2>2, <2>3, <3>2, <4>1 DEF Protected
      <3>3. QED BY <2>1, <2>2, <2>3, <3>1, <3>2
    <2>4. ASSUME f \in batch[u], age'[u] = age[u], lockedUntil[f] <= 0,
                 overwritten' = overwritten
          PROVE  f \in overwritten' \/ age'[u] >= Lease
      BY <2>1, <2>2, <2>4 DEF Protected
    <2>5. ASSUME NEW w \in Worker \ {u}, f \in batch[u], age'[u] = age[u],
                 overwritten \subseteq overwritten',
                 lockedBy[f] = w \/ f \in overwritten'
          PROVE  f \in overwritten' \/ age'[u] >= Lease
      BY <2>1, <2>5 DEF Protected
    <2>6. ASSUME f \in batch[u], age'[u] = age[u],
                 lockedBy'[f] = lockedBy[f], lockedUntil'[f] = lockedUntil[f],
                 f \in published' <=> f \in published, overwritten \subseteq overwritten'
          PROVE  f \in overwritten' \/ age'[u] >= Lease \/ Protected(u, f)'
      BY <2>1, <2>6 DEF Protected
    <2>7. QED BY ClaimedStep, <1>1, <2>3, <2>4, <2>5, <2>6
  <1>4. QED BY <1>1, <1>3 DEF LeaseInv

LEMMA LeaseInvariant == Spec => []LeaseInv
  <1>1. Init => LeaseInv
    BY DEF Init, LeaseInv, Unclaimed
  <1>2. QED BY <1>1, LeaseInductive, TypeCorrect, PTL DEF Spec

\* Two workers under live leases share an event only if its lease was overwritten.
THEOREM LeasesExclude == Spec => []LeaseExclusion
  <1>1. TypeOK /\ LeaseInv => LeaseExclusion
    <2> SUFFICES ASSUME TypeOK, LeaseInv,
                        NEW u \in Worker, NEW v \in Worker, u # v,
                        LeaseLive(u), LeaseLive(v),
                        NEW e \in batch[u] \cap batch[v], e \notin overwritten
                 PROVE  FALSE
      BY DEF LeaseExclusion
    <2>1. ~(age[u] >= Lease) /\ ~(age[v] >= Lease)
      BY OutboxAssumption DEF LeaseLive, TypeOK, OutboxAssumption
    <2>2. Protected(u, e) /\ Protected(v, e)
      BY <2>1 DEF LeaseInv
    <2>3. QED BY <2>2 DEF Protected
  <1>2. QED BY <1>1, LeaseInvariant, TypeCorrect, PTL

\* A published event is delivered again only after its lease ran out or was overwritten.
THEOREM RedeliveryOnlyAfterExpiry == Spec => RedeliveryNeedsExpiry
  <1>1. LeaseInv /\ [Next]_vars =>
          [\A w \in Worker, e \in published :
             PublishAny(w) /\ Current(w, e) => age[w] >= Lease \/ e \in overwritten]_vars
    BY DEF LeaseInv, Protected, Current
  <1>2. QED BY <1>1, LeaseInvariant, PTL DEF Spec, RedeliveryNeedsExpiry

-----------------------------------------------------------------------------
(* Iterations shorter than their lease.                                    *)

LEMMA PromptInductive ==
  ASSUME MaxDispatch < Lease, TypeOK, PromptInv, [Next]_vars
  PROVE  PromptInv'
  <1>1. Unclaimed /\ Unclaimed'
    BY UnclaimedInductive DEF PromptInv
  <1>2. ASSUME NEW u \in Worker, NEW f \in batch'[u]
        PROVE  Protected(u, f)'
    <2>1. \A w \in Worker : f \in batch[w] => Protected(w, f)
      BY DEF PromptInv
    <2>2. /\ age[u] \in 0 .. MaxDispatch /\ Lease \in Int /\ MaxDispatch \in Nat
      BY OutboxAssumption DEF TypeOK, OutboxAssumption
    <2>3. ASSUME f \in batch[u], age[u] < MaxDispatch, age'[u] = age[u] + 1,
                 lockedBy'[f] = lockedBy[f], lockedUntil'[f] = Older(lockedUntil[f]),
                 published' = published
          PROVE  Protected(u, f)'
      <3>1. Older(Lease - age[u]) = Lease - age[u] - 1
        BY <2>2 DEF Older, Past
      <3>2. QED BY <2>1, <2>2, <2>3, <3>1 DEF Protected
    <2>4. ~(f \in batch[u] /\ lockedUntil[f] <= 0)
      BY <2>1, <2>2 DEF Protected
    <2>5. ~\E w \in Worker \ {u} : f \in batch[u] /\ f \in batch[w]
      BY <2>1 DEF Protected
    <2>6. ASSUME f \in batch[u], age'[u] = age[u],
                 lockedBy'[f] = lockedBy[f], lockedUntil'[f] = lockedUntil[f],
                 f \in published' <=> f \in published
          PROVE  Protected(u, f)'
      BY <2>1, <2>6 DEF Protected
    <2>7. QED BY ClaimedStep, <1>1, <2>3, <2>4, <2>5, <2>6
  <1>3. QED BY <1>1, <1>2 DEF PromptInv

LEMMA PromptInvariant ==
  ASSUME MaxDispatch < Lease
  PROVE  Spec => []PromptInv
  <1>1. Init => PromptInv
    BY DEF Init, PromptInv, Unclaimed
  <1>2. TypeOK /\ PromptInv /\ [Next]_vars => PromptInv'
    BY PromptInductive
  <1>3. QED BY <1>1, <1>2, TypeCorrect, PTL DEF Spec

\* Every acknowledgement of an iteration that ends before its lease finds its row
\* (dispatcher.py 271-275, 330-334).
THEOREM PromptAcknowledgementAccepted ==
  ASSUME MaxDispatch < Lease
  PROVE  Spec => []AcknowledgementAccepted
  <1>1. PromptInv => AcknowledgementAccepted
    BY DEF PromptInv, Protected, AcknowledgementAccepted, Current
  <1>2. QED BY <1>1, PromptInvariant, PTL

\* Every event has one such worker at most, and none once it is published.
THEOREM PromptIsExclusive ==
  ASSUME MaxDispatch < Lease
  PROVE  Spec => []OneWorkerPerEvent
  <1>1. PromptInv => OneWorkerPerEvent
    BY DEF PromptInv, Protected, OneWorkerPerEvent
  <1>2. QED BY <1>1, PromptInvariant, PTL

\* ... and an acknowledgement is only ever written by the owner of the lease.
THEOREM PromptOwnerAcknowledges ==
  ASSUME MaxDispatch < Lease
  PROVE  Spec => OnlyOwnerAcknowledges
  <1>1. PromptInv /\ [Next]_vars =>
          [\A w \in Worker, e \in Event :
             WritePublished(w, e) \/ WriteFailed(w, e) => lockedBy[e] = w]_vars
    BY DEF PromptInv, Protected, Current, WritePublished, WriteFailed
  <1>2. QED BY <1>1, PromptInvariant, PTL DEF Spec, OnlyOwnerAcknowledges

\* The counts a worker has read are those of the rows.
CountInv ==
  \A w \in Worker : \A e \in batch[w] :
    /\ claimedAttempts[w][e] = attempts[e]
    /\ pc[w] = "writeFailed" /\ Current(w, e) => loadedAttempts[w] = attempts[e]

LEMMA CountInductive ==
  TypeOK /\ PromptInv /\ CountInv /\ [Next]_vars => CountInv'
  <1> SUFFICES ASSUME TypeOK, PromptInv, CountInv, [Next]_vars PROVE CountInv'
    OBVIOUS
  <1> USE DEF TypeOK, CountInv, Current
  <1>1. ASSUME NEW w \in Worker, Finish(w), attempts' = attempts PROVE CountInv'
    BY <1>1 DEF Finish
  <1>2. ASSUME NEW e \in Event, AddEvent(e) PROVE CountInv'
    BY <1>2 DEF AddEvent, workerVars
  <1>3. CASE Tick
    BY <1>3 DEF Tick
  <1>4. ASSUME NEW w \in Worker, BeginDispatch(w) PROVE CountInv'
    BY <1>4 DEF BeginDispatch, rowVars
  <1>5. ASSUME NEW w \in Worker, Claim(w) PROVE CountInv'
    <2>1. attempts' = attempts
      BY <1>5 DEF Claim
    <2>2. PICK got \in SUBSET Claimable(w) : Finish(w) \/ TakeBatch(w, got)
      BY <1>5 DEF Claim
    <2>3. CASE TakeBatch(w, got)
      <3>1. got \subseteq Event
        BY DEF Claimable
      <3>2. QED BY <2>1, <2>3, <3>1 DEF TakeBatch
    <2>4. QED BY <1>1, <2>1, <2>2, <2>3
  <1>6. ASSUME NEW w \in Worker, PublishAny(w) PROVE CountInv'
    BY <1>6 DEF PublishAny, Publish, rowVars
  <1>7. ASSUME NEW w \in Worker, NEW e \in Event, LoadClaimed(w, e) PROVE CountInv'
    <2>1. attempts' = attempts
      BY <1>7 DEF LoadClaimed, rowVars
    <2>2. CASE lockedBy[e] = w /\ e \notin published
      <3>1. /\ batch' = batch /\ claimedAttempts' = claimedAttempts
            /\ loadedAttempts' = [loadedAttempts EXCEPT ![w] = attempts[e]]
            /\ \A u \in Worker \ {w} : pc'[u] = pc[u]
            /\ Current(w, e)
        BY <1>7, <2>2 DEF LoadClaimed
      <3>2. \A f \in Event : Current(w, f) => f = e
        BY <3>1, CurrentUnique
      <3>3. QED BY <2>1, <3>1, <3>2
    <2>3. CASE ~(lockedBy[e] = w /\ e \notin published)
      BY <1>1, <1>7, <2>1, <2>3 DEF LoadClaimed
    <2>4. QED BY <2>2, <2>3
  <1>8. ASSUME NEW w \in Worker, NEW e \in Event, WriteRow(w, e), e \in batch[w],
               \A f \in Event \ {e} : attempts'[f] = attempts[f]
        PROVE CountInv'
    <2>1. \A u \in Worker \ {w} : e \notin batch[u]
      BY <1>8 DEF PromptInv, Protected
    <2>2. /\ batch'[w] = batch[w] \ {e} \/ batch'[w] = {}
          /\ \A f \in Event \ {e} : f \in batch'[w] =>
               claimedAttempts'[w][f] = claimedAttempts[w][f]
          /\ pc'[w] # "writeFailed"
      BY <1>8 DEF WriteRow, Finish, NextEvent
    <2>3. \A u \in Worker \ {w} :
            /\ batch'[u] = batch[u] /\ pc'[u] = pc[u]
            /\ claimedAttempts'[u] = claimedAttempts[u]
            /\ loadedAttempts'[u] = loadedAttempts[u]
      BY <1>8 DEF WriteRow, Finish, NextEvent
    <2>4. ASSUME NEW u \in Worker, NEW f \in batch'[u]
          PROVE /\ claimedAttempts'[u][f] = attempts'[f]
                /\ pc'[u] = "writeFailed" /\ Current(u, f)' => loadedAttempts'[u] = attempts'[f]
      <3>1. CASE u = w
        BY <1>8, <2>2, <2>4, <3>1
      <3>2. CASE u # w
        BY <1>8, <2>1, <2>3, <2>4, <3>2
      <3>3. QED BY <3>1, <3>2
    <2>5. QED BY <2>4
  <1>9. ASSUME NEW w \in Worker, NEW e \in Event, WritePublished(w, e) \/ WriteFailed(w, e)
        PROVE CountInv'
    BY <1>8, <1>9 DEF WritePublished, WriteFailed
  <1>10. ASSUME NEW w \in Worker, Abandon(w) PROVE CountInv'
    BY <1>1, <1>10 DEF Abandon, rowVars
  <1>11. CASE UNCHANGED vars
    BY <1>11 DEF vars, rowVars, workerVars
  <1>12. QED
    BY <1>2, <1>3, <1>4, <1>5, <1>6, <1>7, <1>9, <1>10, <1>11 DEF Next, Step, Acknowledge

\* ... and no failure is lost, and the delays grow with the number of failures.
THEOREM PromptFailuresCounted ==
  ASSUME MaxDispatch < Lease
  PROVE  Spec => EveryFailureCounted
  <1>1. Init => CountInv
    BY DEF Init, CountInv
  <1>2. TypeOK /\ CountInv /\ [Next]_vars =>
          [\A w \in Worker, e \in Event : WriteFailed(w, e) =>
             /\ attempts'[e] = OneMore(attempts[e])
             /\ nextAttempt'[e] = RetryAfter(attempts[e]) - age[w]]_vars
    BY DEF TypeOK, CountInv, WriteFailed, Current
  <1>3. QED
    BY <1>1, <1>2, CountInductive, TypeCorrect, PromptInvariant, PTL
       DEF Spec, EveryFailureCounted
=============================================================================
